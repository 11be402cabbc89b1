---------------------------- MODULE PolicyStore ----------------------------
(***************************************************************************)
(* The Structured Policy Store: the rules, policy_versions and audit_events*)
(* tables and the HTTP requests that change them -- extraction and         *)
(* re-ingestion, the review of Candidate Rules, manual Rules, publishing.  *)
(*                                                                         *)
(* A request is one SQLAlchemy session.  It reads (autoflush is off, READ  *)
(* COMMITTED, no row is locked by a read), decides on what it read, and    *)
(* writes whole JSON payloads, audit rows included, in one transaction     *)
(* that ends in session.commit().  Requests run in a thread pool, so any   *)
(* number of them sit between their read and their commit.  The model has  *)
(* a step for the read-and-decide half of each handler, which leaves the   *)
(* pending writes in txn, and one step that commits them.  The row locks   *)
(* the flush takes only order the commits; they protect nothing that was   *)
(* read before.                                                            *)
(***************************************************************************)
EXTENDS Naturals, Sequences, FiniteSets, PolicyDiff

CONSTANTS
  Requests,      \* identities of the HTTP requests, each made once
  RuleIds,       \* primary keys of the rules table
  RuleOrder,     \* RuleIds in the order the database sorts them
  VersionIds,    \* Policy Version ids an approver may name
  Documents,     \* Policy Documents
  Runs,          \* Extraction Runs
  RunDocument,   \* Runs -> Documents
  Statements,    \* what a rule says: text, scope, applicability, exceptions
  ShapeOf,       \* Statements -> number-normalised form
  Anchor,        \* Runs -> Statements -> how the text resolves in the
                 \* document version of the run
  Extractions,   \* structured outputs that passed schema validation
  Seed,          \* rules left by an earlier Extraction Run
  Edits,         \* bodies of PATCH /candidate-rules/{id}
  ManualValues,  \* bodies of POST /rules/manual
  None

Classes == {"enforceable", "guidance", "subjective"}
AnchorKinds == {"exact", "approximate", "none"}
LifecycleStates == {"extracted", "in_review", "approved", "published", "rejected"}
EditableStates == {"extracted", "in_review"}
FlagCodes == {"unresolvable_citation", "approximate_citation"}

(* A rule's content.  condition says whether it carries a machine-checkable *)
(* condition; citation is the document it is anchored to.                   *)
Value == [origin    : {"extracted", "manual"},
          statement : Statements,
          class     : Classes,
          condition : BOOLEAN,
          citation  : Documents \cup {None}]

(* The payload column: the current value and state, the value as extracted, *)
(* the value last committed by a review with its state, flags and category. *)
(* An extracted rule knows its run and the value as extracted.              *)
Payload == [state     : LifecycleStates,
            value     : Value,
            run       : Runs \cup {None},
            extracted : Value \cup {None},
            committed : [state : LifecycleStates, value : Value] \cup {None},
            flags     : SUBSET FlagCodes,
            category  : DiffCategories \cup {None}]
Row == {row \in Payload : row.value.origin = "extracted"
                            => row.run # None /\ row.extracted # None}

(* A drafted rule of a structured output: quote is the text it cites. *)
Draft == [statement : Statements, class : Classes, condition : BOOLEAN,
          quote : Statements]
Extraction == [run : Runs, drafts : UNION {[S -> Draft] : S \in SUBSET RuleIds}]

EditFields == {"statement", "class", "condition", "citation"}

Snapshot == [RuleIds -> Value \cup {None}]
Version == [createdAt : Nat, rules : Snapshot]

(* An audit row.  value is history: the stored row names entity and actor, *)
(* the value is what the same transaction wrote for it.                    *)
RuleActions == {"candidate_rule.edited", "candidate_rule.approved",
                "candidate_rule.rejected", "rule.created"}
OtherActions == {"policy_version.published", "document_version.uploaded",
                 "extraction_run.created", "extraction_run.failed"}
Event == [action : RuleActions, entity : RuleIds, value : Value,
          request : Requests]
         \cup [action : OtherActions, entity : VersionIds \cup Runs \cup Documents,
               value : {None}, request : Requests]

Replies == {"ok", "not_found", "conflict", "invalid", "error", "lost"}

(* The uncommitted half of a session: the rows it loaded and will rewrite, *)
(* the payloads it will write, the ids it inserts, the Policy Version with *)
(* its snapshot (for a re-ingestion, the baseline it read), the audit rows *)
(* it adds, the reply it will give.                                        *)
Txn == [seen      : [RuleIds -> Row \cup {None}],
        writes    : [RuleIds -> Row \cup {None}],
        inserts   : SUBSET RuleIds,
        run       : Runs \cup {None},
        version   : VersionIds \cup {None},
        startedAt : Nat,
        snapshot  : Snapshot,
        events    : SUBSET Event,
        reply     : Replies]

Stages == {"idle", "diffing", "selecting", "loaded"}

ASSUME StoreAssumption ==
  /\ RunDocument \in [Runs -> Documents]
  /\ Anchor \in [Runs -> [Statements -> AnchorKinds]]
  /\ Extractions \subseteq Extraction
  /\ Seed \in Extraction
  /\ \A u \in Edits :
       /\ DOMAIN u \subseteq EditFields
       /\ "statement" \in DOMAIN u => u.statement \in Statements
       /\ "class" \in DOMAIN u => u.class \in Classes
       /\ "condition" \in DOMAIN u => u.condition \in BOOLEAN
       /\ "citation" \in DOMAIN u => u.citation \in Documents \cup {None}
  /\ ManualValues \subseteq {v \in Value : v.origin = "manual"}
  /\ None \notin Payload \cup Value \cup VersionIds \cup Version
                 \cup Documents \cup Runs
  /\ None \notin [state : LifecycleStates, value : Value]

VARIABLES rules,      \* the rules table
          versions,   \* the policy_versions table
          audit,      \* the audit_events table
          status,     \* where each request is, or its reply
          txn,        \* the pending transaction of each request
          clock       \* the database clock: transactions started so far

vars == <<rules, versions, audit, status, txn, clock>>

NoRows == [r \in RuleIds |-> None]
NoTxn == [seen |-> NoRows, writes |-> NoRows, inserts |-> {}, run |-> None,
          version |-> None, startedAt |-> 0, snapshot |-> NoRows, events |-> {},
          reply |-> "ok"]

-----------------------------------------------------------------------------
(* Validators (rules/models.py) *)

(* CandidateRuleValue: only an enforceable rule may carry a condition. *)
CandidateValid(v) == v.class # "enforceable" => ~v.condition

(* Rule: an extracted rule is cited; an enforceable one has a condition. *)
RuleValid(v) == /\ v.origin = "extracted" => v.citation # None
                /\ v.class = "enforceable" <=> v.condition

-----------------------------------------------------------------------------
(* Rows *)

FlagsFor(anchor) == CASE anchor = "none"        -> {"unresolvable_citation"}
                      [] anchor = "approximate" -> {"approximate_citation"}
                      [] OTHER                  -> {}

(* _resolve_citation: the quote, or else the statement itself. *)
ResolveDraft(run, d) == IF Anchor[run][d.quote] # "none"
                        THEN Anchor[run][d.quote]
                        ELSE Anchor[run][d.statement]

(* _materialize_candidate_rules and create_rule. *)
CandidateRow(run, d) ==
  LET anchor == ResolveDraft(run, d)
      v == [origin |-> "extracted", statement |-> d.statement,
            class |-> d.class, condition |-> d.condition,
            citation |-> IF anchor = "none" THEN None ELSE RunDocument[run]]
  IN  [state |-> "extracted", value |-> v, run |-> run, extracted |-> v,
       committed |-> None, flags |-> FlagsFor(anchor), category |-> None]

ManualRow(v) == [state |-> "approved", value |-> v, run |-> None,
                 extracted |-> None, committed |-> None, flags |-> {},
                 category |-> None]

(* update_candidate_rule_review: the request's fields over the current     *)
(* value, then _reconcile_citation_and_qa_flags.                           *)
Merged(v, u) == [f \in DOMAIN v |-> IF f \in DOMAIN u THEN u[f] ELSE v[f]]

ReconciledKeepingFlag(row, v) ==   \* mutant of Reconciled
  LET anchor == Anchor[row.run][v.statement]
  IN  IF v.citation # None THEN [value |-> v, flags |-> row.flags]
      ELSE [value |-> [v EXCEPT !.citation = IF anchor = "none" THEN None
                                             ELSE RunDocument[row.run]],
            flags |-> FlagsFor(anchor)]

Reconciled(row, v) ==
  LET anchor == Anchor[row.run][v.statement]
  IN  IF v.citation # None
      THEN [value |-> v, flags |-> row.flags \ {"unresolvable_citation"}]
      ELSE IF anchor = "none"
      THEN [value |-> v, flags |-> row.flags \cup {"unresolvable_citation"}]
      ELSE [value |-> [v EXCEPT !.citation = RunDocument[row.run]],
            flags |-> FlagsFor(anchor)]

(* _persist_candidate_rule_review: the rest of the payload is kept. *)
ReviewedOver(row, st, v, fl) ==    \* mutant of Reviewed
  [row EXCEPT !.state = st, !.value = v, !.flags = fl, !.extracted = v,
              !.committed = [state |-> st, value |-> v]]
Reviewed(row, st, v, fl) ==
  [row EXCEPT !.state = st, !.value = v, !.flags = fl,
              !.committed = [state |-> st, value |-> v]]

EditedRow(row, u) == LET n == Reconciled(row, Merged(row.value, u))
                     IN  Reviewed(row, "in_review", n.value, n.flags)
ApprovedRow(row) == Reviewed(row, "approved", row.value, row.flags)
RejectedToExtracted(row) ==        \* mutant of RejectedRow
  Reviewed(row, "rejected", row.extracted, row.flags)
RejectedRow(row) == Reviewed(row, "rejected", row.value, row.flags)

(* _published_rule_payload: the committed copy, when there is one, moves to *)
(* published as well.                                                       *)
PublishedRow(row) ==
  [row EXCEPT !.state = "published",
              !.committed = IF @ = None THEN None
                            ELSE [@ EXCEPT !.state = "published"]]

(* The Rule a snapshot takes from a row: the current value. *)
CommittedValue(row) ==             \* mutant of PublishedValue
  IF row.committed = None THEN None ELSE row.committed.value
PublishedValue(row) == row.value

IsCandidate(row) == row # None /\ row.value.origin = "extracted"
IsNotRejected(row) == row # None /\ row.state # "rejected"     \* mutant
IsApproved(row) == row # None /\ row.state \in {"approved", "published"}

-----------------------------------------------------------------------------
(* Sessions *)

EventOf(q, action, entity, v) ==
  [action |-> action, entity |-> entity, value |-> v, request |-> q]

Finish(q, reply) == /\ status' = [status EXCEPT ![q] = reply]
                    /\ txn' = [txn EXCEPT ![q] = NoTxn]

Refuse(q, reply) == /\ Finish(q, reply)
                    /\ UNCHANGED <<rules, versions, audit, clock>>

(* The handler has assigned new payloads; a payload equal to the loaded one *)
(* emits no UPDATE.                                                         *)
Dirty(payloads) == [r \in RuleIds |-> IF payloads[r] = rules[r]
                                      THEN None ELSE payloads[r]]
Base(writes) == [r \in RuleIds |-> IF writes[r] = None THEN None ELSE rules[r]]

Pending(q, payloads, new, ev) ==
  LET w == Dirty(payloads)
  IN  /\ status' = [status EXCEPT ![q] = "loaded"]
      /\ txn' = [txn EXCEPT ![q].seen = Base(w), ![q].writes = w,
                            ![q].inserts = new, ![q].events = ev]
      /\ UNCHANGED <<rules, versions, audit, clock>>

Only(r, row) == [NoRows EXCEPT ![r] = row]
-----------------------------------------------------------------------------
(* Extraction and re-ingestion *)

FreshRows(x) == [r \in RuleIds |-> IF r \in DOMAIN x.drafts
                                   THEN CandidateRow(x.run, x.drafts[r]) ELSE None]

(* No attempt of the model produced an output that validates: nothing of  *)
(* it is stored, the failure is audited, the client gets 422.              *)
RejectedOutput(q, x) ==
  /\ status' = [status EXCEPT ![q] = "loaded"]
  /\ txn' = [txn EXCEPT
               ![q].events = {EventOf(q, "extraction_run.failed", x.run, None)},
               ![q].reply = "invalid"]
  /\ UNCHANGED <<rules, versions, audit, clock>>

OutputValid(x) == \A r \in DOMAIN x.drafts : CandidateValid(x.drafts[r])

(* POST .../extraction-runs: one Candidate Rule per draft. *)
Extract(q, x) ==
  /\ status[q] = "idle"
  /\ IF OutputValid(x)
     THEN Pending(q, FreshRows(x), DOMAIN x.drafts,
                  {EventOf(q, "extraction_run.created", x.run, None)})
     ELSE RejectedOutput(q, x)

(* get_latest_policy_version_snapshot: newest created_at first. *)
IsLatest(v) ==
  /\ versions[v] # None
  /\ \A w \in VersionIds :
       versions[w] # None => versions[w].createdAt <= versions[v].createdAt

LatestSnapshot ==
  IF \E v \in VersionIds : IsLatest(v)
  THEN versions[CHOOSE v \in VersionIds : IsLatest(v)].rules
  ELSE NoRows

(* POST .../reingestions, up to the read of the baseline Policy Version. *)
ReingestBegin(q, x) ==
  /\ status[q] = "idle"
  /\ IF OutputValid(x)
     THEN /\ status' = [status EXCEPT ![q] = "diffing"]
          /\ txn' = [txn EXCEPT ![q].run = x.run,
                                ![q].writes = FreshRows(x),
                                ![q].inserts = DOMAIN x.drafts,
                                ![q].snapshot = LatestSnapshot]
          /\ UNCHANGED <<rules, versions, audit, clock>>
     ELSE RejectedOutput(q, x)

(* The candidates and the baseline rules of the document, as PolicyDiff    *)
(* wants them, in id order.                                                *)
SignatureOf(v) ==
  [exact   |-> <<v.statement, v.class, v.condition>>,
   relaxed |-> <<ShapeOf[v.statement], v.class, v.condition>>]
AsRules(values) ==
  LET Present(r) == values[r] # None
      ids == SelectSeq(RuleOrder, Present)
  IN  [i \in DOMAIN ids |-> [id |-> ids[i],
                             signature |-> SignatureOf(values[ids[i]])]]

ReingestionDiff(fresh, baseline, doc) ==
  LET cands == [r \in RuleIds |-> IF fresh[r] = None THEN None
                                  ELSE fresh[r].value]
      ofDoc == [r \in RuleIds |->
                  IF baseline[r] # None /\ baseline[r].origin = "extracted"
                     /\ baseline[r].citation = doc
                  THEN baseline[r] ELSE None]
      new == AsRules(cands)
      old == AsRules(ofDoc)
      d == Diff(new, old)
  IN  [added     |-> {new[i].id : i \in d.added},
       changed   |-> {new[p.candidate].id : p \in d.changed},
       unchanged |-> {new[p.candidate].id : p \in d.unchanged},
       removed   |-> {old[i].id : i \in d.removed}]

(* _apply_reingestion_diff_categories: clear the category of every         *)
(* extracted rule citing the document, then set the new ones.  Removed     *)
(* rules that still have a row get theirs too.                             *)
CategoryAsState(d, r) ==           \* mutant of CategoryOf
  IF r \in d.removed THEN "withdrawn" ELSE None
CategoryOf(d, r) ==
  CASE r \in d.added     -> "added"
    [] r \in d.changed   -> "changed"
    [] r \in d.unchanged -> "unchanged"
    [] r \in d.removed   -> "removed"
    [] OTHER             -> None

CitesDocument(row, doc) == IsCandidate(row) /\ doc \in {row.value.citation,
                                                        row.extracted.citation}

Categorised(session, d, doc) ==
  [r \in RuleIds |->
     IF session[r] = None THEN None
     ELSE IF CategoryOf(d, r) # None
     THEN [session[r] EXCEPT !.category = CategoryOf(d, r)]
     ELSE IF CitesDocument(session[r], doc)
     THEN [session[r] EXCEPT !.category = None]
     ELSE session[r]]

ReingestApply(q) ==
  LET t == txn[q]
      doc == RunDocument[t.run]
      session == [r \in RuleIds |-> IF t.writes[r] # None THEN t.writes[r]
                                    ELSE rules[r]]
      d == ReingestionDiff(t.writes, t.snapshot, doc)
  IN  /\ status[q] = "diffing"
      /\ Pending(q, Categorised(session, d, doc), t.inserts,
                 {EventOf(q, "document_version.uploaded", doc, None),
                  EventOf(q, "extraction_run.created", t.run, None)})

-----------------------------------------------------------------------------
(* Candidate Rule review *)

EditableUnlessPublished(row) == row.state # "published"        \* mutant
Editable(row) == row.state \in EditableStates

(* PATCH /candidate-rules/{id} *)
Edit(q, r, u) ==
  /\ status[q] = "idle"
  /\ IF ~IsCandidate(rules[r]) THEN Refuse(q, "not_found")
     ELSE IF ~Editable(rules[r]) THEN Refuse(q, "conflict")
     ELSE IF ~CandidateValid(Merged(rules[r].value, u)) THEN Refuse(q, "invalid")
     ELSE LET row == EditedRow(rules[r], u)
          IN  Pending(q, Only(r, row), {},
                      {EventOf(q, "candidate_rule.edited", r, row.value)})

(* POST /candidate-rules/{id}/approvals *)
Approve(q, r) ==
  /\ status[q] = "idle"
  /\ IF ~IsCandidate(rules[r]) THEN Refuse(q, "not_found")
     ELSE IF ~Editable(rules[r]) THEN Refuse(q, "conflict")
     ELSE IF ~RuleValid(rules[r].value) THEN Refuse(q, "invalid")
     ELSE Pending(q, Only(r, ApprovedRow(rules[r])), {},
                  {EventOf(q, "candidate_rule.approved", r, rules[r].value)})

(* POST /candidate-rules/approvals/bulk: those of S that can be approved  *)
(* are, the others are reported.                                           *)
ApprovableUnvalidated(r) ==        \* mutant of Approvable
  IsCandidate(rules[r]) /\ Editable(rules[r])
Approvable(r) == IsCandidate(rules[r]) /\ Editable(rules[r])
                 /\ RuleValid(rules[r].value)

BulkApprove(q, S) ==
  LET done == {r \in S : Approvable(r)}
  IN  /\ status[q] = "idle"
      /\ Pending(q, [r \in RuleIds |-> IF r \in done THEN ApprovedRow(rules[r])
                                       ELSE None], {},
                 {EventOf(q, "candidate_rule.approved", r, rules[r].value) :
                    r \in done})

(* POST /candidate-rules/{id}/rejections *)
Reject(q, r) ==
  /\ status[q] = "idle"
  /\ IF ~IsCandidate(rules[r]) THEN Refuse(q, "not_found")
     ELSE IF ~Editable(rules[r]) THEN Refuse(q, "conflict")
     ELSE Pending(q, Only(r, RejectedRow(rules[r])), {},
                  {EventOf(q, "candidate_rule.rejected", r, rules[r].value)})

(* POST /rules/manual: born approved. *)
CreateManual(q, r, v) ==
  /\ status[q] = "idle"
  /\ IF ~RuleValid(v) THEN Refuse(q, "error")
     ELSE Pending(q, Only(r, ManualRow(v)), {r},
                  {EventOf(q, "rule.created", r, v)})

-----------------------------------------------------------------------------
(* Publishing: POST /policy-versions *)

(* The duplicate check.  It opens the transaction, whose start time will  *)
(* be the created_at of the Policy Version.                                *)
PublishBegin(q, v) ==
  /\ status[q] = "idle"
  /\ IF versions[v] # None THEN Refuse(q, "conflict")
     ELSE /\ status' = [status EXCEPT ![q] = "selecting"]
          /\ txn' = [txn EXCEPT ![q].version = v, ![q].startedAt = clock]
          /\ clock' = clock + 1
          /\ UNCHANGED <<rules, versions, audit>>

(* The read of the rules: all of the approved ones, and the published ones *)
(* of every earlier Policy Version.                                        *)
PublishRead(q) ==
  LET chosen == {r \in RuleIds : IsApproved(rules[r])}
      w == Dirty([r \in RuleIds |-> IF r \in chosen THEN PublishedRow(rules[r])
                                    ELSE None])
  IN  /\ status[q] = "selecting"
      /\ IF \E r \in chosen : ~RuleValid(rules[r].value) THEN Refuse(q, "error")
         ELSE IF chosen = {} THEN Refuse(q, "invalid")
         ELSE /\ status' = [status EXCEPT ![q] = "loaded"]
              /\ txn' = [txn EXCEPT
                   ![q].seen = Base(w),
                   ![q].writes = w,
                   ![q].snapshot = [r \in RuleIds |-> IF r \in chosen
                                       THEN PublishedValue(rules[r])
                                       ELSE None],
                   ![q].events = {EventOf(q, "policy_version.published",
                                          txn[q].version, None)}]
              /\ UNCHANGED <<rules, versions, audit, clock>>

-----------------------------------------------------------------------------
(* The end of a request *)

DuplicateRuleKey(t) == \E r \in t.inserts : rules[r] # None    \* mutant
DuplicateKey(t) == \/ \E r \in t.inserts : rules[r] # None
                   \/ t.version # None /\ versions[t.version] # None

(* session.commit(): all of it or, on a primary key taken meanwhile, none. *)
Commit(q) ==
  LET t == txn[q]
  IN  /\ status[q] = "loaded"
      /\ IF DuplicateKey(t) THEN Refuse(q, "error")
         ELSE /\ rules' = [r \in RuleIds |-> IF t.writes[r] # None
                                             THEN t.writes[r] ELSE rules[r]]
              /\ versions' = [v \in VersionIds |->
                                IF v = t.version
                                THEN [createdAt |-> t.startedAt,
                                      rules |-> t.snapshot]
                                ELSE versions[v]]
              /\ audit' = audit \cup t.events
              /\ Finish(q, t.reply)
              /\ UNCHANGED clock

(* The process or the connection dies first: the database rolls back. *)
Lose(q) == /\ status[q] \in Stages \ {"idle"}
           /\ Refuse(q, "lost")

-----------------------------------------------------------------------------
Init == /\ rules = FreshRows(Seed)
        /\ versions = [v \in VersionIds |-> None]
        /\ audit = {}
        /\ status = [q \in Requests |-> "idle"]
        /\ txn = [q \in Requests |-> NoTxn]
        /\ clock = 0

Arrive(q) ==
  \/ \E x \in Extractions : Extract(q, x) \/ ReingestBegin(q, x)
  \/ \E r \in RuleIds, u \in Edits : Edit(q, r, u)
  \/ \E r \in RuleIds : Approve(q, r) \/ Reject(q, r)
  \/ \E S \in SUBSET RuleIds : BulkApprove(q, S)
  \/ \E r \in RuleIds, v \in ManualValues : CreateManual(q, r, v)
  \/ \E v \in VersionIds : PublishBegin(q, v)

Next == \E q \in Requests : \/ Arrive(q)
                            \/ ReingestApply(q)
                            \/ PublishRead(q)
                            \/ Commit(q)
                            \/ Lose(q)

Spec == Init /\ [][Next]_vars

-----------------------------------------------------------------------------
(* Properties *)

TypeOK == /\ rules \in [RuleIds -> Row \cup {None}]
          /\ versions \in [VersionIds -> Version \cup {None}]
          /\ audit \subseteq Event
          /\ status \in [Requests -> Stages \cup Replies]
          /\ txn \in [Requests -> Txn]
          /\ clock \in Nat

(* A human stands behind a value of a rule: an Approver approved exactly   *)
(* it, or created the Manual Rule with it.                                 *)
ApprovalActions == {"candidate_rule.approved", "rule.created"}
AuthorisedBy(events, r, v) == \E e \in events : /\ e.action \in ApprovalActions
                                                /\ e.entity = r
                                                /\ e.value = v
Authorised(r, v) == AuthorisedBy(audit, r, v)

(* ADR-0001 and ADR-0002: whatever requests overlap, every rule value of a *)
(* stored Policy Version was approved as it stands there -- a snapshot     *)
(* never carries an edit that came after the approval, or half of one.     *)
SnapshotRulesApproved ==
  \A v \in VersionIds : versions[v] # None =>
    \A r \in RuleIds : versions[v].rules[r] # None =>
      Authorised(r, versions[v].rules[r])

(* The state of a row was reached by an audited decision about that very   *)
(* value: approved and published rows by an approval, rejected and         *)
(* in_review ones by their own event.  Stale rewrites of a payload move a  *)
(* row back in time, never to a pair of state and value nobody decided.    *)
DecisionsAudited ==
  \A r \in RuleIds : rules[r] # None =>
    LET row == rules[r]
        Audited(action) == \E e \in audit : /\ e.action = action
                                           /\ e.entity = r
                                           /\ e.value = row.value
    IN  /\ IsApproved(row) => Authorised(r, row.value)
        /\ row.state = "rejected" => Audited("candidate_rule.rejected")
        /\ row.state = "in_review" => Audited("candidate_rule.edited")

(* Publishing validates every approved row as a Rule and fails as a whole  *)
(* (an unhandled 500) if one does not validate: no sequence of edits,      *)
(* approvals and rewrites may leave such a row, for it would block every   *)
(* later Policy Version.                                                   *)
ApprovedRowsPublishable ==
  \A r \in RuleIds : IsApproved(rules[r]) => RuleValid(rules[r].value)

(* A row says published only if some stored Policy Version carries its     *)
(* value: neither a rolled-back publish nor a stale write can claim it.    *)
PublishedIsInSomeSnapshot ==
  \A r \in RuleIds :
    rules[r] # None /\ rules[r].state = "published" =>
      \E v \in VersionIds : /\ versions[v] # None
                            /\ versions[v].rules[r] = rules[r].value

(* The unresolvable-citation flag and the citation are written by three    *)
(* different code paths; a Candidate Rule has the one or the other.        *)
FlagsMatchCitation ==
  \A r \in RuleIds : IsCandidate(rules[r]) =>
    (rules[r].value.citation = None
       <=> "unresolvable_citation" \in rules[r].flags)

(* The copy "as last committed by a review" agrees with the current value  *)
(* and state of a Candidate Rule, and exists once a review touched it --   *)
(* publishing has to move both.                                            *)
CommittedMirrorsCurrent ==
  \A r \in RuleIds : IsCandidate(rules[r]) =>
    LET row == rules[r]
    IN  IF row.state = "extracted" THEN row.committed = None
        ELSE row.committed = [state |-> row.state, value |-> row.value]

(* The audit log agrees with what clients were told: a lost, refused or    *)
(* failed request leaves no audit row (a rejected extraction output leaves *)
(* the row that says so), and a request with audit rows was answered.      *)
AuditMatchesReplies ==
  \A e \in audit : status[e.request] = IF e.action = "extraction_run.failed"
                                       THEN "invalid" ELSE "ok"

(* What the payload says twice agrees, whichever code path wrote it last.  *)
PayloadsConsistent == FlagsMatchCitation /\ CommittedMirrorsCurrent

(* The audit log is the record of what was decided: every decision shows   *)
(* up in it with its value, and only answered requests do.                 *)
AuditIsTheRecord == DecisionsAudited /\ AuditMatchesReplies

(* ADR-0002: once stored, a Policy Version never changes or disappears,    *)
(* not even when two publishers race for the same id.                      *)
SnapshotsImmutable ==
  [][\A v \in VersionIds : versions[v] # None => versions'[v] = versions[v]]_vars

(* The value as extracted, its run and its origin survive every rewrite of *)
(* the payload: review can always be compared with what the model said.    *)
ExtractedValuesPreserved ==
  [][\A r \in RuleIds : rules[r] # None =>
       /\ rules'[r] # None
       /\ rules'[r].extracted = rules[r].extracted
       /\ rules'[r].run = rules[r].run
       /\ rules'[r].value.origin = rules[r].value.origin]_vars

(* Lifecycle of a rule (the transitions _ensure_transition_allowed and     *)
(* publishing allow).                                                      *)
LifecycleEdges ==
  ({"extracted", "in_review"} \X {"in_review", "approved", "rejected"})
    \cup {<<"approved", "published">>}
    \cup {<<s, s>> : s \in LifecycleStates}

(* A commit that rewrites the row it read moves it along the lifecycle and *)
(* never changes the value of an approved, published or rejected rule.     *)
FreshWritesFollowLifecycle ==
  [][\A q \in Requests, r \in RuleIds :
       (/\ status[q] = "loaded"
        /\ status'[q] = "ok"
        /\ txn[q].writes[r] # None
        /\ rules[r] # None
        /\ txn[q].seen[r] = rules[r])
       => /\ <<rules[r].state, rules'[r].state>> \in LifecycleEdges
          /\ rules[r].state \in EditableStates \/ rules'[r].value = rules[r].value]_vars

(* tests/test_policy_versions_api.py expects 409 for every edit, approval  *)
(* and rejection of a published rule and asserts that its stored           *)
(* lifecycle_state is still "published".  The state is checked on the row  *)
(* as read: a request that read it before the publisher committed writes   *)
(* in_review, approved or rejected back over it.                           *)
SnapshotRulesStayPublished ==
  \A v \in VersionIds : versions[v] # None =>
    \A r \in RuleIds : versions[v].rules[r] # None =>
      rules[r] # None /\ rules[r].state = "published"

-----------------------------------------------------------------------------
(* What the store promises: ApprovedPolicy, read off the audit log and the *)
(* stored Policy Versions.                                                 *)
ApprovedPairs == {<<e.entity, e.value>> :
                    e \in {a \in audit : a.action \in ApprovalActions}}
PublishedPairs ==
  [v \in VersionIds |->
     IF versions[v] = None THEN {}
     ELSE {<<r, versions[v].rules[r]>> :
             r \in {s \in RuleIds : versions[v].rules[s] # None}}]

Abstract == INSTANCE ApprovedPolicy WITH
              Rules <- RuleIds, Values <- Value, Versions <- VersionIds,
              approved <- ApprovedPairs, published <- PublishedPairs

(* Every step of the store is a step of ApprovedPolicy or leaves what it   *)
(* sees unchanged: only approvals approve, and a Policy Version appears    *)
(* once, non-empty, made of approved values only.                          *)
ImplementsApprovedPolicy == Abstract!Spec
=============================================================================
