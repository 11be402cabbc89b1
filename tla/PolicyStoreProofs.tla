------------------------- MODULE PolicyStoreProofs -------------------------
(***************************************************************************)
(* Proofs about PolicyStore, for every value of its constants: the type    *)
(* invariant, that every rule of a stored Policy Version was approved as   *)
(* it stands there, that no approved row can block a later publish, that   *)
(* the store implements ApprovedPolicy, and that tables, payloads and      *)
(* audit log agree.                                                        *)
(*                                                                         *)
(* No safety property is inductive by itself: a commit writes what a       *)
(* request prepared when it read, so the invariant says of the pending     *)
(* writes and snapshots of every request what the properties say of the    *)
(* tables.  A pending write may rest on an audit row of its own session,   *)
(* which the same commit adds.                                             *)
(***************************************************************************)
EXTENDS PolicyStore, TLAPS

(* An approved or published row is publishable and authorised by events. *)
Sound(events, r, row) ==
  IsApproved(row) => RuleValid(row.value) /\ AuthorisedBy(events, r, row.value)

RowsSound == \A r \in RuleIds : Sound(audit, r, rules[r])
WritesSound == \A q \in Requests, r \in RuleIds :
                 Sound(audit \cup txn[q].events, r, txn[q].writes[r])
PendingSnapshotsApproved ==
  \A q \in Requests, r \in RuleIds :
    txn[q].snapshot[r] # None => Authorised(r, txn[q].snapshot[r])

SoundInv == /\ RowsSound
            /\ WritesSound
            /\ SnapshotRulesApproved
            /\ PendingSnapshotsApproved

-----------------------------------------------------------------------------
(* Types of the row constructors *)

Rows == [RuleIds -> Row \cup {None}]

LEMMA DraftTypes ==
  ASSUME NEW x \in Extraction
  PROVE  /\ x.run \in Runs
         /\ DOMAIN x.drafts \subseteq RuleIds
         /\ \A r \in DOMAIN x.drafts : x.drafts[r] \in Draft
BY DEF Extraction

LEMMA FlagsType ==
  ASSUME NEW anchor PROVE FlagsFor(anchor) \subseteq FlagCodes
BY DEF FlagsFor, FlagCodes

LEMMA CandidateRowType ==
  ASSUME NEW run \in Runs, NEW d \in Draft
  PROVE  CandidateRow(run, d) \in Row
<1> DEFINE anchor == ResolveDraft(run, d)
           v == [origin |-> "extracted", statement |-> d.statement,
                 class |-> d.class, condition |-> d.condition,
                 citation |-> IF anchor = "none" THEN None
                              ELSE RunDocument[run]]
<1>1. RunDocument[run] \in Documents
  BY StoreAssumption
<1>2. v \in Value
  BY <1>1 DEF Value, Draft
<1>3. FlagsFor(anchor) \in SUBSET FlagCodes
  BY FlagsType
<1> HIDE DEF v, anchor
<1>4. [state |-> "extracted", value |-> v, run |-> run, extracted |-> v,
       committed |-> None, flags |-> FlagsFor(anchor), category |-> None] \in Row
  BY <1>2, <1>3, StoreAssumption DEF Row, Payload, LifecycleStates
<1> QED
  BY <1>4 DEF CandidateRow, v, anchor

LEMMA FreshRowsType ==
  ASSUME NEW x \in Extraction
  PROVE  FreshRows(x) \in Rows
BY DraftTypes, CandidateRowType DEF FreshRows, Rows

LEMMA ManualRowType ==
  ASSUME NEW v \in Value, v.origin = "manual" PROVE ManualRow(v) \in Row
BY DEF ManualRow, Row, Payload, LifecycleStates

LEMMA ReviewedType ==
  ASSUME NEW row \in Row, NEW st \in LifecycleStates, NEW v \in Value,
         NEW fl \in SUBSET FlagCodes, v.origin = row.value.origin
  PROVE  Reviewed(row, st, v, fl) \in Row
BY DEF Reviewed, Row, Payload

LEMMA PublishedRowType ==
  ASSUME NEW row \in Row PROVE PublishedRow(row) \in Row
<1>1. CASE row.committed = None
  BY <1>1 DEF PublishedRow, Row, Payload, LifecycleStates
<1>2. CASE row.committed # None
  <2>1. row.committed \in [state : LifecycleStates, value : Value]
    BY <1>2 DEF Row, Payload
  <2>2. [row.committed EXCEPT !.state = "published"]
           \in [state : LifecycleStates, value : Value]
    BY <2>1 DEF LifecycleStates
  <2> QED
    BY <1>2, <2>2 DEF PublishedRow, Row, Payload, LifecycleStates
<1> QED
  BY <1>1, <1>2

LEMMA MergedType ==
  ASSUME NEW v \in Value, NEW u \in Edits
  PROVE  Merged(v, u) \in Value /\ Merged(v, u).origin = v.origin
<1>1. DOMAIN v = {"origin", "statement", "class", "condition", "citation"}
  BY DEF Value
<1>2. "origin" \notin DOMAIN u
  BY StoreAssumption DEF EditFields
<1>3. /\ Merged(v, u)["origin"] \in {"extracted", "manual"}
      /\ Merged(v, u)["statement"] \in Statements
      /\ Merged(v, u)["class"] \in Classes
      /\ Merged(v, u)["condition"] \in BOOLEAN
      /\ Merged(v, u)["citation"] \in Documents \cup {None}
  BY <1>1, <1>2, StoreAssumption DEF Merged, Value
<1>4. Merged(v, u) = [origin |-> Merged(v, u)["origin"],
                      statement |-> Merged(v, u)["statement"],
                      class |-> Merged(v, u)["class"],
                      condition |-> Merged(v, u)["condition"],
                      citation |-> Merged(v, u)["citation"]]
  BY <1>1 DEF Merged
<1>5. [origin |-> Merged(v, u)["origin"],
       statement |-> Merged(v, u)["statement"],
       class |-> Merged(v, u)["class"],
       condition |-> Merged(v, u)["condition"],
       citation |-> Merged(v, u)["citation"]] \in Value
  BY <1>3 DEF Value
<1>6. Merged(v, u)["origin"] = v["origin"]
  BY <1>1, <1>2 DEF Merged
<1> QED
  BY <1>4, <1>5, <1>6

LEMMA ReconciledType ==
  ASSUME NEW row \in Row, NEW v \in Value, row.run \in Runs
  PROVE  /\ Reconciled(row, v).value \in Value
         /\ Reconciled(row, v).value.origin = v.origin
         /\ Reconciled(row, v).flags \in SUBSET FlagCodes
<1>1. RunDocument[row.run] \in Documents
  BY StoreAssumption
<1>2. /\ [v EXCEPT !.citation = RunDocument[row.run]] \in Value
      /\ [v EXCEPT !.citation = RunDocument[row.run]].origin = v.origin
  BY <1>1 DEF Value
<1>3. row.flags \in SUBSET FlagCodes
  BY DEF Row, Payload
<1>4. CASE v.citation # None
  BY <1>3, <1>4 DEF Reconciled
<1>5. CASE v.citation = None /\ Anchor[row.run][v.statement] = "none"
  BY <1>3, <1>5 DEF Reconciled, FlagCodes
<1>6. CASE v.citation = None /\ Anchor[row.run][v.statement] # "none"
  BY <1>2, <1>6, FlagsType DEF Reconciled
<1> QED
  BY <1>4, <1>5, <1>6

LEMMA EditedRowType ==
  ASSUME NEW row \in Row, NEW u \in Edits, IsCandidate(row)
  PROVE  /\ EditedRow(row, u) \in Row
         /\ EditedRow(row, u).state = "in_review"
<1> DEFINE n == Reconciled(row, Merged(row.value, u))
<1>1. row.value \in Value /\ row.run \in Runs
  BY DEF Row, Payload, IsCandidate
<1>2. /\ n.value \in Value /\ n.flags \in SUBSET FlagCodes
      /\ n.value.origin = row.value.origin
  BY <1>1, MergedType, ReconciledType
<1>3. "in_review" \in LifecycleStates
  BY DEF LifecycleStates
<1>4. Reviewed(row, "in_review", n.value, n.flags) \in Row
  BY <1>2, <1>3, ReviewedType
<1>5. Reviewed(row, "in_review", n.value, n.flags).state = "in_review"
  BY DEF Reviewed, Row, Payload
<1> QED
  BY <1>4, <1>5 DEF EditedRow

LEMMA CategoryType ==
  ASSUME NEW d, NEW r PROVE CategoryOf(d, r) \in DiffCategories \cup {None}
BY DEF CategoryOf, DiffCategories

LEMMA CategorisedType ==
  ASSUME NEW session \in Rows, NEW d, NEW doc
  PROVE  Categorised(session, d, doc) \in Rows
<1> SUFFICES ASSUME NEW r \in RuleIds, session[r] # None
             PROVE  /\ session[r] \in Row
                    /\ \A c \in DiffCategories \cup {None} :
                         [session[r] EXCEPT !.category = c] \in Row
  BY CategoryType DEF Categorised, Rows
<1>1. session[r] \in Row
  BY DEF Rows
<1> QED
  BY <1>1 DEF Row, Payload

-----------------------------------------------------------------------------
(* Types of the session steps *)

LEMMA NoTxnType == NoTxn \in Txn
BY DEF NoTxn, NoRows, Txn, Snapshot, Replies

LEMMA EventType ==
  ASSUME NEW q \in Requests
  PROVE  /\ \A action \in RuleActions, r \in RuleIds, v \in Value :
              EventOf(q, action, r, v) \in Event
         /\ \A action \in OtherActions, e \in VersionIds \cup Runs \cup Documents :
              EventOf(q, action, e, None) \in Event
BY DEF EventOf, Event

LEMMA FinishType ==
  ASSUME TypeOK, NEW q \in Requests, NEW reply \in Replies, Finish(q, reply)
  PROVE  /\ status' \in [Requests -> Stages \cup Replies]
         /\ txn' \in [Requests -> Txn]
BY NoTxnType DEF TypeOK, Finish

LEMMA RefuseType ==
  ASSUME TypeOK, NEW q \in Requests, NEW reply \in Replies, Refuse(q, reply)
  PROVE  TypeOK'
BY FinishType DEF TypeOK, Refuse

LEMMA DirtyType ==
  ASSUME TypeOK, NEW payloads \in Rows
  PROVE  Dirty(payloads) \in Rows /\ Base(Dirty(payloads)) \in Rows
BY DEF TypeOK, Rows, Dirty, Base

LEMMA PendingType ==
  ASSUME TypeOK, NEW q \in Requests, NEW payloads \in Rows,
         NEW new \in SUBSET RuleIds, NEW ev \in SUBSET Event,
         Pending(q, payloads, new, ev)
  PROVE  TypeOK'
<1> DEFINE w == Dirty(payloads)
<1>1. w \in Rows /\ Base(w) \in Rows
  BY DirtyType
<1>2. txn[q] \in Txn
  BY DEF TypeOK
<1> HIDE DEF w
<1>3. [txn[q] EXCEPT !.seen = Base(w), !.writes = w, !.inserts = new,
                     !.events = ev] \in Txn
  BY <1>1, <1>2 DEF Txn, Rows
<1>4. txn' = [txn EXCEPT ![q] = [txn[q] EXCEPT !.seen = Base(w), !.writes = w,
                                               !.inserts = new, !.events = ev]]
  BY DEF Pending, w, TypeOK
<1>5. txn' \in [Requests -> Txn]
  BY <1>3, <1>4 DEF TypeOK
<1>6. status' \in [Requests -> Stages \cup Replies]
  BY DEF Pending, TypeOK, Stages
<1> QED
  BY <1>5, <1>6 DEF TypeOK, Pending

LEMMA OnlyType ==
  ASSUME NEW r \in RuleIds, NEW row \in Row PROVE Only(r, row) \in Rows
BY DEF Only, NoRows, Rows

LEMMA LatestSnapshotType ==
  ASSUME TypeOK PROVE LatestSnapshot \in Snapshot
<1>1. CASE \E v \in VersionIds : IsLatest(v)
  <2> DEFINE v == CHOOSE w \in VersionIds : IsLatest(w)
  <2>1. v \in VersionIds /\ versions[v] # None
    BY <1>1 DEF IsLatest
  <2>2. versions[v].rules \in Snapshot
    BY <2>1 DEF TypeOK, Version
  <2> QED
    BY <1>1, <2>2 DEF LatestSnapshot
<1>2. CASE ~\E v \in VersionIds : IsLatest(v)
  BY <1>2 DEF LatestSnapshot, NoRows, Snapshot
<1> QED
  BY <1>1, <1>2

LEMMA RejectedOutputType ==
  ASSUME TypeOK, NEW q \in Requests, NEW x \in Extraction, RejectedOutput(q, x)
  PROVE  TypeOK'
<1> DEFINE ev == {EventOf(q, "extraction_run.failed", x.run, None)}
<1>1. ev \in SUBSET Event
  BY DraftTypes, EventType DEF RuleActions, OtherActions
<1>2. txn[q] \in Txn
  BY DEF TypeOK
<1> HIDE DEF ev
<1>3. [txn[q] EXCEPT !.events = ev, !.reply = "invalid"] \in Txn
  BY <1>1, <1>2 DEF Txn, Replies
<1>4. txn' = [txn EXCEPT ![q] = [txn[q] EXCEPT !.events = ev, !.reply = "invalid"]]
  BY DEF RejectedOutput, ev, TypeOK
<1>5. txn' \in [Requests -> Txn]
  BY <1>3, <1>4 DEF TypeOK
<1> QED
  BY <1>5 DEF RejectedOutput, TypeOK, Stages

-----------------------------------------------------------------------------
(* Every action preserves the types *)

LEMMA ExtractType ==
  ASSUME TypeOK, NEW q \in Requests, NEW x \in Extractions, Extract(q, x)
  PROVE  TypeOK'
<1>1. x \in Extraction
  BY StoreAssumption
<1>2. CASE OutputValid(x)
  <2>1. {EventOf(q, "extraction_run.created", x.run, None)} \in SUBSET Event
    BY <1>1, DraftTypes, EventType DEF RuleActions, OtherActions
  <2>2. FreshRows(x) \in Rows /\ DOMAIN x.drafts \in SUBSET RuleIds
    BY <1>1, FreshRowsType, DraftTypes
  <2> QED
    BY <1>2, <2>1, <2>2, PendingType DEF Extract
<1>3. CASE ~OutputValid(x)
  BY <1>1, <1>3, RejectedOutputType DEF Extract
<1> QED
  BY <1>2, <1>3

LEMMA ReingestBeginType ==
  ASSUME TypeOK, NEW q \in Requests, NEW x \in Extractions, ReingestBegin(q, x)
  PROVE  TypeOK'
<1>1. x \in Extraction
  BY StoreAssumption
<1>2. CASE OutputValid(x)
  <2>1. txn[q] \in Txn /\ LatestSnapshot \in Snapshot
    BY LatestSnapshotType DEF TypeOK
  <2>2. FreshRows(x) \in Rows /\ DOMAIN x.drafts \in SUBSET RuleIds /\ x.run \in Runs
    BY <1>1, FreshRowsType, DraftTypes
  <2>3. [txn[q] EXCEPT !.run = x.run, !.writes = FreshRows(x),
                       !.inserts = DOMAIN x.drafts,
                       !.snapshot = LatestSnapshot] \in Txn
    BY <2>1, <2>2 DEF Txn, Rows
  <2>4. txn' = [txn EXCEPT ![q] =
                  [txn[q] EXCEPT !.run = x.run, !.writes = FreshRows(x),
                                 !.inserts = DOMAIN x.drafts,
                                 !.snapshot = LatestSnapshot]]
    BY <1>2 DEF ReingestBegin, TypeOK
  <2>5. txn' \in [Requests -> Txn]
    BY <2>3, <2>4 DEF TypeOK
  <2> QED
    BY <1>2, <2>5 DEF ReingestBegin, TypeOK, Stages
<1>3. CASE ~OutputValid(x)
  BY <1>1, <1>3, RejectedOutputType DEF ReingestBegin
<1> QED
  BY <1>2, <1>3

(* What the session of a request at stage s holds: nothing at first; the   *)
(* second half of a handler rests on what the first half left; a publisher *)
(* is about to commit a non-empty snapshot and approves nothing itself.    *)
InOrder(s, t) ==
  /\ s = "idle" => t = NoTxn
  /\ s = "diffing" => t.run \in Runs /\ t.events = {} /\ t.version = None
  /\ s = "selecting" => t.version \in VersionIds
  /\ s = "loaded" /\ t.version # None =>
       /\ \E r \in RuleIds : t.snapshot[r] # None
       /\ \A e \in t.events : e.action \notin ApprovalActions
SessionsInOrder == \A q \in Requests : InOrder(status[q], txn[q])

LEMMA ReingestApplyType ==
  ASSUME TypeOK, SessionsInOrder, NEW q \in Requests, ReingestApply(q)
  PROVE  TypeOK'
<1> DEFINE t == txn[q]
           doc == RunDocument[t.run]
           session == [r \in RuleIds |-> IF t.writes[r] # None THEN t.writes[r]
                                         ELSE rules[r]]
           d == ReingestionDiff(t.writes, t.snapshot, doc)
           ev == {EventOf(q, "document_version.uploaded", doc, None),
                  EventOf(q, "extraction_run.created", t.run, None)}
<1>1. t \in Txn /\ t.run \in Runs
  BY DEF TypeOK, SessionsInOrder, InOrder, ReingestApply
<1>2. doc \in Documents
  BY <1>1, StoreAssumption
<1>3. ev \in SUBSET Event
  BY <1>1, <1>2, EventType DEF RuleActions, OtherActions
<1>4. session \in Rows
  BY <1>1 DEF TypeOK, Txn, Rows
<1>5. Categorised(session, d, doc) \in Rows
  BY <1>4, CategorisedType
<1>6. t.inserts \in SUBSET RuleIds
  BY <1>1 DEF Txn
<1>7. Pending(q, Categorised(session, d, doc), t.inserts, ev)
  BY DEF ReingestApply
<1> QED
  BY <1>3, <1>5, <1>6, <1>7, PendingType

LEMMA EditType ==
  ASSUME TypeOK, NEW q \in Requests, NEW r \in RuleIds, NEW u \in Edits,
         Edit(q, r, u)
  PROVE  TypeOK'
<1> DEFINE row == EditedRow(rules[r], u)
           ev == {EventOf(q, "candidate_rule.edited", r, row.value)}
<1>1. CASE /\ IsCandidate(rules[r]) /\ Editable(rules[r])
           /\ CandidateValid(Merged(rules[r].value, u))
  <2>1. rules[r] \in Row
    BY <1>1 DEF TypeOK, IsCandidate
  <2>2. row \in Row
    BY <1>1, <2>1, EditedRowType
  <2>3. row.value \in Value
    BY <2>2 DEF Row, Payload
  <2>4. ev \in SUBSET Event
    BY <2>3, EventType DEF RuleActions, OtherActions
  <2>5. Only(r, row) \in Rows
    BY <2>2, OnlyType
  <2>6. Pending(q, Only(r, row), {}, ev)
    BY <1>1 DEF Edit
  <2> QED
    BY <2>4, <2>5, <2>6, PendingType
<1>2. CASE \E reply \in Replies : Refuse(q, reply)
  BY <1>2, RefuseType
<1> QED
  BY <1>1, <1>2 DEF Edit, Replies

LEMMA CandidateValue ==
  ASSUME TypeOK, NEW r \in RuleIds, rules[r] # None
  PROVE  rules[r] \in Row /\ rules[r].value \in Value
                          /\ rules[r].flags \in SUBSET FlagCodes
BY DEF TypeOK, Row, Payload

LEMMA DecidedRowTypes ==
  ASSUME NEW row \in Row
  PROVE  ApprovedRow(row) \in Row /\ RejectedRow(row) \in Row
<1>1. row.value \in Value /\ row.flags \in SUBSET FlagCodes
  BY DEF Row, Payload
<1>2. {"approved", "rejected"} \subseteq LifecycleStates
  BY DEF LifecycleStates
<1> QED
  BY <1>1, <1>2, ReviewedType DEF ApprovedRow, RejectedRow

LEMMA DecideType ==
  ASSUME TypeOK, NEW q \in Requests, NEW r \in RuleIds,
         Approve(q, r) \/ Reject(q, r)
  PROVE  TypeOK'
<1>1. CASE \E reply \in Replies : Refuse(q, reply)
  BY <1>1, RefuseType
<1>2. CASE /\ rules[r] # None
           /\ Pending(q, Only(r, ApprovedRow(rules[r])), {},
                {EventOf(q, "candidate_rule.approved", r, rules[r].value)})
  <2>1. Only(r, ApprovedRow(rules[r])) \in Rows
    BY <1>2, CandidateValue, DecidedRowTypes, OnlyType
  <2>2. {EventOf(q, "candidate_rule.approved", r, rules[r].value)} \in SUBSET Event
    BY <1>2, CandidateValue, EventType DEF RuleActions, OtherActions
  <2> QED
    BY <1>2, <2>1, <2>2, PendingType
<1>3. CASE /\ rules[r] # None
           /\ Pending(q, Only(r, RejectedRow(rules[r])), {},
                {EventOf(q, "candidate_rule.rejected", r, rules[r].value)})
  <2>1. Only(r, RejectedRow(rules[r])) \in Rows
    BY <1>3, CandidateValue, DecidedRowTypes, OnlyType
  <2>2. {EventOf(q, "candidate_rule.rejected", r, rules[r].value)} \in SUBSET Event
    BY <1>3, CandidateValue, EventType DEF RuleActions, OtherActions
  <2> QED
    BY <1>3, <2>1, <2>2, PendingType
<1> QED
  BY <1>1, <1>2, <1>3 DEF Approve, Reject, Replies, IsCandidate

LEMMA BulkApproveType ==
  ASSUME TypeOK, NEW q \in Requests, NEW S \in SUBSET RuleIds, BulkApprove(q, S)
  PROVE  TypeOK'
<1> DEFINE done == {r \in S : Approvable(r)}
           payloads == [r \in RuleIds |-> IF r \in done THEN ApprovedRow(rules[r])
                                          ELSE None]
           ev == {EventOf(q, "candidate_rule.approved", r, rules[r].value) :
                    r \in done}
<1>1. \A r \in done : r \in RuleIds /\ rules[r] # None
  BY DEF Approvable, IsCandidate
<1>2. payloads \in Rows
  BY <1>1, CandidateValue, DecidedRowTypes DEF Rows
<1>3. ev \in SUBSET Event
  BY <1>1, CandidateValue, EventType DEF RuleActions, OtherActions
<1>4. Pending(q, payloads, {}, ev)
  BY DEF BulkApprove
<1> QED
  BY <1>2, <1>3, <1>4, PendingType

LEMMA CreateManualType ==
  ASSUME TypeOK, NEW q \in Requests, NEW r \in RuleIds, NEW v \in ManualValues,
         CreateManual(q, r, v)
  PROVE  TypeOK'
<1>1. v \in Value /\ v.origin = "manual"
  BY StoreAssumption
<1>2. CASE Refuse(q, "error")
  BY <1>2, RefuseType DEF Replies
<1>3. CASE Pending(q, Only(r, ManualRow(v)), {r}, {EventOf(q, "rule.created", r, v)})
  <2>1. Only(r, ManualRow(v)) \in Rows
    BY <1>1, ManualRowType, OnlyType
  <2>2. {EventOf(q, "rule.created", r, v)} \in SUBSET Event
    BY <1>1, EventType DEF RuleActions, OtherActions
  <2> QED
    BY <1>3, <2>1, <2>2, PendingType
<1> QED
  BY <1>2, <1>3 DEF CreateManual

LEMMA PublishBeginType ==
  ASSUME TypeOK, NEW q \in Requests, NEW v \in VersionIds, PublishBegin(q, v)
  PROVE  TypeOK'
<1>1. CASE versions[v] # None
  BY <1>1, RefuseType DEF PublishBegin, Replies
<1>2. CASE versions[v] = None
  <2>1. txn[q] \in Txn
    BY DEF TypeOK
  <2>2. [txn[q] EXCEPT !.version = v, !.startedAt = clock] \in Txn
    BY <2>1 DEF Txn, TypeOK
  <2>3. txn' = [txn EXCEPT ![q] = [txn[q] EXCEPT !.version = v,
                                                 !.startedAt = clock]]
    BY <1>2 DEF PublishBegin, TypeOK
  <2>4. txn' \in [Requests -> Txn]
    BY <2>2, <2>3 DEF TypeOK
  <2> QED
    BY <1>2, <2>4 DEF PublishBegin, TypeOK, Stages
<1> QED
  BY <1>1, <1>2

LEMMA PublishReadType ==
  ASSUME TypeOK, SessionsInOrder, NEW q \in Requests, PublishRead(q)
  PROVE  TypeOK'
<1> DEFINE chosen == {r \in RuleIds : IsApproved(rules[r])}
           payloads == [r \in RuleIds |-> IF r \in chosen THEN PublishedRow(rules[r])
                                          ELSE None]
           w == Dirty(payloads)
           snap == [r \in RuleIds |-> IF r \in chosen
                                      THEN PublishedValue(rules[r]) ELSE None]
           ev == {EventOf(q, "policy_version.published", txn[q].version, None)}
           t == [txn[q] EXCEPT !.seen = Base(w), !.writes = w, !.snapshot = snap,
                               !.events = ev]
<1>1. CASE \E reply \in Replies : Refuse(q, reply)
  BY <1>1, RefuseType
<1>2. CASE /\ status' = [status EXCEPT ![q] = "loaded"]
           /\ txn' = [txn EXCEPT ![q].seen = Base(w), ![q].writes = w,
                                 ![q].snapshot = snap, ![q].events = ev]
           /\ UNCHANGED <<rules, versions, audit, clock>>
  <2>1. \A r \in chosen : rules[r] # None
    BY DEF IsApproved
  <2>2. payloads \in Rows /\ snap \in Snapshot
    BY <2>1, CandidateValue, PublishedRowType DEF Rows, Snapshot, PublishedValue
  <2>3. w \in Rows /\ Base(w) \in Rows
    BY <2>2, DirtyType
  <2>4. ev \in SUBSET Event
    <3>1. txn[q].version \in VersionIds
      BY DEF SessionsInOrder, InOrder, PublishRead
    <3>2. "policy_version.published" \in OtherActions
      BY DEF OtherActions
    <3> QED
      BY <3>1, <3>2, EventType
  <2>5. txn[q] \in Txn
    BY DEF TypeOK
  <2> HIDE DEF w, snap, ev
  <2>6. t \in Txn
    BY <2>2, <2>3, <2>4, <2>5 DEF Txn, Rows
  <2>7. txn' = [txn EXCEPT ![q] = t]
    BY <1>2 DEF TypeOK
  <2>8. txn' \in [Requests -> Txn]
    BY <2>6, <2>7 DEF TypeOK
  <2> QED
    BY <1>2, <2>8 DEF TypeOK, Stages
<1> QED
  BY <1>1, <1>2 DEF PublishRead, Replies

LEMMA CommitType ==
  ASSUME TypeOK, NEW q \in Requests, Commit(q)
  PROVE  TypeOK'
<1>1. CASE Refuse(q, "error")
  BY <1>1, RefuseType DEF Replies
<1>2. CASE ~DuplicateKey(txn[q])
  <2>1. txn[q] \in Txn
    BY DEF TypeOK
  <2>2. rules' \in Rows
    BY <1>2, <2>1 DEF Commit, TypeOK, Txn, Rows
  <2>3. [createdAt |-> txn[q].startedAt, rules |-> txn[q].snapshot] \in Version
    BY <2>1 DEF Txn, Version
  <2>4. versions' \in [VersionIds -> Version \cup {None}]
    BY <1>2, <2>3 DEF Commit, TypeOK
  <2>5. audit' \subseteq Event
    BY <1>2, <2>1 DEF Commit, TypeOK, Txn
  <2>6. Finish(q, txn[q].reply) /\ txn[q].reply \in Replies
    BY <1>2, <2>1 DEF Commit, Txn
  <2> QED
    BY <1>2, <2>2, <2>4, <2>5, <2>6, FinishType DEF Commit, TypeOK, Rows
<1> QED
  BY <1>1, <1>2 DEF Commit

LEMMA LoseType ==
  ASSUME TypeOK, NEW q \in Requests, Lose(q)
  PROVE  TypeOK'
BY RefuseType DEF Lose, Replies

-----------------------------------------------------------------------------
(* The type invariant *)

LEMMA TypeStep ==
  ASSUME TypeOK, SessionsInOrder, Next PROVE TypeOK'
<1> SUFFICES ASSUME NEW q \in Requests,
                    \/ Arrive(q) \/ ReingestApply(q) \/ PublishRead(q)
                    \/ Commit(q) \/ Lose(q)
             PROVE  TypeOK'
  BY DEF Next
<1>1. CASE Arrive(q)
  BY <1>1, ExtractType, ReingestBeginType, EditType, DecideType,
     BulkApproveType, CreateManualType, PublishBeginType DEF Arrive
<1> QED
  BY <1>1, ReingestApplyType, PublishReadType, CommitType, LoseType

(* A step of q changes the session of q only; what it leaves there is      *)
(* complete for the step that follows.                                     *)
StepOf(q, s, t) == /\ status' = [status EXCEPT ![q] = s]
                   /\ txn' = [txn EXCEPT ![q] = t]
                   /\ InOrder(s, t)

LEMMA RefuseStep ==
  ASSUME NEW q \in Requests, NEW reply \in Replies, Refuse(q, reply)
  PROVE  \E s, t : StepOf(q, s, t)
BY DEF Refuse, Finish, StepOf, InOrder, Replies

LEMMA PendingStep ==
  ASSUME TypeOK, NEW q \in Requests, NEW payloads, NEW new, NEW ev,
         Pending(q, payloads, new, ev), txn[q].version = None
  PROVE  \E s, t : StepOf(q, s, t)
<1> DEFINE t == [txn[q] EXCEPT !.seen = Base(Dirty(payloads)),
                               !.writes = Dirty(payloads), !.inserts = new,
                               !.events = ev]
<1>1. txn' = [txn EXCEPT ![q] = t]
  BY DEF Pending, TypeOK
<1>2. t.version = None
  BY DEF TypeOK, Txn
<1> HIDE DEF t
<1>3. StepOf(q, "loaded", t)
  BY <1>1, <1>2 DEF Pending, StepOf, InOrder
<1> QED
  BY <1>3

LEMMA RejectedOutputStep ==
  ASSUME TypeOK, NEW q \in Requests, NEW x, RejectedOutput(q, x),
         txn[q].version = None
  PROVE  \E s, t : StepOf(q, s, t)
<1> DEFINE t == [txn[q] EXCEPT
                   !.events = {EventOf(q, "extraction_run.failed", x.run, None)},
                   !.reply = "invalid"]
<1>1. txn' = [txn EXCEPT ![q] = t]
  BY DEF RejectedOutput, TypeOK
<1>2. t.version = None
  BY DEF TypeOK, Txn
<1> HIDE DEF t
<1>3. StepOf(q, "loaded", t)
  BY <1>1, <1>2 DEF RejectedOutput, StepOf, InOrder
<1> QED
  BY <1>3

LEMMA ReingestBeginStep ==
  ASSUME TypeOK, SessionsInOrder, NEW q \in Requests, NEW x \in Extractions,
         ReingestBegin(q, x)
  PROVE  \E s, t : StepOf(q, s, t)
<1>0. txn[q] \in Txn /\ txn[q].events = {} /\ txn[q].version = None
  BY DEF ReingestBegin, SessionsInOrder, InOrder, TypeOK, NoTxn
<1>1. CASE OutputValid(x)
  <2> DEFINE t == [txn[q] EXCEPT !.run = x.run, !.writes = FreshRows(x),
                                 !.inserts = DOMAIN x.drafts,
                                 !.snapshot = LatestSnapshot]
  <2>1. txn' = [txn EXCEPT ![q] = t]
    BY <1>1 DEF ReingestBegin, TypeOK
  <2>2. t.run \in Runs /\ t.events = {} /\ t.version = None
    <3>1. x.run \in Runs
      BY StoreAssumption, DraftTypes
    <3> QED
      BY <1>0, <3>1 DEF Txn
  <2> HIDE DEF t
  <2>3. StepOf(q, "diffing", t)
    BY <1>1, <2>1, <2>2 DEF ReingestBegin, StepOf, InOrder
  <2> QED
    BY <2>3
<1>2. CASE ~OutputValid(x)
  BY <1>0, <1>2, RejectedOutputStep DEF ReingestBegin
<1> QED
  BY <1>1, <1>2

LEMMA PublishBeginStep ==
  ASSUME TypeOK, NEW q \in Requests, NEW v \in VersionIds, PublishBegin(q, v)
  PROVE  \E s, t : StepOf(q, s, t)
<1>1. CASE versions[v] # None
  BY <1>1, RefuseStep DEF PublishBegin, Replies
<1>2. CASE versions[v] = None
  <2> DEFINE t == [txn[q] EXCEPT !.version = v, !.startedAt = clock]
  <2>1. txn' = [txn EXCEPT ![q] = t]
    BY <1>2 DEF PublishBegin, TypeOK
  <2>2. t.version \in VersionIds
    BY DEF TypeOK, Txn
  <2> HIDE DEF t
  <2>3. StepOf(q, "selecting", t)
    BY <1>2, <2>1, <2>2 DEF PublishBegin, StepOf, InOrder
  <2> QED
    BY <2>3
<1> QED
  BY <1>1, <1>2

LEMMA PublishReadStep ==
  ASSUME TypeOK, NEW q \in Requests, PublishRead(q)
  PROVE  \E s, t : StepOf(q, s, t)
<1> DEFINE chosen == {r \in RuleIds : IsApproved(rules[r])}
           w == Dirty([r \in RuleIds |-> IF r \in chosen
                                         THEN PublishedRow(rules[r]) ELSE None])
           snap == [r \in RuleIds |-> IF r \in chosen
                                      THEN PublishedValue(rules[r]) ELSE None]
           ev == {EventOf(q, "policy_version.published", txn[q].version, None)}
           t == [txn[q] EXCEPT !.seen = Base(w), !.writes = w, !.snapshot = snap,
                               !.events = ev]
<1>1. CASE \E reply \in Replies : Refuse(q, reply)
  BY <1>1, RefuseStep
<1>2. CASE /\ chosen # {}
           /\ status' = [status EXCEPT ![q] = "loaded"]
           /\ txn' = [txn EXCEPT ![q].seen = Base(w), ![q].writes = w,
                                 ![q].snapshot = snap, ![q].events = ev]
  <2>1. \E r \in RuleIds : snap[r] # None
    <3>1. PICK r \in chosen : TRUE
      BY <1>2
    <3>2. rules[r].value \in Value
      BY <3>1, CandidateValue DEF IsApproved
    <3> QED
      BY <3>1, <3>2, StoreAssumption DEF PublishedValue
  <2>2. \A e \in ev : e.action \notin ApprovalActions
    BY DEF EventOf, ApprovalActions
  <2>3. txn[q] \in Txn
    BY DEF TypeOK
  <2> HIDE DEF w, snap, ev
  <2>4. txn' = [txn EXCEPT ![q] = t]
    BY <1>2 DEF TypeOK
  <2>5. t.snapshot = snap /\ t.events = ev
    BY <2>3 DEF Txn
  <2> HIDE DEF t
  <2>6. StepOf(q, "loaded", t)
    BY <1>2, <2>1, <2>2, <2>4, <2>5 DEF StepOf, InOrder
  <2> QED
    BY <2>6
<1> QED
  BY <1>1, <1>2 DEF PublishRead, Replies

LEMMA CommitStep ==
  ASSUME TypeOK, NEW q \in Requests, Commit(q)
  PROVE  \E s, t : StepOf(q, s, t)
<1>1. txn[q].reply \in Replies
  BY DEF TypeOK, Txn
<1>2. \E reply \in Replies : Finish(q, reply)
  BY <1>1 DEF Commit, Refuse, Replies
<1> QED
  BY <1>2 DEF Finish, StepOf, InOrder, Replies

LEMMA SessionsStep ==
  ASSUME TypeOK, SessionsInOrder, Next PROVE SessionsInOrder'
<1>0. \A q \in Requests : status[q] \in {"idle", "diffing"} => txn[q].version = None
  BY DEF SessionsInOrder, InOrder, NoTxn
<1>1. \A q \in Requests, r \in RuleIds :
        Approve(q, r) \/ Reject(q, r) => \E s, t : StepOf(q, s, t)
  BY <1>0, PendingStep, RefuseStep DEF Approve, Reject, Replies
<1>2. \A q \in Requests, r \in RuleIds, u \in Edits :
        Edit(q, r, u) => \E s, t : StepOf(q, s, t)
  BY <1>0, PendingStep, RefuseStep DEF Edit, Replies
<1>3. \A q \in Requests, r \in RuleIds, v \in ManualValues :
        CreateManual(q, r, v) => \E s, t : StepOf(q, s, t)
  BY <1>0, PendingStep, RefuseStep DEF CreateManual, Replies
<1>4. \A q \in Requests, S \in SUBSET RuleIds :
        BulkApprove(q, S) => \E s, t : StepOf(q, s, t)
  BY <1>0, PendingStep DEF BulkApprove
<1>5. \A q \in Requests, x \in Extractions :
        Extract(q, x) => \E s, t : StepOf(q, s, t)
  BY <1>0, PendingStep, RejectedOutputStep DEF Extract
<1>6. \A q \in Requests : ReingestApply(q) => \E s, t : StepOf(q, s, t)
  BY <1>0, PendingStep DEF ReingestApply
<1>7. \A q \in Requests : Lose(q) => \E s, t : StepOf(q, s, t)
  BY RefuseStep DEF Lose, Replies
<1>8. PICK q \in Requests : \E s, t : StepOf(q, s, t)
  BY <1>1, <1>2, <1>3, <1>4, <1>5, <1>6, <1>7, ReingestBeginStep,
     PublishBeginStep, PublishReadStep, CommitStep DEF Next, Arrive
<1>9. PICK s, t : StepOf(q, s, t)
  BY <1>8
<1> QED
  BY <1>9 DEF SessionsInOrder, InOrder, StepOf, TypeOK

LEMMA TypeInit == Init => TypeOK /\ SessionsInOrder
<1> SUFFICES ASSUME Init PROVE TypeOK /\ SessionsInOrder
  OBVIOUS
<1>1. rules \in Rows
  BY FreshRowsType, StoreAssumption DEF Init
<1>2. txn \in [Requests -> Txn]
  BY NoTxnType DEF Init
<1> QED
  BY <1>1, <1>2 DEF Init, TypeOK, SessionsInOrder, InOrder, Stages, Rows

LEMMA TypesInductive == Spec => [](TypeOK /\ SessionsInOrder)
<1>1. TypeOK /\ SessionsInOrder /\ [Next]_vars => (TypeOK /\ SessionsInOrder)'
  <2> SUFFICES ASSUME TypeOK, SessionsInOrder, [Next]_vars
               PROVE  TypeOK' /\ SessionsInOrder'
    OBVIOUS
  <2>1. CASE Next
    BY <2>1, TypeStep, SessionsStep
  <2>2. CASE UNCHANGED vars
    BY <2>2 DEF vars, TypeOK, SessionsInOrder, InOrder
  <2> QED
    BY <2>1, <2>2
<1> QED
  BY <1>1, TypeInit, PTL DEF Spec

(* The store only ever holds well-formed rows, versions, audit events and  *)
(* pending transactions: no handler, in any interleaving, writes a payload *)
(* that rules/models.py would not read back.                               *)
THEOREM TypeCorrect == Spec => []TypeOK
BY TypesInductive, PTL

-----------------------------------------------------------------------------
(* Approved and published rows are sound *)

LEMMA SoundMonotone ==
  ASSUME NEW E, NEW F, E \subseteq F, NEW r, NEW row, Sound(E, r, row)
  PROVE  Sound(F, r, row)
BY DEF Sound, AuthorisedBy

LEMMA SoundNone == \A E, r : Sound(E, r, None)
BY DEF Sound, IsApproved

(* What a step of q has to leave in its session, when it writes no table. *)
LEMMA SessionSound ==
  ASSUME TypeOK, SoundInv, NEW q \in Requests, NEW t,
         txn' = [txn EXCEPT ![q] = t], UNCHANGED <<rules, versions, audit>>,
         \A r \in RuleIds : Sound(audit \cup t.events, r, t.writes[r]),
         \A r \in RuleIds : t.snapshot[r] # None => Authorised(r, t.snapshot[r])
  PROVE  SoundInv'
<1>1. \A p \in Requests : txn'[p] = IF p = q THEN t ELSE txn[p]
  BY DEF TypeOK
<1>2. WritesSound'
  BY <1>1 DEF SoundInv, WritesSound
<1>3. PendingSnapshotsApproved'
  BY <1>1 DEF SoundInv, PendingSnapshotsApproved, Authorised
<1>4. RowsSound' /\ SnapshotRulesApproved'
  BY DEF SoundInv, RowsSound, SnapshotRulesApproved, Authorised
<1> QED
  BY <1>2, <1>3, <1>4 DEF SoundInv

LEMMA RefuseSound ==
  ASSUME TypeOK, SoundInv, NEW q \in Requests, NEW reply, Refuse(q, reply)
  PROVE  SoundInv'
<1>1. \A r \in RuleIds : Sound(audit \cup NoTxn.events, r, NoTxn.writes[r])
  BY SoundNone DEF NoTxn, NoRows
<1>2. \A r \in RuleIds : NoTxn.snapshot[r] = None
  BY DEF NoTxn, NoRows
<1> QED
  BY <1>1, <1>2, SessionSound DEF Refuse, Finish

LEMMA PendingSound ==
  ASSUME TypeOK, SoundInv, NEW q \in Requests, NEW payloads, NEW new, NEW ev,
         Pending(q, payloads, new, ev),
         \A r \in RuleIds : Sound(audit \cup ev, r, payloads[r])
  PROVE  SoundInv'
<1> DEFINE w == Dirty(payloads)
           t == [txn[q] EXCEPT !.seen = Base(w), !.writes = w, !.inserts = new,
                               !.events = ev]
<1>1. \A r \in RuleIds : w[r] = None \/ w[r] = payloads[r]
  BY DEF Dirty
<1>2. \A r \in RuleIds : Sound(audit \cup ev, r, w[r])
  BY <1>1, SoundNone
<1>3. txn[q] \in Txn
  BY DEF TypeOK
<1>4. txn' = [txn EXCEPT ![q] = t]
  BY DEF Pending, TypeOK
<1> HIDE DEF w
<1>5. t.events = ev /\ t.writes = w /\ t.snapshot = txn[q].snapshot
  BY <1>3 DEF Txn
<1>6. \A r \in RuleIds : t.snapshot[r] # None => Authorised(r, t.snapshot[r])
  BY <1>5 DEF SoundInv, PendingSnapshotsApproved
<1> HIDE DEF t
<1>7. UNCHANGED <<rules, versions, audit>>
  BY DEF Pending
<1> QED
  BY <1>2, <1>4, <1>5, <1>6, <1>7, SessionSound

LEMMA RejectedOutputSound ==
  ASSUME TypeOK, SoundInv, SessionsInOrder, NEW q \in Requests, NEW x,
         status[q] = "idle", RejectedOutput(q, x)
  PROVE  SoundInv'
<1> DEFINE ev == {EventOf(q, "extraction_run.failed", x.run, None)}
           t == [NoTxn EXCEPT !.events = ev, !.reply = "invalid"]
<1>1. txn[q] = NoTxn
  BY DEF SessionsInOrder, InOrder
<1>2. txn' = [txn EXCEPT ![q] = t]
  BY <1>1 DEF RejectedOutput, TypeOK
<1> HIDE DEF ev
<1>3. t.writes = NoRows /\ t.snapshot = NoRows
  BY DEF NoTxn
<1> HIDE DEF t
<1>4. \A r \in RuleIds : t.writes[r] = None /\ t.snapshot[r] = None
  BY <1>3 DEF NoRows
<1>5. UNCHANGED <<rules, versions, audit>>
  BY DEF RejectedOutput
<1> QED
  BY <1>2, <1>4, <1>5, SoundNone, SessionSound

(* Rows fresh from an extraction are decided by nobody. *)
LEMMA FreshSound ==
  ASSUME NEW E, NEW x, NEW r \in RuleIds
  PROVE  Sound(E, r, FreshRows(x)[r])
BY SoundNone DEF FreshRows, CandidateRow, Sound, IsApproved

LEMMA ExtractSound ==
  ASSUME TypeOK, SoundInv, SessionsInOrder, NEW q \in Requests,
         NEW x \in Extractions, Extract(q, x)
  PROVE  SoundInv'
BY FreshSound, PendingSound, RejectedOutputSound DEF Extract

LEMMA LatestApproved ==
  ASSUME SoundInv, NEW r \in RuleIds, LatestSnapshot[r] # None
  PROVE  Authorised(r, LatestSnapshot[r])
<1>1. CASE \E v \in VersionIds : IsLatest(v)
  <2> DEFINE v == CHOOSE w \in VersionIds : IsLatest(w)
  <2>1. v \in VersionIds /\ versions[v] # None
    BY <1>1 DEF IsLatest
  <2> QED
    BY <1>1, <2>1 DEF LatestSnapshot, SoundInv, SnapshotRulesApproved
<1>2. CASE ~\E v \in VersionIds : IsLatest(v)
  BY <1>2 DEF LatestSnapshot, NoRows
<1> QED
  BY <1>1, <1>2

LEMMA ReingestBeginSound ==
  ASSUME TypeOK, SoundInv, SessionsInOrder, NEW q \in Requests,
         NEW x \in Extractions, ReingestBegin(q, x)
  PROVE  SoundInv'
<1>1. CASE OutputValid(x)
  <2> DEFINE t == [txn[q] EXCEPT !.run = x.run, !.writes = FreshRows(x),
                                 !.inserts = DOMAIN x.drafts,
                                 !.snapshot = LatestSnapshot]
  <2>1. txn' = [txn EXCEPT ![q] = t]
    BY <1>1 DEF ReingestBegin, TypeOK
  <2>2. t.writes = FreshRows(x) /\ t.snapshot = LatestSnapshot
    BY DEF TypeOK, Txn
  <2> HIDE DEF t
  <2>3. UNCHANGED <<rules, versions, audit>>
    BY <1>1 DEF ReingestBegin
  <2> QED
    BY <2>1, <2>2, <2>3, FreshSound, LatestApproved, SessionSound
<1>2. CASE ~OutputValid(x)
  BY <1>2, RejectedOutputSound DEF ReingestBegin
<1> QED
  BY <1>1, <1>2

(* A category changes neither the state nor the value of a row. *)
LEMMA CategorisedSound ==
  ASSUME NEW session \in Rows, NEW d, NEW doc, NEW E, NEW r \in RuleIds,
         Sound(E, r, session[r])
  PROVE  Sound(E, r, Categorised(session, d, doc)[r])
<1> DEFINE row == session[r]
<1>1. CASE row = None
  BY <1>1 DEF Categorised
<1>2. CASE row # None
  <2>1. row \in Payload
    BY <1>2 DEF Rows, Row
  <2>2. \A c : LET n == [row EXCEPT !.category = c]
               IN  n.state = row.state /\ n.value = row.value
    BY <2>1 DEF Payload
  <2>3. \A c : Sound(E, r, [row EXCEPT !.category = c])
    BY <1>2, <2>2 DEF Sound, IsApproved
  <2> QED
    BY <1>2, <2>3 DEF Categorised
<1> QED
  BY <1>1, <1>2

LEMMA ReingestApplySound ==
  ASSUME TypeOK, SoundInv, SessionsInOrder, NEW q \in Requests, ReingestApply(q)
  PROVE  SoundInv'
<1> DEFINE t == txn[q]
           doc == RunDocument[t.run]
           session == [r \in RuleIds |-> IF t.writes[r] # None THEN t.writes[r]
                                         ELSE rules[r]]
           d == ReingestionDiff(t.writes, t.snapshot, doc)
           ev == {EventOf(q, "document_version.uploaded", doc, None),
                  EventOf(q, "extraction_run.created", t.run, None)}
<1>1. t \in Txn /\ t.events = {}
  BY DEF TypeOK, SessionsInOrder, InOrder, ReingestApply
<1>2. session \in Rows
  BY <1>1 DEF TypeOK, Txn, Rows
<1>3. \A r \in RuleIds : Sound(audit, r, session[r])
  BY <1>1 DEF SoundInv, RowsSound, WritesSound
<1> HIDE DEF ev
<1>4. \A r \in RuleIds : Sound(audit \cup ev, r, session[r])
  BY <1>3, SoundMonotone
<1> HIDE DEF session
<1>5. \A r \in RuleIds : Sound(audit \cup ev, r, Categorised(session, d, doc)[r])
  BY <1>2, <1>4, CategorisedSound
<1>6. Pending(q, Categorised(session, d, doc), t.inserts, ev)
  BY DEF ReingestApply, session, ev
<1> QED
  BY <1>5, <1>6, PendingSound

LEMMA OnlySound ==
  ASSUME NEW r \in RuleIds, NEW row, NEW E, Sound(E, r, row)
  PROVE  \A p \in RuleIds : Sound(E, p, Only(r, row)[p])
BY SoundNone DEF Only, NoRows

LEMMA EditSound ==
  ASSUME TypeOK, SoundInv, NEW q \in Requests, NEW r \in RuleIds,
         NEW u \in Edits, Edit(q, r, u)
  PROVE  SoundInv'
<1> DEFINE row == EditedRow(rules[r], u)
           ev == {EventOf(q, "candidate_rule.edited", r, row.value)}
<1>1. CASE \E reply : Refuse(q, reply)
  BY <1>1, RefuseSound
<1>2. CASE IsCandidate(rules[r]) /\ Pending(q, Only(r, row), {}, ev)
  <2>1. rules[r] \in Row
    BY <1>2 DEF TypeOK, IsCandidate
  <2>2. row.state = "in_review"
    BY <1>2, <2>1, EditedRowType
  <2>3. Sound(audit \cup ev, r, row)
    BY <2>2 DEF Sound, IsApproved
  <2> QED
    BY <1>2, <2>3, OnlySound, PendingSound
<1> QED
  BY <1>1, <1>2 DEF Edit

(* The one way a Candidate Rule becomes approved, with its audit row. *)
LEMMA ApprovedRowSound ==
  ASSUME TypeOK, NEW q \in Requests, NEW r \in RuleIds, Approvable(r), NEW E,
         EventOf(q, "candidate_rule.approved", r, rules[r].value) \in E
  PROVE  Sound(E, r, ApprovedRow(rules[r]))
<1>1. rules[r] \in Payload
  BY DEF TypeOK, Row, Approvable, IsCandidate
<1>2. ApprovedRow(rules[r]).value = rules[r].value
  BY <1>1 DEF ApprovedRow, Reviewed, Payload
<1>3. RuleValid(rules[r].value)
  BY DEF Approvable
<1>4. AuthorisedBy(E, r, rules[r].value)
  BY DEF AuthorisedBy, EventOf, ApprovalActions
<1> QED
  BY <1>2, <1>3, <1>4 DEF Sound

LEMMA ApproveSound ==
  ASSUME TypeOK, SoundInv, NEW q \in Requests, NEW r \in RuleIds, Approve(q, r)
  PROVE  SoundInv'
<1> DEFINE ev == {EventOf(q, "candidate_rule.approved", r, rules[r].value)}
<1>1. CASE \E reply : Refuse(q, reply)
  BY <1>1, RefuseSound
<1>2. CASE Approvable(r) /\ Pending(q, Only(r, ApprovedRow(rules[r])), {}, ev)
  <2>1. Sound(audit \cup ev, r, ApprovedRow(rules[r]))
    BY <1>2, ApprovedRowSound
  <2> QED
    BY <1>2, <2>1, OnlySound, PendingSound
<1> QED
  BY <1>1, <1>2 DEF Approve, Approvable

LEMMA RejectSound ==
  ASSUME TypeOK, SoundInv, NEW q \in Requests, NEW r \in RuleIds, Reject(q, r)
  PROVE  SoundInv'
<1> DEFINE ev == {EventOf(q, "candidate_rule.rejected", r, rules[r].value)}
<1>1. CASE \E reply : Refuse(q, reply)
  BY <1>1, RefuseSound
<1>2. CASE /\ IsCandidate(rules[r])
           /\ Pending(q, Only(r, RejectedRow(rules[r])), {}, ev)
  <2>1. rules[r] \in Payload
    BY <1>2 DEF TypeOK, Row, IsCandidate
  <2>2. RejectedRow(rules[r]).state = "rejected"
    BY <2>1 DEF RejectedRow, Reviewed, Payload
  <2>3. Sound(audit \cup ev, r, RejectedRow(rules[r]))
    BY <2>2 DEF Sound, IsApproved
  <2> QED
    BY <1>2, <2>3, OnlySound, PendingSound
<1> QED
  BY <1>1, <1>2 DEF Reject

LEMMA BulkApproveSound ==
  ASSUME TypeOK, SoundInv, NEW q \in Requests, NEW S \in SUBSET RuleIds,
         BulkApprove(q, S)
  PROVE  SoundInv'
<1> DEFINE done == {r \in S : Approvable(r)}
           payloads == [r \in RuleIds |-> IF r \in done THEN ApprovedRow(rules[r])
                                          ELSE None]
           ev == {EventOf(q, "candidate_rule.approved", r, rules[r].value) :
                    r \in done}
<1>1. \A r \in done : Sound(audit \cup ev, r, ApprovedRow(rules[r]))
  BY ApprovedRowSound
<1>2. \A r \in RuleIds : Sound(audit \cup ev, r, payloads[r])
  BY <1>1, SoundNone
<1>3. Pending(q, payloads, {}, ev)
  BY DEF BulkApprove
<1> QED
  BY <1>2, <1>3, PendingSound

LEMMA CreateManualSound ==
  ASSUME TypeOK, SoundInv, NEW q \in Requests, NEW r \in RuleIds,
         NEW v \in ManualValues, CreateManual(q, r, v)
  PROVE  SoundInv'
<1> DEFINE ev == {EventOf(q, "rule.created", r, v)}
<1>1. CASE \E reply : Refuse(q, reply)
  BY <1>1, RefuseSound
<1>2. CASE RuleValid(v) /\ Pending(q, Only(r, ManualRow(v)), {r}, ev)
  <2>1. Sound(audit \cup ev, r, ManualRow(v))
    <3>1. ManualRow(v).value = v
      BY DEF ManualRow
    <3>2. AuthorisedBy(audit \cup ev, r, v)
      <4> DEFINE e == EventOf(q, "rule.created", r, v)
      <4>1. e \in audit \cup ev
        OBVIOUS
      <4>2. e.action \in ApprovalActions /\ e.entity = r /\ e.value = v
        BY DEF EventOf, ApprovalActions
      <4> QED
        BY <4>1, <4>2 DEF AuthorisedBy
    <3> QED
      BY <1>2, <3>1, <3>2 DEF Sound
  <2> QED
    BY <1>2, <2>1, OnlySound, PendingSound
<1> QED
  BY <1>1, <1>2 DEF CreateManual

LEMMA PublishBeginSound ==
  ASSUME TypeOK, SoundInv, NEW q \in Requests, NEW v \in VersionIds,
         PublishBegin(q, v)
  PROVE  SoundInv'
<1>1. CASE versions[v] # None
  BY <1>1, RefuseSound DEF PublishBegin
<1>2. CASE versions[v] = None
  <2> DEFINE t == [txn[q] EXCEPT !.version = v, !.startedAt = clock]
  <2>1. txn' = [txn EXCEPT ![q] = t]
    BY <1>2 DEF PublishBegin, TypeOK
  <2>2. /\ t.writes = txn[q].writes /\ t.snapshot = txn[q].snapshot
        /\ t.events = txn[q].events
    BY DEF TypeOK, Txn
  <2> HIDE DEF t
  <2>3. \A r \in RuleIds : Sound(audit \cup t.events, r, t.writes[r])
    BY <2>2 DEF SoundInv, WritesSound
  <2>4. \A r \in RuleIds : t.snapshot[r] # None => Authorised(r, t.snapshot[r])
    BY <2>2 DEF SoundInv, PendingSnapshotsApproved
  <2>5. UNCHANGED <<rules, versions, audit>>
    BY <1>2 DEF PublishBegin
  <2> QED
    BY <2>1, <2>3, <2>4, <2>5, SessionSound
<1> QED
  BY <1>1, <1>2

LEMMA PublishReadSound ==
  ASSUME TypeOK, SoundInv, NEW q \in Requests, PublishRead(q)
  PROVE  SoundInv'
<1> DEFINE chosen == {r \in RuleIds : IsApproved(rules[r])}
           payloads == [r \in RuleIds |-> IF r \in chosen THEN PublishedRow(rules[r])
                                          ELSE None]
           w == Dirty(payloads)
           snap == [r \in RuleIds |-> IF r \in chosen
                                      THEN PublishedValue(rules[r]) ELSE None]
           ev == {EventOf(q, "policy_version.published", txn[q].version, None)}
           t == [txn[q] EXCEPT !.seen = Base(w), !.writes = w, !.snapshot = snap,
                               !.events = ev]
<1>1. CASE \E reply : Refuse(q, reply)
  BY <1>1, RefuseSound
<1>2. CASE /\ txn' = [txn EXCEPT ![q].seen = Base(w), ![q].writes = w,
                                 ![q].snapshot = snap, ![q].events = ev]
           /\ UNCHANGED <<rules, versions, audit, clock>>
  <2>1. \A r \in chosen : RuleValid(rules[r].value) /\ Authorised(r, rules[r].value)
    BY DEF SoundInv, RowsSound, Sound, Authorised
  <2>2. \A r \in chosen : rules[r] \in Payload
    BY DEF TypeOK, Row, IsApproved
  <2>3. \A r \in chosen : PublishedRow(rules[r]).value = rules[r].value
    BY <2>2 DEF PublishedRow, Payload
  <2>4. \A r \in chosen : Sound(audit, r, PublishedRow(rules[r]))
    BY <2>1, <2>3 DEF Sound, Authorised
  <2>5. \A r \in RuleIds : w[r] = None \/ (r \in chosen /\ w[r] = PublishedRow(rules[r]))
    BY DEF Dirty
  <2>6. \A r \in RuleIds : Sound(audit, r, w[r])
    BY <2>4, <2>5, SoundNone
  <2>7. \A r \in RuleIds : snap[r] # None => Authorised(r, snap[r])
    BY <2>1 DEF PublishedValue
  <2>8. txn[q] \in Txn
    BY DEF TypeOK
  <2> HIDE DEF w, snap, ev
  <2>9. txn' = [txn EXCEPT ![q] = t]
    BY <1>2 DEF TypeOK
  <2>10. t.writes = w /\ t.snapshot = snap
    BY <2>8 DEF Txn
  <2> HIDE DEF t
  <2>11. \A r \in RuleIds : Sound(audit \cup t.events, r, t.writes[r])
    BY <2>6, <2>10, SoundMonotone
  <2>12. \A r \in RuleIds : t.snapshot[r] # None => Authorised(r, t.snapshot[r])
    BY <2>7, <2>10
  <2> QED
    BY <1>2, <2>9, <2>11, <2>12, SessionSound
<1> QED
  BY <1>1, <1>2 DEF PublishRead

(* The one step that writes the tables: what it writes was sound when it   *)
(* was prepared, and its own audit rows come with it.                      *)
LEMMA CommitSound ==
  ASSUME TypeOK, SoundInv, NEW q \in Requests, Commit(q)
  PROVE  SoundInv'
<1>1. CASE Refuse(q, "error")
  BY <1>1, RefuseSound
<1>2. CASE ~DuplicateKey(txn[q])
  <2> DEFINE t == txn[q]
  <2>1. /\ rules' = [r \in RuleIds |-> IF t.writes[r] # None
                                       THEN t.writes[r] ELSE rules[r]]
        /\ versions' = [v \in VersionIds |->
                          IF v = t.version
                          THEN [createdAt |-> t.startedAt, rules |-> t.snapshot]
                          ELSE versions[v]]
        /\ audit' = audit \cup t.events
        /\ txn' = [txn EXCEPT ![q] = NoTxn]
    BY <1>2 DEF Commit, Finish
  <2>2. audit \subseteq audit'
    BY <2>1
  <2>3. \A r, v : Authorised(r, v) => AuthorisedBy(audit', r, v)
    BY <2>2 DEF Authorised, AuthorisedBy
  <2>4. RowsSound'
    <3> SUFFICES ASSUME NEW r \in RuleIds PROVE Sound(audit', r, rules'[r])
      BY DEF RowsSound
    <3>1. Sound(audit', r, t.writes[r])
      BY <2>1 DEF SoundInv, WritesSound
    <3>2. Sound(audit', r, rules[r])
      BY <2>2, SoundMonotone DEF SoundInv, RowsSound
    <3> QED
      BY <2>1, <3>1, <3>2
  <2>5. WritesSound'
    <3> SUFFICES ASSUME NEW p \in Requests, NEW r \in RuleIds
                 PROVE  Sound(audit' \cup txn'[p].events, r, txn'[p].writes[r])
      BY DEF WritesSound
    <3>1. CASE p = q
      <4>1. txn'[p].writes[r] = None
        BY <2>1, <3>1 DEF TypeOK, NoTxn, NoRows
      <4> QED
        BY <4>1, SoundNone
    <3>2. CASE p # q
      <4>1. txn'[p] = txn[p]
        BY <2>1, <3>2 DEF TypeOK
      <4>2. Sound(audit \cup txn[p].events, r, txn[p].writes[r])
        BY DEF SoundInv, WritesSound
      <4>3. audit \cup txn[p].events \subseteq audit' \cup txn'[p].events
        BY <2>2, <4>1
      <4> QED
        BY <4>1, <4>2, <4>3, SoundMonotone
    <3> QED
      BY <3>1, <3>2
  <2>6. SnapshotRulesApproved'
    <3> SUFFICES ASSUME NEW v \in VersionIds, NEW r \in RuleIds,
                        versions'[v] # None, versions'[v].rules[r] # None
                 PROVE  AuthorisedBy(audit', r, versions'[v].rules[r])
      BY DEF SnapshotRulesApproved, Authorised
    <3>1. CASE v = t.version
      BY <2>1, <2>3, <3>1 DEF SoundInv, PendingSnapshotsApproved
    <3>2. CASE v # t.version
      BY <2>1, <2>3, <3>2 DEF SoundInv, SnapshotRulesApproved
    <3> QED
      BY <3>1, <3>2
  <2>7. PendingSnapshotsApproved'
    <3> SUFFICES ASSUME NEW p \in Requests, NEW r \in RuleIds,
                        txn'[p].snapshot[r] # None
                 PROVE  AuthorisedBy(audit', r, txn'[p].snapshot[r])
      BY DEF PendingSnapshotsApproved, Authorised
    <3>1. p # q /\ txn'[p] = txn[p]
      BY <2>1 DEF TypeOK, NoTxn, NoRows
    <3> QED
      BY <2>3, <3>1 DEF SoundInv, PendingSnapshotsApproved
  <2> QED
    BY <2>4, <2>5, <2>6, <2>7 DEF SoundInv
<1> QED
  BY <1>1, <1>2 DEF Commit

LEMMA SoundStep ==
  ASSUME TypeOK, SessionsInOrder, SoundInv, Next PROVE SoundInv'
<1> SUFFICES ASSUME NEW q \in Requests,
                    \/ Arrive(q) \/ ReingestApply(q) \/ PublishRead(q)
                    \/ Commit(q) \/ Lose(q)
             PROVE  SoundInv'
  BY DEF Next
<1>1. CASE Arrive(q)
  BY <1>1, ExtractSound, ReingestBeginSound, EditSound, ApproveSound,
     RejectSound, BulkApproveSound, CreateManualSound, PublishBeginSound
     DEF Arrive
<1>2. CASE Lose(q)
  BY <1>2, RefuseSound DEF Lose
<1> QED
  BY <1>1, <1>2, ReingestApplySound, PublishReadSound, CommitSound

LEMMA SoundInit == Init => SoundInv
<1> SUFFICES ASSUME Init PROVE SoundInv
  OBVIOUS
<1>1. RowsSound
  BY FreshSound DEF Init, RowsSound
<1>2. \A q \in Requests, r \in RuleIds :
        txn[q].writes[r] = None /\ txn[q].snapshot[r] = None
  BY DEF Init, NoTxn, NoRows
<1>3. SnapshotRulesApproved
  BY DEF Init, SnapshotRulesApproved
<1> QED
  BY <1>1, <1>2, <1>3, SoundNone DEF SoundInv, WritesSound, PendingSnapshotsApproved

LEMMA SoundInductive == Spec => []SoundInv
<1>1. TypeOK /\ SessionsInOrder /\ SoundInv /\ [Next]_vars => SoundInv'
  <2> SUFFICES ASSUME TypeOK, SessionsInOrder, SoundInv, [Next]_vars
               PROVE  SoundInv'
    OBVIOUS
  <2>1. CASE UNCHANGED vars
    BY <2>1 DEF vars, SoundInv, RowsSound, WritesSound, SnapshotRulesApproved,
                PendingSnapshotsApproved, Authorised
  <2> QED
    BY <2>1, SoundStep
<1> QED
  BY <1>1, SoundInit, TypesInductive, PTL DEF Spec

(* Whatever requests overlap, every rule of every stored Policy Version    *)
(* was approved (or created as a Manual Rule) exactly as it stands there:  *)
(* publish_policy_version never picks up a half-reviewed value.            *)
THEOREM SnapshotsApproved == Spec => []SnapshotRulesApproved
<1>1. SoundInv => SnapshotRulesApproved
  BY DEF SoundInv
<1> QED
  BY <1>1, SoundInductive, PTL

(* Rule.model_validate never fails on a row publish_policy_version         *)
(* selects: no row can block publishing.                                   *)
THEOREM ApprovedPublishable == Spec => []ApprovedRowsPublishable
<1>1. SoundInv => ApprovedRowsPublishable
  BY DEF SoundInv, RowsSound, Sound, ApprovedRowsPublishable
<1> QED
  BY <1>1, SoundInductive, PTL

LEMMA CommitKeepsVersions ==
  ASSUME NEW q \in Requests, Commit(q), NEW v \in VersionIds, versions[v] # None
  PROVE  versions'[v] = versions[v]
<1>1. CASE DuplicateKey(txn[q])
  BY <1>1 DEF Commit, Refuse
<1>2. CASE ~DuplicateKey(txn[q])
  <2>1. v # txn[q].version
    BY <1>2, StoreAssumption DEF DuplicateKey
  <2> QED
    BY <1>2, <2>1 DEF Commit
<1> QED
  BY <1>1, <1>2

(* Every other action leaves the tables alone. *)
LEMMA OnlyCommitWrites ==
  ASSUME Next
  PROVE  (\E q \in Requests : Commit(q)) \/ UNCHANGED <<rules, versions, audit>>
<1> DEFINE T == UNCHANGED <<rules, versions, audit>>
<1>1. \A q, payloads, new, ev : Pending(q, payloads, new, ev) => T
  BY DEF Pending
<1>2. \A q, reply : Refuse(q, reply) => T
  BY DEF Refuse
<1>3. \A q, x : RejectedOutput(q, x) => T
  BY DEF RejectedOutput
<1>4. \A q, x : Extract(q, x) \/ ReingestBegin(q, x) => T
  BY <1>1, <1>3 DEF Extract, ReingestBegin
<1>5. \A q, r : Approve(q, r) \/ Reject(q, r) => T
  BY <1>1, <1>2 DEF Approve, Reject
<1>6. \A q, r, u : Edit(q, r, u) \/ CreateManual(q, r, u) => T
  BY <1>1, <1>2 DEF Edit, CreateManual
<1>7. \A q, S : BulkApprove(q, S) => T
  BY <1>1 DEF BulkApprove
<1>8. \A q : ReingestApply(q) => T
  BY <1>1 DEF ReingestApply
<1>9. \A q, v : PublishBegin(q, v) => T
  BY <1>2 DEF PublishBegin
<1>10. \A q : PublishRead(q) \/ Lose(q) => T
  BY <1>2 DEF PublishRead, Lose
<1> QED
  BY <1>4, <1>5, <1>6, <1>7, <1>8, <1>9, <1>10 DEF Next, Arrive

(* A stored Policy Version never changes: only Commit writes the table,    *)
(* and its primary key stops the second publisher of an id.                *)
THEOREM VersionsImmutable == Spec => SnapshotsImmutable
<1>1. [Next]_vars => [\A v \in VersionIds : versions[v] # None
                                 => versions'[v] = versions[v]]_vars
  <2> SUFFICES ASSUME Next, NEW v \in VersionIds, versions[v] # None
               PROVE  versions'[v] = versions[v]
    BY DEF vars
  <2> QED
    BY OnlyCommitWrites, CommitKeepsVersions
<1> QED
  BY <1>1, PTL DEF Spec, SnapshotsImmutable

-----------------------------------------------------------------------------
(* The store implements ApprovedPolicy *)

LEMMA ApprovalEventType ==
  ASSUME NEW e \in Event, e.action \in ApprovalActions
  PROVE  e.entity \in RuleIds /\ e.value \in Value
BY DEF Event, ApprovalActions, RuleActions, OtherActions

LEMMA CommitImplements ==
  ASSUME TypeOK, SessionsInOrder, SoundInv, NEW q \in Requests, Commit(q),
         ~DuplicateKey(txn[q])
  PROVE  Abstract!Next \/ UNCHANGED Abstract!vars
<1> DEFINE t == txn[q]
           S == {<<r, t.snapshot[r]>> : r \in {p \in RuleIds : t.snapshot[p] # None}}
<1>1. /\ status[q] = "loaded"
      /\ versions' = [v \in VersionIds |->
                        IF v = t.version
                        THEN [createdAt |-> t.startedAt, rules |-> t.snapshot]
                        ELSE versions[v]]
      /\ audit' = audit \cup t.events
  BY DEF Commit
<1>2. t \in Txn
  BY DEF TypeOK
<1>3. audit \cup t.events \subseteq Event
  BY <1>2 DEF TypeOK, Txn
<1>4. ApprovedPairs \subseteq ApprovedPairs'
  BY <1>1 DEF ApprovedPairs
<1>5. ApprovedPairs' \subseteq RuleIds \X Value
  BY <1>1, <1>3, ApprovalEventType DEF ApprovedPairs
<1>6. CASE t.version = None
  <2>1. \A v \in VersionIds : versions'[v] = versions[v]
    BY <1>1, <1>6, StoreAssumption
  <2>2. PublishedPairs' = PublishedPairs
    BY <2>1 DEF PublishedPairs
  <2>3. Abstract!Approve
    BY <1>4, <1>5, <2>2 DEF Abstract!Approve
  <2> QED
    BY <2>3 DEF Abstract!Next
<1>7. CASE t.version # None
  <2>1. t.version \in VersionIds
    BY <1>2, <1>7 DEF Txn
  <2>2. /\ \E r \in RuleIds : t.snapshot[r] # None
        /\ \A e \in t.events : e.action \notin ApprovalActions
    BY <1>1, <1>7 DEF SessionsInOrder, InOrder
  <2>3. ApprovedPairs' = ApprovedPairs
    BY <1>1, <2>2 DEF ApprovedPairs
  <2>4. S # {} /\ Abstract!OneValuePerRule(S)
    <3>1. S # {}
      BY <2>2
    <3>2. \A p \in S : p = <<p[1], t.snapshot[p[1]]>>
      OBVIOUS
    <3>3. \A p, s \in S : p[1] = s[1] => p = s
      BY <3>2
    <3> QED
      BY <3>1, <3>3 DEF Abstract!OneValuePerRule
  <2>5. S \subseteq ApprovedPairs
    BY DEF SoundInv, PendingSnapshotsApproved, Authorised, AuthorisedBy,
           ApprovedPairs
  <2>6. versions[t.version] = None
    BY <1>7 DEF DuplicateKey
  <2>7. PublishedPairs[t.version] = {}
    BY <2>1, <2>6 DEF PublishedPairs
  <2>8. PublishedPairs' = [PublishedPairs EXCEPT ![t.version] = S]
    <3>1. versions'[t.version] = [createdAt |-> t.startedAt, rules |-> t.snapshot]
      BY <1>1, <2>1
    <3>2. versions'[t.version] # None /\ versions'[t.version].rules = t.snapshot
      BY <1>2, <3>1, StoreAssumption DEF Version, Txn
    <3>3. \A v \in VersionIds : v # t.version => versions'[v] = versions[v]
      BY <1>1
    <3>4. PublishedPairs'[t.version] = S
      BY <2>1, <3>2 DEF PublishedPairs
    <3>5. \A v \in VersionIds : v # t.version =>
            PublishedPairs'[v] = PublishedPairs[v]
      BY <3>3 DEF PublishedPairs
    <3>6. /\ PublishedPairs' = [v \in VersionIds |-> PublishedPairs'[v]]
          /\ PublishedPairs = [v \in VersionIds |-> PublishedPairs[v]]
      BY DEF PublishedPairs
    <3> HIDE DEF S
    <3> QED
      BY <3>4, <3>5, <3>6
  <2>9. Abstract!Publish(t.version, S)
    BY <2>3, <2>4, <2>5, <2>7, <2>8 DEF Abstract!Publish
  <2> QED
    BY <2>1, <2>5, <2>9 DEF Abstract!Next
<1> QED
  BY <1>6, <1>7

LEMMA TablesUnchanged ==
  UNCHANGED <<versions, audit>> => UNCHANGED Abstract!vars
BY DEF Abstract!vars, ApprovedPairs, PublishedPairs

LEMMA StepImplements ==
  ASSUME TypeOK, SessionsInOrder, SoundInv, Next
  PROVE  Abstract!Next \/ UNCHANGED Abstract!vars
<1>1. CASE UNCHANGED <<rules, versions, audit>>
  BY <1>1, TablesUnchanged
<1>2. ASSUME NEW q \in Requests, Commit(q)
      PROVE  Abstract!Next \/ UNCHANGED Abstract!vars
  <2>1. CASE DuplicateKey(txn[q])
    BY <1>2, <2>1, TablesUnchanged DEF Commit, Refuse
  <2> QED
    BY <1>2, <2>1, CommitImplements
<1> QED
  BY <1>1, <1>2, OnlyCommitWrites

(* The tables and handlers implement the promise of ADR-0001 and ADR-0002: *)
(* humans approve values, and a Policy Version appears once, as a          *)
(* non-empty set of approved values, and stays.                            *)
THEOREM Implements == Spec => ImplementsApprovedPolicy
<1>1. Init => Abstract!Init
  BY DEF Init, Abstract!Init, ApprovedPairs, PublishedPairs
<1>2. TypeOK /\ SessionsInOrder /\ SoundInv /\ [Next]_vars
        => [Abstract!Next]_(Abstract!vars)
  <2>1. UNCHANGED vars => UNCHANGED Abstract!vars
    BY TablesUnchanged DEF vars
  <2> QED
    BY <2>1, StepImplements
<1> QED
  BY <1>1, <1>2, TypesInductive, SoundInductive, PTL
     DEF Spec, ImplementsApprovedPolicy, Abstract!Spec
-----------------------------------------------------------------------------
(***************************************************************************)
(* The record of the store: the audit log is the record of what was        *)
(* decided, what a payload says twice agrees, a published row is in a      *)
(* stored snapshot, the value as extracted survives, and a commit over the *)
(* row it read follows the lifecycle.                                      *)
(*                                                                         *)
(* These too are about the tables and become inductive when they are also  *)
(* stated of the rows a session is about to write (WriteKept).  Such a row *)
(* may rest on what the same commit adds: the audit events of the session  *)
(* and, for a publisher, its snapshot.                                     *)
(***************************************************************************)
Recorded(events, action, r, v) == \E e \in events : /\ e.action = action
                                                    /\ e.entity = r
                                                    /\ e.value = v
Decided(events, r, row) ==
  row # None =>
    /\ row.state = "rejected"
         => Recorded(events, "candidate_rule.rejected", r, row.value)
    /\ row.state = "in_review"
         => Recorded(events, "candidate_rule.edited", r, row.value)

(* PayloadsConsistent, of one row. *)
FlagAgrees(v, flags) == v.citation = None <=> "unresolvable_citation" \in flags
CommittedAgrees(row) ==
  row.committed = IF row.state = "extracted" THEN None
                  ELSE [state |-> row.state, value |-> row.value]
Consistent(row) ==
  IsCandidate(row) => FlagAgrees(row.value, row.flags) /\ CommittedAgrees(row)

Carries(stored, r, v) == \E w \in VersionIds : /\ stored[w] # None
                                               /\ stored[w].rules[r] = v
IsPublished(row) == row # None /\ row.state = "published"

(* What a rewrite of row a to row b keeps, and how it may move the row. *)
SameOrigin(a, b) == /\ b.extracted = a.extracted
                    /\ b.run = a.run
                    /\ b.value.origin = a.value.origin
Follows(a, b) == /\ <<a.state, b.state>> \in LifecycleEdges
                 /\ a.state \in EditableStates \/ b.value = a.value

RowKept(r) == /\ Decided(audit, r, rules[r])
              /\ Consistent(rules[r])
              /\ IsPublished(rules[r]) => Carries(versions, r, rules[r].value)

(* t is the session, r the rule it writes. *)
WriteKept(t, r) ==
  LET row == t.writes[r]
  IN  row # None =>
        /\ Decided(audit \cup t.events, r, row)
        /\ Consistent(row)
        /\ IsPublished(row) => \/ Carries(versions, r, row.value)
                               \/ t.version # None /\ t.snapshot[r] = row.value
        /\ \/ r \in t.inserts
           \/ /\ rules[r] # None
              /\ SameOrigin(rules[r], row)
              /\ t.seen[r] # None
              /\ Follows(t.seen[r], row)

(* The audit rows a session is about to add are its own and fit its reply; *)
(* the first half of a re-ingestion only holds rows it will insert.        *)
ReplyFor(e) == IF e.action = "extraction_run.failed" THEN "invalid" ELSE "ok"
SessionFits(q, s, t) ==
  /\ s # "loaded" => t.events = {} /\ t.reply = "ok"
  /\ \A e \in t.events : e.request = q /\ t.reply = ReplyFor(e)
  /\ s = "diffing" => \A r \in RuleIds : t.writes[r] # None => r \in t.inserts

RecordInv == /\ \A r \in RuleIds : RowKept(r)
             /\ \A q \in Requests, r \in RuleIds : WriteKept(txn[q], r)
             /\ \A q \in Requests : SessionFits(q, status[q], txn[q])
             /\ AuditMatchesReplies

-----------------------------------------------------------------------------
(* Steps that write no table *)

(* A step of q that leaves the tables alone keeps the invariant if it does *)
(* so for the session of q.                                                *)
LEMMA SessionKept ==
  ASSUME TypeOK, RecordInv, NEW q \in Requests, NEW s, NEW t,
         status[q] \in Stages,
         status' = [status EXCEPT ![q] = s], txn' = [txn EXCEPT ![q] = t],
         UNCHANGED <<rules, versions, audit>>,
         \A r \in RuleIds : WriteKept(t, r),
         SessionFits(q, s, t)
  PROVE  RecordInv'
<1>1. \A p \in Requests : /\ txn'[p] = IF p = q THEN t ELSE txn[p]
                          /\ status'[p] = IF p = q THEN s ELSE status[p]
  BY DEF TypeOK
<1>2. \A r \in RuleIds : RowKept(r)'
  BY DEF RecordInv, RowKept, Carries
<1>3. ASSUME NEW p \in Requests, NEW r \in RuleIds PROVE WriteKept(txn[p], r)'
  <2>1. WriteKept(txn'[p], r)
    BY <1>1 DEF RecordInv
  <2> QED
    BY <2>1 DEF WriteKept, Carries
<1>4. ASSUME NEW p \in Requests PROVE SessionFits(p, status[p], txn[p])'
  <2>1. SessionFits(p, status'[p], txn'[p])
    BY <1>1 DEF RecordInv
  <2> QED
    BY <2>1 DEF SessionFits
<1>5. AuditMatchesReplies'
  <2> SUFFICES ASSUME NEW e \in audit PROVE status'[e.request] = ReplyFor(e)
    BY DEF AuditMatchesReplies, ReplyFor
  <2>1. status[e.request] = ReplyFor(e) /\ e.request \in Requests
    BY DEF RecordInv, AuditMatchesReplies, ReplyFor, TypeOK, Event
  <2>2. e.request # q
    BY <2>1 DEF ReplyFor, Stages
  <2> QED
    BY <1>1, <2>1, <2>2
<1> QED
  BY <1>2, <1>3, <1>4, <1>5 DEF RecordInv

LEMMA RefuseKept ==
  ASSUME TypeOK, RecordInv, NEW q \in Requests, status[q] \in Stages,
         NEW reply \in Replies, Refuse(q, reply)
  PROVE  RecordInv'
<1>1. \A r \in RuleIds : WriteKept(NoTxn, r)
  BY DEF WriteKept, NoTxn, NoRows
<1>2. SessionFits(q, reply, NoTxn)
  BY DEF SessionFits, NoTxn, NoRows
<1> QED
  BY <1>1, <1>2, SessionKept DEF Refuse, Finish

(* What a handler has to know of a payload it is about to write. *)
PayloadKept(r, row, new, ev) ==
  row # None =>
    /\ Decided(audit \cup ev, r, row)
    /\ Consistent(row)
    /\ IsPublished(row) => Carries(versions, r, row.value)
    /\ \/ r \in new
       \/ rules[r] # None /\ SameOrigin(rules[r], row) /\ Follows(rules[r], row)

LEMMA PendingKept ==
  ASSUME TypeOK, RecordInv, NEW q \in Requests, NEW payloads, NEW new, NEW ev,
         status[q] \in Stages \ {"loaded"},
         Pending(q, payloads, new, ev),
         \A r \in RuleIds : PayloadKept(r, payloads[r], new, ev),
         \A e \in ev : e.request = q /\ e.action # "extraction_run.failed"
  PROVE  RecordInv'
<1> DEFINE w == Dirty(payloads)
           t == [txn[q] EXCEPT !.seen = Base(w), !.writes = w, !.inserts = new,
                               !.events = ev]
<1>1. \A r \in RuleIds : w[r] # None => w[r] = payloads[r] /\ Base(w)[r] = rules[r]
  BY DEF Dirty, Base
<1>2. txn[q] \in Txn
  BY DEF TypeOK
<1>3. txn' = [txn EXCEPT ![q] = t]
  BY DEF Pending, TypeOK
<1>4. /\ status' = [status EXCEPT ![q] = "loaded"]
      /\ UNCHANGED <<rules, versions, audit>>
  BY DEF Pending
<1> HIDE DEF w
<1>5. /\ t.seen = Base(w) /\ t.writes = w /\ t.inserts = new /\ t.events = ev
      /\ t.reply = txn[q].reply
  BY <1>2 DEF Txn
<1> HIDE DEF t
<1>6. \A r \in RuleIds : WriteKept(t, r)
  BY <1>1, <1>5 DEF PayloadKept, WriteKept
<1>7. SessionFits(q, "loaded", t)
  BY <1>5 DEF RecordInv, SessionFits, ReplyFor
<1> QED
  BY <1>3, <1>4, <1>6, <1>7, SessionKept

LEMMA RejectedOutputKept ==
  ASSUME TypeOK, RecordInv, SessionsInOrder, NEW q \in Requests, NEW x,
         status[q] = "idle", RejectedOutput(q, x)
  PROVE  RecordInv'
<1> DEFINE ev == {EventOf(q, "extraction_run.failed", x.run, None)}
           t == [NoTxn EXCEPT !.events = ev, !.reply = "invalid"]
<1>1. txn[q] = NoTxn
  BY DEF SessionsInOrder, InOrder
<1>2. txn' = [txn EXCEPT ![q] = t]
  BY <1>1 DEF RejectedOutput, TypeOK
<1>3. \A e \in ev : e.request = q /\ ReplyFor(e) = "invalid"
  BY DEF EventOf, ReplyFor
<1> HIDE DEF ev
<1>4. t.writes = NoRows /\ t.events = ev /\ t.reply = "invalid"
  BY DEF NoTxn
<1> HIDE DEF t
<1>5. \A r \in RuleIds : WriteKept(t, r)
  BY <1>4 DEF WriteKept, NoRows
<1>6. SessionFits(q, "loaded", t)
  BY <1>3, <1>4 DEF SessionFits
<1>7. /\ status' = [status EXCEPT ![q] = "loaded"]
      /\ UNCHANGED <<rules, versions, audit>>
      /\ status[q] \in Stages
  BY DEF RejectedOutput, Stages
<1> QED
  BY <1>2, <1>5, <1>6, <1>7, SessionKept

-----------------------------------------------------------------------------
(* What the row constructors keep *)

(* The two fields that say whether a citation was resolved are written     *)
(* together, from the same anchor.                                         *)
LEMMA CandidateRowConsistent ==
  ASSUME NEW run \in Runs, NEW d \in Draft
  PROVE  /\ Consistent(CandidateRow(run, d))
         /\ CandidateRow(run, d).state = "extracted"
<1> DEFINE anchor == ResolveDraft(run, d)
           v == [origin |-> "extracted", statement |-> d.statement,
                 class |-> d.class, condition |-> d.condition,
                 citation |-> IF anchor = "none" THEN None
                              ELSE RunDocument[run]]
<1>1. RunDocument[run] # None
  BY StoreAssumption
<1>2. FlagAgrees(v, FlagsFor(anchor))
  BY <1>1 DEF FlagAgrees, FlagsFor
<1>3. CandidateRow(run, d)
        = [state |-> "extracted", value |-> v, run |-> run, extracted |-> v,
           committed |-> None, flags |-> FlagsFor(anchor), category |-> None]
  BY DEF CandidateRow
<1> HIDE DEF v, anchor
<1> QED
  BY <1>2, <1>3 DEF Consistent, CommittedAgrees

LEMMA FreshKept ==
  ASSUME NEW x \in Extraction, NEW r \in RuleIds, NEW ev
  PROVE  PayloadKept(r, FreshRows(x)[r], DOMAIN x.drafts, ev)
<1>1. CASE r \notin DOMAIN x.drafts
  BY <1>1 DEF FreshRows, PayloadKept
<1>2. CASE r \in DOMAIN x.drafts
  <2> DEFINE row == CandidateRow(x.run, x.drafts[r])
  <2>1. Consistent(row) /\ row.state = "extracted"
    BY <1>2, DraftTypes, CandidateRowConsistent
  <2>2. FreshRows(x)[r] = row
    BY <1>2 DEF FreshRows
  <2> HIDE DEF row
  <2> QED
    BY <1>2, <2>1, <2>2 DEF PayloadKept, Decided, IsPublished
<1> QED
  BY <1>1, <1>2

(* A review writes state, value and flags, and their committed copy. *)
LEMMA ReviewedFields ==
  ASSUME NEW row \in Row, NEW st, NEW v, NEW fl
  PROVE  LET n == Reviewed(row, st, v, fl)
         IN  /\ n.state = st /\ n.value = v /\ n.flags = fl
             /\ n.committed = [state |-> st, value |-> v]
             /\ n.extracted = row.extracted /\ n.run = row.run
BY DEF Reviewed, Row, Payload

(* Each decision of a reviewer, and the audit action that records it. *)
DecisionOf == {<<"in_review", "candidate_rule.edited">>,
               <<"approved", "candidate_rule.approved">>,
               <<"rejected", "candidate_rule.rejected">>}

LEMMA ReviewedKept ==
  ASSUME TypeOK, NEW q \in Requests, NEW r \in RuleIds,
         IsCandidate(rules[r]), Editable(rules[r]),
         NEW st, NEW action, <<st, action>> \in DecisionOf,
         NEW v, NEW fl, v.origin = rules[r].value.origin, FlagAgrees(v, fl),
         NEW new, NEW ev, EventOf(q, action, r, v) \in ev
  PROVE  PayloadKept(r, Reviewed(rules[r], st, v, fl), new, ev)
<1> DEFINE row == Reviewed(rules[r], st, v, fl)
<1>1. rules[r] \in Row /\ rules[r] # None
  BY DEF TypeOK, IsCandidate
<1>2. /\ row.state = st /\ row.value = v /\ row.flags = fl
      /\ row.committed = [state |-> st, value |-> v]
      /\ row.extracted = rules[r].extracted /\ row.run = rules[r].run
  BY <1>1, ReviewedFields
<1> HIDE DEF row
<1>3. st \in {"in_review", "approved", "rejected"}
  BY DEF DecisionOf
<1>4. Consistent(row)
  BY <1>2, <1>3 DEF Consistent, CommittedAgrees
<1>5. Recorded(audit \cup ev, action, r, v)
  BY DEF Recorded, EventOf
<1>6. Decided(audit \cup ev, r, row)
  BY <1>2, <1>5 DEF Decided, DecisionOf
<1>7. SameOrigin(rules[r], row)
  BY <1>2 DEF SameOrigin
<1>8. Follows(rules[r], row)
  BY <1>2, <1>3 DEF Follows, Editable, EditableStates, LifecycleEdges
<1> QED
  BY <1>1, <1>2, <1>3, <1>4, <1>6, <1>7, <1>8 DEF PayloadKept, IsPublished, row

LEMMA ReconciledAgrees ==
  ASSUME NEW row \in Row, NEW v \in Value, row.run \in Runs
  PROVE  FlagAgrees(Reconciled(row, v).value, Reconciled(row, v).flags)
<1>1. RunDocument[row.run] # None
  BY StoreAssumption
<1>2. [v EXCEPT !.citation = RunDocument[row.run]].citation = RunDocument[row.run]
  BY DEF Value
<1>3. CASE v.citation # None
  BY <1>3 DEF Reconciled, FlagAgrees
<1>4. CASE v.citation = None /\ Anchor[row.run][v.statement] = "none"
  BY <1>4 DEF Reconciled, FlagAgrees
<1>5. CASE v.citation = None /\ Anchor[row.run][v.statement] # "none"
  BY <1>1, <1>2, <1>5 DEF Reconciled, FlagAgrees, FlagsFor
<1> QED
  BY <1>3, <1>4, <1>5

LEMMA EditedKept ==
  ASSUME TypeOK, NEW q \in Requests, NEW r \in RuleIds, NEW u \in Edits,
         IsCandidate(rules[r]), Editable(rules[r])
  PROVE  LET row == EditedRow(rules[r], u)
         IN  PayloadKept(r, row, {},
                         {EventOf(q, "candidate_rule.edited", r, row.value)})
<1> DEFINE n == Reconciled(rules[r], Merged(rules[r].value, u))
           row == Reviewed(rules[r], "in_review", n.value, n.flags)
           ev == {EventOf(q, "candidate_rule.edited", r, n.value)}
<1>1. rules[r] \in Row /\ rules[r].value \in Value /\ rules[r].run \in Runs
  BY DEF TypeOK, IsCandidate, Row, Payload
<1>2. n.value.origin = rules[r].value.origin /\ FlagAgrees(n.value, n.flags)
  BY <1>1, MergedType, ReconciledType, ReconciledAgrees
<1>3. EditedRow(rules[r], u) = row
  BY DEF EditedRow
<1>4. <<"in_review", "candidate_rule.edited">> \in DecisionOf
  BY DEF DecisionOf
<1> HIDE DEF n
<1>5. row.value = n.value
  BY <1>1 DEF Reviewed, Row, Payload
<1>6. PayloadKept(r, row, {}, ev)
  BY <1>2, <1>4, ReviewedKept
<1> QED
  BY <1>3, <1>5, <1>6

(* Approving and rejecting leave the value and its flags as they are. *)
LEMMA DecidedKept ==
  ASSUME TypeOK, RecordInv, NEW q \in Requests, NEW r \in RuleIds,
         IsCandidate(rules[r]), Editable(rules[r]),
         NEW st, NEW action, <<st, action>> \in DecisionOf,
         NEW new, NEW ev, EventOf(q, action, r, rules[r].value) \in ev
  PROVE  PayloadKept(r, Reviewed(rules[r], st, rules[r].value, rules[r].flags),
                     new, ev)
<1>1. FlagAgrees(rules[r].value, rules[r].flags)
  BY DEF RecordInv, RowKept, Consistent
<1> QED
  BY <1>1, ReviewedKept

(* A category is no part of what the properties say of a row. *)
LEMMA CategoryFields ==
  ASSUME NEW row \in Row, NEW c \in DiffCategories \cup {None}
  PROVE  LET n == [row EXCEPT !.category = c]
         IN  /\ n.state = row.state /\ n.value = row.value
             /\ n.flags = row.flags /\ n.committed = row.committed
             /\ n.extracted = row.extracted /\ n.run = row.run
             /\ n # None
BY StoreAssumption DEF Row, Payload

LEMMA CategoryKept ==
  ASSUME NEW row \in Row, NEW r, NEW new, NEW ev,
         PayloadKept(r, row, new, ev),
         NEW c \in DiffCategories \cup {None}
  PROVE  PayloadKept(r, [row EXCEPT !.category = c], new, ev)
<1> DEFINE n == [row EXCEPT !.category = c]
<1>1. row # None
  BY StoreAssumption DEF Row
<1>2. /\ n.state = row.state /\ n.value = row.value /\ n.flags = row.flags
      /\ n.committed = row.committed /\ n.extracted = row.extracted
      /\ n.run = row.run /\ n # None
  BY CategoryFields
<1> HIDE DEF n
<1>3. PayloadKept(r, n, new, ev)
  BY <1>1, <1>2 DEF PayloadKept, Decided, Consistent, IsCandidate, CommittedAgrees,
                    IsPublished, SameOrigin, Follows
<1> QED
  BY <1>3 DEF n

LEMMA CategorisedKept ==
  ASSUME NEW session \in Rows, NEW d, NEW doc, NEW r \in RuleIds,
         NEW new, NEW ev, PayloadKept(r, session[r], new, ev)
  PROVE  PayloadKept(r, Categorised(session, d, doc)[r], new, ev)
<1>1. CASE session[r] = None
  BY <1>1 DEF Categorised
<1>2. CASE session[r] # None
  <2>1. session[r] \in Row
    BY <1>2 DEF Rows
  <2>2. CategoryOf(d, r) \in DiffCategories \cup {None}
    BY CategoryType
  <2>3. \A c \in DiffCategories \cup {None} :
          PayloadKept(r, [session[r] EXCEPT !.category = c], new, ev)
    BY <2>1, CategoryKept
  <2> QED
    BY <1>2, <2>2, <2>3 DEF Categorised
<1> QED
  BY <1>1, <1>2

-----------------------------------------------------------------------------
(* Every action keeps the record *)

LEMMA OnlyKept ==
  ASSUME NEW r \in RuleIds, NEW row, NEW new, NEW ev, PayloadKept(r, row, new, ev)
  PROVE  \A p \in RuleIds : PayloadKept(p, Only(r, row)[p], new, ev)
BY DEF Only, NoRows, PayloadKept

LEMMA ExtractKept ==
  ASSUME TypeOK, RecordInv, SessionsInOrder, NEW q \in Requests,
         NEW x \in Extractions, Extract(q, x)
  PROVE  RecordInv'
<1> DEFINE ev == {EventOf(q, "extraction_run.created", x.run, None)}
<1>1. x \in Extraction /\ status[q] = "idle"
  BY StoreAssumption DEF Extract
<1>2. CASE OutputValid(x)
  <2>1. \A r \in RuleIds : PayloadKept(r, FreshRows(x)[r], DOMAIN x.drafts, ev)
    BY <1>1, FreshKept
  <2>2. \A e \in ev : e.request = q /\ e.action # "extraction_run.failed"
    BY DEF EventOf
  <2>3. Pending(q, FreshRows(x), DOMAIN x.drafts, ev)
    BY <1>2 DEF Extract
  <2> HIDE DEF ev
  <2> QED
    BY <1>1, <2>1, <2>2, <2>3, PendingKept DEF Stages
<1>3. CASE ~OutputValid(x)
  BY <1>1, <1>3, RejectedOutputKept DEF Extract
<1> QED
  BY <1>2, <1>3

LEMMA ReingestBeginKept ==
  ASSUME TypeOK, RecordInv, SessionsInOrder, NEW q \in Requests,
         NEW x \in Extractions, ReingestBegin(q, x)
  PROVE  RecordInv'
<1>1. x \in Extraction /\ status[q] = "idle"
  BY StoreAssumption DEF ReingestBegin
<1>2. CASE OutputValid(x)
  <2> DEFINE t == [txn[q] EXCEPT !.run = x.run, !.writes = FreshRows(x),
                                 !.inserts = DOMAIN x.drafts,
                                 !.snapshot = LatestSnapshot]
  <2>1. txn' = [txn EXCEPT ![q] = t]
    BY <1>2 DEF ReingestBegin, TypeOK
  <2>2. /\ t.writes = FreshRows(x) /\ t.inserts = DOMAIN x.drafts
        /\ t.events = txn[q].events /\ t.reply = txn[q].reply
    BY DEF TypeOK, Txn
  <2> HIDE DEF t
  <2>3. \A r \in RuleIds :
          PayloadKept(r, t.writes[r], t.inserts, t.events)
    BY <1>1, <2>2, FreshKept
  <2>4. \A r \in RuleIds : t.writes[r] # None => r \in t.inserts
    BY <2>2 DEF FreshRows
  <2>5. \A r \in RuleIds : WriteKept(t, r)
    BY <2>3, <2>4 DEF PayloadKept, WriteKept
  <2>6. SessionFits(q, "diffing", t)
    BY <1>1, <2>2, <2>4 DEF RecordInv, SessionFits
  <2>7. /\ UNCHANGED <<rules, versions, audit>>
        /\ status' = [status EXCEPT ![q] = "diffing"]
    BY <1>2 DEF ReingestBegin
  <2>8. status[q] \in Stages
    BY <1>1 DEF Stages
  <2> QED
    BY <2>1, <2>5, <2>6, <2>7, <2>8, SessionKept
<1>3. CASE ~OutputValid(x)
  BY <1>1, <1>3, RejectedOutputKept DEF ReingestBegin
<1> QED
  BY <1>2, <1>3

(* The session of a re-ingestion holds its own fresh rows, the others as   *)
(* they are stored now; all it changes of either is the category.          *)
LEMMA ReingestApplyKept ==
  ASSUME TypeOK, RecordInv, SessionsInOrder, NEW q \in Requests, ReingestApply(q)
  PROVE  RecordInv'
<1> DEFINE t == txn[q]
           doc == RunDocument[t.run]
           session == [r \in RuleIds |-> IF t.writes[r] # None THEN t.writes[r]
                                         ELSE rules[r]]
           d == ReingestionDiff(t.writes, t.snapshot, doc)
           ev == {EventOf(q, "document_version.uploaded", doc, None),
                  EventOf(q, "extraction_run.created", t.run, None)}
<1>1. /\ t \in Txn /\ t.events = {} /\ t.version = None
      /\ status[q] = "diffing"
  BY DEF TypeOK, SessionsInOrder, InOrder, ReingestApply
<1>2. session \in Rows
  BY <1>1 DEF TypeOK, Txn, Rows
<1>3. \A e \in ev : e.request = q /\ e.action # "extraction_run.failed"
  BY DEF EventOf
<1>4. Pending(q, Categorised(session, d, doc), t.inserts, ev)
  BY DEF ReingestApply
<1> HIDE DEF ev, d, doc
<1>5. ASSUME NEW r \in RuleIds
      PROVE  PayloadKept(r, session[r], t.inserts, ev)
  <2>1. CASE t.writes[r] # None
    <3>1. WriteKept(t, r) /\ session[r] = t.writes[r]
      BY <2>1 DEF RecordInv
    <3>2. r \in t.inserts
      BY <1>1, <2>1 DEF RecordInv, SessionFits
    <3> HIDE DEF session
    <3> QED
      BY <1>1, <2>1, <3>1, <3>2 DEF WriteKept, PayloadKept, Decided, Recorded
  <2>2. CASE t.writes[r] = None
    <3>1. RowKept(r) /\ session[r] = rules[r]
      BY <2>2 DEF RecordInv
    <3>2. rules[r] # None => rules[r].state \in LifecycleStates
      BY DEF TypeOK, Row, Payload
    <3> HIDE DEF session
    <3> QED
      BY <3>1, <3>2 DEF RowKept, PayloadKept, Decided, Recorded, SameOrigin,
                        Follows, LifecycleEdges
  <2> QED
    BY <2>1, <2>2
<1> HIDE DEF session
<1>6. \A r \in RuleIds :
        PayloadKept(r, Categorised(session, d, doc)[r], t.inserts, ev)
  BY <1>2, <1>5, CategorisedKept
<1> QED
  BY <1>1, <1>3, <1>4, <1>6, PendingKept DEF Stages

LEMMA EditKept ==
  ASSUME TypeOK, RecordInv, NEW q \in Requests, NEW r \in RuleIds,
         NEW u \in Edits, Edit(q, r, u)
  PROVE  RecordInv'
<1> DEFINE row == EditedRow(rules[r], u)
           ev == {EventOf(q, "candidate_rule.edited", r, row.value)}
<1>1. status[q] \in Stages \ {"loaded"}
  BY DEF Edit, Stages
<1>2. CASE \E reply \in Replies : Refuse(q, reply)
  BY <1>1, <1>2, RefuseKept
<1>3. CASE /\ IsCandidate(rules[r]) /\ Editable(rules[r])
           /\ Pending(q, Only(r, row), {}, ev)
  <2>1. PayloadKept(r, row, {}, ev)
    BY <1>3, EditedKept
  <2>2. \A e \in ev : e.request = q /\ e.action # "extraction_run.failed"
    BY DEF EventOf
  <2> HIDE DEF row, ev
  <2> QED
    BY <1>1, <1>3, <2>1, <2>2, OnlyKept, PendingKept
<1> QED
  BY <1>2, <1>3 DEF Edit, Replies

LEMMA ApproveKept ==
  ASSUME TypeOK, RecordInv, NEW q \in Requests, NEW r \in RuleIds, Approve(q, r)
  PROVE  RecordInv'
<1> DEFINE row == ApprovedRow(rules[r])
           ev == {EventOf(q, "candidate_rule.approved", r, rules[r].value)}
<1>1. status[q] \in Stages \ {"loaded"}
  BY DEF Approve, Stages
<1>2. CASE \E reply \in Replies : Refuse(q, reply)
  BY <1>1, <1>2, RefuseKept
<1>3. CASE /\ IsCandidate(rules[r]) /\ Editable(rules[r])
           /\ Pending(q, Only(r, row), {}, ev)
  <2>1. PayloadKept(r, row, {}, ev)
    BY <1>3, DecidedKept DEF ApprovedRow, DecisionOf
  <2>2. \A e \in ev : e.request = q /\ e.action # "extraction_run.failed"
    BY DEF EventOf
  <2> HIDE DEF row, ev
  <2> QED
    BY <1>1, <1>3, <2>1, <2>2, OnlyKept, PendingKept
<1> QED
  BY <1>2, <1>3 DEF Approve, Replies

LEMMA RejectKept ==
  ASSUME TypeOK, RecordInv, NEW q \in Requests, NEW r \in RuleIds, Reject(q, r)
  PROVE  RecordInv'
<1> DEFINE row == RejectedRow(rules[r])
           ev == {EventOf(q, "candidate_rule.rejected", r, rules[r].value)}
<1>1. status[q] \in Stages \ {"loaded"}
  BY DEF Reject, Stages
<1>2. CASE \E reply \in Replies : Refuse(q, reply)
  BY <1>1, <1>2, RefuseKept
<1>3. CASE /\ IsCandidate(rules[r]) /\ Editable(rules[r])
           /\ Pending(q, Only(r, row), {}, ev)
  <2>1. PayloadKept(r, row, {}, ev)
    BY <1>3, DecidedKept DEF RejectedRow, DecisionOf
  <2>2. \A e \in ev : e.request = q /\ e.action # "extraction_run.failed"
    BY DEF EventOf
  <2> HIDE DEF row, ev
  <2> QED
    BY <1>1, <1>3, <2>1, <2>2, OnlyKept, PendingKept
<1> QED
  BY <1>2, <1>3 DEF Reject, Replies

LEMMA BulkApproveKept ==
  ASSUME TypeOK, RecordInv, NEW q \in Requests, NEW S \in SUBSET RuleIds,
         BulkApprove(q, S)
  PROVE  RecordInv'
<1> DEFINE done == {r \in S : Approvable(r)}
           payloads == [r \in RuleIds |-> IF r \in done THEN ApprovedRow(rules[r])
                                          ELSE None]
           ev == {EventOf(q, "candidate_rule.approved", r, rules[r].value) :
                    r \in done}
<1>1. status[q] \in Stages \ {"loaded"}
  BY DEF BulkApprove, Stages
<1>2. ASSUME NEW r \in RuleIds PROVE PayloadKept(r, payloads[r], {}, ev)
  <2>1. CASE r \notin done
    BY <2>1 DEF PayloadKept
  <2>2. CASE r \in done
    <3>1. /\ IsCandidate(rules[r]) /\ Editable(rules[r])
          /\ payloads[r] = ApprovedRow(rules[r])
      BY <2>2 DEF Approvable
    <3>2. EventOf(q, "candidate_rule.approved", r, rules[r].value) \in ev
      BY <2>2
    <3> HIDE DEF payloads, ev
    <3> QED
      BY <3>1, <3>2, DecidedKept DEF ApprovedRow, DecisionOf
  <2> QED
    BY <2>1, <2>2
<1>3. \A e \in ev : e.request = q /\ e.action # "extraction_run.failed"
  BY DEF EventOf
<1>4. Pending(q, payloads, {}, ev)
  BY DEF BulkApprove
<1> HIDE DEF payloads, ev
<1> QED
  BY <1>1, <1>2, <1>3, <1>4, PendingKept

LEMMA CreateManualKept ==
  ASSUME TypeOK, RecordInv, NEW q \in Requests, NEW r \in RuleIds,
         NEW v \in ManualValues, CreateManual(q, r, v)
  PROVE  RecordInv'
<1> DEFINE row == ManualRow(v)
           ev == {EventOf(q, "rule.created", r, v)}
<1>1. status[q] \in Stages \ {"loaded"}
  BY DEF CreateManual, Stages
<1>2. CASE \E reply \in Replies : Refuse(q, reply)
  BY <1>1, <1>2, RefuseKept
<1>3. CASE Pending(q, Only(r, row), {r}, ev)
  <2>1. row.value.origin = "manual" /\ row.state = "approved"
    BY StoreAssumption DEF ManualRow
  <2>2. PayloadKept(r, row, {r}, ev)
    BY <2>1 DEF PayloadKept, Decided, Consistent, IsCandidate, IsPublished
  <2>3. \A e \in ev : e.request = q /\ e.action # "extraction_run.failed"
    BY DEF EventOf
  <2> HIDE DEF row, ev
  <2> QED
    BY <1>1, <1>3, <2>2, <2>3, OnlyKept, PendingKept
<1> QED
  BY <1>2, <1>3 DEF CreateManual, Replies

LEMMA PublishBeginKept ==
  ASSUME TypeOK, RecordInv, SessionsInOrder, NEW q \in Requests,
         NEW v \in VersionIds, PublishBegin(q, v)
  PROVE  RecordInv'
<1>1. status[q] = "idle" /\ status[q] \in Stages
  BY DEF PublishBegin, Stages
<1>2. CASE versions[v] # None
  BY <1>1, <1>2, RefuseKept DEF PublishBegin, Replies
<1>3. CASE versions[v] = None
  <2> DEFINE t == [txn[q] EXCEPT !.version = v, !.startedAt = clock]
  <2>1. txn' = [txn EXCEPT ![q] = t]
    BY <1>3 DEF PublishBegin, TypeOK
  <2>2. /\ t.writes = txn[q].writes /\ t.events = txn[q].events
        /\ t.reply = txn[q].reply
    BY DEF TypeOK, Txn
  <2>3. txn[q].writes = NoRows
    BY <1>1 DEF SessionsInOrder, InOrder, NoTxn
  <2> HIDE DEF t
  <2>4. \A r \in RuleIds : WriteKept(t, r)
    BY <2>2, <2>3 DEF WriteKept, NoRows
  <2>5. SessionFits(q, "selecting", t)
    BY <1>1, <2>2 DEF RecordInv, SessionFits
  <2>6. /\ status' = [status EXCEPT ![q] = "selecting"]
        /\ UNCHANGED <<rules, versions, audit>>
    BY <1>3 DEF PublishBegin
  <2> QED
    BY <1>1, <2>1, <2>4, <2>5, <2>6, SessionKept
<1> QED
  BY <1>2, <1>3

(* The publisher writes rows whose value its own snapshot carries. *)
LEMMA PublishedKept ==
  ASSUME TypeOK, RecordInv, NEW r \in RuleIds, IsApproved(rules[r]), NEW ev
  PROVE  LET row == PublishedRow(rules[r])
         IN  /\ Decided(audit \cup ev, r, row)
             /\ Consistent(row)
             /\ row.value = rules[r].value
             /\ SameOrigin(rules[r], row)
             /\ Follows(rules[r], row)
<1> DEFINE base == rules[r]
           row == PublishedRow(base)
<1>1. base \in Row /\ base # None /\ base.state \in {"approved", "published"}
  BY DEF TypeOK, IsApproved
<1>2. Consistent(base)
  BY DEF RecordInv, RowKept
<1> HIDE DEF base
<1>3. /\ row.state = "published" /\ row.value = base.value
      /\ row.flags = base.flags
      /\ row.extracted = base.extracted /\ row.run = base.run
      /\ row.committed = IF base.committed = None THEN None
                         ELSE [base.committed EXCEPT !.state = "published"]
  BY <1>1 DEF PublishedRow, Row, Payload
<1>4. IsCandidate(base) => CommittedAgrees(row)
  <2> SUFFICES ASSUME IsCandidate(base) PROVE CommittedAgrees(row)
    OBVIOUS
  <2>1. base.committed = [state |-> base.state, value |-> base.value]
    BY <1>1, <1>2 DEF Consistent, CommittedAgrees
  <2>2. base.state \in LifecycleStates /\ base.value \in Value
    BY <1>1 DEF Row, Payload
  <2>3. base.committed # None
    BY <2>1, <2>2, StoreAssumption
  <2>4. row.committed = [state |-> "published", value |-> base.value]
    BY <1>3, <2>1, <2>3
  <2> HIDE DEF row
  <2> QED
    BY <1>3, <2>4 DEF CommittedAgrees
<1> HIDE DEF row
<1>5. Consistent(row)
  BY <1>1, <1>2, <1>3, <1>4 DEF Consistent, IsCandidate
<1>6. Decided(audit \cup ev, r, row)
  BY <1>3 DEF Decided
<1>7. SameOrigin(base, row) /\ Follows(base, row)
  BY <1>1, <1>3 DEF SameOrigin, Follows, LifecycleEdges, LifecycleStates
<1> QED
  BY <1>3, <1>5, <1>6, <1>7 DEF base, row

LEMMA PublishReadKept ==
  ASSUME TypeOK, RecordInv, SessionsInOrder, NEW q \in Requests, PublishRead(q)
  PROVE  RecordInv'
<1> DEFINE chosen == {r \in RuleIds : IsApproved(rules[r])}
           w == Dirty([r \in RuleIds |-> IF r \in chosen
                                         THEN PublishedRow(rules[r]) ELSE None])
           snap == [r \in RuleIds |-> IF r \in chosen
                                      THEN PublishedValue(rules[r]) ELSE None]
           ev == {EventOf(q, "policy_version.published", txn[q].version, None)}
           t == [txn[q] EXCEPT !.seen = Base(w), !.writes = w, !.snapshot = snap,
                               !.events = ev]
<1>1. status[q] = "selecting" /\ status[q] \in Stages
  BY DEF PublishRead, Stages
<1>2. CASE \E reply \in Replies : Refuse(q, reply)
  BY <1>1, <1>2, RefuseKept
<1>3. CASE /\ status' = [status EXCEPT ![q] = "loaded"]
           /\ txn' = [txn EXCEPT ![q].seen = Base(w), ![q].writes = w,
                                 ![q].snapshot = snap, ![q].events = ev]
           /\ UNCHANGED <<rules, versions, audit, clock>>
  <2>1. \A r \in RuleIds :
          w[r] # None => /\ r \in chosen
                         /\ w[r] = PublishedRow(rules[r])
                         /\ Base(w)[r] = rules[r]
    BY DEF Dirty, Base
  <2>2. \A r \in chosen : snap[r] = rules[r].value
    BY DEF PublishedValue
  <2>3. \A e \in ev : e.request = q /\ ReplyFor(e) = "ok"
    BY DEF EventOf, ReplyFor
  <2>4. txn[q] \in Txn
    BY DEF TypeOK
  <2>5. txn[q].version # None
    BY <1>1, StoreAssumption DEF SessionsInOrder, InOrder
  <2> HIDE DEF w, snap, ev
  <2>6. txn' = [txn EXCEPT ![q] = t]
    BY <1>3 DEF TypeOK
  <2>7. /\ t.seen = Base(w) /\ t.writes = w /\ t.snapshot = snap
        /\ t.events = ev /\ t.version = txn[q].version /\ t.reply = txn[q].reply
    BY <2>4 DEF Txn
  <2> HIDE DEF t
  <2>8. ASSUME NEW r \in RuleIds, t.writes[r] # None PROVE WriteKept(t, r)
    <3> DEFINE row == PublishedRow(rules[r])
    <3>1. IsApproved(rules[r]) /\ r \in chosen /\ rules[r] # None
      BY <2>1, <2>7, <2>8 DEF IsApproved
    <3>2. t.writes[r] = row /\ t.seen[r] = rules[r]
      BY <2>1, <2>7, <2>8
    <3>3. /\ Decided(audit \cup t.events, r, row) /\ Consistent(row)
          /\ row.value = rules[r].value
          /\ SameOrigin(rules[r], row) /\ Follows(rules[r], row)
      BY <3>1, PublishedKept
    <3>4. t.version # None /\ t.snapshot[r] = row.value
      BY <2>2, <2>5, <2>7, <3>1, <3>3
    <3> HIDE DEF row
    <3> QED
      BY <3>1, <3>2, <3>3, <3>4 DEF WriteKept
  <2>9. \A r \in RuleIds : WriteKept(t, r)
    BY <2>8 DEF WriteKept
  <2>10. SessionFits(q, "loaded", t)
    BY <1>1, <2>3, <2>7 DEF RecordInv, SessionFits
  <2> QED
    BY <1>1, <1>3, <2>6, <2>9, <2>10, SessionKept
<1> QED
  BY <1>2, <1>3 DEF PublishRead, Replies

-----------------------------------------------------------------------------
(* The commit *)

LEMMA CommitKept ==
  ASSUME TypeOK, RecordInv, NEW q \in Requests, Commit(q)
  PROVE  RecordInv'
<1>1. status[q] = "loaded" /\ status[q] \in Stages
  BY DEF Commit, Stages
<1>2. CASE DuplicateKey(txn[q])
  BY <1>1, <1>2, RefuseKept DEF Commit, Replies
<1>3. CASE ~DuplicateKey(txn[q])
  <2> DEFINE t == txn[q]
  <2>1. /\ rules' = [r \in RuleIds |-> IF t.writes[r] # None
                                       THEN t.writes[r] ELSE rules[r]]
        /\ versions' = [v \in VersionIds |->
                          IF v = t.version
                          THEN [createdAt |-> t.startedAt, rules |-> t.snapshot]
                          ELSE versions[v]]
        /\ audit' = audit \cup t.events
        /\ status' = [status EXCEPT ![q] = t.reply]
        /\ txn' = [txn EXCEPT ![q] = NoTxn]
    BY <1>3 DEF Commit, Finish
  <2>2. \A p \in Requests : /\ txn'[p] = IF p = q THEN NoTxn ELSE txn[p]
                            /\ status'[p] = IF p = q THEN t.reply ELSE status[p]
    BY <2>1 DEF TypeOK
  <2>3. \A r, v : Carries(versions, r, v) => Carries(versions', r, v)
    BY CommitKeepsVersions DEF Carries
  <2>4. \A r \in RuleIds : \A row, E : Decided(audit \cup E, r, row)
                                          => Decided(audit' \cup E, r, row)
    BY <2>1 DEF Decided, Recorded
  <2>5. ASSUME NEW r \in RuleIds PROVE RowKept(r)'
    <3>1. CASE t.writes[r] = None
      <4>1. rules'[r] = rules[r]
        BY <2>1, <3>1
      <4>2. Decided(audit', r, rules[r])
        BY <2>1 DEF RecordInv, RowKept, Decided, Recorded
      <4> QED
        BY <2>3, <4>1, <4>2 DEF RecordInv, RowKept
    <3>2. CASE t.writes[r] # None
      <4>1. rules'[r] = t.writes[r] /\ WriteKept(t, r)
        BY <2>1, <3>2 DEF RecordInv
      <4>2. IsPublished(t.writes[r]) => Carries(versions', r, t.writes[r].value)
        <5>1. ASSUME t.version # None, t.snapshot[r] = t.writes[r].value
              PROVE  Carries(versions', r, t.writes[r].value)
          <6>1. t \in Txn /\ t.version \in VersionIds
            BY <5>1 DEF TypeOK, Txn
          <6>2. versions'[t.version]
                  = [createdAt |-> t.startedAt, rules |-> t.snapshot]
            BY <2>1, <6>1
          <6>3. versions'[t.version] # None
            BY <6>1, <6>2, StoreAssumption DEF Version, Txn
          <6>4. versions'[t.version].rules[r] = t.writes[r].value
            BY <5>1, <6>2
          <6> QED
            BY <6>1, <6>3, <6>4 DEF Carries
        <5> QED
          BY <2>3, <3>2, <4>1, <5>1 DEF WriteKept
      <4>3. Decided(audit', r, t.writes[r]) /\ Consistent(t.writes[r])
        BY <2>1, <3>2, <4>1 DEF WriteKept
      <4> QED
        BY <4>1, <4>2, <4>3 DEF RowKept
    <3> QED
      BY <3>1, <3>2
  <2>6. ASSUME NEW p \in Requests, NEW r \in RuleIds PROVE WriteKept(txn[p], r)'
    <3>1. CASE p = q
      BY <2>2, <3>1 DEF WriteKept, NoTxn, NoRows
    <3>2. CASE p # q
      <4> DEFINE s == txn[p]
                 row == s.writes[r]
      <4>1. txn'[p] = s
        BY <2>2, <3>2
      <4> SUFFICES ASSUME row # None PROVE WriteKept(s, r)'
        BY <4>1 DEF WriteKept
      <4>2. WriteKept(s, r)
        BY DEF RecordInv
      <4>3. Decided(audit' \cup s.events, r, row) /\ Consistent(row)
        BY <2>4, <4>2 DEF WriteKept
      <4>4. IsPublished(row) => \/ Carries(versions', r, row.value)
                                \/ s.version # None /\ s.snapshot[r] = row.value
        BY <2>3, <4>2 DEF WriteKept
      <4>5. r \notin s.inserts => /\ rules'[r] # None
                                  /\ SameOrigin(rules'[r], row)
        <5> SUFFICES ASSUME r \notin s.inserts
                     PROVE  rules'[r] # None /\ SameOrigin(rules'[r], row)
          OBVIOUS
        <5>1. rules[r] # None /\ SameOrigin(rules[r], row)
          BY <4>2 DEF WriteKept
        <5>2. CASE t.writes[r] = None
          BY <2>1, <5>1, <5>2
        <5>3. CASE t.writes[r] # None
          <6>1. r \notin t.inserts
            BY <1>3, <5>1 DEF DuplicateKey
          <6>2. SameOrigin(rules[r], t.writes[r])
            BY <5>3, <6>1 DEF RecordInv, WriteKept
          <6>3. rules'[r] = t.writes[r]
            BY <2>1, <5>3
          <6> QED
            BY <5>1, <5>3, <6>2, <6>3 DEF SameOrigin
        <5> QED
          BY <5>2, <5>3
      <4> QED
        BY <4>1, <4>2, <4>3, <4>4, <4>5 DEF WriteKept
    <3> QED
      BY <3>1, <3>2
  <2>7. ASSUME NEW p \in Requests PROVE SessionFits(p, status[p], txn[p])'
    <3>1. CASE p = q
      BY <1>1, <2>2, <3>1 DEF SessionFits, NoTxn, NoRows
    <3>2. CASE p # q
      <4>1. txn'[p] = txn[p] /\ status'[p] = status[p]
        BY <2>2, <3>2
      <4> QED
        BY <4>1 DEF RecordInv, SessionFits
    <3> QED
      BY <3>1, <3>2
  <2>8. AuditMatchesReplies'
    <3> SUFFICES ASSUME NEW e \in audit \cup t.events
                 PROVE  status'[e.request] = ReplyFor(e)
      BY <2>1 DEF AuditMatchesReplies, ReplyFor
    <3>1. CASE e \in t.events
      BY <2>2, <3>1 DEF RecordInv, SessionFits
    <3>2. CASE e \in audit
      <4>1. status[e.request] = ReplyFor(e) /\ e.request \in Requests
        BY <3>2 DEF RecordInv, AuditMatchesReplies, ReplyFor, TypeOK, Event
      <4>2. e.request # q
        BY <1>1, <4>1 DEF ReplyFor
      <4> QED
        BY <2>2, <4>1, <4>2
    <3> QED
      BY <3>1, <3>2
  <2> QED
    BY <2>5, <2>6, <2>7, <2>8 DEF RecordInv
<1> QED
  BY <1>2, <1>3

LEMMA LoseKept ==
  ASSUME TypeOK, RecordInv, NEW q \in Requests, Lose(q)
  PROVE  RecordInv'
<1>1. status[q] \in Stages
  BY DEF Lose
<1> QED
  BY <1>1, RefuseKept DEF Lose, Replies

LEMMA RecordStep ==
  ASSUME TypeOK, SessionsInOrder, RecordInv, Next PROVE RecordInv'
<1> SUFFICES ASSUME NEW q \in Requests,
                    \/ Arrive(q) \/ ReingestApply(q) \/ PublishRead(q)
                    \/ Commit(q) \/ Lose(q)
             PROVE  RecordInv'
  BY DEF Next
<1>1. CASE Arrive(q)
  BY <1>1, ExtractKept, ReingestBeginKept, EditKept, ApproveKept, RejectKept,
     BulkApproveKept, CreateManualKept, PublishBeginKept DEF Arrive
<1> QED
  BY <1>1, ReingestApplyKept, PublishReadKept, CommitKept, LoseKept

LEMMA RecordInit == Init => RecordInv
<1> SUFFICES ASSUME Init PROVE RecordInv
  OBVIOUS
<1>1. ASSUME NEW r \in RuleIds PROVE RowKept(r)
  <2>1. PayloadKept(r, rules[r], DOMAIN Seed.drafts, {})
    BY FreshKept, StoreAssumption DEF Init
  <2>2. rules[r] # None => rules[r].state = "extracted"
    BY DraftTypes, CandidateRowConsistent, StoreAssumption DEF Init, FreshRows
  <2>3. Consistent(rules[r])
    BY <2>1 DEF PayloadKept, Consistent, IsCandidate
  <2> QED
    BY <2>2, <2>3 DEF RowKept, Decided, IsPublished
<1>2. ASSUME NEW q \in Requests
      PROVE  /\ \A r \in RuleIds : WriteKept(txn[q], r)
             /\ SessionFits(q, status[q], txn[q])
  BY DEF Init, NoTxn, NoRows, WriteKept, SessionFits
<1>3. AuditMatchesReplies
  BY DEF Init, AuditMatchesReplies
<1> QED
  BY <1>1, <1>2, <1>3 DEF RecordInv

LEMMA RecordInductive == Spec => []RecordInv
<1>1. TypeOK /\ SessionsInOrder /\ RecordInv /\ [Next]_vars => RecordInv'
  <2> SUFFICES ASSUME TypeOK, SessionsInOrder, RecordInv, [Next]_vars
               PROVE  RecordInv'
    OBVIOUS
  <2>1. CASE UNCHANGED vars
    <3>1. \A r \in RuleIds : RowKept(r)'
      BY <2>1 DEF vars, RecordInv, RowKept
    <3>2. \A q \in Requests, r \in RuleIds : WriteKept(txn[q], r)'
      BY <2>1 DEF vars, RecordInv, WriteKept
    <3>3. \A q \in Requests : SessionFits(q, status[q], txn[q])'
      BY <2>1 DEF vars, RecordInv, SessionFits
    <3> QED
      BY <2>1, <3>1, <3>2, <3>3 DEF vars, RecordInv, AuditMatchesReplies
  <2> QED
    BY <2>1, RecordStep
<1> QED
  BY <1>1, RecordInit, TypesInductive, PTL DEF Spec

(* Every decision that a row shows is in the audit log with the value the  *)
(* row has, and only answered requests are: a lost, refused or rolled back *)
(* request of rules/router.py or policy_versions leaves no audit row.      *)
THEOREM AuditRecords == Spec => []AuditIsTheRecord
<1>1. SoundInv /\ RecordInv => AuditIsTheRecord
  <2> SUFFICES ASSUME SoundInv, RecordInv PROVE DecisionsAudited
    BY DEF AuditIsTheRecord, RecordInv
  <2> SUFFICES ASSUME NEW r \in RuleIds, rules[r] # None
               PROVE  /\ IsApproved(rules[r]) => Authorised(r, rules[r].value)
                      /\ rules[r].state = "rejected"
                           => Recorded(audit, "candidate_rule.rejected", r,
                                       rules[r].value)
                      /\ rules[r].state = "in_review"
                           => Recorded(audit, "candidate_rule.edited", r,
                                       rules[r].value)
    BY DEF DecisionsAudited, Recorded
  <2>1. Sound(audit, r, rules[r]) /\ Decided(audit, r, rules[r])
    BY DEF SoundInv, RowsSound, RecordInv, RowKept
  <2> QED
    BY <2>1 DEF Sound, Decided, Authorised
<1> QED
  BY <1>1, SoundInductive, RecordInductive, PTL

(* The unresolvable-citation flag goes with the missing citation, and the  *)
(* committed copy with the current state and value, whichever of           *)
(* extraction, review, re-ingestion and publishing wrote the payload last. *)
THEOREM PayloadsAgree == Spec => []PayloadsConsistent
<1>1. RecordInv => PayloadsConsistent
  <2> SUFFICES ASSUME RecordInv, NEW r \in RuleIds, IsCandidate(rules[r])
               PROVE  /\ FlagAgrees(rules[r].value, rules[r].flags)
                      /\ CommittedAgrees(rules[r])
    BY DEF PayloadsConsistent, FlagsMatchCitation, CommittedMirrorsCurrent,
           FlagAgrees, CommittedAgrees
  <2> QED
    BY DEF RecordInv, RowKept, Consistent
<1> QED
  BY <1>1, RecordInductive, PTL

(* A row in state published has its value in a stored Policy Version: no   *)
(* rolled-back publisher and no stale write can claim it.                  *)
THEOREM PublishedCarried == Spec => []PublishedIsInSomeSnapshot
<1>1. RecordInv => PublishedIsInSomeSnapshot
  BY DEF RecordInv, RowKept, IsPublished, Carries, PublishedIsInSomeSnapshot
<1> QED
  BY <1>1, RecordInductive, PTL

-----------------------------------------------------------------------------
(* What a commit may do to a row *)

(* A row that was there when its writer commits was not inserted by it. *)
LEMMA CommitRewrites ==
  ASSUME TypeOK, RecordInv, NEW q \in Requests, Commit(q),
         NEW r \in RuleIds, rules[r] # None, rules'[r] # rules[r]
  PROVE  /\ rules'[r] = txn[q].writes[r]
         /\ txn[q].writes[r] # None
         /\ SameOrigin(rules[r], txn[q].writes[r])
<1>1. ~DuplicateKey(txn[q])
  BY DEF Commit, Refuse
<1>2. rules'[r] = IF txn[q].writes[r] # None THEN txn[q].writes[r] ELSE rules[r]
  BY <1>1 DEF Commit
<1>3. r \notin txn[q].inserts
  BY <1>1 DEF DuplicateKey
<1> QED
  BY <1>2, <1>3 DEF RecordInv, WriteKept

(* The value as extracted, the run and the origin of a rule survive every  *)
(* rewrite of its payload.                                                 *)
THEOREM ExtractedPreserved == Spec => ExtractedValuesPreserved
<1> DEFINE Preserved == \A r \in RuleIds : rules[r] # None =>
                          /\ rules'[r] # None
                          /\ rules'[r].extracted = rules[r].extracted
                          /\ rules'[r].run = rules[r].run
                          /\ rules'[r].value.origin = rules[r].value.origin
<1>1. TypeOK /\ RecordInv /\ [Next]_vars => [Preserved]_vars
  <2> SUFFICES ASSUME TypeOK, RecordInv, Next, NEW r \in RuleIds, rules[r] # None
               PROVE  rules'[r] # None /\ SameOrigin(rules[r], rules'[r])
    BY DEF SameOrigin
  <2>1. CASE rules'[r] = rules[r]
    BY <2>1 DEF SameOrigin
  <2>2. CASE rules'[r] # rules[r]
    BY <2>2, OnlyCommitWrites, CommitRewrites
  <2> QED
    BY <2>1, <2>2
<1> QED
  BY <1>1, TypesInductive, RecordInductive, PTL DEF Spec, ExtractedValuesPreserved

(* Each step moves the status of its own request only, and the first half  *)
(* of a handler takes no request that has one behind it.                   *)
LEMMA StatusMoves ==
  ASSUME Next
  PROVE  \E p \in Requests :
           /\ \E s : status' = [status EXCEPT ![p] = s]
           /\ status[p] = "loaded" => \/ Commit(p)
                                      \/ status' = [status EXCEPT ![p] = "lost"]
<1> DEFINE M(p) == \E s : status' = [status EXCEPT ![p] = s]
<1>1. \A p, payloads, new, ev : Pending(p, payloads, new, ev) => M(p)
  BY DEF Pending
<1>2. \A p, reply : Refuse(p, reply) => M(p)
  BY DEF Refuse, Finish
<1>3. \A p, x : RejectedOutput(p, x) => M(p)
  BY DEF RejectedOutput
<1>4. \A p, x : Extract(p, x) \/ ReingestBegin(p, x) => M(p) /\ status[p] = "idle"
  BY <1>1, <1>3 DEF Extract, ReingestBegin
<1>5. \A p, r : Approve(p, r) \/ Reject(p, r) => M(p) /\ status[p] = "idle"
  BY <1>1, <1>2 DEF Approve, Reject
<1>6. \A p, r, u : Edit(p, r, u) \/ CreateManual(p, r, u)
                    => M(p) /\ status[p] = "idle"
  BY <1>1, <1>2 DEF Edit, CreateManual
<1>7. \A p, S : BulkApprove(p, S) => M(p) /\ status[p] = "idle"
  BY <1>1 DEF BulkApprove
<1>8. \A p : ReingestApply(p) => M(p) /\ status[p] = "diffing"
  BY <1>1 DEF ReingestApply
<1>9. \A p, v : PublishBegin(p, v) => M(p) /\ status[p] = "idle"
  BY <1>2 DEF PublishBegin
<1>10. \A p : PublishRead(p) => M(p) /\ status[p] = "selecting"
  BY <1>2 DEF PublishRead
<1>11. \A p : Commit(p) => M(p)
  BY <1>2 DEF Commit, Finish
<1>12. \A p : Lose(p) => status' = [status EXCEPT ![p] = "lost"]
  BY DEF Lose, Refuse, Finish
<1> QED
  BY <1>4, <1>5, <1>6, <1>7, <1>8, <1>9, <1>10, <1>11, <1>12 DEF Next, Arrive

(* Only its own commit answers a loaded request with ok. *)
LEMMA OkIsCommitted ==
  ASSUME TypeOK, Next, NEW q \in Requests, status[q] = "loaded",
         status'[q] = "ok"
  PROVE  Commit(q)
<1>1. PICK p \in Requests :
        /\ \E s : status' = [status EXCEPT ![p] = s]
        /\ status[p] = "loaded" => \/ Commit(p)
                                   \/ status' = [status EXCEPT ![p] = "lost"]
  BY StatusMoves
<1>2. p = q
  BY <1>1 DEF TypeOK
<1> QED
  BY <1>1, <1>2 DEF TypeOK

(* A commit over the row its request read moves it along the lifecycle,    *)
(* and leaves the value of an approved, published or rejected rule alone:  *)
(* the checks of the handlers suffice when nobody wrote in between.        *)
THEOREM FreshWrites == Spec => FreshWritesFollowLifecycle
<1> DEFINE Fresh(q, r) == /\ status[q] = "loaded"
                          /\ status'[q] = "ok"
                          /\ txn[q].writes[r] # None
                          /\ rules[r] # None
                          /\ txn[q].seen[r] = rules[r]
           Followed ==
             \A q \in Requests, r \in RuleIds :
               (/\ status[q] = "loaded"
                /\ status'[q] = "ok"
                /\ txn[q].writes[r] # None
                /\ rules[r] # None
                /\ txn[q].seen[r] = rules[r])
               => /\ <<rules[r].state, rules'[r].state>> \in LifecycleEdges
                  /\ rules[r].state \in EditableStates \/ rules'[r].value = rules[r].value
<1>1. TypeOK /\ RecordInv /\ [Next]_vars => [Followed]_vars
  <2> SUFFICES ASSUME TypeOK, RecordInv, Next, NEW q \in Requests,
                      NEW r \in RuleIds, Fresh(q, r)
               PROVE  Follows(rules[r], rules'[r])
    BY DEF Follows
  <2>1. Commit(q)
    BY OkIsCommitted
  <2>2. CASE rules'[r] = rules[r]
    <3>1. rules[r].state \in LifecycleStates
      BY DEF TypeOK, Row, Payload
    <3> QED
      BY <2>2, <3>1 DEF Follows, LifecycleEdges
  <2>3. CASE rules'[r] # rules[r]
    <3>1. /\ rules'[r] = txn[q].writes[r]
          /\ ~DuplicateKey(txn[q])
      BY <2>1, <2>3, CommitRewrites DEF Commit, Refuse
    <3>2. r \notin txn[q].inserts
      BY <3>1 DEF DuplicateKey
    <3>3. Follows(txn[q].seen[r], txn[q].writes[r])
      BY <3>2 DEF RecordInv, WriteKept
    <3> QED
      BY <3>1, <3>3
  <2> QED
    BY <2>2, <2>3
<1> QED
  BY <1>1, TypesInductive, RecordInductive, PTL DEF Spec, FreshWritesFollowLifecycle
=============================================================================
