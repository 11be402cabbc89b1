--------------------------- MODULE DocumentStore ---------------------------
(***************************************************************************)
(* Document Versions and Extraction Runs, between the database and object  *)
(* storage: upload, download and deletion of a Document Version, the       *)
(* extraction run over a stored version, and re-ingestion, which uploads   *)
(* and extracts in one transaction (policy_documents/, extraction/,        *)
(* reingestion/).                                                          *)
(*                                                                         *)
(* The database is transactional, object storage is not: a file is written *)
(* before the transaction that names it commits, and removed after the one *)
(* that deletes it did.  The LLM call happens inside the transaction, so   *)
(* an inserted but uncommitted run id is held for as long as it takes.     *)
(*                                                                         *)
(* A Document Version id is a fresh uuid4 of the request that uploads it;  *)
(* the request stands for it.                                              *)
(***************************************************************************)
EXTENDS Naturals, FiniteSets

CONSTANTS
  Requests,    \* HTTP requests, each made once; also the versions they upload
  RunIds,      \* extraction run ids, chosen by the client
  Horizon,     \* bound of the clock and of retention dates
  MaxLost,     \* bound on requests cut off by a crash
  None

Ops == {"upload", "download", "delete", "extract", "reingest"}
Replies == {"ok", "not_found", "gone", "conflict", "invalid", "error", "lost"}
Stages == {"idle",
           "stored",      \* re-ingestion: file written, context not loaded
           "inserting",   \* run id found free, its INSERT about to be flushed
           "extracting",  \* waiting for the LLM
           "cleaning",    \* re-ingestion failed and rolled back, file still there
           "failing",     \* extraction died in its handler, session still open
           "reading",     \* download: row read, file not yet
           "loaded",      \* about to commit
           "purging"}     \* deletion committed, file still there

(* document_versions: retention_until (0 for none) and who deleted it. *)
Version == [retention : 0..Horizon, deletedBy : Requests \cup {None}]

(* extraction_runs; completed says whether Candidate Rules were persisted  *)
(* with it, by is history.                                                 *)
Run == [version : Requests, by : Requests, completed : BOOLEAN]

Event == [action : {"uploaded", "accessed", "deleted"}, entity : Requests,
          request : Requests]
         \cup [action : {"run.created", "run.failed"}, entity : RunIds,
               request : Requests]

(* The uncommitted half of a session.  op is kept afterwards, as history.  *)
Txn == [op        : Ops \cup {None},
        version   : Requests \cup {None},
        retention : 0..Horizon,
        run       : RunIds \cup {None},
        writes    : SUBSET {"version", "run", "tombstone"},
        completed : BOOLEAN,
        events    : SUBSET Event,
        reply     : Replies]

ASSUME DocumentAssumption == /\ Horizon \in Nat
                             /\ MaxLost \in Nat
                             /\ None \notin Requests \cup RunIds
                             /\ None \notin Version \cup Run

VARIABLES versions,   \* document_versions
          runs,       \* extraction_runs and whether they have Candidate Rules
          bytes,      \* object storage: versions whose file exists
          audit,      \* audit_events
          status,     \* where each request is, or its reply
          txn,        \* the session of each request
          now         \* the clock retention dates are compared with

vars == <<versions, runs, bytes, audit, status, txn, now>>
tables == <<versions, runs, audit>>

(* A session that has written nothing yet, of a request of this kind. *)
Start(op) == [op |-> op, version |-> None, retention |-> 0, run |-> None,
              writes |-> {}, completed |-> FALSE, events |-> {}, reply |-> "ok"]

Ev(action, entity, q) == [action |-> action, entity |-> entity, request |-> q]

-----------------------------------------------------------------------------
(* Sessions *)

Moves(q, stage, t) == /\ status' = [status EXCEPT ![q] = stage]
                      /\ txn' = [txn EXCEPT ![q] = t]

Finish(q, op, reply) == Moves(q, reply, Start(op))

(* The session is dropped with what it has not committed. *)
RefuseKeepingAudit(q, op, reply) == /\ Finish(q, op, reply)      \* mutant
                                    /\ audit' = audit \cup txn[q].events
                                    /\ UNCHANGED <<versions, runs, bytes, now>>
Refuse(q, op, reply) == /\ Finish(q, op, reply)
                        /\ UNCHANGED <<tables, bytes, now>>

-----------------------------------------------------------------------------
(* Upload, download, deletion *)

(* POST /policy-documents/{id}/versions: the Document Quality Gate may     *)
(* reject; the file is written before the row.  Two sections with the same *)
(* heading path and content have the same id, and the flush fails.         *)
Upload(q, retention) ==
  /\ status[q] = "idle"
  /\ \/ Refuse(q, "upload", "invalid")
     \/ /\ bytes' = bytes \cup {q}
        /\ \/ Moves(q, "loaded", [Start("upload") EXCEPT
                                    !.version = q, !.retention = retention,
                                    !.writes = {"version"},
                                    !.events = {Ev("uploaded", q, q)}])
           \/ Finish(q, "upload", "error")
        /\ UNCHANGED <<tables, now>>

Download(q, v) ==
  /\ status[q] = "idle"
  /\ IF versions[v] = None THEN Refuse(q, "download", "not_found")
     ELSE IF versions[v].deletedBy # None THEN Refuse(q, "download", "gone")
     ELSE /\ Moves(q, "reading", [Start("download") EXCEPT !.version = v])
          /\ UNCHANGED <<tables, bytes, now>>

(* The file may be gone by now: an unhandled FileNotFoundError. *)
ReadBytes(q) ==
  /\ status[q] = "reading"
  /\ IF txn[q].version \notin bytes THEN Refuse(q, "download", "error")
     ELSE /\ Moves(q, "loaded", [txn[q] EXCEPT
                                   !.events = {Ev("accessed", txn[q].version, q)}])
          /\ UNCHANGED <<tables, bytes, now>>

RetainedNextDay(v) == versions[v].retention > now + 1           \* mutant
Retained(v) == versions[v].retention > now

(* DELETE: checks on the row as read, then the tombstone. *)
Tombstoning(q, v) == [Start("delete") EXCEPT
                        !.version = v, !.writes = {"tombstone"},
                        !.events = {Ev("deleted", v, q)}]

DeletePurgingFirst(q, v) ==                                     \* mutant
  /\ status[q] = "idle"
  /\ versions[v] # None
  /\ versions[v].deletedBy = None
  /\ ~Retained(v)
  /\ Moves(q, "loaded", Tombstoning(q, v))
  /\ bytes' = bytes \ {v}
  /\ UNCHANGED <<tables, now>>

Delete(q, v) ==
  /\ status[q] = "idle"
  /\ IF versions[v] = None THEN Refuse(q, "delete", "not_found")
     ELSE IF versions[v].deletedBy # None \/ Retained(v)
     THEN Refuse(q, "delete", "conflict")
     ELSE /\ Moves(q, "loaded", Tombstoning(q, v))
          /\ UNCHANGED <<tables, bytes, now>>

(* purge_document_version_storage, after the commit. *)
Purge(q) ==
  /\ status[q] = "purging"
  /\ bytes' = bytes \ {txn[q].version}
  /\ Finish(q, "delete", "ok")
  /\ UNCHANGED <<tables, now>>

-----------------------------------------------------------------------------
(* Extraction runs and re-ingestion *)

RunNeverTaken(r) == FALSE                                       \* mutant
RunTaken(r) == runs[r] # None

(* POST .../extraction-runs over a stored version.  "invalid": an unknown  *)
(* prompt template or model configuration, a hosted endpoint not allowed.  *)
Extract(q, v, r) ==
  /\ status[q] = "idle"
  /\ IF versions[v] = None THEN Refuse(q, "extract", "not_found")
     ELSE IF versions[v].deletedBy # None THEN Refuse(q, "extract", "gone")
     ELSE \/ Refuse(q, "extract", "invalid")
          \/ RunTaken(r) /\ Refuse(q, "extract", "conflict")
          \/ /\ ~RunTaken(r)
             /\ Moves(q, "inserting", [Start("extract") EXCEPT
                                         !.version = v, !.run = r])
             /\ UNCHANGED <<tables, bytes, now>>

(* POST .../reingestions: the new version's file is written first; its row *)
(* is flushed, not committed.                                              *)
Reingest(q, r) ==
  /\ status[q] = "idle"
  /\ \/ Refuse(q, "reingest", "invalid")
     \/ /\ bytes' = bytes \cup {q}
        /\ Moves(q, "stored", [Start("reingest") EXCEPT
                                 !.version = q, !.run = r, !.writes = {"version"}])
        /\ UNCHANGED <<tables, now>>

(* An exception before the end of the handler.  reingest_document rolls    *)
(* back, removes its file and re-raises; a plain extraction only loses its *)
(* session.                                                                *)
RolledBackVersionOnly(t) == [t EXCEPT !.writes = @ \ {"version"}] \* mutant
RolledBack(t) == [t EXCEPT !.writes = {}]

AbandonKeepingFile(q, reply, events) ==                         \* mutant
  Refuse(q, txn[q].op, reply)

Abandon(q, reply, events) ==
  IF txn[q].op = "reingest"
  THEN /\ Moves(q, "cleaning", [RolledBack(txn[q]) EXCEPT !.reply = reply,
                                                          !.events = events])
       /\ UNCHANGED <<tables, bytes, now>>
  ELSE Refuse(q, txn[q].op, reply)

LoadContext(q) ==
  /\ status[q] = "stored"
  /\ \/ Abandon(q, "invalid", {})
     \/ RunTaken(txn[q].run) /\ Abandon(q, "conflict", {})
     \/ /\ ~RunTaken(txn[q].run)
        /\ Moves(q, "inserting", txn[q])
        /\ UNCHANGED <<tables, bytes, now>>

(* The flush of the new run: it waits for another uncommitted INSERT of    *)
(* the same id, and fails if that one committed.  The sections of a        *)
(* re-ingested document are flushed with it and may repeat an id.          *)
KeyHeldByWaiters(q) == \E p \in Requests \ {q} :                \* mutant
  /\ txn[p].run = txn[q].run
  /\ status[p] \in {"inserting", "extracting"}
KeyHeld(q) == \E p \in Requests \ {q} : /\ txn[p].run = txn[q].run
                                        /\ "run" \in txn[p].writes

InsertRun(q) ==
  /\ status[q] = "inserting"
  /\ ~KeyHeld(q)
  /\ \/ RunTaken(txn[q].run) /\ Abandon(q, "error", {})
     \/ txn[q].op = "reingest" /\ Abandon(q, "error", {})
     \/ /\ ~RunTaken(txn[q].run)
        /\ Moves(q, "extracting", [txn[q] EXCEPT !.writes = @ \cup {"run"}])
        /\ UNCHANGED <<tables, bytes, now>>

FailureEvents(q) == {Ev("run.failed", txn[q].run, q)}
SuccessEvents(q) ==
  {Ev("run.created", txn[q].run, q)}
    \cup (IF txn[q].op = "reingest" THEN {Ev("uploaded", q, q)} ELSE {})

(* The LLM answers: a valid structured output, one that is rejected after  *)
(* the last attempt, or an error map_extraction_exception does not know.   *)
(* After a rejection the router of a plain extraction commits the failure  *)
(* event together with the inserted run, which nobody rolled back; after   *)
(* an unknown error its session still holds that run when it raises.       *)
LLMAnswers(q) ==
  /\ status[q] = "extracting"
  /\ \/ /\ Moves(q, "loaded", [txn[q] EXCEPT !.completed = TRUE,
                                             !.events = SuccessEvents(q)])
        /\ UNCHANGED <<tables, bytes, now>>
     \/ IF txn[q].op = "reingest"
        THEN Abandon(q, "invalid", FailureEvents(q))
        ELSE /\ Moves(q, "loaded", [txn[q] EXCEPT !.events = FailureEvents(q),
                                                  !.reply = "invalid"])
             /\ UNCHANGED <<tables, bytes, now>>
     \/ IF txn[q].op = "reingest"
        THEN Abandon(q, "error", {})
        ELSE /\ Moves(q, "failing", txn[q])
             /\ UNCHANGED <<tables, bytes, now>>

(* The session of a request that raised is closed by the teardown of       *)
(* get_session, which the event loop of the server process schedules.      *)
Teardown(q) == /\ status[q] = "failing"
               /\ Refuse(q, "extract", "error")

(* upload_policy_document_version and reingest_policy_document are async:  *)
(* once their file is read they run on the event loop, waits for the       *)
(* database and for the LLM included, until they return.                   *)
OnLoop(q) == /\ status[q] \in Stages \ {"idle"}
             /\ txn[q].op \in {"upload", "reingest"}

(* The exception handler of reingest_document removes the file; the router *)
(* then commits the failure event, if there is one.                        *)
Clean(q) ==
  /\ status[q] = "cleaning"
  /\ bytes' = bytes \ {txn[q].version}
  /\ IF txn[q].events = {} THEN Finish(q, "reingest", txn[q].reply)
     ELSE Moves(q, "loaded", txn[q])
  /\ UNCHANGED <<tables, now>>

-----------------------------------------------------------------------------
(* The end of a request *)

RelativeRetention(t) ==                                         \* mutant
  [retention |-> now + t.retention, deletedBy |-> None]
NewVersion(t) == [retention |-> t.retention, deletedBy |-> None]

AnswerFirst(t) == t.reply                                       \* mutant
AfterCommit(t) == IF "tombstone" \in t.writes THEN "purging" ELSE t.reply

Commit(q) ==
  LET t == txn[q]
  IN  /\ status[q] = "loaded"
      /\ versions' = [v \in Requests |->
           IF v = t.version /\ "version" \in t.writes THEN NewVersion(t)
           ELSE IF v = t.version /\ "tombstone" \in t.writes
           THEN [versions[v] EXCEPT !.deletedBy = q]
           ELSE versions[v]]
      /\ runs' = [r \in RunIds |->
           IF r = t.run /\ "run" \in t.writes
           THEN [version |-> t.version, by |-> q, completed |-> t.completed]
           ELSE runs[r]]
      /\ audit' = audit \cup t.events
      /\ IF AfterCommit(t) = "purging"
         THEN Moves(q, "purging", [t EXCEPT !.writes = {}, !.events = {}])
         ELSE Finish(q, t.op, AfterCommit(t))
      /\ UNCHANGED <<bytes, now>>

(* A crash: the database forgets the session, object storage does not. *)
Lose(q) == /\ status[q] \in Stages \ {"idle"}
           /\ Cardinality({p \in Requests : status[p] = "lost"}) < MaxLost
           /\ Refuse(q, txn[q].op, "lost")

Tick == /\ now < Horizon
        /\ now' = now + 1
        /\ UNCHANGED <<tables, bytes, status, txn>>

-----------------------------------------------------------------------------
Init == /\ versions = [v \in Requests |-> None]
        /\ runs = [r \in RunIds |-> None]
        /\ bytes = {}
        /\ audit = {}
        /\ status = [q \in Requests |-> "idle"]
        /\ txn = [q \in Requests |-> Start(None)]
        /\ now = 0

Arrive(q) == \/ \E retention \in 0..Horizon : Upload(q, retention)
             \/ \E v \in Requests : Download(q, v) \/ Delete(q, v)
             \/ \E v \in Requests, r \in RunIds : Extract(q, v, r)
             \/ \E r \in RunIds : Reingest(q, r)

(* What runs in a handler, on a thread of its own or on the event loop: it *)
(* runs on, and the LLM call has a timeout.                                *)
Proceed(q) == \/ ReadBytes(q)  \/ Purge(q)     \/ LoadContext(q)
              \/ InsertRun(q)  \/ LLMAnswers(q) \/ Clean(q) \/ Commit(q)

Next == \/ \E q \in Requests : \/ Arrive(q) \/ Proceed(q)
                                \/ Teardown(q) \/ Lose(q)
        \/ Tick

Spec == Init /\ [][Next]_vars

(* A teardown is certain only while nothing occupies the event loop.  Of   *)
(* several server processes each has its loop, so a teardown may also come *)
(* earlier; one process, as policy_pipeline/dev.py starts it, has one.     *)
LoopFree == \A p \in Requests : ~OnLoop(p)
FairSpec == /\ Spec
            /\ \A q \in Requests : /\ WF_vars(Proceed(q))
                                    /\ WF_vars(LoopFree /\ Teardown(q))

-----------------------------------------------------------------------------
(* Properties *)

TypeOK == /\ versions \in [Requests -> Version \cup {None}]
          /\ runs \in [RunIds -> Run \cup {None}]
          /\ bytes \subseteq Requests
          /\ audit \subseteq Event
          /\ status \in [Requests -> Stages \cup Replies]
          /\ txn \in [Requests -> Txn]
          /\ now \in 0..Horizon

Live(v) == versions[v] # None /\ versions[v].deletedBy = None
InFlight(q) == status[q] \in Stages \ {"idle"}

(* A Document Version that is listed and not deleted can be downloaded:    *)
(* whatever crashes, failed re-ingestions and deletions come between, its  *)
(* file is in object storage ("Persist the tombstone and audit trail       *)
(* before removing the source bytes", policy_documents/router.py:242).     *)
LiveVersionsHaveBytes == \A v \in Requests : Live(v) => v \in bytes

(* Every file in object storage is that of a live version or of a request  *)
(* still at work on it; what is left over was left by a crash or by an     *)
(* upload that failed with 500.  A refused re-ingestion cleans up.         *)
StoredBytesAccountedFor ==
  \A v \in bytes :
    \/ Live(v)
    \/ InFlight(v)
    \/ versions[v] = None /\ status[v] = "lost"
    \/ versions[v] = None /\ status[v] = "error" /\ txn[v].op = "upload"
    \/ /\ versions[v] # None
       /\ \/ status[versions[v].deletedBy] \in {"lost", "purging"}
          \/ \E q \in Requests : status[q] = "purging" /\ txn[q].version = v

(* The audit trail of deletions agrees with the tombstones: the request a  *)
(* tombstone names is audited, an audited deletion left a tombstone.       *)
DeletionsAudited ==
  /\ \A v \in Requests :
       versions[v] # None /\ versions[v].deletedBy # None =>
         Ev("deleted", v, versions[v].deletedBy) \in audit
  /\ \A e \in audit : e.action = "deleted" =>
       versions[e.entity] # None /\ versions[e.entity].deletedBy # None

(* Nothing takes a retained version away before its date: neither its row, *)
(* nor the row's life, nor its file -- whichever request got there first.  *)
RetentionRespected ==
  [][\A v \in Requests : Live(v) /\ versions[v].retention > now
        => Live(v)' /\ v \in bytes']_vars

(* A re-ingestion stores the version, the run and both audit events, or    *)
(* nothing: of one that failed only the failure event may remain.          *)
ReingestionAllOrNothing ==
  \A q \in Requests : txn[q].op = "reingest" =>
    LET done == status[q] = "ok"
    IN  /\ done <=> versions[q] # None
        /\ done <=> \E r \in RunIds : runs[r] # None /\ runs[r].by = q
        /\ done <=> Ev("uploaded", q, q) \in audit
        /\ done <=> \E r \in RunIds : Ev("run.created", r, q) \in audit

(* An extraction run is pinned once: its row is never overwritten by       *)
(* another request with the same id, not even one that found the id free.  *)
RunIdsNotReused ==
  [][\A r \in RunIds : runs[r] # None => runs'[r] = runs[r]]_vars

(* The status of a run is derived from the audit log: a run whose output   *)
(* was rejected must have its failure event, or it would be listed as      *)
(* completed with no Candidate Rules.                                      *)
RejectedRunsListedFailed ==
  \A r \in RunIds : runs[r] # None /\ ~runs[r].completed =>
    Ev("run.failed", r, runs[r].by) \in audit

(* Of an operation that failed there is what the reader of the run list    *)
(* needs, and nothing else.                                                *)
FailuresLeaveTheirTrail == ReingestionAllOrNothing /\ RejectedRunsListedFailed

(* A run whose Candidate Rules were persisted is listed as completed, as   *)
(* tests/test_list_apis.py:523 asserts.  A re-ingestion whose output was   *)
(* rejected leaves the failure event but no run; the same id, used again,  *)
(* is listed as failed.                                                    *)
CompletedRunsListedCompleted ==
  \A r \in RunIds : runs[r] # None /\ runs[r].completed =>
    \A e \in audit : ~(e.action = "run.failed" /\ e.entity = r)

(* A re-ingestion waits, on the event loop, for the run id of an           *)
(* extraction that died and whose session only that loop can close.        *)
Stuck == \E p, q \in Requests :
  /\ status[p] = "failing"
  /\ status[q] = "inserting" /\ OnLoop(q)
  /\ txn[q].run = txn[p].run

(* Nothing but that cycle keeps a request from its answer: neither a run   *)
(* id another one holds while it waits for the LLM, nor a failed session   *)
(* on its own, nor a loop that is busy with re-ingestions.                 *)
AnsweredUnlessStuck ==
  \A q \in Requests : InFlight(q) ~> (status[q] \in Replies \/ Stuck)

(* Violated, as the README says: a re-ingestion that names the run id of   *)
(* an extraction that died waits for it for ever, and so does every        *)
(* request after it in that server process.                                *)
EveryRequestAnswered ==
  \A q \in Requests : InFlight(q) ~> status[q] \in Replies

(* Unless a crash comes between the commit and the purge, the source bytes *)
(* of a deleted Document Version are removed.                              *)
DeletedBytesPurged ==
  \A v \in Requests :
    (versions[v] # None /\ ~Live(v)) ~> (v \notin bytes)
=============================================================================
