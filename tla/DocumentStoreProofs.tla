------------------------ MODULE DocumentStoreProofs ------------------------
(***************************************************************************)
(* Proofs about DocumentStore, for every value of its constants: the type  *)
(* invariant, that live versions have their bytes, that deletions are      *)
(* audited, that retention dates are respected, run ids not reused, and    *)
(* what a failure leaves behind.                                           *)
(*                                                                         *)
(* What is about to be committed, or removed from object storage, was      *)
(* decided in an earlier step, so the inductive invariant Inv says of the  *)
(* session of every request what still holds of the tables when it commits:*)
(* SessionOK is about the session alone, the other parts relate it to the  *)
(* tables and to object storage.                                           *)
(***************************************************************************)
EXTENDS DocumentStore, TLAPS

Working == Stages \ {"idle"}

(* What a session may hold at each stage. *)
SessionOK(s, t, q) ==
  /\ s \notin Working => t.writes = {} /\ t.events = {}
  /\ s \in {"reading", "purging", "cleaning"} =>
       t.version \in Requests /\ t.writes = {}
  /\ s = "cleaning" => t.version = q
  /\ s \in {"stored", "inserting", "extracting", "failing"} =>
       /\ t.run \in RunIds /\ t.version \in Requests
       /\ t.op \in {"extract", "reingest"}
       /\ t.events = {} /\ t.reply = "ok"
       /\ t.op = "reingest" => t.version = q
       /\ t.op = "extract" => "version" \notin t.writes
  /\ s = "failing" => t.op = "extract"
  /\ s \in {"stored", "inserting"} => "run" \notin t.writes
  /\ "version" \in t.writes => /\ t.version = q
                               /\ t.reply = "ok"
                               /\ "tombstone" \notin t.writes
  /\ "run" \in t.writes => /\ t.version \in Requests
                           /\ t.run \in RunIds
                           /\ "tombstone" \notin t.writes
  /\ "tombstone" \in t.writes => /\ t.version \in Requests
                                 /\ s = "loaded"
                                 /\ t.writes = {"tombstone"}
                                 /\ Ev("deleted", t.version, q) \in t.events
  /\ \A e \in t.events : e.action = "deleted" => /\ "tombstone" \in t.writes
                                                 /\ e.entity = t.version

(* What a session of q relies on in the tables. *)
SessionFits(s, t, q) ==
  /\ "version" \in t.writes => q \in bytes
  /\ "tombstone" \in t.writes => /\ versions[t.version] # None
                                 /\ versions[t.version].retention <= now
  /\ s = "purging" => /\ versions[t.version] # None
                      /\ ~Live(t.version)
  /\ "run" \in t.writes => runs[t.run] = None

(* A version row exists only once the request that uploaded it is answered.*)
RowsCommitted == \A v \in Requests : versions[v] # None => status[v] = "ok"

(* At most one session holds an uncommitted row of a run id. *)
KeysExclusive ==
  \A p, q \in Requests :
    /\ "run" \in txn[p].writes
    /\ "run" \in txn[q].writes
    /\ txn[p].run = txn[q].run
    => p = q

Inv == /\ TypeOK
       /\ \A q \in Requests : /\ SessionOK(status[q], txn[q], q)
                              /\ SessionFits(status[q], txn[q], q)
       /\ RowsCommitted
       /\ KeysExclusive
       /\ LiveVersionsHaveBytes
       /\ DeletionsAudited

-----------------------------------------------------------------------------
(* Steps that touch no table *)

(* Only the session of q moves, and it stays well formed. *)
Alone(q) == /\ status' \in [Requests -> Stages \cup Replies]
            /\ txn' \in [Requests -> Txn]
            /\ \A p \in Requests \ {q} : /\ status'[p] = status[p]
                                         /\ txn'[p] = txn[p]

LEMMA StartType ==
  ASSUME NEW op \in Ops \cup {None}
  PROVE  /\ Start(op) \in Txn
         /\ Start(op).op = op
         /\ Start(op).version = None
         /\ Start(op).writes = {}
         /\ Start(op).events = {}
         /\ Start(op).reply = "ok"
<1>1. 0 \in 0..Horizon
  BY DocumentAssumption
<1> QED BY <1>1 DEF Start, Txn, Replies

LEMMA MovesAlone ==
  ASSUME TypeOK, NEW q \in Requests, NEW s \in Stages \cup Replies,
         NEW t \in Txn, Moves(q, s, t)
  PROVE  Alone(q) /\ status'[q] = s /\ txn'[q] = t
BY DEF TypeOK, Moves, Alone

(* A step of one session keeps the invariant if what the session newly     *)
(* relies on holds, and no file that somebody needs is removed.            *)
LEMMA SessionStep ==
  ASSUME Inv, NEW q \in Requests, Alone(q), UNCHANGED <<tables, now>>,
         status[q] \notin Replies,
         bytes' \subseteq Requests,
         \A v \in Requests : Live(v) => v \in bytes',
         \A p \in Requests \ {q} : "version" \in txn[p].writes => p \in bytes',
         SessionOK(status'[q], txn'[q], q),
         SessionFits(status[q], txn[q], q)',
         \A p \in Requests \ {q} :
           "run" \in txn'[q].writes /\ "run" \in txn[p].writes
             => txn[p].run # txn'[q].run
  PROVE  Inv'
<1>1. TypeOK'
  BY DEF Inv, TypeOK, Alone, tables
<1>2. ASSUME NEW p \in Requests
      PROVE  (SessionOK(status[p], txn[p], p) /\ SessionFits(status[p], txn[p], p))'
  <2>1. CASE p = q
    BY <2>1
  <2>2. CASE p # q
    <3>1. SessionOK(status[p], txn[p], p)'
      BY <2>2 DEF Inv, Alone
    <3>2. SessionFits(status[p], txn[p], p)'
      BY <2>2 DEF Inv, Alone, SessionFits, tables, Live
    <3> QED BY <3>1, <3>2
  <2> QED BY <2>1, <2>2
<1>3. RowsCommitted'
  BY DEF Inv, RowsCommitted, Alone, tables, Replies
<1>4. KeysExclusive'
  BY DEF Inv, KeysExclusive, Alone
<1>5. LiveVersionsHaveBytes'
  BY DEF LiveVersionsHaveBytes, Live, tables
<1>6. DeletionsAudited'
  BY DEF Inv, DeletionsAudited, tables
<1> QED BY <1>1, <1>2, <1>3, <1>4, <1>5, <1>6 DEF Inv

LEMMA RefuseStep ==
  ASSUME Inv, NEW q \in Requests, status[q] \notin Replies,
         NEW op \in Ops \cup {None}, NEW reply \in Replies, Refuse(q, op, reply)
  PROVE  Inv'
<1>1. Alone(q) /\ status'[q] = reply /\ txn'[q] = Start(op)
  BY StartType, MovesAlone DEF Inv, Refuse, Finish
<1>2. SessionOK(status'[q], txn'[q], q)
  BY <1>1 DEF Start, SessionOK, Working, Stages, Replies
<1>3. SessionFits(status[q], txn[q], q)'
  BY <1>1 DEF Start, SessionFits, Replies
<1>4. UNCHANGED <<tables, bytes, now>>
  BY DEF Refuse
<1> QED BY <1>1, <1>2, <1>3, <1>4, SessionStep
        DEF Start, Inv, TypeOK, LiveVersionsHaveBytes, SessionFits

LEMMA OpsAndReplies ==
  /\ \A op \in {"upload", "download", "delete", "extract", "reingest", None} :
       op \in Ops \cup {None}
  /\ \A reply \in {"ok", "not_found", "gone", "conflict", "invalid", "error", "lost"} :
       reply \in Replies
  /\ \A s \in Stages : s \notin Replies
BY DEF Ops, Replies, Stages

LEMMA UploadStep ==
  ASSUME Inv, NEW q \in Requests, NEW retention \in 0..Horizon, Upload(q, retention)
  PROVE  Inv'
<1> DEFINE t == [Start("upload") EXCEPT !.version = q, !.retention = retention,
                                        !.writes = {"version"},
                                        !.events = {Ev("uploaded", q, q)}]
<1>1. status[q] \notin Replies
  BY DEF Upload, Replies
<1>2. CASE Refuse(q, "upload", "invalid")
  BY <1>1, <1>2, RefuseStep, OpsAndReplies
<1>3. CASE bytes' = bytes \cup {q} /\ Moves(q, "loaded", t) /\ UNCHANGED <<tables, now>>
  <2>1. {Ev("uploaded", q, q)} \in SUBSET Event
    BY DEF Ev, Event
  <2>2. /\ t \in Txn
        /\ t.version = q /\ t.writes = {"version"} /\ t.reply = "ok"
        /\ t.events = {Ev("uploaded", q, q)}
    <3>1. Start("upload") \in Txn /\ Start("upload").reply = "ok"
      BY StartType, OpsAndReplies
    <3> QED BY <2>1, <3>1 DEF Txn
  <2> HIDE DEF t
  <2>3. Alone(q) /\ status'[q] = "loaded" /\ txn'[q] = t
    BY <1>3, <2>2, MovesAlone DEF Inv, Stages
  <2>4. SessionOK(status'[q], txn'[q], q)
    BY <2>2, <2>3 DEF SessionOK, Working, Stages, Ev
  <2>5. SessionFits(status[q], txn[q], q)'
    BY <1>3, <2>2, <2>3 DEF SessionFits
  <2> QED BY <1>1, <1>3, <2>2, <2>3, <2>4, <2>5, SessionStep
          DEF Inv, TypeOK, LiveVersionsHaveBytes, SessionFits
<1>4. CASE bytes' = bytes \cup {q} /\ Finish(q, "upload", "error")
           /\ UNCHANGED <<tables, now>>
  <2>1. Alone(q) /\ status'[q] = "error" /\ txn'[q] = Start("upload")
    BY <1>4, StartType, MovesAlone, OpsAndReplies DEF Inv, Finish
  <2>2. SessionOK(status'[q], txn'[q], q)
    BY <2>1 DEF Start, SessionOK, Working, Stages
  <2>3. SessionFits(status[q], txn[q], q)'
    BY <2>1 DEF Start, SessionFits
  <2> QED BY <1>1, <1>4, <2>1, <2>2, <2>3, SessionStep
          DEF Start, Inv, TypeOK, LiveVersionsHaveBytes, SessionFits
<1> QED BY <1>2, <1>3, <1>4 DEF Upload

LEMMA DownloadStep ==
  ASSUME Inv, NEW q \in Requests, NEW v \in Requests, Download(q, v)
  PROVE  Inv'
<1> DEFINE t == [Start("download") EXCEPT !.version = v]
<1>1. status[q] \notin Replies
  BY DEF Download, Replies
<1>2. CASE \E reply \in {"not_found", "gone"} : Refuse(q, "download", reply)
  BY <1>1, <1>2, RefuseStep, OpsAndReplies
<1>3. CASE Moves(q, "reading", t) /\ UNCHANGED <<tables, bytes, now>>
  <2>1. /\ t \in Txn
        /\ t.version = v /\ t.writes = {} /\ t.events = {}
    BY StartType, OpsAndReplies DEF Txn
  <2> HIDE DEF t
  <2>3. Alone(q) /\ status'[q] = "reading" /\ txn'[q] = t
    BY <1>3, <2>1, MovesAlone DEF Inv, Stages
  <2>4. SessionOK(status'[q], txn'[q], q)
    BY <2>1, <2>3 DEF SessionOK, Working, Stages
  <2>5. SessionFits(status[q], txn[q], q)'
    BY <1>3, <2>1, <2>3 DEF SessionFits
  <2> QED BY <1>1, <1>3, <2>1, <2>3, <2>4, <2>5, SessionStep
          DEF Inv, TypeOK, LiveVersionsHaveBytes, SessionFits
<1> QED BY <1>2, <1>3 DEF Download

LEMMA ReadBytesStep ==
  ASSUME Inv, NEW q \in Requests, ReadBytes(q)
  PROVE  Inv'
<1> DEFINE t == [txn[q] EXCEPT !.events = {Ev("accessed", txn[q].version, q)}]
<1>1. status[q] = "reading" /\ status[q] \notin Replies
  BY DEF ReadBytes, Replies
<1>2. CASE Refuse(q, "download", "error")
  BY <1>1, <1>2, RefuseStep, OpsAndReplies
<1>3. CASE Moves(q, "loaded", t) /\ UNCHANGED <<tables, bytes, now>>
  <2>1. txn[q] \in Txn /\ SessionOK(status[q], txn[q], q)
    BY DEF Inv, TypeOK
  <2>2. txn[q].version \in Requests /\ txn[q].writes = {}
    BY <1>1, <2>1 DEF SessionOK
  <2>3. t.writes = {} /\ t.events = {Ev("accessed", txn[q].version, q)}
    BY <2>1, <2>2 DEF Txn
  <2>4. t \in Txn
    <3>1. {Ev("accessed", txn[q].version, q)} \in SUBSET Event
      BY <2>2 DEF Ev, Event
    <3> QED BY <2>1, <3>1 DEF Txn
  <2> HIDE DEF t
  <2>5. Alone(q) /\ status'[q] = "loaded" /\ txn'[q] = t
    BY <1>3, <2>4, MovesAlone DEF Inv, Stages
  <2>6. SessionOK(status'[q], txn'[q], q)
    BY <2>3, <2>5 DEF SessionOK, Working, Stages, Ev
  <2>7. SessionFits(status[q], txn[q], q)'
    BY <2>3, <2>5 DEF SessionFits
  <2> QED BY <1>1, <1>3, <2>3, <2>5, <2>6, <2>7, SessionStep
          DEF Inv, TypeOK, LiveVersionsHaveBytes, SessionFits
<1> QED BY <1>2, <1>3 DEF ReadBytes

LEMMA DeleteStep ==
  ASSUME Inv, NEW q \in Requests, NEW v \in Requests, Delete(q, v)
  PROVE  Inv'
<1> DEFINE t == Tombstoning(q, v)
<1>1. status[q] \notin Replies
  BY DEF Delete, Replies
<1>2. CASE \E reply \in {"not_found", "conflict"} : Refuse(q, "delete", reply)
  BY <1>1, <1>2, RefuseStep, OpsAndReplies
<1>3. CASE /\ versions[v] # None
           /\ ~Retained(v)
           /\ Moves(q, "loaded", t)
           /\ UNCHANGED <<tables, bytes, now>>
  <2>1. {Ev("deleted", v, q)} \in SUBSET Event
    BY DEF Ev, Event
  <2>2. /\ t \in Txn
        /\ t.version = v /\ t.writes = {"tombstone"}
        /\ t.events = {Ev("deleted", v, q)}
    <3>1. Start("delete") \in Txn
      BY StartType, OpsAndReplies
    <3> QED BY <2>1, <3>1 DEF Txn, Tombstoning
  <2> HIDE DEF t
  <2>3. Alone(q) /\ status'[q] = "loaded" /\ txn'[q] = t
    BY <1>3, <2>2, MovesAlone DEF Inv, Stages
  <2>4. SessionOK(status'[q], txn'[q], q)
    BY <2>2, <2>3 DEF SessionOK, Working, Stages, Ev
  <2>5. versions[v].retention <= now
    BY <1>3, DocumentAssumption DEF Retained, Inv, TypeOK, Version
  <2>6. SessionFits(status[q], txn[q], q)'
    BY <1>3, <2>2, <2>3, <2>5 DEF SessionFits, tables
  <2> QED BY <1>1, <1>3, <2>2, <2>3, <2>4, <2>6, SessionStep
          DEF Inv, TypeOK, LiveVersionsHaveBytes, SessionFits
<1> QED BY <1>2, <1>3 DEF Delete

(* The file of a deleted version is nobody else's. *)
LEMMA PurgeStep ==
  ASSUME Inv, NEW q \in Requests, Purge(q)
  PROVE  Inv'
<1>1. status[q] = "purging" /\ status[q] \notin Replies
  BY DEF Purge, Replies
<1>2. /\ txn[q].version \in Requests
      /\ versions[txn[q].version] # None
      /\ ~Live(txn[q].version)
  BY <1>1 DEF Inv, SessionOK, SessionFits
<1>3. status[txn[q].version] = "ok"
  BY <1>2 DEF Inv, RowsCommitted
<1>4. txn[txn[q].version].writes = {}
  BY <1>2, <1>3 DEF Inv, SessionOK, Working, Stages
<1>5. Alone(q) /\ status'[q] = "ok" /\ txn'[q] = Start("delete")
  BY StartType, MovesAlone, OpsAndReplies DEF Purge, Finish, Inv
<1>6. SessionOK(status'[q], txn'[q], q)
  BY <1>5 DEF Start, SessionOK, Working, Stages
<1>7. SessionFits(status[q], txn[q], q)'
  BY <1>5 DEF Start, SessionFits
<1>8. \A v \in Requests : Live(v) => v \in bytes'
  BY <1>2 DEF Purge, Inv, LiveVersionsHaveBytes
<1>9. \A p \in Requests \ {q} : "version" \in txn[p].writes => p \in bytes'
  BY <1>4 DEF Purge, Inv, SessionFits
<1>10. bytes' \subseteq Requests /\ UNCHANGED <<tables, now>>
  BY DEF Purge, Inv, TypeOK
<1>11. txn'[q].writes = {}
  BY <1>5 DEF Start
<1> QED BY <1>1, <1>5, <1>6, <1>7, <1>8, <1>9, <1>10, <1>11, SessionStep

LEMMA ExtractStep ==
  ASSUME Inv, NEW q \in Requests, NEW v \in Requests, NEW r \in RunIds,
         Extract(q, v, r)
  PROVE  Inv'
<1> DEFINE t == [Start("extract") EXCEPT !.version = v, !.run = r]
<1>1. status[q] \notin Replies
  BY DEF Extract, Replies
<1>2. CASE \E reply \in {"not_found", "gone", "invalid", "conflict"} :
             Refuse(q, "extract", reply)
  BY <1>1, <1>2, RefuseStep, OpsAndReplies
<1>3. CASE Moves(q, "inserting", t) /\ UNCHANGED <<tables, bytes, now>>
  <2>1. /\ t \in Txn
        /\ t.op = "extract" /\ t.version = v /\ t.run = r
        /\ t.writes = {} /\ t.events = {} /\ t.reply = "ok"
    <3>1. /\ Start("extract") \in Txn
          /\ Start("extract").op = "extract"
          /\ Start("extract").writes = {}
          /\ Start("extract").events = {}
          /\ Start("extract").reply = "ok"
      BY StartType, OpsAndReplies
    <3> QED BY <3>1 DEF Txn
  <2> HIDE DEF t
  <2>2. Alone(q) /\ status'[q] = "inserting" /\ txn'[q] = t
    BY <1>3, <2>1, MovesAlone DEF Inv, Stages
  <2>3. SessionOK(status'[q], txn'[q], q)
    BY <2>1, <2>2 DEF SessionOK, Working, Stages
  <2>4. SessionFits(status[q], txn[q], q)'
    BY <2>1, <2>2 DEF SessionFits
  <2> QED BY <1>1, <1>3, <2>1, <2>2, <2>3, <2>4, SessionStep
          DEF Inv, TypeOK, LiveVersionsHaveBytes, SessionFits
<1> QED BY <1>2, <1>3 DEF Extract

LEMMA ReingestStep ==
  ASSUME Inv, NEW q \in Requests, NEW r \in RunIds, Reingest(q, r)
  PROVE  Inv'
<1> DEFINE t == [Start("reingest") EXCEPT !.version = q, !.run = r,
                                          !.writes = {"version"}]
<1>1. status[q] \notin Replies
  BY DEF Reingest, Replies
<1>2. CASE Refuse(q, "reingest", "invalid")
  BY <1>1, <1>2, RefuseStep, OpsAndReplies
<1>3. CASE bytes' = bytes \cup {q} /\ Moves(q, "stored", t) /\ UNCHANGED <<tables, now>>
  <2>1. /\ t \in Txn
        /\ t.op = "reingest" /\ t.version = q /\ t.run = r
        /\ t.writes = {"version"} /\ t.events = {} /\ t.reply = "ok"
    <3>1. /\ Start("reingest") \in Txn
          /\ Start("reingest").op = "reingest"
          /\ Start("reingest").events = {}
          /\ Start("reingest").reply = "ok"
      BY StartType, OpsAndReplies
    <3> QED BY <3>1 DEF Txn
  <2> HIDE DEF t
  <2>2. Alone(q) /\ status'[q] = "stored" /\ txn'[q] = t
    BY <1>3, <2>1, MovesAlone DEF Inv, Stages
  <2>3. SessionOK(status'[q], txn'[q], q)
    BY <2>1, <2>2 DEF SessionOK, Working, Stages
  <2>4. SessionFits(status[q], txn[q], q)'
    BY <1>3, <2>1, <2>2 DEF SessionFits
  <2> QED BY <1>1, <1>3, <2>1, <2>2, <2>3, <2>4, SessionStep
          DEF Inv, TypeOK, LiveVersionsHaveBytes, SessionFits
<1> QED BY <1>2, <1>3 DEF Reingest

Extracting == {"stored", "inserting", "extracting"}

LEMMA ExtractingSession ==
  ASSUME Inv, NEW q \in Requests, status[q] \in Extracting
  PROVE  /\ status[q] \notin Replies
         /\ txn[q] \in Txn
         /\ txn[q].run \in RunIds
         /\ txn[q].version \in Requests
         /\ txn[q].op \in {"extract", "reingest"}
         /\ txn[q].events = {}
         /\ txn[q].reply = "ok"
         /\ txn[q].op = "reingest" => txn[q].version = q
         /\ txn[q].op = "extract" => "version" \notin txn[q].writes
         /\ "tombstone" \notin txn[q].writes
         /\ "version" \in txn[q].writes => txn[q].version = q /\ q \in bytes
         /\ "run" \in txn[q].writes => runs[txn[q].run] = None
         /\ status[q] # "extracting" => "run" \notin txn[q].writes
<1>1. SessionOK(status[q], txn[q], q) /\ SessionFits(status[q], txn[q], q)
  BY DEF Inv
<1>2. txn[q] \in Txn
  BY DEF Inv, TypeOK
<1> QED BY <1>1, <1>2 DEF Extracting, SessionOK, SessionFits, Replies

LEMMA AbandonStep ==
  ASSUME Inv, NEW q \in Requests, status[q] \in Extracting,
         NEW reply \in Replies, NEW events \in SUBSET Event,
         \A e \in events : e.action # "deleted",
         Abandon(q, reply, events)
  PROVE  Inv'
<1> DEFINE t == [RolledBack(txn[q]) EXCEPT !.reply = reply, !.events = events]
<1>1. PICK op \in Ops \cup {None} : op = txn[q].op
  BY ExtractingSession DEF Txn
<1>2. CASE txn[q].op # "reingest"
  <2>1. Refuse(q, op, reply)
    BY <1>1, <1>2 DEF Abandon, Refuse, Finish
  <2> QED BY <2>1, RefuseStep, ExtractingSession
<1>3. CASE txn[q].op = "reingest"
  <2>1. Moves(q, "cleaning", t) /\ UNCHANGED <<tables, bytes, now>>
    BY <1>3 DEF Abandon
  <2>2. /\ t \in Txn
        /\ t.version = q /\ t.writes = {} /\ t.events = events
    <3>1. /\ RolledBack(txn[q]) \in Txn
          /\ RolledBack(txn[q]).version = q
          /\ RolledBack(txn[q]).writes = {}
      BY <1>3, ExtractingSession DEF RolledBack, Txn
    <3> QED BY <3>1 DEF Txn
  <2> HIDE DEF t
  <2>3. Alone(q) /\ status'[q] = "cleaning" /\ txn'[q] = t
    BY <2>1, <2>2, MovesAlone DEF Inv, Stages
  <2>4. SessionOK(status'[q], txn'[q], q)
    BY <2>2, <2>3 DEF SessionOK, Working, Stages
  <2>5. SessionFits(status[q], txn[q], q)'
    BY <2>2, <2>3 DEF SessionFits
  <2> QED BY <2>1, <2>2, <2>3, <2>4, <2>5, SessionStep, ExtractingSession
          DEF Inv, TypeOK, LiveVersionsHaveBytes, SessionFits
<1> QED BY <1>2, <1>3

LEMMA LoadContextStep ==
  ASSUME Inv, NEW q \in Requests, LoadContext(q)
  PROVE  Inv'
<1>1. status[q] = "stored" /\ status[q] \in Extracting
  BY DEF LoadContext, Extracting
<1>2. CASE Abandon(q, "invalid", {}) \/ Abandon(q, "conflict", {})
  BY <1>1, <1>2, AbandonStep, OpsAndReplies
<1>3. CASE Moves(q, "inserting", txn[q]) /\ UNCHANGED <<tables, bytes, now>>
  <2>1. PICK t \in Txn : t = txn[q]
    BY <1>1, ExtractingSession
  <2>2. Moves(q, "inserting", t)
    BY <1>3, <2>1 DEF Moves
  <2>3. Alone(q) /\ status'[q] = "inserting" /\ txn'[q] = t
    BY <2>2, MovesAlone DEF Inv, Stages
  <2>4. SessionOK(status[q], t, q) /\ SessionFits(status[q], t, q)
    BY <2>1 DEF Inv
  <2>5. SessionOK(status'[q], txn'[q], q)
    BY <1>1, <2>3, <2>4 DEF SessionOK, Working, Stages
  <2>6. SessionFits(status[q], txn[q], q)'
    BY <1>1, <1>3, <2>3, <2>4, <2>5 DEF SessionFits, SessionOK, tables
  <2>7. "run" \notin t.writes
    BY <1>1, <2>1, ExtractingSession
  <2> QED BY <1>1, <1>3, <2>3, <2>5, <2>6, <2>7, SessionStep, ExtractingSession
          DEF Inv, TypeOK, LiveVersionsHaveBytes, SessionFits
<1> QED BY <1>2, <1>3 DEF LoadContext

(* The flush inserts a run id that no stored run and no other session has. *)
LEMMA InsertRunStep ==
  ASSUME Inv, NEW q \in Requests, InsertRun(q)
  PROVE  Inv'
<1> DEFINE t == [txn[q] EXCEPT !.writes = @ \cup {"run"}]
<1>1. status[q] = "inserting" /\ status[q] \in Extracting
  BY DEF InsertRun, Extracting
<1>2. CASE Abandon(q, "error", {})
  BY <1>1, <1>2, AbandonStep, OpsAndReplies
<1>3. CASE /\ ~KeyHeld(q)
           /\ ~RunTaken(txn[q].run)
           /\ Moves(q, "extracting", t)
           /\ UNCHANGED <<tables, bytes, now>>
  <2>1. /\ t \in Txn
        /\ t.writes = txn[q].writes \cup {"run"}
        /\ t.op = txn[q].op /\ t.version = txn[q].version /\ t.run = txn[q].run
        /\ t.events = {} /\ t.reply = "ok"
    BY <1>1, ExtractingSession DEF Txn
  <2> HIDE DEF t
  <2>2. PICK u \in Txn : u = t
    BY <2>1
  <2>3. Moves(q, "extracting", u)
    BY <1>3, <2>2 DEF Moves
  <2>4. Alone(q) /\ status'[q] = "extracting" /\ txn'[q] = u
    BY <2>3, MovesAlone DEF Inv, Stages
  <2>5. SessionOK(status'[q], txn'[q], q)
    BY <1>1, <2>1, <2>2, <2>4, ExtractingSession DEF SessionOK, Working, Stages
  <2>6. SessionFits(status[q], txn[q], q)'
    BY <1>1, <1>3, <2>1, <2>2, <2>4, ExtractingSession
    DEF SessionFits, tables, RunTaken
  <2>7. \A p \in Requests \ {q} : "run" \in txn[p].writes => txn[p].run # u.run
    BY <1>3, <2>1, <2>2 DEF KeyHeld
  <2> QED BY <1>1, <1>3, <2>4, <2>5, <2>6, <2>7, SessionStep, ExtractingSession
          DEF Inv, TypeOK, LiveVersionsHaveBytes, SessionFits
<1> QED BY <1>2, <1>3 DEF InsertRun

LEMMA EventTypes ==
  ASSUME Inv, NEW q \in Requests, status[q] \in Extracting
  PROVE  /\ FailureEvents(q) \in SUBSET Event
         /\ SuccessEvents(q) \in SUBSET Event
         /\ \A e \in FailureEvents(q) \cup SuccessEvents(q) : e.action # "deleted"
BY ExtractingSession DEF FailureEvents, SuccessEvents, Ev, Event

LEMMA LLMAnswersStep ==
  ASSUME Inv, NEW q \in Requests, LLMAnswers(q)
  PROVE  Inv'
<1>1. status[q] = "extracting" /\ status[q] \in Extracting
  BY DEF LLMAnswers, Extracting
<1>2. ASSUME NEW events \in SUBSET Event, NEW reply \in Replies,
             \A e \in events : e.action # "deleted",
             NEW completed \in BOOLEAN, NEW t \in Txn,
             t = [txn[q] EXCEPT !.completed = completed, !.events = events,
                                !.reply = reply],
             "version" \in t.writes => reply = "ok",
             Moves(q, "loaded", t), UNCHANGED <<tables, bytes, now>>
      PROVE  Inv'
  <2>1. /\ t.writes = txn[q].writes
        /\ t.version = txn[q].version /\ t.run = txn[q].run
        /\ t.events = events /\ t.reply = reply
    BY <1>1, <1>2, ExtractingSession DEF Txn
  <2>2. Alone(q) /\ status'[q] = "loaded" /\ txn'[q] = t
    BY <1>2, MovesAlone DEF Inv, Stages
  <2>3. SessionOK(status'[q], txn'[q], q)
    BY <1>1, <1>2, <2>1, <2>2, ExtractingSession DEF SessionOK, Working, Stages
  <2>4. SessionFits(status[q], txn[q], q)'
    BY <1>1, <1>2, <2>1, <2>2, ExtractingSession DEF SessionFits, tables
  <2>5. \A p \in Requests \ {q} :
          "run" \in t.writes /\ "run" \in txn[p].writes => txn[p].run # t.run
    BY <2>1 DEF Inv, KeysExclusive
  <2>6. /\ bytes' = bytes /\ bytes \subseteq Requests
        /\ \A v \in Requests : Live(v) => v \in bytes
        /\ \A p \in Requests : "version" \in txn[p].writes => p \in bytes
    BY <1>2 DEF Inv, TypeOK, LiveVersionsHaveBytes, SessionFits
  <2>7. status[q] \notin Replies
    BY <1>1, ExtractingSession
  <2> QED BY <1>2, <2>2, <2>3, <2>4, <2>5, <2>6, <2>7, SessionStep
<1>3. /\ txn[q] \in Txn
      /\ FailureEvents(q) \in SUBSET Event
      /\ SuccessEvents(q) \in SUBSET Event
      /\ \A e \in FailureEvents(q) \cup SuccessEvents(q) : e.action # "deleted"
  BY <1>1, ExtractingSession, EventTypes
<1>4. CASE /\ Moves(q, "loaded", [txn[q] EXCEPT !.completed = TRUE,
                                               !.events = SuccessEvents(q)])
           /\ UNCHANGED <<tables, bytes, now>>
  <2>1. PICK events \in SUBSET Event : events = SuccessEvents(q)
    BY <1>3
  <2>2. /\ [txn[q] EXCEPT !.completed = TRUE, !.events = events] \in Txn
        /\ [txn[q] EXCEPT !.completed = TRUE, !.events = events]
             = [txn[q] EXCEPT !.completed = TRUE, !.events = events, !.reply = "ok"]
    <3>1. txn[q].reply = "ok"
      BY <1>1, ExtractingSession
    <3> QED BY <1>3, <3>1 DEF Txn
  <2>3. PICK t \in Txn :
          t = [txn[q] EXCEPT !.completed = TRUE, !.events = events, !.reply = "ok"]
    BY <2>2
  <2>4. Moves(q, "loaded", t)
    BY <1>4, <2>1, <2>2, <2>3
  <2> QED BY <1>2, <1>3, <1>4, <2>1, <2>3, <2>4, OpsAndReplies
<1>5. CASE /\ txn[q].op # "reingest"
           /\ Moves(q, "loaded", [txn[q] EXCEPT !.events = FailureEvents(q),
                                               !.reply = "invalid"])
           /\ UNCHANGED <<tables, bytes, now>>
  <2>1. PICK events \in SUBSET Event : events = FailureEvents(q)
    BY <1>3
  <2>2. PICK completed \in BOOLEAN : completed = txn[q].completed
    BY <1>3 DEF Txn
  <2>3. /\ [txn[q] EXCEPT !.events = events, !.reply = "invalid"] \in Txn
        /\ [txn[q] EXCEPT !.events = events, !.reply = "invalid"]
             = [txn[q] EXCEPT !.completed = completed, !.events = events,
                              !.reply = "invalid"]
    BY <1>3, <2>2 DEF Txn, Replies
  <2>4. PICK t \in Txn :
          t = [txn[q] EXCEPT !.completed = completed, !.events = events,
                             !.reply = "invalid"]
    BY <2>3
  <2>5. Moves(q, "loaded", t)
    BY <1>5, <2>1, <2>3, <2>4
  <2>6. "version" \notin t.writes
    BY <1>1, <1>3, <1>5, <2>4, ExtractingSession DEF Txn
  <2> QED BY <1>2, <1>3, <1>5, <2>1, <2>4, <2>5, <2>6, OpsAndReplies
<1>6. CASE Abandon(q, "invalid", FailureEvents(q))
  <2>1. PICK events \in SUBSET Event : events = FailureEvents(q)
    BY <1>3
  <2>2. Abandon(q, "invalid", events)
    BY <1>6, <2>1 DEF Abandon
  <2> QED BY <1>1, <1>3, <2>1, <2>2, AbandonStep, OpsAndReplies
<1>7. CASE Abandon(q, "error", {})
  BY <1>1, <1>7, AbandonStep, OpsAndReplies
<1>8. CASE /\ txn[q].op # "reingest"
           /\ Moves(q, "failing", txn[q])
           /\ UNCHANGED <<tables, bytes, now>>
  <2>1. PICK t \in Txn : t = txn[q]
    BY <1>3
  <2>2. Moves(q, "failing", t)
    BY <1>8, <2>1 DEF Moves
  <2>3. Alone(q) /\ status'[q] = "failing" /\ txn'[q] = t
    BY <2>2, MovesAlone DEF Inv, Stages
  <2>4. SessionOK(status'[q], txn'[q], q)
    BY <1>1, <1>8, <2>1, <2>3, ExtractingSession DEF SessionOK, Working, Stages
  <2>5. SessionFits(status[q], txn[q], q)'
    BY <1>1, <1>8, <2>1, <2>3, ExtractingSession DEF SessionFits, tables
  <2>6. \A p \in Requests \ {q} :
          "run" \in t.writes /\ "run" \in txn[p].writes => txn[p].run # t.run
    BY <2>1 DEF Inv, KeysExclusive
  <2> QED BY <1>1, <1>8, <2>3, <2>4, <2>5, <2>6, SessionStep, ExtractingSession
          DEF Inv, TypeOK, LiveVersionsHaveBytes, SessionFits
<1> QED BY <1>4, <1>5, <1>6, <1>7, <1>8 DEF LLMAnswers

(* The session of a request that died is dropped with what it wrote. *)
LEMMA TeardownStep ==
  ASSUME Inv, NEW q \in Requests, Teardown(q)
  PROVE  Inv'
BY RefuseStep, OpsAndReplies DEF Teardown, Replies

(* The file of a re-ingestion that failed is that of no version. *)
LEMMA CleanStep ==
  ASSUME Inv, NEW q \in Requests, Clean(q)
  PROVE  Inv'
<1>1. status[q] = "cleaning" /\ status[q] \notin Replies
  BY DEF Clean, Replies
<1>2. /\ txn[q] \in Txn
      /\ SessionOK(status[q], txn[q], q)
      /\ txn[q].version = q /\ txn[q].writes = {}
  BY <1>1 DEF Inv, TypeOK, SessionOK
<1>3. ~Live(q)
  BY <1>1 DEF Inv, RowsCommitted, Live
<1>4. /\ bytes' = bytes \ {q} /\ bytes' \subseteq Requests
      /\ UNCHANGED <<tables, now>>
  BY <1>2 DEF Clean, Inv, TypeOK
<1>5. \A v \in Requests : Live(v) => v \in bytes'
  BY <1>3, <1>4 DEF Inv, LiveVersionsHaveBytes
<1>6. \A p \in Requests \ {q} : "version" \in txn[p].writes => p \in bytes'
  BY <1>4 DEF Inv, SessionFits
<1>7. CASE Finish(q, "reingest", txn[q].reply)
  <2>1. PICK reply \in Replies : reply = txn[q].reply
    BY <1>2 DEF Txn
  <2>2. Moves(q, reply, Start("reingest"))
    BY <1>7, <2>1 DEF Finish, Moves
  <2>3. Alone(q) /\ status'[q] = reply /\ txn'[q] = Start("reingest")
    BY <2>2, StartType, MovesAlone, OpsAndReplies DEF Inv
  <2>4. SessionOK(status'[q], txn'[q], q)
    BY <2>3 DEF Start, SessionOK, Working, Stages, Replies
  <2>5. SessionFits(status[q], txn[q], q)'
    BY <2>3 DEF Start, SessionFits, Replies
  <2>6. txn'[q].writes = {}
    BY <2>3 DEF Start
  <2> QED BY <1>1, <1>4, <1>5, <1>6, <2>3, <2>4, <2>5, <2>6, SessionStep
<1>8. CASE Moves(q, "loaded", txn[q])
  <2>1. PICK t \in Txn : t = txn[q]
    BY <1>2
  <2>2. Moves(q, "loaded", t)
    BY <1>8, <2>1 DEF Moves
  <2>3. Alone(q) /\ status'[q] = "loaded" /\ txn'[q] = t
    BY <2>2, MovesAlone DEF Inv, Stages
  <2>4. SessionOK(status'[q], txn'[q], q)
    BY <1>1, <1>2, <2>1, <2>3 DEF SessionOK, Working, Stages
  <2>5. SessionFits(status[q], txn[q], q)'
    BY <1>2, <2>1, <2>3 DEF SessionFits
  <2> QED BY <1>1, <1>2, <1>4, <1>5, <1>6, <2>1, <2>3, <2>4, <2>5, SessionStep
<1> QED BY <1>7, <1>8 DEF Clean

LEMMA LoseStep ==
  ASSUME Inv, NEW q \in Requests, Lose(q)
  PROVE  Inv'
<1>1. PICK op \in Ops \cup {None} : op = txn[q].op
  BY DEF Inv, TypeOK, Txn
<1>2. Refuse(q, op, "lost")
  BY <1>1 DEF Lose, Refuse, Finish
<1> QED BY <1>2, RefuseStep, OpsAndReplies DEF Lose

LEMMA TickStep ==
  ASSUME Inv, Tick
  PROVE  Inv'
<1>1. TypeOK'
  BY DocumentAssumption DEF Inv, TypeOK, Tick, tables
<1>2. ASSUME NEW q \in Requests PROVE SessionFits(status[q], txn[q], q)'
  <2>1. CASE "tombstone" \in txn[q].writes
    <3>1. /\ txn[q].version \in Requests
          /\ versions[txn[q].version] # None
          /\ versions[txn[q].version].retention <= now
      BY <2>1 DEF Inv, SessionOK, SessionFits
    <3>2. versions[txn[q].version].retention \in Nat /\ now \in Nat
      BY <3>1, DocumentAssumption DEF Inv, TypeOK, Version
    <3>3. versions[txn[q].version].retention <= now + 1
      BY <3>1, <3>2
    <3> QED BY <3>1, <3>3 DEF Inv, SessionFits, Tick, tables, Live
  <2>2. CASE "tombstone" \notin txn[q].writes
    BY <2>2 DEF Inv, SessionFits, Tick, tables, Live
  <2> QED BY <2>1, <2>2
<1>3. (\A q \in Requests : SessionOK(status[q], txn[q], q))'
  BY DEF Inv, Tick
<1>4. RowsCommitted' /\ KeysExclusive'
  BY DEF Inv, RowsCommitted, KeysExclusive, Tick, tables
<1>5. LiveVersionsHaveBytes' /\ DeletionsAudited'
  BY DEF Inv, LiveVersionsHaveBytes, DeletionsAudited, Live, Tick, tables
<1> QED BY <1>1, <1>2, <1>3, <1>4, <1>5 DEF Inv

-----------------------------------------------------------------------------
(* Commit *)

(* What a commit of q does to the row of version v. *)
Kept(q, v) == /\ versions'[v] = versions[v]
              /\ ~(v = txn[q].version /\ "tombstone" \in txn[q].writes)

Stored(q, v) == /\ v = q /\ "version" \in txn[q].writes
                /\ versions[v] = None
                /\ versions'[v] \in Version
                /\ versions'[v] # None
                /\ versions'[v].deletedBy = None

Tombstoned(q, v) == /\ v = txn[q].version /\ "tombstone" \in txn[q].writes
                    /\ versions[v] # None
                    /\ versions[v].retention <= now
                    /\ versions'[v] \in Version
                    /\ versions'[v] # None
                    /\ versions'[v].retention = versions[v].retention
                    /\ versions'[v].deletedBy = q
                    /\ q # None

LEMMA CommittedVersion ==
  ASSUME Inv, NEW q \in Requests, Commit(q), NEW v \in Requests
  PROVE  Kept(q, v) \/ Stored(q, v) \/ Tombstoned(q, v)
<1>1. /\ SessionOK(status[q], txn[q], q)
      /\ SessionFits(status[q], txn[q], q)
      /\ status[q] = "loaded"
      /\ versions \in [Requests -> Version \cup {None}]
      /\ txn[q].retention \in 0..Horizon
  BY DEF Inv, TypeOK, Commit, Txn
<1>2. versions'[v] = IF v = txn[q].version /\ "version" \in txn[q].writes
                     THEN NewVersion(txn[q])
                     ELSE IF v = txn[q].version /\ "tombstone" \in txn[q].writes
                     THEN [versions[v] EXCEPT !.deletedBy = q]
                     ELSE versions[v]
  BY DEF Commit
<1>3. CASE v = txn[q].version /\ "version" \in txn[q].writes
  <2>1. v = q /\ versions[v] = None
    BY <1>1, <1>3 DEF SessionOK, Inv, RowsCommitted
  <2>2. versions'[v] = NewVersion(txn[q]) /\ NewVersion(txn[q]) \in Version
    BY <1>1, <1>2, <1>3 DEF NewVersion, Version
  <2>3. versions'[v] # None /\ versions'[v].deletedBy = None
    BY <2>2, DocumentAssumption DEF NewVersion
  <2> QED BY <1>3, <2>1, <2>2, <2>3 DEF Stored
<1>4. CASE v = txn[q].version /\ "tombstone" \in txn[q].writes
  <2>1. "version" \notin txn[q].writes
    BY <1>1, <1>4 DEF SessionOK
  <2>2. versions[v] # None /\ versions[v].retention <= now
    BY <1>1, <1>4 DEF SessionFits
  <2>3. versions'[v] = [versions[v] EXCEPT !.deletedBy = q] /\ versions[v] \in Version
    BY <1>1, <1>2, <1>4, <2>1, <2>2
  <2>4. /\ versions'[v] \in Version
        /\ versions'[v].retention = versions[v].retention
        /\ versions'[v].deletedBy = q
    BY <2>3 DEF Version
  <2> QED BY <1>4, <2>2, <2>4, DocumentAssumption DEF Tombstoned
<1>5. CASE v # txn[q].version \/ txn[q].writes \cap {"version", "tombstone"} = {}
  BY <1>2, <1>5 DEF Kept
<1> QED BY <1>3, <1>4, <1>5

LEMMA CommitSession ==
  ASSUME Inv, NEW q \in Requests, Commit(q)
  PROVE  /\ Alone(q)
         /\ SessionOK(status'[q], txn'[q], q)
         /\ txn'[q].writes = {}
         /\ "version" \in txn[q].writes => status'[q] = "ok"
         /\ status'[q] = "purging" => /\ "tombstone" \in txn[q].writes
                                      /\ txn'[q].version = txn[q].version
<1>1. /\ txn[q] \in Txn
      /\ SessionOK(status[q], txn[q], q)
  BY DEF Inv, TypeOK
<1>2. CASE "tombstone" \in txn[q].writes
  <2>1. Moves(q, "purging", [txn[q] EXCEPT !.writes = {}, !.events = {}])
    BY <1>2 DEF Commit, AfterCommit
  <2>2. PICK t \in Txn : t = [txn[q] EXCEPT !.writes = {}, !.events = {}]
    BY <1>1 DEF Txn
  <2>3. t.writes = {} /\ t.events = {} /\ t.version = txn[q].version
    BY <1>1, <2>2 DEF Txn
  <2>4. Moves(q, "purging", t)
    BY <2>1, <2>2
  <2>5. Alone(q) /\ status'[q] = "purging" /\ txn'[q] = t
    BY <2>4, MovesAlone DEF Inv, Stages
  <2>6. txn[q].version \in Requests /\ "version" \notin txn[q].writes
    BY <1>1, <1>2 DEF SessionOK
  <2>7. SessionOK(status'[q], txn'[q], q)
    BY <2>3, <2>5, <2>6 DEF SessionOK, Working, Stages
  <2> QED BY <1>2, <2>3, <2>5, <2>6, <2>7
<1>3. CASE "tombstone" \notin txn[q].writes
  <2>1. PICK reply \in Replies : reply = txn[q].reply
    BY <1>1 DEF Txn
  <2>2. PICK op \in Ops \cup {None} : op = txn[q].op
    BY <1>1 DEF Txn
  <2>3. Moves(q, reply, Start(op))
    BY <1>3, <2>1, <2>2 DEF Commit, AfterCommit, Finish, Moves, Replies
  <2>4. Alone(q) /\ status'[q] = reply /\ txn'[q] = Start(op)
    BY <2>3, StartType, MovesAlone DEF Inv
  <2>5. SessionOK(status'[q], txn'[q], q)
    BY <2>4 DEF Start, SessionOK, Working, Stages, Replies
  <2>6. "version" \in txn[q].writes => reply = "ok"
    BY <1>1, <2>1 DEF SessionOK
  <2> QED BY <2>4, <2>5, <2>6 DEF Start, Replies
<1> QED BY <1>2, <1>3

LEMMA CommitStep ==
  ASSUME Inv, NEW q \in Requests, Commit(q)
  PROVE  Inv'
<1>1. /\ status[q] = "loaded"
      /\ txn[q] \in Txn
      /\ SessionOK(status[q], txn[q], q)
      /\ SessionFits(status[q], txn[q], q)
      /\ audit' = audit \cup txn[q].events
      /\ bytes' = bytes /\ now' = now
  BY DEF Inv, TypeOK, Commit
<1>0. /\ Alone(q)
      /\ \A v \in Requests : Kept(q, v) \/ Stored(q, v) \/ Tombstoned(q, v)
      /\ "version" \in txn[q].writes => status'[q] = "ok"
      /\ txn'[q].writes = {}
  BY CommittedVersion, CommitSession
<1>2. runs' = [r \in RunIds |->
                 IF r = txn[q].run /\ "run" \in txn[q].writes
                 THEN [version |-> txn[q].version, by |-> q,
                       completed |-> txn[q].completed]
                 ELSE runs[r]]
  BY DEF Commit
<1>3. TypeOK'
  <2>1. versions' \in [Requests -> Version \cup {None}]
    <3>1. versions' = [v \in Requests |-> versions'[v]]
      BY DEF Commit
    <3>2. \A v \in Requests : versions'[v] \in Version \cup {None}
      BY <1>0 DEF Inv, TypeOK, Kept, Stored, Tombstoned
    <3> QED BY <3>1, <3>2
  <2>2. runs' \in [RunIds -> Run \cup {None}]
    BY <1>1, <1>2 DEF Inv, TypeOK, Run, Txn, SessionOK
  <2>3. audit' \subseteq Event
    BY <1>1 DEF Inv, TypeOK, Txn
  <2> QED BY <1>0, <1>1, <2>1, <2>2, <2>3 DEF Inv, TypeOK, Alone
<1>4. ASSUME NEW p \in Requests
      PROVE  (SessionOK(status[p], txn[p], p) /\ SessionFits(status[p], txn[p], p))'
  <2>1. CASE p = q
    <3>1. SessionFits(status[q], txn[q], q)'
      <4>1. CASE status'[q] = "purging"
        <5>1. /\ "tombstone" \in txn[q].writes
              /\ txn'[q].version = txn[q].version
              /\ txn[q].version \in Requests
          BY <1>1, <4>1, CommitSession DEF SessionOK
        <5>2. versions'[txn[q].version] \in Version
              /\ versions'[txn[q].version].deletedBy = q
          BY <1>0, <1>1, <5>1 DEF Kept, Stored, Tombstoned, SessionOK
        <5> QED BY <5>1, <5>2, CommitSession, DocumentAssumption DEF SessionFits, Live
      <4>2. CASE status'[q] # "purging"
        BY <4>2, CommitSession DEF SessionFits
      <4> QED BY <4>1, <4>2
    <3> QED BY <2>1, <3>1, CommitSession
  <2>2. CASE p # q
    <3>1. /\ status'[p] = status[p] /\ txn'[p] = txn[p]
          /\ SessionOK(status[p], txn[p], p)
          /\ SessionFits(status[p], txn[p], p)
      BY <1>0, <2>2 DEF Alone, Inv
    <3>2. "run" \in txn[p].writes => runs'[txn[p].run] = None
      BY <1>2, <2>2, <3>1 DEF SessionFits, SessionOK, Inv, KeysExclusive
    <3>3. "tombstone" \in txn[p].writes =>
            /\ versions'[txn[p].version] # None
            /\ versions'[txn[p].version].retention <= now
      BY <1>0, <3>1 DEF Kept, Stored, Tombstoned, SessionFits, SessionOK
    <3>4. status[p] = "purging" => /\ versions'[txn[p].version] # None
                                   /\ ~Live(txn[p].version)'
      BY <1>0, <3>1 DEF Kept, Stored, Tombstoned, SessionFits, SessionOK, Live
    <3> QED BY <1>1, <3>1, <3>2, <3>3, <3>4 DEF SessionFits
  <2> QED BY <2>1, <2>2
<1>5. RowsCommitted'
  BY <1>0, <1>1 DEF Kept, Stored, Tombstoned, Inv, RowsCommitted, Alone
<1>6. KeysExclusive'
  BY <1>0 DEF Inv, KeysExclusive, Alone
<1>7. LiveVersionsHaveBytes'
  BY <1>0, <1>1 DEF Kept, Stored, Tombstoned, Inv, LiveVersionsHaveBytes, Live,
                    SessionFits
<1>8. DeletionsAudited'
  <2>1. ASSUME NEW v \in Requests, versions'[v] # None, versions'[v].deletedBy # None
        PROVE  Ev("deleted", v, versions'[v].deletedBy) \in audit'
    BY <1>0, <1>1, <2>1 DEF Kept, Stored, Tombstoned, Inv, DeletionsAudited, SessionOK
  <2>2. ASSUME NEW e \in audit', e.action = "deleted"
        PROVE  versions'[e.entity] # None /\ versions'[e.entity].deletedBy # None
    <3>1. CASE e \in audit
      <4>1. /\ e.entity \in Requests
            /\ versions[e.entity] # None
            /\ versions[e.entity].deletedBy # None
        BY <2>2, <3>1 DEF Inv, TypeOK, DeletionsAudited, Event
      <4> QED BY <1>0, <4>1 DEF Kept, Stored, Tombstoned
    <3>2. CASE e \in txn[q].events
      <4>1. /\ "tombstone" \in txn[q].writes
            /\ e.entity = txn[q].version
            /\ txn[q].version \in Requests
        BY <1>1, <2>2, <3>2 DEF SessionOK
      <4> QED BY <1>0, <1>1, <4>1 DEF Kept, Stored, Tombstoned, SessionOK
    <3> QED BY <1>1, <3>1, <3>2
  <2> QED BY <2>1, <2>2 DEF DeletionsAudited
<1> QED BY <1>3, <1>4, <1>5, <1>6, <1>7, <1>8 DEF Inv

-----------------------------------------------------------------------------
(* Theorems *)

LEMMA Initially == Init => Inv
<1> SUFFICES ASSUME Init PROVE Inv
  OBVIOUS
<1>1. Start(None) \in Txn
  BY StartType
<1>2. TypeOK
  BY <1>1, DocumentAssumption DEF Init, TypeOK, Stages
<1>3. ASSUME NEW q \in Requests
      PROVE  SessionOK(status[q], txn[q], q) /\ SessionFits(status[q], txn[q], q)
  BY DEF Init, Start, SessionOK, SessionFits, Working
<1>4. RowsCommitted /\ KeysExclusive /\ LiveVersionsHaveBytes /\ DeletionsAudited
  BY DEF Init, Start, RowsCommitted, KeysExclusive, LiveVersionsHaveBytes, Live,
         DeletionsAudited
<1> QED BY <1>2, <1>3, <1>4 DEF Inv

LEMMA Preserved == Inv /\ [Next]_vars => Inv'
<1> SUFFICES ASSUME Inv, [Next]_vars PROVE Inv'
  OBVIOUS
<1>1. CASE UNCHANGED vars
  BY <1>1 DEF vars, Inv, TypeOK, SessionFits, RowsCommitted, KeysExclusive,
              LiveVersionsHaveBytes, DeletionsAudited, Live
<1>2. ASSUME NEW q \in Requests, Arrive(q) PROVE Inv'
  BY <1>2, UploadStep, DownloadStep, DeleteStep, ExtractStep, ReingestStep DEF Arrive
<1>3. ASSUME NEW q \in Requests, Proceed(q) PROVE Inv'
  BY <1>3, ReadBytesStep, PurgeStep, LoadContextStep, InsertRunStep, LLMAnswersStep,
     CleanStep, CommitStep DEF Proceed
<1> QED BY <1>1, <1>2, <1>3, TeardownStep, LoseStep, TickStep DEF Next

LEMMA Always == Spec => []Inv
BY Initially, Preserved, PTL DEF Spec

(* The tables, the files and every session stay well formed. *)
THEOREM TypeCorrect == Spec => []TypeOK
<1>1. Inv => TypeOK
  BY DEF Inv
<1> QED BY <1>1, Always, PTL

(* A Document Version that is not deleted has its file. *)
THEOREM LiveVersionsStored == Spec => []LiveVersionsHaveBytes
<1>1. Inv => LiveVersionsHaveBytes
  BY DEF Inv
<1> QED BY <1>1, Always, PTL

(* Tombstones and the audit trail of deletions agree. *)
THEOREM DeletionTrail == Spec => []DeletionsAudited
<1>1. Inv => DeletionsAudited
  BY DEF Inv
<1> QED BY <1>1, Always, PTL

(* Only commits write the tables. *)
LEMMA TablesWritten ==
  ASSUME Inv, [Next]_vars
  PROVE  \/ \E q \in Requests : Commit(q)
         \/ UNCHANGED tables
<1>1. ASSUME NEW q \in Requests, Arrive(q) PROVE UNCHANGED tables
  BY <1>1 DEF Arrive, Upload, Download, Delete, Extract, Reingest, Refuse, tables
<1>2. ASSUME NEW q \in Requests, Proceed(q), ~Commit(q) PROVE UNCHANGED tables
  <2>1. CASE ReadBytes(q) \/ Purge(q) \/ Clean(q)
    BY <2>1 DEF ReadBytes, Purge, Clean, Refuse, tables
  <2>2. CASE LoadContext(q)
    BY <2>2 DEF LoadContext, Abandon, Refuse, tables
  <2>3. CASE InsertRun(q)
    BY <2>3 DEF InsertRun, Abandon, Refuse, tables
  <2>4. CASE LLMAnswers(q)
    BY <2>4 DEF LLMAnswers, Abandon, Refuse, tables
  <2> QED BY <1>2, <2>1, <2>2, <2>3, <2>4 DEF Proceed
<1>3. ASSUME NEW q \in Requests, Teardown(q) \/ Lose(q) PROVE UNCHANGED tables
  BY <1>3 DEF Teardown, Lose, Refuse, tables
<1>4. CASE Tick \/ UNCHANGED vars
  BY <1>4 DEF Tick, vars, tables
<1> QED BY <1>1, <1>2, <1>3, <1>4 DEF Next

(* A retained version keeps its row, its life and its file.  A tombstone   *)
(* is pending only for a version whose date has passed, and dates never    *)
(* change while the clock goes forward.                                    *)
THEOREM RetentionKept == Spec => RetentionRespected
<1>1. Inv /\ Inv' /\ [Next]_vars =>
        [\A v \in Requests : Live(v) /\ versions[v].retention > now
           => Live(v)' /\ v \in bytes']_vars
  <2> SUFFICES ASSUME Inv, Inv', [Next]_vars, NEW v \in Requests,
                      Live(v), versions[v].retention > now
               PROVE  Live(v)' /\ v \in bytes'
    OBVIOUS
  <2>1. versions[v].retention \in Nat /\ now \in Nat
    BY DocumentAssumption DEF Inv, TypeOK, Live, Version
  <2>2. ASSUME NEW q \in Requests, Commit(q) PROVE Live(v)'
    <3>1. Kept(q, v) \/ Stored(q, v) \/ Tombstoned(q, v)
      BY <2>2, CommittedVersion
    <3>2. ~Stored(q, v) /\ ~Tombstoned(q, v)
      BY <2>1 DEF Stored, Tombstoned, Live
    <3> QED BY <3>1, <3>2 DEF Kept, Live
  <2>3. Live(v)'
    BY <2>2, TablesWritten DEF Live, tables
  <2> QED BY <2>3 DEF Inv, LiveVersionsHaveBytes
<1> QED BY <1>1, Always, PTL DEF Spec, RetentionRespected

(* The row of an extraction run is never written twice.  The inserted but  *)
(* uncommitted row holds the key, so no other session holds it too.        *)
THEOREM RunsPinned == Spec => RunIdsNotReused
<1>1. Inv /\ [Next]_vars =>
        [\A r \in RunIds : runs[r] # None => runs'[r] = runs[r]]_vars
  <2> SUFFICES ASSUME Inv, [Next]_vars, NEW r \in RunIds, runs[r] # None
               PROVE  runs'[r] = runs[r]
    OBVIOUS
  <2>1. ASSUME NEW q \in Requests, Commit(q) PROVE runs'[r] = runs[r]
    <3>1. ~(r = txn[q].run /\ "run" \in txn[q].writes)
      BY DEF Inv, SessionFits
    <3> QED BY <2>1, <3>1 DEF Commit
  <2> QED BY <2>1, TablesWritten DEF tables
<1> QED BY <1>1, Always, PTL DEF Spec, RunIdsNotReused
-----------------------------------------------------------------------------
(***************************************************************************)
(* What operations that failed or were cut off leave behind.  Every file   *)
(* in object storage belongs to a version or to a request one can name, a  *)
(* re-ingestion leaves everything or nothing, and a run whose output was   *)
(* rejected has its failure event.                                         *)
(*                                                                         *)
(* These relate the reply of a request to rows, files and events written   *)
(* by other steps, so the inductive invariant TrailInv follows a request   *)
(* from its arrival: OpFits is what its session may hold at each stage for *)
(* the kind of request it is, the other parts what its reply says of the   *)
(* tables.  It stands on the invariant Inv.                                *)
(***************************************************************************)
(* A re-ingestion about to commit everything, or only its failure event. *)
Done(t, q) == /\ t.reply = "ok"
              /\ t.writes = {"version", "run"}
              /\ Ev("uploaded", q, q) \in t.events
              /\ Ev("run.created", t.run, q) \in t.events

Failed(t, q) == /\ t.reply # "ok"
                /\ t.writes = {}
                /\ t.events \subseteq {Ev("run.failed", t.run, q)}

(* What a session holds at each stage, by the kind of its request. *)
OpFits(s, t, q) ==
  /\ s \in Stages => \A e \in t.events : e.request = q
  /\ s = "reading" => t.op = "download"
  /\ s = "purging" => t.op = "delete"
  /\ s = "stored" => t.op = "reingest"
  /\ s \in Extracting /\ t.op = "reingest" => "version" \in t.writes
  /\ s = "extracting" => "run" \in t.writes
  /\ s = "cleaning" => t.op = "reingest" /\ Failed(t, q)
  /\ s = "loaded" =>
       /\ "tombstone" \in t.writes => t.op = "delete"
       /\ "run" \in t.writes => t.reply \in {"ok", "invalid"}
       /\ "run" \in t.writes /\ ~t.completed => Ev("run.failed", t.run, q) \in t.events
       /\ t.op = "reingest" => Done(t, q) \/ Failed(t, q)

(* A request that may have a file but no version: an upload or a           *)
(* re-ingestion at work, cut off, or an upload that failed after writing.  *)
FileHeld(s, t) ==
  /\ t.op \in {"upload", "reingest"}
  /\ \/ s \in Working /\ (s = "loaded" => "version" \in t.writes)
     \/ s = "lost"
     \/ s = "error" /\ t.op = "upload"

(* The file of a deleted version waits for the request that deleted it. *)
PurgePending(v, d) == \/ d = None
                      \/ status[d] = "lost"
                      \/ status[d] = "purging" /\ txn[d].version = v

FileOK(v) == v \in bytes =>
  /\ versions[v] = None => FileHeld(status[v], txn[v])
  /\ versions[v] # None => PurgePending(v, versions[v].deletedBy)

ReingestDone(q) ==
  txn[q].op = "reingest" /\ status[q] = "ok" =>
    /\ versions[q] # None
    /\ \E r \in RunIds : runs[r] # None /\ runs[r].by = q
    /\ Ev("uploaded", q, q) \in audit
    /\ \E r \in RunIds : Ev("run.created", r, q) \in audit

RunByAnswered(r) ==
  runs[r] # None =>
    /\ status[runs[r].by] \in {"ok", "invalid"}
    /\ txn[runs[r].by].op = "reingest" => status[runs[r].by] = "ok"

EventByAnswered(e) ==
  /\ status[e.request] \in Replies \cup {"purging"}
  /\ txn[e.request].op = "reingest" /\ e.action \in {"uploaded", "run.created"}
       => status[e.request] = "ok"

TrailInv == /\ \A q \in Requests : OpFits(status[q], txn[q], q)
            /\ \A v \in Requests : FileOK(v)
            /\ \A q \in Requests : ReingestDone(q)
            /\ \A r \in RunIds : RunByAnswered(r)
            /\ \A e \in audit : EventByAnswered(e)
            /\ RejectedRunsListedFailed

LEMMA TrailImplies ==
  ASSUME Inv, TrailInv
  PROVE  StoredBytesAccountedFor /\ FailuresLeaveTheirTrail
<1>1. StoredBytesAccountedFor
  <2> SUFFICES ASSUME NEW v \in bytes
               PROVE  \/ Live(v)
                      \/ InFlight(v)
                      \/ versions[v] = None /\ status[v] = "lost"
                      \/ versions[v] = None /\ status[v] = "error"
                                            /\ txn[v].op = "upload"
                      \/ /\ versions[v] # None
                         /\ status[versions[v].deletedBy] \in {"lost", "purging"}
    BY DEF StoredBytesAccountedFor
  <2>1. v \in Requests /\ FileOK(v)
    BY DEF Inv, TypeOK, TrailInv
  <2> QED BY <2>1 DEF FileOK, FileHeld, PurgePending, Live, InFlight, Working
<1>2. ReingestionAllOrNothing
  <2> SUFFICES ASSUME NEW q \in Requests, txn[q].op = "reingest"
               PROVE  /\ status[q] = "ok" <=> versions[q] # None
                      /\ status[q] = "ok" <=>
                           \E r \in RunIds : runs[r] # None /\ runs[r].by = q
                      /\ status[q] = "ok" <=> Ev("uploaded", q, q) \in audit
                      /\ status[q] = "ok" <=>
                           \E r \in RunIds : Ev("run.created", r, q) \in audit
    BY DEF ReingestionAllOrNothing
  <2>1. ReingestDone(q)
    BY DEF TrailInv
  <2>2. versions[q] # None => status[q] = "ok"
    BY DEF Inv, RowsCommitted
  <2>3. ASSUME NEW r \in RunIds, runs[r] # None, runs[r].by = q
        PROVE  status[q] = "ok"
    BY <2>3 DEF TrailInv, RunByAnswered
  <2>4. ASSUME NEW e \in audit, e.action \in {"uploaded", "run.created"}, e.request = q
        PROVE  status[q] = "ok"
    BY <2>4 DEF TrailInv, EventByAnswered
  <2>5. Ev("uploaded", q, q) \in audit => status[q] = "ok"
    BY <2>4 DEF Ev
  <2>6. ASSUME NEW r \in RunIds, Ev("run.created", r, q) \in audit
        PROVE  status[q] = "ok"
    BY <2>4, <2>6 DEF Ev
  <2> QED BY <2>1, <2>2, <2>3, <2>5, <2>6 DEF ReingestDone
<1> QED BY <1>1, <1>2 DEF FailuresLeaveTheirTrail, TrailInv

-----------------------------------------------------------------------------
(* Steps that touch no table *)

(* A step of one session keeps TrailInv if the session still fits its      *)
(* request, and a purge is not given up without the file being gone.       *)
LEMMA TrailStep ==
  ASSUME Inv, TrailInv, NEW q \in Requests, Alone(q), UNCHANGED tables,
         status[q] \in Stages,
         bytes' \subseteq bytes \cup {q},
         OpFits(status'[q], txn'[q], q),
         q \in bytes' => FileHeld(status'[q], txn'[q]),
         status[q] = "purging" =>
           /\ status'[q] \in Replies
           /\ txn'[q].op # "reingest"
           /\ status'[q] = "lost" \/ txn[q].version \notin bytes',
         txn'[q].op = "reingest" => status'[q] # "ok"
  PROVE  TrailInv'
<1>1. /\ status[q] \notin Replies
      /\ versions[q] = None
  BY OpsAndReplies DEF Inv, RowsCommitted, Replies
<1>2. /\ versions' = versions /\ runs' = runs /\ audit' = audit
      /\ \A p \in Requests \ {q} : status'[p] = status[p] /\ txn'[p] = txn[p]
  BY DEF tables, Alone
<1>3. (\A p \in Requests : OpFits(status[p], txn[p], p))'
  BY <1>2 DEF TrailInv
<1>4. ASSUME NEW v \in Requests PROVE FileOK(v)'
  <2>1. CASE v = q
    BY <1>1, <1>2, <2>1 DEF FileOK
  <2>2. CASE v # q
    <3> SUFFICES ASSUME v \in bytes'
                 PROVE  /\ versions[v] = None => FileHeld(status[v], txn[v])
                        /\ versions[v] # None =>
                             PurgePending(v, versions[v].deletedBy)'
      BY <1>2, <2>2 DEF FileOK
    <3>1. v \in bytes /\ FileOK(v)
      BY <2>2 DEF TrailInv
    <3>2. ASSUME versions[v] # None PROVE PurgePending(v, versions[v].deletedBy)'
      <4>1. /\ versions[v].deletedBy \in Requests \cup {None}
            /\ PurgePending(v, versions[v].deletedBy)
        BY <3>1, <3>2 DEF FileOK, Inv, TypeOK, Version
      <4>2. CASE versions[v].deletedBy = q
        BY <1>1, <1>2, <4>1, <4>2 DEF PurgePending, Replies
      <4>3. CASE versions[v].deletedBy # q
        BY <1>2, <4>1, <4>3 DEF PurgePending
      <4> QED BY <4>2, <4>3
    <3> QED BY <3>1, <3>2 DEF FileOK
  <2> QED BY <2>1, <2>2
<1>5. ASSUME NEW p \in Requests PROVE ReingestDone(p)'
  BY <1>2 DEF TrailInv, ReingestDone
<1>6. ASSUME NEW r \in RunIds PROVE RunByAnswered(r)'
  <2>1. runs[r] # None => runs[r].by \in Requests
    BY DEF Inv, TypeOK, Run
  <2> QED BY <1>1, <1>2, <2>1 DEF TrailInv, RunByAnswered, Replies
<1>7. ASSUME NEW e \in audit PROVE EventByAnswered(e)'
  <2>1. e.request \in Requests
    BY DEF Inv, TypeOK, Event
  <2>2. EventByAnswered(e)
    BY DEF TrailInv
  <2>3. CASE e.request = q
    BY <1>1, <2>2, <2>3 DEF EventByAnswered
  <2>4. CASE e.request # q
    BY <1>2, <2>1, <2>2, <2>4 DEF EventByAnswered
  <2> QED BY <2>3, <2>4
<1>8. RejectedRunsListedFailed'
  BY <1>2 DEF TrailInv, RejectedRunsListedFailed
<1> QED BY <1>2, <1>3, <1>4, <1>5, <1>6, <1>7, <1>8 DEF TrailInv

LEMMA RefuseTrail ==
  ASSUME Inv, TrailInv, NEW q \in Requests, status[q] \in Stages,
         NEW op \in Ops \cup {None}, NEW reply \in Replies, Refuse(q, op, reply),
         status[q] = "purging" => reply = "lost" /\ op # "reingest",
         op = "reingest" => reply # "ok",
         q \in bytes => /\ op \in {"upload", "reingest"}
                        /\ reply = "lost" \/ (reply = "error" /\ op = "upload")
  PROVE  TrailInv'
<1>1. Alone(q) /\ status'[q] = reply /\ txn'[q] = Start(op)
  BY StartType, MovesAlone DEF Inv, Refuse, Finish
<1>2. txn'[q].op = op
  BY <1>1, StartType
<1>3. OpFits(status'[q], txn'[q], q)
  BY <1>1 DEF Replies, Stages, Extracting, OpFits
<1>4. q \in bytes => FileHeld(status'[q], txn'[q])
  BY <1>1, <1>2 DEF FileHeld
<1>5. UNCHANGED tables /\ bytes' = bytes
  BY DEF Refuse
<1> QED BY <1>1, <1>2, <1>3, <1>4, <1>5, TrailStep

(* A request that has written no file has none. *)
LEMMA NoFileYet ==
  ASSUME Inv, TrailInv, NEW q \in Requests, status[q] \in Stages,
         status[q] = "idle" \/ txn[q].op \notin {"upload", "reingest"}
  PROVE  q \notin bytes
<1>1. versions[q] = None
  BY OpsAndReplies DEF Inv, RowsCommitted, Replies
<1> QED BY <1>1 DEF TrailInv, FileOK, FileHeld, Working, Stages

LEMMA UploadTrail ==
  ASSUME Inv, TrailInv, NEW q \in Requests, NEW retention \in 0..Horizon,
         Upload(q, retention)
  PROVE  TrailInv'
<1> DEFINE t == [Start("upload") EXCEPT !.version = q, !.retention = retention,
                                        !.writes = {"version"},
                                        !.events = {Ev("uploaded", q, q)}]
<1>1. status[q] = "idle" /\ status[q] \in Stages /\ q \notin bytes
  BY NoFileYet DEF Upload, Stages
<1>2. CASE Refuse(q, "upload", "invalid")
  BY <1>1, <1>2, RefuseTrail, OpsAndReplies
<1>3. CASE bytes' = bytes \cup {q} /\ Moves(q, "loaded", t) /\ UNCHANGED <<tables, now>>
  <2>1. {Ev("uploaded", q, q)} \in SUBSET Event
    BY DEF Ev, Event
  <2>2. /\ t \in Txn
        /\ t.op = "upload" /\ t.writes = {"version"}
        /\ t.events = {Ev("uploaded", q, q)}
    <3>1. Start("upload") \in Txn /\ Start("upload").op = "upload"
      BY StartType, OpsAndReplies
    <3> QED BY <2>1, <3>1 DEF Txn
  <2> HIDE DEF t
  <2>3. Alone(q) /\ status'[q] = "loaded" /\ txn'[q] = t
    BY <1>3, <2>2, MovesAlone DEF Inv, Stages
  <2>4. OpFits(status'[q], txn'[q], q)
    BY <2>2, <2>3 DEF OpFits, Extracting, Ev
  <2>5. FileHeld(status'[q], txn'[q])
    BY <2>2, <2>3 DEF FileHeld, Working, Stages
  <2> QED BY <1>1, <1>3, <2>2, <2>3, <2>4, <2>5, TrailStep
<1>4. CASE bytes' = bytes \cup {q} /\ Finish(q, "upload", "error")
           /\ UNCHANGED <<tables, now>>
  <2>1. Alone(q) /\ status'[q] = "error" /\ txn'[q] = Start("upload")
    BY <1>4, StartType, MovesAlone, OpsAndReplies DEF Inv, Finish
  <2>2. txn'[q].op = "upload"
    BY <2>1, StartType, OpsAndReplies
  <2>3. OpFits(status'[q], txn'[q], q)
    BY <2>1 DEF OpFits, Extracting, Stages
  <2>4. FileHeld(status'[q], txn'[q])
    BY <2>1, <2>2 DEF FileHeld
  <2> QED BY <1>1, <1>4, <2>1, <2>2, <2>3, <2>4, TrailStep
<1> QED BY <1>2, <1>3, <1>4 DEF Upload

LEMMA DownloadTrail ==
  ASSUME Inv, TrailInv, NEW q \in Requests, NEW v \in Requests, Download(q, v)
  PROVE  TrailInv'
<1> DEFINE t == [Start("download") EXCEPT !.version = v]
<1>1. status[q] = "idle" /\ status[q] \in Stages /\ q \notin bytes
  BY NoFileYet DEF Download, Stages
<1>2. CASE \E reply \in {"not_found", "gone"} : Refuse(q, "download", reply)
  BY <1>1, <1>2, RefuseTrail, OpsAndReplies
<1>3. CASE Moves(q, "reading", t) /\ UNCHANGED <<tables, bytes, now>>
  <2>1. t \in Txn /\ t.op = "download" /\ t.events = {}
    <3>1. /\ Start("download") \in Txn
          /\ Start("download").op = "download"
          /\ Start("download").events = {}
      BY StartType, OpsAndReplies
    <3> QED BY <3>1 DEF Txn
  <2> HIDE DEF t
  <2>2. Alone(q) /\ status'[q] = "reading" /\ txn'[q] = t
    BY <1>3, <2>1, MovesAlone DEF Inv, Stages
  <2>3. OpFits(status'[q], txn'[q], q)
    BY <2>1, <2>2 DEF OpFits, Extracting
  <2> QED BY <1>1, <1>3, <2>1, <2>2, <2>3, TrailStep
<1> QED BY <1>2, <1>3 DEF Download

LEMMA ReadBytesTrail ==
  ASSUME Inv, TrailInv, NEW q \in Requests, ReadBytes(q)
  PROVE  TrailInv'
<1> DEFINE t == [txn[q] EXCEPT !.events = {Ev("accessed", txn[q].version, q)}]
<1>1. status[q] = "reading" /\ status[q] \in Stages
  BY DEF ReadBytes, Stages
<1>2. /\ txn[q] \in Txn
      /\ txn[q].version \in Requests /\ txn[q].writes = {}
      /\ txn[q].op = "download"
  BY <1>1 DEF Inv, TypeOK, SessionOK, TrailInv, OpFits
<1>3. q \notin bytes
  BY <1>1, <1>2, NoFileYet
<1>4. CASE Refuse(q, "download", "error")
  BY <1>1, <1>3, <1>4, RefuseTrail, OpsAndReplies
<1>5. CASE Moves(q, "loaded", t) /\ UNCHANGED <<tables, bytes, now>>
  <2>1. /\ t \in Txn
        /\ t.op = "download" /\ t.writes = {}
        /\ t.events = {Ev("accessed", txn[q].version, q)}
    <3>1. {Ev("accessed", txn[q].version, q)} \in SUBSET Event
      BY <1>2 DEF Ev, Event
    <3> QED BY <1>2, <3>1 DEF Txn
  <2> HIDE DEF t
  <2>2. Alone(q) /\ status'[q] = "loaded" /\ txn'[q] = t
    BY <1>5, <2>1, MovesAlone DEF Inv, Stages
  <2>3. OpFits(status'[q], txn'[q], q)
    BY <2>1, <2>2 DEF OpFits, Extracting, Ev
  <2> QED BY <1>1, <1>3, <1>5, <2>1, <2>2, <2>3, TrailStep
<1> QED BY <1>4, <1>5 DEF ReadBytes

LEMMA DeleteTrail ==
  ASSUME Inv, TrailInv, NEW q \in Requests, NEW v \in Requests, Delete(q, v)
  PROVE  TrailInv'
<1> DEFINE t == Tombstoning(q, v)
<1>1. status[q] = "idle" /\ status[q] \in Stages /\ q \notin bytes
  BY NoFileYet DEF Delete, Stages
<1>2. CASE \E reply \in {"not_found", "conflict"} : Refuse(q, "delete", reply)
  BY <1>1, <1>2, RefuseTrail, OpsAndReplies
<1>3. CASE Moves(q, "loaded", t) /\ UNCHANGED <<tables, bytes, now>>
  <2>1. {Ev("deleted", v, q)} \in SUBSET Event
    BY DEF Ev, Event
  <2>2. /\ t \in Txn
        /\ t.op = "delete" /\ t.writes = {"tombstone"}
        /\ t.events = {Ev("deleted", v, q)}
    <3>1. Start("delete") \in Txn /\ Start("delete").op = "delete"
      BY StartType, OpsAndReplies
    <3> QED BY <2>1, <3>1 DEF Txn, Tombstoning
  <2> HIDE DEF t
  <2>3. Alone(q) /\ status'[q] = "loaded" /\ txn'[q] = t
    BY <1>3, <2>2, MovesAlone DEF Inv, Stages
  <2>4. OpFits(status'[q], txn'[q], q)
    BY <2>2, <2>3 DEF OpFits, Extracting, Ev
  <2> QED BY <1>1, <1>3, <2>2, <2>3, <2>4, TrailStep
<1> QED BY <1>2, <1>3 DEF Delete

(* The purge is answered only when the file is gone. *)
LEMMA PurgeTrail ==
  ASSUME Inv, TrailInv, NEW q \in Requests, Purge(q)
  PROVE  TrailInv'
<1>1. /\ status[q] = "purging" /\ status[q] \in Stages
      /\ txn[q].op = "delete"
  BY DEF Purge, Stages, TrailInv, OpFits
<1>2. q \notin bytes
  BY <1>1, NoFileYet
<1>3. Alone(q) /\ status'[q] = "ok" /\ txn'[q] = Start("delete")
  BY StartType, MovesAlone, OpsAndReplies DEF Purge, Finish, Inv
<1>4. txn'[q].op = "delete"
  BY <1>3, StartType, OpsAndReplies
<1>5. OpFits(status'[q], txn'[q], q)
  BY <1>3 DEF OpFits, Extracting, Stages
<1>6. UNCHANGED tables /\ bytes' = bytes \ {txn[q].version}
  BY DEF Purge
<1> QED BY <1>1, <1>2, <1>3, <1>4, <1>5, <1>6, TrailStep, OpsAndReplies

LEMMA ExtractTrail ==
  ASSUME Inv, TrailInv, NEW q \in Requests, NEW v \in Requests, NEW r \in RunIds,
         Extract(q, v, r)
  PROVE  TrailInv'
<1> DEFINE t == [Start("extract") EXCEPT !.version = v, !.run = r]
<1>1. status[q] = "idle" /\ status[q] \in Stages /\ q \notin bytes
  BY NoFileYet DEF Extract, Stages
<1>2. CASE \E reply \in {"not_found", "gone", "invalid", "conflict"} :
             Refuse(q, "extract", reply)
  BY <1>1, <1>2, RefuseTrail, OpsAndReplies
<1>3. CASE Moves(q, "inserting", t) /\ UNCHANGED <<tables, bytes, now>>
  <2>1. t \in Txn /\ t.op = "extract" /\ t.events = {}
    <3>1. /\ Start("extract") \in Txn
          /\ Start("extract").op = "extract"
          /\ Start("extract").events = {}
      BY StartType, OpsAndReplies
    <3> QED BY <3>1 DEF Txn
  <2> HIDE DEF t
  <2>2. Alone(q) /\ status'[q] = "inserting" /\ txn'[q] = t
    BY <1>3, <2>1, MovesAlone DEF Inv, Stages
  <2>3. OpFits(status'[q], txn'[q], q)
    BY <2>1, <2>2 DEF OpFits, Extracting
  <2> QED BY <1>1, <1>3, <2>1, <2>2, <2>3, TrailStep
<1> QED BY <1>2, <1>3 DEF Extract

LEMMA ReingestTrail ==
  ASSUME Inv, TrailInv, NEW q \in Requests, NEW r \in RunIds, Reingest(q, r)
  PROVE  TrailInv'
<1> DEFINE t == [Start("reingest") EXCEPT !.version = q, !.run = r,
                                          !.writes = {"version"}]
<1>1. status[q] = "idle" /\ status[q] \in Stages /\ q \notin bytes
  BY NoFileYet DEF Reingest, Stages
<1>2. CASE Refuse(q, "reingest", "invalid")
  BY <1>1, <1>2, RefuseTrail, OpsAndReplies
<1>3. CASE bytes' = bytes \cup {q} /\ Moves(q, "stored", t) /\ UNCHANGED <<tables, now>>
  <2>1. /\ t \in Txn
        /\ t.op = "reingest" /\ t.writes = {"version"} /\ t.events = {}
    <3>1. /\ Start("reingest") \in Txn
          /\ Start("reingest").op = "reingest"
          /\ Start("reingest").events = {}
      BY StartType, OpsAndReplies
    <3> QED BY <3>1 DEF Txn
  <2> HIDE DEF t
  <2>2. Alone(q) /\ status'[q] = "stored" /\ txn'[q] = t
    BY <1>3, <2>1, MovesAlone DEF Inv, Stages
  <2>3. OpFits(status'[q], txn'[q], q)
    BY <2>1, <2>2 DEF OpFits, Extracting
  <2>4. FileHeld(status'[q], txn'[q])
    BY <2>1, <2>2 DEF FileHeld, Working, Stages
  <2> QED BY <1>1, <1>3, <2>1, <2>2, <2>3, <2>4, TrailStep
<1> QED BY <1>2, <1>3 DEF Reingest

(* An extraction or re-ingestion at work: its file, if it has one. *)
LEMMA ExtractingTrail ==
  ASSUME Inv, TrailInv, NEW q \in Requests, status[q] \in Extracting
  PROVE  /\ status[q] \in Stages
         /\ status[q] # "purging"
         /\ q \in bytes => txn[q].op = "reingest"
         /\ txn[q].op = "reingest" => "version" \in txn[q].writes
         /\ status[q] = "extracting" => "run" \in txn[q].writes
<1>1. status[q] \in Stages /\ status[q] # "purging"
  BY DEF Extracting, Stages
<1>2. txn[q].op \in {"extract", "reingest"}
  BY ExtractingSession
<1> QED BY <1>1, <1>2, NoFileYet DEF TrailInv, OpFits

(* A re-ingestion that is abandoned keeps at most its failure event. *)
LEMMA AbandonTrail ==
  ASSUME Inv, TrailInv, NEW q \in Requests, status[q] \in Extracting,
         NEW reply \in Replies, reply # "ok", NEW events \in SUBSET Event,
         events \subseteq FailureEvents(q),
         Abandon(q, reply, events)
  PROVE  TrailInv'
<1> DEFINE t == [RolledBack(txn[q]) EXCEPT !.reply = reply, !.events = events]
<1>1. PICK op \in Ops \cup {None} : op = txn[q].op
  BY ExtractingSession DEF Txn
<1>2. CASE txn[q].op # "reingest"
  <2>1. Refuse(q, op, reply)
    BY <1>1, <1>2 DEF Abandon, Refuse, Finish
  <2> QED BY <1>1, <1>2, <2>1, RefuseTrail, ExtractingTrail
<1>3. CASE txn[q].op = "reingest"
  <2>1. Moves(q, "cleaning", t) /\ UNCHANGED <<tables, bytes, now>>
    BY <1>3 DEF Abandon
  <2>2. /\ t \in Txn
        /\ t.op = "reingest" /\ t.run = txn[q].run
        /\ t.writes = {} /\ t.events = events /\ t.reply = reply
    <3>1. /\ RolledBack(txn[q]) \in Txn
          /\ RolledBack(txn[q]).op = "reingest"
          /\ RolledBack(txn[q]).run = txn[q].run
          /\ RolledBack(txn[q]).writes = {}
      BY <1>3, ExtractingSession DEF RolledBack, Txn
    <3> QED BY <3>1 DEF Txn
  <2> HIDE DEF t
  <2>3. Alone(q) /\ status'[q] = "cleaning" /\ txn'[q] = t
    BY <2>1, <2>2, MovesAlone DEF Inv, Stages
  <2>4. Failed(t, q)
    BY <2>2 DEF Failed, FailureEvents
  <2>5. OpFits(status'[q], txn'[q], q)
    BY <2>2, <2>3, <2>4 DEF OpFits, Failed, Extracting, Ev
  <2>6. FileHeld(status'[q], txn'[q])
    BY <2>2, <2>3 DEF FileHeld, Working, Stages
  <2> QED BY <2>1, <2>2, <2>3, <2>5, <2>6, TrailStep, ExtractingTrail
<1> QED BY <1>2, <1>3

LEMMA LoadContextTrail ==
  ASSUME Inv, TrailInv, NEW q \in Requests, LoadContext(q)
  PROVE  TrailInv'
<1>1. status[q] = "stored" /\ status[q] \in Extracting
  BY DEF LoadContext, Extracting
<1>2. CASE Abandon(q, "invalid", {}) \/ Abandon(q, "conflict", {})
  BY <1>1, <1>2, AbandonTrail, OpsAndReplies
<1>3. CASE Moves(q, "inserting", txn[q]) /\ UNCHANGED <<tables, bytes, now>>
  <2>1. PICK t \in Txn : t = txn[q]
    BY <1>1, ExtractingSession
  <2>2. Moves(q, "inserting", t)
    BY <1>3, <2>1 DEF Moves
  <2>3. Alone(q) /\ status'[q] = "inserting" /\ txn'[q] = t
    BY <2>2, MovesAlone DEF Inv, Stages
  <2>4. /\ t.events = {}
        /\ t.op = "reingest" /\ "version" \in t.writes
    BY <1>1, <2>1, ExtractingSession, ExtractingTrail DEF TrailInv, OpFits
  <2>5. OpFits(status'[q], txn'[q], q)
    BY <2>3, <2>4 DEF OpFits
  <2>6. FileHeld(status'[q], txn'[q])
    BY <2>3, <2>4 DEF FileHeld, Working, Stages
  <2> QED BY <1>1, <1>3, <2>3, <2>5, <2>6, TrailStep, ExtractingTrail
<1> QED BY <1>2, <1>3 DEF LoadContext

LEMMA InsertRunTrail ==
  ASSUME Inv, TrailInv, NEW q \in Requests, InsertRun(q)
  PROVE  TrailInv'
<1> DEFINE t == [txn[q] EXCEPT !.writes = @ \cup {"run"}]
<1>1. status[q] = "inserting" /\ status[q] \in Extracting
  BY DEF InsertRun, Extracting
<1>2. CASE Abandon(q, "error", {})
  BY <1>1, <1>2, AbandonTrail, OpsAndReplies
<1>3. CASE Moves(q, "extracting", t) /\ UNCHANGED <<tables, bytes, now>>
  <2>1. /\ t \in Txn
        /\ t.writes = txn[q].writes \cup {"run"}
        /\ t.op = txn[q].op /\ t.events = {}
    BY <1>1, ExtractingSession DEF Txn
  <2> HIDE DEF t
  <2>2. PICK u \in Txn : u = t
    BY <2>1
  <2>3. Moves(q, "extracting", u)
    BY <1>3, <2>2 DEF Moves
  <2>4. Alone(q) /\ status'[q] = "extracting" /\ txn'[q] = u
    BY <2>3, MovesAlone DEF Inv, Stages
  <2>5. OpFits(status'[q], txn'[q], q)
    BY <1>1, <2>1, <2>2, <2>4, ExtractingTrail DEF OpFits
  <2>6. q \in bytes => FileHeld(status'[q], txn'[q])
    BY <1>1, <2>1, <2>2, <2>4, ExtractingTrail DEF FileHeld, Working, Stages
  <2> QED BY <1>1, <1>3, <2>4, <2>5, <2>6, TrailStep, ExtractingTrail
<1> QED BY <1>2, <1>3 DEF InsertRun

(* The output was accepted, or rejected and the failure event is kept. *)
LEMMA LLMAnswersTrail ==
  ASSUME Inv, TrailInv, NEW q \in Requests, LLMAnswers(q)
  PROVE  TrailInv'
<1>1. status[q] = "extracting" /\ status[q] \in Extracting
  BY DEF LLMAnswers, Extracting
<1>2. /\ txn[q] \in Txn
      /\ txn[q].reply = "ok"
      /\ txn[q].op \in {"extract", "reingest"}
      /\ txn[q].run \in RunIds
      /\ "tombstone" \notin txn[q].writes
      /\ "run" \in txn[q].writes
      /\ txn[q].op = "reingest" => "version" \in txn[q].writes
      /\ q \in bytes => txn[q].op = "reingest"
      /\ FailureEvents(q) \in SUBSET Event
      /\ SuccessEvents(q) \in SUBSET Event
  BY <1>1, ExtractingSession, ExtractingTrail, EventTypes
<1>3. CASE /\ Moves(q, "loaded", [txn[q] EXCEPT !.completed = TRUE,
                                               !.events = SuccessEvents(q)])
           /\ UNCHANGED <<tables, bytes, now>>
  <2>1. PICK events \in SUBSET Event : events = SuccessEvents(q)
    BY <1>2
  <2>2. PICK t \in Txn : t = [txn[q] EXCEPT !.completed = TRUE, !.events = events]
    BY <1>2 DEF Txn
  <2>3. /\ t.completed /\ t.events = events
        /\ t.reply = "ok" /\ t.op = txn[q].op /\ t.run = txn[q].run
        /\ t.writes = txn[q].writes
    BY <1>2, <2>2 DEF Txn
  <2>4. Moves(q, "loaded", t)
    BY <1>3, <2>1, <2>2
  <2>5. Alone(q) /\ status'[q] = "loaded" /\ txn'[q] = t
    BY <2>4, MovesAlone DEF Inv, Stages
  <2>6. txn[q].op = "reingest" => Done(t, q)
    <3> SUFFICES ASSUME txn[q].op = "reingest" PROVE Done(t, q)
      OBVIOUS
    <3>1. t.writes = {"version", "run"}
      BY <1>2, <2>3 DEF Txn
    <3>2. events = {Ev("run.created", txn[q].run, q), Ev("uploaded", q, q)}
      BY <2>1 DEF SuccessEvents
    <3> QED BY <2>3, <3>1, <3>2 DEF Done
  <2>7. \A e \in events : e.request = q
    BY <2>1 DEF SuccessEvents, Ev
  <2>8. OpFits(status'[q], txn'[q], q)
    BY <1>2, <2>3, <2>5, <2>6, <2>7 DEF OpFits, Extracting
  <2>9. q \in bytes => FileHeld(status'[q], txn'[q])
    BY <1>2, <2>3, <2>5 DEF FileHeld, Working, Stages
  <2> QED BY <1>1, <1>3, <2>5, <2>8, <2>9, TrailStep, ExtractingTrail
<1>4. CASE /\ txn[q].op # "reingest"
           /\ Moves(q, "loaded", [txn[q] EXCEPT !.events = FailureEvents(q),
                                               !.reply = "invalid"])
           /\ UNCHANGED <<tables, bytes, now>>
  <2>1. PICK events \in SUBSET Event : events = FailureEvents(q)
    BY <1>2
  <2>2. PICK t \in Txn : t = [txn[q] EXCEPT !.events = events, !.reply = "invalid"]
    BY <1>2 DEF Txn, Replies
  <2>3. /\ t.events = events /\ t.reply = "invalid"
        /\ t.op = txn[q].op /\ t.run = txn[q].run
        /\ t.writes = txn[q].writes
    BY <1>2, <2>2 DEF Txn
  <2>4. Moves(q, "loaded", t)
    BY <1>4, <2>1, <2>2
  <2>5. Alone(q) /\ status'[q] = "loaded" /\ txn'[q] = t
    BY <2>4, MovesAlone DEF Inv, Stages
  <2>6. /\ Ev("run.failed", t.run, q) \in events
        /\ \A e \in events : e.request = q
    BY <2>1, <2>3 DEF FailureEvents, Ev
  <2>7. OpFits(status'[q], txn'[q], q)
    BY <1>2, <1>4, <2>3, <2>5, <2>6 DEF OpFits, Extracting
  <2> QED BY <1>1, <1>2, <1>4, <2>5, <2>7, TrailStep, ExtractingTrail
<1>5. CASE Abandon(q, "invalid", FailureEvents(q))
  <2>1. PICK events \in SUBSET Event : events = FailureEvents(q)
    BY <1>2
  <2>2. Abandon(q, "invalid", events)
    BY <1>5, <2>1 DEF Abandon
  <2> QED BY <1>1, <2>1, <2>2, AbandonTrail, OpsAndReplies
<1>6. CASE Abandon(q, "error", {})
  BY <1>1, <1>6, AbandonTrail, OpsAndReplies
<1>7. CASE /\ txn[q].op # "reingest"
           /\ Moves(q, "failing", txn[q])
           /\ UNCHANGED <<tables, bytes, now>>
  <2>1. PICK t \in Txn : t = txn[q]
    BY <1>2
  <2>2. Moves(q, "failing", t)
    BY <1>7, <2>1 DEF Moves
  <2>3. Alone(q) /\ status'[q] = "failing" /\ txn'[q] = t
    BY <2>2, MovesAlone DEF Inv, Stages
  <2>4. t.events = {} /\ t.op = "extract"
    BY <1>1, <1>2, <1>7, <2>1, ExtractingSession
  <2>5. OpFits(status'[q], txn'[q], q)
    BY <2>3, <2>4 DEF OpFits, Extracting
  <2> QED BY <1>1, <1>2, <1>7, <2>3, <2>4, <2>5, TrailStep, ExtractingTrail
<1> QED BY <1>3, <1>4, <1>5, <1>6, <1>7 DEF LLMAnswers

(* A plain extraction has no file of its own. *)
LEMMA TeardownTrail ==
  ASSUME Inv, TrailInv, NEW q \in Requests, Teardown(q)
  PROVE  TrailInv'
<1>1. /\ status[q] = "failing" /\ status[q] \in Stages
      /\ txn[q].op = "extract"
  BY DEF Teardown, Stages, Inv, SessionOK
<1>2. q \notin bytes
  BY <1>1, NoFileYet
<1> QED BY <1>1, <1>2, RefuseTrail, OpsAndReplies DEF Teardown

(* A failed re-ingestion is answered only when its file is gone. *)
LEMMA CleanTrail ==
  ASSUME Inv, TrailInv, NEW q \in Requests, Clean(q)
  PROVE  TrailInv'
<1>1. /\ status[q] = "cleaning" /\ status[q] \in Stages
      /\ txn[q] \in Txn /\ txn[q].version = q
      /\ txn[q].op = "reingest" /\ Failed(txn[q], q)
      /\ \A e \in txn[q].events : e.request = q
  BY DEF Clean, Stages, Inv, TypeOK, SessionOK, TrailInv, OpFits
<1>2. bytes' = bytes \ {q} /\ UNCHANGED tables
  BY <1>1 DEF Clean
<1>3. CASE Finish(q, "reingest", txn[q].reply)
  <2>1. PICK reply \in Replies : reply = txn[q].reply
    BY <1>1 DEF Txn
  <2>2. Moves(q, reply, Start("reingest"))
    BY <1>3, <2>1 DEF Finish, Moves
  <2>3. Alone(q) /\ status'[q] = reply /\ txn'[q] = Start("reingest")
    BY <2>2, StartType, MovesAlone, OpsAndReplies DEF Inv
  <2>4. OpFits(status'[q], txn'[q], q)
    BY <2>3 DEF OpFits, Extracting, Stages, Replies
  <2>5. reply # "ok"
    BY <1>1, <2>1 DEF Failed
  <2> QED BY <1>1, <1>2, <2>3, <2>4, <2>5, TrailStep
<1>4. CASE Moves(q, "loaded", txn[q])
  <2>1. PICK t \in Txn : t = txn[q]
    BY <1>1
  <2>2. Moves(q, "loaded", t)
    BY <1>4, <2>1 DEF Moves
  <2>3. Alone(q) /\ status'[q] = "loaded" /\ txn'[q] = t
    BY <2>2, MovesAlone DEF Inv, Stages
  <2>4. t.writes = {}
    BY <1>1, <2>1 DEF Failed
  <2>5. OpFits(status'[q], txn'[q], q)
    BY <1>1, <2>1, <2>3, <2>4 DEF OpFits, Extracting
  <2> QED BY <1>1, <1>2, <2>3, <2>5, TrailStep
<1> QED BY <1>3, <1>4 DEF Clean

(* What a crash leaves in object storage is accounted to the request lost. *)
LEMMA LoseTrail ==
  ASSUME Inv, TrailInv, NEW q \in Requests, Lose(q)
  PROVE  TrailInv'
<1>1. PICK op \in Ops \cup {None} : op = txn[q].op
  BY DEF Inv, TypeOK, Txn
<1>2. Refuse(q, op, "lost") /\ status[q] \in Stages
  BY <1>1 DEF Lose, Refuse, Finish
<1>3. q \in bytes => op \in {"upload", "reingest"}
  BY <1>1, <1>2, NoFileYet
<1>4. status[q] = "purging" => op # "reingest"
  BY <1>1 DEF TrailInv, OpFits
<1> QED BY <1>2, <1>3, <1>4, RefuseTrail, OpsAndReplies

-----------------------------------------------------------------------------
(* Commit *)

LEMMA CommitTrail ==
  ASSUME Inv, TrailInv, NEW q \in Requests, Commit(q)
  PROVE  TrailInv'
<1>1. /\ status[q] = "loaded" /\ status[q] \in Stages
      /\ status[q] \notin Replies
      /\ txn[q] \in Txn
      /\ SessionOK(status[q], txn[q], q)
      /\ SessionFits(status[q], txn[q], q)
      /\ OpFits(status[q], txn[q], q)
      /\ audit' = audit \cup txn[q].events
      /\ bytes' = bytes
      /\ versions[q] = None
  BY OpsAndReplies DEF Inv, TypeOK, TrailInv, Commit, RowsCommitted, Stages
<1>2. /\ \A v \in Requests : Kept(q, v) \/ Stored(q, v) \/ Tombstoned(q, v)
      /\ \A p \in Requests \ {q} : status'[p] = status[p] /\ txn'[p] = txn[p]
  BY CommittedVersion, CommitSession DEF Alone
<1>3. "version" \in txn[q].writes =>
        versions'[q] # None /\ versions'[q].deletedBy = None
  <2> SUFFICES ASSUME "version" \in txn[q].writes
               PROVE  versions'[q] # None /\ versions'[q].deletedBy = None
    OBVIOUS
  <2>1. versions'[q] = NewVersion(txn[q])
    BY <1>1 DEF Commit, SessionOK
  <2>2. NewVersion(txn[q]) \in Version
    BY <1>1 DEF NewVersion, Version, Txn
  <2> QED BY <2>1, <2>2, DocumentAssumption DEF NewVersion
<1>4. runs' = [r \in RunIds |->
                 IF r = txn[q].run /\ "run" \in txn[q].writes
                 THEN [version |-> txn[q].version, by |-> q,
                       completed |-> txn[q].completed]
                 ELSE runs[r]]
  BY DEF Commit
<1>5. /\ txn'[q].op = txn[q].op
      /\ "tombstone" \in txn[q].writes =>
           /\ status'[q] = "purging"
           /\ txn'[q].version = txn[q].version
           /\ txn'[q].events = {}
      /\ "tombstone" \notin txn[q].writes =>
           status'[q] = txn[q].reply /\ txn[q].reply \in Replies
  <2>1. CASE "tombstone" \in txn[q].writes
    <3>1. Moves(q, "purging", [txn[q] EXCEPT !.writes = {}, !.events = {}])
      BY <2>1 DEF Commit, AfterCommit
    <3>2. PICK t \in Txn : t = [txn[q] EXCEPT !.writes = {}, !.events = {}]
      BY <1>1 DEF Txn
    <3>3. t.events = {} /\ t.version = txn[q].version /\ t.op = txn[q].op
      BY <1>1, <3>2 DEF Txn
    <3>4. Moves(q, "purging", t)
      BY <3>1, <3>2
    <3>5. status'[q] = "purging" /\ txn'[q] = t
      BY <3>4, MovesAlone DEF Inv, Stages
    <3> QED BY <2>1, <3>3, <3>5
  <2>2. CASE "tombstone" \notin txn[q].writes
    <3>1. PICK reply \in Replies : reply = txn[q].reply
      BY <1>1 DEF Txn
    <3>2. PICK op \in Ops \cup {None} : op = txn[q].op
      BY <1>1 DEF Txn
    <3>3. Moves(q, reply, Start(op))
      BY <2>2, <3>1, <3>2 DEF Commit, AfterCommit, Finish, Moves, Replies
    <3>4. status'[q] = reply /\ txn'[q] = Start(op)
      BY <3>3, StartType, MovesAlone DEF Inv
    <3> QED BY <2>2, <3>1, <3>2, <3>4, StartType
  <2> QED BY <2>1, <2>2
<1>6. status'[q] \in Replies \cup {"purging"}
  BY <1>5
<1>7. txn[q].op = "reingest" =>
        \/ Done(txn[q], q) /\ status'[q] = "ok"
        \/ Failed(txn[q], q) /\ status'[q] # "ok"
  BY <1>1, <1>5 DEF OpFits, Done, Failed
<1>8. ASSUME NEW p \in Requests PROVE OpFits(status[p], txn[p], p)'
  <2>1. CASE p = q
    BY <1>1, <1>5, <2>1 DEF OpFits, Extracting, Stages, Replies
  <2>2. CASE p # q
    BY <1>2, <2>2 DEF TrailInv
  <2> QED BY <2>1, <2>2
<1>9. ASSUME NEW v \in Requests PROVE FileOK(v)'
  <2> SUFFICES ASSUME v \in bytes
               PROVE  /\ versions'[v] = None => FileHeld(status'[v], txn'[v])
                      /\ versions'[v] # None =>
                           PurgePending(v, versions[v].deletedBy)'
    BY <1>1 DEF FileOK
  <2>1. FileOK(v)
    BY DEF TrailInv
  <2>2. CASE v = q
    <3>1. "version" \in txn[q].writes
      BY <1>1, <2>1, <2>2 DEF FileOK, FileHeld, Working
    <3> QED BY <1>3, <2>2, <3>1 DEF PurgePending
  <2>3. CASE v # q /\ Tombstoned(q, v)
    <3>1. versions'[v] # None /\ versions'[v].deletedBy = q
      BY <2>3 DEF Tombstoned
    <3>2. status'[q] = "purging" /\ txn'[q].version = v
      BY <1>5, <2>3 DEF Tombstoned
    <3> QED BY <3>1, <3>2 DEF PurgePending
  <2>4. CASE v # q /\ Kept(q, v)
    <3>1. versions'[v] = versions[v]
      BY <2>4 DEF Kept
    <3>2. CASE versions[v] = None
      BY <1>2, <2>1, <2>4, <3>1, <3>2 DEF FileOK
    <3>3. CASE versions[v] # None
      <4>1. /\ versions[v].deletedBy \in Requests \cup {None}
            /\ PurgePending(v, versions[v].deletedBy)
        BY <2>1, <3>3 DEF FileOK, Inv, TypeOK, Version
      <4>2. versions[v].deletedBy # q \/ q = None
        BY <1>1, <4>1 DEF PurgePending
      <4>3. PurgePending(v, versions[v].deletedBy)'
        BY <1>2, <3>1, <4>1, <4>2 DEF PurgePending
      <4> QED BY <3>1, <3>3, <4>3
    <3> QED BY <3>2, <3>3
  <2> QED BY <1>2, <2>2, <2>3, <2>4 DEF Stored
<1>10. ASSUME NEW r \in RunIds, runs[r] # None PROVE runs'[r] = runs[r]
  BY <1>1, <1>4, <1>10 DEF SessionFits
<1>11. ASSUME NEW p \in Requests PROVE ReingestDone(p)'
  <2>1. CASE p # q
    <3>1. versions[p] # None => versions'[p] # None
      BY <1>2 DEF Kept, Stored, Tombstoned
    <3> QED BY <1>1, <1>2, <1>10, <2>1, <3>1 DEF TrailInv, ReingestDone
  <2>2. CASE p = q /\ txn[q].op = "reingest" /\ Done(txn[q], q)
    <3>1. versions'[q] # None
      BY <1>3, <2>2 DEF Done
    <3>2. /\ txn[q].run \in RunIds
          /\ runs'[txn[q].run] = [version |-> txn[q].version, by |-> q,
                                  completed |-> txn[q].completed]
      BY <1>1, <1>4, <2>2 DEF Done, SessionOK
    <3>3. runs'[txn[q].run] \in Run
      BY <1>1, <2>2, <3>2 DEF Run, Txn, Done, SessionOK
    <3>4. runs'[txn[q].run] # None /\ runs'[txn[q].run].by = q
      BY <3>2, <3>3, DocumentAssumption
    <3>5. /\ Ev("uploaded", q, q) \in audit'
          /\ Ev("run.created", txn[q].run, q) \in audit'
      BY <1>1, <2>2 DEF Done
    <3> QED BY <2>2, <3>1, <3>2, <3>4, <3>5 DEF ReingestDone
  <2> QED BY <1>5, <1>7, <2>1, <2>2 DEF ReingestDone
<1>12. ASSUME NEW r \in RunIds PROVE RunByAnswered(r)'
  <2>1. CASE r = txn[q].run /\ "run" \in txn[q].writes
    <3>1. runs'[r].by = q
      BY <1>4, <2>1
    <3>2. "tombstone" \notin txn[q].writes
      BY <1>1, <2>1 DEF SessionOK
    <3>3. status'[q] \in {"ok", "invalid"}
      BY <1>1, <1>5, <2>1, <3>2 DEF OpFits
    <3>4. txn[q].op = "reingest" => status'[q] = "ok"
      BY <1>7, <2>1 DEF Failed
    <3> QED BY <1>5, <3>1, <3>3, <3>4 DEF RunByAnswered
  <2>2. CASE ~(r = txn[q].run /\ "run" \in txn[q].writes)
    <3>1. runs'[r] = runs[r]
      BY <1>4, <2>2
    <3>2. runs[r] # None => runs[r].by \in Requests
      BY DEF Inv, TypeOK, Run
    <3> QED BY <1>1, <1>2, <3>1, <3>2 DEF TrailInv, RunByAnswered
  <2> QED BY <2>1, <2>2
<1>13. ASSUME NEW e \in audit' PROVE EventByAnswered(e)'
  <2>1. CASE e \in audit
    <3>1. e.request \in Requests /\ EventByAnswered(e)
      BY <2>1 DEF Inv, TypeOK, Event, TrailInv
    <3>2. e.request # q
      BY <1>1, <3>1 DEF EventByAnswered
    <3> QED BY <1>2, <3>1, <3>2 DEF EventByAnswered
  <2>2. CASE e \in txn[q].events
    <3>1. e.request = q
      BY <1>1, <2>2 DEF OpFits
    <3>2. ASSUME Failed(txn[q], q) PROVE e.action \notin {"uploaded", "run.created"}
      BY <2>2, <3>2 DEF Failed, Ev
    <3> QED BY <1>5, <1>6, <1>7, <3>1, <3>2 DEF EventByAnswered
  <2> QED BY <1>1, <2>1, <2>2
<1>14. RejectedRunsListedFailed'
  <2> SUFFICES ASSUME NEW r \in RunIds, runs'[r] # None, ~runs'[r].completed
               PROVE  Ev("run.failed", r, runs'[r].by) \in audit'
    BY DEF RejectedRunsListedFailed
  <2>1. CASE r = txn[q].run /\ "run" \in txn[q].writes
    <3>1. runs'[r].by = q /\ ~txn[q].completed
      BY <1>4, <2>1
    <3> QED BY <1>1, <2>1, <3>1 DEF OpFits
  <2>2. CASE ~(r = txn[q].run /\ "run" \in txn[q].writes)
    <3>1. runs'[r] = runs[r]
      BY <1>4, <2>2
    <3> QED BY <1>1, <3>1 DEF TrailInv, RejectedRunsListedFailed
  <2> QED BY <2>1, <2>2
<1> QED BY <1>8, <1>9, <1>11, <1>12, <1>13, <1>14 DEF TrailInv

-----------------------------------------------------------------------------
(* Theorems *)

LEMMA TrailInitially == Init => TrailInv
<1> SUFFICES ASSUME Init PROVE TrailInv
  OBVIOUS
<1>1. \A q \in Requests : OpFits(status[q], txn[q], q)
  BY DEF Init, Start, OpFits, Extracting
<1>2. \A v \in Requests : FileOK(v)
  BY DEF Init, FileOK
<1>3. \A q \in Requests : ReingestDone(q)
  BY DEF Init, ReingestDone
<1>4. \A r \in RunIds : RunByAnswered(r)
  BY DEF Init, RunByAnswered
<1>5. (\A e \in audit : EventByAnswered(e)) /\ RejectedRunsListedFailed
  BY DEF Init, RejectedRunsListedFailed
<1> QED BY <1>1, <1>2, <1>3, <1>4, <1>5 DEF TrailInv

LEMMA TrailUnmoved ==
  ASSUME TrailInv, UNCHANGED <<tables, bytes, status, txn>>
  PROVE  TrailInv'
<1> USE DEF tables, TrailInv
<1>1. (\A q \in Requests : OpFits(status[q], txn[q], q))'
  OBVIOUS
<1>2. (\A v \in Requests : FileOK(v))'
  BY DEF FileOK, PurgePending
<1>3. (\A q \in Requests : ReingestDone(q))'
  BY DEF ReingestDone
<1>4. (\A r \in RunIds : RunByAnswered(r))'
  BY DEF RunByAnswered
<1>5. (\A e \in audit : EventByAnswered(e))'
  BY DEF EventByAnswered
<1>6. RejectedRunsListedFailed'
  BY DEF RejectedRunsListedFailed
<1> QED BY <1>1, <1>2, <1>3, <1>4, <1>5, <1>6

LEMMA TrailPreserved == Inv /\ TrailInv /\ [Next]_vars => TrailInv'
<1> SUFFICES ASSUME Inv, TrailInv, [Next]_vars PROVE TrailInv'
  OBVIOUS
<1>1. CASE Tick \/ UNCHANGED vars
  BY <1>1, TrailUnmoved DEF Tick, vars, tables
<1>2. ASSUME NEW q \in Requests, Arrive(q) PROVE TrailInv'
  BY <1>2, UploadTrail, DownloadTrail, DeleteTrail, ExtractTrail, ReingestTrail
  DEF Arrive
<1>3. ASSUME NEW q \in Requests, Proceed(q) PROVE TrailInv'
  BY <1>3, ReadBytesTrail, PurgeTrail, LoadContextTrail, InsertRunTrail,
     LLMAnswersTrail, CleanTrail, CommitTrail DEF Proceed
<1> QED BY <1>1, <1>2, <1>3, TeardownTrail, LoseTrail DEF Next

LEMMA TrailAlways == Spec => [](Inv /\ TrailInv)
<1>1. Inv /\ TrailInv /\ [Next]_vars => (Inv /\ TrailInv)'
  BY Preserved, TrailPreserved
<1> QED BY <1>1, Initially, TrailInitially, PTL DEF Spec

(* Whatever is deleted, refused, fails or crashes, every file in object    *)
(* storage is that of a live version, of a request at work, or left by a   *)
(* crash or by an upload that failed with 500.                             *)
THEOREM NoStrayBytes == Spec => []StoredBytesAccountedFor
<1>1. Inv /\ TrailInv => StoredBytesAccountedFor
  BY TrailImplies
<1> QED BY <1>1, TrailAlways, PTL

(* A re-ingestion that succeeds leaves the version, its run and both audit *)
(* events, one that does not leaves none of them; a run whose output was   *)
(* rejected has its failure event.                                         *)
THEOREM TrailsLeft == Spec => []FailuresLeaveTheirTrail
<1>1. Inv /\ TrailInv => FailuresLeaveTheirTrail
  BY TrailImplies
<1> QED BY <1>1, TrailAlways, PTL
=============================================================================
