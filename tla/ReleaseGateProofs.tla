------------------------- MODULE ReleaseGateProofs -------------------------
(***************************************************************************)
(* Proofs about ReleaseGate, for any requests, versions and slots.         *)
(***************************************************************************)
EXTENDS ReleaseGate, TLAPS

Compiling == {"compile", "evaluate"}
Changing == {"disable", "enable", "edit"}
Held == {"inserted", "resolved", "gated", "allowed"}

(* What a request has learned by the time it is at its place.              *)
WellFormed(q) ==
  /\ req[q].at \in {"absent"} \cup Held =>
       req[q].version \in Versions /\ KindOf[q] \in Compiling
  /\ req[q].at \in Held => req[q].set \in Requests
  /\ req[q].at = "sent" => (req[q].version # None => KindOf[q] \in Compiling)
  /\ req[q].at \in {"sent", "read"} /\ KindOf[q] \in Changing => req[q].case \in CaseIds
  /\ req[q].at = "read" /\ KindOf[q] \in Changing => req[q].payload \in Case
  /\ req[q].at \in {"sent", "read", "stamped"} /\ KindOf[q] \in {"generate", "test"}
       => req[q].wanted \in Requests
  /\ req[q].at \in {"sent", "read"} /\ KindOf[q] \in Changing
       => cases[req[q].case] # None
  /\ req[q].at = "stamped" => KindOf[q] = "test"
AllWellFormed == \A q \in Requests : WellFormed(q)
Typed == TypeOK /\ AllWellFormed

LEMMA InitTyped == Init => Typed
<1> SUFFICES ASSUME Init PROVE Typed
  OBVIOUS
<1>1. [failed |-> {}, cases |-> {}] \in Known
  BY DEF Known
<1>2. req \in [Requests -> Request]
  BY <1>1 DEF Init, Request
<1>3. TypeOK
  BY <1>2 DEF Init, TypeOK
<1>4. AllWellFormed
  BY DEF Init, AllWellFormed, WellFormed, Held
<1> QED BY <1>3, <1>4 DEF Typed

LEMMA SendTyped ==
  ASSUME Typed, NEW q \in Requests, Send(q)
  PROVE  Typed'
<1> USE DEF Typed, TypeOK
<1>1. PICK v \in Versions \cup {None}, s \in {x.id : x \in sets} \cup {None},
           c \in {x \in CaseIds : cases[x] # None} \cup {None} :
        /\ Names(KindOf[q], v, s, c)
        /\ req' = [req EXCEPT ![q].at = "sent", ![q].version = v, ![q].wanted = s,
                             ![q].case = c,
                             ![q].known = [failed |-> {r \in runs : ~r.passed},
                                           cases |-> {x \in CaseIds : cases[x] # None}]]
  BY DEF Send
<1>2. s \in Requests \cup {None}
  BY DEF Set
<1>3. [failed |-> {r \in runs : ~r.passed},
       cases |-> {x \in CaseIds : cases[x] # None}] \in Known
  BY DEF Known
<1>4. req' \in [Requests -> Request]
  <2> DEFINE k == [failed |-> {r \in runs : ~r.passed},
                   cases |-> {x \in CaseIds : cases[x] # None}]
             r == [req[q] EXCEPT !.at = "sent", !.version = v, !.wanted = s,
                                 !.case = c, !.known = k]
  <2>1. req[q] \in Request /\ k \in Known /\ c \in CaseIds \cup {None}
    BY <1>3
  <2>2. r \in Request
    <3> HIDE DEF k
    <3> QED BY <2>1, <1>2 DEF Request, Open
  <2>3. req' = [req EXCEPT ![q] = r]
    BY <1>1
  <2> QED BY <2>2, <2>3
<1>5. TypeOK'
  BY <1>4 DEF Send
<1>6. AllWellFormed'
  <2> SUFFICES ASSUME NEW p \in Requests PROVE WellFormed(p)'
    BY DEF AllWellFormed
  <2>1. CASE p # q
    <3>1. req'[p] = req[p] /\ cases' = cases
      BY <2>1, <1>1 DEF Send
    <3> QED BY <3>1 DEF AllWellFormed, WellFormed
  <2>2. CASE p = q
    <3>1. req[q] \in Request /\ cases' = cases
      BY DEF Send
    <3>2. /\ req'[q].at = "sent" /\ req'[q].version = v
          /\ req'[q].wanted = s /\ req'[q].case = c
      BY <1>1, <3>1 DEF Request
    <3>3. (v # None => KindOf[q] \in Compiling) /\ (KindOf[q] \in Changing => c # None)
          /\ (KindOf[q] \in {"generate", "test"} => s # None)
      BY <1>1 DEF Names, Compiling, Changing
    <3> QED BY <2>2, <1>2, <3>1, <3>2, <3>3 DEF WellFormed, Held
  <2> QED BY <2>1, <2>2
<1> QED BY <1>5, <1>6
-----------------------------------------------------------------------------
(* A step moves one request, whose new record is r.                        *)
Becomes(q, r) == req' = [req EXCEPT ![q] = r]

Tables == /\ sets \subseteq Set /\ creations \subseteq Set
          /\ cases \in [CaseIds -> Case \cup {None}]
          /\ runs \subseteq Run /\ evaluations \subseteq Evaluation /\ clock \in Nat
CasesKept == \A c \in CaseIds : cases[c] # None => cases'[c] # None

LEMMA WritesTyped ==
  ASSUME Typed, NEW q \in Requests, NEW r \in Request, Becomes(q, r),
         Tables', CasesKept, WellFormed(q)'
  PROVE  Typed'
<1>1. TypeOK'
  BY DEF Typed, TypeOK, Becomes, Tables
<1>2. ASSUME NEW p \in Requests, p # q PROVE WellFormed(p)'
  <2>1. req'[p] = req[p]
    BY <1>2 DEF Becomes, Typed, TypeOK
  <2> QED BY <2>1 DEF Typed, AllWellFormed, WellFormed, CasesKept
<1> QED BY <1>1, <1>2 DEF Typed, AllWellFormed

LEMMA MovesTyped ==
  ASSUME Typed, NEW q \in Requests, NEW r \in Request, Becomes(q, r),
         UNCHANGED <<sets, creations, cases, runs, evaluations, clock>>,
         WellFormed(q)'
  PROVE  Typed'
<1>1. Tables' /\ CasesKept
  BY DEF Typed, TypeOK, Tables, CasesKept
<1> QED BY <1>1, WritesTyped

(* An end, with whatever the tables were given.                            *)
LEMMA CommitTyped ==
  ASSUME Typed, NEW q \in Requests, NEW how \in Ended, Ends(q, how), Tables', CasesKept
  PROVE  Typed'
<1>1. req[q] \in Request
  BY DEF Typed, TypeOK
<1>2. PICK r \in Request : Becomes(q, r) /\ r.at = how
  <2>1. [req[q] EXCEPT !.at = how] \in Request
    BY <1>1 DEF Request
  <2>2. Becomes(q, [req[q] EXCEPT !.at = how])
    BY DEF Ends, Becomes
  <2> QED BY <1>1, <2>1, <2>2 DEF Request
<1>3. req'[q] = r
  BY <1>2 DEF Becomes, Typed, TypeOK
<1>4. WellFormed(q)'
  BY <1>2, <1>3 DEF WellFormed, Held, Ended
<1> QED BY <1>2, <1>4, WritesTyped

LEMMA EndsTyped ==
  ASSUME Typed, NEW q \in Requests, NEW how \in Ended, Ends(q, how),
         UNCHANGED <<sets, creations, cases, runs, evaluations, clock>>
  PROVE  Typed'
<1>1. Tables' /\ CasesKept
  BY DEF Typed, TypeOK, Tables, CasesKept
<1> QED BY <1>1, CommitTyped

LEMMA ResolvedTyped ==
  ASSUME Typed, NEW q \in Requests, NEW id \in Requests, Resolved(q, id),
         UNCHANGED <<sets, creations, cases, runs, evaluations, clock>>,
         req[q].version \in Versions, KindOf[q] \in Compiling
  PROVE  Typed'
<1>1. req[q] \in Request
  BY DEF Typed, TypeOK
<1>2. PICK r \in Request :
        /\ Becomes(q, r) /\ r.version = req[q].version
        /\ r.at \in {"refused", "resolved", "inserted", "done"}
        /\ r.at = "refused" \/ r.set = id
  <2>1. CASE req[q].wanted \notin {None, id}
    <3>1. [req[q] EXCEPT !.at = "refused"] \in Request
      BY <1>1 DEF Request, Ended
    <3>2. Becomes(q, [req[q] EXCEPT !.at = "refused"])
      BY <2>1 DEF Resolved, Becomes
    <3> QED BY <1>1, <3>1, <3>2 DEF Request
  <2>2. CASE req[q].wanted \in {None, id}
    <3> DEFINE at == IF KindOf[q] # "compile" THEN "resolved"
                     ELSE IF id = q THEN "inserted" ELSE "done"
    <3>1. at \in {"resolved", "inserted", "done"}
      OBVIOUS
    <3>2. Becomes(q, [req[q] EXCEPT !.set = id, !.at = at])
      BY <2>2 DEF Resolved, Becomes
    <3> HIDE DEF at
    <3>3. [req[q] EXCEPT !.set = id, !.at = at] \in Request
      BY <1>1, <3>1 DEF Request, Open, Ended
    <3> QED BY <1>1, <3>1, <3>2, <3>3 DEF Request
  <2> QED BY <2>1, <2>2
<1>3. req'[q] = r
  BY <1>2 DEF Becomes, Typed, TypeOK
<1>4. WellFormed(q)'
  BY <1>2, <1>3 DEF WellFormed, Held, Compiling, Changing
<1> QED BY <1>2, <1>4, MovesTyped

LEMMA FindTyped ==
  ASSUME Typed, NEW q \in Requests, Find(q)
  PROVE  Typed'
<1>1. req[q] \in Request /\ req[q].version \in Versions /\ KindOf[q] \in Compiling
  <2>1. req[q] \in Request /\ req[q].version \in Versions
    BY DEF Typed, TypeOK, Find, Request
  <2>2. KindOf[q] \in Compiling
    BY DEF Find, Typed, AllWellFormed, WellFormed
  <2> QED BY <2>1, <2>2
<1>2. CASE \E s \in sets : s.version = req[q].version /\ Resolved(q, s.id)
  <2>1. PICK s \in sets : Resolved(q, s.id)
    BY <1>2
  <2>2. PICK id \in Requests : id = s.id
    BY DEF Typed, TypeOK, Set
  <2>3. Resolved(q, id)
    BY <2>1, <2>2
  <2> QED BY <1>1, <2>3, ResolvedTyped DEF Find
<1>3. CASE Ends(q, "absent")
  <2>1. PICK r \in Request : Becomes(q, r) /\ r.at = "absent" /\ r.version = req[q].version
    <3>1. [req[q] EXCEPT !.at = "absent"] \in Request
      BY <1>1 DEF Request, Open
    <3>2. Becomes(q, [req[q] EXCEPT !.at = "absent"])
      BY <1>3 DEF Ends, Becomes
    <3> QED BY <1>1, <3>1, <3>2 DEF Request
  <2>2. req'[q] = r
    BY <2>1 DEF Becomes, Typed, TypeOK
  <2>3. WellFormed(q)'
    BY <1>1, <2>1, <2>2 DEF WellFormed, Held
  <2> QED BY <2>1, <2>3, MovesTyped DEF Find
<1> QED BY <1>2, <1>3 DEF Find

LEMMA InsertTyped ==
  ASSUME Typed, NEW q \in Requests, Insert(q)
  PROVE  Typed'
<1>1. req[q].version \in Versions /\ KindOf[q] \in Compiling
  BY DEF Insert, Typed, AllWellFormed, WellFormed
<1>2. CASE Ends(q, "conflict")
  <2>1. "conflict" \in Ended
    BY DEF Ended
  <2> QED BY <1>2, <2>1, EndsTyped DEF Insert
<1>3. CASE Resolved(q, q)
  BY <1>1, <1>3, ResolvedTyped DEF Insert
<1> QED BY <1>2, <1>3 DEF Insert

LEMMA InsertedTyped ==
  ASSUME Typed, NEW q \in Requests, req[q].at \in Held
  PROVE  Inserted(q) \subseteq Set
BY DEF Typed, AllWellFormed, WellFormed, Inserted, Set, Held

LEMMA CommitSetTyped ==
  ASSUME Typed, NEW q \in Requests, CommitSet(q)
  PROVE  Typed'
<1>1. Inserted(q) \subseteq Set
  BY InsertedTyped DEF CommitSet, Held
<1>2. Tables' /\ CasesKept
  BY <1>1 DEF CommitSet, Event, Typed, TypeOK, Tables, CasesKept
<1>3. "done" \in Ended /\ Ends(q, "done")
  BY DEF CommitSet, Ended
<1> QED BY <1>2, <1>3, CommitTyped

LEMMA CommitEvaluationTyped ==
  ASSUME Typed, NEW q \in Requests, CommitEvaluation(q)
  PROVE  Typed'
<1>1. Inserted(q) \subseteq Set
  BY InsertedTyped DEF CommitEvaluation, Held
<1>2. [id |-> q, set |-> req[q].set, version |-> req[q].version,
       gate |-> req[q].gate, known |-> req[q].known] \in Evaluation
  <2>1. req[q] \in Request
    BY DEF Typed, TypeOK
  <2>2. req[q].version \in Versions /\ req[q].set \in Requests
    BY DEF CommitEvaluation, Typed, AllWellFormed, WellFormed, Held
  <2> QED BY <2>1, <2>2 DEF Evaluation, Request
<1>3. Tables' /\ CasesKept
  BY <1>1, <1>2 DEF CommitEvaluation, Event, Typed, TypeOK, Tables, CasesKept
<1>4. "done" \in Ended /\ Ends(q, "done")
  BY DEF CommitEvaluation, Ended
<1> QED BY <1>3, <1>4, CommitTyped

LEMMA CommitCasesTyped ==
  ASSUME Typed, NEW q \in Requests, CommitCases(q)
  PROVE  Typed'
<1>1. req[q].wanted \in Requests
  BY DEF CommitCases, Typed, AllWellFormed, WellFormed
<1>2. PICK good \in [Slots -> BOOLEAN] :
        cases' = [c \in CaseIds |->
                    IF c[1] # q THEN cases[c]
                    ELSE [set |-> req[q].wanted, active |-> TRUE, good |-> good[c[2]]]]
  BY DEF CommitCases
<1>3. ASSUME NEW c \in CaseIds
      PROVE  [set |-> req[q].wanted, active |-> TRUE, good |-> good[c[2]]] \in Case
  BY <1>1 DEF Case, CaseIds
<1>4. cases' \in [CaseIds -> Case \cup {None}]
  BY <1>2, <1>3 DEF Typed, TypeOK
<1>5. CasesKept
  <2> SUFFICES ASSUME NEW c \in CaseIds, cases[c] # None PROVE cases'[c] # None
    BY DEF CasesKept
  <2> QED BY <1>2, <1>3, GateAssumption
<1>6. Tables'
  BY <1>4 DEF CommitCases, Typed, TypeOK, Tables
<1>7. "done" \in Ended /\ Ends(q, "done")
  BY DEF CommitCases, Ended
<1> QED BY <1>5, <1>6, <1>7, CommitTyped
LEMMA ReadSetTyped ==
  ASSUME Typed, NEW q \in Requests, ReadSet(q)
  PROVE  Typed'
<1>1. PICK s \in sets : req' = [req EXCEPT ![q].at = "resolved", ![q].set = s.id,
                                          ![q].version = s.version]
  BY DEF ReadSet
<1>2. s.id \in Requests /\ s.version \in Versions /\ req[q] \in Request
  BY DEF Typed, TypeOK, Set
<1>3. PICK r \in Request : /\ Becomes(q, r) /\ r.at = "resolved"
                           /\ r.set = s.id /\ r.version = s.version
  <2> DEFINE r == [req[q] EXCEPT !.at = "resolved", !.set = s.id, !.version = s.version]
  <2>1. r \in Request
    BY <1>2 DEF Request, Open
  <2>2. Becomes(q, r)
    BY <1>1 DEF Becomes
  <2> QED BY <1>2, <2>1, <2>2 DEF Request
<1>4. req'[q] = r
  BY <1>3 DEF Becomes, Typed, TypeOK
<1>5. WellFormed(q)'
  BY <1>2, <1>3, <1>4 DEF WellFormed, Held, ReadSet, Compiling
<1> QED BY <1>3, <1>5, MovesTyped DEF ReadSet

(* The gate, which changes its place and its verdict alone.                *)
LEMMA GateTyped ==
  ASSUME Typed, NEW q \in Requests, req[q].at \in Held,
         NEW at \in {"refused", "gated", "allowed"}, NEW gate \in {"no cases", "passed"},
         Becomes(q, [req[q] EXCEPT !.at = at, !.gate = gate]),
         UNCHANGED <<sets, creations, cases, runs, evaluations, clock>>
  PROVE  Typed'
<1>1. /\ req[q] \in Request /\ req[q].version \in Versions /\ req[q].set \in Requests
      /\ KindOf[q] \in Compiling
  BY DEF Typed, TypeOK, AllWellFormed, WellFormed
<1>2. PICK r \in Request : /\ Becomes(q, r) /\ r.at = at
                           /\ r.set = req[q].set /\ r.version = req[q].version
  <2>1. [req[q] EXCEPT !.at = at, !.gate = gate] \in Request
    BY <1>1 DEF Request, Open, Ended
  <2> QED BY <1>1, <2>1 DEF Request
<1>3. req'[q] = r
  BY <1>2 DEF Becomes, Typed, TypeOK
<1>4. WellFormed(q)'
  BY <1>1, <1>2, <1>3 DEF WellFormed, Held
<1> QED BY <1>2, <1>4, MovesTyped

LEMMA GateReadsCasesTyped ==
  ASSUME Typed, NEW q \in Requests, GateReadsCases(q)
  PROVE  Typed'
<1>1. req[q] \in Request /\ req[q].at \in Held /\ req \in [Requests -> Request]
  BY DEF GateReadsCases, Held, Typed, TypeOK
<1>2. \/ Becomes(q, [req[q] EXCEPT !.at = "refused", !.gate = req[q].gate])
      \/ Becomes(q, [req[q] EXCEPT !.at = "gated", !.gate = req[q].gate])
      \/ Becomes(q, [req[q] EXCEPT !.at = "allowed", !.gate = "no cases"])
  BY <1>1 DEF GateReadsCases, Becomes, Request
<1>3. PICK at \in {"refused", "gated", "allowed"}, gate \in {"no cases", "passed"} :
        Becomes(q, [req[q] EXCEPT !.at = at, !.gate = gate])
  BY <1>1, <1>2 DEF Request
<1> QED BY <1>1, <1>3, GateTyped DEF GateReadsCases

LEMMA GateReadsRunsTyped ==
  ASSUME Typed, NEW q \in Requests, GateReadsRuns(q)
  PROVE  Typed'
<1>1. req[q] \in Request /\ req[q].at \in Held /\ req \in [Requests -> Request]
  BY DEF GateReadsRuns, Held, Typed, TypeOK
<1>2. \/ Becomes(q, [req[q] EXCEPT !.at = "refused", !.gate = req[q].gate])
      \/ Becomes(q, [req[q] EXCEPT !.at = "allowed", !.gate = "passed"])
  BY <1>1 DEF GateReadsRuns, Becomes, Request, Ends
<1>3. PICK at \in {"refused", "gated", "allowed"}, gate \in {"no cases", "passed"} :
        Becomes(q, [req[q] EXCEPT !.at = at, !.gate = gate])
  BY <1>1, <1>2 DEF Request
<1> QED BY <1>1, <1>3, GateTyped DEF GateReadsRuns

(* A test run, a generation or a change that read, or was stamped.         *)
LEMMA ReadTyped ==
  ASSUME Typed, NEW q \in Requests, NEW at \in {"read", "stamped", "refused", "done"},
         NEW r \in Request, Becomes(q, r), r.at = at, r.wanted = req[q].wanted,
         r.case = req[q].case, req[q].at \in {"sent", "read"},
         KindOf[q] \notin Compiling,
         at = "stamped" => KindOf[q] = "test",
         at = "read" /\ KindOf[q] \in Changing => r.payload \in Case,
         Tables', CasesKept
  PROVE  Typed'
<1>1. req'[q] = r
  BY DEF Becomes, Typed, TypeOK
<1>2. WellFormed(q)'
  BY <1>1 DEF WellFormed, Held, Typed, AllWellFormed, CasesKept
<1> QED BY <1>2, WritesTyped

LEMMA TablesStay ==
  ASSUME Typed, UNCHANGED <<sets, creations, cases, runs, evaluations, clock>>
  PROVE  Tables' /\ CasesKept
BY DEF Typed, TypeOK, Tables, CasesKept

LEMMA GenerateReadsTyped ==
  ASSUME Typed, NEW q \in Requests, GenerateReads(q)
  PROVE  Typed'
<1>1. req[q] \in Request /\ req \in [Requests -> Request]
  BY DEF Typed, TypeOK
<1>2. PICK at \in {"done", "refused", "read"} : Becomes(q, [req[q] EXCEPT !.at = at])
  BY <1>1 DEF GenerateReads, Becomes
<1>3. PICK r \in Request : /\ Becomes(q, r) /\ r.at = at
                           /\ r.wanted = req[q].wanted /\ r.case = req[q].case
  <2>1. [req[q] EXCEPT !.at = at] \in Request
    BY <1>1, <1>2 DEF Request, Open, Ended
  <2> QED BY <1>1, <1>2, <2>1 DEF Request
<1>4. KindOf[q] \notin Compiling /\ KindOf[q] \notin Changing
  BY DEF GenerateReads, Compiling, Changing
<1> QED BY <1>3, <1>4, TablesStay, ReadTyped DEF GenerateReads

LEMMA TestReadsTyped ==
  ASSUME Typed, NEW q \in Requests, TestReads(q)
  PROVE  Typed'
<1>1. req[q] \in Request /\ req \in [Requests -> Request]
  BY DEF Typed, TypeOK
<1>2. PICK at \in {"refused", "read"}, passed \in BOOLEAN :
        Becomes(q, [req[q] EXCEPT !.at = at, !.passed = passed])
  <2>1. CASE list_active_rule_test_cases(req[q].wanted) = {}
    <3>1. Becomes(q, [req[q] EXCEPT !.at = "refused", !.passed = req[q].passed])
      BY <1>1, <2>1 DEF TestReads, Becomes, Request
    <3> QED BY <1>1, <3>1 DEF Request
  <2>2. CASE list_active_rule_test_cases(req[q].wanted) # {}
    <3> DEFINE passed == \A c \in list_active_rule_test_cases(req[q].wanted) : cases[c].good
    <3>1. Becomes(q, [req[q] EXCEPT !.at = "read", !.passed = passed])
      BY <1>1, <2>2 DEF TestReads, Becomes
    <3>2. passed \in BOOLEAN
      OBVIOUS
    <3> HIDE DEF passed
    <3> QED BY <3>1, <3>2
  <2> QED BY <2>1, <2>2
<1>3. PICK r \in Request : /\ Becomes(q, r) /\ r.at = at
                           /\ r.wanted = req[q].wanted /\ r.case = req[q].case
  <2>1. [req[q] EXCEPT !.at = at, !.passed = passed] \in Request
    BY <1>1, <1>2 DEF Request, Open, Ended
  <2> QED BY <1>1, <1>2, <2>1 DEF Request
<1>4. KindOf[q] \notin Compiling /\ KindOf[q] \notin Changing
  BY DEF TestReads, Compiling, Changing
<1> QED BY <1>3, <1>4, TablesStay, ReadTyped DEF TestReads

LEMMA TestStampsTyped ==
  ASSUME Typed, NEW q \in Requests, TestStamps(q)
  PROVE  Typed'
<1>1. req[q] \in Request /\ req \in [Requests -> Request] /\ clock' \in Nat
  BY DEF Typed, TypeOK, TestStamps
<1>2. PICK r \in Request : /\ Becomes(q, r) /\ r.at = "stamped"
                           /\ r.wanted = req[q].wanted /\ r.case = req[q].case
  <2>1. Becomes(q, [req[q] EXCEPT !.at = "stamped", !.time = clock'])
    BY DEF TestStamps, Becomes
  <2>2. [req[q] EXCEPT !.at = "stamped", !.time = clock'] \in Request
    BY <1>1 DEF Request, Open, Ended
  <2> QED BY <1>1, <2>1, <2>2 DEF Request
<1>3. KindOf[q] \notin Compiling /\ KindOf[q] = "test"
  BY DEF TestStamps, Compiling
<1>4. Tables' /\ CasesKept
  BY <1>1 DEF TestStamps, Typed, TypeOK, Tables, CasesKept
<1> QED BY <1>2, <1>3, <1>4, ReadTyped DEF TestStamps

LEMMA ChangeReadsTyped ==
  ASSUME Typed, NEW q \in Requests, ChangeReads(q)
  PROVE  Typed'
<1>1. /\ req[q] \in Request /\ req \in [Requests -> Request]
      /\ cases[req[q].case] \in Case
  <2>1. req[q].case \in CaseIds /\ cases[req[q].case] # None
    BY DEF ChangeReads, Typed, AllWellFormed, WellFormed, Changing
  <2> QED BY <2>1 DEF Typed, TypeOK
<1>2. PICK r \in Request : /\ Becomes(q, r) /\ r.at \in {"read", "refused"}
                           /\ r.wanted = req[q].wanted /\ r.case = req[q].case
                           /\ r.at = "read" => r.payload \in Case
  <2>1. CASE req' = [req EXCEPT ![q].at = "refused"]
    <3>1. [req[q] EXCEPT !.at = "refused"] \in Request
      BY <1>1 DEF Request, Ended
    <3>2. Becomes(q, [req[q] EXCEPT !.at = "refused"])
      BY <2>1 DEF Becomes
    <3> QED BY <1>1, <3>1, <3>2 DEF Request
  <2>2. CASE req' = [req EXCEPT ![q].at = "read", ![q].payload = cases[req[q].case]]
    <3>1. [req[q] EXCEPT !.at = "read", !.payload = cases[req[q].case]] \in Request
      BY <1>1 DEF Request, Open
    <3>2. Becomes(q, [req[q] EXCEPT !.at = "read", !.payload = cases[req[q].case]])
      BY <2>2 DEF Becomes
    <3> QED BY <1>1, <3>1, <3>2 DEF Request
  <2> QED BY <2>1, <2>2 DEF ChangeReads
<1>3. KindOf[q] \notin Compiling
  BY DEF ChangeReads, Compiling
<1> QED BY <1>2, <1>3, TablesStay, ReadTyped DEF ChangeReads

LEMMA CommitChangeTyped ==
  ASSUME Typed, NEW q \in Requests, CommitChange(q)
  PROVE  Typed'
<1>1. req[q].case \in CaseIds /\ req[q].payload \in Case
  BY DEF CommitChange, Typed, AllWellFormed, WellFormed, Changing
<1>2. PICK good \in BOOLEAN :
        cases' = [cases EXCEPT ![req[q].case] = Rewritten(KindOf[q], req[q].payload, good)]
  BY DEF CommitChange
<1>3. Rewritten(KindOf[q], req[q].payload, good) \in Case
  BY <1>1 DEF Rewritten, Case
<1>4. Tables' /\ CasesKept
  BY <1>1, <1>2, <1>3, GateAssumption
     DEF CommitChange, Typed, TypeOK, Tables, CasesKept
<1>5. "done" \in Ended /\ Ends(q, "done")
  BY DEF CommitChange, Ended
<1> QED BY <1>4, <1>5, CommitTyped

LEMMA CommitTestTyped ==
  ASSUME Typed, NEW q \in Requests, CommitTest(q)
  PROVE  Typed'
<1>1. req[q] \in Request /\ req[q].wanted \in Requests
  BY DEF CommitTest, Typed, TypeOK, AllWellFormed, WellFormed
<1>2. [id |-> q, set |-> req[q].wanted, passed |-> req[q].passed,
       time |-> req[q].time] \in Run
  BY <1>1 DEF Run, Request
<1>3. Tables' /\ CasesKept
  BY <1>2 DEF CommitTest, Typed, TypeOK, Tables, CasesKept
<1>4. "done" \in Ended /\ Ends(q, "done")
  BY DEF CommitTest, Ended
<1> QED BY <1>3, <1>4, CommitTyped

LEMMA DropTyped ==
  ASSUME Typed, NEW q \in Requests, Drop(q)
  PROVE  Typed'
<1>1. "dropped" \in Ended
  BY DEF Ended
<1> QED BY <1>1, EndsTyped DEF Drop

LEMMA NextTyped == Typed /\ [Next]_vars => Typed'
<1> SUFFICES ASSUME Typed, [Next]_vars PROVE Typed'
  OBVIOUS
<1>1. CASE UNCHANGED vars
  BY <1>1 DEF vars, Typed, TypeOK, AllWellFormed, WellFormed
<1>2. CASE Next
  <2>1. PICK q \in Requests : Send(q) \/ Drop(q) \/ Handle(q)
    BY <1>2 DEF Next
  <2> QED BY <2>1, SendTyped, DropTyped, FindTyped, InsertTyped, CommitSetTyped,
             ReadSetTyped, GateReadsCasesTyped, GateReadsRunsTyped, CommitEvaluationTyped,
             GenerateReadsTyped, CommitCasesTyped, ChangeReadsTyped, CommitChangeTyped,
             TestReadsTyped, TestStampsTyped, CommitTestTyped DEF Handle
<1> QED BY <1>1, <1>2

(* Every variable keeps its type (the tables and what a request holds).    *)
THEOREM TypeCorrect == Spec => []TypeOK
<1>1. Typed => TypeOK
  BY DEF Typed
<1> QED BY <1>1, InitTyped, NextTyped, PTL DEF Spec
-----------------------------------------------------------------------------
(* Compilations agree: a transaction that inserted a set holds its version *)
(* alone and finds it free of a committed one, until it commits.           *)
InsertedIsOwn(q) == req[q].at = "inserted" => req[q].set = q
HoldsFree(q) ==
  req[q].at \in Held /\ req[q].set = q => \A s \in sets : s.version # req[q].version
HeldIsCommitted(q) ==
  req[q].at \in Held /\ req[q].set # q
    => [id |-> req[q].set, version |-> req[q].version] \in sets
DoneIsCommitted(q) ==
  req[q].at = "done" /\ KindOf[q] \in Compiling
    => [id |-> req[q].set, version |-> req[q].version] \in sets
ConflictIsTaken(q) ==
  req[q].at = "conflict" => \E s \in sets : s.version = req[q].version
Agrees(q) == /\ InsertedIsOwn(q) /\ HoldsFree(q) /\ HeldIsCommitted(q)
             /\ DoneIsCommitted(q) /\ ConflictIsTaken(q)
OnePerVersion == \A s, t \in sets : s.version = t.version => s = t
MadeByDone == \A s \in sets : req[s.id].at = "done"
HoldsAlone ==
  \A p, q \in Requests : (/\ req[p].at \in Held /\ req[p].set = p
                          /\ req[q].at \in Held /\ req[q].set = q
                          /\ req[p].version = req[q].version) => p = q
EvaluatedIsCommitted == \A e \in evaluations : [id |-> e.set, version |-> e.version] \in sets
Agreed == /\ OnePerVersion /\ MadeByDone /\ HoldsAlone /\ EvaluatedIsCommitted
          /\ \A q \in Requests : Agrees(q)

(* The steps of a request, by what they mean for the sets.                 *)
OthersStay(q) == /\ req[q].at \in {"idle"} \cup Open
                 /\ \A p \in Requests \ {q} : req'[p] = req[p]
TablesSame == sets' = sets /\ evaluations' = evaluations
Quiet(q) == /\ TablesSame /\ req'[q].at \notin Held \cup {"conflict"}
            /\ req'[q].at = "done" => KindOf[q] \notin Compiling
Finds(q) == /\ TablesSame /\ req'[q].at \in {"resolved", "done"}
            /\ \E s \in sets : req'[q].set = s.id /\ req'[q].version = s.version
            /\ req'[q].set # q
Refused(q) == /\ TablesSame /\ req'[q].at = "conflict"
              /\ \E s \in sets : s.version = req'[q].version
Inserts(q) == /\ TablesSame /\ req'[q].at \in {"inserted", "resolved"} /\ req'[q].set = q
              /\ \A s \in sets : s.version # req'[q].version
              /\ \A p \in Requests \ {q} :
                   req[p].at \in Held /\ req[p].set = p => req[p].version # req'[q].version
Proceeds(q) == /\ TablesSame /\ req[q].at \in Held /\ req'[q].at \in {"gated", "allowed"}
               /\ req'[q].set = req[q].set /\ req'[q].version = req[q].version
Commits(q) == /\ req[q].at \in Held /\ req'[q].at = "done"
              /\ req'[q].set = req[q].set /\ req'[q].version = req[q].version
              /\ sets' = sets \cup Inserted(q)
              /\ \A e \in evaluations' : \/ e \in evaluations
                                         \/ e.set = req[q].set /\ e.version = req[q].version

LEMMA QuietAgrees ==
  ASSUME Typed, Agreed, NEW q \in Requests, OthersStay(q), Quiet(q)
  PROVE  Agreed'
<1>1. \A p \in Requests : Agrees(p)'
  BY DEF Agreed, Agrees, InsertedIsOwn, HoldsFree, HeldIsCommitted, DoneIsCommitted,
         ConflictIsTaken, OthersStay, Quiet, TablesSame, Held
<1>2. (OnePerVersion /\ EvaluatedIsCommitted)'
  BY DEF Agreed, OnePerVersion, EvaluatedIsCommitted, Quiet, TablesSame
<1>3. MadeByDone'
  BY DEF Agreed, MadeByDone, OthersStay, Quiet, TablesSame, Open, Typed, TypeOK, Set
<1>4. HoldsAlone'
  BY DEF Agreed, HoldsAlone, OthersStay, Quiet, Held
<1> QED BY <1>1, <1>2, <1>3, <1>4 DEF Agreed

LEMMA FindsAgrees ==
  ASSUME Typed, Agreed, NEW q \in Requests, OthersStay(q), Finds(q)
  PROVE  Agreed'
<1>1. Agrees(q)'
  <2>1. PICK s \in sets : req'[q].set = s.id /\ req'[q].version = s.version
    BY DEF Finds
  <2>2. s = [id |-> req'[q].set, version |-> req'[q].version]
    BY <2>1 DEF Typed, TypeOK, Set
  <2> QED BY <2>2 DEF Agrees, InsertedIsOwn, HoldsFree, HeldIsCommitted, DoneIsCommitted,
             ConflictIsTaken, Finds, TablesSame, Held
<1>2. \A p \in Requests \ {q} : Agrees(p)'
  BY DEF Agreed, Agrees, InsertedIsOwn, HoldsFree, HeldIsCommitted, DoneIsCommitted,
         ConflictIsTaken, OthersStay, Finds, TablesSame
<1>3. (OnePerVersion /\ EvaluatedIsCommitted)'
  BY DEF Agreed, OnePerVersion, EvaluatedIsCommitted, Finds, TablesSame
<1>4. MadeByDone'
  BY DEF Agreed, MadeByDone, OthersStay, Finds, TablesSame, Open, Typed, TypeOK, Set
<1>5. HoldsAlone'
  BY DEF Agreed, HoldsAlone, OthersStay, Finds
<1> QED BY <1>1, <1>2, <1>3, <1>4, <1>5 DEF Agreed

LEMMA RefusedAgrees ==
  ASSUME Typed, Agreed, NEW q \in Requests, OthersStay(q), Refused(q)
  PROVE  Agreed'
<1>1. \A p \in Requests : Agrees(p)'
  BY DEF Agreed, Agrees, InsertedIsOwn, HoldsFree, HeldIsCommitted, DoneIsCommitted,
         ConflictIsTaken, OthersStay, Refused, TablesSame, Held
<1>2. (OnePerVersion /\ EvaluatedIsCommitted)'
  BY DEF Agreed, OnePerVersion, EvaluatedIsCommitted, Refused, TablesSame
<1>3. MadeByDone'
  BY DEF Agreed, MadeByDone, OthersStay, Refused, TablesSame, Open, Typed, TypeOK, Set
<1>4. HoldsAlone'
  BY DEF Agreed, HoldsAlone, OthersStay, Refused, Held
<1> QED BY <1>1, <1>2, <1>3, <1>4 DEF Agreed

LEMMA InsertsAgrees ==
  ASSUME Typed, Agreed, NEW q \in Requests, OthersStay(q), Inserts(q)
  PROVE  Agreed'
<1>1. \A p \in Requests : Agrees(p)'
  BY DEF Agreed, Agrees, InsertedIsOwn, HoldsFree, HeldIsCommitted, DoneIsCommitted,
         ConflictIsTaken, OthersStay, Inserts, TablesSame, Held
<1>2. (OnePerVersion /\ EvaluatedIsCommitted)'
  BY DEF Agreed, OnePerVersion, EvaluatedIsCommitted, Inserts, TablesSame
<1>3. MadeByDone'
  BY DEF Agreed, MadeByDone, OthersStay, Inserts, TablesSame, Open, Typed, TypeOK, Set
<1>4. HoldsAlone'
  BY DEF Agreed, HoldsAlone, OthersStay, Inserts, Held
<1> QED BY <1>1, <1>2, <1>3, <1>4 DEF Agreed

LEMMA ProceedsAgrees ==
  ASSUME Typed, Agreed, NEW q \in Requests, OthersStay(q), Proceeds(q)
  PROVE  Agreed'
<1>1. \A p \in Requests : Agrees(p)'
  BY DEF Agreed, Agrees, InsertedIsOwn, HoldsFree, HeldIsCommitted, DoneIsCommitted,
         ConflictIsTaken, OthersStay, Proceeds, TablesSame, Held
<1>2. (OnePerVersion /\ EvaluatedIsCommitted)'
  BY DEF Agreed, OnePerVersion, EvaluatedIsCommitted, Proceeds, TablesSame
<1>3. MadeByDone'
  BY DEF Agreed, MadeByDone, OthersStay, Proceeds, TablesSame, Open, Held, Typed, TypeOK, Set
<1>4. HoldsAlone'
  BY DEF Agreed, HoldsAlone, OthersStay, Proceeds, Held
<1> QED BY <1>1, <1>2, <1>3, <1>4 DEF Agreed

(* What q commits is new: it alone held the version, which was free.       *)
LEMMA CommitsAgrees ==
  ASSUME Typed, Agreed, NEW q \in Requests, OthersStay(q), Commits(q)
  PROVE  Agreed'
<1> DEFINE own == [id |-> q, version |-> req[q].version]
<1>1. CASE req[q].set # q
  <2>1. sets' = sets /\ [id |-> req[q].set, version |-> req[q].version] \in sets
    BY <1>1 DEF Commits, Inserted, Agreed, Agrees, HeldIsCommitted
  <2>2. \A p \in Requests : Agrees(p)'
    BY <2>1 DEF Agreed, Agrees, InsertedIsOwn, HoldsFree, HeldIsCommitted,
       DoneIsCommitted, ConflictIsTaken, OthersStay, Commits, Held
  <2>3. (OnePerVersion /\ EvaluatedIsCommitted)'
    BY <2>1 DEF Agreed, OnePerVersion, EvaluatedIsCommitted, Commits
  <2>4. MadeByDone'
    BY <2>1 DEF Agreed, MadeByDone, OthersStay, Commits, Typed, TypeOK, Set
  <2>5. HoldsAlone'
    BY DEF Agreed, HoldsAlone, OthersStay, Commits, Held
  <2> QED BY <2>2, <2>3, <2>4, <2>5 DEF Agreed
<1>2. CASE req[q].set = q
  <2>1. sets' = sets \cup {own} /\ \A s \in sets : s.version # req[q].version
    BY <1>2 DEF Commits, Inserted, Agreed, Agrees, HoldsFree
  <2>2. ASSUME NEW p \in Requests, p # q PROVE Agrees(p)'
    <3>1. req'[p] = req[p]
      BY <2>2 DEF OthersStay
    <3>2. req[p].at \in Held /\ req[p].set = p => req[p].version # req[q].version
      BY <1>2, <2>2 DEF Agreed, HoldsAlone, Commits
    <3> QED BY <2>1, <3>1, <3>2 DEF Agreed, Agrees, InsertedIsOwn, HoldsFree,
               HeldIsCommitted, DoneIsCommitted, ConflictIsTaken
  <2>3. Agrees(q)'
    BY <1>2, <2>1 DEF Agrees, InsertedIsOwn, HoldsFree, HeldIsCommitted,
       DoneIsCommitted, ConflictIsTaken, Commits, Held
  <2>4. OnePerVersion'
    BY <2>1 DEF Agreed, OnePerVersion
  <2>5. EvaluatedIsCommitted'
    BY <1>2, <2>1 DEF Agreed, EvaluatedIsCommitted, Commits
  <2>6. MadeByDone'
    BY <2>1 DEF Agreed, MadeByDone, OthersStay, Commits, Typed, TypeOK, Set
  <2>7. HoldsAlone'
    BY DEF Agreed, HoldsAlone, OthersStay, Commits, Held
  <2> QED BY <2>2, <2>3, <2>4, <2>5, <2>6, <2>7 DEF Agreed
<1> QED BY <1>1, <1>2

LEMMA StepIsOfOne ==
  ASSUME Typed, NEW q \in Requests, Send(q) \/ Drop(q) \/ Handle(q)
  PROVE  OthersStay(q)
<1>1. req \in [Requests -> Request]
  BY DEF Typed, TypeOK
<1>2. CASE Send(q)
  BY <1>1, <1>2 DEF Send, OthersStay
<1>3. CASE Drop(q)
  BY <1>1, <1>3 DEF Drop, Ends, OthersStay
<1>4. CASE Find(q) \/ Insert(q)
  BY <1>1, <1>4 DEF Find, Insert, Ends, Resolved, OthersStay, Open
<1>5. CASE CommitSet(q) \/ CommitEvaluation(q) \/ CommitCases(q) \/ CommitChange(q)
           \/ CommitTest(q)
  BY <1>1, <1>5 DEF CommitSet, CommitEvaluation, CommitCases, CommitChange, CommitTest,
     Ends, OthersStay, Open
<1>6. CASE ReadSet(q) \/ GateReadsCases(q) \/ GateReadsRuns(q)
  BY <1>1, <1>6 DEF ReadSet, GateReadsCases, GateReadsRuns, Ends, OthersStay, Open
<1>7. CASE GenerateReads(q) \/ ChangeReads(q) \/ TestReads(q) \/ TestStamps(q)
  BY <1>1, <1>7 DEF GenerateReads, ChangeReads, TestReads, TestStamps, OthersStay, Open
<1> QED BY <1>2, <1>3, <1>4, <1>5, <1>6, <1>7 DEF Handle

LEMMA EndsFields ==
  ASSUME Typed, NEW q \in Requests, NEW how, Ends(q, how)
  PROVE  /\ req'[q].at = how /\ req'[q].set = req[q].set
         /\ req'[q].version = req[q].version
<1>1. req[q] \in Request /\ req \in [Requests -> Request]
  BY DEF Typed, TypeOK
<1> QED BY <1>1 DEF Ends, Request

LEMMA ResolvedFields ==
  ASSUME Typed, NEW q \in Requests, NEW id \in Requests, Resolved(q, id)
  PROVE  \/ req'[q].at = "refused"
         \/ /\ req'[q].set = id /\ req'[q].version = req[q].version
            /\ req'[q].at = IF KindOf[q] # "compile" THEN "resolved"
                            ELSE IF id = q THEN "inserted" ELSE "done"
<1>1. req[q] \in Request /\ req \in [Requests -> Request]
  BY DEF Typed, TypeOK
<1>2. CASE req[q].wanted \notin {None, id}
  <2>1. Ends(q, "refused")
    BY <1>2 DEF Resolved, Ends
  <2> QED BY <2>1, EndsFields
<1>3. CASE req[q].wanted \in {None, id}
  <2> DEFINE at == IF KindOf[q] # "compile" THEN "resolved"
                   ELSE IF id = q THEN "inserted" ELSE "done"
  <2>1. req' = [req EXCEPT ![q].set = id, ![q].at = at]
    BY <1>3 DEF Resolved
  <2> HIDE DEF at
  <2>2. req'[q].set = id /\ req'[q].version = req[q].version /\ req'[q].at = at
    BY <1>1, <2>1 DEF Request
  <2> QED BY <2>2 DEF at
<1> QED BY <1>2, <1>3

LEMMA FindKind ==
  ASSUME Typed, Agreed, NEW q \in Requests, Find(q)
  PROVE  Quiet(q) \/ Finds(q)
<1>1. req[q] \in Request /\ req \in [Requests -> Request]
  BY DEF Typed, TypeOK
<1>2. CASE Ends(q, "absent")
  BY <1>1, <1>2 DEF Find, Ends, Quiet, TablesSame, Held, Request
<1>3. ASSUME NEW s \in sets, s.version = req[q].version, Resolved(q, s.id)
      PROVE  Quiet(q) \/ Finds(q)
  <2>1. s.id # q
    BY DEF Agreed, MadeByDone, Find
  <2>2. CASE req[q].wanted \notin {None, s.id}
    BY <1>1, <1>3, <2>2 DEF Find, Resolved, Quiet, TablesSame, Held, Request
  <2>3. CASE req[q].wanted \in {None, s.id}
    BY <1>1, <1>3, <2>1, <2>3 DEF Find, Resolved, Finds, TablesSame, Request
  <2> QED BY <2>2, <2>3
<1> QED BY <1>2, <1>3 DEF Find

LEMMA InsertKind ==
  ASSUME Typed, Agreed, NEW q \in Requests, Insert(q)
  PROVE  Quiet(q) \/ Refused(q) \/ Inserts(q)
<1>1. req[q] \in Request /\ req \in [Requests -> Request]
  BY DEF Typed, TypeOK
<1>2. CASE Taken(req[q].version)
  BY <1>1, <1>2 DEF Insert, Taken, Ends, Refused, TablesSame, Request
<1>3. CASE ~Taken(req[q].version)
  <2>1. Resolved(q, q)
    BY <1>3 DEF Insert
  <2>2. CASE req'[q].at = "refused"
    BY <2>2 DEF Insert, Quiet, TablesSame, Held
  <2>3. CASE /\ req'[q].at \in {"inserted", "resolved"} /\ req'[q].set = q
             /\ req'[q].version = req[q].version
    <3>1. \A p \in Requests \ {q} :
            req[p].at \in Held /\ req[p].set = p => req[p].version # req[q].version
      BY DEF Insert, Holds, Held
    <3> QED BY <1>3, <2>3, <3>1 DEF Inserts, TablesSame, Insert, Taken
  <2> QED BY <2>1, <2>2, <2>3, ResolvedFields
<1> QED BY <1>2, <1>3

LEMMA GateKind ==
  ASSUME Typed, NEW q \in Requests, GateReadsCases(q) \/ GateReadsRuns(q)
  PROVE  Quiet(q) \/ Proceeds(q)
<1>1. req[q] \in Request /\ req \in [Requests -> Request]
  BY DEF Typed, TypeOK
<1>2. CASE GateReadsCases(q)
  BY <1>1, <1>2 DEF GateReadsCases, Quiet, Proceeds, TablesSame, Held, Request
<1>3. CASE GateReadsRuns(q)
  <2>1. \/ Ends(q, "refused")
        \/ req' = [req EXCEPT ![q].at = "allowed", ![q].gate = "passed"]
    BY <1>3 DEF GateReadsRuns, Ends
  <2>2. CASE Ends(q, "refused")
    BY <1>3, <2>2, EndsFields DEF GateReadsRuns, Quiet, TablesSame, Held
  <2>3. CASE req' = [req EXCEPT ![q].at = "allowed", ![q].gate = "passed"]
    <3>1. /\ req'[q].at = "allowed" /\ req'[q].set = req[q].set
          /\ req'[q].version = req[q].version
      BY <1>1, <2>3 DEF Request
    <3> QED BY <1>3, <3>1 DEF GateReadsRuns, Proceeds, TablesSame, Held
  <2> QED BY <2>1, <2>2, <2>3
<1> QED BY <1>2, <1>3

LEMMA CommitKind ==
  ASSUME Typed, NEW q \in Requests, CommitSet(q) \/ CommitEvaluation(q)
  PROVE  Commits(q)
<1>1. Ends(q, "done") /\ req[q].at \in Held /\ sets' = sets \cup Inserted(q)
  BY DEF CommitSet, CommitEvaluation, Held
<1>2. \A e \in evaluations' : \/ e \in evaluations
                              \/ e.set = req[q].set /\ e.version = req[q].version
  BY DEF CommitSet, CommitEvaluation
<1>3. /\ req'[q].at = "done" /\ req'[q].set = req[q].set
      /\ req'[q].version = req[q].version
  BY <1>1, EndsFields
<1> QED BY <1>1, <1>2, <1>3 DEF Commits

LEMMA ReadSetKind ==
  ASSUME Typed, Agreed, NEW q \in Requests, ReadSet(q)
  PROVE  Finds(q)
<1>1. req[q] \in Request /\ req \in [Requests -> Request]
  BY DEF Typed, TypeOK
<1>2. \A s \in sets : s.id # q
  BY DEF Agreed, MadeByDone, ReadSet
<1>3. PICK s \in sets : req' = [req EXCEPT ![q].at = "resolved", ![q].set = s.id,
                                          ![q].version = s.version]
  BY DEF ReadSet
<1>4. req'[q].at = "resolved" /\ req'[q].set = s.id /\ req'[q].version = s.version
  BY <1>1, <1>3 DEF Request
<1> QED BY <1>2, <1>4 DEF ReadSet, Finds, TablesSame

LEMMA OtherKind ==
  ASSUME Typed, NEW q \in Requests,
         \/ Send(q) \/ Drop(q) \/ GenerateReads(q) \/ CommitCases(q) \/ ChangeReads(q)
         \/ CommitChange(q) \/ TestReads(q) \/ TestStamps(q) \/ CommitTest(q)
  PROVE  Quiet(q)
<1>1. req[q] \in Request /\ req \in [Requests -> Request]
  BY DEF Typed, TypeOK
<1>2. CASE Send(q)
  <2>1. req'[q].at = "sent"
    <3>1. PICK v \in Versions \cup {None}, s \in {x.id : x \in sets} \cup {None},
               c \in {x \in CaseIds : cases[x] # None} \cup {None} :
            /\ Names(KindOf[q], v, s, c)
            /\ req' = [req EXCEPT ![q].at = "sent", ![q].version = v, ![q].wanted = s,
                                  ![q].case = c,
                                  ![q].known = [failed |-> {r \in runs : ~r.passed},
                                                cases |-> {x \in CaseIds : cases[x] # None}]]
      BY <1>2 DEF Send
    <3> QED BY <1>1, <3>1 DEF Request
  <2> QED BY <1>2, <2>1 DEF Send, Quiet, TablesSame, Held
<1>3. CASE Drop(q)
  BY <1>1, <1>3 DEF Drop, Ends, Quiet, TablesSame, Held, Request
<1>4. CASE CommitCases(q) \/ CommitChange(q)
  BY <1>1, <1>4 DEF CommitCases, CommitChange, Ends, Quiet, TablesSame, Held, Request,
     Compiling
<1>5. CASE CommitTest(q)
  <2>1. KindOf[q] = "test"
    BY <1>5 DEF CommitTest, Typed, AllWellFormed, WellFormed
  <2> QED BY <1>1, <1>5, <2>1 DEF CommitTest, Ends, Quiet, TablesSame, Held, Request,
             Compiling
<1>6. CASE GenerateReads(q) \/ ChangeReads(q) \/ TestReads(q) \/ TestStamps(q)
  <2>1. req'[q].at \in {"done", "refused", "read", "stamped"} /\ KindOf[q] \notin Compiling
    <3>1. CASE GenerateReads(q)
      <4>1. KindOf[q] \notin Compiling
        BY <3>1 DEF GenerateReads, Compiling
      <4>2. \E a \in {"done", "refused", "read"} : req' = [req EXCEPT ![q].at = a]
        BY <3>1, Zenon DEF GenerateReads
      <4> QED BY <1>1, <4>1, <4>2 DEF Request
    <3>2. CASE ChangeReads(q)
      BY <1>1, <3>2 DEF ChangeReads, Request, Compiling
    <3>3. CASE TestReads(q)
      BY <1>1, <3>3 DEF TestReads, Request, Compiling
    <3>4. CASE TestStamps(q)
      BY <1>1, <3>4 DEF TestStamps, Request, Compiling
    <3> QED BY <1>6, <3>1, <3>2, <3>3, <3>4
  <2>2. TablesSame
    BY <1>6 DEF GenerateReads, ChangeReads, TestReads, TestStamps, TablesSame
  <2> QED BY <2>1, <2>2 DEF Quiet, Held
<1> QED BY <1>2, <1>3, <1>4, <1>5, <1>6

LEMMA InitAgreed == Init => Agreed
<1> SUFFICES ASSUME Init PROVE Agreed
  OBVIOUS
<1>1. \A q \in Requests : req[q].at = "idle"
  BY DEF Init
<1>2. \A q \in Requests : Agrees(q)
  BY <1>1 DEF Agrees, InsertedIsOwn, HoldsFree, HeldIsCommitted, DoneIsCommitted,
     ConflictIsTaken, Held
<1>3. HoldsAlone
  BY <1>1 DEF HoldsAlone, Held
<1>4. OnePerVersion /\ MadeByDone /\ EvaluatedIsCommitted
  BY DEF Init, OnePerVersion, MadeByDone, EvaluatedIsCommitted
<1> QED BY <1>2, <1>3, <1>4 DEF Agreed

LEMMA NextAgreed == Typed /\ Agreed /\ [Next]_vars => Agreed'
<1> SUFFICES ASSUME Typed, Agreed, [Next]_vars PROVE Agreed'
  OBVIOUS
<1>1. CASE UNCHANGED vars
  BY <1>1 DEF vars, Agreed, Agrees, OnePerVersion, MadeByDone, HoldsAlone,
     EvaluatedIsCommitted, InsertedIsOwn, HoldsFree, HeldIsCommitted, DoneIsCommitted,
     ConflictIsTaken
<1>2. CASE Next
  <2>1. PICK q \in Requests : Send(q) \/ Drop(q) \/ Handle(q)
    BY <1>2 DEF Next
  <2>2. OthersStay(q)
    BY <2>1, StepIsOfOne
  <2>3. Quiet(q) \/ Finds(q) \/ Refused(q) \/ Inserts(q) \/ Proceeds(q) \/ Commits(q)
    BY <2>1, FindKind, InsertKind, GateKind, CommitKind, ReadSetKind, OtherKind DEF Handle
  <2> QED BY <2>2, <2>3, QuietAgrees, FindsAgrees, RefusedAgrees, InsertsAgrees,
             ProceedsAgrees, CommitsAgrees
<1> QED BY <1>1, <1>2

(* No Compiled Rule Set without its audit event, and no event without its  *)
(* set, on whichever way it was compiled.                                  *)
THEOREM SetsAreAudited == Spec => []CreationsAudited
<1>1. Init => CreationsAudited
  BY DEF Init, CreationsAudited
<1>2. CreationsAudited /\ [Next]_vars => CreationsAudited'
  BY DEF CreationsAudited, Next, vars, Send, Drop, Handle, Find, Insert, CommitSet, ReadSet,
     GateReadsCases, GateReadsRuns, CommitEvaluation, GenerateReads, CommitCases,
     ChangeReads, CommitChange, TestReads, TestStamps, CommitTest, Event
<1> QED BY <1>1, <1>2, PTL DEF Spec

(* Of compilations that run at once, one is committed, with its one audit  *)
(* event, and every answer and every evaluation names that one             *)
(* (compiled_rule_sets/store.py).                                          *)
THEOREM CompilationsAgree == Spec => []CompileAgrees
<1>1. Agreed /\ CreationsAudited => CompileAgrees
  BY DEF Agreed, Agrees, OnePerVersion, DoneIsCommitted, ConflictIsTaken,
     EvaluatedIsCommitted, CompileAgrees, Compiling
<1> QED BY <1>1, InitTyped, NextTyped, InitAgreed, NextAgreed, SetsAreAudited, PTL DEF Spec
-----------------------------------------------------------------------------
(* What a request knew when it was sent, it knows until its evaluation is  *)
(* recorded; runs are only added.                                          *)
Passes(s, f) == \E r \in runs : r.set = s /\ r.passed /\ r.time >= f.time
KnownFailed(q) == req[q].known.failed \subseteq {r \in runs : ~r.passed}
AllowedPassed(q) ==
  req[q].at = "allowed" /\ req[q].gate = "passed"
    => \A f \in req[q].known.failed : f.set = req[q].set => Passes(req[q].set, f)
Respected == /\ FailureIsRespected
             /\ \A q \in Requests : KnownFailed(q) /\ AllowedPassed(q)

LEMMA KnownStays ==
  ASSUME Typed, NEW q \in Requests, Drop(q) \/ Handle(q)
  PROVE  req'[q].known = req[q].known
<1>1. req[q] \in Request /\ req \in [Requests -> Request]
  BY DEF Typed, TypeOK
<1>2. ASSUME NEW how, Ends(q, how) PROVE req'[q].known = req[q].known
  BY <1>1, <1>2 DEF Ends, Request
<1>3. ASSUME NEW id, Resolved(q, id) PROVE req'[q].known = req[q].known
  <2>1. CASE req[q].wanted \notin {None, id}
    <3>1. Ends(q, "refused")
      BY <1>3, <2>1 DEF Resolved, Ends
    <3> QED BY <1>2, <3>1
  <2>2. CASE req[q].wanted \in {None, id}
    <3> DEFINE at == IF KindOf[q] # "compile" THEN "resolved"
                     ELSE IF id = q THEN "inserted" ELSE "done"
    <3>1. req' = [req EXCEPT ![q].set = id, ![q].at = at]
      BY <1>3, <2>2 DEF Resolved
    <3> HIDE DEF at
    <3> QED BY <1>1, <3>1 DEF Request
  <2> QED BY <2>1, <2>2
<1>4. CASE Drop(q) \/ CommitSet(q) \/ CommitEvaluation(q) \/ CommitCases(q)
           \/ CommitChange(q) \/ CommitTest(q)
  BY <1>2, <1>4 DEF Drop, CommitSet, CommitEvaluation, CommitCases, CommitChange, CommitTest
<1>5. CASE Find(q) \/ Insert(q)
  BY <1>2, <1>3, <1>5 DEF Find, Insert
<1>6. CASE ReadSet(q)
  <2>1. PICK s \in sets : req' = [req EXCEPT ![q].at = "resolved", ![q].set = s.id,
                                            ![q].version = s.version]
    BY <1>6 DEF ReadSet
  <2> QED BY <1>1, <2>1 DEF Request
<1>7. CASE GateReadsCases(q)
  BY <1>1, <1>7 DEF GateReadsCases, Request
<1>8. CASE GateReadsRuns(q)
  <2>1. \/ Ends(q, "refused")
        \/ req' = [req EXCEPT ![q].at = "allowed", ![q].gate = "passed"]
    BY <1>8 DEF GateReadsRuns, Ends
  <2>2. CASE req' = [req EXCEPT ![q].at = "allowed", ![q].gate = "passed"]
    BY <1>1, <2>2 DEF Request
  <2> QED BY <1>2, <2>1, <2>2
<1>9. CASE GenerateReads(q)
  BY <1>1, <1>9 DEF GenerateReads, Request
<1>10. CASE ChangeReads(q)
  BY <1>1, <1>10 DEF ChangeReads, Request
<1>11. CASE TestReads(q) \/ TestStamps(q)
  <2>1. CASE TestReads(q)
    BY <1>1, <2>1 DEF TestReads, Request
  <2>2. CASE TestStamps(q)
    BY <1>1, <2>2 DEF TestStamps, Request
  <2> QED BY <1>11, <2>1, <2>2
<1> QED BY <1>4, <1>5, <1>6, <1>7, <1>8, <1>9, <1>10, <1>11 DEF Handle

LEMMA RunsGrow ==
  ASSUME NEW q \in Requests, Send(q) \/ Drop(q) \/ Handle(q)
  PROVE  runs \subseteq runs'
BY DEF Send, Drop, Handle, Find, Insert, CommitSet, ReadSet, GateReadsCases, GateReadsRuns,
   CommitEvaluation, GenerateReads, CommitCases, ChangeReads, CommitChange, TestReads,
   TestStamps, CommitTest

LEMMA SendFields ==
  ASSUME Typed, NEW q \in Requests, Send(q)
  PROVE  /\ req'[q].at = "sent"
         /\ req'[q].known = [failed |-> {r \in runs : ~r.passed},
                             cases |-> {x \in CaseIds : cases[x] # None}]
<1>1. req[q] \in Request /\ req \in [Requests -> Request]
  BY DEF Typed, TypeOK
<1>2. PICK v \in Versions \cup {None}, s \in {x.id : x \in sets} \cup {None},
           c \in {x \in CaseIds : cases[x] # None} \cup {None} :
        /\ Names(KindOf[q], v, s, c)
        /\ req' = [req EXCEPT ![q].at = "sent", ![q].version = v, ![q].wanted = s,
                             ![q].case = c,
                             ![q].known = [failed |-> {r \in runs : ~r.passed},
                                           cases |-> {x \in CaseIds : cases[x] # None}]]
  BY DEF Send
<1> QED BY <1>1, <1>2 DEF Request

LEMMA KnownFailedStep ==
  ASSUME Typed, Respected, NEW q \in Requests, Send(q) \/ Drop(q) \/ Handle(q),
         NEW p \in Requests
  PROVE  KnownFailed(p)'
<1>1. runs \subseteq runs'
  BY RunsGrow
<1>2. CASE p # q
  <2>1. req'[p] = req[p]
    BY <1>2, StepIsOfOne DEF OthersStay
  <2> QED BY <1>1, <2>1 DEF Respected, KnownFailed
<1>3. CASE p = q /\ Send(q)
  <2> DEFINE failed == {r \in runs : ~r.passed}
             known == {x \in CaseIds : cases[x] # None}
  <2>0. req'[q].known = [failed |-> failed, cases |-> known]
    BY <1>3, SendFields
  <2> HIDE DEF failed, known
  <2>1. req'[q].known.failed = failed
    BY <2>0
  <2> USE DEF failed
  <2> QED BY <1>1, <1>3, <2>1 DEF KnownFailed
<1>4. CASE p = q /\ (Drop(q) \/ Handle(q))
  <2>1. req'[q].known = req[q].known
    BY <1>4, KnownStays
  <2> QED BY <1>1, <1>4, <2>1 DEF Respected, KnownFailed
<1> QED BY <1>2, <1>3, <1>4

(* Only the gate lets an evaluation through.                               *)
LEMMA AllowedBy ==
  ASSUME Typed, NEW q \in Requests, Send(q) \/ Drop(q) \/ Handle(q), req'[q].at = "allowed"
  PROVE  /\ GateReadsCases(q) \/ GateReadsRuns(q)
         /\ req'[q].set = req[q].set
<1>1. req[q] \in Request /\ req \in [Requests -> Request]
  BY DEF Typed, TypeOK
<1>2. ASSUME NEW how \in {"absent", "conflict", "refused", "done", "dropped"}, Ends(q, how)
      PROVE  req'[q].at # "allowed"
  BY <1>2, EndsFields
<1>3. ASSUME NEW id \in Requests, Resolved(q, id) PROVE req'[q].at # "allowed"
  BY <1>3, ResolvedFields
<1>4. CASE Send(q)
  BY <1>4, SendFields
<1>5. CASE Drop(q) \/ CommitSet(q) \/ CommitEvaluation(q) \/ CommitCases(q)
           \/ CommitChange(q) \/ CommitTest(q)
  BY <1>2, <1>5 DEF Drop, CommitSet, CommitEvaluation, CommitCases, CommitChange, CommitTest
<1>6. CASE Find(q) \/ Insert(q)
  <2>1. \A s \in sets : s.id \in Requests
    BY DEF Typed, TypeOK, Set
  <2> QED BY <1>2, <1>3, <1>6, <2>1 DEF Find, Insert
<1>7. CASE ReadSet(q)
  <2>1. PICK s \in sets : req' = [req EXCEPT ![q].at = "resolved", ![q].set = s.id,
                                            ![q].version = s.version]
    BY <1>7 DEF ReadSet
  <2> QED BY <1>1, <2>1 DEF Request
<1>8. CASE GateReadsCases(q)
  BY <1>1, <1>8 DEF GateReadsCases, Request
<1>9. CASE GateReadsRuns(q)
  <2>1. \/ Ends(q, "refused")
        \/ req' = [req EXCEPT ![q].at = "allowed", ![q].gate = "passed"]
    BY <1>9 DEF GateReadsRuns, Ends
  <2>2. CASE req' = [req EXCEPT ![q].at = "allowed", ![q].gate = "passed"]
    BY <1>1, <1>9, <2>2 DEF Request
  <2> QED BY <1>2, <1>9, <2>1, <2>2
<1>10. CASE GenerateReads(q) \/ ChangeReads(q)
  <2>1. CASE GenerateReads(q)
    BY <1>1, <2>1 DEF GenerateReads, Request
  <2>2. CASE ChangeReads(q)
    BY <1>1, <2>2 DEF ChangeReads, Request
  <2> QED BY <1>10, <2>1, <2>2
<1>11. CASE TestReads(q) \/ TestStamps(q)
  <2>1. CASE TestReads(q)
    BY <1>1, <2>1 DEF TestReads, Request
  <2>2. CASE TestStamps(q)
    BY <1>1, <2>2 DEF TestStamps, Request
  <2> QED BY <1>11, <2>1, <2>2
<1> QED BY <1>4, <1>5, <1>6, <1>7, <1>8, <1>9, <1>10, <1>11 DEF Handle

LEMMA AllowedPassedStep ==
  ASSUME Typed, Respected, NEW q \in Requests, Send(q) \/ Drop(q) \/ Handle(q),
         NEW p \in Requests
  PROVE  AllowedPassed(p)'
<1>1. runs \subseteq runs'
  BY RunsGrow
<1>2. CASE p # q
  <2>1. req'[p] = req[p]
    BY <1>2, StepIsOfOne DEF OthersStay
  <2> SUFFICES ASSUME req'[p].at = "allowed", req'[p].gate = "passed",
                      NEW f \in req'[p].known.failed, f.set = req'[p].set
               PROVE  \E r \in runs' : r.set = req'[p].set /\ r.passed /\ r.time >= f.time
    BY DEF AllowedPassed, Passes
  <2>2. \E r \in runs : r.set = req[p].set /\ r.passed /\ r.time >= f.time
    BY <2>1 DEF Respected, AllowedPassed, Passes
  <2> QED BY <1>1, <2>1, <2>2
<1>3. CASE p = q
  <2> SUFFICES ASSUME req'[q].at = "allowed", req'[q].gate = "passed",
                      NEW f \in req'[q].known.failed, f.set = req'[q].set
               PROVE  \E o \in runs' : o.set = req'[q].set /\ o.passed /\ o.time >= f.time
    BY <1>3 DEF AllowedPassed, Passes
  <2>1. req'[q].set = req[q].set /\ (GateReadsCases(q) \/ GateReadsRuns(q))
    BY AllowedBy
  <2>2. req'[q].known = req[q].known
    BY <2>1, KnownStays DEF Handle
  <2>3. req[q] \in Request /\ req \in [Requests -> Request]
    BY DEF Typed, TypeOK
  <2>4. GateReadsRuns(q)
    BY <2>1, <2>3 DEF GateReadsCases, Request
  <2>5. PICK r \in runs : IsLatest(r, req[q].set) /\ r.passed
    <3>1. ~Ends(q, "refused")
      BY EndsFields
    <3> QED BY <2>4, <3>1 DEF GateReadsRuns, Ends
  <2>6. f \in runs /\ f \in Run /\ r \in Run
    BY <2>2 DEF Respected, KnownFailed, Typed, TypeOK
  <2>7. r.time >= f.time
    BY <2>1, <2>5, <2>6 DEF IsLatest, Run
  <2>8. r \in runs' /\ r.set = req'[q].set /\ r.passed
    BY <1>1, <2>1, <2>5 DEF IsLatest
  <2> QED BY <2>7, <2>8
<1> QED BY <1>2, <1>3

LEMMA FailureStep ==
  ASSUME Typed, Respected, NEW q \in Requests, Send(q) \/ Drop(q) \/ Handle(q)
  PROVE  FailureIsRespected'
<1>1. runs \subseteq runs'
  BY RunsGrow
<1>2. ASSUME NEW e \in evaluations'
      PROVE  e \in evaluations \/ (/\ req[q].at = "allowed" /\ e.set = req[q].set
                                   /\ e.gate = req[q].gate /\ e.known = req[q].known)
  <2>1. CASE CommitEvaluation(q)
    BY <1>2, <2>1 DEF CommitEvaluation
  <2>2. CASE ~CommitEvaluation(q)
    <3>1. evaluations' = evaluations
      BY <2>2 DEF Send, Drop, Handle, Find, Insert, CommitSet, ReadSet, GateReadsCases,
         GateReadsRuns, GenerateReads, CommitCases, ChangeReads, CommitChange, TestReads,
         TestStamps, CommitTest
    <3> QED BY <1>2, <3>1
  <2> QED BY <2>1, <2>2
<1> SUFFICES ASSUME NEW e \in evaluations', NEW f \in e.known.failed,
                    f.set = e.set, e.gate = "passed"
             PROVE  \E r \in runs : r.set = e.set /\ r.passed /\ r.time >= f.time
  BY <1>1 DEF FailureIsRespected
<1>3. CASE e \in evaluations
  BY <1>3 DEF Respected, FailureIsRespected
<1>4. CASE /\ req[q].at = "allowed" /\ e.set = req[q].set
           /\ e.gate = req[q].gate /\ e.known = req[q].known
  BY <1>4 DEF Respected, AllowedPassed, Passes
<1> QED BY <1>2, <1>3, <1>4

(* A failing Rule Test Run that was recorded before an evaluation was      *)
(* asked for is not overlooked (gate.py).                                  *)
THEOREM FailuresRespected == Spec => []FailureIsRespected
<1>1. Init => Respected
  <2> SUFFICES ASSUME Init PROVE Respected
    OBVIOUS
  <2>1. FailureIsRespected
    BY DEF Init, FailureIsRespected
  <2>2. \A q \in Requests : req[q].at = "idle" /\ req[q].known.failed = {}
    BY DEF Init
  <2>3. \A q \in Requests : KnownFailed(q) /\ AllowedPassed(q)
    BY <2>2 DEF KnownFailed, AllowedPassed
  <2> QED BY <2>1, <2>3 DEF Respected
<1>2. Typed /\ Respected /\ [Next]_vars => Respected'
  <2> SUFFICES ASSUME Typed, Respected, [Next]_vars PROVE Respected'
    OBVIOUS
  <2>1. CASE UNCHANGED vars
    BY <2>1 DEF vars, Respected, FailureIsRespected, KnownFailed, AllowedPassed, Passes
  <2>2. CASE Next
    <3>1. PICK q \in Requests : Send(q) \/ Drop(q) \/ Handle(q)
      BY <2>2 DEF Next
    <3>2. \A p \in Requests : KnownFailed(p)'
      BY <3>1, KnownFailedStep
    <3>3. \A p \in Requests : AllowedPassed(p)'
      BY <3>1, AllowedPassedStep
    <3>4. FailureIsRespected'
      BY <3>1, FailureStep
    <3> QED BY <3>2, <3>3, <3>4 DEF Respected
  <2> QED BY <2>1, <2>2
<1>3. Respected => FailureIsRespected
  BY DEF Respected
<1> QED BY <1>1, <1>2, <1>3, InitTyped, NextTyped, PTL DEF Spec
-----------------------------------------------------------------------------
(* An inactive case was disabled by a request that is done: a change that  *)
(* is written over another one may lose it, but invents none.              *)
DisabledBy(c) == \E p \in Requests : KindOf[p] = "disable" /\ req[p].case = c
                                     /\ req[p].at = "done"
MadeWhenDone(c) == cases[c] # None => req[c[1]].at = "done"
InactiveIsDisabled(c) == cases[c] # None /\ ~cases[c].active => DisabledBy(c)
PayloadOfCase(q) == req[q].at = "read" /\ KindOf[q] \in Changing
                      => req[q].payload.set = cases[req[q].case].set
Exist(S) == \A c \in S : c \in CaseIds /\ cases[c] # None
AllDisabled(S, s) == \A c \in S : cases[c].set = s => DisabledBy(c)
AllowedOpen(q) == req[q].at = "allowed" /\ req[q].gate = "no cases"
                    => AllDisabled(req[q].known.cases, req[q].set)
Opened == /\ \A c \in CaseIds : MadeWhenDone(c) /\ InactiveIsDisabled(c)
          /\ \A q \in Requests : PayloadOfCase(q) /\ Exist(req[q].known.cases)
                                 /\ AllowedOpen(q)
          /\ \A e \in evaluations : Exist(e.known.cases)
          /\ OpenedByApprover

LEMMA DisabledStays ==
  ASSUME Typed, NEW q \in Requests, Send(q) \/ Drop(q) \/ Handle(q), NEW c, DisabledBy(c)
  PROVE  \E p \in Requests : KindOf[p] = "disable" /\ req'[p].case = c /\ req'[p].at = "done"
<1>1. PICK p \in Requests : KindOf[p] = "disable" /\ req[p].case = c /\ req[p].at = "done"
  BY DEF DisabledBy
<1>2. req'[p] = req[p]
  BY <1>1, StepIsOfOne DEF OthersStay, Open
<1> QED BY <1>1, <1>2

(* How a step may change a case.                                           *)
LEMMA CaseStep ==
  ASSUME Typed, Opened, NEW q \in Requests, Send(q) \/ Drop(q) \/ Handle(q),
         NEW c \in CaseIds
  PROVE  \/ cases'[c] = cases[c]
         \/ /\ cases[c] = None /\ c[1] = q /\ req'[q].at = "done" /\ cases'[c].active
         \/ /\ cases[c] # None /\ cases'[c] # None /\ cases'[c].set = cases[c].set
            /\ ~cases'[c].active =>
                 KindOf[q] = "disable" /\ req'[q].case = c /\ req'[q].at = "done"
<1>1. req[q] \in Request /\ req \in [Requests -> Request]
  BY DEF Typed, TypeOK
<1>2. CASE CommitCases(q)
  <2>1. PICK good \in [Slots -> BOOLEAN] :
          cases' = [x \in CaseIds |->
                      IF x[1] # q THEN cases[x]
                      ELSE [set |-> req[q].wanted, active |-> TRUE, good |-> good[x[2]]]]
    BY <1>2 DEF CommitCases
  <2>2. req'[q].at = "done" /\ req[q].at = "read"
    BY <1>2, EndsFields DEF CommitCases
  <2>3. CASE c[1] # q
    BY <2>1, <2>3
  <2>4. CASE c[1] = q
    <3>1. cases[c] = None
      BY <2>2, <2>4 DEF Opened, MadeWhenDone
    <3>2. cases'[c] = [set |-> req[q].wanted, active |-> TRUE, good |-> good[c[2]]]
      BY <2>1, <2>4
    <3> QED BY <2>2, <2>4, <3>1, <3>2
  <2> QED BY <2>3, <2>4
<1>3. CASE CommitChange(q)
  <2>1. PICK good \in BOOLEAN :
          cases' = [cases EXCEPT ![req[q].case] = Rewritten(KindOf[q], req[q].payload, good)]
    BY <1>3 DEF CommitChange
  <2>2. /\ req[q].case \in CaseIds /\ req[q].payload \in Case
        /\ req[q].payload.set = cases[req[q].case].set
    BY <1>3 DEF CommitChange, Typed, AllWellFormed, WellFormed, Changing, Opened,
       PayloadOfCase
  <2>3. CASE c # req[q].case
    BY <2>1, <2>3 DEF Typed, TypeOK
  <2>4. CASE c = req[q].case
    <3> DEFINE new == Rewritten(KindOf[q], req[q].payload, good)
    <3>1. cases'[c] = new
      BY <2>1, <2>4 DEF Typed, TypeOK
    <3>2. /\ new \in Case /\ new.set = req[q].payload.set
          /\ new.active = (KindOf[q] # "disable")
      BY <2>2 DEF Rewritten, Case
    <3>3. req'[q].at = "done" /\ req'[q].case = req[q].case
      <4>1. Ends(q, "done")
        BY <1>3 DEF CommitChange
      <4> QED BY <1>1, <4>1 DEF Ends, Request
    <3>5. cases[c] # None
      BY <1>3, <2>4 DEF CommitChange, Typed, AllWellFormed, WellFormed, Changing
    <3> HIDE DEF new
    <3> QED BY <2>2, <2>4, <3>1, <3>2, <3>3, <3>5, GateAssumption
  <2> QED BY <2>3, <2>4
<1>4. CASE ~CommitCases(q) /\ ~CommitChange(q)
  <2>1. cases' = cases
    BY <1>4 DEF Send, Drop, Handle, Find, Insert, CommitSet, ReadSet, GateReadsCases,
       GateReadsRuns, CommitEvaluation, GenerateReads, ChangeReads, TestReads, TestStamps,
       CommitTest
  <2> QED BY <2>1
<1> QED BY <1>2, <1>3, <1>4

LEMMA CasesStep ==
  ASSUME Typed, Opened, NEW q \in Requests, Send(q) \/ Drop(q) \/ Handle(q),
         NEW c \in CaseIds
  PROVE  /\ cases[c] # None => cases'[c] # None /\ cases'[c].set = cases[c].set
         /\ MadeWhenDone(c)' /\ InactiveIsDisabled(c)'
<1>1. cases[c] # None => cases'[c] # None /\ cases'[c].set = cases[c].set
  BY CaseStep
<1>2. MadeWhenDone(c)'
  <2>1. c[1] \in Requests
    BY DEF CaseIds
  <2>2. req[c[1]].at = "done" => req'[c[1]].at = "done"
    BY <2>1, StepIsOfOne DEF OthersStay, Open
  <2> QED BY <2>2, CaseStep DEF Opened, MadeWhenDone
<1>3. InactiveIsDisabled(c)'
  <2> SUFFICES ASSUME cases'[c] # None, ~cases'[c].active
               PROVE  \E p \in Requests : KindOf[p] = "disable" /\ req'[p].case = c
                                          /\ req'[p].at = "done"
    BY DEF InactiveIsDisabled, DisabledBy
  <2>1. CASE cases'[c] = cases[c]
    <3>1. DisabledBy(c)
      BY <2>1 DEF Opened, InactiveIsDisabled
    <3> QED BY <3>1, DisabledStays
  <2>2. CASE KindOf[q] = "disable" /\ req'[q].case = c /\ req'[q].at = "done"
    BY <2>2
  <2> QED BY <2>1, <2>2, CaseStep
<1> QED BY <1>1, <1>2, <1>3

LEMMA PayloadStep ==
  ASSUME Typed, Opened, NEW q \in Requests, Send(q) \/ Drop(q) \/ Handle(q),
         NEW p \in Requests
  PROVE  PayloadOfCase(p)'
<1> SUFFICES ASSUME req'[p].at = "read", KindOf[p] \in Changing
             PROVE  req'[p].payload.set = cases'[req'[p].case].set
  BY DEF PayloadOfCase
<1>1. req[p] \in Request /\ req \in [Requests -> Request]
  BY DEF Typed, TypeOK
<1>2. CASE req'[p] = req[p]
  <2>1. req[p].case \in CaseIds /\ cases[req[p].case] # None
    BY <1>2 DEF Typed, AllWellFormed, WellFormed
  <2>2. req[p].payload.set = cases[req[p].case].set
    BY <1>2 DEF Opened, PayloadOfCase
  <2> QED BY <1>2, <2>1, <2>2, CasesStep
<1>3. CASE p = q /\ ChangeReads(q)
  <2>1. /\ req'[q].payload = cases[req[q].case] /\ req'[q].case = req[q].case
        /\ cases' = cases
    BY <1>1, <1>3 DEF ChangeReads, Request
  <2> QED BY <1>3, <2>1
<1>4. CASE p = q /\ ~ChangeReads(q)
  <2>1. ASSUME NEW how \in {"absent", "conflict", "refused", "done", "dropped"},
               Ends(q, how)
        PROVE  req'[q].at # "read"
    BY <2>1, EndsFields
  <2>2. ASSUME NEW id \in Requests, Resolved(q, id) PROVE req'[q].at # "read"
    BY <2>2, ResolvedFields
  <2>3. ~Send(q)
    BY <1>4, SendFields
  <2>4. ~Drop(q) /\ ~CommitSet(q) /\ ~CommitEvaluation(q) /\ ~CommitCases(q)
        /\ ~CommitChange(q) /\ ~CommitTest(q)
    BY <1>4, <2>1 DEF Drop, CommitSet, CommitEvaluation, CommitCases, CommitChange,
       CommitTest
  <2>5. ~Find(q) /\ ~Insert(q)
    <3>1. \A s \in sets : s.id \in Requests
      BY DEF Typed, TypeOK, Set
    <3> QED BY <1>4, <2>1, <2>2, <3>1 DEF Find, Insert
  <2>6. ~ReadSet(q)
    <3> SUFFICES ASSUME ReadSet(q) PROVE FALSE
      OBVIOUS
    <3>1. PICK s \in sets : req' = [req EXCEPT ![q].at = "resolved", ![q].set = s.id,
                                              ![q].version = s.version]
      BY DEF ReadSet
    <3> QED BY <1>1, <1>4, <3>1 DEF Request
  <2>7. ~GateReadsCases(q)
    BY <1>1, <1>4 DEF GateReadsCases, Request
  <2>8. ~GateReadsRuns(q)
    <3> SUFFICES ASSUME GateReadsRuns(q) PROVE FALSE
      OBVIOUS
    <3>1. \/ Ends(q, "refused")
          \/ req' = [req EXCEPT ![q].at = "allowed", ![q].gate = "passed"]
      BY DEF GateReadsRuns, Ends
    <3>2. CASE req' = [req EXCEPT ![q].at = "allowed", ![q].gate = "passed"]
      BY <1>1, <1>4, <3>2 DEF Request
    <3> QED BY <1>4, <2>1, <3>1, <3>2
  <2>9. ~GenerateReads(q) /\ ~TestReads(q) /\ ~TestStamps(q)
    BY <1>4 DEF GenerateReads, TestReads, TestStamps, Changing
  <2> QED BY <1>4, <2>3, <2>4, <2>5, <2>6, <2>7, <2>8, <2>9 DEF Handle
<1> QED BY <1>2, <1>3, <1>4, StepIsOfOne DEF OthersStay

LEMMA ExistStep ==
  ASSUME Typed, Opened, NEW q \in Requests, Send(q) \/ Drop(q) \/ Handle(q),
         NEW p \in Requests
  PROVE  \A c \in req'[p].known.cases : c \in CaseIds /\ cases'[c] # None
<1>1. CASE req'[p].known = req[p].known
  BY <1>1, CasesStep DEF Opened, Exist
<1>2. CASE p = q /\ Send(q)
  <2> DEFINE failed == {r \in runs : ~r.passed}
             known == {x \in CaseIds : cases[x] # None}
  <2>1. req'[q].known = [failed |-> failed, cases |-> known]
    BY <1>2, SendFields
  <2> HIDE DEF failed, known
  <2>2. req'[q].known.cases = known
    BY <2>1
  <2> USE DEF known
  <2> QED BY <1>2, <2>2, CasesStep
<1> QED BY <1>1, <1>2, KnownStays, StepIsOfOne DEF OthersStay

LEMMA AllowedOpenStep ==
  ASSUME Typed, Opened, NEW q \in Requests, Send(q) \/ Drop(q) \/ Handle(q),
         NEW p \in Requests
  PROVE  AllowedOpen(p)'
<1> SUFFICES ASSUME req'[p].at = "allowed", req'[p].gate = "no cases",
                    NEW c \in req'[p].known.cases, cases'[c].set = req'[p].set
             PROVE  \E o \in Requests : KindOf[o] = "disable" /\ req'[o].case = c
                                        /\ req'[o].at = "done"
  BY DEF AllowedOpen, AllDisabled, DisabledBy
<1>1. CASE p # q
  <2>1. req'[p] = req[p]
    BY <1>1, StepIsOfOne DEF OthersStay
  <2>2. c \in CaseIds /\ cases[c] # None
    BY <2>1 DEF Opened, Exist
  <2>3. cases[c].set = req[p].set
    BY <2>1, <2>2, CasesStep
  <2>4. DisabledBy(c)
    BY <2>1, <2>3 DEF Opened, AllowedOpen, AllDisabled
  <2>5. PICK o \in Requests : KindOf[o] = "disable" /\ req[o].case = c /\ req[o].at = "done"
    BY <2>4 DEF DisabledBy
  <2>6. req'[o] = req[o]
    BY <2>5, StepIsOfOne DEF OthersStay, Open
  <2> QED BY <2>5, <2>6
<1>2. CASE p = q
  <2>1. req'[q].set = req[q].set /\ (GateReadsCases(q) \/ GateReadsRuns(q))
    BY <1>2, AllowedBy
  <2>2. req'[q].known = req[q].known
    BY <2>1, KnownStays DEF Handle
  <2>3. req[q] \in Request /\ req \in [Requests -> Request]
    BY DEF Typed, TypeOK
  <2>4. ~GateReadsRuns(q)
    <3> SUFFICES ASSUME GateReadsRuns(q) PROVE FALSE
      OBVIOUS
    <3>1. ~Ends(q, "refused")
      <4> SUFFICES ASSUME Ends(q, "refused") PROVE FALSE
        OBVIOUS
      <4>1. req'[q].at = "refused"
        BY EndsFields
      <4> QED BY <1>2, <4>1
    <3>2. req' = [req EXCEPT ![q].at = "allowed", ![q].gate = "passed"]
      BY <3>1 DEF GateReadsRuns, Ends
    <3> QED BY <1>2, <2>3, <3>2 DEF Request
  <2>5. GateReadsCases(q) /\ cases' = cases
    BY <2>1, <2>4 DEF GateReadsCases
  <2>6. list_active_rule_test_cases(req[q].set) = {}
    BY <1>2, <2>3, <2>5 DEF GateReadsCases, Request
  <2>7. c \in CaseIds /\ cases[c] # None
    BY <1>2, <2>2 DEF Opened, Exist
  <2>8. ~cases[c].active
    BY <1>2, <2>1, <2>5, <2>6, <2>7 DEF list_active_rule_test_cases, CasesOf
  <2>9. DisabledBy(c)
    BY <2>7, <2>8 DEF Opened, InactiveIsDisabled
  <2>10. PICK o \in Requests : KindOf[o] = "disable" /\ req[o].case = c /\ req[o].at = "done"
    BY <2>9 DEF DisabledBy
  <2>11. req'[o] = req[o]
    BY <2>10, StepIsOfOne DEF OthersStay, Open
  <2> QED BY <2>10, <2>11
<1> QED BY <1>1, <1>2

LEMMA EvaluationsStep ==
  ASSUME Typed, Opened, NEW q \in Requests, Send(q) \/ Drop(q) \/ Handle(q),
         NEW e \in evaluations'
  PROVE  /\ \A c \in e.known.cases : c \in CaseIds /\ cases'[c] # None
         /\ e.gate = "no cases" =>
              \A c \in e.known.cases : cases'[c].set = e.set =>
                \E p \in Requests : KindOf[p] = "disable" /\ req'[p].case = c
                                     /\ req'[p].at = "done"
<1>1. /\ Exist(e.known.cases)
      /\ e.gate = "no cases" => AllDisabled(e.known.cases, e.set)
  <2>1. CASE e \in evaluations
    BY <2>1 DEF Opened, OpenedByApprover, AllDisabled, DisabledBy
  <2>2. CASE CommitEvaluation(q) /\ e \notin evaluations
    <3>1. /\ req[q].at = "allowed" /\ e.set = req[q].set
          /\ e.gate = req[q].gate /\ e.known = req[q].known
      BY <2>2 DEF CommitEvaluation
    <3> QED BY <3>1 DEF Opened, AllowedOpen
  <2>3. CASE ~CommitEvaluation(q)
    <3>1. evaluations' = evaluations
      BY <2>3 DEF Send, Drop, Handle, Find, Insert, CommitSet, ReadSet, GateReadsCases,
         GateReadsRuns, GenerateReads, CommitCases, ChangeReads, CommitChange, TestReads,
         TestStamps, CommitTest
    <3> QED BY <2>1, <3>1
  <2> QED BY <2>1, <2>2, <2>3
<1>2. \A c \in e.known.cases : c \in CaseIds /\ cases[c] # None /\ cases'[c] # None
                              /\ cases'[c].set = cases[c].set
  BY <1>1, CasesStep DEF Exist
<1>3. ASSUME e.gate = "no cases", NEW c \in e.known.cases, cases'[c].set = e.set
      PROVE  \E p \in Requests : KindOf[p] = "disable" /\ req'[p].case = c
                                 /\ req'[p].at = "done"
  <2>1. DisabledBy(c)
    BY <1>1, <1>2, <1>3 DEF AllDisabled
  <2> QED BY <2>1, DisabledStays
<1> QED BY <1>2, <1>3

(* Without a Rule Test Run, only an Approver who disables every known case *)
(* of a set lets an evaluation of it through (gate.py).                    *)
THEOREM ApproverOpens == Spec => []OpenedByApprover
<1>1. Init => Opened
  <2> SUFFICES ASSUME Init PROVE Opened
    OBVIOUS
  <2>1. evaluations = {} /\ \A c \in CaseIds : cases[c] = None
    BY DEF Init
  <2>2. \A q \in Requests : req[q].at = "idle" /\ req[q].known.cases = {}
    BY DEF Init
  <2> QED BY <2>1, <2>2 DEF Opened, OpenedByApprover, MadeWhenDone, InactiveIsDisabled,
             PayloadOfCase, Exist, AllowedOpen
<1>2. Typed /\ Opened /\ [Next]_vars => Opened'
  <2> SUFFICES ASSUME Typed, Opened, [Next]_vars PROVE Opened'
    OBVIOUS
  <2>1. CASE UNCHANGED vars
    <3>1. \A c \in CaseIds : (MadeWhenDone(c) /\ InactiveIsDisabled(c))'
      BY <2>1 DEF vars, Opened, MadeWhenDone, InactiveIsDisabled, DisabledBy
    <3>2. \A q \in Requests : (PayloadOfCase(q) /\ Exist(req[q].known.cases))'
      BY <2>1 DEF vars, Opened, PayloadOfCase, Exist
    <3>3. \A q \in Requests : AllowedOpen(q)'
      BY <2>1 DEF vars, Opened, AllowedOpen, AllDisabled, DisabledBy
    <3>4. (OpenedByApprover /\ \A e \in evaluations : Exist(e.known.cases))'
      BY <2>1 DEF vars, Opened, OpenedByApprover, Exist
    <3> QED BY <3>1, <3>2, <3>3, <3>4 DEF Opened
  <2>2. CASE Next
    <3>1. PICK q \in Requests : Send(q) \/ Drop(q) \/ Handle(q)
      BY <2>2 DEF Next
    <3>2. \A c \in CaseIds : (MadeWhenDone(c) /\ InactiveIsDisabled(c))'
      BY <3>1, CasesStep
    <3>3. \A p \in Requests : (PayloadOfCase(p) /\ AllowedOpen(p))'
      BY <3>1, PayloadStep, AllowedOpenStep
    <3>4. \A p \in Requests : Exist(req[p].known.cases)'
      BY <3>1, ExistStep DEF Exist
    <3>5. \A e \in evaluations' : Exist(e.known.cases)'
      BY <3>1, EvaluationsStep DEF Exist
    <3>6. OpenedByApprover'
      BY <3>1, EvaluationsStep DEF OpenedByApprover
    <3> QED BY <3>2, <3>3, <3>4, <3>5, <3>6 DEF Opened
  <2> QED BY <2>1, <2>2
<1>3. Opened => OpenedByApprover
  BY DEF Opened
<1> QED BY <1>1, <1>2, <1>3, InitTyped, NextTyped, PTL DEF Spec
=============================================================================
