---------------------------- MODULE VersionDiff ----------------------------
(***************************************************************************)
(* A Policy Version Diff of any two lists of Rules, and what an Approver   *)
(* of a re-ingestion relies on: candidates and current are the lists       *)
(* diff_candidate_rules_against_current_policy_version is called with, the *)
(* diff is computed in one step.                                           *)
(***************************************************************************)
EXTENDS PolicyDiff

CONSTANTS Contents,    \* what a Rule can say
          MaxLen       \* longest candidate list and longest baseline

(* The number-normalised shape is computed from the statement.             *)
ASSUME DiffAssumption ==
  /\ MaxLen \in Nat
  /\ \A a, b \in Contents : a.statement = b.statement => a.shape = b.shape

VARIABLES candidates, current, computed, diff
vars == <<candidates, current, computed, diff>>

Signed(content) ==
  [content |-> content,
   signature |-> [exact   |-> SemanticSignature(content),
                  relaxed |-> RelaxedSignature(content)]]
Lists == UNION {[1..n -> {Signed(c) : c \in Contents}] : n \in 0..MaxLen}

Init == /\ candidates \in Lists
        /\ current \in Lists
        /\ computed = FALSE
        /\ diff = [unchanged |-> {}, changed |-> {}, added |-> {}, removed |-> {}]

Compute == /\ ~computed
           /\ computed' = TRUE
           /\ diff' = Diff(candidates, current)
           /\ UNCHANGED <<candidates, current>>

Spec == Init /\ [][Compute]_vars

-----------------------------------------------------------------------------
CandidatesOf(pairs) == {p.candidate : p \in pairs}
CurrentOf(pairs) == {p.current : p \in pairs}
Same(a, b, kind) == a.signature[kind] = b.signature[kind]

(* Every candidate lands in exactly one of unchanged, changed and added,   *)
(* every current rule in exactly one of unchanged, changed and removed,    *)
(* and no rule is matched twice: the deques of diff.py are consumed by     *)
(* both passes without losing or reusing a rule.                           *)
Partition(parts, S) ==
  /\ UNION {parts[i] : i \in 1..3} = S
  /\ \A i, j \in 1..3 : i # j => parts[i] \cap parts[j] = {}

OneToOne(pairs) ==
  \A p, q \in pairs : p.candidate = q.candidate <=> p.current = q.current

DiffIsPartition ==
  computed =>
    LET u == diff.unchanged
        c == diff.changed
    IN  /\ Partition(<<CandidatesOf(u), CandidatesOf(c), diff.added>>,
                     DOMAIN candidates)
        /\ Partition(<<CurrentOf(u), CurrentOf(c), diff.removed>>,
                     DOMAIN current)
        /\ OneToOne(u \cup c)

(* A pair has the signature of its pass in common, and the greedy passes   *)
(* miss nothing: a candidate that is changed or added has the exact        *)
(* signature of no current rule left over, an added one no relaxed one.    *)
PairsMatch ==
  computed =>
    /\ \A p \in diff.unchanged :
         Same(candidates[p.candidate], current[p.current], "exact")
    /\ \A p \in diff.changed :
         Same(candidates[p.candidate], current[p.current], "relaxed")
    /\ \A n \in CandidatesOf(diff.changed) \cup diff.added,
         i \in CurrentOf(diff.changed) \cup diff.removed :
         ~Same(candidates[n], current[i], "exact")
    /\ \A n \in diff.added, i \in diff.removed :
         ~Same(candidates[n], current[i], "relaxed")

(* Reference: the k-th element of S with a signature is matched iff T has  *)
(* at least k elements with it.                                            *)
Matched(S, list, T, other, kind) ==
  {i \in S : Cardinality({j \in S : j <= i /\ Same(list[j], list[i], kind)})
               <= Cardinality({j \in T : Same(other[j], list[i], kind)})}

(* The two loops over mutable deques compute the counting definition: per  *)
(* signature as many pairs as both sides have rules, the earliest first,   *)
(* exact matches before relaxed ones.                                      *)
DiffMatchesCounting ==
  computed =>
    LET C == DOMAIN candidates
        B == DOMAIN current
        uC == Matched(C, candidates, B, current, "exact")
        uB == Matched(B, current, C, candidates, "exact")
        cC == Matched(C \ uC, candidates, B \ uB, current, "relaxed")
        cB == Matched(B \ uB, current, C \ uC, candidates, "relaxed")
    IN  /\ CandidatesOf(diff.unchanged) = uC
        /\ CurrentOf(diff.unchanged) = uB
        /\ CandidatesOf(diff.changed) = cC
        /\ CurrentOf(diff.changed) = cB

(* The order in which the snapshot lists its rules (they are sorted by id) *)
(* does not decide what an Approver is asked to review: the category of    *)
(* every candidate is the same for the baseline in any other order.        *)
Orders(n) == {p \in [1..n -> 1..n] : \A i, j \in 1..n : p[i] = p[j] => i = j}

BaselineOrderIrrelevant ==
  computed =>
    \A p \in Orders(Len(current)) :
      LET d == Diff(candidates, [i \in DOMAIN current |-> current[p[i]]])
      IN  /\ CandidatesOf(diff.unchanged) = CandidatesOf(d.unchanged)
          /\ CandidatesOf(diff.changed) = CandidatesOf(d.changed)
          /\ diff.added = d.added

(* What an Approver of a re-ingestion relies on: nothing is lost or shown  *)
(* twice, the pairs are the ones of the definition, in whatever order the  *)
(* current rules are stored.                                               *)
DiffIsSound ==
  /\ DiffIsPartition
  /\ PairsMatch
  /\ DiffMatchesCounting
  /\ BaselineOrderIrrelevant

(* CONTEXT.md says an Unchanged Rule semantically matches a published one  *)
(* in statement, enforceability, scope, condition, applicability and       *)
(* exceptions.  _scope_signature drops six Scope dimensions.               *)
UnchangedMeansSameScope ==
  computed => \A p \in diff.unchanged :
                candidates[p.candidate].content.scope = current[p.current].content.scope
=============================================================================
