--------------------------- MODULE ApprovedPolicy ---------------------------
(***************************************************************************)
(* What the Structured Policy Store promises (ADR-0001, ADR-0002,          *)
(* CONTEXT.md), without tables, payloads or requests: a human approves     *)
(* values of Rules, and a Policy Version is a non-empty set of approved    *)
(* values, one per Rule, that never changes once it exists.                *)
(***************************************************************************)
CONSTANTS Rules, Values, Versions

VARIABLES approved,      \* pairs <<rule, value>> a human has approved
          published      \* Versions -> set of such pairs; {} before publishing

vars == <<approved, published>>

OneValuePerRule(S) == \A p, q \in S : p[1] = q[1] => p = q

Init == /\ approved = {}
        /\ published = [v \in Versions |-> {}]

(* One decision may approve several Rules (bulk approval). *)
Approve == /\ approved \subseteq approved'
           /\ approved' \subseteq Rules \X Values
           /\ UNCHANGED published

Publish(v, S) == /\ published[v] = {}
                 /\ S # {}
                 /\ S \subseteq approved
                 /\ OneValuePerRule(S)
                 /\ published' = [published EXCEPT ![v] = S]
                 /\ UNCHANGED approved

Next == \/ Approve
        \/ \E v \in Versions, S \in SUBSET approved : Publish(v, S)

Spec == Init /\ [][Next]_vars
=============================================================================
