--------------------------- MODULE MCReleaseGate ---------------------------
(* Requests by what they ask for; two Rule Test Runs are interchangeable.  *)
EXTENDS ReleaseGate, TLC

CONSTANTS c1, g1, d1, x1, t1, t2, e1, v1
MCKindOf == [q \in Requests |->
               IF q = c1 THEN "compile"
               ELSE IF q = g1 THEN "generate"
               ELSE IF q = d1 THEN "disable"
               ELSE IF q = x1 THEN "edit"
               ELSE IF q \in {t1, t2} THEN "test" ELSE "evaluate"]
Tests == Permutations({t1, t2})
=============================================================================
