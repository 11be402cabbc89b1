-------------------------- MODULE MCDocumentStore --------------------------
(* TLC harness of DocumentStore: requests are interchangeable. *)
EXTENDS DocumentStore, TLC

Symmetry == Permutations(Requests)
=============================================================================
