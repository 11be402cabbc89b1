------------------------ MODULE MCSandcastlePipeline ------------------------
(* TLC harness of SandcastlePipeline.                                      *)
EXTENDS SandcastlePipeline

(* Filed in dependency order: the second waits for the first, the fifth    *)
(* for the third; the fourth is a PRD.                                     *)
InOrder == [i \in 1..5 |-> CASE i = 2 -> {1} [] i = 5 -> {3} [] OTHER -> {}]
=============================================================================
