--------------------------- MODULE MCToolExecution ---------------------------
(* Small instances of ToolExecution. *)
EXTENDS ToolExecution

CONSTANTS c1, c2, c3

ThreeCalls == {c1, c2, c3}
=============================================================================
