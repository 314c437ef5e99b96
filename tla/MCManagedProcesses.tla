------------------------- MODULE MCManagedProcesses -------------------------
(* Small instances of ManagedProcesses. *)
EXTENDS ManagedProcesses

CONSTANTS c1, c2, p1, p2

TwoCalls == {c1, c2}
TwoPids == {p1, p2}
=============================================================================
