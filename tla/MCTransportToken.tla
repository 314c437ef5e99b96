-------------------------- MODULE MCTransportToken --------------------------
(* Small instances of TransportToken. *)
EXTENDS TransportToken, TLC

CONSTANTS c1, c2, c3, q1, q2

TwoClients == {c1, c3}
ThreeClients == {c1, c2, c3}
TwoProcesses == {q1, q2}
\* c1 and c2 are goroutines of one toolbox, c3 of an embedded runtime
ToolboxAndCli == [c \in Clients |-> IF c = c3 THEN q2 ELSE q1]

Symmetry == Permutations({c1, c2})
=============================================================================
