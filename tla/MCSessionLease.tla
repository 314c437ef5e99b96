--------------------------- MODULE MCSessionLease ---------------------------
(* Small instances of SessionLease. *)
EXTENDS SessionLease

CONSTANTS s1, s2, h1, h2

TwoSessions == {s1, s2}
OneHandler == {h1}
TwoHandlers == {h1, h2}
ThreeStamps == 1..3
=============================================================================
