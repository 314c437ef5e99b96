----------------------------- MODULE MCHttpCache -----------------------------
(* Small instances of HttpCache. *)
EXTENDS HttpCache

CONSTANTS f1, f2, q1, q2

TwoFetchers == {f1, f2}
OneProcess == {q1}
TwoProcesses == {q1, q2}
\* both fetches are goroutines of one toolbox
SameProcess == [f \in Fetchers |-> q1]
\* each fetch has a toolbox of its own, on one cache directory
OwnProcess == [f \in Fetchers |-> IF f = f1 THEN q1 ELSE q2]
NineInodes == 1..9
AllPolicies == [force : BOOLEAN, manual : BOOLEAN]
Ordinary == {[force |-> FALSE, manual |-> FALSE]}
=============================================================================
