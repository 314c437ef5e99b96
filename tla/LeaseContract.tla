--------------------------- MODULE LeaseContract ---------------------------
(***************************************************************************)
(* What the runtime promises about sessions and its own life, without      *)
(* timers, locks or goroutines.  A session is attached or not.  The        *)
(* runtime is open until somebody stops it or, when it belongs to its      *)
(* sessions, until the last of them is gone; from then on it is doomed,    *)
(* and a doomed runtime closes.                                            *)
(***************************************************************************)
CONSTANTS
  Sessions,
  OwnerExits,    \* the runtime ends with its last session
  Stoppable      \* a stop request is honoured

VARIABLES attached, phase

contractVars == <<attached, phase>>

ContractInit ==
  /\ attached = {}
  /\ phase = "open"

\* A request the runtime accepted before it closed may still attach.
Attach(s) ==
  /\ attached' = attached \cup {s}
  /\ UNCHANGED phase

Detach(s) ==
  /\ s \in attached
  /\ attached' = attached \ {s}
  /\ phase' = IF OwnerExits /\ phase = "open" /\ attached = {s} THEN "doomed" ELSE phase

Stop ==
  /\ Stoppable
  /\ phase = "open"
  /\ phase' = "doomed"
  /\ UNCHANGED attached

Terminate ==
  /\ phase = "doomed"
  /\ phase' = "closed"
  /\ UNCHANGED attached

ContractNext ==
  \/ \E s \in Sessions : Attach(s) \/ Detach(s)
  \/ Stop
  \/ Terminate

ContractSafety == ContractInit /\ [][ContractNext]_contractVars

ContractSpec == ContractSafety /\ WF_contractVars(Terminate)
=============================================================================
