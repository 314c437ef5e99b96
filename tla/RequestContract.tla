--------------------------- MODULE RequestContract ---------------------------
(***************************************************************************)
(* What the caller of an MCP client (the interface Client of               *)
(* pkg/mcp/client/types.go) may rely on, without transports, sessions,     *)
(* streams and repetitions.  One request is pending at a time, under a     *)
(* number of its own.  The server, outside the repository, may run a       *)
(* request late, or one that was given up, and a list of the tools more    *)
(* than once; it runs a tool call once at the most.  A request that        *)
(* returns has been run and returns its own answer; any other returns an   *)
(* error.                                                                  *)
(***************************************************************************)
EXTENDS Naturals, Sequences

VARIABLES
  pending,  \* the caller's request: [method, id]
  log,      \* what the server has run: [method, id, ...]
  outcome   \* of the last request: whose answer it returned

contractVars == <<pending, log, outcome>>

NoRequest == [method |-> "none", id |-> 0]
NoOutcome == [asked |-> 0, got |-> 0]
HasRun(n) == \E i \in DOMAIN log : log[i].id = n

ContractInit == pending = NoRequest /\ log = << >> /\ outcome = NoOutcome

\* under any number that the server has not seen
Ask(method) ==
  /\ pending = NoRequest
  /\ pending' = [method |-> method, id |-> pending'.id] /\ ~HasRun(pending'.id)
  /\ UNCHANGED <<log, outcome>>

Execute ==
  /\ Len(log') = Len(log) + 1
  /\ LET entry == log'[Len(log')] IN
     /\ log' = Append(log, entry)
     /\ entry.method = "call" => ~HasRun(entry.id)
     /\ pending # NoRequest /\ entry.id = pending.id => entry.method = pending.method
  /\ UNCHANGED <<pending, outcome>>

Return ==
  /\ pending # NoRequest
  /\ \E i \in DOMAIN log : log[i].id = pending.id /\ log[i].method = pending.method
  /\ pending' = NoRequest /\ outcome' = [asked |-> pending.id, got |-> pending.id]
  /\ UNCHANGED log

ReturnError ==
  /\ pending # NoRequest
  /\ pending' = NoRequest /\ outcome' = NoOutcome
  /\ UNCHANGED log

ContractNext ==
  \/ \E method \in {"list", "call"} : Ask(method)
  \/ Execute
  \/ Return
  \/ ReturnError

ContractSpec == ContractInit /\ [][ContractNext]_contractVars
=============================================================================
