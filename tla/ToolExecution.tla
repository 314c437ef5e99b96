---------------------------- MODULE ToolExecution ----------------------------
(***************************************************************************)
(* POST /v1/tools/execute from the decision to the reply                   *)
(* (internal/runtime/server.go), the attempts of an HTTP tool              *)
(* (pkg/exec/exec.go) and the audit log (pkg/audit/store.go).              *)
(*                                                                         *)
(* What the decision is belongs to ToolAuthorization.  Calls run           *)
(* concurrently, a client may go away, the toolbox may close its server,   *)
(* exit or die under its calls and be started again, and a write to the    *)
(* log may break off.  The other requests that leave a record append it in *)
(* the same way.                                                           *)
(***************************************************************************)
EXTENDS Naturals, Sequences, FiniteSets

CONSTANTS
  Calls,
  maxAttempts,    \* 3 in Execute
  MaxRestarts,    \* bound on the restarts of the toolbox
  MaxBroken       \* bound on the writes that break off

ASSUME ExecutionAssumption ==
  /\ maxAttempts \in Nat \ {0}
  /\ MaxRestarts \in Nat
  /\ MaxBroken \in Nat

VARIABLES
  calls,      \* the goroutine of each call
  log,        \* the lines of the audit log
  received,   \* history: how often the upstream has got the request
  gone,       \* calls whose context is cancelled
  toolbox,
  restarts,
  broken

vars == <<calls, log, received, gone, toolbox, restarts, broken>>
processVars == <<toolbox, restarts>>

Attempts == 0..maxAttempts - 1

CallPCs == {"idle", "attempt", "sent", "arrived", "sleep", "record", "reply",
            "answered", "rejected", "killed"}
Over == {"answered", "rejected", "killed"}
Events == {"tool_execution", "execution_error", "authz_denial"}
\* event: what recordEvent is to write, once that is known
Call == [pc : CallPCs, attempt : Attempts, event : Events \cup {"none"}]
Fresh(pc) == [pc |-> pc, attempt |-> 0, event |-> "none"]

Record == [call : Calls, event : Events, retries : Attempts]
\* A line that breaks off has no newline: what is appended next is glued to it,
\* and neither can be decoded.
Whole(r) == [text |-> {r}, ended |-> TRUE]
Torn == [text |-> {}, ended |-> FALSE]
Glued == [text |-> {}, ended |-> TRUE]
Lines == {Whole(r) : r \in Record} \cup {Torn, Glued}
EndedLog == log # <<>> => log[Len(log)].ended

Recorded(c) == {i \in DOMAIN log : \E r \in log[i].text : r.call = c}

At(c, pc) == calls[c].pc = pc
Goto(c, pc) == calls' = [calls EXCEPT ![c].pc = pc]
\* The retries are a field of a result, an error has none.
Outcome(c, event, retries) ==
  /\ calls' = [calls EXCEPT ![c] = [pc |-> "record", attempt |-> retries, event |-> event]]
  /\ gone' = gone \ {c}

Init ==
  /\ calls = [c \in Calls |-> Fresh("idle")]
  /\ log = <<>>
  /\ received = [c \in Calls |-> 0]
  /\ gone = {}
  /\ toolbox = "serving"
  /\ restarts = 0
  /\ broken = 0

-----------------------------------------------------------------------------
(* handleExecuteTool up to executeTool.                                    *)

\* A request that cannot be decoded, no catalog, no valid token, no such tool
Reject(c) ==
  /\ At(c, "idle")
  /\ toolbox = "serving"
  /\ Goto(c, "rejected")
  /\ UNCHANGED <<log, received, gone, processVars, broken>>

Deny(c) ==
  /\ At(c, "idle")
  /\ toolbox = "serving"
  /\ Outcome(c, "authz_denial", 0)
  /\ UNCHANGED <<log, received, processVars, broken>>

Allow(c) ==
  /\ At(c, "idle")
  /\ toolbox = "serving"
  /\ Goto(c, "attempt")
  /\ UNCHANGED <<log, received, gone, processVars, broken>>

-----------------------------------------------------------------------------
(* Execute, and the upstream it calls.                                     *)

Send(c) ==
  /\ At(c, "attempt")
  /\ c \notin gone
  /\ Goto(c, "sent")
  /\ UNCHANGED <<log, received, gone, processVars, broken>>

Arrive(c) ==
  /\ At(c, "sent")
  /\ received' = [received EXCEPT ![c] = @ + 1]
  /\ Goto(c, "arrived")
  /\ UNCHANGED <<log, gone, processVars, broken>>

\* Credentials that cannot be resolved, an error of client.Do, which may have
\* delivered the request, or a body that cannot be read
ExecuteFails(c) ==
  /\ calls[c].pc \in {"attempt", "sent", "arrived"}
  /\ Outcome(c, "execution_error", 0)
  /\ UNCHANGED <<log, received, processVars, broken>>

FaultyFinalAnswer(c) ==
  /\ At(c, "arrived")
  /\ Outcome(c, "tool_execution", 0)
  /\ UNCHANGED <<log, received, processVars, broken>>
FinalAnswer(c) ==
  /\ At(c, "arrived")
  /\ Outcome(c, "tool_execution", calls[c].attempt)
  /\ UNCHANGED <<log, received, processVars, broken>>

\* 429 or 503
BusyAnswer(c) ==
  /\ At(c, "arrived")
  /\ Goto(c, "sleep")
  /\ UNCHANGED <<log, received, gone, processVars, broken>>

\* The sleep does not look at the context, and follows the last attempt too.
Wake(c) ==
  /\ At(c, "sleep")
  /\ IF calls[c].attempt + 1 < maxAttempts
     THEN calls' = [calls EXCEPT ![c].pc = "attempt", ![c].attempt = @ + 1] /\ UNCHANGED gone
     ELSE Outcome(c, "tool_execution", calls[c].attempt)
  /\ UNCHANGED <<log, received, processVars, broken>>

-----------------------------------------------------------------------------
(* The record and the reply.                                               *)

NewRecord(c) == [call |-> c, event |-> calls[c].event, retries |-> calls[c].attempt]

FaultyAppended(r) == <<Whole(r)>>
Appended(r) ==
  IF EndedLog THEN Append(log, Whole(r)) ELSE [log EXCEPT ![Len(log)] = Glued]

AppendRecord(c) ==
  /\ At(c, "record")
  /\ log' = Appended(NewRecord(c))
  /\ Goto(c, "reply")
  /\ UNCHANGED <<received, gone, processVars, broken>>

\* The error of Append is ignored.
AppendBreaks(c) ==
  /\ At(c, "record")
  /\ broken < MaxBroken
  /\ broken' = broken + 1
  /\ \/ UNCHANGED log
     \/ EndedLog /\ log' = Append(log, Torn)
  /\ Goto(c, "reply")
  /\ UNCHANGED <<received, gone, processVars>>

Reply(c) ==
  /\ At(c, "reply")
  /\ calls' = [calls EXCEPT ![c] = Fresh("answered")]
  /\ UNCHANGED <<log, received, gone, processVars, broken>>

-----------------------------------------------------------------------------
(* Clients and the toolbox.                                                *)

\* Only Execute looks at the context.
Executing(c) == calls[c].pc \in {"attempt", "sent", "arrived", "sleep"}
Leave(c) ==
  /\ Executing(c)
  /\ gone' = gone \cup {c}
  /\ UNCHANGED <<calls, log, received, processVars, broken>>

\* http.Server.Close drops every connection, and with it every context.
CloseServer ==
  /\ toolbox = "serving"
  /\ toolbox' = "closed"
  /\ gone' = gone \cup {c \in Calls : Executing(c)}
  /\ UNCHANGED <<calls, log, received, restarts, broken>>

\* main returns and waits for no handler, or the process is killed.
Exit ==
  /\ toolbox' = "down"
  /\ toolbox # "down"
  /\ calls' = [c \in Calls |->
                 IF calls[c].pc \in Over \cup {"idle"} THEN calls[c] ELSE Fresh("killed")]
  /\ gone' = {}
  /\ UNCHANGED <<log, received, restarts, broken>>

Restart ==
  /\ toolbox = "down"
  /\ restarts < MaxRestarts
  /\ toolbox' = "serving"
  /\ restarts' = restarts + 1
  /\ UNCHANGED <<calls, log, received, gone, broken>>

CallStep(c) ==
  \/ Reject(c)
  \/ Deny(c)
  \/ Allow(c)
  \/ Send(c)
  \/ Arrive(c)
  \/ ExecuteFails(c)
  \/ FinalAnswer(c)
  \/ BusyAnswer(c)
  \/ Wake(c)
  \/ AppendRecord(c)
  \/ AppendBreaks(c)
  \/ Reply(c)
  \/ Leave(c)

Next ==
  \/ \E c \in Calls : CallStep(c)
  \/ CloseServer
  \/ Exit
  \/ Restart

Spec == Init /\ [][Next]_vars

(* A goroutine goes on when it can; of the upstream nothing is assumed, and *)
(* client.Do returns an error when the context is cancelled.               *)
FaultyAdvance(c) == Wake(c) \/ AppendRecord(c) \/ AppendBreaks(c) \/ Reply(c)
Advance(c) ==
  \/ Wake(c)
  \/ AppendRecord(c) \/ AppendBreaks(c)
  \/ Reply(c)
  \/ c \in gone /\ ExecuteFails(c)
FairSpec == Spec /\ \A c \in Calls : WF_vars(Advance(c))

-----------------------------------------------------------------------------
(* Properties.                                                             *)

\* Calls, log and counters keep their type, and only the last line of the log
\* may lack its end.
TypeOK ==
  /\ calls \in [Calls -> Call]
  /\ log \in Seq(Lines)
  /\ \A i \in DOMAIN log : i < Len(log) => log[i].ended
  /\ received \in [Calls -> 0..maxAttempts]
  /\ gone \subseteq Calls
  /\ toolbox \in {"serving", "closed", "down"}
  /\ restarts \in 0..MaxRestarts
  /\ broken \in 0..MaxBroken

\* The log says of a call what happened upstream: a call is recorded once, an
\* execution with as many retries as requests that really arrived after the
\* first, a denial only when nothing arrived.  (That the record of an error has
\* no count is the code's choice: up to three requests may have arrived.)
RecordsAreTrue ==
  \A i \in DOMAIN log : \A r \in log[i].text :
    /\ Recorded(r.call) = {i}
    /\ r.event = "tool_execution" => received[r.call] = r.retries + 1
    /\ r.event = "authz_denial" => received[r.call] = 0

\* Whoever got an answer finds the call in the log, through restarts too: a
\* write that breaks off costs at most its own record and the next one.
LossBudget ==
  Cardinality({c \in Calls : At(c, "answered") /\ Recorded(c) = {}}) <= 2 * broken

\* A call whose client has gone away ends, whatever the upstream does.
CancelledCallEnds ==
  \A c \in Calls : c \in gone ~> calls[c].pc \in Over
=============================================================================
