-------------------------- MODULE ManagedProcesses --------------------------
(***************************************************************************)
(* MCP servers run as child processes (pkg/exec/mcp.go,                    *)
(* pkg/mcp/client/stdio.go) and the supervisor that remembers them in a    *)
(* file and ends them with the toolbox (pkg/exec/process_supervisor.go).   *)
(*                                                                         *)
(* A tool call starts a child, shakes hands with it, has it tracked, calls *)
(* it, closes it and releases it, in the goroutine of its request; the     *)
(* context of the request kills the child when it is cancelled.  A catalog *)
(* build talks to a child the same way but never tracks it.  The toolbox   *)
(* may be killed at any point and started again on the same state          *)
(* directory.  A child may end at any time, and one that is not killed may *)
(* never end; the system may refuse to signal it.  The file may be         *)
(* unreadable when a toolbox starts.  Process ids are not reused.          *)
(***************************************************************************)
EXTENDS Naturals

CONSTANTS
  Calls,         \* requests served at once
  Pids,          \* processes that can be started, over all generations
  NoPid,
  MaxRestarts    \* bound on the restarts of the toolbox

ASSUME ProcessAssumption ==
  /\ NoPid \notin Pids
  /\ MaxRestarts \in Nat

VARIABLES
  calls,      \* the goroutine of each request
  process,    \* what the system knows of each process
  pids,       \* ProcessSupervisor.pids
  registry,   \* the file managed-mcp-pids.json, {} when there is none
  phase,      \* of the toolbox
  pending,    \* Shutdown's snapshot, less what it is done with
  victim,     \* the process terminateProcess is busy with
  restarts,
  owed,       \* history: processes whose Track succeeded before the snapshot
  refused,    \* history: processes a Shutdown could not signal
  unread      \* history: processes of a file that could not be read

vars == <<calls, process, pids, registry, phase, pending, victim, restarts, owed, refused, unread>>

CallPCs == {"idle", "opening", "handshake", "calling", "closing", "closingUntracked", "release"}
Call == [pc : CallPCs, pid : Pids \cup {NoPid}, cancelled : BOOLEAN, track : BOOLEAN]
ProcessStates == {"free", "running", "killed", "dead"}
Phases == {"serving", "httpClosed", "terminating", "cleared", "exited", "crashed"}

Idle == [pc |-> "idle", pid |-> NoPid, cancelled |-> FALSE, track |-> FALSE]
Up == phase \in {"serving", "httpClosed", "terminating", "cleared"}
Gone == ~Up
ProcessAlive(p) == process[p] \in {"running", "killed"}

At(c, pc) == Up /\ calls[c].pc = pc
\* the call's record with another position
To(c, pc) ==
  calls' = [calls EXCEPT ![c] = [pc |-> pc, pid |-> calls[c].pid,
                                 cancelled |-> calls[c].cancelled, track |-> calls[c].track]]
Persist == registry' = pids'

lost == <<refused, unread>>
supervisorVars == <<pids, registry, owed, lost>>
toolboxVars == <<phase, pending, victim, restarts>>

Init ==
  /\ calls = [c \in Calls |-> Idle]
  /\ process = [p \in Pids |-> "free"]
  /\ pids = {}
  /\ registry = {}
  /\ phase = "serving"
  /\ pending = {}
  /\ victim = NoPid
  /\ restarts = 0
  /\ owed = {}
  /\ refused = {} /\ unread = {}

-----------------------------------------------------------------------------
(* Requests.  track tells a tool call from a catalog build.                *)

Request(c, track) ==
  /\ phase = "serving"
  /\ At(c, "idle")
  /\ calls' = [calls EXCEPT ![c] = [pc |-> "opening", pid |-> NoPid,
                                    cancelled |-> FALSE, track |-> track]]
  /\ UNCHANGED <<process, supervisorVars, toolboxVars>>

\* The client goes away, or the server closes its connection.
Cancel(c) ==
  /\ Up
  /\ calls[c].pc # "idle"
  /\ ~calls[c].cancelled
  /\ calls' = [calls EXCEPT ![c] = [pc |-> calls[c].pc, pid |-> calls[c].pid,
                                    cancelled |-> TRUE, track |-> calls[c].track]]
  /\ UNCHANGED <<process, supervisorVars, toolboxVars>>

\* cmd.Start fails: no such program, or a context that is already done
OpenRefused(c) ==
  /\ At(c, "opening")
  /\ calls' = [calls EXCEPT ![c] = Idle]
  /\ UNCHANGED <<process, supervisorVars, toolboxVars>>

OpenStdio(c) ==
  /\ At(c, "opening")
  /\ ~calls[c].cancelled
  /\ \E p \in Pids :
       /\ process[p] = "free"
       /\ process' = [process EXCEPT ![p] = "running"]
       /\ calls' = [calls EXCEPT ![c] = [pc |-> "handshake", pid |-> p,
                                         cancelled |-> FALSE, track |-> calls[c].track]]
  /\ UNCHANGED <<supervisorVars, toolboxVars>>

\* exec.CommandContext kills the child of a request that is cancelled
KillByContext(c) ==
  /\ Up
  /\ calls[c].cancelled
  /\ calls[c].pid # NoPid
  /\ process[calls[c].pid] = "running"
  /\ process' = [process EXCEPT ![calls[c].pid] = "killed"]
  /\ UNCHANGED <<calls, supervisorVars, toolboxVars>>

\* ensureInitialized fails, or a catalog build has listed the tools
HandshakeEnds(c) ==
  /\ At(c, "handshake")
  /\ To(c, "closingUntracked")
  /\ UNCHANGED <<process, supervisorVars, toolboxVars>>

Track(c) ==
  LET p == calls[c].pid IN
  /\ At(c, "handshake")
  /\ calls[c].track
  /\ pids' = pids \cup {p}
  /\ Persist
  /\ owed' = IF phase \in {"serving", "httpClosed"} THEN owed \cup {p} ELSE owed
  /\ To(c, "calling")
  /\ UNCHANGED <<process, lost, toolboxVars>>

\* The file cannot be written: the child is closed, its pid stays in memory.
TrackFails(c) ==
  /\ At(c, "handshake")
  /\ calls[c].track
  /\ pids' = pids \cup {calls[c].pid}
  /\ To(c, "closingUntracked")
  /\ UNCHANGED <<process, registry, owed, lost, toolboxVars>>

\* tools/call returns a result or an error; the deferred Close follows
CallTool(c) ==
  /\ At(c, "calling")
  /\ To(c, "closing")
  /\ UNCHANGED <<process, supervisorVars, toolboxVars>>

\* Close shuts the child's stdin and waits for its end.
Close(c) ==
  /\ Up
  /\ calls[c].pid # NoPid
  /\ process[calls[c].pid] = "dead"
  /\ \/ At(c, "closing") /\ To(c, "release")
     \/ At(c, "closingUntracked") /\ calls' = [calls EXCEPT ![c] = Idle]
  /\ UNCHANGED <<process, supervisorVars, toolboxVars>>

\* An error of the persist is dropped.
Release(c) ==
  /\ At(c, "release")
  /\ pids' = pids \ {calls[c].pid}
  /\ Persist \/ UNCHANGED registry
  /\ calls' = [calls EXCEPT ![c] = Idle]
  /\ UNCHANGED <<process, owed, lost, toolboxVars>>

Dies(p) ==
  /\ ProcessAlive(p)
  /\ process' = [process EXCEPT ![p] = "dead"]
  /\ UNCHANGED <<calls, supervisorVars, toolboxVars>>

-----------------------------------------------------------------------------
(* The end of the toolbox: http.Server.Close, then Shutdown.               *)

HttpClose ==
  /\ phase = "serving"
  /\ phase' = "httpClosed"
  /\ UNCHANGED <<calls, process, supervisorVars, pending, victim, restarts>>

Snapshot ==
  /\ phase = "httpClosed"
  /\ phase' = "terminating"
  /\ pending' = pids
  /\ UNCHANGED <<calls, process, supervisorVars, victim, restarts>>

\* A signal that is refused (EPERM) is an error of terminateProcess, and
\* Shutdown goes on to the next process.
GiveUp(p) ==
  /\ pending' = pending \ {p}
  /\ victim' = NoPid
  /\ refused' = refused \cup {p}
  /\ UNCHANGED process

\* SIGTERM, which a process may ignore; nothing for one that is gone
Terminate(p) ==
  /\ phase = "terminating"
  /\ victim = NoPid
  /\ p \in pending
  /\ \/ ProcessAlive(p) /\ victim' = p /\ UNCHANGED <<process, pending, refused>>
     \/ ProcessAlive(p) /\ GiveUp(p)
     \/ ~ProcessAlive(p) /\ pending' = pending \ {p} /\ UNCHANGED <<process, victim, refused>>
  /\ UNCHANGED <<calls, pids, registry, owed, unread, phase, restarts>>

\* SIGKILL once the 250 ms are over
KillVictim ==
  /\ phase = "terminating"
  /\ victim # NoPid
  /\ process[victim] = "running"
  /\ \/ /\ process' = [process EXCEPT ![victim] = "killed"]
        /\ UNCHANGED <<pending, victim, refused>>
     \/ GiveUp(victim)
  /\ UNCHANGED <<calls, pids, registry, owed, unread, phase, restarts>>

\* waitForProcessExit: the process is gone, or the context of 5 s is over
FaultyWaitEnds ==
  /\ phase = "terminating"
  /\ victim # NoPid
  /\ process[victim] = "dead"
  /\ pending' = pending \ {victim}
  /\ victim' = NoPid
  /\ UNCHANGED <<calls, process, supervisorVars, phase, restarts>>

WaitEnds ==
  /\ phase = "terminating"
  /\ victim # NoPid
  /\ process[victim] # "running"
  /\ pending' = pending \ {victim}
  /\ victim' = NoPid
  /\ UNCHANGED <<calls, process, supervisorVars, phase, restarts>>

ForgetAll ==
  /\ phase = "terminating"
  /\ victim = NoPid
  /\ pending = {}
  /\ pids' = {}
  /\ Persist \/ UNCHANGED registry
  /\ phase' = "cleared"
  /\ UNCHANGED <<calls, process, owed, lost, pending, victim, restarts>>

\* the goroutines of the process end with it
Exit ==
  /\ phase = "cleared"
  /\ phase' = "exited"
  /\ calls' = [c \in Calls |-> Idle]
  /\ UNCHANGED <<process, supervisorVars, pending, victim, restarts>>

Crash ==
  /\ Up
  /\ phase' = "crashed"
  /\ calls' = [c \in Calls |-> Idle]
  /\ pending' = {}
  /\ victim' = NoPid
  /\ UNCHANGED <<process, supervisorVars, restarts>>

\* NewProcessSupervisor reads the file the last toolbox left.  It drops the
\* error of a file that it cannot read or decode, and starts with no pids.
FaultyRestart ==
  /\ Gone
  /\ restarts < MaxRestarts
  /\ restarts' = restarts + 1
  /\ phase' = "serving"
  /\ pids' = {}
  /\ UNCHANGED <<calls, process, registry, owed, lost, pending, victim>>

Restart ==
  /\ Gone
  /\ restarts < MaxRestarts
  /\ restarts' = restarts + 1
  /\ phase' = "serving"
  /\ \/ pids' = registry /\ unread' = unread \ registry /\ refused' = refused \ registry
     \/ /\ registry # {}
        /\ pids' = {} /\ unread' = unread \cup registry /\ UNCHANGED refused
  /\ UNCHANGED <<calls, process, registry, owed, pending, victim>>

-----------------------------------------------------------------------------

ShutdownStep ==
  \/ Snapshot
  \/ \E p \in Pids : Terminate(p)
  \/ KillVictim
  \/ WaitEnds
  \/ ForgetAll
  \/ Exit

CallStep(c) ==
  \/ \E track \in BOOLEAN : Request(c, track)
  \/ Cancel(c)
  \/ OpenRefused(c)
  \/ OpenStdio(c)
  \/ KillByContext(c)
  \/ HandshakeEnds(c)
  \/ Track(c)
  \/ TrackFails(c)
  \/ CallTool(c)
  \/ Close(c)
  \/ Release(c)

Next ==
  \/ \E c \in Calls : CallStep(c)
  \/ \E p \in Pids : Dies(p)
  \/ HttpClose
  \/ ShutdownStep
  \/ Crash
  \/ Restart

Spec == Init /\ [][Next]_vars

(***************************************************************************)
(* Only the goroutine in Shutdown is fair: timers run out and it gets the  *)
(* processor.  No child owes its death, not even after SIGKILL.            *)
(***************************************************************************)
FairSpec == Spec /\ WF_vars(ShutdownStep)

-----------------------------------------------------------------------------
(* Properties.                                                             *)

\* The supervisor's state keeps its type; a call has a child exactly while
\* ExecuteMCP is between cmd.Start and the end of its deferred Close.
TypeOK ==
  /\ calls \in [Calls -> Call]
  /\ process \in [Pids -> ProcessStates]
  /\ pids \subseteq Pids
  /\ registry \subseteq Pids
  /\ phase \in Phases
  /\ pending \subseteq Pids
  /\ victim \in Pids \cup {NoPid}
  /\ restarts \in 0..MaxRestarts
  /\ owed \subseteq Pids /\ refused \subseteq Pids /\ unread \subseteq Pids
  /\ \A c \in Calls : calls[c].pid = NoPid <=> calls[c].pc \in {"idle", "opening"}

\* A process whose Track succeeded is lost in two ways only: the file was there
\* and no toolbox has been able to read it since, or Shutdown has met an error
\* when it signalled the process.  Any other, as long as it runs and nobody has
\* killed it, is in the registry file, so that the toolbox, or the one started
\* after a crash, will end it; and no shutdown that is over leaves it running.
OwedIsRecorded ==
  \A p \in owed \ (refused \cup unread) :
    process[p] = "running" => p \in registry /\ phase \notin {"cleared", "exited"}

\* A shutdown that has begun ends, whatever the children do.
ShutdownEnds == phase = "httpClosed" ~> Gone

\* A toolbox that has cleaned up leaves no child it started running: each
\* has ended or has been sent a SIGKILL.
NoOrphans ==
  phase = "cleared" =>
    \A c \in Calls : calls[c].pid # NoPid => process[calls[c].pid] # "running"
=============================================================================
