-------------------------- MODULE ToolboxLifecycle --------------------------
(***************************************************************************)
(* The open-cli-toolbox process (cmd/open-cli-toolbox/main.go) around the  *)
(* server of SessionLease, from the call of Serve on.  Two goroutines may  *)
(* run the clean-up: main when Serve returns and the one that waits for a  *)
(* signal.  A sync.Once lets one of them run it and makes the other wait.  *)
(* When main is past the Once the process is gone, with every goroutine    *)
(* still running in it.                                                    *)
(***************************************************************************)
EXTENDS SessionLease

VARIABLES
  caller,       \* main's and the signal goroutine's position
  once,         \* the clean-up under shutdownOnce
  runtimeFile,  \* runtime.json names this process
  killed        \* the process was killed, with no clean-up

lifecycleVars == <<caller, once, runtimeFile, killed>>
allVars == <<leases, handlers, expiries, inflight, httpOpen, authCached,
             caller, once, runtimeFile, killed>>

Callers == {"main", "signal"}
\* "running" is main in Serve, the signal goroutine in its receive
CallerPCs == {"running", "closing", "returned"}
OnceSteps == {"free", "http", "leases", "processes", "file", "done"}

Exited == caller["main"] = "returned"
Alive == ~Exited /\ ~killed

ProcessInit ==
  /\ Init
  /\ caller = [c \in Callers |-> "running"]
  /\ once = "free"
  /\ runtimeFile = TRUE
  /\ killed = FALSE

\* what the server's own goroutines do
ServerStep == Alive /\ Next /\ UNCHANGED lifecycleVars

Call(c) ==
  /\ caller[c] = "running"
  /\ caller' = [caller EXCEPT ![c] = "closing"]
  /\ UNCHANGED <<vars, once, runtimeFile, killed>>

SignalArrives == Alive /\ Call("signal")

\* Serve returns once the server is closed
ServeReturns == Alive /\ ~httpOpen /\ Call("main")

\* or because its listener failed
ServeFails == Alive /\ httpOpen /\ Call("main")

FaultyOnceTaken(c) ==
  /\ Alive
  /\ caller[c] = "closing"
  /\ once = "free"
  /\ once' = "leases"
  /\ UNCHANGED <<vars, caller, runtimeFile, killed>>

OnceTaken(c) ==
  /\ Alive
  /\ caller[c] = "closing"
  /\ once = "free"
  /\ once' = "http"
  /\ UNCHANGED <<vars, caller, runtimeFile, killed>>

CloseHTTP ==
  /\ Alive
  /\ once = "http"
  /\ httpOpen' = FALSE
  /\ once' = "leases"
  /\ UNCHANGED <<leases, handlers, expiries, inflight, authCached,
                 caller, runtimeFile, killed>>

\* CloseWithContext, first half; a heartbeat already past its check renews later
ClearLeases ==
  /\ Alive
  /\ once = "leases"
  /\ leases' = [s \in Sessions |-> NoLease]
  /\ once' = "processes"
  /\ UNCHANGED <<handlers, expiries, inflight, httpOpen, authCached,
                 caller, runtimeFile, killed>>

\* second half: the supervisor of ManagedProcesses, bounded by a context of 5 s
StopProcesses ==
  /\ Alive
  /\ once = "processes"
  /\ once' = "file"
  /\ UNCHANGED <<vars, caller, runtimeFile, killed>>

RemoveRuntimeFile ==
  /\ Alive
  /\ once = "file"
  /\ runtimeFile' = FALSE
  /\ once' = "done"
  /\ UNCHANGED <<vars, caller, killed>>

\* Do returns to its caller, the one that ran the clean-up or the one that waited
FaultyOnceReturns(c) ==
  /\ Alive
  /\ caller[c] = "closing"
  /\ once # "free"
  /\ caller' = [caller EXCEPT ![c] = "returned"]
  /\ UNCHANGED <<vars, once, runtimeFile, killed>>

OnceReturns(c) ==
  /\ Alive
  /\ caller[c] = "closing"
  /\ once = "done"
  /\ caller' = [caller EXCEPT ![c] = "returned"]
  /\ UNCHANGED <<vars, once, runtimeFile, killed>>

Kill ==
  /\ Alive
  /\ killed' = TRUE
  /\ UNCHANGED <<vars, caller, once, runtimeFile>>

CleanUp == CloseHTTP \/ ClearLeases \/ StopProcesses \/ RemoveRuntimeFile

ProcessNext ==
  \/ ServerStep
  \/ SignalArrives
  \/ ServeReturns
  \/ ServeFails
  \/ \E c \in Callers : OnceTaken(c) \/ OnceReturns(c)
  \/ CleanUp
  \/ Kill

ProcessSpec == ProcessInit /\ [][ProcessNext]_allVars

(***************************************************************************)
(* As in SessionLease, every goroutine of a live process gets to run; a    *)
(* signal, a failing listener and a kill may never come.                   *)
(***************************************************************************)
ProcessFairness ==
  /\ \A h \in Handlers : WF_allVars(Alive /\ HandlerStep(h) /\ UNCHANGED lifecycleVars)
  /\ \A s \in Sessions : WF_allVars(Alive /\ TimerFires(s) /\ UNCHANGED lifecycleVars)
  /\ \A x \in Stamps : WF_allVars(Alive /\ ExpiryStep(x) /\ UNCHANGED lifecycleVars)
  /\ WF_allVars(Alive /\ Tick /\ UNCHANGED lifecycleVars)
  /\ WF_allVars(ServeReturns)
  /\ \A c \in Callers : WF_allVars(OnceTaken(c) \/ OnceReturns(c))
  /\ WF_allVars(CleanUp)

FairProcessSpec == ProcessSpec /\ ProcessFairness

-----------------------------------------------------------------------------

\* The server's state keeps its type, and each of the two goroutines and the
\* clean-up is at one of the positions main.go has.
ProcessTypeOK ==
  /\ TypeOK
  /\ caller \in [Callers -> CallerPCs]
  /\ once \in OnceSteps
  /\ runtimeFile \in BOOLEAN
  /\ killed \in BOOLEAN

\* A process that exits by itself has finished its clean-up, whichever of
\* its two goroutines runs it: the other one does not end the process early.
ExitIsClean == Exited => once = "done" /\ ~runtimeFile

\* A process withdraws runtime.json only when it no longer serves.
UnadvertisedIsClosed == ~runtimeFile => ~httpOpen

\* Once the runtime is committed to end, by the end of its last lease or by
\* a stop, the process ends; a hanging upstream or a second signal does not
\* keep it.
DoomedProcessEnds == Doomed ~> ~Alive

\* A session close that ends the runtime has cleared the token directory
\* before the process is gone.
CloseClearsTokens ==
  Exited => \A h \in Handlers : At(h, "wipeLast") => ~authCached
=============================================================================
