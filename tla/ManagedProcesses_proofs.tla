---------------------- MODULE ManagedProcesses_proofs ----------------------
(***************************************************************************)
(* No tracked process is lost but by a file that cannot be read or a       *)
(* signal that is refused, for any number of calls, processes and          *)
(* restarts.                                                               *)
(*                                                                         *)
(* OwedIsRecorded speaks of the file; what keeps it true is the map in     *)
(* memory the file is written from, so the invariant follows the running   *)
(* processes the supervisor owes an end through the map, the snapshot of   *)
(* Shutdown and the file, phase by phase.                                  *)
(*                                                                         *)
(* The last section shows what a toolbox that ends in order can leave      *)
(* running, its untracked children included.                               *)
(***************************************************************************)
EXTENDS ManagedProcesses, TLAPS

\* tracked processes that still run, that nobody has killed and that are not lost
Live == {p \in owed \ (refused \cup unread) : process[p] = "running"}

InFile == Live \subseteq registry
InMemory == phase \in {"serving", "httpClosed", "terminating"} => Live \subseteq pids
InSnapshot == phase = "terminating" => Live \subseteq pending
NoneAfter == phase \in {"cleared", "exited"} => Live = {}
ReleasedIsDead == \A c \in Calls : calls[c].pc = "release" => process[calls[c].pid] = "dead"
KnownIsStarted ==
  /\ \A p \in owed : process[p] # "free"
  /\ \A c \in Calls : calls[c].pid # NoPid => process[calls[c].pid] # "free"

Recorded == InFile /\ InMemory /\ InSnapshot /\ NoneAfter
Inv == TypeOK /\ Recorded /\ ReleasedIsDead /\ KnownIsStarted

(* The record of a call with another position is one of a call.            *)
LEMMA CallMoves ==
  ASSUME TypeOK, NEW c \in Calls, NEW pc \in CallPCs \ {"idle", "opening"},
         calls[c].pid # NoPid, To(c, pc)
  PROVE  /\ calls' \in [Calls -> Call]
         /\ \A d \in Calls : calls'[d].pid = calls[d].pid
         /\ \A d \in Calls : calls'[d].pc = IF d = c THEN pc ELSE calls[d].pc
         /\ \A d \in Calls : calls'[d].pid = NoPid <=> calls'[d].pc \in {"idle", "opening"}
<1> DEFINE moved == [pc |-> pc, pid |-> calls[c].pid,
                     cancelled |-> calls[c].cancelled, track |-> calls[c].track]
<1>1. calls[c] \in Call
  BY DEF TypeOK
<1>2. moved \in Call
  BY <1>1 DEF Call
<1>3. calls' = [calls EXCEPT ![c] = moved] /\ calls \in [Calls -> Call]
  BY DEF To, TypeOK
<1>4. moved.pc = pc /\ moved.pid = calls[c].pid
  OBVIOUS
<1> HIDE DEF moved
<1>5. \A d \in Calls : calls'[d] = IF d = c THEN moved ELSE calls[d]
  BY <1>3
<1>6. \A d \in Calls : calls[d].pid = NoPid <=> calls[d].pc \in {"idle", "opening"}
  BY DEF TypeOK
<1>7. QED
  BY <1>2, <1>3, <1>4, <1>5, <1>6

(* A call that has ended holds no process.                                 *)
LEMMA IdleCall == Idle \in Call /\ Idle.pid = NoPid /\ Idle.pc = "idle"
BY DEF Idle, Call, CallPCs

(* Steps of calls that only move keep the invariant.                       *)
LEMMA MovePreserves ==
  ASSUME Inv, NEW c \in Calls, NEW pc \in {"calling", "closing", "closingUntracked"},
         calls[c].pid # NoPid, To(c, pc), UNCHANGED <<process, supervisorVars, toolboxVars>>
  PROVE  Inv'
<1>1. TypeOK'
  BY CallMoves DEF Inv, TypeOK, supervisorVars, lost, toolboxVars, CallPCs
<1>2. Recorded'
  BY DEF Inv, Recorded, InFile, InMemory, InSnapshot, NoneAfter, Live, supervisorVars, lost, toolboxVars
<1>3. ReleasedIsDead' /\ KnownIsStarted'
  BY CallMoves DEF Inv, ReleasedIsDead, KnownIsStarted, supervisorVars, lost, CallPCs
<1>4. QED
  BY <1>1, <1>2, <1>3 DEF Inv
(* A call's record is replaced by a record that holds the same process or  *)
(* none: nothing the supervisor knows is touched.                          *)
LEMMA CallBecomes ==
  ASSUME Inv, NEW c \in Calls, NEW r \in Call,
         r.pid = NoPid <=> r.pc \in {"idle", "opening"},
         r.pid \in {NoPid, calls[c].pid}, r.pc = "release" => process[r.pid] = "dead",
         calls' = [calls EXCEPT ![c] = r],
         UNCHANGED <<process, supervisorVars, toolboxVars>>
  PROVE  Inv'
<1>1. \A d \in Calls : calls'[d] = IF d = c THEN r ELSE calls[d]
  BY DEF Inv, TypeOK
<1>2. calls' \in [Calls -> Call]
  BY DEF Inv, TypeOK
<1>3. \A d \in Calls : calls'[d].pid = NoPid <=> calls'[d].pc \in {"idle", "opening"}
  BY <1>1 DEF Inv, TypeOK
<1>4. TypeOK'
  BY <1>2, <1>3 DEF Inv, TypeOK, supervisorVars, lost, toolboxVars
<1>5. Recorded'
  BY DEF Inv, Recorded, InFile, InMemory, InSnapshot, NoneAfter, Live, supervisorVars, lost, toolboxVars
<1>6. ReleasedIsDead' /\ KnownIsStarted'
  BY <1>1 DEF Inv, ReleasedIsDead, KnownIsStarted, supervisorVars, lost
<1>7. QED
  BY <1>4, <1>5, <1>6 DEF Inv

(* A process goes from running to killed, or to dead: less is owed.        *)
LEMMA ProcessEnds ==
  ASSUME Inv, NEW p \in Pids, NEW state \in {"killed", "dead"},
         process[p] = "running" \/ (process[p] = "killed" /\ state = "dead"),
         process' = [process EXCEPT ![p] = state],
         UNCHANGED <<calls, supervisorVars, toolboxVars>>
  PROVE  Inv'
<1>1. \A x \in Pids : process'[x] = IF x = p THEN state ELSE process[x]
  BY DEF Inv, TypeOK
<1>2. TypeOK'
  BY <1>1 DEF Inv, TypeOK, supervisorVars, lost, toolboxVars, ProcessStates
<1>3. Live' \subseteq Live
  BY <1>1 DEF Live, Inv, TypeOK, supervisorVars, lost
<1>4. Recorded'
  BY <1>3 DEF Inv, Recorded, InFile, InMemory, InSnapshot, NoneAfter, supervisorVars, lost, toolboxVars
<1>5. ReleasedIsDead'
  <2>1. ASSUME NEW c \in Calls, calls[c].pc = "release"
        PROVE  process'[calls[c].pid] = "dead"
    <3>1. calls[c].pid \in Pids /\ process[calls[c].pid] = "dead"
      BY <2>1 DEF Inv, TypeOK, ReleasedIsDead, Call
    <3>2. QED
      BY <1>1, <3>1
  <2>2. QED
    BY <2>1 DEF ReleasedIsDead
<1>6. KnownIsStarted'
  <2>1. \A x \in Pids : process[x] # "free" => process'[x] # "free"
    BY <1>1
  <2>2. owed \subseteq Pids /\ owed' = owed
    BY DEF Inv, TypeOK, supervisorVars, lost
  <2>3. \A c \in Calls : calls[c].pid # NoPid => calls[c].pid \in Pids
    BY DEF Inv, TypeOK, Call
  <2>4. QED
    BY <2>1, <2>2, <2>3 DEF Inv, KnownIsStarted
<1>7. QED
  BY <1>2, <1>4, <1>5, <1>6 DEF Inv

(* cmd.Start: the process is new, so nothing is owed to it yet.            *)
LEMMA OpenPreserves ==
  ASSUME Inv, NEW c \in Calls, OpenStdio(c)
  PROVE  Inv'
<1>0. PICK p \in Pids :
        /\ process[p] = "free"
        /\ process' = [process EXCEPT ![p] = "running"]
        /\ calls' = [calls EXCEPT ![c] = [pc |-> "handshake", pid |-> p,
                                         cancelled |-> FALSE, track |-> calls[c].track]]
  BY DEF OpenStdio
<1> DEFINE r == [pc |-> "handshake", pid |-> p, cancelled |-> FALSE, track |-> calls[c].track]
<1>1. UNCHANGED <<supervisorVars, toolboxVars>>
  BY DEF OpenStdio
<1>2. r \in Call
  BY DEF Inv, TypeOK, Call, CallPCs
<1>3. r.pid = p /\ r.pc = "handshake"
  OBVIOUS
<1> HIDE DEF r
<1>4. \A d \in Calls : calls'[d] = IF d = c THEN r ELSE calls[d]
  BY <1>0 DEF Inv, TypeOK, r
<1>5. \A x \in Pids : process'[x] = IF x = p THEN "running" ELSE process[x]
  BY <1>0 DEF Inv, TypeOK
<1>6. calls' \in [Calls -> Call]
  BY <1>0, <1>2 DEF Inv, TypeOK, r
<1>7. process' \in [Pids -> ProcessStates]
  BY <1>0 DEF Inv, TypeOK, ProcessStates
<1>8. \A d \in Calls : calls'[d].pid = NoPid <=> calls'[d].pc \in {"idle", "opening"}
  BY <1>3, <1>4, ProcessAssumption DEF Inv, TypeOK
<1>9. TypeOK'
  BY <1>1, <1>6, <1>7, <1>8 DEF Inv, TypeOK, supervisorVars, lost, toolboxVars
<1>10. p \notin owed /\ owed \subseteq Pids
  BY <1>0 DEF Inv, KnownIsStarted, TypeOK
<1>11. Live' = Live
  BY <1>1, <1>5, <1>10 DEF Live, supervisorVars, lost
<1>12. Recorded'
  BY <1>1, <1>11 DEF Inv, Recorded, InFile, InMemory, InSnapshot, NoneAfter, supervisorVars, lost, toolboxVars
<1>13. \A d \in Calls : calls[d].pid # NoPid => calls[d].pid \in Pids \ {p}
  BY <1>0 DEF Inv, TypeOK, Call, KnownIsStarted
<1>14. KnownIsStarted'
  BY <1>1, <1>3, <1>4, <1>5, <1>10, <1>13 DEF Inv, KnownIsStarted, supervisorVars, lost
<1>15. ReleasedIsDead'
  <2>1. ASSUME NEW d \in Calls, calls'[d].pc = "release"
        PROVE  process'[calls'[d].pid] = "dead"
    <3>1. d # c /\ calls'[d] = calls[d]
      BY <1>3, <1>4, <2>1
    <3>2. calls[d].pid # NoPid
      BY <2>1, <3>1 DEF Inv, TypeOK
    <3>3. process[calls[d].pid] = "dead"
      BY <2>1, <3>1 DEF Inv, ReleasedIsDead
    <3>4. QED
      BY <1>5, <1>13, <3>1, <3>2, <3>3
  <2>2. QED
    BY <2>1 DEF ReleasedIsDead
<1>16. QED
  BY <1>9, <1>12, <1>14, <1>15 DEF Inv
(* Track: the pid is in memory and in the file before anything is owed.    *)
LEMMA TrackPreserves ==
  ASSUME Inv, NEW c \in Calls, Track(c) \/ TrackFails(c)
  PROVE  Inv'
<1> DEFINE p == calls[c].pid
<1>1. p \in Pids /\ p # NoPid /\ process[p] # "free"
  BY ProcessAssumption DEF Track, TrackFails, At, Inv, TypeOK, Call, KnownIsStarted
<1>2. PICK pc \in {"calling", "closingUntracked"} : To(c, pc)
  BY DEF Track, TrackFails
<1>3. /\ pids' = pids \cup {p} /\ UNCHANGED <<process, lost, toolboxVars>>
      /\ \/ /\ registry' = pids'
            /\ owed' = IF phase \in {"serving", "httpClosed"} THEN owed \cup {p} ELSE owed
         \/ UNCHANGED <<registry, owed>>
  BY DEF Track, TrackFails, Persist
<1>4. TypeOK'
  BY <1>1, <1>2, <1>3, CallMoves DEF Inv, TypeOK, lost, toolboxVars, CallPCs
<1>5. Live' \subseteq Live \cup {p}
  BY <1>3 DEF Live, lost
<1>6. phase \notin {"serving", "httpClosed"} => Live' = Live
  BY <1>3 DEF Live, lost
<1>7. phase \in {"serving", "httpClosed", "terminating", "cleared"}
  BY DEF Track, TrackFails, At, Up
<1>8. Recorded'
  <2>1. InMemory'
    BY <1>3, <1>5, <1>6 DEF Inv, Recorded, InMemory, toolboxVars
  <2>2. InSnapshot' /\ NoneAfter'
    BY <1>3, <1>6 DEF Inv, Recorded, InSnapshot, NoneAfter, toolboxVars
  <2>3. InFile'
    <3>1. CASE UNCHANGED <<registry, owed>>
      BY <1>3, <3>1 DEF Inv, Recorded, InFile, Live, lost
    <3>2. CASE registry' = pids'
      BY <1>3, <1>7, <2>1, <2>2, <3>2 DEF InFile, InMemory, NoneAfter, toolboxVars
    <3>3. QED
      BY <1>3, <3>1, <3>2
  <2>4. QED
    BY <2>1, <2>2, <2>3 DEF Recorded
<1>9. ReleasedIsDead' /\ KnownIsStarted'
  BY <1>1, <1>2, <1>3, CallMoves DEF Inv, ReleasedIsDead, KnownIsStarted, CallPCs
<1>10. QED
  BY <1>4, <1>8, <1>9 DEF Inv

(* Release: the process is dead, so nothing is lost with its pid, whether  *)
(* the file could be written or not.                                       *)
LEMMA ReleasePreserves ==
  ASSUME Inv, NEW c \in Calls, Release(c)
  PROVE  Inv'
<1> DEFINE p == calls[c].pid
<1>1. /\ pids' = pids \ {p} /\ (registry' = pids' \/ registry' = registry)
      /\ calls' = [calls EXCEPT ![c] = Idle]
      /\ UNCHANGED <<process, owed, lost, toolboxVars>>
      /\ calls[c].pc = "release" /\ Up
  BY DEF Release, Persist, At
<1>2. process[p] = "dead"
  BY <1>1 DEF Inv, ReleasedIsDead
<1>3. \A d \in Calls : calls'[d] = IF d = c THEN Idle ELSE calls[d]
  BY <1>1 DEF Inv, TypeOK
<1>4. calls' \in [Calls -> Call]
  BY <1>1, IdleCall DEF Inv, TypeOK
<1>5. \A d \in Calls : calls'[d].pid = NoPid <=> calls'[d].pc \in {"idle", "opening"}
  BY <1>3, IdleCall DEF Inv, TypeOK
<1>6. TypeOK'
  BY <1>1, <1>4, <1>5 DEF Inv, TypeOK, lost, toolboxVars
<1>7. Live' = Live /\ p \notin Live
  BY <1>1, <1>2 DEF Live, lost
<1>8. Recorded'
  BY <1>1, <1>7 DEF Inv, Recorded, InFile, InMemory, InSnapshot, NoneAfter, toolboxVars, Up
<1>9. ReleasedIsDead' /\ KnownIsStarted'
  BY <1>1, <1>3, IdleCall DEF Inv, ReleasedIsDead, KnownIsStarted
<1>10. QED
  BY <1>6, <1>8, <1>9 DEF Inv

(* A process that cannot be signalled is not owed anything any more.       *)
LEMMA GiveUpPreserves ==
  ASSUME Inv, NEW p \in Pids, GiveUp(p), phase = "terminating",
         UNCHANGED <<calls, pids, registry, owed, unread, phase, restarts>>
  PROVE  Inv'
<1>1. /\ UNCHANGED <<calls, process, pids, registry, owed, unread, phase, restarts>>
      /\ pending' = pending \ {p} /\ victim' = NoPid /\ refused' = refused \cup {p}
  BY DEF GiveUp
<1>2. Live' = Live \ {p}
  BY <1>1 DEF Live
<1>3. TypeOK'
  BY <1>1 DEF Inv, TypeOK
<1>4. Recorded'
  BY <1>1, <1>2 DEF Inv, Recorded, InFile, InMemory, InSnapshot, NoneAfter
<1>5. ReleasedIsDead' /\ KnownIsStarted'
  BY <1>1 DEF Inv, ReleasedIsDead, KnownIsStarted
<1>. QED
  BY <1>3, <1>4, <1>5 DEF Inv

(* The other steps of Shutdown: a pid leaves the snapshot only when its    *)
(* process does not run any more.                                          *)
LEMMA ShutdownPreserves ==
  ASSUME Inv,
         \/ HttpClose \/ Snapshot \/ WaitEnds \/ ForgetAll
         \/ \E p \in Pids : Terminate(p) /\ ~GiveUp(p)
  PROVE  Inv'
<1>1. UNCHANGED <<calls, process, owed, refused, unread, restarts>>
  BY DEF HttpClose, Snapshot, Terminate, WaitEnds, ForgetAll, supervisorVars, lost
<1>2. Live' = Live
  BY <1>1 DEF Live
<1>3. TypeOK'
  BY <1>1 DEF HttpClose, Snapshot, Terminate, WaitEnds, ForgetAll, supervisorVars, lost, Persist,
              Inv, TypeOK, Phases
<1>4. Recorded'
  <2>1. CASE HttpClose
    BY <1>2, <2>1 DEF HttpClose, supervisorVars, Inv, Recorded, InFile, InMemory,
                      InSnapshot, NoneAfter
  <2>2. CASE Snapshot
    BY <1>2, <2>2 DEF Snapshot, supervisorVars, Inv, Recorded, InFile, InMemory,
                      InSnapshot, NoneAfter
  <2>3. ASSUME NEW p \in Pids, Terminate(p), ~GiveUp(p)
        PROVE  Recorded'
    BY <1>2, <2>3 DEF Terminate, ProcessAlive, Inv, Recorded, InFile,
                      InMemory, InSnapshot, NoneAfter, Live
  <2>4. CASE WaitEnds
    BY <1>2, <2>4 DEF WaitEnds, supervisorVars, Inv, Recorded, InFile,
                      InMemory, InSnapshot, NoneAfter, Live
  <2>5. CASE ForgetAll
    <3>1. Live = {}
      BY <2>5 DEF ForgetAll, Inv, Recorded, InSnapshot
    <3>2. QED
      BY <1>2, <3>1 DEF Recorded, InFile, InMemory, InSnapshot, NoneAfter
  <2>6. QED
    BY <2>1, <2>2, <2>3, <2>4, <2>5
<1>5. ReleasedIsDead' /\ KnownIsStarted'
  BY <1>1 DEF Inv, ReleasedIsDead, KnownIsStarted
<1>6. QED
  BY <1>3, <1>4, <1>5 DEF Inv

(* The toolbox is gone, in order or not; only the file remains.            *)
LEMMA EndPreserves ==
  ASSUME Inv, Exit \/ Crash
  PROVE  Inv'
<1>1. /\ calls' = [c \in Calls |-> Idle]
      /\ UNCHANGED <<process, owed, refused, unread, pids, registry, restarts>>
      /\ (phase = "cleared" /\ phase' = "exited") \/ phase' = "crashed"
      /\ pending' \in {pending, {}} /\ victim' \in {victim, NoPid}
  BY DEF Exit, Crash, supervisorVars, lost
<1>2. TypeOK'
  BY <1>1, IdleCall DEF Inv, TypeOK, Phases
<1>3. Live' = Live
  BY <1>1 DEF Live
<1>4. Recorded'
  BY <1>1, <1>3 DEF Inv, Recorded, InFile, InMemory, InSnapshot, NoneAfter
<1>5. ReleasedIsDead' /\ KnownIsStarted'
  BY <1>1, IdleCall DEF Inv, ReleasedIsDead, KnownIsStarted
<1>6. QED
  BY <1>2, <1>4, <1>5 DEF Inv

(* The next toolbox reads the file and owes what is in it, or cannot read  *)
(* it and owes nothing.                                                    *)
LEMMA RestartPreserves ==
  ASSUME Inv, Restart
  PROVE  Inv'
<1>1. /\ UNCHANGED <<calls, process, registry, owed, pending, victim>>
      /\ phase' = "serving"
      /\ restarts < MaxRestarts /\ restarts' = restarts + 1
      /\ \/ pids' = registry /\ unread' = unread \ registry /\ refused' = refused \ registry
         \/ pids' = {} /\ unread' = unread \cup registry /\ UNCHANGED refused
  BY DEF Restart
<1>2. restarts' \in 0..MaxRestarts
  BY <1>1, ProcessAssumption DEF Inv, TypeOK
<1>3. TypeOK'
  BY <1>1, <1>2 DEF Inv, TypeOK, Phases
<1>4. Live' \subseteq Live \cup registry /\ Live' \subseteq pids'
  BY <1>1 DEF Inv, Recorded, InFile, Live
<1>5. Recorded'
  BY <1>1, <1>4 DEF Inv, Recorded, InFile, InMemory, InSnapshot, NoneAfter
<1>6. ReleasedIsDead' /\ KnownIsStarted'
  BY <1>1 DEF Inv, ReleasedIsDead, KnownIsStarted
<1>. QED
  BY <1>3, <1>5, <1>6 DEF Inv

(* The steps of a call's goroutine.                                        *)
LEMMA CallStepPreserves ==
  ASSUME Inv, NEW c \in Calls, CallStep(c)
  PROVE  Inv'
<1>0. calls[c] \in Call /\ (calls[c].pid = NoPid <=> calls[c].pc \in {"idle", "opening"})
  BY DEF Inv, TypeOK
<1>1. ASSUME NEW track \in BOOLEAN, Request(c, track)
      PROVE  Inv'
  <2> DEFINE r == [pc |-> "opening", pid |-> NoPid, cancelled |-> FALSE, track |-> track]
  <2>1. r \in Call
    BY DEF Call, CallPCs
  <2>2. QED
    BY <1>1, <2>1, CallBecomes DEF Request
<1>2. CASE Cancel(c)
  <2> DEFINE r == [pc |-> calls[c].pc, pid |-> calls[c].pid,
                   cancelled |-> TRUE, track |-> calls[c].track]
  <2>1. r \in Call
    BY <1>0 DEF Call
  <2>2. calls[c].pc = "release" => process[calls[c].pid] = "dead"
    BY DEF Inv, ReleasedIsDead
  <2>3. QED
    BY <1>0, <1>2, <2>1, <2>2, CallBecomes DEF Cancel
<1>3. CASE OpenRefused(c)
  BY <1>3, IdleCall, CallBecomes DEF OpenRefused
<1>4. CASE KillByContext(c)
  <2>1. calls[c].pid \in Pids /\ process[calls[c].pid] = "running"
    BY <1>0, <1>4 DEF KillByContext, Call
  <2>2. QED
    BY <1>4, <2>1, ProcessEnds DEF KillByContext
<1>5. CASE HandshakeEnds(c) \/ CallTool(c)
  BY <1>0, <1>5, MovePreserves DEF HandshakeEnds, CallTool, At
<1>6. CASE Close(c)
  <2>1. CASE At(c, "closing") /\ To(c, "release")
    <3> DEFINE r == [pc |-> "release", pid |-> calls[c].pid,
                     cancelled |-> calls[c].cancelled, track |-> calls[c].track]
    <3>1. r \in Call
      BY <1>0 DEF Call, CallPCs
    <3>2. QED
      BY <1>6, <2>1, <3>1, CallBecomes DEF Close, To
  <2>2. CASE calls' = [calls EXCEPT ![c] = Idle]
    BY <1>6, <2>2, IdleCall, CallBecomes DEF Close
  <2>3. QED
    BY <1>6, <2>1, <2>2 DEF Close
<1>7. QED
  BY <1>1, <1>2, <1>3, <1>4, <1>5, <1>6, OpenPreserves, TrackPreserves, ReleasePreserves
     DEF CallStep

(* Every step of the toolbox and of the processes keeps the invariant.     *)
LEMMA InvNext == Inv /\ [Next]_vars => Inv'
<1> SUFFICES ASSUME Inv, [Next]_vars
             PROVE  Inv'
  OBVIOUS
<1>1. ASSUME NEW p \in Pids, Dies(p)
      PROVE  Inv'
  BY <1>1, ProcessEnds DEF Dies, ProcessAlive
<1>2. CASE KillVictim
  <2>1. victim \in Pids
    BY <1>2 DEF KillVictim, Inv, TypeOK
  <2>2. CASE GiveUp(victim)
    BY <1>2, <2>1, <2>2, GiveUpPreserves DEF KillVictim
  <2>3. CASE ~GiveUp(victim)
    <3>1. /\ process[victim] = "running" /\ process' = [process EXCEPT ![victim] = "killed"]
          /\ UNCHANGED <<calls, supervisorVars, toolboxVars>>
      BY <1>2, <2>3 DEF KillVictim, supervisorVars, lost, toolboxVars
    <3>. QED
      BY <2>1, <3>1, ProcessEnds
  <2>. QED
    BY <2>2, <2>3
<1>3. ASSUME NEW p \in Pids, Terminate(p)
      PROVE  Inv'
  BY <1>3, GiveUpPreserves, ShutdownPreserves DEF Terminate
<1>4. CASE UNCHANGED vars
  BY <1>4 DEF vars, Inv, TypeOK, Recorded, InFile, InMemory, InSnapshot, NoneAfter, Live,
              ReleasedIsDead, KnownIsStarted
<1>. QED
  BY <1>1, <1>2, <1>3, <1>4, CallStepPreserves, ShutdownPreserves, EndPreserves, RestartPreserves
     DEF Next, ShutdownStep
(* The invariant holds for any number of calls, processes and restarts.    *)
THEOREM SupervisorInvariant == Spec => []Inv
<1>1. Init => Inv
  <2>1. Init => TypeOK
    BY IdleCall, ProcessAssumption DEF Init, TypeOK, ProcessStates, Phases
  <2>2. QED
    BY <2>1, IdleCall DEF Init, Inv, Recorded, InFile, InMemory, InSnapshot, NoneAfter, Live,
                          ReleasedIsDead, KnownIsStarted
<1>2. QED
  BY <1>1, InvNext, PTL DEF Spec

(* The type invariant, with it a call's hold on its process.               *)
THEOREM TypeInvariant == Spec => []TypeOK
<1>1. Inv => TypeOK
  BY DEF Inv
<1>2. QED
  BY <1>1, SupervisorInvariant, PTL

(* A tracked process that still runs is in the file and no shutdown is     *)
(* over, through crashes and restarts, unless the file could not be read   *)
(* or a signal was refused (Track, Release, Shutdown, terminateProcess,    *)
(* NewProcessSupervisor).                                                  *)
THEOREM TrackedIsNeverLost == Spec => []OwedIsRecorded
<1>1. Inv => OwedIsRecorded
  BY DEF Inv, Recorded, InFile, NoneAfter, Live, OwedIsRecorded
<1>2. QED
  BY <1>1, SupervisorInvariant, PTL

-----------------------------------------------------------------------------
(* Orphans.  A request that is still served when Shutdown takes its        *)
(* snapshot may start a child afterwards, or have one the supervisor does  *)
(* not know; otherwise only a refused signal leaves a child behind.        *)

Untracked(c) ==
  \/ calls[c].pc = "opening"
  \/ calls[c].pid # NoPid /\ process[calls[c].pid] = "running" /\ calls[c].pid \notin pids
NothingUntracked == \A c \in Calls : ~Untracked(c)

Ending == phase \in {"terminating", "cleared"}
Remaining(c) ==
  calls[c].pid # NoPid /\ process[calls[c].pid] = "running" =>
    calls[c].pid \in refused \/ (phase = "terminating" /\ calls[c].pid \in pending)
NoneLate == Ending => \A c \in Calls : calls[c].pc # "opening" /\ Remaining(c)

(* While the toolbox ends, no call gets a child.                           *)
LEMMA CallsOfTheEnd ==
  ASSUME TypeOK, NoneLate, Ending, NEW c \in Calls, CallStep(c)
  PROVE  /\ UNCHANGED <<phase, pending, refused>>
         /\ \A p \in Pids : process'[p] = "running" => process[p] = "running"
         /\ \A d \in Calls : /\ calls'[d].pc # "opening"
                             /\ calls'[d].pid # NoPid => calls'[d].pid = calls[d].pid
<1>1. /\ calls \in [Calls -> Call] /\ process \in [Pids -> ProcessStates]
      /\ \A d \in Calls : calls[d].pc # "opening"
      /\ phase \notin {"serving", "httpClosed"}
  BY DEF TypeOK, NoneLate, Ending
<1>2. ASSUME NEW r, r.pc # "opening", r.pid \in {NoPid, calls[c].pid},
             calls' = [calls EXCEPT ![c] = r]
      PROVE  \A d \in Calls : /\ calls'[d].pc # "opening"
                              /\ calls'[d].pid # NoPid => calls'[d].pid = calls[d].pid
  <2>1. \A d \in Calls : calls'[d] = IF d = c THEN r ELSE calls[d]
    BY <1>1, <1>2
  <2>. QED
    BY <1>1, <1>2, <2>1
<1>3. ASSUME NEW pc, pc # "opening", To(c, pc)
      PROVE  \A d \in Calls : /\ calls'[d].pc # "opening"
                              /\ calls'[d].pid # NoPid => calls'[d].pid = calls[d].pid
  <2>. DEFINE r == [pc |-> pc, pid |-> calls[c].pid, cancelled |-> calls[c].cancelled,
                    track |-> calls[c].track]
  <2>1. r.pc = pc /\ r.pid = calls[c].pid /\ calls' = [calls EXCEPT ![c] = r]
    BY <1>3 DEF To
  <2>. HIDE DEF r
  <2>. QED
    BY <1>2, <1>3, <2>1
<1>4. CASE \/ \E track \in BOOLEAN : Request(c, track)
           \/ OpenRefused(c) \/ OpenStdio(c)
  BY <1>1, <1>4 DEF Request, OpenRefused, OpenStdio, At
<1>5. CASE Cancel(c)
  <2>. DEFINE r == [pc |-> calls[c].pc, pid |-> calls[c].pid, cancelled |-> TRUE,
                    track |-> calls[c].track]
  <2>1. /\ r.pc = calls[c].pc /\ r.pid = calls[c].pid /\ calls' = [calls EXCEPT ![c] = r]
        /\ UNCHANGED <<process, phase, pending, refused>>
    BY <1>5 DEF Cancel, supervisorVars, lost, toolboxVars
  <2>. HIDE DEF r
  <2>. QED
    BY <1>1, <1>2, <2>1
<1>6. CASE KillByContext(c)
  BY <1>1, <1>6 DEF KillByContext, supervisorVars, lost, toolboxVars
<1>7. CASE HandshakeEnds(c) \/ Track(c) \/ TrackFails(c) \/ CallTool(c)
  <2>1. /\ \E pc \in {"closingUntracked", "calling", "closing"} : To(c, pc)
        /\ UNCHANGED <<process, phase, pending, refused>>
    BY <1>7 DEF HandshakeEnds, Track, TrackFails, CallTool, supervisorVars, lost, toolboxVars
  <2>. QED
    BY <1>3, <2>1
<1>8. CASE Close(c) \/ Release(c)
  <2>1. /\ To(c, "release") \/ calls' = [calls EXCEPT ![c] = Idle]
        /\ UNCHANGED <<process, phase, pending, refused>>
    BY <1>8 DEF Close, Release, supervisorVars, lost, toolboxVars
  <2>. QED
    BY <1>2, <1>3, <2>1, IdleCall
<1>. QED
  BY <1>4, <1>5, <1>6, <1>7, <1>8 DEF CallStep

LEMMA NoneLateNext ==
  ASSUME TypeOK, NoneLate, [Next]_vars, Snapshot => NothingUntracked
  PROVE  NoneLate'
<1>0. \A c \in Calls : calls[c].pid # NoPid => calls[c].pid \in Pids
  BY DEF TypeOK, Call
<1>1. SUFFICES ASSUME Ending'
               PROVE  \A c \in Calls : calls'[c].pc # "opening" /\ Remaining(c)'
  BY DEF NoneLate
<1>2. ASSUME NEW c \in Calls, CallStep(c)
      PROVE  \A d \in Calls : calls'[d].pc # "opening" /\ Remaining(d)'
  <2>1. Ending
    BY <1>1, <1>2 DEF Ending, CallStep, Request, Cancel, OpenRefused, OpenStdio, KillByContext,
                      HandshakeEnds, Track, TrackFails, CallTool, Close, Release, toolboxVars
  <2>. QED
    BY <1>0, <1>2, <2>1, CallsOfTheEnd DEF NoneLate, Remaining
<1>3. CASE Snapshot
  BY <1>0, <1>3 DEF Snapshot, NothingUntracked, Untracked, Remaining
<1>4. ASSUME NEW p \in Pids, Dies(p) \/ Terminate(p)
      PROVE  \A d \in Calls : calls'[d].pc # "opening" /\ Remaining(d)'
  <2>1. CASE Dies(p)
    <3>1. /\ UNCHANGED <<calls, phase, pending, refused>>
          /\ \A q \in Pids : process'[q] = "running" => process[q] = "running"
      BY <2>1 DEF Dies, TypeOK, supervisorVars, lost, toolboxVars
    <3>. QED
      BY <1>0, <1>1, <3>1 DEF NoneLate, Ending, Remaining
  <2>2. CASE Terminate(p)
    <3>1. /\ UNCHANGED <<calls, process, phase>> /\ phase = "terminating"
          /\ refused \subseteq refused' /\ pending \ {p} \subseteq pending'
          /\ pending' = pending \/ process[p] # "running" \/ p \in refused'
      BY <2>2 DEF Terminate, ProcessAlive, GiveUp
    <3>. QED
      BY <1>0, <1>1, <3>1 DEF NoneLate, Ending, Remaining
  <2>. QED
    BY <1>4, <2>1, <2>2
<1>5. CASE KillVictim
  <2>1. /\ UNCHANGED <<calls, phase>>
        /\ refused \subseteq refused' /\ pending \subseteq pending' \cup refused'
        /\ \A q \in Pids : process'[q] = "running" => process[q] = "running"
    BY <1>5 DEF KillVictim, GiveUp, TypeOK
  <2>. QED
    BY <1>0, <1>1, <2>1 DEF NoneLate, Ending, Remaining
<1>6. CASE WaitEnds
  <2>1. /\ UNCHANGED <<calls, process, refused, phase>> /\ phase = "terminating"
        /\ pending' = pending \ {victim} /\ process[victim] # "running"
    BY <1>6 DEF WaitEnds, supervisorVars, lost
  <2>. QED
    BY <1>0, <1>1, <2>1 DEF NoneLate, Ending, Remaining
<1>7. CASE ForgetAll
  BY <1>1, <1>7 DEF ForgetAll, lost, NoneLate, Ending, Remaining
<1>8. CASE HttpClose \/ Exit \/ Crash \/ Restart
  BY <1>1, <1>8 DEF HttpClose, Exit, Crash, Restart, Ending
<1>9. CASE UNCHANGED vars
  BY <1>1, <1>9 DEF vars, NoneLate, Ending, Remaining
<1>. QED
  BY <1>2, <1>3, <1>4, <1>5, <1>6, <1>7, <1>8, <1>9 DEF Next, ShutdownStep

\* what a toolbox that has cleaned up can leave running of its own children and
\* of the tracked ones it found
OnlyLostRemain ==
  phase = "cleared" =>
    /\ \A c \in Calls : calls[c].pid # NoPid /\ process[calls[c].pid] = "running" =>
         calls[c].pid \in refused
    /\ \A p \in owed : process[p] = "running" => p \in refused \cup unread

(* NoOrphans, which fails, has three causes (ExecuteMCP, Track, Shutdown,  *)
(* terminateProcess, load).  If no request was starting a child, or had    *)
(* one that Track had not been told of, at the moment Shutdown copied its  *)
(* pids, then a child of this toolbox, or a tracked one of an earlier one, *)
(* is left running only if a signal was refused or the file could not be   *)
(* read.                                                                   *)
THEOREM OrphansHaveCauses == Spec /\ [][Snapshot => NothingUntracked]_vars => []OnlyLostRemain
<1>1. Init => NoneLate
  BY DEF Init, NoneLate, Ending
<1>2. TypeOK /\ NoneLate /\ [Next]_vars /\ [Snapshot => NothingUntracked]_vars => NoneLate'
  <2>1. Snapshot => ~UNCHANGED vars
    BY DEF Snapshot, vars
  <2>. QED
    BY <2>1, NoneLateNext
<1>3. Inv => TypeOK
  BY DEF Inv
<1>4. Inv /\ NoneLate => OnlyLostRemain
  BY DEF Inv, Recorded, NoneAfter, Live, NoneLate, Ending, Remaining, OnlyLostRemain
<1>. QED
  BY <1>1, <1>2, <1>3, <1>4, SupervisorInvariant, PTL DEF Spec
=============================================================================
