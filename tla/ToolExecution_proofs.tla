------------------------ MODULE ToolExecution_proofs ------------------------
(***************************************************************************)
(* Proofs about ToolExecution, for any calls and any number of attempts.   *)
(*                                                                         *)
(* A record is true because the goroutine of its call knows, at each step  *)
(* until it has appended the record, how many requests have arrived, and   *)
(* because a call with a record never goes back to the steps that send.    *)
(* What a broken write costs is paid in two parts: the record it was       *)
(* writing, and the one that is glued to the line it left torn.  The log   *)
(* itself only grows.                                                      *)
(***************************************************************************)
EXTENDS ToolExecution, FiniteSetTheorems, TLAPS

Unrecorded == {"idle", "attempt", "sent", "arrived", "sleep", "record", "rejected"}

Counted(c) ==
  /\ At(c, "idle") => received[c] = 0 /\ calls[c].attempt = 0
  /\ At(c, "attempt") \/ At(c, "sent") => received[c] = calls[c].attempt
  /\ At(c, "arrived") \/ At(c, "sleep") => received[c] = calls[c].attempt + 1
  /\ At(c, "record") =>
       /\ calls[c].event \in Events
       /\ calls[c].event = "tool_execution" => received[c] = calls[c].attempt + 1
       /\ calls[c].event = "authz_denial" => received[c] = 0
  /\ calls[c].pc \in Unrecorded => Recorded(c) = {}

Inv == TypeOK /\ RecordsAreTrue /\ \A c \in Calls : Counted(c)

-----------------------------------------------------------------------------
(* What an append does to the lines of the log.                            *)

LEMMA RecordedText ==
  ASSUME TypeOK, NEW i \in DOMAIN log, NEW r \in log[i].text
  PROVE  r \in Record /\ r.call \in Calls /\ i \in Recorded(r.call)
<1>1. log[i] \in Lines
  BY DEF TypeOK
<1>2. r \in Record
  BY <1>1 DEF Lines, Whole, Torn, Glued
<1>3. QED
  BY <1>2 DEF Record, Recorded

(* Append writes one line at the end, or ends the one that is torn.        *)
LEMMA AppendedLines ==
  ASSUME TypeOK, NEW r \in Record, log' = Appended(r)
  PROVE  /\ log' \in Seq(Lines)
         /\ \A i \in DOMAIN log' : i < Len(log') => log'[i].ended
         /\ DOMAIN log \subseteq DOMAIN log'
         /\ \A i \in DOMAIN log : log'[i].text = log[i].text
         /\ \/ DOMAIN log' = DOMAIN log
            \/ /\ DOMAIN log' = DOMAIN log \cup {Len(log) + 1}
               /\ log'[Len(log) + 1].text = {r}
<1>1. log \in Seq(Lines) /\ Len(log) \in Nat
  BY DEF TypeOK
<1>2. CASE EndedLog
  <2>1. log' = Append(log, Whole(r))
    BY <1>2 DEF Appended
  <2>2. Whole(r) \in Lines /\ Whole(r).text = {r}
    BY DEF Lines, Whole
  <2>3. \A i \in DOMAIN log : log[i].ended
    BY <1>1, <1>2 DEF TypeOK, EndedLog
  <2>4. /\ Len(log') = Len(log) + 1
        /\ \A i \in 1..Len(log) : log'[i] = log[i]
        /\ log'[Len(log) + 1] = Whole(r)
    BY <1>1, <2>1, <2>2
  <2>5. log' \in Seq(Lines)
    BY <1>1, <2>1, <2>2
  <2>6. QED
    BY <1>1, <2>2, <2>3, <2>4, <2>5
<1>3. CASE ~EndedLog
  <2>1. log # <<>> /\ ~log[Len(log)].ended
    BY <1>3 DEF EndedLog
  <2>2. Len(log) \in DOMAIN log
    BY <1>1, <2>1
  <2>3. log[Len(log)] = Torn \/ log[Len(log)].ended
    BY <1>1, <2>2 DEF Lines, Whole, Glued
  <2>4. log' = [log EXCEPT ![Len(log)] = Glued]
    BY <1>3 DEF Appended
  <2>5. Glued \in Lines
    BY DEF Lines
  <2>6. log' \in Seq(Lines) /\ Len(log') = Len(log) /\ DOMAIN log' = DOMAIN log
    BY <1>1, <2>2, <2>4, <2>5
  <2>7. \A i \in DOMAIN log : i # Len(log) => log'[i] = log[i]
    BY <1>1, <2>4
  <2>8. log'[Len(log)] = Glued
    BY <1>1, <2>2, <2>4
  <2>9. log[Len(log)].text = {} /\ Glued.text = {} /\ Glued.ended
    BY <2>1, <2>3 DEF Torn, Glued
  <2>10. QED
    BY <1>1, <2>6, <2>7, <2>8, <2>9 DEF TypeOK
<1>4. QED
  BY <1>2, <1>3

(* A write that breaks off leaves at most a torn line at the end.          *)
LEMMA BrokenLines ==
  ASSUME TypeOK, EndedLog, log' = Append(log, Torn)
  PROVE  /\ log' \in Seq(Lines)
         /\ \A i \in DOMAIN log' : i < Len(log') => log'[i].ended
         /\ DOMAIN log' = DOMAIN log \cup {Len(log) + 1}
         /\ \A i \in DOMAIN log : log'[i].text = log[i].text
         /\ log'[Len(log) + 1].text = {}
<1>1. log \in Seq(Lines) /\ Len(log) \in Nat
  BY DEF TypeOK
<1>2. Torn \in Lines /\ Torn.text = {}
  BY DEF Lines, Torn
<1>3. \A i \in DOMAIN log : log[i].ended
  BY <1>1 DEF TypeOK, EndedLog
<1>4. /\ Len(log') = Len(log) + 1
      /\ \A i \in 1..Len(log) : log'[i] = log[i]
      /\ log'[Len(log) + 1] = Torn
  BY <1>1, <1>2
<1>5. QED
  BY <1>1, <1>2, <1>3, <1>4

-----------------------------------------------------------------------------
(* Steps.                                                                  *)

(* The calls keep their type when one of them takes a value of the type.   *)
LEMMA OneCall ==
  ASSUME TypeOK, NEW c \in Calls, NEW x \in Call, calls' = [calls EXCEPT ![c] = x]
  PROVE  calls' \in [Calls -> Call] /\ calls'[c] = x
         /\ \A d \in Calls : d # c => calls'[d] = calls[d]
BY DEF TypeOK

LEMMA CallParts ==
  ASSUME TypeOK, NEW c \in Calls
  PROVE  /\ calls[c] \in Call
         /\ calls[c].attempt \in Nat /\ calls[c].attempt < maxAttempts
         /\ \A pc \in CallPCs : [calls[c] EXCEPT !.pc = pc] \in Call
                               /\ [calls[c] EXCEPT !.pc = pc].pc = pc
                               /\ [calls[c] EXCEPT !.pc = pc].attempt = calls[c].attempt
                               /\ [calls[c] EXCEPT !.pc = pc].event = calls[c].event
<1>1. calls[c] \in Call
  BY DEF TypeOK
<1>2. QED
  BY <1>1, ExecutionAssumption DEF Call, Attempts

(* One call goes on, the log stays: only what it knows of itself matters.  *)
LEMMA OneCallKeepsInv ==
  ASSUME Inv, NEW c \in Calls, NEW x \in Call,
         calls' = [calls EXCEPT ![c] = x],
         UNCHANGED <<log, toolbox, restarts, broken>>,
         gone' \subseteq Calls,
         received' = received \/ (At(c, "sent") /\ received' = [received EXCEPT ![c] = @ + 1]),
         x.pc \in Unrecorded => calls[c].pc \in Unrecorded,
         Counted(c)'
  PROVE  Inv'
<1>1. calls' \in [Calls -> Call] /\ calls'[c] = x /\ \A d \in Calls : d # c => calls'[d] = calls[d]
  BY OneCall DEF Inv
<1>2. \A d \in Calls : Recorded(d)' = Recorded(d)
  BY DEF Recorded
<1>3. \A d \in Calls : d # c => received'[d] = received[d]
  BY DEF Inv, TypeOK
<1>4. \A d \in Calls : Counted(d)'
  BY <1>1, <1>2, <1>3 DEF Inv, Counted, At
<1>5. TypeOK'
  <2>1. received' \in [Calls -> 0..maxAttempts]
    <3>1. CASE received' = received
      BY <3>1 DEF Inv, TypeOK
    <3>2. CASE At(c, "sent") /\ received' = [received EXCEPT ![c] = @ + 1]
      <4>1. received[c] + 1 \in 0..maxAttempts
        BY <3>2, CallParts, ExecutionAssumption DEF Inv, Counted
      <4>2. QED
        BY <3>2, <4>1 DEF Inv, TypeOK
    <3>3. QED
      BY <3>1, <3>2
  <2>2. QED
    BY <1>1, <2>1 DEF Inv, TypeOK
<1>6. RecordsAreTrue'
  <2> SUFFICES ASSUME NEW i \in DOMAIN log, NEW r \in log[i].text
               PROVE  /\ Recorded(r.call)' = {i}
                      /\ r.event = "tool_execution" => received'[r.call] = r.retries + 1
                      /\ r.event = "authz_denial" => received'[r.call] = 0
    BY DEF RecordsAreTrue
  <2>1. r.call \in Calls /\ i \in Recorded(r.call)
    BY RecordedText DEF Inv
  <2>2. received'[r.call] = received[r.call]
    <3>1. CASE r.call = c
      <4>1. calls[c].pc \notin Unrecorded
        BY <2>1, <3>1 DEF Inv, Counted
      <4>2. QED
        BY <3>1, <4>1 DEF At, Unrecorded
    <3>2. CASE r.call # c
      BY <1>3, <2>1, <3>2
    <3>3. QED
      BY <3>1, <3>2
  <2>3. QED
    BY <1>2, <2>1, <2>2 DEF Inv, RecordsAreTrue
<1>7. QED
  BY <1>4, <1>5, <1>6 DEF Inv

(* A call that has its record to write gets to its reply.                  *)
LEMMA WroteRecord ==
  ASSUME Inv, NEW c \in Calls, At(c, "record"),
         Goto(c, "reply"), UNCHANGED <<received, gone, toolbox, restarts>>,
         broken' \in 0..MaxBroken,
         log' \in Seq(Lines),
         \A i \in DOMAIN log' : i < Len(log') => log'[i].ended,
         DOMAIN log \subseteq DOMAIN log',
         \A i \in DOMAIN log : log'[i].text = log[i].text,
         NEW n, n \notin DOMAIN log,
         DOMAIN log' \subseteq DOMAIN log \cup {n},
         n \in DOMAIN log' => log'[n].text \subseteq {NewRecord(c)}
  PROVE  Inv'
<1>1. "reply" \in CallPCs
  BY DEF CallPCs
<1>2. calls' \in [Calls -> Call] /\ calls'[c].pc = "reply"
      /\ \A d \in Calls : d # c => calls'[d] = calls[d]
  <2> DEFINE x == [calls[c] EXCEPT !.pc = "reply"]
  <2>1. calls' = [calls EXCEPT ![c] = x]
    BY DEF Goto
  <2>2. x \in Call /\ x.pc = "reply"
    BY <1>1, CallParts DEF Inv
  <2> HIDE DEF x
  <2>3. QED
    BY <2>1, <2>2, OneCall DEF Inv
<1>3. NewRecord(c).call = c /\ NewRecord(c).event = calls[c].event
      /\ NewRecord(c).retries = calls[c].attempt
  BY DEF NewRecord
<1>4. \A d \in Calls : d # c => Recorded(d)' = Recorded(d)
  BY <1>3 DEF Recorded
<1>5. Recorded(c) = {} /\ Recorded(c)' \subseteq {n}
  <2>1. Recorded(c) = {}
    BY DEF Inv, Counted, At, Unrecorded
  <2>2. \A i \in DOMAIN log : i \notin Recorded(c)'
    BY <2>1 DEF Recorded
  <2>3. Recorded(c)' \subseteq DOMAIN log'
    BY DEF Recorded
  <2>4. QED
    BY <2>1, <2>2, <2>3
<1>6. TypeOK'
  BY <1>2 DEF Inv, TypeOK
<1>7. \A d \in Calls : Counted(d)'
  BY <1>2, <1>4 DEF Inv, Counted, At, Unrecorded
<1>8. RecordsAreTrue'
  <2> SUFFICES ASSUME NEW i \in DOMAIN log', NEW r \in log'[i].text
               PROVE  /\ Recorded(r.call)' = {i}
                      /\ r.event = "tool_execution" => received'[r.call] = r.retries + 1
                      /\ r.event = "authz_denial" => received'[r.call] = 0
    BY DEF RecordsAreTrue
  <2>1. CASE i \in DOMAIN log
    <3>1. r \in log[i].text
      BY <2>1
    <3>2. r.call \in Calls /\ i \in Recorded(r.call)
      BY <2>1, <3>1, RecordedText DEF Inv
    <3>3. r.call # c
      BY <1>5, <3>2
    <3>4. QED
      BY <1>4, <2>1, <3>1, <3>2, <3>3 DEF Inv, RecordsAreTrue
  <2>2. CASE i \notin DOMAIN log
    <3>1. i = n /\ r = NewRecord(c)
      BY <2>2
    <3>2. Recorded(c)' = {n}
      BY <1>3, <1>5, <3>1 DEF Recorded
    <3>3. Counted(c)
      BY DEF Inv
    <3>4. QED
      BY <1>3, <3>1, <3>2, <3>3 DEF Counted
  <2>3. QED
    BY <2>1, <2>2
<1>9. QED
  BY <1>6, <1>7, <1>8 DEF Inv

(* A step of Goto, with the knowledge that the next lemmas need.           *)
LEMMA GotoKeepsInv ==
  ASSUME Inv, NEW c \in Calls, NEW pc \in CallPCs, Goto(c, pc),
         UNCHANGED <<log, toolbox, restarts, broken>>,
         gone' \subseteq Calls,
         received' = received \/ (At(c, "sent") /\ received' = [received EXCEPT ![c] = @ + 1]),
         pc \in Unrecorded => calls[c].pc \in Unrecorded,
         pc \notin {"idle", "record"},
         pc \in {"attempt", "sent"} => received'[c] = calls[c].attempt,
         pc \in {"arrived", "sleep"} => received'[c] = calls[c].attempt + 1
  PROVE  Inv'
<1> DEFINE x == [calls[c] EXCEPT !.pc = pc]
<1>1. calls' = [calls EXCEPT ![c] = x]
  BY DEF Goto
<1>2. x \in Call /\ x.pc = pc /\ x.attempt = calls[c].attempt
  BY CallParts DEF Inv
<1> HIDE DEF x
<1>3. calls'[c] = x
  BY <1>1, <1>2, OneCall DEF Inv
<1>4. Recorded(c)' = Recorded(c)
  BY DEF Recorded
<1>5. Counted(c)'
  BY <1>2, <1>3, <1>4 DEF Counted, At, Inv
<1>6. QED
  BY <1>1, <1>2, <1>5, OneCallKeepsInv

(* The end of an execution, or a denial: the record to be is true.         *)
LEMMA OutcomeKeepsInv ==
  ASSUME Inv, NEW c \in Calls, NEW event \in Events, NEW retries \in Attempts,
         Outcome(c, event, retries),
         UNCHANGED <<log, received, toolbox, restarts, broken>>,
         calls[c].pc \in Unrecorded,
         event = "tool_execution" => received[c] = retries + 1,
         event = "authz_denial" => received[c] = 0
  PROVE  Inv'
<1> DEFINE x == [pc |-> "record", attempt |-> retries, event |-> event]
<1>1. calls' = [calls EXCEPT ![c] = x] /\ gone' = gone \ {c}
  BY DEF Outcome
<1>2. x \in Call /\ x.pc = "record" /\ x.attempt = retries /\ x.event = event
  BY DEF Call, CallPCs
<1> HIDE DEF x
<1>3. calls'[c] = x
  BY <1>1, <1>2, OneCall DEF Inv
<1>4. Recorded(c)' = Recorded(c) /\ gone' \subseteq Calls
  BY <1>1 DEF Recorded, Inv, TypeOK
<1>5. Counted(c)'
  BY <1>2, <1>3, <1>4 DEF Counted, At, Inv, Unrecorded
<1>6. QED
  BY <1>1, <1>2, <1>4, <1>5, OneCallKeepsInv DEF Unrecorded

LEMMA CallStepKeepsInv ==
  ASSUME Inv, NEW c \in Calls, CallStep(c)
  PROVE  Inv'
<1> USE DEF processVars
<1>1. TypeOK /\ Counted(c) /\ gone \subseteq Calls
  BY DEF Inv, TypeOK
<1>2. calls[c].attempt \in Nat /\ calls[c].attempt < maxAttempts /\ calls[c].attempt \in Attempts
  BY <1>1, CallParts, ExecutionAssumption DEF Attempts
<1>3. 0 \in Attempts
  BY ExecutionAssumption DEF Attempts
<1>4. CASE Reject(c)
  BY <1>1, <1>4, GotoKeepsInv DEF Reject, At, CallPCs, Unrecorded
<1>5. CASE Deny(c)
  BY <1>1, <1>3, <1>5, OutcomeKeepsInv DEF Deny, At, Unrecorded, Events, Counted
<1>6. CASE Allow(c)
  <2>1. calls[c].attempt = 0
    BY <1>1, <1>6 DEF Allow, Counted
  <2>2. QED
    BY <1>1, <1>6, <2>1, GotoKeepsInv DEF Allow, At, CallPCs, Unrecorded, Counted
<1>7. CASE Send(c)
  BY <1>1, <1>7, GotoKeepsInv DEF Send, At, CallPCs, Unrecorded, Counted
<1>8. CASE Arrive(c)
  <2>1. received'[c] = received[c] + 1
    BY <1>1, <1>8 DEF Arrive, TypeOK
  <2>2. QED
    BY <1>1, <1>8, <2>1, GotoKeepsInv DEF Arrive, At, CallPCs, Unrecorded, Counted
<1>9. CASE ExecuteFails(c)
  BY <1>1, <1>3, <1>9, OutcomeKeepsInv DEF ExecuteFails, Unrecorded, Events
<1>10. CASE FinalAnswer(c)
  BY <1>1, <1>2, <1>10, OutcomeKeepsInv DEF FinalAnswer, At, Unrecorded, Events, Counted
<1>11. CASE BusyAnswer(c)
  BY <1>1, <1>11, GotoKeepsInv DEF BusyAnswer, At, CallPCs, Unrecorded, Counted
<1>12. CASE Wake(c)
  <2>1. CASE calls[c].attempt + 1 < maxAttempts
    <3> DEFINE x == [calls[c] EXCEPT !.pc = "attempt", !.attempt = calls[c].attempt + 1]
    <3>1. calls' = [calls EXCEPT ![c] = x]
      BY <1>12, <2>1 DEF Wake
    <3>2. x \in Call /\ x.pc = "attempt" /\ x.attempt = calls[c].attempt + 1
      <4>1. calls[c].attempt + 1 \in Attempts
        BY <1>2, <2>1, ExecutionAssumption DEF Attempts
      <4>2. calls[c] \in Call /\ "attempt" \in CallPCs
        BY <1>1 DEF TypeOK, CallPCs
      <4>3. QED
        BY <4>1, <4>2 DEF Call
    <3> HIDE DEF x
    <3>3. calls'[c] = x
      BY <1>1, <3>1, <3>2, OneCall
    <3>4. Recorded(c)' = Recorded(c) /\ received[c] = calls[c].attempt + 1
      BY <1>1, <1>12 DEF Recorded, Wake, Counted
    <3>5. Counted(c)'
      BY <1>1, <1>12, <3>2, <3>3, <3>4 DEF Counted, At, Unrecorded, Wake
    <3>6. QED
      BY <1>1, <1>12, <2>1, <3>1, <3>2, <3>5, OneCallKeepsInv DEF Wake, At, Unrecorded
  <2>2. CASE ~(calls[c].attempt + 1 < maxAttempts)
    BY <1>1, <1>2, <1>12, <2>2, OutcomeKeepsInv DEF Wake, At, Unrecorded, Events, Counted
  <2>3. QED
    BY <2>1, <2>2
<1>13. NewRecord(c) \in Record \/ ~At(c, "record")
  BY <1>1, <1>2 DEF NewRecord, Record, Counted
<1>14. Len(log) \in Nat /\ DOMAIN log = 1..Len(log)
  BY <1>1 DEF TypeOK
<1>15. CASE AppendRecord(c)
  <2>1. broken' \in 0..MaxBroken
    BY <1>1, <1>15 DEF AppendRecord, TypeOK
  <2>2. QED
    BY <1>1, <1>13, <1>14, <1>15, <2>1, AppendedLines, WroteRecord DEF AppendRecord
<1>16. CASE AppendBreaks(c)
  <2>1. broken' \in 0..MaxBroken
    BY <1>1, <1>16, ExecutionAssumption DEF AppendBreaks, TypeOK
  <2>2. CASE UNCHANGED log
    BY <1>1, <1>14, <1>16, <2>1, <2>2, WroteRecord DEF AppendBreaks, TypeOK
  <2>3. CASE EndedLog /\ log' = Append(log, Torn)
    BY <1>1, <1>14, <1>16, <2>1, <2>3, BrokenLines, WroteRecord DEF AppendBreaks
  <2>4. QED
    BY <1>16, <2>2, <2>3 DEF AppendBreaks
<1>17. CASE Reply(c)
  <2> DEFINE x == Fresh("answered")
  <2>1. x \in Call /\ x.pc = "answered"
    BY <1>3 DEF Fresh, Call, CallPCs
  <2>2. calls' = [calls EXCEPT ![c] = x]
    BY <1>17 DEF Reply
  <2> HIDE DEF x
  <2>3. calls'[c] = x
    BY <1>1, <2>1, <2>2, OneCall
  <2>4. Counted(c)'
    BY <2>1, <2>3 DEF Counted, At, Unrecorded
  <2>5. QED
    BY <1>1, <1>17, <2>1, <2>2, <2>4, OneCallKeepsInv DEF Reply, Unrecorded
<1>18. CASE Leave(c)
  <2>1. \A d \in Calls : Counted(d)' = Counted(d)
    BY <1>18 DEF Leave, Counted, At, Recorded
  <2>2. QED
    BY <1>18, <2>1 DEF Leave, Inv, TypeOK, RecordsAreTrue, Recorded
<1>19. QED
  BY <1>4, <1>5, <1>6, <1>7, <1>8, <1>9, <1>10, <1>11, <1>12, <1>15, <1>16, <1>17, <1>18
     DEF CallStep

LEMMA InvStep == Inv /\ [Next]_vars => Inv'
<1> SUFFICES ASSUME Inv, [Next]_vars
             PROVE  Inv'
  OBVIOUS
<1> USE DEF processVars
<1>1. ASSUME NEW c \in Calls, CallStep(c)
      PROVE  Inv'
  BY <1>1, CallStepKeepsInv
<1>2. ASSUME UNCHANGED <<calls, log, received, broken>>, gone' \subseteq Calls,
             toolbox' \in {"serving", "closed", "down"}, restarts' \in 0..MaxRestarts
      PROVE  Inv'
  <2>1. \A d \in Calls : Counted(d)' = Counted(d)
    BY <1>2 DEF Counted, At, Recorded
  <2>2. QED
    BY <1>2, <2>1 DEF Inv, TypeOK, RecordsAreTrue, Recorded
<1>3. CASE CloseServer
  BY <1>2, <1>3 DEF CloseServer, Inv, TypeOK
<1>4. CASE Restart
  BY <1>2, <1>4, ExecutionAssumption DEF Restart, Inv, TypeOK
<1>5. CASE Exit
  <2>1. UNCHANGED <<log, received, restarts, broken>> /\ gone' = {} /\ toolbox' = "down"
    BY <1>5 DEF Exit
  <2>2. Fresh("killed") \in Call /\ Fresh("killed").pc = "killed"
    BY ExecutionAssumption DEF Fresh, Call, CallPCs, Attempts
  <2>3. \A d \in Calls : calls'[d] = calls[d] \/ calls'[d] = Fresh("killed")
    BY <1>5 DEF Exit
  <2>4. calls' \in [Calls -> Call]
    BY <1>5, <2>2 DEF Exit, Inv, TypeOK
  <2>5. \A d \in Calls : Counted(d)'
    BY <2>1, <2>2, <2>3 DEF Inv, Counted, At, Recorded, Unrecorded
  <2>6. RecordsAreTrue'
    BY <2>1 DEF Inv, RecordsAreTrue, Recorded
  <2>7. QED
    BY <2>1, <2>4, <2>5, <2>6 DEF Inv, TypeOK
<1>6. CASE UNCHANGED vars
  BY <1>2, <1>6 DEF vars, Inv, TypeOK
<1>7. QED
  BY <1>1, <1>3, <1>4, <1>5, <1>6 DEF Next

(* The invariant behind the theorems below: a call's attempts, the         *)
(* requests that arrived and what its record will say fit together.        *)
THEOREM ExecutionInvariant == Spec => []Inv
<1>1. Init => Inv
  BY ExecutionAssumption
     DEF Init, Inv, TypeOK, RecordsAreTrue, Counted, Recorded, At, Fresh, Call, CallPCs, Attempts
<1>2. QED
  BY <1>1, InvStep, PTL DEF Spec

(* Only the last line of the log can be torn, and no call sends more       *)
(* requests than Execute has attempts.                                     *)
THEOREM TypeInvariant == Spec => []TypeOK
<1>1. Inv => TypeOK
  BY DEF Inv
<1>2. QED
  BY <1>1, ExecutionInvariant, PTL

(* The audit log tells the truth about every call it has: how many         *)
(* requests arrived for an execution, none for a denial, in one record.    *)
THEOREM AuditIsTrue == Spec => []RecordsAreTrue
<1>1. Inv => RecordsAreTrue
  BY DEF Inv
<1>2. QED
  BY <1>1, ExecutionInvariant, PTL

-----------------------------------------------------------------------------
(* The loss budget.  A call past its record that has none was charged to a *)
(* broken write; a line that is torn now is a charge still to come.        *)

Missing == {c \in Calls : calls[c].pc \in {"reply", "answered"} /\ Recorded(c) = {}}
StillToCome == IF EndedLog THEN 0 ELSE 1

LossInv ==
  /\ IsFiniteSet(Missing)
  /\ Cardinality(Missing) + StillToCome <= 2 * broken

(* A step that leaves the log and loses no call.                           *)
LEMMA NothingMissed ==
  ASSUME LossInv, Inv, UNCHANGED <<log, broken>>, Missing' \subseteq Missing
  PROVE  LossInv'
<1>1. IsFiniteSet(Missing') /\ Cardinality(Missing') <= Cardinality(Missing)
  BY FS_Subset DEF LossInv
<1>2. Cardinality(Missing) \in Nat /\ Cardinality(Missing') \in Nat /\ broken \in Nat
  BY <1>1, FS_CardinalityType, ExecutionAssumption DEF LossInv, Inv, TypeOK
<1>3. StillToCome' = StillToCome /\ StillToCome \in {0, 1}
  BY DEF StillToCome, EndedLog
<1>4. QED
  BY <1>1, <1>2, <1>3 DEF LossInv

(* A step of AppendRecord or AppendBreaks: at most its own call is missed, *)
(* and the budget grows by what that and the torn line cost.               *)
LEMMA OneMissed ==
  ASSUME LossInv, Inv, NEW c \in Calls, Missing' \subseteq Missing \cup {c},
         broken' \in Nat,
         \/ StillToCome' = 0 /\ broken' = broken
            /\ (Missing' \subseteq Missing \/ StillToCome = 1)
         \/ broken' = broken + 1
  PROVE  LossInv'
<1>1. /\ IsFiniteSet(Missing \cup {c})
      /\ Cardinality(Missing \cup {c}) <= Cardinality(Missing) + 1
  <2>1. IsFiniteSet(Missing)
    BY DEF LossInv
  <2>2. Cardinality(Missing) \in Nat
    BY <2>1, FS_CardinalityType
  <2>3. /\ IsFiniteSet(Missing \cup {c})
        /\ Cardinality(Missing \cup {c}) =
             IF c \in Missing THEN Cardinality(Missing) ELSE Cardinality(Missing) + 1
    BY <2>1, FS_AddElement, Zenon
  <2>4. QED
    BY <2>2, <2>3
<1>2. IsFiniteSet(Missing') /\ Cardinality(Missing') <= Cardinality(Missing \cup {c})
  BY <1>1, FS_Subset
<1>3. Missing' \subseteq Missing => Cardinality(Missing') <= Cardinality(Missing)
  BY FS_Subset DEF LossInv
<1>4. /\ Cardinality(Missing) \in Nat
      /\ Cardinality(Missing') \in Nat
      /\ Cardinality(Missing \cup {c}) \in Nat
      /\ broken \in Nat
  BY <1>1, <1>2, FS_CardinalityType, ExecutionAssumption DEF LossInv, Inv, TypeOK
<1>5. StillToCome \in {0, 1} /\ StillToCome' \in {0, 1}
  BY DEF StillToCome
<1>6. QED
  BY <1>1, <1>2, <1>3, <1>4, <1>5 DEF LossInv

(* The other calls keep what the log says of them.                         *)
LEMMA OthersKeepRecords ==
  ASSUME NEW c \in Calls, Goto(c, "reply"), Inv,
         \A i \in DOMAIN log' :
           \/ i \in DOMAIN log /\ log'[i].text = log[i].text
           \/ log'[i].text \subseteq {NewRecord(c)},
         DOMAIN log \subseteq DOMAIN log',
         \A i \in DOMAIN log : log'[i].text = log[i].text
  PROVE  Missing' \subseteq Missing \cup {c}
<1>1. NewRecord(c).call = c
  BY DEF NewRecord
<1>2. \A d \in Calls : d # c => Recorded(d)' = Recorded(d)
  BY <1>1 DEF Recorded
<1>3. \A d \in Calls : d # c => calls'[d] = calls[d]
  BY DEF Goto, Inv, TypeOK
<1>4. QED
  BY <1>2, <1>3 DEF Missing

(* The last line has its end after an append; what is glued is lost.       *)
LEMMA LossAppendRecord ==
  ASSUME LossInv, Inv, NEW c \in Calls, AppendRecord(c)
  PROVE  LossInv'
<1>1. log \in Seq(Lines) /\ Len(log) \in Nat /\ DOMAIN log = 1..Len(log)
  BY DEF Inv, TypeOK
<1>2. NewRecord(c) \in Record
  <2>1. calls[c].event \in Events
    BY DEF AppendRecord, Inv, Counted
  <2>2. calls[c].attempt \in Attempts
    BY DEF Inv, TypeOK, Call
  <2>3. QED
    BY <2>1, <2>2 DEF NewRecord, Record
<1>3. log' = Appended(NewRecord(c)) /\ Goto(c, "reply") /\ broken' = broken
  BY DEF AppendRecord
<1>4. Missing' \subseteq Missing \cup {c}
  <2>1. /\ DOMAIN log \subseteq DOMAIN log'
        /\ \A i \in DOMAIN log : log'[i].text = log[i].text
        /\ \/ DOMAIN log' = DOMAIN log
           \/ /\ DOMAIN log' = DOMAIN log \cup {Len(log) + 1}
              /\ log'[Len(log) + 1].text = {NewRecord(c)}
    BY <1>2, <1>3, AppendedLines DEF Inv
  <2>2. QED
    BY <1>3, <2>1, OthersKeepRecords
<1>5. CASE EndedLog
  <2>1. log' = Append(log, Whole(NewRecord(c)))
    BY <1>3, <1>5 DEF Appended
  <2>2. Whole(NewRecord(c)).text = {NewRecord(c)} /\ Whole(NewRecord(c)).ended
    BY DEF Whole
  <2>3. Len(log') = Len(log) + 1 /\ log'[Len(log')] = Whole(NewRecord(c))
        /\ Len(log') \in DOMAIN log'
    <3>1. Whole(NewRecord(c)) \in Lines
      BY <1>2 DEF Lines
    <3>2. QED
      BY <1>1, <2>1, <3>1
  <2>4. StillToCome' = 0
    BY <2>2, <2>3 DEF StillToCome, EndedLog
  <2>5. Len(log') \in Recorded(c)'
    BY <2>2, <2>3 DEF Recorded, NewRecord
  <2>6. c \notin Missing'
    BY <2>5 DEF Missing
  <2>7. QED
    BY <1>3, <1>4, <2>4, <2>6, OneMissed, ExecutionAssumption DEF Inv, TypeOK
<1>6. CASE ~EndedLog
  <2>1. log' = [log EXCEPT ![Len(log)] = Glued] /\ log # <<>>
    BY <1>3, <1>6 DEF Appended, EndedLog
  <2>2. Len(log') = Len(log) /\ log'[Len(log)] = Glued
    BY <1>1, <2>1
  <2>3. StillToCome' = 0 /\ StillToCome = 1
    BY <1>6, <2>2 DEF StillToCome, EndedLog, Glued
  <2>4. QED
    BY <1>3, <1>4, <2>3, OneMissed, ExecutionAssumption DEF Inv, TypeOK
<1>7. QED
  BY <1>5, <1>6

LEMMA LossAppendBreaks ==
  ASSUME LossInv, Inv, NEW c \in Calls, AppendBreaks(c)
  PROVE  LossInv'
<1>1. Len(log) \in Nat /\ DOMAIN log = 1..Len(log)
  BY DEF Inv, TypeOK
<1>2. Goto(c, "reply") /\ broken' = broken + 1 /\ broken' \in Nat
  BY ExecutionAssumption DEF AppendBreaks, Inv, TypeOK
<1>3. Missing' \subseteq Missing \cup {c}
  <2>1. CASE UNCHANGED log
    BY <1>2, <2>1, OthersKeepRecords
  <2>2. CASE EndedLog /\ log' = Append(log, Torn)
    <3>1. /\ DOMAIN log' = DOMAIN log \cup {Len(log) + 1}
          /\ \A i \in DOMAIN log : log'[i].text = log[i].text
          /\ log'[Len(log) + 1].text = {}
      BY <2>2, BrokenLines DEF Inv
    <3>2. QED
      BY <1>2, <3>1, OthersKeepRecords
  <2>3. QED
    BY <2>1, <2>2 DEF AppendBreaks
<1>4. QED
  BY <1>2, <1>3, OneMissed

(* A step that leaves the log: nobody gets past his record without one.    *)
LEMMA LossCallStep ==
  ASSUME LossInv, Inv, NEW c \in Calls, CallStep(c)
  PROVE  LossInv'
<1>1. CASE AppendRecord(c)
  BY <1>1, LossAppendRecord
<1>2. CASE AppendBreaks(c)
  BY <1>2, LossAppendBreaks
<1>3. CASE ~AppendRecord(c) /\ ~AppendBreaks(c)
  <2>1. UNCHANGED <<log, broken>>
    BY <1>3 DEF CallStep, Reject, Deny, Allow, Send, Arrive, ExecuteFails, FinalAnswer,
       BusyAnswer, Wake, Reply, Leave
  <2>2. \A d \in Calls : d # c => calls'[d] = calls[d]
    BY <1>3 DEF CallStep, Reject, Deny, Allow, Send, Arrive, ExecuteFails, FinalAnswer,
       BusyAnswer, Wake, Reply, Leave, Goto, Outcome, Inv, TypeOK
  <2>3. calls'[c].pc \in {"reply", "answered"} => calls[c].pc \in {"reply", "answered"}
    BY <1>3 DEF CallStep, Reject, Deny, Allow, Send, Arrive, ExecuteFails, FinalAnswer,
       BusyAnswer, Wake, Reply, Leave, Goto, Outcome, Fresh, At, Call, Inv, TypeOK
  <2>4. Missing' \subseteq Missing
    BY <2>1, <2>2, <2>3 DEF Missing, Recorded
  <2>5. QED
    BY <2>1, <2>4, NothingMissed
<1>4. QED
  BY <1>1, <1>2, <1>3

LEMMA LossStep == LossInv /\ Inv /\ [Next]_vars => LossInv'
<1> SUFFICES ASSUME LossInv, Inv, [Next]_vars
             PROVE  LossInv'
  OBVIOUS
<1>1. ASSUME NEW c \in Calls, CallStep(c)
      PROVE  LossInv'
  BY <1>1, LossCallStep
<1>2. CASE CloseServer \/ Restart \/ UNCHANGED vars
  <2>1. UNCHANGED <<calls, log, broken>>
    BY <1>2 DEF CloseServer, Restart, vars
  <2>2. Missing' = Missing
    BY <2>1 DEF Missing, Recorded
  <2>3. QED
    BY <2>1, <2>2, NothingMissed
<1>3. CASE Exit
  <2>1. UNCHANGED <<log, broken>>
    BY <1>3 DEF Exit
  <2>2. \A d \in Calls : calls'[d] = calls[d] \/ calls'[d].pc = "killed"
    BY <1>3 DEF Exit, Fresh
  <2>3. Missing' \subseteq Missing
    BY <2>1, <2>2 DEF Missing, Recorded
  <2>4. QED
    BY <2>1, <2>3, NothingMissed
<1>4. QED
  BY <1>1, <1>2, <1>3 DEF Next

(* Every answered call is in the log but for two for each write that broke *)
(* off (Append of pkg/audit/store.go, whose error the server ignores).     *)
THEOREM LossIsBudgeted == Spec => []LossBudget
<1>1. Init => LossInv
  <2> SUFFICES ASSUME Init
               PROVE  LossInv
    OBVIOUS
  <2>1. Missing = {}
    BY DEF Init, Missing, Fresh
  <2>2. StillToCome = 0 /\ broken = 0
    BY DEF Init, StillToCome, EndedLog
  <2>3. QED
    BY <2>1, <2>2, FS_EmptySet DEF LossInv
<1>2. LossInv /\ Inv => LossBudget
  <2> SUFFICES ASSUME LossInv, Inv
               PROVE  LossBudget
    OBVIOUS
  <2> DEFINE Lost == {c \in Calls : At(c, "answered") /\ Recorded(c) = {}}
  <2>1. Lost \subseteq Missing
    BY DEF Missing, At
  <2>2. Cardinality(Lost) <= Cardinality(Missing) /\ Cardinality(Lost) \in Nat
        /\ Cardinality(Missing) \in Nat
    BY <2>1, FS_Subset, FS_CardinalityType DEF LossInv
  <2>3. broken \in Nat /\ StillToCome \in {0, 1}
    BY ExecutionAssumption DEF Inv, TypeOK, StillToCome
  <2>4. QED
    BY <2>2, <2>3 DEF LossInv, LossBudget
<1>3. QED
  BY <1>1, <1>2, LossStep, ExecutionInvariant, PTL DEF Spec

-----------------------------------------------------------------------------
(* The log as a history.                                                   *)

\* what a step may do to the lines of the log and to the records of a call
LogGrows ==
  /\ Len(log') \in {Len(log), Len(log) + 1}
  /\ \A i \in DOMAIN log : log'[i] = log[i] \/ (log[i] = Torn /\ log'[i] = Glued)
  /\ \A c \in Calls : Recorded(c)' # Recorded(c) =>
       Recorded(c) = {} /\ At(c, "record") /\ At(c, "reply")'

(* One more line at the end, which is torn or holds the record of c.       *)
LEMMA OneMoreLine ==
  ASSUME Inv, NEW c \in Calls, At(c, "record"), Goto(c, "reply"),
         NEW line, line = Torn \/ line = Whole(NewRecord(c)), log' = Append(log, line)
  PROVE  LogGrows
<1>1. log \in Seq(Lines) /\ Len(log) \in Nat /\ DOMAIN log = 1..Len(log)
  BY DEF Inv, TypeOK
<1>2. At(c, "reply")' /\ Recorded(c) = {}
  BY DEF Inv, TypeOK, Counted, Unrecorded, Goto, At, Call
<1>3. /\ Len(log') = Len(log) + 1 /\ DOMAIN log' = DOMAIN log \cup {Len(log) + 1}
      /\ \A i \in DOMAIN log : log'[i] = log[i]
      /\ log'[Len(log) + 1] = line
  BY <1>1
<1>4. \A r \in line.text : r.call = c
  BY DEF Torn, Whole, NewRecord
<1>5. \A d \in Calls : d # c => Recorded(d)' = Recorded(d)
  BY <1>3, <1>4 DEF Recorded
<1>. QED
  BY <1>2, <1>3, <1>5 DEF LogGrows

(* A record glued to a torn line adds nothing but the end of the line.     *)
LEMMA GluedLine ==
  ASSUME Inv, ~EndedLog, log' = [log EXCEPT ![Len(log)] = Glued]
  PROVE  LogGrows
<1>1. log \in Seq(Lines) /\ Len(log) \in Nat /\ DOMAIN log = 1..Len(log)
  BY DEF Inv, TypeOK
<1>2. Len(log) \in DOMAIN log /\ ~log[Len(log)].ended
  BY <1>1, ~EndedLog DEF EndedLog
<1>3. log[Len(log)] = Torn
  BY <1>1, <1>2 DEF Lines, Whole, Glued
<1>4. /\ Len(log') = Len(log) /\ DOMAIN log' = DOMAIN log
      /\ log'[Len(log)] = Glued
      /\ \A i \in DOMAIN log : i # Len(log) => log'[i] = log[i]
  BY <1>1, <1>2
<1>5. Torn.text = {} /\ Glued.text = {}
  BY DEF Torn, Glued
<1>6. \A d \in Calls : Recorded(d)' = Recorded(d)
  BY <1>3, <1>4, <1>5 DEF Recorded
<1>. QED
  BY <1>3, <1>4, <1>6 DEF LogGrows

LEMMA SameLog ==
  ASSUME Inv, UNCHANGED log
  PROVE  LogGrows
<1>1. \A d \in Calls : Recorded(d)' = Recorded(d)
  BY DEF Recorded
<1>. QED
  BY <1>1 DEF LogGrows

LEMMA LogStep ==
  ASSUME Inv, [Next]_vars
  PROVE  LogGrows
<1>1. ASSUME NEW c \in Calls, AppendRecord(c)
      PROVE  LogGrows
  <2>1. /\ At(c, "record") /\ Goto(c, "reply")
        /\ log' = Appended(NewRecord(c))
    BY <1>1 DEF AppendRecord
  <2>2. CASE EndedLog
    BY <2>1, <2>2, OneMoreLine DEF Appended
  <2>3. CASE ~EndedLog
    BY <2>1, <2>3, GluedLine DEF Appended
  <2>. QED
    BY <2>2, <2>3
<1>2. ASSUME NEW c \in Calls, AppendBreaks(c)
      PROVE  LogGrows
  BY <1>2, OneMoreLine, SameLog DEF AppendBreaks
<1>3. ASSUME NEW c \in Calls, CallStep(c), ~AppendRecord(c), ~AppendBreaks(c)
      PROVE  UNCHANGED log
  BY <1>3 DEF CallStep, Reject, Deny, Allow, Send, Arrive, ExecuteFails, FinalAnswer, BusyAnswer,
     Wake, Reply, Leave
<1>4. CloseServer \/ Exit \/ Restart \/ UNCHANGED vars => UNCHANGED log
  BY DEF CloseServer, Exit, Restart, vars
<1>. QED
  BY <1>1, <1>2, <1>3, <1>4, SameLog DEF Next

(* The audit log is a history: no step, exits and restarts included, takes *)
(* a line away or alters one that has its end; the line a broken write     *)
(* left gets its end and stays unreadable; and a call gains a record only  *)
(* by its own append, once (FileStore.Append, recordEvent).                *)
THEOREM AuditOnlyGrows == Spec => [][LogGrows]_vars
<1>1. Inv /\ [Next]_vars => [LogGrows]_vars
  BY LogStep
<1>. QED
  BY <1>1, ExecutionInvariant, PTL DEF Spec
=============================================================================
