------------------------- MODULE McpHttpSession_proofs -------------------------
(***************************************************************************)
(* Proofs about McpHttpSession, for any number of requests, sessions and   *)
(* broken events.                                                          *)
(*                                                                         *)
(* A request carries the next number of its client, so the ids of the log  *)
(* ran tell the requests apart.  That a tool call runs once rests on       *)
(* UnsentCall: wherever the client may still send the call, or send it     *)
(* again, the server has not run it.  That a closed client leaves no       *)
(* session rests on Held, which follows the one session there can be       *)
(* through losses and replacements.                                        *)
(*                                                                         *)
(* The last section shows that the client implements RequestContract,      *)
(* step by step.                                                           *)
(***************************************************************************)
EXTENDS McpHttpSession, TLAPS

Under == {"connect", "post", "wait"}
Ran(n) == \E i \in DOMAIN ran : ran[i].id = n

(* Where the client can be, and that the POST on the wire is its own.      *)
Places ==
  /\ phase \in {"connect", "wait"} => kind = "sse" /\ frame # "notify"
  /\ phase \in {"post", "wait"} /\ kind = "sse" => stream # 0
  /\ phase \in {"idle", "delete"} => opened
  /\ ~opened => frame # "main" /\ main.id = 0 /\ result = NoResult
  /\ wire # NoPost => phase \in {"post", "delete"} /\ reply = NoReply
  /\ reply # NoReply => phase \in {"post", "delete"}
  /\ wire # NoPost /\ phase = "post" =>
       /\ wire.method = IF frame = "main" THEN main.method ELSE frame
       /\ wire.id = id /\ wire.session = session
  /\ wire # NoPost /\ phase = "delete" => wire.method = "delete" /\ wire.session = session

(* The numbers of requests: Open takes 1, and the first request takes 2.   *)
Numbers ==
  /\ main.id < nextID /\ id < nextID
  /\ \A i \in DOMAIN ran : ran[i].id \in 1 .. nextID - 1
  /\ phase \in Under \cup {"idle"} => nextID >= 2
  /\ phase = "unopened" => ~opened /\ nextID = 1
  /\ phase \in Under => id >= 1
  /\ phase \in Under /\ opened => main.id >= 2 /\ main.method \in {"list", "call"}
  /\ phase \in Under /\ frame = "main" => id = main.id
  /\ phase \in Under /\ frame # "main" => id # main.id /\ id # 2
  /\ phase \in Under /\ frame # "main" /\ opened => kind = "streamable"

(* The client may still send the request it has.                           *)
Unsent ==
  \/ phase = "connect"
  \/ phase = "post" /\ frame # "main"
  \/ phase = "post" /\ reply.status \in {"none", "unknown"}

UnsentCall == opened /\ main.method = "call" /\ Unsent => ~Ran(main.id)

(* One number, one method.                                                 *)
Kinds ==
  /\ \A i \in DOMAIN ran : ran[i].id = main.id => ran[i].method = main.method
  /\ phase \in Under /\ frame # "main" =>
       \A i \in DOMAIN ran : ran[i].id = id => ran[i].method # "call"

(* The server answers what it has run.                                     *)
Sent ==
  /\ \A a \in owed : Ran(a.id)
  /\ \A s \in DOMAIN events : \A k \in DOMAIN events[s] :
       events[s][k].type = "answer" => Ran(events[s][k].id)

Answers ==
  /\ phase = "post" /\ frame = "main" /\ reply.status = "ok" => reply.id = main.id /\ Ran(main.id)
  /\ AnswersMatch

(* Before the first request has run its session is a notified one.         *)
Notifications ==
  kind = "streamable" =>
    /\ phase = "post" /\ frame = "main" /\ main.id = 2 => session \in ready \cup {0}
    /\ phase = "idle" /\ nextID = 2 => session \in ready \cup {0}
    /\ phase = "post" /\ frame = "notify" /\ reply.status = "ok" => session \in ready \cup {0}

(* Over HTTP, while nothing is lost, the one session that the server may   *)
(* know is the client's, or is on its way to it in the answer to an        *)
(* initialisation.  A client whose Open failed is out: nobody closes it.   *)
Held ==
  kind = "streamable" /\ orderly /\ (phase = "closed" => opened) =>
    /\ known \subseteq {session, reply.session}
    /\ reply.session # 0 => phase = "post" /\ frame = "init" /\ reply.status = "ok"
    /\ reply.status = "unknown" => session \notin known
    /\ phase = "unopened" => session = 0
    /\ phase = "post" /\ frame = "init" => session = 0 /\ (reply = NoReply => known = {})
    /\ phase = "delete" /\ wire = NoPost => known = {}
    /\ phase = "closed" => known = {}

ClientType ==
  /\ kind \in {"streamable", "sse"}
  /\ phase \in {"unopened", "idle", "closed", "connect", "post", "wait", "delete"}
  /\ frame \in {"init", "notify", "main"}
  /\ main \in [method : {"none", "list", "call"}, id : Nat]
  /\ id \in Nat /\ nextID \in Nat /\ attempt \in {1, 2}
  /\ initialized \in BOOLEAN /\ opened \in BOOLEAN
  /\ session \in 0 .. MaxSessions /\ stream \in 0 .. MaxSessions
  /\ requests \in 0 .. MaxRequests
  /\ result \in [asked : Nat, got : Nat]
WireType ==
  /\ wire \in [method : {"none", "init", "notify", "list", "call", "delete"}, id : Nat,
                session : 0 .. MaxSessions]
  /\ reply \in [status : {"none", "ok", "unknown", "refused", "lost"}, session : 0 .. MaxSessions,
                 id : Nat]
Event == [type : {"answer", "garbled"}, id : Nat]
Entry == [id : Nat, method : {"init", "list", "call"}, ready : BOOLEAN]
ServerType ==
  /\ orderly \in BOOLEAN
  /\ created \in 0 .. MaxSessions
  /\ garbled \in 0 .. MaxGarbled
  /\ known \subseteq 1 .. MaxSessions /\ ready \subseteq 1 .. MaxSessions
  /\ owed \subseteq [session : 1 .. MaxSessions, id : Nat]
  /\ events \in [1 .. MaxSessions -> Seq(Event)]
  /\ ran \in Seq(Entry)

LEMMA Types == TypeOK <=> ClientType /\ WireType /\ ServerType
  BY DEF TypeOK, ClientType, WireType, ServerType, Event, Entry

-----------------------------------------------------------------------------
(* The ways a step of the client that reads something can end.             *)

MainAnswered(got) ==
  /\ frame = "main" /\ phase' = "idle" /\ result' = [asked |-> id, got |-> got]
  /\ UNCHANGED <<frame, id, attempt, initialized, opened>>
InitAnswered ==
  /\ frame = "init" /\ phase' = "post" /\ frame' = "notify"
  /\ UNCHANGED <<id, attempt, initialized, opened, result>>

LEMMA AnsweredOutcomes ==
  ASSUME ClientType, frame # "notify"
  PROVE  \A got : Answered(got) => MainAnswered(got) \/ InitAnswered
  BY DEF ClientType, Answered, MainAnswered, InitAnswered

ReadsHTTP ==
  kind = "streamable" /\ phase = "post" /\ reply # NoReply /\ UNCHANGED <<kind, serverVars,
       orderly>>
HTTPRepeats ==
  /\ LostSession /\ Reinitialize /\ wire' = NoPost /\ reply' = NoReply
  /\ UNCHANGED <<main, stream, requests, opened, result>>
HTTPFails ==
  /\ Fail
  /\ session' = IF reply.status = "ok" /\ reply.session # 0 THEN reply.session ELSE session
HTTPNotified ==
  /\ reply.status = "ok" /\ frame = "notify" /\ Notified /\ wire' = NoPost /\ reply' = NoReply
  /\ UNCHANGED <<main, nextID, session, stream, requests>>
HTTPAnswered ==
  /\ reply.status = "ok"
  /\ wire' = NoPost /\ reply' = NoReply
  /\ session' = IF reply.session # 0 THEN reply.session ELSE session
  /\ UNCHANGED <<main, nextID, stream, requests>>

LEMMA HTTPOutcomes ==
  ASSUME ClientType, ReadHTTP
  PROVE  /\ ReadsHTTP
         /\ \/ HTTPRepeats \/ HTTPFails \/ HTTPNotified
            \/ HTTPAnswered /\ (MainAnswered(reply.id) \/ InitAnswered)
  BY AnsweredOutcomes DEF ReadHTTP, ReadsHTTP, HTTPRepeats, HTTPFails, HTTPNotified, HTTPAnswered

ReadsSSE ==
  kind = "sse" /\ phase = "post" /\ reply # NoReply /\ UNCHANGED <<kind, serverVars, orderly>>
SSEFails == Fail /\ UNCHANGED session
SSEWaits ==
  /\ frame # "notify" /\ phase' = "wait" /\ wire' = NoPost /\ reply' = NoReply
  /\ UNCHANGED <<frame, main, id, nextID, attempt, initialized, session, stream, requests, opened,
                 result>>
SSENotified ==
  /\ frame = "notify" /\ Notified /\ wire' = NoPost /\ reply' = NoReply
  /\ UNCHANGED <<main, nextID, session, stream, requests>>

LEMMA SSEOutcomes == ReadSSEStatus => ReadsSSE /\ (SSEFails \/ SSEWaits \/ SSENotified)
  BY DEF ReadSSEStatus, ReadsSSE, SSEFails, SSEWaits, SSENotified

Waits ==
  /\ kind = "sse" /\ phase = "wait"
  /\ UNCHANGED <<kind, known, ready, created, owed, garbled, ran, orderly>>
  /\ \/ events' = events
     \/ events[stream] # << >> /\ events' = [events EXCEPT ![stream] = Tail(@)]
WaitAnswered ==
  LET event == Head(events[stream]) IN
  /\ events[stream] # << >> /\ Matches(event)
  /\ UNCHANGED <<main, nextID, session, stream, requests, wire, reply>>
WaitFails == Fail /\ UNCHANGED session
WaitRepeats ==
  /\ Replayable /\ phase' = "connect" /\ attempt' = 2 /\ stream' = 0 /\ session' = 0
  /\ UNCHANGED <<frame, main, id, nextID, initialized, requests, opened, result, wire, reply>>
WaitGoesOn == UNCHANGED <<clientVars, wire, reply>>

LEMMA WaitOutcomes ==
  ASSUME ClientType, Places, WaitForResponse
  PROVE  /\ Waits
         /\ \/ WaitAnswered /\ (MainAnswered(Head(events[stream]).id) \/ InitAnswered)
            \/ WaitFails \/ WaitRepeats \/ WaitGoesOn
<1>1. phase = "wait" /\ frame # "notify"
  BY DEF WaitForResponse, Places
<1>. QED
  BY <1>1, AnsweredOutcomes
     DEF WaitForResponse, Waits, WaitAnswered, WaitFails, WaitRepeats, WaitGoesOn, StreamFails

Connects == kind = "sse" /\ phase = "connect" /\ UNCHANGED <<kind, ready, owed, events, garbled,
     ran>>
Connected ==
  /\ created < MaxSessions /\ created' = created + 1 /\ known' = known \cup {created + 1}
  /\ stream' = created + 1 /\ session' = created + 1 /\ phase' = "post"
  /\ UNCHANGED <<main, frame, id, nextID, attempt, initialized, requests, opened, result, wire,
                 reply, orderly>>
ConnectBreaks ==
  /\ created < MaxSessions /\ created' = created + 1 /\ known' = known \cup {created + 1}
  /\ stream' = created + 1 /\ phase' = IF opened THEN "idle" ELSE "closed"
  /\ result' = NoResult /\ orderly' = FALSE
  /\ UNCHANGED <<main, frame, id, nextID, attempt, initialized, session, requests, opened, wire,
       reply>>
ConnectFails == Fail /\ UNCHANGED <<session, created, known, orderly>>

LEMMA ConnectOutcomes == Connect => Connects /\ (Connected \/ ConnectBreaks \/ ConnectFails)
  BY DEF Connect, Connects, Connected, ConnectBreaks, ConnectFails

(* What the server's running of a request appends, and what is taken off   *)
(* a stream.                                                               *)
Appended ==
  /\ DOMAIN ran' = DOMAIN ran \cup {Len(ran) + 1}
  /\ Len(ran) + 1 \notin DOMAIN ran
  /\ \A i \in DOMAIN ran : ran'[i] = ran[i]
  /\ ran'[Len(ran) + 1] = [id |-> wire.id, method |-> wire.method,
                           ready |-> wire.session = 0 \/ wire.session \in ready]
  /\ ran' \in Seq(Entry)

LEMMA RunAppends ==
  ASSUME WireType, ServerType, Run
  PROVE  Appended
<1>. DEFINE r == [id |-> wire.id, method |-> wire.method,
                  ready |-> wire.session = 0 \/ wire.session \in ready]
<1>1. r \in Entry
  BY DEF Entry, WireType, Run
<1>2. ran \in Seq(Entry) /\ ran' = Append(ran, r)
  BY DEF ServerType, Run
<1>. HIDE DEF r
<1>3. /\ DOMAIN ran' = DOMAIN ran \cup {Len(ran) + 1}
      /\ Len(ran) + 1 \notin DOMAIN ran
      /\ \A i \in DOMAIN ran : ran'[i] = ran[i]
      /\ ran'[Len(ran) + 1] = r
      /\ ran' \in Seq(Entry)
  BY <1>1, <1>2
<1>. QED
  BY <1>3 DEF r, Appended

LEMMA RanOnce ==
  ASSUME CallsRunOnce, Appended,
         \A i \in DOMAIN ran : "call" \in {wire.method, ran[i].method} => ran[i].id # wire.id
  PROVE  CallsRunOnce'
<1>. DEFINE r == ran'[Len(ran) + 1]
<1>1. r.id = wire.id /\ r.method = wire.method
  BY DEF Appended
<1>2. \A i \in DOMAIN ran' : i = Len(ran) + 1 \/ (i \in DOMAIN ran /\ ran'[i] = ran[i])
  BY DEF Appended
<1>. SUFFICES ASSUME NEW i \in DOMAIN ran', NEW j \in DOMAIN ran',
                     ran'[i].method = "call", ran'[i].id = ran'[j].id
              PROVE  i = j
  BY DEF CallsRunOnce
<1>3. CASE i \in DOMAIN ran /\ ran'[i] = ran[i] /\ j \in DOMAIN ran /\ ran'[j] = ran[j]
  BY <1>3 DEF CallsRunOnce
<1>4. CASE i = Len(ran) + 1 /\ j \in DOMAIN ran /\ ran'[j] = ran[j]
  BY <1>1, <1>4
<1>5. CASE j = Len(ran) + 1 /\ i \in DOMAIN ran /\ ran'[i] = ran[i]
  BY <1>1, <1>5
<1>. QED
  BY <1>2, <1>3, <1>4, <1>5

LEMMA RanNext ==
  /\ Appended => \A n : Ran(n)' <=> Ran(n) \/ n = wire.id
  /\ UNCHANGED ran => \A n : Ran(n)' <=> Ran(n)
  BY DEF Appended, Ran

LEMMA NextSession ==
  ASSUME created \in 0 .. MaxSessions, known \subseteq 1 .. MaxSessions,
         \/ UNCHANGED <<known, created>>
         \/ created < MaxSessions /\ created' = created + 1 /\ known' = known \cup {created + 1}
  PROVE  created' \in 0 .. MaxSessions /\ known' \subseteq 1 .. MaxSessions
<1>1. CASE UNCHANGED <<known, created>>
  BY <1>1
<1>2. CASE created < MaxSessions /\ created' = created + 1 /\ known' = known \cup {created + 1}
  <2>1. created + 1 \in 1 .. MaxSessions
    BY <1>2, McpAssumption
  <2>. QED
    BY <1>2, <2>1, McpAssumption
<1>. QED
  BY <1>1, <1>2

Taken ==
  /\ stream \in 1 .. MaxSessions /\ Head(events[stream]) \in Event
  /\ Tail(events[stream]) \in Seq(Event)
  /\ \E k \in DOMAIN events[stream] : events[stream][k] = Head(events[stream])
  /\ \A k \in DOMAIN Tail(events[stream]) :
       k + 1 \in DOMAIN events[stream] /\ Tail(events[stream])[k] = events[stream][k + 1]

LEMMA HeadEvent ==
  ASSUME ClientType, ServerType, Places, Waits
  PROVE  events[stream] # << >> => Taken
<1>. SUFFICES ASSUME events[stream] # << >> PROVE Taken
  OBVIOUS
<1>1. stream \in 1 .. MaxSessions /\ events[stream] \in Seq(Event)
  BY McpAssumption DEF ClientType, ServerType, Places, Waits
<1>. QED
  BY <1>1 DEF Taken

LEMMA ClientTypeNext ==
  ASSUME ClientType, WireType, ServerType, Places, [Next]_vars
  PROVE  ClientType'
<1>b. Waits /\ events[stream] # << >> => Taken
  BY HeadEvent
<1>. USE DEF ClientType, WireType, ServerType, Event, clientVars, serverVars, NoPost, NoReply,
             NoResult
<1>1. CASE Open
  BY SMTT(30), McpAssumption, <1>1 DEF Open, Start
<1>2. CASE \E method \in {"list", "call"} : Request(method)
  BY McpAssumption, <1>2 DEF Request, Start
<1>3. CASE Post
  BY McpAssumption, <1>3 DEF Post, Fail
<1>4. CASE ReadHTTP
  <2>1. CASE HTTPRepeats
    <3>1. 0 \in 0 .. MaxSessions /\ nextID + 1 \in Nat
      BY McpAssumption
    <3>2. UNCHANGED kind
      BY <1>4 DEF ReadHTTP
    <3>. QED
      BY <2>1, <3>1, <3>2 DEF HTTPRepeats, LostSession, Reinitialize
  <2>2. CASE ReadsHTTP /\ HTTPFails
    BY McpAssumption, <2>2, <1>b DEF ReadsHTTP, HTTPFails, Fail
  <2>3. CASE ReadsHTTP /\ HTTPNotified
    BY McpAssumption, <2>3, <1>b DEF ReadsHTTP, HTTPNotified, Notified
  <2>4. CASE ReadsHTTP /\ HTTPAnswered /\ MainAnswered(reply.id)
    BY McpAssumption, <2>4, <1>b DEF ReadsHTTP, HTTPAnswered, MainAnswered
  <2>5. CASE ReadsHTTP /\ HTTPAnswered /\ InitAnswered
    BY McpAssumption, <2>5, <1>b DEF ReadsHTTP, HTTPAnswered, InitAnswered
  <2>. QED
    BY <1>4, HTTPOutcomes, <2>1, <2>2, <2>3, <2>4, <2>5
<1>5. CASE ReadSSEStatus
  <2>1. CASE ReadsSSE /\ SSEFails
    BY McpAssumption, <2>1 DEF ReadsSSE, SSEFails, Fail
  <2>2. CASE ReadsSSE /\ SSEWaits
    BY McpAssumption, <2>2 DEF ReadsSSE, SSEWaits
  <2>3. CASE ReadsSSE /\ SSENotified
    BY McpAssumption, <2>3 DEF ReadsSSE, SSENotified, Notified
  <2>. QED
    BY <1>5, SSEOutcomes, <2>1, <2>2, <2>3
<1>6. CASE WaitForResponse
  <2>1. CASE Waits /\ WaitAnswered /\ MainAnswered(Head(events[stream]).id)
    BY McpAssumption, <2>1, <1>b DEF Waits, WaitAnswered, Matches, MainAnswered
  <2>2. CASE Waits /\ WaitAnswered /\ InitAnswered
    BY McpAssumption, <2>2, <1>b DEF Waits, WaitAnswered, Matches, InitAnswered
  <2>3. CASE Waits /\ WaitFails
    BY SMTT(30), McpAssumption, <2>3, <1>b DEF Waits, WaitFails, Fail
  <2>4. CASE Waits /\ WaitRepeats
    BY McpAssumption, <2>4, <1>b DEF Waits, WaitRepeats, Replayable
  <2>5. CASE Waits /\ WaitGoesOn
    BY McpAssumption, <2>5, <1>b DEF Waits, WaitGoesOn
  <2>. QED
    BY <1>6, WaitOutcomes, <2>1, <2>2, <2>3, <2>4, <2>5
<1>7. CASE Connect
  <2>1. CASE Connects /\ Connected
    BY McpAssumption, <2>1 DEF Connects, Connected
  <2>2. CASE Connects /\ ConnectBreaks
    BY McpAssumption, <2>2 DEF Connects, ConnectBreaks
  <2>3. CASE Connects /\ ConnectFails
    BY McpAssumption, <2>3 DEF Connects, ConnectFails, Fail
  <2>. QED
    BY <1>7, ConnectOutcomes, <2>1, <2>2, <2>3
<1>8. CASE Close
  BY McpAssumption, <1>8 DEF Close, Closable
<1>9. CASE CloseWithoutToken
  BY McpAssumption, <1>9 DEF CloseWithoutToken, Closable
<1>10. CASE Closed
  BY McpAssumption, <1>10 DEF Closed
<1>11. CASE Run
  BY McpAssumption, <1>11 DEF Run, Knows, Answer
<1>12. CASE TakeNotification
  BY McpAssumption, <1>12 DEF TakeNotification, Knows, Answer
<1>13. CASE DeleteSession
  BY McpAssumption, <1>13 DEF DeleteSession, Knows, Answer
<1>14. CASE Refuse
  BY McpAssumption, <1>14 DEF Refuse, Knows, Answer
<1>15. CASE Lose
  BY McpAssumption, <1>15 DEF Lose
<1>16. CASE \E a \in owed : Emit(a)
  BY McpAssumption, <1>16 DEF Emit
<1>17. CASE EmitGarbled
  BY McpAssumption, <1>17 DEF EmitGarbled
<1>18. CASE \E s \in known : Forget(s)
  BY McpAssumption, <1>18 DEF Forget
<1>19. CASE UNCHANGED vars
  BY McpAssumption, <1>19 DEF vars
<1>. QED
  BY <1>1, <1>2, <1>3, <1>4, <1>5, <1>6, <1>7, <1>8, <1>9, <1>10, <1>11, <1>12, <1>13, <1>14,
     <1>15, <1>16, <1>17, <1>18, <1>19 DEF Next

LEMMA WireTypeNext ==
  ASSUME ClientType, WireType, ServerType, Places, [Next]_vars
  PROVE  WireType'
<1>. USE DEF ClientType, WireType, ServerType, clientVars, serverVars, NoPost, NoReply, NoResult
<1>1. CASE Open
  BY McpAssumption, <1>1 DEF Open, Start
<1>2. CASE \E method \in {"list", "call"} : Request(method)
  BY McpAssumption, <1>2 DEF Request, Start
<1>3. CASE Post
  BY McpAssumption, <1>3 DEF Post, Fail
<1>4. CASE ReadHTTP
  <2>1. CASE ReadsHTTP /\ HTTPRepeats
    BY McpAssumption, <2>1 DEF ReadsHTTP, HTTPRepeats, LostSession, Reinitialize
  <2>2. CASE ReadsHTTP /\ HTTPFails
    BY McpAssumption, <2>2 DEF ReadsHTTP, HTTPFails, Fail
  <2>3. CASE ReadsHTTP /\ HTTPNotified
    BY McpAssumption, <2>3 DEF ReadsHTTP, HTTPNotified, Notified
  <2>4. CASE ReadsHTTP /\ HTTPAnswered /\ MainAnswered(reply.id)
    BY McpAssumption, <2>4 DEF ReadsHTTP, HTTPAnswered, MainAnswered
  <2>5. CASE ReadsHTTP /\ HTTPAnswered /\ InitAnswered
    BY McpAssumption, <2>5 DEF ReadsHTTP, HTTPAnswered, InitAnswered
  <2>. QED
    BY <1>4, HTTPOutcomes, <2>1, <2>2, <2>3, <2>4, <2>5
<1>5. CASE ReadSSEStatus
  BY McpAssumption, <1>5 DEF ReadSSEStatus, Fail, Notified
<1>6. CASE WaitForResponse
  <2>1. CASE Waits /\ WaitAnswered /\ MainAnswered(Head(events[stream]).id)
    BY McpAssumption, <2>1 DEF Waits, WaitAnswered, Matches, MainAnswered
  <2>2. CASE Waits /\ WaitAnswered /\ InitAnswered
    BY McpAssumption, <2>2 DEF Waits, WaitAnswered, Matches, InitAnswered
  <2>3. CASE Waits /\ WaitFails
    BY McpAssumption, <2>3 DEF Waits, WaitFails, Fail
  <2>4. CASE Waits /\ WaitRepeats
    BY McpAssumption, <2>4 DEF Waits, WaitRepeats, Replayable
  <2>5. CASE Waits /\ WaitGoesOn
    BY McpAssumption, <2>5 DEF Waits, WaitGoesOn
  <2>. QED
    BY <1>6, WaitOutcomes, <2>1, <2>2, <2>3, <2>4, <2>5
<1>7. CASE Connect
  BY SMTT(30), McpAssumption, <1>7 DEF Connect, Fail
<1>8. CASE Close
  BY McpAssumption, <1>8 DEF Close, Closable
<1>9. CASE CloseWithoutToken
  BY McpAssumption, <1>9 DEF CloseWithoutToken, Closable
<1>10. CASE Closed
  BY McpAssumption, <1>10 DEF Closed
<1>11. CASE Run
  BY McpAssumption, <1>11 DEF Run, Knows, Answer
<1>12. CASE TakeNotification
  BY McpAssumption, <1>12 DEF TakeNotification, Knows, Answer
<1>13. CASE DeleteSession
  BY McpAssumption, <1>13 DEF DeleteSession, Knows, Answer
<1>14. CASE Refuse
  BY McpAssumption, <1>14 DEF Refuse, Knows, Answer
<1>15. CASE Lose
  BY McpAssumption, <1>15 DEF Lose
<1>16. CASE \E a \in owed : Emit(a)
  BY McpAssumption, <1>16 DEF Emit
<1>17. CASE EmitGarbled
  BY McpAssumption, <1>17 DEF EmitGarbled
<1>18. CASE \E s \in known : Forget(s)
  BY McpAssumption, <1>18 DEF Forget
<1>19. CASE UNCHANGED vars
  BY McpAssumption, <1>19 DEF vars
<1>. QED
  BY <1>1, <1>2, <1>3, <1>4, <1>5, <1>6, <1>7, <1>8, <1>9, <1>10, <1>11, <1>12, <1>13, <1>14,
     <1>15, <1>16, <1>17, <1>18, <1>19 DEF Next

LEMMA ServerTypeNext ==
  ASSUME ClientType, WireType, ServerType, Places, [Next]_vars
  PROVE  ServerType'
<1>a. Run => Appended
  BY RunAppends
<1>b. Waits /\ events[stream] # << >> => Taken
  BY HeadEvent
<1>. USE DEF ServerType, WireType, clientVars, serverVars, NoPost, NoReply, NoResult
<1>1. CASE Open
  BY <1>1 DEF Open, Start
<1>2. CASE \E method \in {"list", "call"} : Request(method)
  BY <1>2 DEF Request, Start
<1>3. CASE Post
  BY <1>3 DEF Post, Fail
<1>4. CASE ReadHTTP
  BY <1>4 DEF ReadHTTP, LostSession, Reinitialize, Fail, Notified, Answered
<1>5. CASE ReadSSEStatus
  BY <1>5 DEF ReadSSEStatus, Fail, Notified
<1>6. CASE WaitForResponse
  <2>1. Waits
    BY <1>6, WaitOutcomes
  <2>2. events' \in [1 .. MaxSessions -> Seq(Event)]
    BY <2>1, <1>b DEF Waits, Taken
  <2>. QED
    BY <2>1, <2>2 DEF Waits
<1>7. CASE Connect
  <2>1. Connects /\ (Connected \/ ConnectBreaks \/ ConnectFails)
    BY <1>7, ConnectOutcomes
  <2>2. \/ UNCHANGED <<known, created>>
        \/ created < MaxSessions /\ created' = created + 1 /\ known' = known \cup {created + 1}
    BY <2>1 DEF Connected, ConnectBreaks, ConnectFails
  <2>3. created' \in 0 .. MaxSessions /\ known' \subseteq 1 .. MaxSessions
    BY <2>2, NextSession
  <2>4. orderly' \in BOOLEAN
    BY <2>1 DEF Connected, ConnectBreaks, ConnectFails
  <2>5. UNCHANGED <<garbled, ready, events, owed, ran>>
    BY <2>1 DEF Connects
  <2>. QED
    BY <2>3, <2>4, <2>5
<1>8. CASE Close
  BY <1>8 DEF Close, Closable
<1>9. CASE CloseWithoutToken
  BY <1>9 DEF CloseWithoutToken, Closable
<1>10. CASE Closed
  BY <1>10 DEF Closed
<1>11. CASE Run
  <2>1. ran' \in Seq(Entry)
    BY <1>11, <1>a DEF Appended
  <2>2. wire.session \in 0 .. MaxSessions /\ wire.id \in Nat
    OBVIOUS
  <2>3. owed' \subseteq [session : 1 .. MaxSessions, id : Nat]
    BY McpAssumption, <1>11, <2>2 DEF Run
  <2>4. \/ UNCHANGED <<known, created>>
        \/ created < MaxSessions /\ created' = created + 1 /\ known' = known \cup {created + 1}
    BY <1>11 DEF Run
  <2>5. created' \in 0 .. MaxSessions /\ known' \subseteq 1 .. MaxSessions
    BY <2>4, NextSession
  <2>6. UNCHANGED <<orderly, garbled, ready, events>>
    BY <1>11 DEF Run
  <2>. QED
    BY <2>1, <2>3, <2>5, <2>6
<1>12. CASE TakeNotification
  BY <1>12 DEF TakeNotification, Knows, Answer
<1>13. CASE DeleteSession
  BY <1>13 DEF DeleteSession, Knows, Answer
<1>14. CASE Refuse
  BY <1>14 DEF Refuse, Knows, Answer
<1>15. CASE Lose
  BY <1>15 DEF Lose
<1>16. CASE \E a \in owed : Emit(a)
  <2>1. PICK a \in owed : Emit(a)
    BY <1>16
  <2>2. a.session \in 1 .. MaxSessions /\ [type |-> "answer", id |-> a.id] \in Event
    BY DEF Event
  <2>3. events' \in [1 .. MaxSessions -> Seq(Event)]
    BY <2>1, <2>2 DEF Emit
  <2>. QED
    BY <2>1, <2>3 DEF Emit
<1>17. CASE EmitGarbled
  <2>1. stream \in 1 .. MaxSessions /\ [type |-> "garbled", id |-> 0] \in Event
    BY <1>17 DEF EmitGarbled, Event
  <2>2. events' \in [1 .. MaxSessions -> Seq(Event)]
    BY <1>17, <2>1 DEF EmitGarbled
  <2>3. garbled' \in 0 .. MaxGarbled
    BY McpAssumption, <1>17 DEF EmitGarbled
  <2>. QED
    BY <1>17, <2>2, <2>3 DEF EmitGarbled
<1>18. CASE \E s \in known : Forget(s)
  BY <1>18 DEF Forget
<1>19. CASE UNCHANGED vars
  BY <1>19 DEF vars
<1>. QED
  BY <1>1, <1>2, <1>3, <1>4, <1>5, <1>6, <1>7, <1>8, <1>9, <1>10, <1>11, <1>12, <1>13, <1>14,
     <1>15, <1>16, <1>17, <1>18, <1>19 DEF Next

LEMMA PlacesNext ==
  ASSUME ClientType, WireType, ServerType, Places, [Next]_vars
  PROVE  Places'
<1>. USE DEF ClientType, WireType, ServerType, Places, clientVars, serverVars, NoPost, NoReply,
             NoResult
<1>1. CASE Open
  BY <1>1 DEF Open, Start
<1>2. CASE \E method \in {"list", "call"} : Request(method)
  BY <1>2 DEF Request, Start
<1>3. CASE Post
  BY <1>3 DEF Post, Fail
<1>4. CASE ReadHTTP
  <2>1. CASE ReadsHTTP /\ HTTPRepeats
    BY <2>1 DEF ReadsHTTP, HTTPRepeats, LostSession, Reinitialize
  <2>2. CASE ReadsHTTP /\ HTTPFails
    BY <2>2 DEF ReadsHTTP, HTTPFails, Fail
  <2>3. CASE ReadsHTTP /\ HTTPNotified
    BY <2>3 DEF ReadsHTTP, HTTPNotified, Notified
  <2>4. CASE ReadsHTTP /\ HTTPAnswered /\ MainAnswered(reply.id)
    BY <2>4 DEF ReadsHTTP, HTTPAnswered, MainAnswered
  <2>5. CASE ReadsHTTP /\ HTTPAnswered /\ InitAnswered
    BY <2>5 DEF ReadsHTTP, HTTPAnswered, InitAnswered
  <2>. QED
    BY <1>4, HTTPOutcomes, <2>1, <2>2, <2>3, <2>4, <2>5
<1>5. CASE ReadSSEStatus
  <2>1. CASE ReadsSSE /\ SSEFails
    BY <2>1 DEF ReadsSSE, SSEFails, Fail
  <2>2. CASE ReadsSSE /\ SSEWaits
    BY <2>2 DEF ReadsSSE, SSEWaits
  <2>3. CASE ReadsSSE /\ SSENotified
    BY <2>3 DEF ReadsSSE, SSENotified, Notified
  <2>. QED
    BY <1>5, SSEOutcomes, <2>1, <2>2, <2>3
<1>6. CASE WaitForResponse
  <2>1. CASE Waits /\ WaitAnswered /\ MainAnswered(Head(events[stream]).id)
    BY <2>1 DEF Waits, WaitAnswered, Matches, MainAnswered
  <2>2. CASE Waits /\ WaitAnswered /\ InitAnswered
    BY <2>2 DEF Waits, WaitAnswered, Matches, InitAnswered
  <2>3. CASE Waits /\ WaitFails
    BY <2>3 DEF Waits, WaitFails, Fail
  <2>4. CASE Waits /\ WaitRepeats
    BY <2>4 DEF Waits, WaitRepeats, Replayable
  <2>5. CASE Waits /\ WaitGoesOn
    BY <2>5 DEF Waits, WaitGoesOn
  <2>. QED
    BY <1>6, WaitOutcomes, <2>1, <2>2, <2>3, <2>4, <2>5
<1>7. CASE Connect
  <2>1. CASE Connects /\ Connected
    BY <2>1 DEF Connects, Connected
  <2>2. CASE Connects /\ ConnectBreaks
    BY <2>2 DEF Connects, ConnectBreaks
  <2>3. CASE Connects /\ ConnectFails
    BY <2>3 DEF Connects, ConnectFails, Fail
  <2>. QED
    BY <1>7, ConnectOutcomes, <2>1, <2>2, <2>3
<1>8. CASE Close
  BY <1>8 DEF Close, Closable
<1>9. CASE CloseWithoutToken
  BY <1>9 DEF CloseWithoutToken, Closable
<1>10. CASE Closed
  BY <1>10 DEF Closed
<1>11. CASE Run
  BY <1>11 DEF Run, Knows, Answer
<1>12. CASE TakeNotification
  BY <1>12 DEF TakeNotification, Knows, Answer
<1>13. CASE DeleteSession
  BY <1>13 DEF DeleteSession, Knows, Answer
<1>14. CASE Refuse
  BY <1>14 DEF Refuse, Knows, Answer
<1>15. CASE Lose
  BY <1>15 DEF Lose
<1>16. CASE \E a \in owed : Emit(a)
  BY <1>16 DEF Emit
<1>17. CASE EmitGarbled
  BY <1>17 DEF EmitGarbled
<1>18. CASE \E s \in known : Forget(s)
  BY <1>18 DEF Forget
<1>19. CASE UNCHANGED vars
  BY <1>19 DEF vars
<1>. QED
  BY <1>1, <1>2, <1>3, <1>4, <1>5, <1>6, <1>7, <1>8, <1>9, <1>10, <1>11, <1>12, <1>13, <1>14,
     <1>15, <1>16, <1>17, <1>18, <1>19 DEF Next

LEMMA NumbersNext ==
  ASSUME ClientType, WireType, ServerType, Places, Numbers, [Next]_vars
  PROVE  Numbers'
<1>a. Run => Appended
  BY RunAppends
<1>. USE DEF ClientType, WireType, ServerType, Places, Numbers, Under, clientVars, serverVars,
             NoPost, NoReply, NoResult
<1>1. CASE Open
  BY <1>1 DEF Open, Start
<1>2. CASE \E method \in {"list", "call"} : Request(method)
  BY <1>2 DEF Request, Start
<1>3. CASE Post
  BY <1>3 DEF Post, Fail
<1>4. CASE ReadHTTP
  <2>1. CASE ReadsHTTP /\ HTTPRepeats
    BY <2>1 DEF ReadsHTTP, HTTPRepeats, LostSession, Reinitialize
  <2>2. CASE ReadsHTTP /\ HTTPFails
    BY <2>2 DEF ReadsHTTP, HTTPFails, Fail
  <2>3. CASE ReadsHTTP /\ HTTPNotified
    BY <2>3 DEF ReadsHTTP, HTTPNotified, Notified
  <2>4. CASE ReadsHTTP /\ HTTPAnswered /\ MainAnswered(reply.id)
    BY <2>4 DEF ReadsHTTP, HTTPAnswered, MainAnswered
  <2>5. CASE ReadsHTTP /\ HTTPAnswered /\ InitAnswered
    BY <2>5 DEF ReadsHTTP, HTTPAnswered, InitAnswered
  <2>. QED
    BY <1>4, HTTPOutcomes, <2>1, <2>2, <2>3, <2>4, <2>5
<1>5. CASE ReadSSEStatus
  <2>1. CASE ReadsSSE /\ SSEFails
    BY <2>1 DEF ReadsSSE, SSEFails, Fail
  <2>2. CASE ReadsSSE /\ SSEWaits
    BY <2>2 DEF ReadsSSE, SSEWaits
  <2>3. CASE ReadsSSE /\ SSENotified
    BY <2>3 DEF ReadsSSE, SSENotified, Notified
  <2>. QED
    BY <1>5, SSEOutcomes, <2>1, <2>2, <2>3
<1>6. CASE WaitForResponse
  <2>1. CASE Waits /\ WaitAnswered /\ MainAnswered(Head(events[stream]).id)
    BY <2>1 DEF Waits, WaitAnswered, Matches, MainAnswered
  <2>2. CASE Waits /\ WaitAnswered /\ InitAnswered
    BY <2>2 DEF Waits, WaitAnswered, Matches, InitAnswered
  <2>3. CASE Waits /\ WaitFails
    BY <2>3 DEF Waits, WaitFails, Fail
  <2>4. CASE Waits /\ WaitRepeats
    BY <2>4 DEF Waits, WaitRepeats, Replayable
  <2>5. CASE Waits /\ WaitGoesOn
    BY <2>5 DEF Waits, WaitGoesOn
  <2>. QED
    BY <1>6, WaitOutcomes, <2>1, <2>2, <2>3, <2>4, <2>5
<1>7. CASE Connect
  <2>1. CASE Connects /\ Connected
    BY <2>1 DEF Connects, Connected
  <2>2. CASE Connects /\ ConnectBreaks
    BY <2>2 DEF Connects, ConnectBreaks
  <2>3. CASE Connects /\ ConnectFails
    BY <2>3 DEF Connects, ConnectFails, Fail
  <2>. QED
    BY <1>7, ConnectOutcomes, <2>1, <2>2, <2>3
<1>8. CASE Close
  BY <1>8 DEF Close, Closable
<1>9. CASE CloseWithoutToken
  BY <1>9 DEF CloseWithoutToken, Closable
<1>10. CASE Closed
  BY <1>10 DEF Closed
<1>11. CASE Run
  <2>1. UNCHANGED <<main, id, nextID, phase, frame, kind, opened>>
    BY <1>11 DEF Run
  <2>2. wire.id \in 1 .. nextID - 1
    BY SMTT(30), <1>11 DEF Run
  <2>3. \A i \in DOMAIN ran' : ran'[i].id \in 1 .. nextID - 1
    BY SMTT(30), <1>11, <2>2, <1>a DEF Appended
  <2>. QED
    BY <2>1, <2>3
<1>12. CASE TakeNotification
  BY <1>12 DEF TakeNotification, Knows, Answer
<1>13. CASE DeleteSession
  BY <1>13 DEF DeleteSession, Knows, Answer
<1>14. CASE Refuse
  BY <1>14 DEF Refuse, Knows, Answer
<1>15. CASE Lose
  BY <1>15 DEF Lose
<1>16. CASE \E a \in owed : Emit(a)
  BY <1>16 DEF Emit
<1>17. CASE EmitGarbled
  BY <1>17 DEF EmitGarbled
<1>18. CASE \E s \in known : Forget(s)
  BY <1>18 DEF Forget
<1>19. CASE UNCHANGED vars
  BY <1>19 DEF vars
<1>. QED
  BY <1>1, <1>2, <1>3, <1>4, <1>5, <1>6, <1>7, <1>8, <1>9, <1>10, <1>11, <1>12, <1>13, <1>14,
     <1>15, <1>16, <1>17, <1>18, <1>19 DEF Next

LEMMA UnsentNext ==
  ASSUME ClientType, WireType, ServerType, Places, Numbers, UnsentCall, [Next]_vars
  PROVE  UnsentCall'
<1>a. Run => Appended
  BY RunAppends
<1>. USE DEF ClientType, WireType, ServerType, Places, Numbers, Under, UnsentCall, Unsent, Ran,
             clientVars, serverVars, NoPost, NoReply, NoResult
<1>1. CASE Open
  BY <1>1 DEF Open, Start
<1>2. CASE \E method \in {"list", "call"} : Request(method)
  BY <1>2 DEF Request, Start
<1>3. CASE Post
  BY <1>3 DEF Post, Fail
<1>4. CASE ReadHTTP
  BY <1>4 DEF ReadHTTP, LostSession, Reinitialize, Fail, Notified, Answered
<1>5. CASE ReadSSEStatus
  BY <1>5 DEF ReadSSEStatus, Fail, Notified
<1>6. CASE WaitForResponse
  <2>1. CASE Waits /\ WaitAnswered /\ MainAnswered(Head(events[stream]).id)
    BY <2>1 DEF Waits, WaitAnswered, Matches, MainAnswered
  <2>2. CASE Waits /\ WaitAnswered /\ InitAnswered
    BY <2>2 DEF Waits, WaitAnswered, Matches, InitAnswered
  <2>3. CASE Waits /\ WaitFails
    BY <2>3 DEF Waits, WaitFails, Fail
  <2>4. CASE Waits /\ WaitRepeats
    BY <2>4 DEF Waits, WaitRepeats, Replayable
  <2>5. CASE Waits /\ WaitGoesOn
    BY <2>5 DEF Waits, WaitGoesOn
  <2>. QED
    BY <1>6, WaitOutcomes, <2>1, <2>2, <2>3, <2>4, <2>5
<1>7. CASE Connect
  BY <1>7 DEF Connect, Fail
<1>8. CASE Close
  BY <1>8 DEF Close, Closable
<1>9. CASE CloseWithoutToken
  BY <1>9 DEF CloseWithoutToken, Closable
<1>10. CASE Closed
  BY <1>10 DEF Closed
<1>11. CASE Run
  <2>1. reply'.status = "ok" /\ wire # NoPost /\ UNCHANGED <<main, phase, frame, opened>>
    BY <1>11 DEF Run, Answer
  <2>2. SUFFICES ASSUME opened, main.method = "call", phase = "post", frame # "main"
                 PROVE  ~Ran(main.id)'
    BY <2>1
  <2>3. wire.id # main.id /\ ~Ran(main.id)
    BY <1>11, <2>1, <2>2 DEF Run
  <2>. QED
    BY <1>11, <2>1, <2>3, <1>a DEF Appended
<1>12. CASE TakeNotification
  BY <1>12 DEF TakeNotification, Knows, Answer
<1>13. CASE DeleteSession
  BY <1>13 DEF DeleteSession, Knows, Answer
<1>14. CASE Refuse
  BY <1>14 DEF Refuse, Knows, Answer
<1>15. CASE Lose
  BY <1>15 DEF Lose
<1>16. CASE \E a \in owed : Emit(a)
  BY <1>16 DEF Emit
<1>17. CASE EmitGarbled
  BY <1>17 DEF EmitGarbled
<1>18. CASE \E s \in known : Forget(s)
  BY <1>18 DEF Forget
<1>19. CASE UNCHANGED vars
  BY <1>19 DEF vars
<1>. QED
  BY <1>1, <1>2, <1>3, <1>4, <1>5, <1>6, <1>7, <1>8, <1>9, <1>10, <1>11, <1>12, <1>13, <1>14,
     <1>15, <1>16, <1>17, <1>18, <1>19 DEF Next

LEMMA KindsNext ==
  ASSUME ClientType, WireType, ServerType, Places, Numbers, Kinds, [Next]_vars
  PROVE  Kinds'
<1>a. Run => Appended
  BY RunAppends
<1>. USE DEF ClientType, WireType, ServerType, Places, Numbers, Under, Kinds, clientVars,
             serverVars, NoPost, NoReply, NoResult
<1>1. CASE Open
  BY <1>1 DEF Open, Start
<1>2. CASE \E method \in {"list", "call"} : Request(method)
  BY <1>2 DEF Request, Start
<1>3. CASE Post
  BY <1>3 DEF Post, Fail
<1>4. CASE ReadHTTP
  <2>1. CASE ReadsHTTP /\ HTTPRepeats
    BY <2>1 DEF ReadsHTTP, HTTPRepeats, LostSession, Reinitialize
  <2>2. CASE ReadsHTTP /\ HTTPFails
    BY <2>2 DEF ReadsHTTP, HTTPFails, Fail
  <2>3. CASE ReadsHTTP /\ HTTPNotified
    BY <2>3 DEF ReadsHTTP, HTTPNotified, Notified
  <2>4. CASE ReadsHTTP /\ HTTPAnswered /\ MainAnswered(reply.id)
    BY <2>4 DEF ReadsHTTP, HTTPAnswered, MainAnswered
  <2>5. CASE ReadsHTTP /\ HTTPAnswered /\ InitAnswered
    BY <2>5 DEF ReadsHTTP, HTTPAnswered, InitAnswered
  <2>. QED
    BY <1>4, HTTPOutcomes, <2>1, <2>2, <2>3, <2>4, <2>5
<1>5. CASE ReadSSEStatus
  <2>1. CASE ReadsSSE /\ SSEFails
    BY <2>1 DEF ReadsSSE, SSEFails, Fail
  <2>2. CASE ReadsSSE /\ SSEWaits
    BY <2>2 DEF ReadsSSE, SSEWaits
  <2>3. CASE ReadsSSE /\ SSENotified
    BY <2>3 DEF ReadsSSE, SSENotified, Notified
  <2>. QED
    BY <1>5, SSEOutcomes, <2>1, <2>2, <2>3
<1>6. CASE WaitForResponse
  <2>1. CASE Waits /\ WaitAnswered /\ MainAnswered(Head(events[stream]).id)
    BY <2>1 DEF Waits, WaitAnswered, Matches, MainAnswered
  <2>2. CASE Waits /\ WaitAnswered /\ InitAnswered
    BY <2>2 DEF Waits, WaitAnswered, Matches, InitAnswered
  <2>3. CASE Waits /\ WaitFails
    BY <2>3 DEF Waits, WaitFails, Fail
  <2>4. CASE Waits /\ WaitRepeats
    BY <2>4 DEF Waits, WaitRepeats, Replayable
  <2>5. CASE Waits /\ WaitGoesOn
    BY <2>5 DEF Waits, WaitGoesOn
  <2>. QED
    BY <1>6, WaitOutcomes, <2>1, <2>2, <2>3, <2>4, <2>5
<1>7. CASE Connect
  <2>1. CASE Connects /\ Connected
    BY <2>1 DEF Connects, Connected
  <2>2. CASE Connects /\ ConnectBreaks
    BY <2>2 DEF Connects, ConnectBreaks
  <2>3. CASE Connects /\ ConnectFails
    BY <2>3 DEF Connects, ConnectFails, Fail
  <2>. QED
    BY <1>7, ConnectOutcomes, <2>1, <2>2, <2>3
<1>8. CASE Close
  BY <1>8 DEF Close, Closable
<1>9. CASE CloseWithoutToken
  BY <1>9 DEF CloseWithoutToken, Closable
<1>10. CASE Closed
  BY <1>10 DEF Closed
<1>11. CASE Run
  <2>1. UNCHANGED <<main, id, phase, frame>>
    BY <1>11 DEF Run
  <2>2. phase = "post" /\ wire.id = id /\ wire.method = IF frame = "main" THEN main.method ELSE
       frame
    BY <1>11 DEF Run
  <2>3. (wire.id = main.id => wire.method = main.method) /\ (frame # "main" => wire.method #
       "call")
    BY <2>2
  <2>. QED
    BY SMTT(30), <2>1, <2>2, <2>3, <1>11, <1>a DEF Appended
<1>12. CASE TakeNotification
  BY <1>12 DEF TakeNotification, Knows, Answer
<1>13. CASE DeleteSession
  BY <1>13 DEF DeleteSession, Knows, Answer
<1>14. CASE Refuse
  BY <1>14 DEF Refuse, Knows, Answer
<1>15. CASE Lose
  BY <1>15 DEF Lose
<1>16. CASE \E a \in owed : Emit(a)
  BY <1>16 DEF Emit
<1>17. CASE EmitGarbled
  BY <1>17 DEF EmitGarbled
<1>18. CASE \E s \in known : Forget(s)
  BY <1>18 DEF Forget
<1>19. CASE UNCHANGED vars
  BY <1>19 DEF vars
<1>. QED
  BY <1>1, <1>2, <1>3, <1>4, <1>5, <1>6, <1>7, <1>8, <1>9, <1>10, <1>11, <1>12, <1>13, <1>14,
     <1>15, <1>16, <1>17, <1>18, <1>19 DEF Next

LEMMA CallsNext ==
  ASSUME ClientType, WireType, ServerType, Places, Numbers, Kinds, UnsentCall, CallsRunOnce,
         [Next]_vars
  PROVE  CallsRunOnce'
<1>a. Run => Appended
  BY RunAppends
<1>. USE DEF ClientType, WireType, ServerType, Places, Numbers, Under, Kinds, UnsentCall, Unsent,
             Ran, CallsRunOnce, clientVars, serverVars, NoPost, NoReply, NoResult
<1>1. CASE Open
  BY <1>1 DEF Open, Start
<1>2. CASE \E method \in {"list", "call"} : Request(method)
  BY <1>2 DEF Request, Start
<1>3. CASE Post
  BY <1>3 DEF Post, Fail
<1>4. CASE ReadHTTP
  BY <1>4 DEF ReadHTTP, LostSession, Reinitialize, Fail, Notified, Answered
<1>5. CASE ReadSSEStatus
  BY <1>5 DEF ReadSSEStatus, Fail, Notified
<1>6. CASE WaitForResponse
  BY <1>6 DEF WaitForResponse, Matches, Answered, StreamFails, Replayable, Fail
<1>7. CASE Connect
  BY <1>7 DEF Connect, Fail
<1>8. CASE Close
  BY <1>8 DEF Close, Closable
<1>9. CASE CloseWithoutToken
  BY <1>9 DEF CloseWithoutToken, Closable
<1>10. CASE Closed
  BY <1>10 DEF Closed
<1>11. CASE Run
  <2>1. phase = "post" /\ wire.id = id /\ wire.method = IF frame = "main" THEN main.method ELSE
       frame
    BY <1>11 DEF Run
  <2>2. CASE wire.method = "call"
    <3>1. frame = "main" /\ id = main.id /\ main.method = "call" /\ opened /\ reply = NoReply
      BY <1>11, <2>1, <2>2 DEF Run
    <3>2. ~Ran(main.id)
      BY <2>1, <3>1
    <3>. QED
      BY <1>11, <1>a, <2>1, <3>1, <3>2, RanOnce
  <2>3. CASE wire.method # "call"
    <3>1. \A i \in DOMAIN ran : ran[i].id = wire.id => ran[i].method # "call"
      BY <2>1, <2>3
    <3>. QED
      BY <1>11, <1>a, <2>3, <3>1, RanOnce
  <2>. QED
    BY <2>2, <2>3
<1>12. CASE TakeNotification
  BY <1>12 DEF TakeNotification, Knows, Answer
<1>13. CASE DeleteSession
  BY <1>13 DEF DeleteSession, Knows, Answer
<1>14. CASE Refuse
  BY <1>14 DEF Refuse, Knows, Answer
<1>15. CASE Lose
  BY <1>15 DEF Lose
<1>16. CASE \E a \in owed : Emit(a)
  BY <1>16 DEF Emit
<1>17. CASE EmitGarbled
  BY <1>17 DEF EmitGarbled
<1>18. CASE \E s \in known : Forget(s)
  BY <1>18 DEF Forget
<1>19. CASE UNCHANGED vars
  BY <1>19 DEF vars
<1>. QED
  BY <1>1, <1>2, <1>3, <1>4, <1>5, <1>6, <1>7, <1>8, <1>9, <1>10, <1>11, <1>12, <1>13, <1>14,
     <1>15, <1>16, <1>17, <1>18, <1>19 DEF Next

LEMMA SentNext ==
  ASSUME ClientType, WireType, ServerType, Places, Sent, [Next]_vars
  PROVE  Sent'
<1>a. Run => Appended
  BY RunAppends
<1>b. Waits /\ events[stream] # << >> => Taken
  BY HeadEvent
<1>c. \A q \in Seq(Event), e \in Event : Append(q, e) \in Seq(Event) /\ \A k \in DOMAIN Append(q,
     e) :
       Append(q, e)[k] = e \/ (k \in DOMAIN q /\ Append(q, e)[k] = q[k])
  OBVIOUS
<1>d. UNCHANGED ran => \A n : Ran(n)' <=> Ran(n)
  BY RanNext
<1>. USE DEF ClientType, WireType, ServerType, Sent, clientVars, serverVars, NoPost, NoReply,
             NoResult
<1>1. CASE Open
  BY <1>d, <1>1 DEF Open, Start
<1>2. CASE \E method \in {"list", "call"} : Request(method)
  BY <1>d, <1>2 DEF Request, Start
<1>3. CASE Post
  BY <1>d, <1>3 DEF Post, Fail
<1>4. CASE ReadHTTP
  BY <1>d, <1>4 DEF ReadHTTP, LostSession, Reinitialize, Fail, Notified, Answered
<1>5. CASE ReadSSEStatus
  BY <1>d, <1>5 DEF ReadSSEStatus, Fail, Notified
<1>6. CASE WaitForResponse
  <2>1. Waits
    BY <1>6, WaitOutcomes
  <2>2. CASE events' = events
    BY <2>1, <2>2, <1>d DEF Waits
  <2>3. CASE events[stream] # << >> /\ events' = [events EXCEPT ![stream] = Tail(@)]
    <3>1. \A s \in DOMAIN events' : \A k \in DOMAIN events'[s] :
            \E j \in DOMAIN events[s] : events'[s][k] = events[s][j]
      BY <2>1, <2>3, <1>b DEF Taken
    <3>2. DOMAIN events' = DOMAIN events /\ UNCHANGED <<owed, ran>>
      BY <2>1, <2>3 DEF Waits
    <3>. QED
      BY <3>1, <3>2, <1>d
  <2>. QED
    BY <2>1, <2>2, <2>3 DEF Waits
<1>7. CASE Connect
  BY <1>d, <1>7 DEF Connect, Fail
<1>8. CASE Close
  BY <1>d, <1>8 DEF Close, Closable
<1>9. CASE CloseWithoutToken
  BY <1>d, <1>9 DEF CloseWithoutToken, Closable
<1>10. CASE Closed
  BY <1>d, <1>10 DEF Closed
<1>11. CASE Run
  <2>1. \A n : Ran(n)' <=> Ran(n) \/ n = wire.id
    BY <1>11, <1>a, RanNext
  <2>2. UNCHANGED events /\ \A a \in owed' : a \in owed \/ a.id = wire.id
    BY <1>11 DEF Run
  <2>. QED
    BY <2>1, <2>2
<1>12. CASE TakeNotification
  BY <1>d, <1>12 DEF TakeNotification, Knows, Answer
<1>13. CASE DeleteSession
  BY <1>d, <1>13 DEF DeleteSession, Knows, Answer
<1>14. CASE Refuse
  BY <1>d, <1>14 DEF Refuse, Knows, Answer
<1>15. CASE Lose
  BY <1>d, <1>15 DEF Lose
<1>16. CASE \E a \in owed : Emit(a)
  <2>1. PICK a \in owed : Emit(a)
    BY <1>16
  <2>. DEFINE e == [type |-> "answer", id |-> a.id]
  <2>2. e \in Event /\ a.session \in DOMAIN events /\ e.id = a.id /\ Ran(a.id)
    BY <2>1 DEF Event
  <2>3. events' = [events EXCEPT ![a.session] = Append(@, e)] /\ UNCHANGED ran /\ owed' \subseteq
       owed
    BY <2>1 DEF Emit
  <2>. HIDE DEF e
  <2>4. \A s \in DOMAIN events' : \A k \in DOMAIN events'[s] :
          events'[s][k] = e \/ (k \in DOMAIN events[s] /\ events'[s][k] = events[s][k])
    BY SMTT(30), <2>2, <2>3, <1>c DEF ServerType
  <2>5. DOMAIN events' = DOMAIN events
    BY <2>3
  <2>6. \A b \in owed' : Ran(b.id)
    BY <2>3
  <2>7. \A s \in DOMAIN events' : \A k \in DOMAIN events'[s] :
          events'[s][k].type = "answer" => Ran(events'[s][k].id)
    BY <2>2, <2>4, <2>5
  <2>. QED
    BY <2>3, <2>6, <2>7, <1>d
<1>17. CASE EmitGarbled
  <2>. DEFINE e == [type |-> "garbled", id |-> 0]
  <2>2. e \in Event /\ stream \in DOMAIN events /\ e.type # "answer"
    BY <1>17 DEF EmitGarbled, Event
  <2>3. events' = [events EXCEPT ![stream] = Append(@, e)] /\ UNCHANGED <<ran, owed>>
    BY <1>17 DEF EmitGarbled
  <2>. HIDE DEF e
  <2>4. \A s \in DOMAIN events' : \A k \in DOMAIN events'[s] :
          events'[s][k] = e \/ (k \in DOMAIN events[s] /\ events'[s][k] = events[s][k])
    BY SMTT(30), <2>2, <2>3, <1>c
  <2>5. DOMAIN events' = DOMAIN events
    BY <2>3
  <2>6. \A s \in DOMAIN events' : \A k \in DOMAIN events'[s] :
          events'[s][k].type = "answer" => Ran(events'[s][k].id)
    BY <2>2, <2>4, <2>5
  <2>. QED
    BY <2>3, <2>6, <1>d
<1>18. CASE \E s \in known : Forget(s)
  BY <1>d, <1>18 DEF Forget
<1>19. CASE UNCHANGED vars
  BY <1>d, <1>19 DEF vars
<1>. QED
  BY <1>1, <1>2, <1>3, <1>4, <1>5, <1>6, <1>7, <1>8, <1>9, <1>10, <1>11, <1>12, <1>13, <1>14,
     <1>15, <1>16, <1>17, <1>18, <1>19 DEF Next

LEMMA AnswersNext ==
  ASSUME ClientType, WireType, ServerType, Places, Numbers, Kinds, Sent, Answers, [Next]_vars
  PROVE  Answers'
<1>a. Run => Appended
  BY RunAppends
<1>b. Waits /\ events[stream] # << >> => Taken
  BY HeadEvent
<1>d. UNCHANGED ran => \A n : Ran(n)' <=> Ran(n)
  BY RanNext
<1>. USE DEF ClientType, WireType, ServerType, Places, Numbers, Under, Kinds, Sent, Answers,
             AnswersMatch, clientVars, serverVars, NoPost, NoReply, NoResult
<1>1. CASE Open
  BY <1>d, <1>1 DEF Open, Start
<1>2. CASE \E method \in {"list", "call"} : Request(method)
  BY <1>d, <1>2 DEF Request, Start
<1>3. CASE Post
  BY <1>d, <1>3 DEF Post, Fail
<1>4. CASE ReadHTTP
  <2>1. CASE ReadsHTTP /\ HTTPRepeats
    BY <1>d, <2>1 DEF ReadsHTTP, HTTPRepeats, LostSession, Reinitialize
  <2>2. CASE ReadsHTTP /\ HTTPFails
    BY <1>d, <2>2 DEF ReadsHTTP, HTTPFails, Fail
  <2>3. CASE ReadsHTTP /\ HTTPNotified
    BY <1>d, <2>3 DEF ReadsHTTP, HTTPNotified, Notified
  <2>4. CASE ReadsHTTP /\ HTTPAnswered /\ MainAnswered(reply.id)
    <3>1. frame = "main" /\ phase = "post" /\ reply.status = "ok" /\ UNCHANGED <<main, ran>>
      BY <2>4 DEF ReadsHTTP, HTTPAnswered, MainAnswered
    <3>2. id = main.id /\ reply.id = main.id /\ Ran(main.id)
      BY <3>1
    <3>3. \E i \in DOMAIN ran : ran[i].id = main.id /\ ran[i].method = main.method
      BY <3>2 DEF Ran
    <3>. QED
      BY <2>4, <3>1, <3>2, <3>3 DEF HTTPAnswered, MainAnswered
  <2>5. CASE ReadsHTTP /\ HTTPAnswered /\ InitAnswered
    BY <1>d, <2>5 DEF ReadsHTTP, HTTPAnswered, InitAnswered
  <2>. QED
    BY <1>4, HTTPOutcomes, <2>1, <2>2, <2>3, <2>4, <2>5
<1>5. CASE ReadSSEStatus
  <2>1. CASE ReadsSSE /\ SSEFails
    BY <1>d, <2>1 DEF ReadsSSE, SSEFails, Fail
  <2>2. CASE ReadsSSE /\ SSEWaits
    BY <1>d, <2>2 DEF ReadsSSE, SSEWaits
  <2>3. CASE ReadsSSE /\ SSENotified
    BY <1>d, <2>3 DEF ReadsSSE, SSENotified, Notified
  <2>. QED
    BY <1>5, SSEOutcomes, <2>1, <2>2, <2>3
<1>6. CASE WaitForResponse
  <2>1. Waits /\ UNCHANGED ran
    BY <1>6, WaitOutcomes DEF Waits
  <2>2. CASE WaitAnswered /\ MainAnswered(Head(events[stream]).id)
    <3>0. events[stream] # << >> /\ Head(events[stream]).type = "answer" /\
         Head(events[stream]).id = id
      BY <2>2 DEF WaitAnswered, Matches
    <3>1. Ran(id)
      BY <2>1, <3>0, <1>b DEF Taken
    <3>2. id = main.id
      BY <2>1, <2>2 DEF Waits, MainAnswered
    <3>3. \E i \in DOMAIN ran : ran[i].id = main.id /\ ran[i].method = main.method
      BY <3>1, <3>2 DEF Ran
    <3>. QED
      BY <2>1, <2>2, <3>0, <3>2, <3>3 DEF WaitAnswered, MainAnswered
  <2>3. CASE WaitAnswered /\ InitAnswered
    BY <2>1, <2>3 DEF Waits, WaitAnswered, InitAnswered
  <2>4. CASE WaitFails
    BY <2>1, <2>4 DEF Waits, WaitFails, Fail
  <2>5. CASE WaitRepeats
    BY <2>1, <2>5 DEF Waits, WaitRepeats
  <2>6. CASE WaitGoesOn
    BY <2>1, <2>6 DEF Waits, WaitGoesOn
  <2>. QED
    BY <1>6, WaitOutcomes, <2>2, <2>3, <2>4, <2>5, <2>6
<1>7. CASE Connect
  <2>1. CASE Connects /\ Connected
    BY <1>d, <2>1 DEF Connects, Connected
  <2>2. CASE Connects /\ ConnectBreaks
    BY <1>d, <2>2 DEF Connects, ConnectBreaks
  <2>3. CASE Connects /\ ConnectFails
    BY <1>d, <2>3 DEF Connects, ConnectFails, Fail
  <2>. QED
    BY <1>7, ConnectOutcomes, <2>1, <2>2, <2>3
<1>8. CASE Close
  BY <1>d, <1>8 DEF Close, Closable
<1>9. CASE CloseWithoutToken
  BY <1>d, <1>9 DEF CloseWithoutToken, Closable
<1>10. CASE Closed
  BY <1>d, <1>10 DEF Closed
<1>11. CASE Run
  <2>1. reply'.status = "ok" /\ reply'.id = wire.id /\ UNCHANGED <<main, phase, frame, result>>
    BY SMTT(30), <1>11 DEF Run, Answer
  <2>2. phase = "post" /\ (frame = "main" => wire.id = main.id)
    BY SMTT(30), <1>11 DEF Run
  <2>3. \A n : n = wire.id => Ran(n)'
    BY <1>11, <1>a, RanNext
  <2>. QED
    BY <2>1, <2>2, <2>3
<1>12. CASE TakeNotification
  BY <1>d, <1>12 DEF TakeNotification, Knows, Answer
<1>13. CASE DeleteSession
  BY <1>d, <1>13 DEF DeleteSession, Knows, Answer
<1>14. CASE Refuse
  BY <1>d, <1>14 DEF Refuse, Knows, Answer
<1>15. CASE Lose
  BY <1>d, <1>15 DEF Lose
<1>16. CASE \E a \in owed : Emit(a)
  BY <1>d, <1>16 DEF Emit
<1>17. CASE EmitGarbled
  BY <1>d, <1>17 DEF EmitGarbled
<1>18. CASE \E s \in known : Forget(s)
  BY <1>d, <1>18 DEF Forget
<1>19. CASE UNCHANGED vars
  BY <1>d, <1>19 DEF vars
<1>. QED
  BY <1>1, <1>2, <1>3, <1>4, <1>5, <1>6, <1>7, <1>8, <1>9, <1>10, <1>11, <1>12, <1>13, <1>14,
     <1>15, <1>16, <1>17, <1>18, <1>19 DEF Next

LEMMA NotificationsNext ==
  ASSUME ClientType, WireType, ServerType, Places, Numbers, Notifications, [Next]_vars
  PROVE  Notifications'
<1>. USE DEF ClientType, WireType, ServerType, Places, Numbers, Under, Notifications, clientVars,
             serverVars, NoPost, NoReply, NoResult
<1>1. CASE Open
  BY <1>1 DEF Open, Start
<1>2. CASE \E method \in {"list", "call"} : Request(method)
  BY <1>2 DEF Request, Start
<1>3. CASE Post
  BY <1>3 DEF Post, Fail
<1>4. CASE ReadHTTP
  <2>1. CASE ReadsHTTP /\ HTTPRepeats
    BY <2>1 DEF ReadsHTTP, HTTPRepeats, LostSession, Reinitialize
  <2>2. CASE ReadsHTTP /\ HTTPFails
    BY <2>2 DEF ReadsHTTP, HTTPFails, Fail
  <2>3. CASE ReadsHTTP /\ HTTPNotified
    BY <2>3 DEF ReadsHTTP, HTTPNotified, Notified
  <2>4. CASE ReadsHTTP /\ HTTPAnswered /\ MainAnswered(reply.id)
    BY <2>4 DEF ReadsHTTP, HTTPAnswered, MainAnswered
  <2>5. CASE ReadsHTTP /\ HTTPAnswered /\ InitAnswered
    BY <2>5 DEF ReadsHTTP, HTTPAnswered, InitAnswered
  <2>. QED
    BY <1>4, HTTPOutcomes, <2>1, <2>2, <2>3, <2>4, <2>5
<1>5. CASE ReadSSEStatus
  BY <1>5 DEF ReadSSEStatus, Fail, Notified
<1>6. CASE WaitForResponse
  BY <1>6 DEF WaitForResponse, Matches, Answered, StreamFails, Replayable, Fail
<1>7. CASE Connect
  BY <1>7 DEF Connect, Fail
<1>8. CASE Close
  BY <1>8 DEF Close, Closable
<1>9. CASE CloseWithoutToken
  BY <1>9 DEF CloseWithoutToken, Closable
<1>10. CASE Closed
  BY <1>10 DEF Closed
<1>11. CASE Run
  BY <1>11 DEF Run, Knows, Answer
<1>12. CASE TakeNotification
  BY <1>12 DEF TakeNotification, Knows, Answer
<1>13. CASE DeleteSession
  BY <1>13 DEF DeleteSession, Knows, Answer
<1>14. CASE Refuse
  BY <1>14 DEF Refuse, Knows, Answer
<1>15. CASE Lose
  BY <1>15 DEF Lose
<1>16. CASE \E a \in owed : Emit(a)
  BY <1>16 DEF Emit
<1>17. CASE EmitGarbled
  BY <1>17 DEF EmitGarbled
<1>18. CASE \E s \in known : Forget(s)
  BY <1>18 DEF Forget
<1>19. CASE UNCHANGED vars
  BY <1>19 DEF vars
<1>. QED
  BY <1>1, <1>2, <1>3, <1>4, <1>5, <1>6, <1>7, <1>8, <1>9, <1>10, <1>11, <1>12, <1>13, <1>14,
     <1>15, <1>16, <1>17, <1>18, <1>19 DEF Next

(* Held through the steps that change what the server knows or what is on  *)
(* its way to the client (doRequest, Close, and the server's answers).     *)
LEMMA HeldReads ==
  ASSUME ClientType, WireType, ServerType, Places, Held, ReadsHTTP, HTTPRepeats \/ HTTPFails
  PROVE  Held'
<1>1. kind = "streamable" /\ phase = "post" /\ reply # NoReply /\ UNCHANGED <<kind, known, orderly>>
  BY DEF ReadsHTTP, serverVars
<1>2. reply.session \in 0 .. MaxSessions /\ 0 \notin known
  BY DEF WireType, ServerType
<1>3. orderly => known \subseteq {session, reply.session}
  BY <1>1 DEF Held
<1>4. NoReply.session = 0 /\ NoReply.status = "none"
  BY DEF NoReply
<1>5. CASE HTTPRepeats
  <2>1. /\ reply.status = "unknown" /\ frame = "main"
        /\ session' = 0 /\ frame' = "init" /\ phase' = "post" /\ reply' = NoReply
    BY <1>5 DEF HTTPRepeats, LostSession, Reinitialize
  <2>2. orderly => session \notin known /\ reply.session = 0
    BY <1>1, <2>1 DEF Held
  <2>3. orderly => known = {}
    BY <1>2, <1>3, <2>2
  <2>. QED
    BY <1>1, <1>4, <2>1, <2>3 DEF Held
<1>6. CASE HTTPFails
  <2>1. /\ reply' = NoReply /\ wire' = NoPost
        /\ UNCHANGED opened
        /\ phase' = IF opened THEN "idle" ELSE "closed"
    BY <1>6 DEF HTTPFails, Fail
  <2>2. orderly => known \subseteq {session', 0}
    BY <1>1, <1>3, <1>6 DEF HTTPFails, Held
  <2>. QED
    BY <1>1, <1>2, <1>4, <2>1, <2>2 DEF Held
<1>. QED
  BY <1>5, <1>6

LEMMA HeldRun ==
  ASSUME ClientType, WireType, ServerType, Places, Held, Run
  PROVE  Held'
<1>1. UNCHANGED <<kind, phase, frame, session, opened, orderly>> /\ wire # NoPost
  BY DEF Run, clientVars, NoPost
<1>2. phase = "post" /\ reply = NoReply
  BY <1>1 DEF Places, Run
<1>3. wire.method = "init" => frame = "init"
  BY <1>1, <1>2 DEF Places, ClientType, Run
<1>4. CASE UNCHANGED known /\ reply'.session = 0 /\ reply'.status = "ok"
  <2>1. kind = "streamable" /\ orderly => known \subseteq {session, 0}
    BY <1>2 DEF Held, NoReply
  <2>. QED
    BY <1>1, <1>2, <1>4, <2>1 DEF Held, NoReply
<1>5. CASE /\ wire.method = "init" /\ known' = known \cup {created + 1}
           /\ reply'.session = created + 1 /\ reply'.status = "ok"
  <2>1. kind = "streamable" /\ orderly => session = 0 /\ known = {}
    BY <1>2, <1>3, <1>5 DEF Held
  <2>2. created + 1 # 0 /\ reply' # NoReply
    BY <1>5, McpAssumption DEF ServerType, NoReply
  <2>. QED
    BY <1>1, <1>2, <1>3, <1>5, <2>1, <2>2 DEF Held
<1>6. CASE kind = "sse"
  BY <1>1, <1>6 DEF Held
<1>. QED
  BY <1>4, <1>5, <1>6 DEF Run, Answer, ClientType

LEMMA HeldAnswer ==
  ASSUME ClientType, WireType, ServerType, Places, Held, DeleteSession \/ Refuse
  PROVE  Held'
<1>1. /\ UNCHANGED <<kind, phase, frame, session, opened>> /\ wire # NoPost /\ wire' = NoPost
      /\ reply'.session = 0 /\ known' \subseteq known /\ (orderly' => orderly)
      /\ reply'.status # "none"
  BY DEF DeleteSession, Refuse, clientVars, serverVars, NoPost, Answer, ServerType
<1>2. phase \in {"post", "delete"} /\ reply = NoReply
  BY <1>1 DEF Places
<1>3. kind = "streamable" /\ orderly => known \subseteq {session, 0}
  BY <1>2 DEF Held, NoReply
<1>4. 0 \notin known /\ reply' # NoReply
  BY <1>1 DEF ServerType, NoReply
<1>5. CASE DeleteSession
  <2>1. phase = "delete" /\ known' = known \ {wire.session} /\ reply'.status = "ok"
    BY <1>1, <1>2, <1>5 DEF Places, DeleteSession, Answer, ClientType
  <2>2. kind = "streamable" => wire.session = session
    BY <1>1, <2>1 DEF Places
  <2>. QED
    BY <1>1, <1>2, <1>3, <1>4, <2>1, <2>2 DEF Held
<1>6. CASE Refuse
  <2>1. UNCHANGED known /\ wire.session = session
        /\ (phase = "delete" => wire.method = "delete")
    BY <1>1, <1>2, <1>6 DEF Refuse, serverVars, Places
  <2>2. reply'.status = "unknown" => wire.session \notin known
    BY <1>6 DEF Refuse, Answer, Knows
  <2>3. reply'.status # "unknown" => orderly' = (orderly /\ wire.method # "delete")
    BY <1>6 DEF Refuse, Answer
  <2>. QED
    BY <1>1, <1>2, <1>3, <1>4, <2>1, <2>2, <2>3 DEF Held
<1>. QED
  BY <1>5, <1>6

LEMMA HeldNext ==
  ASSUME ClientType, WireType, ServerType, Places, Numbers, Held, [Next]_vars
  PROVE  Held'
<1>. USE DEF clientVars, serverVars, NoPost, NoReply
<1>a. 0 \notin known
  BY DEF ServerType
<1>1. CASE Open
  BY <1>a, <1>1 DEF Open, Start, Held, Numbers, Places
<1>2. CASE \E method \in {"list", "call"} : Request(method)
  BY <1>2 DEF Request, Start, Held
<1>3. CASE Post
  BY <1>3 DEF Post, Fail, Held
<1>4. CASE ReadHTTP
  <2>1. CASE ReadsHTTP /\ (HTTPRepeats \/ HTTPFails)
    BY <2>1, HeldReads
  <2>2. CASE ReadsHTTP /\ HTTPNotified
    BY <2>2 DEF ReadsHTTP, HTTPNotified, Notified, Held
  <2>3. CASE ReadsHTTP /\ HTTPAnswered /\ MainAnswered(reply.id)
    BY <2>3 DEF ReadsHTTP, HTTPAnswered, MainAnswered, Held
  <2>4. CASE ReadsHTTP /\ HTTPAnswered /\ InitAnswered
    BY <2>4 DEF ReadsHTTP, HTTPAnswered, InitAnswered, Held
  <2>. QED
    BY <1>4, HTTPOutcomes, <2>1, <2>2, <2>3, <2>4
<1>5. CASE ReadSSEStatus \/ WaitForResponse \/ Connect
  <2>1. kind' = "sse"
    BY <1>5 DEF ReadSSEStatus, WaitForResponse, Connect
  <2>. QED
    BY <2>1 DEF Held
<1>6. CASE Close
  <2>1. /\ phase = "idle" /\ opened /\ reply = NoReply /\ reply' = NoReply
        /\ UNCHANGED <<kind, session, opened, known, orderly>>
    BY <1>6 DEF Close, Places
  <2>2. kind = "streamable" /\ orderly => known \subseteq {session, 0}
    BY <2>1 DEF Held
  <2>3. CASE kind = "streamable" /\ Closable
    BY <1>6, <2>1, <2>2, <2>3 DEF Close, Held
  <2>4. CASE ~(kind = "streamable" /\ Closable)
    BY <1>a, <1>6, <2>1, <2>2, <2>4 DEF Close, Closable, Held
  <2>. QED
    BY <2>3, <2>4
<1>7. CASE CloseWithoutToken
  BY <1>7 DEF CloseWithoutToken, Held
<1>8. CASE Closed
  BY <1>8 DEF Closed, Held, Places
<1>9. CASE Run \/ DeleteSession \/ Refuse
  BY <1>9, HeldRun, HeldAnswer
<1>10. CASE TakeNotification
  <2>1. /\ UNCHANGED <<kind, phase, frame, session, opened, known, orderly>>
        /\ reply'.session = 0 /\ reply'.status = "ok" /\ wire # NoPost
        /\ wire.method = "notify"
    BY <1>10 DEF TakeNotification, Answer
  <2>2. phase = "post" /\ reply = NoReply /\ frame # "init"
    BY <2>1 DEF Places, ClientType
  <2>. QED
    BY <2>1, <2>2 DEF Held
<1>11. CASE Lose
  BY <1>11 DEF Lose, Held
<1>12. CASE (\E a \in owed : Emit(a)) \/ EmitGarbled \/ \E s \in known : Forget(s)
  <2>1. UNCHANGED <<kind, phase, frame, session, opened, wire, reply, orderly>>
        /\ known' \subseteq known
    BY <1>12 DEF Emit, EmitGarbled, Forget
  <2>. QED
    BY <2>1 DEF Held
<1>13. CASE UNCHANGED vars
  BY <1>13 DEF vars, Held
<1>. QED
  BY <1>1, <1>2, <1>3, <1>4, <1>5, <1>6, <1>7, <1>8, <1>9, <1>10, <1>11, <1>12, <1>13 DEF Next

LEMMA FirstNext ==
  ASSUME ClientType, WireType, ServerType, Places, Numbers, Notifications, InitialisedFirst,
         [Next]_vars
  PROVE  InitialisedFirst'
<1>a. Run => Appended
  BY RunAppends
<1>. USE DEF ClientType, WireType, ServerType, Places, Numbers, Under, Notifications,
             InitialisedFirst, clientVars, serverVars, NoPost, NoReply, NoResult
<1>1. CASE Open
  BY <1>1 DEF Open, Start
<1>2. CASE \E method \in {"list", "call"} : Request(method)
  BY <1>2 DEF Request, Start
<1>3. CASE Post
  BY <1>3 DEF Post, Fail
<1>4. CASE ReadHTTP
  BY <1>4 DEF ReadHTTP, LostSession, Reinitialize, Fail, Notified, Answered
<1>5. CASE ReadSSEStatus
  BY <1>5 DEF ReadSSEStatus, Fail, Notified
<1>6. CASE WaitForResponse
  BY <1>6 DEF WaitForResponse, Matches, Answered, StreamFails, Replayable, Fail
<1>7. CASE Connect
  BY <1>7 DEF Connect, Fail
<1>8. CASE Close
  BY <1>8 DEF Close, Closable
<1>9. CASE CloseWithoutToken
  BY <1>9 DEF CloseWithoutToken, Closable
<1>10. CASE Closed
  BY <1>10 DEF Closed
<1>11. CASE Run
  <2>1. kind = "streamable" /\ wire.id = 2 => session \in ready \cup {0} /\ wire.session = session
    BY <1>11 DEF Run
  <2>2. UNCHANGED kind
    BY <1>11 DEF Run
  <2>. QED
    BY SMTT(30), <1>11, <2>1, <2>2, <1>a DEF Appended
<1>12. CASE TakeNotification
  BY <1>12 DEF TakeNotification, Knows, Answer
<1>13. CASE DeleteSession
  BY <1>13 DEF DeleteSession, Knows, Answer
<1>14. CASE Refuse
  BY <1>14 DEF Refuse, Knows, Answer
<1>15. CASE Lose
  BY <1>15 DEF Lose
<1>16. CASE \E a \in owed : Emit(a)
  BY <1>16 DEF Emit
<1>17. CASE EmitGarbled
  BY <1>17 DEF EmitGarbled
<1>18. CASE \E s \in known : Forget(s)
  BY <1>18 DEF Forget
<1>19. CASE UNCHANGED vars
  BY <1>19 DEF vars
<1>. QED
  BY <1>1, <1>2, <1>3, <1>4, <1>5, <1>6, <1>7, <1>8, <1>9, <1>10, <1>11, <1>12, <1>13, <1>14,
     <1>15, <1>16, <1>17, <1>18, <1>19 DEF Next

-----------------------------------------------------------------------------
(* The inductive invariant.                                                *)

Inv ==
  /\ ClientType /\ WireType /\ ServerType
  /\ Places /\ Numbers /\ UnsentCall /\ Kinds /\ CallsRunOnce
  /\ Sent /\ Answers /\ Notifications /\ InitialisedFirst /\ Held

LEMMA InitInv == Init => Inv
<1>. SUFFICES ASSUME Init PROVE Inv
  OBVIOUS
<1>0. 0 \in 0 .. MaxSessions /\ 0 \in 0 .. MaxRequests /\ 0 \in 0 .. MaxGarbled
  BY McpAssumption
<1>1. ClientType /\ WireType
  <2>1. ClientType
    BY <1>0 DEF Init, ClientType, NoResult
  <2>2. WireType
    BY <1>0 DEF Init, WireType, NoPost, NoReply
  <2>. QED
    BY <2>1, <2>2
<1>2. ServerType
  BY <1>0 DEF Init, ServerType
<1>3. ran = << >> /\ DOMAIN ran = {} /\ owed = {} /\ \A s \in DOMAIN events : DOMAIN events[s] =
     {}
  BY DEF Init
<1>4. Places /\ Numbers /\ UnsentCall /\ Kinds
  BY <1>3 DEF Init, Places, Numbers, UnsentCall, Unsent, Ran, Kinds, Under
<1>5. CallsRunOnce /\ Sent /\ Answers /\ Notifications /\ InitialisedFirst /\ Held
  BY <1>3 DEF Init, CallsRunOnce, Sent, Answers, AnswersMatch, Notifications, InitialisedFirst,
              Held, NoReply
<1>. QED
  BY <1>1, <1>2, <1>4, <1>5 DEF Inv

LEMMA InvNext == Inv /\ [Next]_vars => Inv'
<1>. SUFFICES ASSUME Inv, [Next]_vars PROVE Inv'
  OBVIOUS
<1>1. ClientType' /\ WireType' /\ ServerType' /\ Places'
  BY ClientTypeNext, WireTypeNext, ServerTypeNext, PlacesNext DEF Inv
<1>2. Numbers' /\ UnsentCall' /\ Kinds' /\ CallsRunOnce'
  BY NumbersNext, UnsentNext, KindsNext, CallsNext DEF Inv
<1>3. Sent' /\ Answers' /\ Notifications' /\ InitialisedFirst' /\ Held'
  BY SentNext, AnswersNext, NotificationsNext, FirstNext, HeldNext DEF Inv
<1>. QED
  BY <1>1, <1>2, <1>3 DEF Inv

(* The invariant behind the theorems below: what client, messages under    *)
(* way and server know of a session fits together, for any number of       *)
(* calls, faults and sessions.                                             *)
THEOREM SessionInvariant == Spec => []Inv
  BY InitInv, InvNext, PTL DEF Spec

(* The positions of a client and what is on the wire are those of TypeOK,  *)
(* and sessions are the ones the server created (sseClient,                *)
(* streamableHTTPClient).                                                  *)
THEOREM TypeInvariant == Spec => []TypeOK
<1>1. Inv => TypeOK
  BY Types DEF Inv
<1>. QED
  BY <1>1, SessionInvariant, PTL

(* The server runs a tool call once at the most, over HTTP and over SSE,   *)
(* whatever is lost, refused or repeated (doRequest, request).             *)
THEOREM CallsRunAtMostOnce == Spec => []CallsRunOnce
<1>1. Inv => CallsRunOnce
  BY DEF Inv
<1>. QED
  BY <1>1, SessionInvariant, PTL

(* What a request returns is the server's answer to that request           *)
(* (waitForResponse, doRequest).                                           *)
THEOREM AnswersAreMatched == Spec => []AnswersMatch
<1>1. Inv => AnswersMatch
  BY DEF Inv, Answers
<1>. QED
  BY <1>1, SessionInvariant, PTL

(* Over HTTP the first request runs only in a session that has been        *)
(* notified of its initialisation (doRequest, ensureInitialized).          *)
THEOREM FirstIsInitialised == Spec => []InitialisedFirst
<1>1. Inv => InitialisedFirst
  BY DEF Inv
<1>. QED
  BY <1>1, SessionInvariant, PTL

(* Over HTTP a client that was opened and is closed without a loss leaves  *)
(* no session on the server (Close).                                       *)
THEOREM NoSessionIsLeft == Spec => []SessionsAreClosed
<1>1. Inv => SessionsAreClosed
  BY DEF Inv, Held, SessionsAreClosed
<1>. QED
  BY <1>1, SessionInvariant, PTL

-----------------------------------------------------------------------------
(* Refinement: what becomes of the caller's request in a step.             *)

AsBefore == Pending' = Pending /\ ran' = ran /\ result' = result
Asked(method) ==
  /\ Pending = Contract!NoRequest /\ main' = [method |-> method, id |-> nextID]
  /\ Pending' = main' /\ ran' = ran /\ result' = result
GivenUp ==
  /\ Pending # Contract!NoRequest /\ Pending' = Contract!NoRequest
  /\ result' = NoResult /\ ran' = ran
Returned ==
  /\ Pending = main /\ Pending # Contract!NoRequest /\ Pending' = Contract!NoRequest
  /\ result' = [asked |-> main.id, got |-> main.id] /\ ran' = ran
  /\ \E i \in DOMAIN ran : ran[i].id = main.id /\ ran[i].method = main.method

LEMMA RequestOutcomes ==
  ASSUME Inv, [Next]_vars, ~Run
  PROVE  AsBefore \/ GivenUp \/ Returned \/ \E method \in {"list", "call"} : Asked(method)
<1>a. /\ ClientType /\ WireType /\ ServerType /\ Places /\ Numbers /\ Kinds /\ Sent /\ Answers
  BY DEF Inv
<1>b. Waits /\ events[stream] # << >> => Taken
  BY <1>a, HeadEvent
<1>c. phase \in Under /\ opened => Pending = main /\ main # Contract!NoRequest
  BY <1>a DEF Pending, Under, Numbers, Contract!NoRequest
<1>d. ~(phase \in Under /\ opened) => Pending = Contract!NoRequest
  BY DEF Pending, Under, Contract!NoRequest
<1>e. /\ phase' \in Under /\ opened' => Pending' = main'
      /\ ~(phase' \in Under /\ opened') => Pending' = Contract!NoRequest
  BY DEF Pending, Under, Contract!NoRequest
<1>f. frame = "main" => opened
  BY <1>a DEF Places
<1>g. ~opened => result = NoResult
  BY <1>a DEF Places
<1>h. Ran(main.id) => \E i \in DOMAIN ran : ran[i].id = main.id /\ ran[i].method = main.method
  BY <1>a DEF Ran, Kinds
<1>u. ASSUME phase \in Under, phase' \in Under, UNCHANGED <<opened, main, result, ran>> PROVE AsBefore
  BY <1>c, <1>d, <1>e, <1>u DEF AsBefore
<1>n. ASSUME ~(phase \in Under /\ opened), ~(phase' \in Under /\ opened'), UNCHANGED <<result, ran>>
      PROVE  AsBefore
  BY <1>d, <1>e, <1>n DEF AsBefore
<1>v. ASSUME phase \in Under, phase' \notin Under, result' = NoResult, ran' = ran
      PROVE  AsBefore \/ GivenUp
  <2>1. CASE opened
    BY <1>c, <1>e, <1>v, <2>1 DEF GivenUp
  <2>2. CASE ~opened
    BY <1>d, <1>e, <1>g, <1>v, <2>2 DEF AsBefore
  <2>. QED
    BY <2>1, <2>2
<1>w. ASSUME phase = "post" \/ phase = "wait", MainAnswered(main.id), Ran(main.id), ran' = ran,
             id = main.id
      PROVE  Returned
  BY <1>c, <1>e, <1>f, <1>h, <1>w DEF MainAnswered, Under, Returned
<1>x. ASSUME phase = "post", Notified, UNCHANGED <<main, ran>> PROVE AsBefore
  <2>1. CASE opened
    BY <1>u, <1>x, <2>1 DEF Notified, Under
  <2>2. CASE ~opened
    BY <1>n, <1>x, <2>2 DEF Notified, Under
  <2>. QED
    BY <2>1, <2>2
<1>y. ASSUME phase \in Under, Fail, ran' = ran PROVE AsBefore \/ GivenUp
  BY <1>v, <1>y DEF Fail, Under
<1>z. ASSUME phase \in Under, InitAnswered, UNCHANGED <<main, ran>> PROVE AsBefore
  BY <1>u, <1>z DEF InitAnswered, Under
<1>1. CASE Open
  <2>1. phase = "unopened" /\ ~opened /\ UNCHANGED <<opened, result, ran>>
    BY <1>1, <1>a DEF Open, Numbers, serverVars
  <2>. QED
    BY <1>n, <2>1
<1>2. ASSUME NEW method \in {"list", "call"}, Request(method)
      PROVE  Asked(method)
  <2>1. /\ phase = "idle" /\ phase' \in Under /\ opened /\ UNCHANGED <<opened, result, ran>>
        /\ main' = [method |-> method, id |-> nextID]
    BY <1>2, <1>a DEF Request, Start, Places, Under, serverVars
  <2>. QED
    BY <1>d, <1>e, <2>1 DEF Asked, Under
<1>3. CASE Post
  <2>1. phase = "post" /\ ran' = ran /\ (UNCHANGED clientVars \/ Fail)
    BY <1>3 DEF Post, serverVars
  <2>2. UNCHANGED clientVars => AsBefore
    BY <1>u, <2>1 DEF clientVars, Under
  <2>. QED
    BY <1>y, <2>1, <2>2 DEF Under
<1>4. CASE ReadHTTP
  <2>1. phase = "post" /\ phase \in Under /\ ran' = ran
    BY <1>4, <1>a, HTTPOutcomes DEF ReadsHTTP, serverVars, Under
  <2>2. CASE HTTPRepeats
    BY <1>u, <2>1, <2>2 DEF HTTPRepeats, Reinitialize, Under
  <2>3. CASE HTTPFails
    BY <1>y, <2>1, <2>3 DEF HTTPFails
  <2>4. CASE HTTPNotified
    BY <1>x, <2>1, <2>4 DEF HTTPNotified
  <2>5. CASE HTTPAnswered /\ MainAnswered(reply.id)
    <3>1. frame = "main" /\ id = main.id /\ reply.id = main.id /\ Ran(main.id)
      BY <1>a, <2>1, <2>5 DEF MainAnswered, HTTPAnswered, Numbers, Answers
    <3>. QED
      BY <1>w, <2>1, <2>5, <3>1
  <2>6. CASE HTTPAnswered /\ InitAnswered
    BY <1>z, <2>1, <2>6 DEF HTTPAnswered
  <2>. QED
    BY <1>4, <1>a, HTTPOutcomes, <2>2, <2>3, <2>4, <2>5, <2>6
<1>5. CASE ReadSSEStatus
  <2>1. phase = "post" /\ phase \in Under /\ ran' = ran
    BY <1>5, SSEOutcomes DEF ReadsSSE, serverVars, Under
  <2>2. CASE SSEFails
    BY <1>y, <2>1, <2>2 DEF SSEFails
  <2>3. CASE SSEWaits
    BY <1>u, <2>1, <2>3 DEF SSEWaits, Under
  <2>4. CASE SSENotified
    BY <1>x, <2>1, <2>4 DEF SSENotified
  <2>. QED
    BY <1>5, SSEOutcomes, <2>2, <2>3, <2>4
<1>6. CASE WaitForResponse
  <2>1. Waits /\ phase = "wait" /\ phase \in Under /\ ran' = ran
    BY <1>6, <1>a, WaitOutcomes DEF Waits, Under
  <2>2. CASE WaitAnswered /\ MainAnswered(Head(events[stream]).id)
    <3>. DEFINE event == Head(events[stream])
    <3>1. Taken /\ event.type = "answer" /\ event.id = id
      BY <1>b, <2>1, <2>2 DEF WaitAnswered, Matches
    <3>2. stream \in DOMAIN events
      BY <1>a, <3>1 DEF Taken, ServerType
    <3>3. Ran(id)
      BY <1>a, <3>1, <3>2 DEF Taken, Sent
    <3>4. frame = "main" /\ id = main.id
      BY <1>a, <2>1, <2>2 DEF MainAnswered, Numbers
    <3>5. MainAnswered(main.id)
      BY <2>2, <3>1, <3>4
    <3>. QED
      BY <1>w, <2>1, <3>3, <3>4, <3>5
  <2>3. CASE WaitAnswered /\ InitAnswered
    BY <1>z, <2>1, <2>3 DEF WaitAnswered
  <2>4. CASE WaitFails
    BY <1>y, <2>1, <2>4 DEF WaitFails
  <2>5. CASE WaitRepeats
    BY <1>u, <2>1, <2>5 DEF WaitRepeats, Under
  <2>6. CASE WaitGoesOn
    BY <1>u, <2>1, <2>6 DEF WaitGoesOn, clientVars
  <2>. QED
    BY <1>6, <1>a, WaitOutcomes, <2>2, <2>3, <2>4, <2>5, <2>6
<1>7. CASE Connect
  <2>1. phase = "connect" /\ phase \in Under /\ ran' = ran
    BY <1>7, ConnectOutcomes DEF Connects, Under
  <2>2. CASE Connected
    BY <1>u, <2>1, <2>2 DEF Connected, Under
  <2>3. CASE ConnectBreaks
    BY <1>v, <2>1, <2>3 DEF ConnectBreaks, Under
  <2>4. CASE ConnectFails
    BY <1>y, <2>1, <2>4 DEF ConnectFails
  <2>. QED
    BY <1>7, ConnectOutcomes, <2>2, <2>3, <2>4
<1>8. CASE Close \/ CloseWithoutToken \/ Closed
  <2>1. phase \notin Under /\ phase' \notin Under /\ UNCHANGED <<result, ran>>
    BY <1>8 DEF Close, CloseWithoutToken, Closed, serverVars, Under
  <2>. QED
    BY <1>n, <2>1
<1>9. CASE \/ TakeNotification \/ DeleteSession \/ Refuse \/ Lose \/ (\E a \in owed : Emit(a))
           \/ EmitGarbled \/ (\E s \in known : Forget(s)) \/ UNCHANGED vars
  <2>1. UNCHANGED <<clientVars, ran>>
    BY <1>9 DEF TakeNotification, DeleteSession, Refuse, Lose, Emit, EmitGarbled, Forget, vars,
                serverVars
  <2>. QED
    BY <2>1 DEF AsBefore, Pending, clientVars
<1>. QED
  BY <1>1, <1>2, <1>3, <1>4, <1>5, <1>6, <1>7, <1>8, <1>9 DEF Next

LEMMA RunExecutes ==
  ASSUME Inv, Run
  PROVE  Contract!Execute
<1>. DEFINE r == [id |-> wire.id, method |-> wire.method,
                  ready |-> wire.session = 0 \/ wire.session \in ready]
<1>a. /\ ClientType /\ WireType /\ ServerType /\ Places /\ Numbers /\ UnsentCall
  BY DEF Inv
<1>1. r \in Entry
  BY <1>a DEF Entry, WireType, Run
<1>2. ran \in Seq(Entry) /\ ran' = Append(ran, r)
  BY <1>a DEF ServerType, Run
<1>3. r.method = wire.method /\ r.id = wire.id
  OBVIOUS
<1>. HIDE DEF r
<1>4. Len(ran') = Len(ran) + 1 /\ ran'[Len(ran')] = r
  BY <1>1, <1>2
<1>5. UNCHANGED clientVars /\ wire # NoPost /\ wire.method # "delete"
  BY DEF Run, NoPost
<1>6. /\ phase = "post" /\ reply = NoReply /\ wire.id = id
      /\ wire.method = IF frame = "main" THEN main.method ELSE frame
  BY <1>a, <1>5 DEF Places
<1>7. wire.method = "call" => ~Ran(wire.id)
  <2>1. SUFFICES ASSUME wire.method = "call" PROVE ~Ran(wire.id)
    OBVIOUS
  <2>2. frame = "main" /\ main.method = "call" /\ opened
    BY <1>a, <1>6, <2>1 DEF ClientType, Places
  <2>3. wire.id = main.id
    BY <1>a, <1>6, <2>2 DEF Numbers, Under
  <2>4. reply.status = "none"
    BY <1>6 DEF NoReply
  <2>. QED
    BY <1>a, <1>6, <2>2, <2>3, <2>4 DEF UnsentCall, Unsent
<1>8. Pending # Contract!NoRequest /\ wire.id = Pending.id => wire.method = Pending.method
  <2>1. SUFFICES ASSUME Pending # Contract!NoRequest, wire.id = Pending.id
                 PROVE  wire.method = Pending.method
    OBVIOUS
  <2>2. Pending = main
    BY <2>1 DEF Pending, Contract!NoRequest
  <2>3. frame = "main"
    BY <1>a, <1>6, <2>1, <2>2 DEF Numbers, Under
  <2>. QED
    BY <1>6, <2>2, <2>3
<1>9. UNCHANGED <<Pending, result>>
  BY <1>5 DEF clientVars, Pending
<1>. QED
  BY <1>2, <1>3, <1>4, <1>7, <1>8, <1>9 DEF Contract!Execute, Contract!HasRun, Ran

LEMMA ContractStep ==
  ASSUME Inv, [Next]_vars
  PROVE  [Contract!ContractNext]_(Contract!contractVars)
<1>1. CASE Run
  BY <1>1, RunExecutes DEF Contract!ContractNext
<1>2. CASE AsBefore
  BY <1>2 DEF AsBefore, Contract!contractVars
<1>3. CASE GivenUp
  <2>1. Contract!ReturnError
    BY <1>3 DEF GivenUp, Contract!ReturnError, Contract!NoOutcome, NoResult
  <2>. QED
    BY <2>1 DEF Contract!ContractNext
<1>4. CASE Returned
  <2>1. Contract!Return
    BY <1>4 DEF Returned, Contract!Return
  <2>. QED
    BY <2>1 DEF Contract!ContractNext
<1>5. ASSUME NEW method \in {"list", "call"}, Asked(method)
      PROVE  Contract!ContractNext
  <2>1. Pending' = [method |-> method, id |-> nextID]
    BY <1>5 DEF Asked
  <2>2. Pending'.id = nextID
    BY <2>1
  <2>3. ~Ran(nextID)
    BY DEF Inv, Numbers, ClientType, Ran
  <2>4. Contract!Ask(method)
    BY <1>5, <2>1, <2>2, <2>3 DEF Asked, Contract!Ask, Contract!HasRun, Ran
  <2>. QED
    BY <1>5, <2>4 DEF Contract!ContractNext
<1>. QED
  BY <1>1, <1>2, <1>3, <1>4, <1>5, RequestOutcomes

(* The client implements the contract of its caller, for any number of     *)
(* requests, sessions and losses: requests are answered one at a time, a   *)
(* request that is not answered with its own answer returns an error, and  *)
(* no tool call runs a second time (CallTool, ListTools).                  *)
THEOREM ImplementsRequestContract == Spec => ImplementsRequests
<1>1. Init => Contract!ContractInit
  BY DEF Init, Contract!ContractInit, Pending, Contract!NoRequest, Contract!NoOutcome, NoResult
<1>. QED
  BY <1>1, ContractStep, InitInv, InvNext, PTL DEF Spec, ImplementsRequests, Contract!ContractSpec
=============================================================================
