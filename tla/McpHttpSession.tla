---------------------------- MODULE McpHttpSession ----------------------------
(***************************************************************************)
(* A client of a remote MCP server (pkg/mcp/client/http.go) in the hands   *)
(* of ExecuteMCP (pkg/exec/mcp.go) or of a catalog build: it is opened,    *)
(* asked and closed, over streamable HTTP or over SSE.                     *)
(*                                                                         *)
(* A session of the server is a number, 0 is none; over SSE the session is *)
(* the one whose URL the endpoint event of the stream named.  The server   *)
(* is outside the repository: it answers, refuses, loses its sessions and  *)
(* drops connections; a 404 means that it does not know the session and    *)
(* has not run the request.  A cancelled context is a connection that      *)
(* breaks.  Endpoint events after the first are left out.                  *)
(***************************************************************************)
EXTENDS Naturals, Sequences, FiniteSets

CONSTANTS
  MaxRequests,  \* requests on one client
  MaxSessions,  \* sessions the server opens
  MaxGarbled    \* events of a stream that are no JSON

ASSUME McpAssumption == MaxRequests \in Nat /\ MaxSessions \in Nat /\ MaxGarbled \in Nat

VARIABLES
  kind,        \* "streamable" or "sse"
  phase,       \* "unopened", "idle", "closed", or what the client is doing:
               \* "connect", "post", "wait" or "delete"
  frame,       \* the request it does it for: "init", "notify" or "main"
  main,        \* the caller's request: [method, id]
  id,          \* id of the request under way
  nextID,
  attempt,     \* over SSE: 1 or 2; over HTTP 2 once a session was lost
  initialized,
  session,     \* sessionID, over SSE messageURL
  stream,      \* streamReader: the session whose events are read, 0 for nil
  requests,    \* requests of the caller so far
  opened,      \* Open has returned the client
  wire,        \* the POST under way, or NoPost
  reply,       \* its answer, or NoReply
  result,      \* what the last request returned
  known,       \* sessions the server knows
  ready,       \* those that have been notified of the initialisation
  created,     \* sessions created so far
  owed,        \* answers the server has yet to send on a stream
  events,      \* per session: events on the wire to the client
  garbled,
  ran,         \* requests the server has run: [id, method, session, ready]
  orderly      \* nothing was lost, and the closing DELETE was sent and obeyed

clientVars == <<phase, frame, main, id, nextID, attempt, initialized, session, stream,
                requests, opened, result>>
serverVars == <<known, ready, created, owed, events, garbled, ran>>
vars == <<kind, clientVars, serverVars, wire, reply, orderly>>

NoPost == [method |-> "none", id |-> 0, session |-> 0]
NoReply == [status |-> "none", session |-> 0, id |-> 0]
NoResult == [asked |-> 0, got |-> 0]

Init ==
  /\ kind \in {"streamable", "sse"}
  /\ phase = "unopened" /\ frame = "init" /\ main = [method |-> "none", id |-> 0]
  /\ id = 0 /\ nextID = 1 /\ attempt = 1 /\ initialized = FALSE
  /\ session = 0 /\ stream = 0 /\ requests = 0 /\ opened = FALSE /\ result = NoResult
  /\ wire = NoPost /\ reply = NoReply
  /\ known = {} /\ ready = {} /\ created = 0 /\ owed = {}
  /\ events = [s \in 1 .. MaxSessions |-> << >>] /\ garbled = 0 /\ ran = << >>
  /\ orderly = TRUE

-----------------------------------------------------------------------------
(* The client.  Fail is the return of an error: Open then returns no       *)
(* client, and only over SSE closes what it has opened.                    *)

Fail ==
  /\ result' = NoResult /\ wire' = NoPost /\ reply' = NoReply
  /\ IF opened THEN phase' = "idle" /\ UNCHANGED stream
     ELSE phase' = "closed" /\ stream' = 0
  /\ UNCHANGED <<frame, main, id, nextID, attempt, initialized, requests, opened>>

\* request: a new id, and over SSE a connection first
Start(nextFrame, newAttempt) ==
  /\ frame' = nextFrame /\ attempt' = newAttempt
  /\ IF kind = "sse" /\ (stream = 0 \/ session = 0) THEN phase' = "connect" ELSE phase' = "post"
  /\ id' = nextID /\ nextID' = nextID + 1

\* Open; arguments that cannot be decoded end the call before it
Open ==
  /\ phase = "unopened"
  /\ \/ Start("init", 1)
     \/ phase' = "closed" /\ UNCHANGED <<frame, attempt, id, nextID>>
  /\ UNCHANGED <<kind, main, initialized, session, stream, requests, opened, result, serverVars,
                 wire, reply, orderly>>

\* ListTools, CallTool
Request(method) ==
  /\ phase = "idle" /\ requests < MaxRequests
  /\ requests' = requests + 1 /\ main' = [method |-> method, id |-> nextID]
  /\ Start("main", 1)
  /\ UNCHANGED <<kind, initialized, session, stream, opened, result, serverVars, wire, reply,
                 orderly>>

\* doPOST with the headers refreshed; the token of the transport may fail
Post ==
  /\ phase = "post" /\ wire = NoPost /\ reply = NoReply
  /\ \/ wire' = [method |-> IF frame = "main" THEN main.method ELSE frame,
                 id |-> id, session |-> session]
        /\ UNCHANGED <<clientVars, reply>>
     \/ Fail /\ UNCHANGED session
  /\ UNCHANGED <<kind, serverVars, orderly>>

\* the request of this frame has its answer
FaultyAnswered(got) ==
  /\ phase' = IF frame = "main" THEN "idle" ELSE "post"
  /\ frame' = IF frame = "init" /\ ~opened THEN "notify" ELSE "main"
  /\ id' = IF opened THEN main.id ELSE id
  /\ result' = IF frame = "main" THEN [asked |-> id, got |-> got] ELSE result
  /\ UNCHANGED <<attempt, initialized, opened>>
Answered(got) ==
  CASE frame = "main" ->
         /\ phase' = "idle" /\ result' = [asked |-> id, got |-> got]
         /\ UNCHANGED <<frame, id, attempt, initialized, opened>>
    [] frame = "init" ->
         /\ phase' = "post" /\ frame' = "notify" /\ UNCHANGED <<id, attempt, initialized, opened, result>>

\* ensureInitialized has ended: Open returns, or the request is sent again
Notified ==
  /\ initialized' = TRUE
  /\ IF opened THEN phase' = "post" /\ frame' = "main" /\ id' = main.id /\ UNCHANGED opened
     ELSE phase' = "idle" /\ opened' = TRUE /\ UNCHANGED <<frame, id>>
  /\ UNCHANGED <<attempt, result>>

FaultyReplayable == frame # "notify"
Replayable == frame = "init" \/ (frame = "main" /\ main.method = "list")

\* streamable: doRequest after the answer to its POST
LostSession == reply.status = "unknown" /\ frame = "main" /\ attempt = 1 /\ session # 0
Reinitialize ==
  /\ session' = 0 /\ initialized' = FALSE
  /\ frame' = "init" /\ phase' = "post" /\ attempt' = 2
  /\ id' = nextID /\ nextID' = nextID + 1
ReadHTTP ==
  /\ kind = "streamable" /\ phase = "post" /\ reply # NoReply
  /\ \/ /\ LostSession /\ Reinitialize
        /\ wire' = NoPost /\ reply' = NoReply
        /\ UNCHANGED <<main, stream, requests, opened, result>>
     \/ /\ reply.status # "ok" /\ ~LostSession
        /\ Fail /\ UNCHANGED session
     \/ /\ reply.status = "ok"
        /\ session' = IF reply.session # 0 /\ frame # "notify" THEN reply.session ELSE session
        /\ \/ /\ IF frame = "notify" THEN Notified ELSE Answered(reply.id)
              /\ wire' = NoPost /\ reply' = NoReply
              /\ UNCHANGED <<main, nextID, stream, requests>>
           \/ frame # "notify" /\ Fail  \* an error of the method, or a broken body
  /\ UNCHANGED <<kind, serverVars, orderly>>

\* sse: the status of a request's POST is not read, that of a notification is
ReadSSEStatus ==
  /\ kind = "sse" /\ phase = "post" /\ reply # NoReply
  /\ \/ /\ reply.status = "lost" \/ (frame = "notify" /\ reply.status # "ok")
        /\ Fail /\ UNCHANGED session
     \/ /\ reply.status # "lost" /\ frame # "notify"
        /\ phase' = "wait"
        /\ wire' = NoPost /\ reply' = NoReply
        /\ UNCHANGED <<frame, main, id, nextID, attempt, initialized, session, stream, requests,
                       opened, result>>
     \/ /\ reply.status = "ok" /\ frame = "notify" /\ Notified
        /\ wire' = NoPost /\ reply' = NoReply
        /\ UNCHANGED <<main, nextID, session, stream, requests>>
  /\ UNCHANGED <<kind, serverVars, orderly>>

\* waitForResponse failed: a request that may be repeated gets a new stream
StreamFails ==
  IF Replayable /\ attempt = 1
  THEN /\ phase' = "connect" /\ attempt' = 2 /\ stream' = 0 /\ session' = 0
       /\ UNCHANGED <<frame, main, id, nextID, initialized, requests, opened, result, wire, reply>>
  ELSE Fail /\ UNCHANGED session

FaultyMatches(event) == event.type = "answer"
Matches(event) == event.type = "answer" /\ event.id = id
WaitForResponse ==
  /\ kind = "sse" /\ phase = "wait"
  /\ \/ /\ events[stream] # << >>
        /\ LET event == Head(events[stream]) IN
           /\ events' = [events EXCEPT ![stream] = Tail(@)]
           /\ \/ /\ Matches(event) /\ Answered(event.id)
                 /\ UNCHANGED <<main, nextID, session, stream, requests, wire, reply>>
              \/ Matches(event) /\ Fail /\ UNCHANGED session  \* an error of the method
              \/ event.type = "garbled" /\ StreamFails
              \/ /\ event.type = "answer" /\ ~Matches(event)
                 /\ UNCHANGED <<clientVars, wire, reply>>
     \/ /\ events[stream] = << >> /\ stream \notin known
        /\ StreamFails /\ UNCHANGED events
  /\ UNCHANGED <<kind, known, ready, created, owed, garbled, ran, orderly>>

\* ensureConnected: the stream, and then the endpoint it names; openSSE has
\* no client to close when this fails
Connect ==
  /\ kind = "sse" /\ phase = "connect"
  /\ \/ /\ created < MaxSessions
        /\ created' = created + 1 /\ known' = known \cup {created + 1}
        /\ stream' = created + 1
        /\ \/ /\ session' = created + 1 /\ phase' = "post"
              /\ UNCHANGED <<main, frame, id, nextID, attempt, initialized, requests, opened,
                             result, wire, reply, orderly>>
           \/ /\ phase' = IF opened THEN "idle" ELSE "closed"
              /\ result' = NoResult /\ orderly' = FALSE
              /\ UNCHANGED <<main, frame, id, nextID, attempt, initialized, session, requests,
                             opened, wire, reply>>
     \/ Fail /\ UNCHANGED <<session, created, known, orderly>>
  /\ UNCHANGED <<kind, ready, owed, events, garbled, ran>>

\* Close ends the stream; over HTTP it deletes the session
FaultyClosable == session # 0 /\ initialized
Closable == session # 0
Close ==
  /\ phase = "idle"
  /\ IF kind = "streamable" /\ Closable
     THEN /\ phase' = "delete" /\ wire' = [method |-> "delete", id |-> 0, session |-> session]
          /\ UNCHANGED <<stream, orderly>>
     ELSE /\ phase' = "closed" /\ stream' = 0 /\ UNCHANGED <<wire, orderly>>
  /\ UNCHANGED <<kind, frame, main, id, nextID, attempt, initialized, session, requests, opened,
                 result, serverVars, reply>>

\* the token fails, and the session is left to the server
CloseWithoutToken ==
  /\ phase = "idle" /\ kind = "streamable" /\ Closable
  /\ phase' = "closed" /\ orderly' = FALSE
  /\ UNCHANGED <<kind, frame, main, id, nextID, attempt, initialized, session, stream, requests,
                 opened, result, serverVars, wire, reply>>

\* the status of the DELETE is not read
Closed ==
  /\ phase = "delete" /\ reply # NoReply
  /\ phase' = "closed" /\ reply' = NoReply
  /\ UNCHANGED <<kind, frame, main, id, nextID, attempt, initialized, session, stream, requests,
                 opened, result, serverVars, wire, orderly>>

-----------------------------------------------------------------------------
(* The server.                                                             *)

Answer(status, newSession) ==
  /\ reply' = [status |-> status, session |-> newSession, id |-> wire.id]
  /\ wire' = NoPost

Knows == wire.session = 0 \/ wire.session \in known

\* runs the request; over SSE its answer comes on the stream
Run ==
  /\ wire.method \in {"init", "list", "call"} /\ Knows
  /\ kind = "sse" => wire.session # 0
  /\ ran' = Append(ran, [id |-> wire.id, method |-> wire.method,
                         ready |-> wire.session = 0 \/ wire.session \in ready])
  /\ IF kind = "sse"
     THEN /\ owed' = owed \cup {[session |-> wire.session, id |-> wire.id]}
          /\ Answer("ok", 0) /\ UNCHANGED <<known, created>>
     ELSE /\ UNCHANGED owed
          /\ \/ /\ wire.method = "init" /\ created < MaxSessions
                /\ created' = created + 1 /\ known' = known \cup {created + 1}
                /\ Answer("ok", created + 1)
             \/ Answer("ok", 0) /\ UNCHANGED <<known, created>>
  /\ UNCHANGED <<kind, clientVars, ready, events, garbled, orderly>>

TakeNotification ==
  /\ wire.method = "notify" /\ Knows
  /\ ready' = (ready \cup {wire.session}) \ {0}
  /\ Answer("ok", 0)
  /\ UNCHANGED <<kind, clientVars, known, created, owed, events, garbled, ran, orderly>>

DeleteSession ==
  /\ wire.method = "delete" /\ Knows
  /\ known' = known \ {wire.session} /\ Answer("ok", 0)
  /\ UNCHANGED <<kind, clientVars, ready, created, owed, events, garbled, ran, orderly>>

\* 404, for a session the server does not know, and any other refusal
Refuse ==
  /\ wire # NoPost
  /\ \/ ~Knows /\ Answer("unknown", 0) /\ UNCHANGED orderly
     \/ Answer("refused", 0) /\ orderly' = (orderly /\ wire.method # "delete")
  /\ UNCHANGED <<kind, clientVars, serverVars>>

\* the connection breaks, before the server has the request or after it
Lose ==
  /\ \/ wire # NoPost /\ wire' = NoPost
     \/ reply # NoReply /\ reply.status # "lost" /\ UNCHANGED wire
  /\ reply' = [status |-> "lost", session |-> 0, id |-> 0]
  /\ orderly' = FALSE
  /\ UNCHANGED <<kind, clientVars, serverVars>>

Emit(a) ==
  /\ a \in owed /\ a.session \in known
  /\ owed' = owed \ {a}
  /\ events' = [events EXCEPT ![a.session] = Append(@, [type |-> "answer", id |-> a.id])]
  /\ UNCHANGED <<kind, clientVars, wire, reply, known, ready, created, garbled, ran, orderly>>

EmitGarbled ==
  /\ kind = "sse" /\ stream \in known /\ garbled < MaxGarbled
  /\ garbled' = garbled + 1
  /\ events' = [events EXCEPT ![stream] = Append(@, [type |-> "garbled", id |-> 0])]
  /\ UNCHANGED <<kind, clientVars, wire, reply, known, ready, created, owed, ran, orderly>>

\* a session expires, or the stream it belongs to breaks
Forget(s) ==
  /\ s \in known /\ known' = known \ {s} /\ owed' = {a \in owed : a.session # s}
  /\ UNCHANGED <<kind, clientVars, wire, reply, ready, created, events, garbled, ran, orderly>>

Next ==
  \/ Open \/ \E method \in {"list", "call"} : Request(method)
  \/ Post \/ ReadHTTP \/ ReadSSEStatus \/ WaitForResponse \/ Connect
  \/ Close \/ CloseWithoutToken \/ Closed
  \/ Run \/ TakeNotification \/ DeleteSession \/ Refuse \/ Lose
  \/ (\E a \in owed : Emit(a)) \/ EmitGarbled \/ (\E s \in known : Forget(s))

Spec == Init /\ [][Next]_vars

-----------------------------------------------------------------------------
(* Refinement of the contract.                                             *)

\* the request the caller waits for
Pending == IF opened /\ phase \in {"connect", "post", "wait"} THEN main
           ELSE [method |-> "none", id |-> 0]

Contract == INSTANCE RequestContract WITH pending <- Pending, log <- ran, outcome <- result

\* The client implements the contract: through lost sessions, broken streams, repetitions and
\* answers that come late, what the caller sees is one request at a time, each under a number of
\* its own, a call that runs once at the most, and an answer to that very request or an error.
ImplementsRequests == Contract!ContractSpec

-----------------------------------------------------------------------------
\* The positions of a client, what is on the wire, and what the server knows (sseClient,
\* streamableHTTPClient): sessions are numbered as they are created.
TypeOK ==
  /\ kind \in {"streamable", "sse"}
  /\ phase \in {"unopened", "idle", "closed", "connect", "post", "wait", "delete"}
  /\ frame \in {"init", "notify", "main"}
  /\ main \in [method : {"none", "list", "call"}, id : Nat]
  /\ id \in Nat /\ nextID \in Nat /\ attempt \in {1, 2}
  /\ initialized \in BOOLEAN /\ opened \in BOOLEAN /\ orderly \in BOOLEAN
  /\ created \in 0 .. MaxSessions /\ session \in 0 .. MaxSessions /\ stream \in 0 .. MaxSessions
  /\ requests \in 0 .. MaxRequests /\ garbled \in 0 .. MaxGarbled
  /\ wire \in [method : {"none", "init", "notify", "list", "call", "delete"}, id : Nat,
                session : 0 .. MaxSessions]
  /\ reply \in [status : {"none", "ok", "unknown", "refused", "lost"}, session : 0 .. MaxSessions,
                 id : Nat]
  /\ result \in [asked : Nat, got : Nat]
  /\ known \subseteq 1 .. MaxSessions /\ ready \subseteq 1 .. MaxSessions
  /\ owed \subseteq [session : 1 .. MaxSessions, id : Nat]
  /\ events \in [1 .. MaxSessions -> Seq([type : {"answer", "garbled"}, id : Nat])]
  /\ ran \in Seq([id : Nat, method : {"init", "list", "call"}, ready : BOOLEAN])

\* The server runs a tool call once at the most: a call is repeated over HTTP only when the
\* server has not run it, and over SSE, where nobody knows, never (doRequest, request).
CallsRunOnce ==
  \A i, j \in DOMAIN ran : ran[i].method = "call" /\ ran[i].id = ran[j].id => i = j

\* What a request returns is what the server answered to that very request, although over SSE
\* answers to an earlier, broken request may still arrive on the stream, and over HTTP other
\* requests are sent between the request and its repetition (waitForResponse, doRequest).
AnswersMatch ==
  phase = "idle" /\ result # NoResult =>
    /\ result.asked = main.id
    /\ \E i \in DOMAIN ran : ran[i].id = result.got /\ ran[i].id = main.id
                              /\ ran[i].method = main.method

\* Over HTTP the first request of a client, which is all ExecuteMCP and Build send, runs only
\* in a session that was initialised and notified, also when the session was lost and
\* replaced in between (doRequest, ensureInitialized).
InitialisedFirst ==
  kind = "streamable" => \A i \in DOMAIN ran : ran[i].id = 2 => ran[i].ready

\* A client that was opened leaves no session behind when it is closed in an orderly way,
\* whatever failed in between (Close).
SessionsAreClosed ==
  kind = "streamable" /\ phase = "closed" /\ opened /\ orderly => known = {}
=============================================================================
