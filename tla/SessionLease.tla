---------------------------- MODULE SessionLease ----------------------------
(***************************************************************************)
(* Session leases of the hosted runtime (internal/runtime/server.go).      *)
(*                                                                         *)
(* Management requests (heartbeat, session-close, stop) run in goroutines  *)
(* of their own, the Handlers; a lease's timer that fires becomes one more *)
(* goroutine, an element of expiries.  A step of the specification is what *)
(* a goroutine does between two points at which another one can run: a     *)
(* critical section of leaseMu, one poll of the in-flight counter, the     *)
(* shutdown hook, the removal of the token directory.                      *)
(*                                                                         *)
(* Time is counted down: left is the number of ticks a timer or a grace    *)
(* period still has to run, and a goroutine may be late by any amount.     *)
(* ExpiresAt is only ever compared for equality, so it is an identity, the *)
(* stamp of a lease, fresh at every renewal.                               *)
(*                                                                         *)
(* Definitions named Faulty... are variants no action uses: each is the    *)
(* mistake one of the properties exists to exclude.                        *)
(***************************************************************************)
EXTENDS Naturals

CONSTANTS
  Sessions,         \* session ids clients present
  Handlers,         \* management requests that can be served at once
  Stamps,           \* values of ExpiresAt
  NoLease,          \* no entry in the map
  NoSession,        \* the session of an idle handler
  TTL,              \* heartbeatSeconds * missedHeartbeatLimit, 0 = no lifecycle
  Grace,            \* gracePeriod
  MaxInflight,      \* bound on concurrent business requests
  ShareMode,        \* "exclusive" or "group"
  ShutdownMode,     \* "when-owner-exits" or "manual"
  HasShutdownHook   \* Options.Shutdown was given

ASSUME LeaseAssumption ==
  /\ TTL \in Nat
  /\ Grace \in Nat
  /\ MaxInflight \in Nat
  /\ HasShutdownHook \in BOOLEAN
  /\ NoLease \notin [stamp : Stamps, armed : BOOLEAN, left : 0..TTL]
  /\ NoSession \notin Sessions

VARIABLES
  leases,      \* Server.leases
  handlers,    \* the goroutine of each management request
  expiries,    \* goroutines running expireLease
  inflight,    \* Server.inflight
  httpOpen,    \* the hook has not run: requests are accepted and the
               \* connections of those being served are open
  authCached   \* the token directory stateDir/oauth has content

vars == <<leases, handlers, expiries, inflight, httpOpen, authCached>>

\* wipeLast is wipe in the close that has just ended the runtime
HandlerPCs ==
  {"idle", "attach", "renew", "remove", "drain", "hook", "wipe", "wipeLast", "stop"}
ExpiryPCs == {"lock", "drain", "hook"}

\* armed: the timer has not fired; left: ticks before it may
Lease == [stamp : Stamps, armed : BOOLEAN, left : 0..TTL]
\* left: what remains of the grace period
Handler == [pc : HandlerPCs, session : Sessions \cup {NoSession}, left : 0..Grace]
Expiry == [session : Sessions, stamp : Stamps, pc : ExpiryPCs, left : 0..Grace]

Leased == {s \in Sessions : leases[s] # NoLease}
LifecycleEnabled == TTL > 0
AutoShutdown == ShutdownMode = "when-owner-exits" /\ HasShutdownHook

StampsInUse == {leases[s].stamp : s \in Leased} \cup {e.stamp : e \in expiries}
NewStamp == CHOOSE x \in Stamps : x \notin StampsInUse

Idle == [pc |-> "idle", session |-> NoSession, left |-> 0]
At(h, pc) == handlers[h].pc = pc
Return(h) == handlers' = [handlers EXCEPT ![h] = Idle]
MoveTo(h, pc, left) ==
  handlers' = [handlers EXCEPT
                 ![h] = [pc |-> pc, session |-> handlers[h].session, left |-> left]]
Goto(h, pc) == MoveTo(h, pc, 0)
\* drainInflightAndShutdown begins in the goroutine of request h
BeginDrain(h) == MoveTo(h, "drain", Grace)

Init ==
  /\ leases = [s \in Sessions |-> NoLease]
  /\ handlers = [h \in Handlers |-> Idle]
  /\ expiries = {}
  /\ inflight = 0
  /\ httpOpen = TRUE
  /\ authCached = FALSE

-----------------------------------------------------------------------------
(* Requests.  A request rejected before it reaches the leases (bad token,  *)
(* wrong fingerprint, undecodable body) changes nothing and is left out.   *)

Accept(h, s, pc) ==
  /\ httpOpen
  /\ At(h, "idle")
  /\ handlers' = [handlers EXCEPT ![h] = [pc |-> pc, session |-> s, left |-> 0]]
  /\ UNCHANGED <<leases, expiries, inflight, httpOpen, authCached>>

HeartbeatRequest(h, s) == Accept(h, s, "attach")

SessionCloseRequest(h, s) == Accept(h, s, "remove")

\* session-close without a session id only clears the token directory
AnonymousCloseRequest(h, s) == Accept(h, s, "wipe")

\* 501 without a hook; with one the reply is flushed, then the hook runs
StopRequest(h, s) == HasShutdownHook /\ Accept(h, s, "stop")

-----------------------------------------------------------------------------
(* Heartbeat: canAttachSession and renewLease lock leaseMu separately.     *)

CanAttachSession(s) == ShareMode = "group" \/ Leased \subseteq {s}

CheckAttach(h) ==
  /\ At(h, "attach")
  /\ IF CanAttachSession(handlers[h].session) THEN Goto(h, "renew") ELSE Return(h)
  /\ UNCHANGED <<leases, expiries, inflight, httpOpen, authCached>>

FaultyRenewedNoTimer(s) == [stamp |-> NewStamp, armed |-> s \notin Leased, left |-> TTL]
Renewed(s) == [stamp |-> NewStamp, armed |-> TRUE, left |-> TTL]

RenewLease(h) ==
  /\ At(h, "renew")
  /\ IF LifecycleEnabled
     THEN /\ StampsInUse # Stamps
          /\ leases' = [leases EXCEPT ![handlers[h].session] = Renewed(handlers[h].session)]
     ELSE UNCHANGED leases
  /\ Return(h)
  /\ UNCHANGED <<expiries, inflight, httpOpen, authCached>>

-----------------------------------------------------------------------------
(* Session close.                                                          *)

\* remaining == 0 after the deletion, in a runtime that ends with its owner
FaultyLastOwner(s) == Leased = {} /\ AutoShutdown
LastOwner(s) == Leased = {s} /\ AutoShutdown

RemoveLease(h) ==
  LET s == handlers[h].session IN
  /\ At(h, "remove")
  /\ leases' = [leases EXCEPT ![s] = NoLease]
  /\ IF LastOwner(s)
     THEN BeginDrain(h)
     ELSE Goto(h, "wipe")
  /\ UNCHANGED <<expiries, inflight, httpOpen, authCached>>

\* The directory is shared by all sessions.
RemoveTokens(h) ==
  /\ handlers[h].pc \in {"wipe", "wipeLast"}
  /\ authCached' = FALSE
  /\ Return(h)
  /\ UNCHANGED <<leases, expiries, inflight, httpOpen>>

-----------------------------------------------------------------------------
(* Expiry.  Timer.Stop does not call back a goroutine already started.     *)

TimerFires(s) ==
  /\ s \in Leased
  /\ leases[s].armed
  /\ leases[s].left = 0
  /\ leases' = [leases EXCEPT ![s].armed = FALSE]
  /\ expiries' = expiries \cup
       {[session |-> s, stamp |-> leases[s].stamp, pc |-> "lock", left |-> 0]}
  /\ UNCHANGED <<handlers, inflight, httpOpen, authCached>>

Moved(e, pc, left) ==
  [session |-> e.session, stamp |-> e.stamp, pc |-> pc, left |-> left]

FaultyCurrent(e) == e.session \in Leased
Current(e) == e.session \in Leased /\ leases[e.session].stamp = e.stamp

ExpireLease(e) ==
  /\ e.pc = "lock"
  /\ leases' = IF Current(e) THEN [leases EXCEPT ![e.session] = NoLease] ELSE leases
  /\ expiries' = (expiries \ {e}) \cup
       IF Current(e) /\ LastOwner(e.session)
       THEN {Moved(e, "drain", Grace)}
       ELSE {}
  /\ UNCHANGED <<handlers, inflight, httpOpen, authCached>>

-----------------------------------------------------------------------------
(* Draining and the shutdown hook.  The toolbox's hook is the Close of its *)
(* http.Server: no new requests, every open connection is cut, handlers    *)
(* that are running go on.                                                 *)

FaultyDrainOver(left) == inflight = 0
DrainOver(left) == inflight = 0 \/ left = 0

HandlerDrained(h) ==
  /\ At(h, "drain")
  /\ DrainOver(handlers[h].left)
  /\ Goto(h, "hook")
  /\ UNCHANGED <<leases, expiries, inflight, httpOpen, authCached>>

ExpiryDrained(e) ==
  /\ e.pc = "drain"
  /\ DrainOver(e.left)
  /\ expiries' = (expiries \ {e}) \cup {Moved(e, "hook", 0)}
  /\ UNCHANGED <<leases, handlers, inflight, httpOpen, authCached>>

\* removeLease returns to the close handler, the goroutine of a stop ends
HandlerShutdown(h) ==
  /\ handlers[h].pc \in {"hook", "stop"}
  /\ httpOpen' = FALSE
  /\ IF At(h, "hook") THEN Goto(h, "wipeLast") ELSE Return(h)
  /\ UNCHANGED <<leases, expiries, inflight, authCached>>

ExpiryShutdown(e) ==
  /\ e.pc = "hook"
  /\ httpOpen' = FALSE
  /\ expiries' = expiries \ {e}
  /\ UNCHANGED <<leases, handlers, inflight, authCached>>

-----------------------------------------------------------------------------
(* Business requests (inflightMiddleware); one may cache an access token.  *)

StartRequest ==
  /\ httpOpen
  /\ inflight < MaxInflight
  /\ inflight' = inflight + 1
  /\ UNCHANGED <<leases, handlers, expiries, httpOpen, authCached>>

CacheToken ==
  /\ inflight > 0
  /\ ~authCached
  /\ authCached' = TRUE
  /\ UNCHANGED <<leases, handlers, expiries, inflight, httpOpen>>

FinishRequest ==
  /\ inflight > 0
  /\ inflight' = inflight - 1
  /\ UNCHANGED <<leases, handlers, expiries, httpOpen, authCached>>

-----------------------------------------------------------------------------
(* Time.                                                                   *)

Less(n) == IF n > 0 THEN n - 1 ELSE 0

Running ==
  \/ \E s \in Leased : leases[s].left > 0
  \/ \E h \in Handlers : handlers[h].left > 0
  \/ \E e \in expiries : e.left > 0

Tick ==
  /\ Running
  /\ leases' = [s \in Sessions |->
                  IF s \in Leased THEN [leases[s] EXCEPT !.left = Less(@)] ELSE NoLease]
  /\ handlers' = [h \in Handlers |-> [handlers[h] EXCEPT !.left = Less(@)]]
  /\ expiries' = {[e EXCEPT !.left = Less(@)] : e \in expiries}
  /\ UNCHANGED <<inflight, httpOpen, authCached>>

-----------------------------------------------------------------------------

HandlerStep(h) ==
  \/ CheckAttach(h)
  \/ RenewLease(h)
  \/ RemoveLease(h)
  \/ RemoveTokens(h)
  \/ HandlerDrained(h)
  \/ HandlerShutdown(h)

\* the goroutine started by the timer of the lease with stamp x
ExpiryStep(x) ==
  \E e \in expiries :
    e.stamp = x /\ (ExpireLease(e) \/ ExpiryDrained(e) \/ ExpiryShutdown(e))

Request(h, s) ==
  \/ HeartbeatRequest(h, s)
  \/ SessionCloseRequest(h, s)
  \/ AnonymousCloseRequest(h, s)
  \/ StopRequest(h, s)

Next ==
  \/ \E h \in Handlers, s \in Sessions : Request(h, s)
  \/ \E h \in Handlers : HandlerStep(h)
  \/ \E s \in Sessions : TimerFires(s)
  \/ \E x \in Stamps : ExpiryStep(x)
  \/ StartRequest
  \/ CacheToken
  \/ FinishRequest
  \/ Tick

Spec == Init /\ [][Next]_vars

(***************************************************************************)
(* The Go scheduler runs every goroutine that is not blocked and time      *)
(* passes.  Clients owe nothing: no fairness on requests, and none on the  *)
(* end of a business request, which may hang on its upstream for ever.     *)
(***************************************************************************)
Fairness ==
  /\ \A h \in Handlers : WF_vars(HandlerStep(h))
  /\ \A s \in Sessions : WF_vars(TimerFires(s))
  /\ \A x \in Stamps : WF_vars(ExpiryStep(x))
  /\ WF_vars(Tick)

FairSpec == Spec /\ Fairness

-----------------------------------------------------------------------------
(* Properties.                                                             *)

\* Leases, goroutines, grace periods and the in-flight counter of
\* inflightMiddleware stay in their ranges; the counter never goes below zero.
TypeOK ==
  /\ leases \in [Sessions -> Lease \cup {NoLease}]
  /\ handlers \in [Handlers -> Handler]
  /\ expiries \subseteq Expiry
  /\ inflight \in 0..MaxInflight
  /\ httpOpen \in BOOLEAN
  /\ authCached \in BOOLEAN

\* Every lease can end: its timer is armed, or the goroutine its timer
\* started has yet to take leaseMu and carries the lease's own ExpiresAt.
\* A renewal racing an expiry must never leave a lease nothing will remove.
LeaseCanExpire ==
  \A s \in Leased :
    \/ leases[s].armed
    \/ \E e \in expiries : e.pc = "lock" /\ e.session = s /\ e.stamp = leases[s].stamp

\* An expireLease goroutine that would still find its own lease was started
\* by that lease's timer, which has run its whole time: a goroutine left
\* over from before a renewal never matches the renewed lease.
StaleExpiryIsHarmless ==
  \A e \in expiries :
    e.pc = "lock" /\ Current(e) =>
      ~leases[e.session].armed /\ leases[e.session].left = 0

\* A lease that disappears without a close of its session had its full TTL
\* since its last renewal (expireLease against renewLease).
NoEarlyExpiry ==
  [][\A s \in Sessions :
       s \in Leased /\ leases'[s] = NoLease =>
         \/ leases[s].left = 0
         \/ \E h \in Handlers : At(h, "remove") /\ handlers[h].session = s]_vars

\* An exclusive runtime never has two owners.
ExclusiveOwner ==
  ShareMode = "exclusive" => \A s, t \in Leased : s = t

\* Wherever the count of leases reaches zero in a runtime that ends with its
\* owner, that same step commits a goroutine to the shutdown: two sessions
\* leaving at once cannot each see the other and both stay silent.
LastLeaseEndsRuntime ==
  [][AutoShutdown /\ Leased # {} /\ Leased' = {} =>
       \/ \E h \in Handlers : handlers'[h].pc = "drain"
       \/ \E e \in expiries' : e.pc = "drain"]_vars

\* A session that stops sending heartbeats does not keep its lease.
SilentSessionExpires ==
  \A s \in Sessions :
    []<>(s \notin Leased \/ \E h \in Handlers : handlers[h].session = s)

-----------------------------------------------------------------------------
(* Refinement of the contract.                                             *)

Doomed ==
  \/ \E h \in Handlers : handlers[h].pc \in {"drain", "hook", "stop"}
  \/ \E e \in expiries : e.pc \in {"drain", "hook"}

phaseOf == IF ~httpOpen THEN "closed" ELSE IF Doomed THEN "doomed" ELSE "open"

Contract == INSTANCE LeaseContract WITH
  attached <- Leased, phase <- phaseOf,
  OwnerExits <- AutoShutdown, Stoppable <- HasShutdownHook

\* The lease code implements the contract, liveness included: once the last
\* lease is gone, or a stop is asked for, the runtime closes within the
\* grace period even when a business request never returns.
ImplementsContract == Contract!ContractSpec
=============================================================================
