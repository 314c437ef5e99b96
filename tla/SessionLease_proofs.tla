------------------------ MODULE SessionLease_proofs ------------------------
(***************************************************************************)
(* Proofs about SessionLease and the process around it, ToolboxLifecycle,  *)
(* for any numbers of sessions, handlers and stamps and any TTL and grace  *)
(* period.                                                                 *)
(*                                                                         *)
(* The inductive invariant is LeaseInv: the types, that every lease can    *)
(* expire, and that a goroutine left by an older timer is harmless.  The   *)
(* last two need each other: a renewal replaces the stamp by a fresh one,  *)
(* so the goroutine that matched the old lease cannot match the new one,   *)
(* and the goroutine that does match a lease is the one its own timer      *)
(* started.                                                                *)
(*                                                                         *)
(* Three parts: the invariants and step properties of the leases, their    *)
(* refinement of LeaseContract, and the exit of the process.               *)
(***************************************************************************)
EXTENDS ToolboxLifecycle, TLAPS

LeaseInv == TypeOK /\ LeaseCanExpire /\ StaleExpiryIsHarmless

-----------------------------------------------------------------------------
(* The stamp of a renewal is a stamp no lease and no goroutine carries     *)
(* (renewLease computes ExpiresAt anew).                                   *)
LEMMA NewStampFresh ==
  ASSUME TypeOK, StampsInUse # Stamps
  PROVE  NewStamp \in Stamps /\ NewStamp \notin StampsInUse
<1>1. StampsInUse \subseteq Stamps
  BY DEF TypeOK, StampsInUse, Leased, Lease, Expiry
<1>2. PICK x \in Stamps : x \notin StampsInUse
  BY <1>1
<1>3. QED
  BY <1>2 DEF NewStamp

(* A lease is never mistaken for the absence of one (a map entry).         *)
LEMMA LeaseIsEntry ==
  ASSUME NEW x \in Lease
  PROVE  x # NoLease
BY LeaseAssumption DEF Lease

(* A countdown of Tick stays within its range.                             *)
LEMMA LessInRange ==
  ASSUME NEW n \in Nat, NEW i \in 0..n
  PROVE  Less(i) \in 0..n
BY DEF Less

-----------------------------------------------------------------------------
(* Types: the runtime's state keeps its shape through every handler,       *)
(* goroutine and tick.                                                     *)
LEMMA TypeInit == Init => TypeOK
<1> SUFFICES ASSUME Init
             PROVE  TypeOK
  OBVIOUS
<1>1. Idle \in Handler
  BY LeaseAssumption DEF Idle, Handler, HandlerPCs
<1>2. inflight \in 0..MaxInflight
  BY LeaseAssumption DEF Init
<1>3. QED
  BY <1>1, <1>2, Zenon DEF Init, TypeOK

(* Accepting a management request keeps the types (Handler mux).           *)
LEMMA TypeRequest ==
  ASSUME TypeOK, NEW h \in Handlers, NEW s \in Sessions, Request(h, s)
  PROVE  TypeOK'
<1>1. \A pc \in HandlerPCs : Accept(h, s, pc) => TypeOK'
  BY LeaseAssumption DEF Accept, TypeOK, Handler
<1>2. {"attach", "remove", "wipe", "stop"} \subseteq HandlerPCs
  BY DEF HandlerPCs
<1>3. QED
  BY <1>1, <1>2 DEF Request, HeartbeatRequest, SessionCloseRequest,
     AnonymousCloseRequest, StopRequest

(* So does each step of a request: canAttachSession, renewLease, removeLease,*)
(* RemoveAll, drainInflightAndShutdown.                                    *)
LEMMA TypeHandlerStep ==
  ASSUME TypeOK, NEW h \in Handlers, HandlerStep(h)
  PROVE  TypeOK'
<1> USE LeaseAssumption
<1>0. /\ handlers[h] \in Handler
      /\ Idle \in Handler
  BY DEF TypeOK, Idle, Handler, HandlerPCs
<1>1. \A pc \in HandlerPCs, left \in 0..Grace :
        MoveTo(h, pc, left) => handlers' \in [Handlers -> Handler]
  BY <1>0 DEF MoveTo, TypeOK, Handler
<1>2. [handlers EXCEPT ![h] = Idle] \in [Handlers -> Handler]
  BY <1>0 DEF TypeOK
<1>3. CASE CheckAttach(h)
  BY <1>1, <1>2, <1>3 DEF CheckAttach, Goto, Return, TypeOK, HandlerPCs
<1>4. CASE RenewLease(h)
  <2>1. handlers[h].session \in Sessions =>
          \/ Renewed(handlers[h].session) \in Lease
          \/ ~LifecycleEnabled \/ StampsInUse = Stamps
    BY NewStampFresh DEF Renewed, Lease, LifecycleEnabled
  <2>2. leases' \in [Sessions -> Lease \cup {NoLease}]
    BY <1>4, <2>1 DEF RenewLease, TypeOK
  <2>3. handlers' \in [Handlers -> Handler]
    BY <1>2, <1>4 DEF RenewLease, Return
  <2>4. QED
    BY <1>4, <2>2, <2>3 DEF RenewLease, TypeOK
<1>5. CASE RemoveLease(h)
  <2>1. leases' \in [Sessions -> Lease \cup {NoLease}]
    BY <1>5 DEF RemoveLease, TypeOK
  <2>3. handlers' \in [Handlers -> Handler]
    BY <1>1, <1>5 DEF RemoveLease, BeginDrain, Goto, HandlerPCs
  <2>4. QED
    BY <1>5, <2>1, <2>3 DEF RemoveLease, TypeOK
<1>6. CASE RemoveTokens(h)
  BY <1>2, <1>6 DEF RemoveTokens, Return, TypeOK
<1>7. CASE HandlerDrained(h)
  BY <1>1, <1>7 DEF HandlerDrained, Goto, TypeOK, HandlerPCs
<1>8. CASE HandlerShutdown(h)
  <2>1. handlers' \in [Handlers -> Handler]
    BY <1>1, <1>2, <1>8 DEF HandlerShutdown, Goto, Return, HandlerPCs
  <2>2. httpOpen' \in BOOLEAN
    BY <1>8 DEF HandlerShutdown
  <2>3. QED
    BY <1>8, <2>1, <2>2 DEF HandlerShutdown, TypeOK
<1>9. QED
  BY <1>3, <1>4, <1>5, <1>6, <1>7, <1>8 DEF HandlerStep

(* So does a lease timer that fires (time.AfterFunc in renewLease).        *)
LEMMA TypeTimer ==
  ASSUME TypeOK, NEW s \in Sessions, TimerFires(s)
  PROVE  TypeOK'
<1>1. leases[s] \in Lease
  BY DEF TypeOK, TimerFires, Leased
<1>2. leases' \in [Sessions -> Lease \cup {NoLease}]
  BY <1>1 DEF TimerFires, TypeOK, Lease
<1>3. expiries' \subseteq Expiry
  BY <1>1, LeaseAssumption DEF TimerFires, TypeOK, Lease, Expiry, ExpiryPCs
<1>4. QED
  BY <1>2, <1>3 DEF TimerFires, TypeOK

(* So does each step of an expireLease goroutine.                          *)
LEMMA TypeExpiryStep ==
  ASSUME TypeOK, NEW x \in Stamps, ExpiryStep(x)
  PROVE  TypeOK'
<1> USE LeaseAssumption
<1>0. PICK e \in expiries : ExpireLease(e) \/ ExpiryDrained(e) \/ ExpiryShutdown(e)
  BY DEF ExpiryStep
<1>1. e \in Expiry
  BY DEF TypeOK
<1>2. Moved(e, "drain", Grace) \in Expiry /\ Moved(e, "hook", 0) \in Expiry
  BY <1>1 DEF Moved, Expiry, ExpiryPCs
<1>3. CASE ExpireLease(e)
  <2>1. leases' \in [Sessions -> Lease \cup {NoLease}]
    BY <1>1, <1>3 DEF ExpireLease, TypeOK, Expiry
  <2>2. expiries' \subseteq Expiry
    BY <1>2, <1>3 DEF ExpireLease, TypeOK
  <2>3. QED
    BY <1>3, <2>1, <2>2 DEF ExpireLease, TypeOK
<1>4. CASE ExpiryDrained(e)
  BY <1>2, <1>4 DEF ExpiryDrained, TypeOK
<1>5. CASE ExpiryShutdown(e)
  BY <1>5 DEF ExpiryShutdown, TypeOK
<1>6. QED
  BY <1>0, <1>3, <1>4, <1>5

(* So does the passing of time.                                            *)
LEMMA TypeTick ==
  ASSUME TypeOK, Tick
  PROVE  TypeOK'
<1> USE LeaseAssumption
<1>1. \A l \in Lease : [l EXCEPT !.left = Less(@)] \in Lease
  BY LessInRange DEF Lease
<1>2. \A r \in Handler : [r EXCEPT !.left = Less(@)] \in Handler
  BY LessInRange DEF Handler
<1>3. \A e \in Expiry : [e EXCEPT !.left = Less(@)] \in Expiry
  BY LessInRange DEF Expiry
<1>4. leases' \in [Sessions -> Lease \cup {NoLease}]
  BY <1>1 DEF Tick, TypeOK, Leased
<1>5. handlers' \in [Handlers -> Handler]
  BY <1>2 DEF Tick, TypeOK
<1>6. expiries' \subseteq Expiry
  BY <1>3 DEF Tick, TypeOK
<1>7. QED
  BY <1>4, <1>5, <1>6 DEF Tick, TypeOK

(* Every step of the runtime keeps the types.                              *)
LEMMA TypeNext == TypeOK /\ [Next]_vars => TypeOK'
<1> SUFFICES ASSUME TypeOK, [Next]_vars
             PROVE  TypeOK'
  OBVIOUS
<1>1. CASE StartRequest \/ CacheToken \/ FinishRequest
  <2>1. inflight' \in 0..MaxInflight
    BY <1>1, LeaseAssumption DEF StartRequest, CacheToken, FinishRequest, TypeOK
  <2>2. QED
    BY <1>1, <2>1, Zenon DEF StartRequest, CacheToken, FinishRequest, TypeOK
<1>2. CASE UNCHANGED vars
  BY <1>2 DEF vars, TypeOK
<1>3. QED
  BY <1>1, <1>2, TypeRequest, TypeHandlerStep, TypeTimer, TypeExpiryStep, TypeTick
     DEF Next

(* The type invariant of the lease code, for all values of the constants.  *)
THEOREM TypeInvariant == Spec => []TypeOK
<1>1. QED
  BY TypeInit, TypeNext, PTL DEF Spec

-----------------------------------------------------------------------------
(* The inductive invariant.                                                *)
LEMMA LeaseInvInit == Init => LeaseInv
<1>1. Init => LeaseCanExpire /\ StaleExpiryIsHarmless
  BY DEF Init, LeaseCanExpire, StaleExpiryIsHarmless, Leased
<1>2. QED
  BY <1>1, TypeInit DEF LeaseInv

(* Steps that touch neither the leases nor the goroutines that wait for    *)
(* leaseMu in expireLease cannot disturb it.                               *)
LEMMA LeaseInvFrame ==
  ASSUME LeaseInv, TypeOK', leases' = leases, expiries' = expiries
  PROVE  LeaseInv'
BY DEF LeaseInv, LeaseCanExpire, StaleExpiryIsHarmless, Leased, Current

(* renewLease: the fresh stamp belongs to no waiting goroutine.            *)
LEMMA LeaseInvRenew ==
  ASSUME LeaseInv, TypeOK', NEW h \in Handlers, RenewLease(h)
  PROVE  LeaseInv'
<1> DEFINE s == handlers[h].session
<1>1. CASE UNCHANGED leases
  BY <1>1, LeaseInvFrame DEF RenewLease
<1>2. CASE leases' # leases
  <2>1. /\ leases' = [leases EXCEPT ![s] = Renewed(s)]
        /\ StampsInUse # Stamps
        /\ expiries' = expiries
    BY <1>2 DEF RenewLease
  <2>2. NewStamp \in Stamps /\ NewStamp \notin StampsInUse
    BY <2>1, NewStampFresh DEF LeaseInv
  <2>3. \A t \in Sessions : t # s => leases'[t] = leases[t]
    BY <2>1 DEF LeaseInv, TypeOK
  <2>4. s \in Sessions => leases'[s] = Renewed(s)
    BY <2>1 DEF LeaseInv, TypeOK
  <2>5. LeaseCanExpire'
    BY <2>1, <2>3, <2>4 DEF LeaseInv, LeaseCanExpire, Leased, Renewed
  <2>6. \A e \in expiries : e.stamp # NewStamp
    BY <2>2 DEF StampsInUse
  <2>7. \A e \in expiries : Current(e)' => e.session # s /\ Current(e)
    BY <2>1, <2>3, <2>4, <2>6 DEF Current, Leased, Renewed
  <2>8. StaleExpiryIsHarmless'
    <3> SUFFICES ASSUME NEW e \in expiries, e.pc = "lock", Current(e)'
                 PROVE  ~leases'[e.session].armed /\ leases'[e.session].left = 0
      BY <2>1 DEF StaleExpiryIsHarmless
    <3>1. e.session # s /\ Current(e)
      BY <2>7
    <3>2. leases'[e.session] = leases[e.session]
      BY <2>3, <3>1 DEF Current, Leased
    <3>3. QED
      BY <3>1, <3>2 DEF LeaseInv, StaleExpiryIsHarmless
  <2>9. QED
    BY <2>5, <2>8 DEF LeaseInv
<1>3. QED
  BY <1>1, <1>2

(* removeLease: a lease less.                                              *)
LEMMA LeaseInvRemove ==
  ASSUME LeaseInv, TypeOK', NEW h \in Handlers, RemoveLease(h)
  PROVE  LeaseInv'
<1>1. /\ expiries' = expiries
      /\ \A t \in Sessions : leases'[t] = leases[t] \/ leases'[t] = NoLease
  BY DEF RemoveLease, LeaseInv, TypeOK
<1>2. \A t \in Leased' : t \in Leased /\ leases'[t] = leases[t]
  BY <1>1 DEF Leased
<1>3. LeaseCanExpire'
  BY <1>1, <1>2 DEF LeaseInv, LeaseCanExpire
<1>4. StaleExpiryIsHarmless'
  BY <1>1, <1>2 DEF LeaseInv, StaleExpiryIsHarmless, Current
<1>5. QED
  BY <1>3, <1>4 DEF LeaseInv

(* A lease whose timer has fired is otherwise the same lease.              *)
LEMMA DisarmedLease ==
  ASSUME NEW x \in Lease
  PROVE  /\ [x EXCEPT !.armed = FALSE] \in Lease
         /\ [x EXCEPT !.armed = FALSE].stamp = x.stamp
         /\ [x EXCEPT !.armed = FALSE].left = x.left
         /\ ~[x EXCEPT !.armed = FALSE].armed
BY DEF Lease

(* A timer that fires leaves its goroutine in its place.                   *)
LEMMA LeaseInvTimer ==
  ASSUME LeaseInv, TypeOK', NEW s \in Sessions, TimerFires(s)
  PROVE  LeaseInv'
<1> DEFINE fired == [session |-> s, stamp |-> leases[s].stamp, pc |-> "lock", left |-> 0]
<1>1. /\ s \in Leased
      /\ leases[s].left = 0
      /\ leases' = [leases EXCEPT ![s].armed = FALSE]
      /\ expiries' = expiries \cup {fired}
  BY DEF TimerFires
<1>2. /\ leases[s] \in Lease
      /\ \A t \in Sessions : t # s => leases'[t] = leases[t]
      /\ leases'[s] = [leases[s] EXCEPT !.armed = FALSE]
  BY <1>1 DEF LeaseInv, TypeOK, Leased
<1>3. /\ leases'[s] \in Lease
      /\ leases'[s].stamp = leases[s].stamp
      /\ leases'[s].left = 0
      /\ ~leases'[s].armed
  <2>1. leases[s].left = 0
    BY <1>1
  <2>2. QED
    BY <1>2, <2>1, DisarmedLease
<1>4. Leased' = Leased
  BY <1>1, <1>2, <1>3, LeaseIsEntry DEF Leased
<1>5. LeaseCanExpire'
  <2> SUFFICES ASSUME NEW t \in Leased, ~leases'[t].armed
               PROVE  \E e \in expiries' : /\ e.pc = "lock"
                                           /\ e.session = t
                                           /\ e.stamp = leases'[t].stamp
    BY <1>4 DEF LeaseCanExpire
  <2>1. CASE t = s
    <3>1. /\ fired \in expiries'
          /\ fired.pc = "lock"
          /\ fired.session = t
          /\ fired.stamp = leases'[t].stamp
      BY <1>1, <1>3, <2>1
    <3>2. QED
      BY <3>1
  <2>2. CASE t # s
    BY <1>1, <1>2, <2>2 DEF LeaseInv, LeaseCanExpire, Leased
  <2>3. QED
    BY <2>1, <2>2
<1>6. StaleExpiryIsHarmless'
  <2> SUFFICES ASSUME NEW e \in expiries', e.pc = "lock", Current(e)'
               PROVE  ~leases'[e.session].armed /\ leases'[e.session].left = 0
    BY DEF StaleExpiryIsHarmless
  <2>1. CASE e.session = s
    BY <1>3, <2>1
  <2>2. CASE e.session # s
    BY <1>1, <1>2, <1>4, <2>2 DEF LeaseInv, StaleExpiryIsHarmless, Current, Leased
  <2>3. QED
    BY <2>1, <2>2
<1>7. QED
  BY <1>5, <1>6 DEF LeaseInv

(* A goroutine that leaves the lock leaves no lease that needed it.        *)
LEMMA LeaseInvExpiry ==
  ASSUME LeaseInv, TypeOK', NEW x \in Stamps, ExpiryStep(x)
  PROVE  LeaseInv'
<1>0. PICK e \in expiries : ExpireLease(e) \/ ExpiryDrained(e) \/ ExpiryShutdown(e)
  BY DEF ExpiryStep
<1>1. \A f \in expiries' : f.pc = "lock" => f \in expiries
  BY <1>0 DEF ExpireLease, ExpiryDrained, ExpiryShutdown, Moved
<1>2. \A f \in expiries : f # e => f \in expiries'
  BY <1>0 DEF ExpireLease, ExpiryDrained, ExpiryShutdown
<1>3. \A t \in Leased' : t \in Leased /\ leases'[t] = leases[t]
  BY <1>0 DEF ExpireLease, ExpiryDrained, ExpiryShutdown, Leased, LeaseInv, TypeOK
<1>4. e.pc = "lock" => \A t \in Leased' : ~(e.session = t /\ e.stamp = leases[t].stamp)
  BY <1>0, <1>3 DEF ExpireLease, ExpiryDrained, ExpiryShutdown, Current, Leased,
     LeaseInv, TypeOK
<1>5. LeaseCanExpire'
  BY <1>2, <1>3, <1>4 DEF LeaseInv, LeaseCanExpire
<1>6. StaleExpiryIsHarmless'
  BY <1>1, <1>3 DEF LeaseInv, StaleExpiryIsHarmless, Current
<1>7. QED
  BY <1>5, <1>6 DEF LeaseInv

(* Time passes: stamps, armed timers and waiting goroutines stay.          *)
LEMMA LeaseInvTick ==
  ASSUME LeaseInv, TypeOK', Tick
  PROVE  LeaseInv'
<1>1. \A s \in Leased : /\ leases[s] \in Lease
                        /\ leases'[s] = [leases[s] EXCEPT !.left = Less(@)]
  BY DEF Tick, LeaseInv, TypeOK, Leased
<1>2. \A s \in Leased : /\ leases'[s] \in Lease
                        /\ leases'[s].stamp = leases[s].stamp
                        /\ leases'[s].armed = leases[s].armed
                        /\ leases[s].left = 0 => leases'[s].left = 0
  <2> SUFFICES ASSUME NEW s \in Leased
               PROVE  /\ leases'[s] \in Lease
                      /\ leases'[s].stamp = leases[s].stamp
                      /\ leases'[s].armed = leases[s].armed
                      /\ leases[s].left = 0 => leases'[s].left = 0
    OBVIOUS
  <2>1. leases'[s] = [leases[s] EXCEPT !.left = Less(leases[s].left)]
    BY <1>1
  <2>2. leases[s] \in Lease
    BY <1>1
  <2>3. /\ leases'[s].stamp = leases[s].stamp
        /\ leases'[s].armed = leases[s].armed
        /\ leases'[s].left = Less(leases[s].left)
    BY <2>1, <2>2 DEF Lease
  <2>4. Less(leases[s].left) \in 0..TTL
    BY <2>2, LessInRange, LeaseAssumption DEF Lease
  <2>5. leases'[s] \in Lease
    BY <2>1, <2>2, <2>4 DEF Lease
  <2>6. QED
    BY <2>3, <2>5 DEF Less
<1>3. Leased' = Leased
  BY <1>2, LeaseIsEntry DEF Tick, Leased
<1>4. \A e \in expiries : /\ [e EXCEPT !.left = Less(@)] \in expiries'
                          /\ [e EXCEPT !.left = Less(@)].session = e.session
                          /\ [e EXCEPT !.left = Less(@)].stamp = e.stamp
                          /\ [e EXCEPT !.left = Less(@)].pc = e.pc
  BY DEF Tick, LeaseInv, TypeOK, Expiry
<1>5. LeaseCanExpire'
  <2> SUFFICES ASSUME NEW s \in Leased, ~leases[s].armed
               PROVE  \E f \in expiries' : /\ f.pc = "lock"
                                           /\ f.session = s
                                           /\ f.stamp = leases[s].stamp
    BY <1>2, <1>3 DEF LeaseCanExpire
  <2>1. PICK e \in expiries : e.pc = "lock" /\ e.session = s /\ e.stamp = leases[s].stamp
    BY DEF LeaseInv, LeaseCanExpire
  <2>2. /\ [e EXCEPT !.left = Less(@)] \in expiries'
        /\ [e EXCEPT !.left = Less(@)].session = s
        /\ [e EXCEPT !.left = Less(@)].stamp = leases[s].stamp
        /\ [e EXCEPT !.left = Less(@)].pc = "lock"
    BY <1>4, <2>1
  <2>3. QED
    BY <2>2
<1>6. \A f \in expiries' : \E e \in expiries :
        f.session = e.session /\ f.stamp = e.stamp /\ f.pc = e.pc
  BY <1>4 DEF Tick
<1>7. StaleExpiryIsHarmless'
  <2> SUFFICES ASSUME NEW f \in expiries', f.pc = "lock", Current(f)'
               PROVE  ~leases'[f.session].armed /\ leases'[f.session].left = 0
    BY DEF StaleExpiryIsHarmless
  <2>1. PICK e \in expiries : f.session = e.session /\ f.stamp = e.stamp /\ f.pc = e.pc
    BY <1>6
  <2>2. Current(e)
    BY <1>2, <1>3, <2>1 DEF Current
  <2>3. QED
    BY <1>2, <2>1, <2>2 DEF LeaseInv, StaleExpiryIsHarmless, Current
<1>8. QED
  BY <1>5, <1>7 DEF LeaseInv

(* Every step of the runtime keeps the inductive invariant of the leases.  *)
LEMMA LeaseInvNext == LeaseInv /\ [Next]_vars => LeaseInv'
<1> SUFFICES ASSUME LeaseInv, [Next]_vars
             PROVE  LeaseInv'
  OBVIOUS
<1>0. TypeOK'
  BY TypeNext DEF LeaseInv
<1>1. ASSUME NEW h \in Handlers, NEW s \in Sessions, Request(h, s)
      PROVE  LeaseInv'
  BY <1>0, <1>1, LeaseInvFrame DEF Request, HeartbeatRequest, SessionCloseRequest,
     AnonymousCloseRequest, StopRequest, Accept
<1>2. ASSUME NEW h \in Handlers, HandlerStep(h)
      PROVE  LeaseInv'
  <2>1. CASE RenewLease(h)
    BY <1>0, <2>1, LeaseInvRenew
  <2>2. CASE RemoveLease(h)
    BY <1>0, <2>2, LeaseInvRemove
  <2>3. CASE CheckAttach(h) \/ RemoveTokens(h) \/ HandlerDrained(h) \/ HandlerShutdown(h)
    BY <1>0, <2>3, LeaseInvFrame DEF CheckAttach, RemoveTokens, HandlerDrained,
       HandlerShutdown
  <2>4. QED
    BY <1>2, <2>1, <2>2, <2>3 DEF HandlerStep
<1>3. CASE StartRequest \/ CacheToken \/ FinishRequest \/ UNCHANGED vars
  BY <1>0, <1>3, LeaseInvFrame DEF StartRequest, CacheToken, FinishRequest, vars
<1>4. QED
  BY <1>0, <1>1, <1>2, <1>3, LeaseInvTimer, LeaseInvExpiry, LeaseInvTick DEF Next

(* The lease map and the expiry goroutines stay consistent for ever: types,*)
(* a way to end for every lease, no matching goroutine before its time.    *)
THEOREM LeaseInvariant == Spec => []LeaseInv
<1>1. QED
  BY LeaseInvInit, LeaseInvNext, PTL DEF Spec

(* However renewals, expiries and closes interleave, no lease is ever left *)
(* without something that will end it.                                     *)
THEOREM EveryLeaseCanExpire == Spec => []LeaseCanExpire
<1>1. LeaseInv => LeaseCanExpire
  BY DEF LeaseInv
<1>2. QED
  BY <1>1, LeaseInvariant, PTL

(* A goroutine of an earlier timer never acts on a renewed lease.          *)
THEOREM NoStaleExpiry == Spec => []StaleExpiryIsHarmless
<1>1. LeaseInv => StaleExpiryIsHarmless
  BY DEF LeaseInv
<1>2. QED
  BY <1>1, LeaseInvariant, PTL

-----------------------------------------------------------------------------
(* What a single step may do to the leases.                                *)

EarlyExpiryStep ==
  \A s \in Sessions :
    s \in Leased /\ leases'[s] = NoLease =>
      \/ leases[s].left = 0
      \/ \E h \in Handlers : At(h, "remove") /\ handlers[h].session = s

(* No step takes a lease early: only expireLease and removeLease delete one.*)
LEMMA EarlyExpiryNext == LeaseInv /\ [Next]_vars => EarlyExpiryStep
<1> SUFFICES ASSUME LeaseInv, [Next]_vars,
                    NEW s \in Sessions, s \in Leased, leases'[s] = NoLease
             PROVE  \/ leases[s].left = 0
                    \/ \E h \in Handlers : At(h, "remove") /\ handlers[h].session = s
  BY DEF EarlyExpiryStep
<1>0. leases[s] \in Lease /\ leases[s] # NoLease
  BY DEF LeaseInv, TypeOK, Leased
<1>1. CASE leases' = leases
  BY <1>0, <1>1
<1>2. ASSUME NEW h \in Handlers, RenewLease(h), leases' # leases
      PROVE  FALSE
  <2>1. leases' = [leases EXCEPT ![handlers[h].session] = Renewed(handlers[h].session)]
    BY <1>2 DEF RenewLease
  <2>2. Renewed(handlers[h].session) \in Lease
    BY <1>2, NewStampFresh, LeaseAssumption DEF RenewLease, Renewed, Lease, LeaseInv
  <2>3. QED
    BY <1>0, <2>1, <2>2, LeaseIsEntry DEF LeaseInv, TypeOK
<1>3. ASSUME NEW h \in Handlers, RemoveLease(h)
      PROVE  At(h, "remove") /\ handlers[h].session = s
  BY <1>0, <1>3 DEF RemoveLease, LeaseInv, TypeOK
<1>4. ASSUME NEW t \in Sessions, TimerFires(t)
      PROVE  FALSE
  <2>1. /\ leases[t] \in Lease
        /\ leases' = [leases EXCEPT ![t].armed = FALSE]
    BY <1>4 DEF TimerFires, Leased, LeaseInv, TypeOK
  <2>2. [leases[t] EXCEPT !.armed = FALSE] \in Lease
    BY <2>1 DEF Lease
  <2>3. QED
    BY <1>0, <2>1, <2>2, LeaseIsEntry DEF LeaseInv, TypeOK
<1>5. ASSUME NEW e \in expiries, ExpireLease(e)
      PROVE  leases[s].left = 0
  <2>1. e.session = s /\ Current(e) /\ e.pc = "lock"
    BY <1>0, <1>5 DEF ExpireLease, LeaseInv, TypeOK
  <2>2. QED
    BY <2>1 DEF LeaseInv, StaleExpiryIsHarmless
<1>6. ASSUME Tick
      PROVE  FALSE
  <2>1. leases'[s] = [leases[s] EXCEPT !.left = Less(leases[s].left)]
    BY <1>6 DEF Tick
  <2>2. [leases[s] EXCEPT !.left = Less(leases[s].left)] \in Lease
    BY <1>0, LessInRange, LeaseAssumption DEF Lease
  <2>3. QED
    BY <2>1, <2>2, LeaseIsEntry
<1>7. ASSUME NEW h \in Handlers, HandlerStep(h), leases' # leases
      PROVE  RenewLease(h) \/ RemoveLease(h)
  BY <1>7 DEF HandlerStep, CheckAttach, RemoveTokens, HandlerDrained, HandlerShutdown
<1>8. ASSUME NEW x \in Stamps, ExpiryStep(x), leases' # leases
      PROVE  \E e \in expiries : ExpireLease(e)
  BY <1>8 DEF ExpiryStep, ExpiryDrained, ExpiryShutdown
<1>9. CASE leases' # leases
  BY <1>2, <1>3, <1>4, <1>5, <1>6, <1>7, <1>8, <1>9
     DEF Next, vars, Request, HeartbeatRequest, SessionCloseRequest,
         AnonymousCloseRequest, StopRequest, Accept, StartRequest, CacheToken,
         FinishRequest
<1>10. QED
  BY <1>1, <1>9

(* A session that is not closed keeps its lease for the whole TTL.         *)
THEOREM FullTTL == Spec => NoEarlyExpiry
<1>1. QED
  BY EarlyExpiryNext, LeaseInvariant, PTL DEF Spec, NoEarlyExpiry, EarlyExpiryStep

-----------------------------------------------------------------------------
(* How each step changes the set of leased sessions.                       *)

(* Only renewLease, removeLease and expireLease change who is attached.    *)
LEMMA LeasedSame ==
  ASSUME TypeOK,
         \/ leases' = leases
         \/ \E s \in Sessions : TimerFires(s)
         \/ Tick
  PROVE  Leased' = Leased
<1>1. CASE leases' = leases
  BY <1>1 DEF Leased
<1>2. ASSUME NEW s \in Sessions, TimerFires(s)
      PROVE  Leased' = Leased
  <2>1. /\ s \in Leased
        /\ leases[s] \in Lease
        /\ leases' = [leases EXCEPT ![s].armed = FALSE]
    BY <1>2 DEF TimerFires, Leased, TypeOK
  <2>2. [leases[s] EXCEPT !.armed = FALSE] \in Lease
    BY <2>1 DEF Lease
  <2>3. QED
    BY <2>1, <2>2, LeaseIsEntry DEF Leased, TypeOK
<1>3. CASE Tick
  <2>1. \A s \in Leased : /\ leases[s] \in Lease
                          /\ leases'[s] = [leases[s] EXCEPT !.left = Less(leases[s].left)]
    BY <1>3 DEF Tick, Leased, TypeOK
  <2>2. \A s \in Leased : [leases[s] EXCEPT !.left = Less(leases[s].left)] \in Lease
    BY <2>1, LessInRange, LeaseAssumption DEF Lease
  <2>3. QED
    BY <1>3, <2>1, <2>2, LeaseIsEntry DEF Tick, Leased
<1>4. QED
  BY <1>1, <1>2, <1>3

(* renewLease attaches its session and no other.                           *)
LEMMA LeasedRenew ==
  ASSUME TypeOK, NEW h \in Handlers, RenewLease(h)
  PROVE  \/ Leased' = Leased
         \/ /\ handlers[h].session \in Sessions
            /\ Leased' = Leased \cup {handlers[h].session}
<1> DEFINE s == handlers[h].session
<1>1. CASE leases' = leases
  BY <1>1 DEF Leased
<1>2. CASE leases' # leases
  <2>1. /\ leases' = [leases EXCEPT ![s] = Renewed(s)]
        /\ Renewed(s) \in Lease
    BY <1>2, NewStampFresh, LeaseAssumption DEF RenewLease, Renewed, Lease
  <2>2. s \in Sessions
    BY <1>2, <2>1 DEF TypeOK
  <2>3. QED
    BY <2>1, <2>2, LeaseIsEntry DEF Leased, TypeOK
<1>3. QED
  BY <1>1, <1>2

(* removeLease detaches its session and no other.                          *)
LEMMA LeasedRemove ==
  ASSUME TypeOK, NEW h \in Handlers, RemoveLease(h)
  PROVE  Leased' = Leased \ {handlers[h].session}
BY DEF RemoveLease, Leased, TypeOK

(* expireLease detaches its session at most.                               *)
LEMMA LeasedExpire ==
  ASSUME TypeOK, NEW e \in expiries, ExpireLease(e)
  PROVE  Leased' = IF Current(e) THEN Leased \ {e.session} ELSE Leased
BY DEF ExpireLease, Current, Leased, TypeOK

(* The leases change only under leaseMu or with time.                      *)
LEMMA StepCases ==
  ASSUME [Next]_vars
  PROVE  \/ leases' = leases
         \/ \E h \in Handlers : RenewLease(h) \/ RemoveLease(h)
         \/ \E e \in expiries : ExpireLease(e)
         \/ \E s \in Sessions : TimerFires(s)
         \/ Tick
BY DEF Next, vars, Request, HeartbeatRequest, SessionCloseRequest,
   AnonymousCloseRequest, StopRequest, Accept, StartRequest, CacheToken, FinishRequest,
   HandlerStep, CheckAttach, RemoveTokens, HandlerDrained, HandlerShutdown,
   ExpiryStep, ExpiryDrained, ExpiryShutdown

-----------------------------------------------------------------------------
LastLeaseStep ==
  AutoShutdown /\ Leased # {} /\ Leased' = {} =>
    \/ \E h \in Handlers : handlers'[h].pc = "drain"
    \/ \E e \in expiries' : e.pc = "drain"

(* The step that takes the last lease commits a goroutine to the shutdown. *)
LEMMA LastLeaseNext == TypeOK /\ [Next]_vars => LastLeaseStep
<1> SUFFICES ASSUME TypeOK, [Next]_vars, AutoShutdown, Leased # {}, Leased' = {}
             PROVE  \/ \E h \in Handlers : handlers'[h].pc = "drain"
                    \/ \E e \in expiries' : e.pc = "drain"
  BY DEF LastLeaseStep
<1>1. ASSUME NEW h \in Handlers, RemoveLease(h)
      PROVE  handlers'[h].pc = "drain"
  <2>1. LastOwner(handlers[h].session)
    BY <1>1, LeasedRemove DEF LastOwner
  <2>2. QED
    BY <1>1, <2>1 DEF RemoveLease, BeginDrain, MoveTo, TypeOK
<1>2. ASSUME NEW e \in expiries, ExpireLease(e)
      PROVE  \E f \in expiries' : f.pc = "drain"
  <2>1. Current(e) /\ LastOwner(e.session)
    BY <1>2, LeasedExpire DEF LastOwner
  <2>2. /\ Moved(e, "drain", Grace) \in expiries'
        /\ Moved(e, "drain", Grace).pc = "drain"
    BY <1>2, <2>1 DEF ExpireLease, Moved
  <2>3. QED
    BY <2>2
<1>3. ASSUME NEW h \in Handlers, RenewLease(h)
      PROVE  FALSE
  BY <1>3, LeasedRenew
<1>4. CASE leases' = leases \/ Tick \/ \E s \in Sessions : TimerFires(s)
  BY <1>4, LeasedSame
<1>5. QED
  BY <1>1, <1>2, <1>3, <1>4, StepCases

(* The step that ends the last lease commits a goroutine to the shutdown.  *)
THEOREM LastLeaseCommits == Spec => LastLeaseEndsRuntime
<1>1. QED
  BY LastLeaseNext, TypeInvariant, PTL DEF Spec, LastLeaseEndsRuntime, LastLeaseStep

-----------------------------------------------------------------------------
(* An exclusive runtime has one owner as long as management requests are   *)
(* served one at a time.  The hypothesis is needed: canAttachSession and   *)
(* renewLease do not hold leaseMu together.                                *)

ExclusiveInv ==
  /\ TypeOK
  /\ ExclusiveOwner
  /\ ShareMode = "exclusive" =>
       \A h \in Handlers : At(h, "renew") => Leased \subseteq {handlers[h].session}

(* With one management request at a time, an exclusive owner stays alone   *)
(* between canAttachSession and renewLease.                                *)
LEMMA ExclusiveNext ==
  ASSUME \A h, g \in Handlers : h = g
  PROVE  ExclusiveInv /\ [Next]_vars => ExclusiveInv'
<1> SUFFICES ASSUME ExclusiveInv, [Next]_vars
             PROVE  ExclusiveInv'
  OBVIOUS
<1>0. TypeOK /\ TypeOK'
  BY TypeNext DEF ExclusiveInv
<1>1. CASE ShareMode # "exclusive"
  BY <1>0, <1>1 DEF ExclusiveInv, ExclusiveOwner
<1>2. CASE ShareMode = "exclusive"
  <2>1. CASE \E h \in Handlers : RenewLease(h)
    <3>1. PICK h \in Handlers : RenewLease(h)
      BY <2>1
    <3>2. Leased \subseteq {handlers[h].session}
      BY <1>2, <3>1 DEF ExclusiveInv, RenewLease
    <3>3. Leased' \subseteq {handlers[h].session}
      BY <1>0, <3>1, <3>2, LeasedRenew
    <3>4. \A g \in Handlers : ~At(g, "renew")'
      BY <1>0, <3>1 DEF RenewLease, Return, Idle, At, TypeOK
    <3>5. QED
      BY <1>0, <3>3, <3>4 DEF ExclusiveInv, ExclusiveOwner
  <2>2. CASE ~\E h \in Handlers : RenewLease(h)
    <3>1. Leased' \subseteq Leased
      BY <1>0, <2>2, StepCases, LeasedSame, LeasedRemove, LeasedExpire
    <3>2. \A h \in Handlers : At(h, "renew")' =>
            \/ At(h, "renew") /\ handlers'[h].session = handlers[h].session
            \/ CheckAttach(h) /\ CanAttachSession(handlers[h].session)
               /\ handlers'[h].session = handlers[h].session
      <4> SUFFICES ASSUME NEW h \in Handlers, At(h, "renew")'
                   PROVE  \/ At(h, "renew") /\ handlers'[h].session = handlers[h].session
                          \/ CheckAttach(h) /\ CanAttachSession(handlers[h].session)
                             /\ handlers'[h].session = handlers[h].session
        OBVIOUS
      <4>1. CASE handlers' = handlers
        BY <4>1 DEF At
      <4>2. ASSUME NEW g \in Handlers, NEW s \in Sessions, Request(g, s)
            PROVE  At(h, "renew") /\ handlers'[h].session = handlers[h].session
        BY <1>0, <4>2 DEF Request, HeartbeatRequest, SessionCloseRequest,
           AnonymousCloseRequest, StopRequest, Accept, At, TypeOK
      <4>3. ASSUME NEW g \in Handlers, HandlerStep(g)
            PROVE  \/ At(h, "renew") /\ handlers'[h].session = handlers[h].session
                   \/ CheckAttach(h) /\ CanAttachSession(handlers[h].session)
                      /\ handlers'[h].session = handlers[h].session
        BY <1>0, <2>2, <4>3 DEF HandlerStep, CheckAttach, RemoveLease, RemoveTokens,
           HandlerDrained, HandlerShutdown, Return, Goto, BeginDrain, MoveTo, Idle, At,
           TypeOK
      <4>4. CASE Tick
        <5>1. handlers[h] \in Handler
          BY <1>0 DEF TypeOK
        <5>2. handlers'[h] = [handlers[h] EXCEPT !.left = Less(handlers[h].left)]
          BY <4>4 DEF Tick
        <5>3. QED
          BY <5>1, <5>2 DEF At, Handler
      <4>5. QED
        BY <4>1, <4>2, <4>3, <4>4 DEF Next, vars, TimerFires, ExpiryStep, ExpireLease,
           ExpiryDrained, ExpiryShutdown, StartRequest, CacheToken, FinishRequest
    <3>3. \A h \in Handlers : At(h, "renew")' => Leased' \subseteq {handlers'[h].session}
      BY <1>2, <3>1, <3>2 DEF ExclusiveInv, CanAttachSession
    <3>4. QED
      BY <1>0, <3>1, <3>3 DEF ExclusiveInv, ExclusiveOwner
  <2>3. QED
    BY <2>1, <2>2
<1>3. QED
  BY <1>1, <1>2

(* An exclusive runtime that serves its management requests one at a time  *)
(* never has two owners; the hypothesis is what server.go does not ensure. *)
THEOREM SerialRequestsExclusive ==
  ASSUME \A h, g \in Handlers : h = g
  PROVE  Spec => []ExclusiveOwner
<1>1. Init => ExclusiveInv
  BY TypeInit DEF Init, ExclusiveInv, ExclusiveOwner, Leased, Idle, At
<1>2. ExclusiveInv /\ [Next]_vars => ExclusiveInv'
  BY ExclusiveNext
<1>3. ExclusiveInv => ExclusiveOwner
  BY DEF ExclusiveInv
<1>4. QED
  BY <1>1, <1>2, <1>3, PTL DEF Spec

-----------------------------------------------------------------------------
(* Refinement.  The lease code implements LeaseContract, its safety part:  *)
(* every step of the runtime is a step of the contract on who is attached  *)
(* and how far the runtime is from its end, or changes neither.  The       *)
(* fairness of the contract is left to the runs.                           *)

MappedStep ==
  Contract!ContractNext \/ UNCHANGED <<Leased, phaseOf>>

(* Three phases: expireLease and removeLease begin the end, the hook ends. *)
LEMMA PhaseCases ==
  /\ phaseOf = "closed" <=> ~httpOpen
  /\ phaseOf = "doomed" <=> httpOpen /\ Doomed
  /\ phaseOf = "open" <=> httpOpen /\ ~Doomed
BY DEF phaseOf

(* The phase depends on httpOpen and Doomed only.                          *)
LEMMA PhaseSame ==
  ASSUME httpOpen' = httpOpen, Doomed' <=> Doomed
  PROVE  phaseOf' = phaseOf
BY DEF phaseOf

(* Steps that keep the leases, the goroutines and httpOpen: nothing shows. *)
LEMMA QuietStep ==
  ASSUME leases' = leases, handlers' = handlers, expiries' = expiries, httpOpen' = httpOpen
  PROVE  UNCHANGED <<Leased, phaseOf>>
BY DEF Leased, phaseOf, Doomed

(* A handler that moves between positions that do not doom the runtime.    *)
LEMMA HandlerMoves ==
  ASSUME TypeOK, NEW h \in Handlers, NEW next \in Handler,
         handlers' = [handlers EXCEPT ![h] = next],
         handlers[h].pc \in {"drain", "hook", "stop"} <=> next.pc \in {"drain", "hook", "stop"},
         expiries' = expiries, httpOpen' = httpOpen
  PROVE  phaseOf' = phaseOf
<1>1. \A g \in Handlers : handlers'[g] = IF g = h THEN next ELSE handlers[g]
  BY DEF TypeOK
<1>2. Doomed' <=> Doomed
  BY <1>1 DEF Doomed
<1>3. QED
  BY <1>2, PhaseSame

(* A heartbeat or a close begins: nothing shows.  A stop dooms the runtime *)
(* (handleRuntimeStop).                                                    *)
LEMMA RequestMaps ==
  ASSUME TypeOK, NEW h \in Handlers, NEW s \in Sessions, Request(h, s)
  PROVE  MappedStep
<1>1. leases' = leases /\ expiries' = expiries /\ httpOpen' = httpOpen /\ httpOpen
      /\ At(h, "idle")
  BY DEF Request, HeartbeatRequest, SessionCloseRequest, AnonymousCloseRequest,
         StopRequest, Accept
<1>2. Leased' = Leased
  BY <1>1 DEF Leased
<1>3. ASSUME NEW pc \in {"attach", "remove", "wipe"}, Accept(h, s, pc)
      PROVE  MappedStep
  <2>1. [pc |-> pc, session |-> s, left |-> 0] \in Handler
    BY LeaseAssumption DEF Handler, HandlerPCs
  <2>2. phaseOf' = phaseOf
    BY <1>1, <1>3, <2>1, HandlerMoves DEF Accept, At
  <2>3. QED
    BY <1>2, <2>2 DEF MappedStep
<1>4. CASE StopRequest(h, s)
  <2>1. Doomed'
    <3>1. handlers'[h].pc = "stop"
      BY <1>4 DEF StopRequest, Accept, TypeOK
    <3>2. QED
      BY <3>1 DEF Doomed
  <2>2. phaseOf' = "doomed"
    BY <1>1, <2>1 DEF phaseOf
  <2>3. phaseOf = "open" \/ phaseOf = "doomed"
    BY <1>1 DEF phaseOf
  <2>4. CASE phaseOf = "doomed"
    BY <1>2, <2>2, <2>4 DEF MappedStep
  <2>5. CASE phaseOf = "open"
    <3>1. HasShutdownHook
      BY <1>4 DEF StopRequest
    <3>2. Contract!Stop
      BY <1>2, <2>2, <2>5, <3>1 DEF Contract!Stop
    <3>3. QED
      BY <3>2 DEF MappedStep, Contract!ContractNext
  <2>6. QED
    BY <2>3, <2>4, <2>5
<1>5. QED
  BY <1>3, <1>4 DEF Request, HeartbeatRequest, SessionCloseRequest, AnonymousCloseRequest

(* A lease is deleted: the contract's Detach, which dooms an open runtime  *)
(* that belongs to its sessions when the lease is the last.                *)
LEMMA DetachMaps ==
  ASSUME NEW s \in Sessions, s \in Leased, Leased' = Leased \ {s}, httpOpen' = httpOpen,
         IF LastOwner(s) THEN Doomed' ELSE Doomed' <=> Doomed
  PROVE  Contract!Detach(s)
<1>1. CASE LastOwner(s)
  <2>1. AutoShutdown /\ Leased = {s}
    BY <1>1 DEF LastOwner
  <2>2. phaseOf' = IF phaseOf = "open" THEN "doomed" ELSE phaseOf
    BY <1>1 DEF phaseOf
  <2>3. QED
    BY <2>1, <2>2 DEF Contract!Detach
<1>2. CASE ~LastOwner(s)
  <2>1. phaseOf' = phaseOf
    BY <1>2, PhaseSame
  <2>2. ~(AutoShutdown /\ Leased = {s})
    BY <1>2 DEF LastOwner
  <2>3. QED
    BY <2>1, <2>2 DEF Contract!Detach
<1>3. QED
  BY <1>1, <1>2

(* Each step of a request's goroutine.                                     *)
LEMMA HandlerStepMaps ==
  ASSUME TypeOK, NEW h \in Handlers, HandlerStep(h)
  PROVE  MappedStep
<1> DEFINE s == handlers[h].session
           Ends == {"drain", "hook", "stop"}
<1>0. /\ handlers[h] \in Handler
      /\ \A pc \in HandlerPCs, left \in 0..Grace :
           [pc |-> pc, session |-> s, left |-> left] \in Handler
      /\ Idle \in Handler
      /\ 0 \in 0..Grace
      /\ Grace \in 0..Grace
  BY LeaseAssumption DEF TypeOK, Handler, Idle, HandlerPCs
<1>1. CASE CheckAttach(h)
  <2>1. leases' = leases /\ expiries' = expiries /\ httpOpen' = httpOpen /\ At(h, "attach")
    BY <1>1 DEF CheckAttach
  <2>2. PICK next \in Handler :
          next.pc \notin Ends /\ handlers' = [handlers EXCEPT ![h] = next]
    <3>1. [pc |-> "renew", session |-> s, left |-> 0] \in Handler
      BY <1>0 DEF HandlerPCs
    <3>2. QED
      BY <1>0, <1>1, <3>1 DEF CheckAttach, Goto, MoveTo, Return, Idle
  <2>3. phaseOf' = phaseOf
    BY <2>1, <2>2, HandlerMoves DEF At
  <2>4. QED
    BY <2>1, <2>3 DEF MappedStep, Leased
<1>2. CASE RenewLease(h)
  <2>1. expiries' = expiries /\ httpOpen' = httpOpen /\ At(h, "renew") /\ Return(h)
    BY <1>2 DEF RenewLease
  <2>2. phaseOf' = phaseOf
    BY <1>0, <2>1, HandlerMoves DEF At, Return, Idle
  <2>3. CASE Leased' = Leased
    BY <2>2, <2>3 DEF MappedStep
  <2>4. CASE s \in Sessions /\ Leased' = Leased \cup {s}
    BY <2>2, <2>4 DEF MappedStep, Contract!ContractNext, Contract!Attach
  <2>5. QED
    BY <1>2, <2>3, <2>4, LeasedRenew
<1>3. CASE RemoveLease(h)
  <2>1. expiries' = expiries /\ httpOpen' = httpOpen /\ At(h, "remove")
    BY <1>3 DEF RemoveLease
  <2>2. Leased' = Leased \ {s}
    BY <1>3, LeasedRemove
  <2>3. ~LastOwner(s) => phaseOf' = phaseOf
    <3>1. [pc |-> "wipe", session |-> s, left |-> 0] \in Handler
      BY <1>0 DEF HandlerPCs
    <3>2. QED
      BY <1>3, <2>1, <3>1, HandlerMoves DEF RemoveLease, Goto, MoveTo, At
  <2>4. ~LastOwner(s) => (Doomed' <=> Doomed)
    <3>1. \A g \in Handlers : ~LastOwner(s) =>
            (handlers'[g].pc \in Ends <=> handlers[g].pc \in Ends)
      BY <1>3, <2>1 DEF RemoveLease, Goto, MoveTo, At, TypeOK
    <3>2. QED
      BY <2>1, <3>1 DEF Doomed
  <2>5. LastOwner(s) => Doomed'
    <3>1. LastOwner(s) => handlers'[h].pc = "drain"
      BY <1>3 DEF RemoveLease, BeginDrain, MoveTo, TypeOK
    <3>2. QED
      BY <3>1 DEF Doomed
  <2>6. CASE s \in Leased
    <3>1. s \in Sessions
      BY <2>6 DEF Leased
    <3>2. Contract!Detach(s)
      BY <2>1, <2>2, <2>4, <2>5, <2>6, <3>1, DetachMaps
    <3>3. QED
      BY <3>1, <3>2 DEF MappedStep, Contract!ContractNext
  <2>7. CASE s \notin Leased
    <3>1. ~LastOwner(s)
      BY <2>7 DEF LastOwner
    <3>2. QED
      BY <2>2, <2>3, <2>7, <3>1 DEF MappedStep
  <2>8. QED
    BY <2>6, <2>7
<1>4. CASE RemoveTokens(h)
  <2>1. /\ leases' = leases /\ expiries' = expiries /\ httpOpen' = httpOpen
        /\ handlers[h].pc \in {"wipe", "wipeLast"} /\ Return(h)
    BY <1>4 DEF RemoveTokens
  <2>2. phaseOf' = phaseOf
    BY <1>0, <2>1, HandlerMoves DEF Return, Idle
  <2>3. QED
    BY <2>1, <2>2 DEF MappedStep, Leased
<1>5. CASE HandlerDrained(h)
  <2>1. leases' = leases /\ expiries' = expiries /\ httpOpen' = httpOpen /\ At(h, "drain")
        /\ Goto(h, "hook")
    BY <1>5 DEF HandlerDrained
  <2>2. [pc |-> "hook", session |-> s, left |-> 0] \in Handler
    BY <1>0 DEF HandlerPCs
  <2>3. phaseOf' = phaseOf
    BY <2>1, <2>2, HandlerMoves DEF Goto, MoveTo, At
  <2>4. QED
    BY <2>1, <2>3 DEF MappedStep, Leased
<1>6. CASE HandlerShutdown(h)
  <2>1. leases' = leases /\ httpOpen' = FALSE /\ handlers[h].pc \in {"hook", "stop"}
    BY <1>6 DEF HandlerShutdown
  <2>2. Leased' = Leased /\ phaseOf' = "closed"
    BY <2>1 DEF Leased, phaseOf
  <2>3. phaseOf = "doomed" \/ phaseOf = "closed"
    BY <2>1 DEF phaseOf, Doomed
  <2>4. QED
    BY <2>2, <2>3 DEF MappedStep, Contract!ContractNext, Contract!Terminate
<1>7. QED
  BY <1>1, <1>2, <1>3, <1>4, <1>5, <1>6 DEF HandlerStep
(* A timer fires: its goroutine is not doomed yet.                         *)
LEMMA TimerMaps ==
  ASSUME TypeOK, NEW s \in Sessions, TimerFires(s)
  PROVE  MappedStep
<1>1. Leased' = Leased
  BY LeasedSame
<1>2. handlers' = handlers /\ httpOpen' = httpOpen
  BY DEF TimerFires
<1>3. Doomed' <=> Doomed
  <2>1. expiries' = expiries \cup
          {[session |-> s, stamp |-> leases[s].stamp, pc |-> "lock", left |-> 0]}
    BY DEF TimerFires
  <2>2. (\E e \in expiries' : e.pc \in {"drain", "hook"})
          <=> \E e \in expiries : e.pc \in {"drain", "hook"}
    BY <2>1
  <2>3. QED
    BY <1>2, <2>2 DEF Doomed
<1>4. QED
  BY <1>1, <1>2, <1>3, PhaseSame DEF MappedStep

(* Each step of an expireLease goroutine.                                  *)
LEMMA ExpiryStepMaps ==
  ASSUME TypeOK, NEW x \in Stamps, ExpiryStep(x)
  PROVE  MappedStep
<1> DEFINE Ends == {"drain", "hook"}
<1>0. PICK e \in expiries : ExpireLease(e) \/ ExpiryDrained(e) \/ ExpiryShutdown(e)
  BY DEF ExpiryStep
<1>1. CASE ExpireLease(e)
  <2>1. handlers' = handlers /\ httpOpen' = httpOpen /\ e.pc = "lock"
    BY <1>1 DEF ExpireLease
  <2>2. CASE Current(e)
    <3>1. e.session \in Sessions /\ e.session \in Leased
      BY <2>2 DEF Current, Leased
    <3>2. Leased' = Leased \ {e.session}
      BY <1>1, <2>2, LeasedExpire
    <3>3. LastOwner(e.session) => Doomed'
      <4>1. LastOwner(e.session) => Moved(e, "drain", Grace) \in expiries'
        BY <1>1, <2>2 DEF ExpireLease
      <4>2. Moved(e, "drain", Grace).pc = "drain"
        BY DEF Moved
      <4>3. QED
        BY <4>1, <4>2 DEF Doomed
    <3>4. ~LastOwner(e.session) => (Doomed' <=> Doomed)
      <4>1. ~LastOwner(e.session) => expiries' = expiries \ {e}
        BY <1>1 DEF ExpireLease
      <4>2. QED
        BY <2>1, <4>1 DEF Doomed
    <3>5. Contract!Detach(e.session)
      BY <2>1, <3>1, <3>2, <3>3, <3>4, DetachMaps
    <3>6. QED
      BY <3>1, <3>5 DEF MappedStep, Contract!ContractNext
  <2>3. CASE ~Current(e)
    <3>1. Leased' = Leased /\ expiries' = expiries \ {e}
      BY <1>1, <2>3, LeasedExpire DEF ExpireLease
    <3>2. Doomed' <=> Doomed
      BY <2>1, <3>1 DEF Doomed
    <3>3. QED
      BY <2>1, <3>1, <3>2, PhaseSame DEF MappedStep
  <2>4. QED
    BY <2>2, <2>3
<1>2. CASE ExpiryDrained(e)
  <2>1. /\ leases' = leases /\ handlers' = handlers /\ httpOpen' = httpOpen
        /\ e.pc = "drain"
        /\ expiries' = (expiries \ {e}) \cup {Moved(e, "hook", 0)}
    BY <1>2 DEF ExpiryDrained
  <2>2. Moved(e, "hook", 0).pc = "hook"
    BY DEF Moved
  <2>3. Doomed /\ Doomed'
    BY <2>1, <2>2 DEF Doomed
  <2>4. QED
    BY <2>1, <2>3, PhaseSame DEF MappedStep, Leased
<1>3. CASE ExpiryShutdown(e)
  <2>1. leases' = leases /\ httpOpen' = FALSE /\ e.pc = "hook"
    BY <1>3 DEF ExpiryShutdown
  <2>2. Leased' = Leased /\ phaseOf' = "closed"
    BY <2>1 DEF Leased, phaseOf
  <2>3. phaseOf = "doomed" \/ phaseOf = "closed"
    BY <2>1 DEF phaseOf, Doomed
  <2>4. QED
    BY <2>2, <2>3 DEF MappedStep, Contract!ContractNext, Contract!Terminate
<1>4. QED
  BY <1>0, <1>1, <1>2, <1>3

(* Time shows in nothing the contract speaks of.                           *)
LEMMA TickMaps ==
  ASSUME TypeOK, Tick
  PROVE  MappedStep
<1>1. Leased' = Leased
  BY LeasedSame
<1>2. httpOpen' = httpOpen
  BY DEF Tick
<1>3. \A h \in Handlers : handlers'[h].pc = handlers[h].pc
  BY DEF Tick, TypeOK, Handler
<1>4. (\E e \in expiries' : e.pc \in {"drain", "hook"})
        <=> \E e \in expiries : e.pc \in {"drain", "hook"}
  <2>1. \A e \in expiries : [e EXCEPT !.left = Less(@)].pc = e.pc
    BY DEF TypeOK, Expiry
  <2>2. expiries' = {[e EXCEPT !.left = Less(@)] : e \in expiries}
    BY DEF Tick
  <2>3. QED
    BY <2>1, <2>2
<1>5. Doomed' <=> Doomed
  BY <1>3, <1>4 DEF Doomed
<1>6. QED
  BY <1>1, <1>2, <1>5, PhaseSame DEF MappedStep

(* Every step of the runtime is a step of the contract or does not show.   *)
LEMMA StepMaps == TypeOK /\ [Next]_vars => [Contract!ContractNext]_(Contract!contractVars)
<1> SUFFICES ASSUME TypeOK, [Next]_vars
             PROVE  MappedStep
  BY DEF MappedStep, Contract!contractVars
<1>1. CASE StartRequest \/ CacheToken \/ FinishRequest \/ UNCHANGED vars
  BY <1>1, QuietStep DEF StartRequest, CacheToken, FinishRequest, vars, MappedStep
<1>2. QED
  BY <1>1, RequestMaps, HandlerStepMaps, TimerMaps, ExpiryStepMaps, TickMaps DEF Next

(* The lease code of server.go implements the contract: sessions come and  *)
(* go one at a time, and the runtime ends only on a stop or, when it       *)
(* belongs to its sessions, with the last of them, and never opens again.  *)
THEOREM ImplementsContractSafety == Spec => Contract!ContractSafety
<1>1. Init => Contract!ContractInit
  BY DEF Init, Contract!ContractInit, Leased, phaseOf, Doomed, Idle
<1>2. QED
  BY <1>1, StepMaps, TypeInvariant, PTL DEF Spec, Contract!ContractSafety

-----------------------------------------------------------------------------
(* The process.  LifecycleInv follows the clean-up under the Once: who has *)
(* returned from it found it done, runtime.json goes in its last step, and *)
(* from the step after the first the server is closed, for nothing opens   *)
(* it again.                                                               *)

PastHTTP == {"leases", "processes", "file", "done"}

LifecycleInv ==
  /\ ProcessTypeOK
  /\ \A c \in Callers : caller[c] = "returned" => once = "done"
  /\ once = "done" <=> ~runtimeFile
  /\ once \in PastHTTP => ~httpOpen

(* A closed http.Server stays closed, whatever its goroutines still do.    *)
LEMMA ClosedStaysClosed ==
  ASSUME Next, ~httpOpen
  PROVE  ~httpOpen'
BY DEF Next, Request, HeartbeatRequest, SessionCloseRequest, AnonymousCloseRequest,
   StopRequest, Accept, HandlerStep, CheckAttach, RenewLease, RemoveLease, RemoveTokens,
   HandlerDrained, HandlerShutdown, TimerFires, ExpiryStep, ExpireLease, ExpiryDrained,
   ExpiryShutdown, StartRequest, CacheToken, FinishRequest, Tick

(* What the server does after the clean-up began is still a server step,   *)
(* so each step keeps the types: of the process's own, only ClearLeases    *)
(* (CloseWithContext) touches the leases.                                  *)
LEMMA ProcessTypeNext ==
  ASSUME ProcessTypeOK, [ProcessNext]_allVars
  PROVE  ProcessTypeOK'
<1>1. CASE ServerStep
  BY <1>1, TypeNext DEF ProcessTypeOK, ServerStep, lifecycleVars
<1>2. ASSUME vars' = vars PROVE TypeOK'
  BY <1>2, TypeNext DEF ProcessTypeOK
<1>3. ASSUME NEW c \in Callers, Call(c) PROVE ProcessTypeOK'
  BY <1>2, <1>3 DEF ProcessTypeOK, Call, CallerPCs
<1>4. ASSUME NEW c \in Callers, OnceTaken(c) \/ OnceReturns(c) PROVE ProcessTypeOK'
  BY <1>2, <1>4 DEF ProcessTypeOK, OnceTaken, OnceReturns, CallerPCs, OnceSteps
<1>5. CASE CloseHTTP
  BY <1>5 DEF CloseHTTP, ProcessTypeOK, TypeOK, OnceSteps
<1>6. CASE ClearLeases
  BY <1>6 DEF ClearLeases, ProcessTypeOK, TypeOK, OnceSteps
<1>7. CASE StopProcesses \/ RemoveRuntimeFile \/ Kill
  BY <1>2, <1>7 DEF StopProcesses, RemoveRuntimeFile, Kill, ProcessTypeOK, OnceSteps
<1>8. CASE UNCHANGED allVars
  BY <1>2, <1>8 DEF allVars, vars, ProcessTypeOK
<1>9. QED
  BY <1>1, <1>3, <1>4, <1>5, <1>6, <1>7, <1>8
     DEF ProcessNext, SignalArrives, ServeReturns, ServeFails, CleanUp, Callers

LEMMA LifecycleInit == ProcessInit => LifecycleInv
BY TypeInit DEF ProcessInit, LifecycleInv, ProcessTypeOK, CallerPCs, OnceSteps, PastHTTP

LEMMA LifecycleNext == LifecycleInv /\ [ProcessNext]_allVars => LifecycleInv'
<1> SUFFICES ASSUME LifecycleInv, [ProcessNext]_allVars
             PROVE  LifecycleInv'
  OBVIOUS
<1>1. ProcessTypeOK'
  BY ProcessTypeNext DEF LifecycleInv
<1>2. CASE ServerStep
  <2>1. ~httpOpen => ~httpOpen'
    BY <1>2, ClosedStaysClosed DEF ServerStep
  <2>2. QED
    BY <1>1, <1>2, <2>1 DEF ServerStep, lifecycleVars, LifecycleInv
<1>3. ASSUME NEW c \in Callers, Call(c) PROVE LifecycleInv'
  BY <1>1, <1>3 DEF LifecycleInv, ProcessTypeOK, Call, vars
<1>4. ASSUME NEW c \in Callers, OnceTaken(c) PROVE LifecycleInv'
  BY <1>1, <1>4 DEF LifecycleInv, OnceTaken, vars, PastHTTP
<1>5. ASSUME NEW c \in Callers, OnceReturns(c) PROVE LifecycleInv'
  BY <1>1, <1>5 DEF LifecycleInv, ProcessTypeOK, OnceReturns, vars
<1>6. CASE CleanUp
  BY <1>1, <1>6 DEF CleanUp, CloseHTTP, ClearLeases, StopProcesses, RemoveRuntimeFile,
     LifecycleInv, PastHTTP, vars
<1>7. CASE Kill \/ UNCHANGED allVars
  BY <1>1, <1>7 DEF Kill, allVars, vars, LifecycleInv
<1>8. QED
  BY <1>2, <1>3, <1>4, <1>5, <1>6, <1>7
     DEF ProcessNext, SignalArrives, ServeReturns, ServeFails, Callers

(* The state of the process keeps its type (main.go around the server).    *)
THEOREM ProcessTypeInvariant == ProcessSpec => []ProcessTypeOK
<1>1. LifecycleInv => ProcessTypeOK
  BY DEF LifecycleInv
<1>2. QED
  BY <1>1, LifecycleInit, LifecycleNext, PTL DEF ProcessSpec

(* A process that exits by itself has finished its clean-up, whichever of  *)
(* main and the signal goroutine ran it (shutdownOnce).                    *)
THEOREM ExitsAreClean == ProcessSpec => []ExitIsClean
<1>1. LifecycleInv => ExitIsClean
  BY DEF LifecycleInv, ExitIsClean, Exited, Callers
<1>2. QED
  BY <1>1, LifecycleInit, LifecycleNext, PTL DEF ProcessSpec

(* runtime.json is withdrawn only by a process that no longer serves.      *)
THEOREM WithdrawnIsClosed == ProcessSpec => []UnadvertisedIsClosed
<1>1. LifecycleInv => UnadvertisedIsClosed
  BY DEF LifecycleInv, UnadvertisedIsClosed, PastHTTP
<1>2. QED
  BY <1>1, LifecycleInit, LifecycleNext, PTL DEF ProcessSpec

(* The clean-up of CloseWithContext, which drops the leases under handlers *)
(* and timers that are running, keeps what the leases owe each other.      *)
LEMMA LeaseInvClear ==
  ASSUME LeaseInv, ClearLeases
  PROVE  LeaseInv'
<1>1. Leased' = {}
  BY DEF ClearLeases, Leased
<1>2. TypeOK'
  BY DEF ClearLeases, LeaseInv, TypeOK
<1>3. QED
  BY <1>1, <1>2 DEF LeaseInv, LeaseCanExpire, StaleExpiryIsHarmless, Current

(* In the whole process, its exit included, every lease can expire and no  *)
(* goroutine of an older timer matches a renewed lease: a heartbeat that   *)
(* renews after the leases were dropped is no exception.                   *)
THEOREM LeasesOfTheProcess ==
  ProcessSpec => [](LeaseCanExpire /\ StaleExpiryIsHarmless)
<1>1. ProcessInit => LeaseInv
  BY LeaseInvInit DEF ProcessInit
<1>2. LeaseInv /\ [ProcessNext]_allVars => LeaseInv'
  <2> SUFFICES ASSUME LeaseInv, [ProcessNext]_allVars
               PROVE  LeaseInv'
    OBVIOUS
  <2>1. CASE ServerStep
    BY <2>1, LeaseInvNext DEF ServerStep
  <2>2. CASE ClearLeases
    BY <2>2, LeaseInvClear
  <2>3. CASE CloseHTTP
    BY <2>3 DEF CloseHTTP, LeaseInv, TypeOK, LeaseCanExpire, StaleExpiryIsHarmless, Leased,
       Current
  <2>4. CASE UNCHANGED vars
    BY <2>4, LeaseInvNext
  <2>5. QED
    BY <2>1, <2>2, <2>3, <2>4
       DEF ProcessNext, SignalArrives, ServeReturns, ServeFails, Call, OnceTaken,
           OnceReturns, CleanUp, StopProcesses, RemoveRuntimeFile, Kill, allVars, vars
<1>3. LeaseInv => LeaseCanExpire /\ StaleExpiryIsHarmless
  BY DEF LeaseInv
<1>4. QED
  BY <1>1, <1>2, <1>3, PTL DEF ProcessSpec
=============================================================================
