------------------------ MODULE TransportToken_proofs ------------------------
(***************************************************************************)
(* Proofs about TransportToken, for any clients, processes and bounds.     *)
(*                                                                         *)
(* Two arguments, both about what one process may still do.  A refresh     *)
(* token that the file offers, or that a client is about to send, has been *)
(* sent by this process for each fault at most; only a client between the  *)
(* request and the end of its store may find it sent once more, and such a *)
(* client holds the lock.  A token asked for by client credentials leaves  *)
(* something in the file, so that the next client of the process that      *)
(* finds nothing there can charge it to a session-close or to a fault.     *)
(***************************************************************************)
EXTENDS TransportToken, TLAPS

Storing == {"mkdir", "open", "write"}

(* Numbers of responses that are somewhere were issued.                    *)
Known ==
  /\ file.state = "token" => file.entry.refresh <= issued
  /\ \A c \in Clients : clients[c].entry.refresh <= issued
  /\ \A p \in Processes, r \in Responses : presented[p][r] > 0 => r <= issued

(* A refresh token that has not been stored yet is nowhere else.           *)
Offered(r) == file.state = "token" /\ ~file.entry.used /\ file.entry.refresh = r
Fresh(c) == clients[c].pc \in Storing /\ ~clients[c].entry.used /\ clients[c].entry.refresh # 0
FreshIsNew ==
  \A c \in Clients : Fresh(c) =>
    /\ \A p \in Processes : presented[p][clients[c].entry.refresh] = 0
    /\ ~Offered(clients[c].entry.refresh)
    /\ \A d \in Clients : (At(d, "refresh") \/ (d # c /\ Fresh(d))) =>
         clients[d].entry.refresh # clients[c].entry.refresh

Busy(p) ==
  \E c \in Clients : ProcessOf[c] = p /\ clients[c].pc \in Storing \cup {"refreshing"}
OfferedIsUnsent ==
  \A p \in Processes, r \in Responses :
    Offered(r) /\ ~Busy(p) => presented[p][r] <= faults
RefreshIsUnsent ==
  \A c \in Clients : At(c, "refresh") =>
    /\ clients[c].entry.refresh # 0
    /\ presented[ProcessOf[c]][clients[c].entry.refresh] <= faults

RefreshInv == Known /\ FreshIsNew /\ OfferedIsUnsent /\ RefreshIsUnsent /\ RefreshBudget

(* A process has its one token, or is about to put it in the file.         *)
Slack(p) ==
  \/ ~Absent
  \/ \E c \in Clients :
       /\ ProcessOf[c] = p
       /\ At(c, "mkdir") \/ (At(c, "open") /\ file.state # "noDir")
GrantInv ==
  /\ \A p \in Processes : grants[p] <= 1 + clears + faults
  /\ \A p \in Processes : ~Slack(p) => grants[p] <= clears + faults
  /\ \A c \in Clients :
       clients[c].pc \in {"grant", "granting"} => grants[ProcessOf[c]] <= clears + faults

-----------------------------------------------------------------------------
(* Types and the lock.                                                     *)

LEMMA Bump ==
  ASSUME NEW S, NEW f \in [S -> Nat], NEW x
  PROVE  [f EXCEPT ![x] = @ + 1] \in [S -> Nat]
<1>1. CASE x \in S
  BY <1>1
<1>2. CASE x \notin S
  <2>1. [f EXCEPT ![x] = @ + 1] = [y \in S |-> f[y]]
    BY <1>2, Zenon
  <2>2. QED
    BY <2>1
<1>3. QED
  BY <1>1, <1>2

LEMMA ReturnType ==
  ASSUME TypeOK, NEW c \in Clients, lock[ProcessOf[c]] = c, Return(c)
  PROVE  /\ clients' \in [Clients -> Client]
         /\ lock' \in [Processes -> Clients \cup {Nobody}]
         /\ \A d \in Clients :
              clients'[d].pc \notin {"idle", "lock"} <=> lock'[ProcessOf[d]] = d
<1> USE TransportAssumption
<1>1. Idle \in Client /\ Idle.pc = "idle"
  BY DEF Idle, NoEntry, Client, ClientPCs, Entry
<1>2. clients' \in [Clients -> Client]
  BY <1>1 DEF TypeOK, Return
<1>3. lock' \in [Processes -> Clients \cup {Nobody}]
  BY DEF TypeOK, Return
<1>4. ASSUME NEW d \in Clients
      PROVE  clients'[d].pc \notin {"idle", "lock"} <=> lock'[ProcessOf[d]] = d
  <2>1. CASE d = c
    BY <1>1, <2>1 DEF TypeOK, Return
  <2>2. CASE d # c
    BY <2>2 DEF TypeOK, Return
  <2>3. QED
    BY <2>1, <2>2
<1>5. QED
  BY <1>2, <1>3, <1>4

LEMMA GotoType ==
  ASSUME TypeOK, NEW c \in Clients, NEW pc \in ClientPCs \ {"idle", "lock"},
         NEW entry \in Entry, lock[ProcessOf[c]] = c, Goto(c, pc, entry), UNCHANGED lock
  PROVE  /\ clients' \in [Clients -> Client]
         /\ lock' \in [Processes -> Clients \cup {Nobody}]
         /\ \A d \in Clients :
              clients'[d].pc \notin {"idle", "lock"} <=> lock'[ProcessOf[d]] = d
BY TransportAssumption DEF TypeOK, Goto, Client

(* Every step of resolveTransportOAuthToken, of the provider and of the    *)
(* rest of the system keeps the type and the use of the lock.              *)
LEMMA TypeStep == TypeOK /\ [Next]_vars => TypeOK'
<1> SUFFICES ASSUME TypeOK, [Next]_vars
             PROVE  TypeOK'
  OBVIOUS
<1> USE TransportAssumption
<1>1. NoEntry \in Entry
  BY DEF NoEntry, Entry
<1>2. \A x \in FileStates : Without(x) \in File
  BY <1>1 DEF Without, File
<1>3. \A c \in Clients : clients[c].entry \in Entry
  BY DEF TypeOK, Client
<1>4. file.entry \in Entry
  BY DEF TypeOK, File
<1>5. ASSUME NEW c \in Clients, ClientStep(c)
      PROVE  TypeOK'
  <2>1. CASE Resolve(c)
    BY <2>1, <1>1 DEF Resolve, At, Goto, TypeOK, Client, ClientPCs,
                      providerVars, historyVars, boundVars
  <2>2. CASE Lock(c)
    BY <2>2, <1>1 DEF Lock, At, Goto, TypeOK, Client, ClientPCs,
                      providerVars, historyVars, boundVars
  <2>3. ASSUME clients[c].pc \notin {"idle", "lock"}
        PROVE  lock[ProcessOf[c]] = c
    BY <2>3 DEF TypeOK
  <2>4. CASE ReadCached(c)
    <3>1. lock[ProcessOf[c]] = c
      BY <2>3, <2>4 DEF ReadCached, At
    <3>2. CASE Return(c)
      BY <2>4, <3>1, <3>2, ReturnType DEF ReadCached, TypeOK, providerVars, historyVars, boundVars
    <3>3. CASE Goto(c, "grant", NoEntry) /\ UNCHANGED lock
      BY <1>1, <2>4, <3>1, <3>3, GotoType
         DEF ReadCached, TypeOK, ClientPCs, providerVars, historyVars, boundVars
    <3>4. CASE Goto(c, "refresh", file.entry) /\ UNCHANGED lock
      BY <1>4, <2>4, <3>1, <3>4, GotoType
         DEF ReadCached, TypeOK, ClientPCs, providerVars, historyVars, boundVars
    <3>5. QED
      BY <2>4, <3>2, <3>3, <3>4 DEF ReadCached
  <2>5. CASE RequestToken(c)
    <3>1. lock[ProcessOf[c]] = c
      BY <2>3, <2>5 DEF RequestToken, At
    <3>2. QED
      BY <1>1, <2>5, <3>1, GotoType
         DEF RequestToken, TypeOK, ClientPCs, providerVars, historyVars, boundVars
  <2>6. CASE GrantFails(c)
    <3>1. lock[ProcessOf[c]] = c
      BY <2>3, <2>6 DEF GrantFails
    <3>2. QED
      BY <2>6, <3>1, ReturnType DEF GrantFails, TypeOK, providerVars, historyVars, boundVars
  <2>7. CASE GrantSucceeds(c)
    <3>1. lock[ProcessOf[c]] = c
      BY <2>3, <2>7 DEF GrantSucceeds, At
    <3>2. PICK refresh \in {0, issued + 1} :
            Goto(c, "mkdir", [access |-> issued + 1, refresh |-> refresh,
                              used |-> FALSE, failed |-> FALSE])
      BY <2>7 DEF GrantSucceeds
    <3>3. [access |-> issued + 1, refresh |-> refresh, used |-> FALSE, failed |-> FALSE] \in Entry
      BY <2>7 DEF GrantSucceeds, Entry, TypeOK
    <3>4. grants' \in [Processes -> Nat] /\ issued' \in 0..MaxTokens
      BY <2>7 DEF GrantSucceeds, TypeOK
    <3>5. QED
      BY <2>7, <3>1, <3>2, <3>3, <3>4, GotoType
         DEF GrantSucceeds, TypeOK, ClientPCs, boundVars
  <2>8. CASE RequestRefresh(c)
    <3>1. lock[ProcessOf[c]] = c
      BY <2>3, <2>8 DEF RequestRefresh, At
    <3>2. presented' \in [Processes -> [Responses -> Nat]]
      <4> DEFINE p == ProcessOf[c]
                 r == clients[c].entry.refresh
                 row == [presented[p] EXCEPT ![r] = @ + 1]
      <4>1. presented' = [presented EXCEPT ![p] = row]
        BY <2>8 DEF RequestRefresh
      <4>2. presented[p] \in [Responses -> Nat]
        BY DEF TypeOK
      <4>3. row \in [Responses -> Nat]
        BY <4>2, Bump
      <4> HIDE DEF p, r, row
      <4>4. QED
        BY <4>1, <4>3 DEF TypeOK
    <3>3. QED
      BY <1>3, <2>8, <3>1, <3>2, GotoType
         DEF RequestRefresh, TypeOK, ClientPCs, providerVars, boundVars
  <2>9. CASE RefreshSucceeds(c)
    <3>1. lock[ProcessOf[c]] = c
      BY <2>3, <2>9 DEF RefreshSucceeds, At
    <3>2. PICK refresh \in {clients[c].entry.refresh, issued + 1} :
            Goto(c, "mkdir", [access |-> issued + 1, refresh |-> refresh,
                              used |-> TRUE, failed |-> FALSE])
      BY <2>9 DEF RefreshSucceeds
    <3>3. [access |-> issued + 1, refresh |-> refresh, used |-> TRUE, failed |-> FALSE] \in Entry
      BY <1>3, <2>9 DEF RefreshSucceeds, Entry, TypeOK
    <3>4. issued' \in 0..MaxTokens
      BY <2>9 DEF RefreshSucceeds, TypeOK
    <3>5. QED
      BY <2>9, <3>1, <3>2, <3>3, <3>4, GotoType
         DEF RefreshSucceeds, TypeOK, ClientPCs, historyVars, boundVars
  <2>10. CASE RefreshFails(c)
    <3>1. lock[ProcessOf[c]] = c
      BY <2>3, <2>10 DEF RefreshFails
    <3>2. [access |-> 0, refresh |-> clients[c].entry.refresh,
           used |-> TRUE, failed |-> TRUE] \in Entry
      BY <1>3 DEF Entry
    <3>3. QED
      BY <2>10, <3>1, <3>2, GotoType
         DEF RefreshFails, TypeOK, ClientPCs, providerVars, historyVars, boundVars
  <2>11. CASE MakeDir(c)
    <3>1. lock[ProcessOf[c]] = c
      BY <2>3, <2>11 DEF MakeDir, At
    <3>2. file' \in File
      BY <1>2, <2>11 DEF MakeDir, TypeOK, FileStates
    <3>3. QED
      BY <1>3, <2>11, <3>1, <3>2, GotoType
         DEF MakeDir, TypeOK, ClientPCs, providerVars, historyVars, boundVars
  <2>12. CASE Truncate(c)
    <3>1. lock[ProcessOf[c]] = c
      BY <2>3, <2>12 DEF Truncate, At
    <3>2. CASE Return(c) /\ UNCHANGED file
      BY <2>12, <3>1, <3>2, ReturnType DEF Truncate, TypeOK, providerVars, historyVars, boundVars
    <3>3. CASE file' = Without("torn") /\ Goto(c, "write", clients[c].entry) /\ UNCHANGED lock
      BY <1>2, <1>3, <2>12, <3>1, <3>3, GotoType
         DEF Truncate, TypeOK, ClientPCs, FileStates, providerVars, historyVars, boundVars
    <3>4. QED
      BY <2>12, <3>2, <3>3 DEF Truncate
  <2>13. CASE Write(c)
    <3>1. lock[ProcessOf[c]] = c
      BY <2>3, <2>13 DEF Write, At
    <3>2. file' \in File
      BY <1>2, <1>3, <2>13 DEF Write, TypeOK, File, FileStates
    <3>3. QED
      BY <2>13, <3>1, <3>2, ReturnType DEF Write, TypeOK, providerVars, historyVars, boundVars
  <2>14. CASE StoreFails(c)
    <3>1. lock[ProcessOf[c]] = c
      BY <2>3, <2>14 DEF StoreFails
    <3>2. faults' \in 0..MaxFaults
      BY <2>14 DEF StoreFails, TypeOK
    <3>3. QED
      BY <2>14, <3>1, <3>2, ReturnType DEF StoreFails, TypeOK, providerVars, historyVars
  <2>15. QED
    BY <1>5, <2>1, <2>2, <2>4, <2>5, <2>6, <2>7, <2>8, <2>9, <2>10, <2>11, <2>12, <2>13, <2>14
       DEF ClientStep
<1>6. CASE Clear
  BY <1>2, <1>6 DEF Clear, TypeOK, FileStates, providerVars, historyVars
<1>7. ASSUME NEW n \in Responses, Expire(n)
      PROVE  TypeOK'
  BY <1>7 DEF Expire, TypeOK, historyVars, boundVars
<1>8. ASSUME NEW p \in Processes, Crash(p)
      PROVE  TypeOK'
  <2>1. clients' \in [Clients -> Client]
    BY <1>1, <1>8 DEF Crash, TypeOK, Client, Idle, ClientPCs
  <2>2. \A d \in Clients : clients'[d].pc \notin {"idle", "lock"} <=> lock'[ProcessOf[d]] = d
    BY <1>8 DEF Crash, TypeOK, Idle
  <2>3. QED
    BY <1>8, <2>1, <2>2 DEF Crash, TypeOK, providerVars, historyVars
<1>9. CASE UNCHANGED vars
  BY <1>9 DEF vars, TypeOK
<1>10. QED
  BY <1>5, <1>6, <1>7, <1>8, <1>9 DEF Next

(* The cache file, the clients and the locks keep their type, and the lock *)
(* of a process is held by the one client inside its critical section.     *)
THEOREM TypeInvariant == Spec => []TypeOK
<1>1. Init => TypeOK
  BY TransportAssumption
     DEF Init, TypeOK, Without, NoEntry, Idle, File, FileStates, Entry, Client, ClientPCs
<1>2. QED
  BY <1>1, TypeStep, PTL DEF Spec

-----------------------------------------------------------------------------
(* The budget of client credentials.                                       *)

(* Two clients of a process are never both past the lock.                  *)
LEMMA OneHolder ==
  ASSUME TypeOK, NEW c \in Clients, NEW d \in Clients, ProcessOf[c] = ProcessOf[d],
         clients[c].pc \notin {"idle", "lock"}, clients[d].pc \notin {"idle", "lock"}
  PROVE  c = d
BY DEF TypeOK

(* Only the position of one client changes, and it neither leaves a        *)
(* position that accounts for a token nor enters one that asks for one.    *)
LEMMA QuietForGrants ==
  ASSUME TypeOK, GrantInv, NEW c \in Clients, NEW x,
         clients' = [clients EXCEPT ![c] = x],
         UNCHANGED <<file, grants, clears, faults>>,
         clients[c].pc \in {"mkdir", "open"} /\ Absent => file.state = "noDir" /\ At(c, "open"),
         x.pc \in {"grant", "granting"} => clients[c].pc \in {"grant", "granting"}
  PROVE  GrantInv'
<1> USE TransportAssumption
<1>1. \A d \in Clients : d # c => clients'[d] = clients[d]
  BY DEF TypeOK
<1>2. clients'[c] = x
  BY DEF TypeOK
<1>3. \A p \in Processes : Slack(p) => Slack(p)'
  BY <1>1 DEF Slack, Absent, At
<1>4. QED
  BY <1>1, <1>2, <1>3 DEF GrantInv

(* A fault pays for whatever the step loses.                               *)
LEMMA FaultPaysGrants ==
  ASSUME TypeOK, TypeOK', GrantInv, faults' = faults + 1, UNCHANGED <<grants, clears>>,
         \A c \in Clients : clients'[c].pc \in {"grant", "granting"} =>
                             clients'[c] = clients[c]
  PROVE  GrantInv'
BY TransportAssumption DEF GrantInv, TypeOK

LEMMA GrantStep == TypeOK /\ TypeOK' /\ GrantInv /\ [Next]_vars => GrantInv'
<1> SUFFICES ASSUME TypeOK, TypeOK', GrantInv, [Next]_vars
             PROVE  GrantInv'
  OBVIOUS
<1> USE TransportAssumption
<1>1. ASSUME NEW c \in Clients, ClientStep(c)
      PROVE  GrantInv'
  <2>1. CASE Resolve(c)
    BY <2>1, QuietForGrants DEF Resolve, Goto, At, historyVars, boundVars
  <2>2. CASE Lock(c)
    BY <2>2, QuietForGrants DEF Lock, Goto, At, historyVars, boundVars
  <2>3. CASE ReadCached(c)
    <3>1. CASE Absent /\ Goto(c, "grant", NoEntry)
      <4>1. ~Slack(ProcessOf[c])
        BY <2>3, <3>1, OneHolder DEF Slack, ReadCached, At
      <4>2. grants[ProcessOf[c]] <= clears + faults
        BY <4>1 DEF GrantInv, TypeOK
      <4>3. \A p \in Processes : Slack(p) => Slack(p)'
        BY <2>3, <3>1 DEF Slack, Absent, At, ReadCached, Goto, TypeOK
      <4>4. QED
        BY <2>3, <3>1, <4>2, <4>3
           DEF GrantInv, ReadCached, Goto, TypeOK, historyVars, boundVars
    <3>2. CASE Return(c)
      BY <2>3, <3>2, QuietForGrants DEF ReadCached, Return, Idle, At, historyVars, boundVars
    <3>3. CASE Goto(c, "refresh", file.entry)
      BY <2>3, <3>3, QuietForGrants DEF ReadCached, Goto, At, historyVars, boundVars
    <3>4. QED
      BY <2>3, <3>1, <3>2, <3>3 DEF ReadCached
  <2>4. CASE RequestToken(c)
    BY <2>4, QuietForGrants DEF RequestToken, Goto, At, historyVars, boundVars
  <2>5. CASE GrantFails(c)
    BY <2>5, QuietForGrants DEF GrantFails, Return, Idle, historyVars, boundVars
  <2>6. CASE GrantSucceeds(c)
    <3> DEFINE q == ProcessOf[c]
    <3>1. PICK entry : Goto(c, "mkdir", entry)
      BY <2>6 DEF GrantSucceeds
    <3>2. grants[q] <= clears + faults /\ grants' = [grants EXCEPT ![q] = @ + 1]
      BY <2>6 DEF GrantSucceeds, GrantInv, At
    <3>3. UNCHANGED <<file, clears, faults>>
      BY <2>6 DEF GrantSucceeds, boundVars
    <3>4. clients'[c].pc = "mkdir" /\ \A d \in Clients : d # c => clients'[d] = clients[d]
      BY <3>1 DEF Goto, TypeOK
    <3>5. Slack(q)'
      BY <3>4 DEF Slack, At
    <3>6. \A p \in Processes : Slack(p) => Slack(p)'
      BY <2>6, <3>3, <3>4 DEF Slack, Absent, At, GrantSucceeds
    <3>7. \A d \in Clients : d # c /\ clients[d].pc \in {"grant", "granting"} => ProcessOf[d] # q
      BY <2>6, OneHolder DEF GrantSucceeds, At
    <3>8. \A p \in Processes : p # q => grants'[p] = grants[p]
      BY <3>2 DEF TypeOK
    <3>9. grants'[q] <= 1 + clears + faults
      BY <3>2 DEF TypeOK
    <3> HIDE DEF q
    <3>10. \A d \in Clients : clients'[d].pc \in {"grant", "granting"} =>
             d # c /\ clients[d].pc \in {"grant", "granting"}
      BY <3>4
    <3>11. \A d \in Clients : ProcessOf[d] \in Processes
      OBVIOUS
    <3>12. QED
      BY <3>3, <3>5, <3>6, <3>7, <3>8, <3>9, <3>10, <3>11 DEF GrantInv
  <2>7. CASE RequestRefresh(c)
    BY <2>7, QuietForGrants DEF RequestRefresh, Goto, At, boundVars
  <2>8. CASE RefreshSucceeds(c)
    BY <2>8, QuietForGrants DEF RefreshSucceeds, Goto, At, historyVars, boundVars
  <2>9. CASE RefreshFails(c)
    BY <2>9, QuietForGrants DEF RefreshFails, Goto, historyVars, boundVars
  <2>10. CASE MakeDir(c)
    <3>1. clients'[c].pc = "open" /\ \A d \in Clients : d # c => clients'[d] = clients[d]
      BY <2>10 DEF MakeDir, Goto, TypeOK
    <3>2. file'.state # "noDir" /\ (file.state # "noDir" => file' = file)
      BY <2>10 DEF MakeDir, Without
    <3>3. \A p \in Processes : Slack(p) => Slack(p)'
      BY <2>10, <3>1, <3>2 DEF Slack, Absent, At, MakeDir
    <3>4. QED
      BY <2>10, <3>1, <3>3 DEF MakeDir, GrantInv, historyVars, boundVars
  <2>11. CASE Truncate(c)
    <3>1. CASE file.state = "noDir"
      BY <2>11, <3>1, QuietForGrants DEF Truncate, Return, Idle, At, historyVars, boundVars
    <3>2. CASE file.state # "noDir"
      <4>1. \A p \in Processes : Slack(p)'
        BY <2>11, <3>2 DEF Truncate, Slack, Absent, Without
      <4>2. QED
        BY <2>11, <3>2, <4>1 DEF Truncate, Goto, GrantInv, TypeOK, historyVars, boundVars
    <3>3. QED
      BY <3>1, <3>2
  <2>12. CASE Write(c)
    <3>1. \A d \in Clients : d # c => clients'[d] = clients[d]
      BY <2>12 DEF Write, Return, TypeOK
    <3>2. clients'[c].pc = "idle"
      BY <2>12 DEF Write, Return, Idle, TypeOK
    <3>3. \A p \in Processes : Slack(p) => Slack(p)'
      BY <2>12, <3>1 DEF Write, Slack, Absent, At, Without
    <3>4. QED
      BY <2>12, <3>1, <3>2, <3>3 DEF Write, GrantInv, historyVars, boundVars
  <2>13. CASE StoreFails(c)
    BY <2>13, FaultPaysGrants DEF StoreFails, Return, Idle, TypeOK, historyVars
  <2>14. QED
    BY <1>1, <2>1, <2>2, <2>3, <2>4, <2>5, <2>6, <2>7, <2>8, <2>9, <2>10, <2>11, <2>12, <2>13
       DEF ClientStep
<1>2. CASE Clear
  BY <1>2 DEF Clear, GrantInv, TypeOK, historyVars
<1>3. ASSUME NEW n \in Responses, Expire(n)
      PROVE  GrantInv'
  <2>1. \A p \in Processes : Slack(p) <=> Slack(p)'
    BY <1>3 DEF Expire, Slack, Absent, At
  <2>2. QED
    BY <1>3, <2>1 DEF Expire, GrantInv, historyVars, boundVars
<1>4. ASSUME NEW p \in Processes, Crash(p)
      PROVE  GrantInv'
  BY <1>4, FaultPaysGrants DEF Crash, Idle, TypeOK, historyVars
<1>5. CASE UNCHANGED vars
  <2>1. \A p \in Processes : Slack(p) <=> Slack(p)'
    BY <1>5 DEF vars, Slack, Absent, At
  <2>2. QED
    BY <1>5, <2>1 DEF vars, GrantInv
<1>6. QED
  BY <1>1, <1>2, <1>3, <1>4, <1>5 DEF Next

(* No process asks for more tokens by client credentials than session-     *)
(* closes and faults explain: the transport fails closed.                  *)
THEOREM GrantsAreBudgeted == Spec => []GrantBudget
<1>1. Init => GrantInv
  BY TransportAssumption DEF Init, GrantInv, Idle
<1>2. GrantInv => GrantBudget
  BY DEF GrantInv, GrantBudget
<1>3. QED
  BY <1>1, <1>2, TypeInvariant, GrantStep, PTL DEF Spec

-----------------------------------------------------------------------------
(* The budget of refreshes.                                                *)

(* A fresh entry is known to one client and to no request.                 *)
LEMMA FreshIsUnsent ==
  ASSUME FreshIsNew, NEW c \in Clients, Fresh(c)
  PROVE  /\ \A p \in Processes : presented[p][clients[c].entry.refresh] = 0
         /\ ~Offered(clients[c].entry.refresh)
         /\ \A d \in Clients : (At(d, "refresh") \/ (d # c /\ Fresh(d))) =>
              clients[d].entry.refresh # clients[c].entry.refresh
BY DEF FreshIsNew

(* Only one client moves, to a place where it is neither fresh, unless it  *)
(* was, nor about to send a refresh token; the file keeps its entry or     *)
(* offers none, and no client leaves the store with the entry unwritten.   *)
LEMMA QuietForRefreshes ==
  ASSUME TypeOK, TypeOK', RefreshInv, NEW c \in Clients, NEW x,
         clients' = [clients EXCEPT ![c] = x],
         UNCHANGED <<presented, faults>>,
         issued <= issued',
         file' = file \/ file'.state # "token",
         x.pc # "refresh",
         x.entry.refresh <= issued',
         x.pc \in Storing => x.entry.used \/ x.entry.refresh = 0 \/ (Fresh(c) /\ x.entry = clients[c].entry),
         clients[c].pc \in Storing \cup {"refreshing"} =>
           x.pc \in Storing \cup {"refreshing"} \/ file'.state # "token"
  PROVE  RefreshInv'
<1> USE TransportAssumption
<1>1. \A d \in Clients : d # c => clients'[d] = clients[d]
  BY DEF TypeOK
<1>2. clients'[c] = x
  BY DEF TypeOK
<1>3. \A r : Offered(r)' => Offered(r)
  BY DEF Offered
<1>4. \A d \in Clients : At(d, "refresh")' => d # c /\ At(d, "refresh")
  BY <1>1, <1>2 DEF At
<1>5. \A d \in Clients : Fresh(d)' => Fresh(d) /\ clients'[d].entry = clients[d].entry
  BY <1>1, <1>2 DEF Fresh
<1>6. \A p \in Processes : Busy(p) => Busy(p)' \/ file'.state # "token"
  BY <1>1, <1>2 DEF Busy
<1>7. Known'
  <2>1. \A d \in Clients : clients'[d].entry.refresh <= issued'
    BY <1>1, <1>2 DEF RefreshInv, Known, TypeOK, Client, Entry
  <2>2. file'.state = "token" => file'.entry.refresh <= issued'
    BY DEF RefreshInv, Known, TypeOK, File, Entry
  <2>3. \A p \in Processes, r \in Responses : presented'[p][r] > 0 => r <= issued'
    BY DEF RefreshInv, Known, TypeOK, Responses
  <2>4. QED
    BY <2>1, <2>2, <2>3 DEF Known
<1>8. FreshIsNew'
  <2> SUFFICES ASSUME NEW d \in Clients, Fresh(d)'
               PROVE  /\ \A p \in Processes : presented'[p][clients'[d].entry.refresh] = 0
                      /\ ~Offered(clients[d].entry.refresh)'
                      /\ clients'[d].entry = clients[d].entry
                      /\ \A g \in Clients : (At(g, "refresh")' \/ (g # d /\ Fresh(g)')) =>
                           clients'[g].entry.refresh # clients'[d].entry.refresh
    BY DEF FreshIsNew, Offered
  <2>1. Fresh(d) /\ clients'[d].entry = clients[d].entry
    BY <1>5
  <2>2. QED
    BY <1>1, <1>3, <1>4, <1>5, <2>1, FreshIsUnsent DEF RefreshInv
<1>9. OfferedIsUnsent'
  BY <1>3, <1>6 DEF RefreshInv, OfferedIsUnsent, Offered
<1>10. RefreshIsUnsent'
  BY <1>1, <1>4 DEF RefreshInv, RefreshIsUnsent
<1>11. RefreshBudget'
  BY DEF RefreshInv, RefreshBudget
<1>12. QED
  BY <1>7, <1>8, <1>9, <1>10, <1>11 DEF RefreshInv

(* The same for the two ways in which the code moves a client.             *)
LEMMA QuietGoto ==
  ASSUME TypeOK, TypeOK', RefreshInv, NEW c \in Clients, NEW pc, NEW entry, Goto(c, pc, entry),
         UNCHANGED <<presented, faults>>,
         issued <= issued',
         file' = file \/ file'.state # "token",
         pc # "refresh",
         entry.refresh <= issued',
         pc \in Storing => entry.used \/ entry.refresh = 0 \/ (Fresh(c) /\ entry = clients[c].entry),
         clients[c].pc \in Storing \cup {"refreshing"} =>
           pc \in Storing \cup {"refreshing"} \/ file'.state # "token"
  PROVE  RefreshInv'
<1> DEFINE x == [pc |-> pc, entry |-> entry]
<1>1. x.pc = pc /\ x.entry = entry
  OBVIOUS
<1>2. clients' = [clients EXCEPT ![c] = x]
  BY DEF Goto
<1> HIDE DEF x
<1>3. QED
  BY <1>1, <1>2, QuietForRefreshes

LEMMA QuietReturn ==
  ASSUME TypeOK, TypeOK', RefreshInv, NEW c \in Clients, Return(c),
         UNCHANGED <<presented, faults, issued>>,
         file' = file \/ file'.state # "token",
         clients[c].pc \in Storing \cup {"refreshing"} => file'.state # "token"
  PROVE  RefreshInv'
<1>1. Idle.pc = "idle" /\ Idle.entry.refresh = 0
  BY DEF Idle, NoEntry
<1>2. issued \in Nat
  BY TransportAssumption DEF TypeOK
<1>3. clients' = [clients EXCEPT ![c] = Idle]
  BY DEF Return
<1>4. Idle.pc \notin Storing \cup {"refresh", "refreshing"}
  BY <1>1 DEF Storing
<1>5. issued <= issued' /\ Idle.entry.refresh <= issued'
  BY <1>1, <1>2
<1>6. QED
  BY <1>3, <1>4, <1>5, QuietForRefreshes

(* A fault pays for a refresh token that may now be sent again.            *)
LEMMA FaultPaysRefreshes ==
  ASSUME TypeOK, TypeOK', RefreshInv, faults' = faults + 1,
         UNCHANGED <<file, presented, issued>>,
         \A c \in Clients : clients'[c] = clients[c] \/ clients'[c] = Idle
  PROVE  RefreshInv'
<1> USE TransportAssumption
<1>1. Idle.pc = "idle" /\ Idle.entry.refresh = 0
  BY DEF Idle, NoEntry
<1>2. \A p \in Processes, r \in Responses : presented[p][r] <= faults'
  BY DEF RefreshInv, RefreshBudget, TypeOK
<1>3. \A d \in Clients : At(d, "refresh")' => At(d, "refresh") /\ clients'[d] = clients[d]
  BY <1>1 DEF At
<1>4. \A d \in Clients : Fresh(d)' => Fresh(d) /\ clients'[d] = clients[d]
  BY <1>1 DEF Fresh
<1>5. Known'
  <2>1. \A d \in Clients : clients'[d].entry.refresh <= issued'
    BY <1>1 DEF RefreshInv, Known, TypeOK
  <2>2. QED
    BY <2>1 DEF RefreshInv, Known
<1>6. FreshIsNew'
  BY <1>3, <1>4 DEF RefreshInv, FreshIsNew, Offered
<1>7. OfferedIsUnsent'
  BY <1>2 DEF OfferedIsUnsent
<1>8. RefreshIsUnsent'
  <2>1. \A d \in Clients : clients[d].entry.refresh # 0 => clients[d].entry.refresh \in Responses
    BY DEF TypeOK, Client, Entry, Responses
  <2>2. QED
    BY <1>2, <1>3, <2>1 DEF RefreshInv, RefreshIsUnsent
<1>9. RefreshBudget'
  BY <1>2 DEF RefreshBudget, TypeOK
<1>10. QED
  BY <1>5, <1>6, <1>7, <1>8, <1>9 DEF RefreshInv

LEMMA RefreshStep == TypeOK /\ TypeOK' /\ RefreshInv /\ [Next]_vars => RefreshInv'
<1> SUFFICES ASSUME TypeOK, TypeOK', RefreshInv, [Next]_vars
             PROVE  RefreshInv'
  OBVIOUS
<1> USE TransportAssumption
<1>1. NoEntry.refresh = 0 /\ NoEntry.refresh <= issued
  BY DEF NoEntry, TypeOK
<1>2. Idle.pc = "idle" /\ Idle.entry = NoEntry
  BY DEF Idle
<1>3. \A c \in Clients : clients[c].entry.refresh <= issued
  BY DEF RefreshInv, Known
<1>4. issued \in Nat
  BY DEF TypeOK
<1>5. ASSUME NEW c \in Clients, ClientStep(c)
      PROVE  RefreshInv'
  <2>1. CASE Resolve(c)
    BY <1>1, <1>4, <2>1, QuietGoto
       DEF Resolve, At, Storing, providerVars, historyVars, boundVars
  <2>2. CASE Lock(c)
    BY <1>1, <1>4, <2>2, QuietGoto
       DEF Lock, At, Storing, providerVars, historyVars, boundVars
  <2>3. CASE ReadCached(c)
    <3>1. CASE Goto(c, "refresh", file.entry) /\ file.state = "token" /\ Refreshable(file.entry)
      <4> DEFINE r == file.entry.refresh
      <4>1. UNCHANGED <<file, issued, presented, faults>>
        BY <2>3 DEF ReadCached, providerVars, historyVars, boundVars
      <4>2. Offered(r) /\ r # 0 /\ r <= issued
        BY <3>1 DEF Offered, Refreshable, RefreshInv, Known
      <4>3. ~Busy(ProcessOf[c])
        BY <2>3, OneHolder DEF Busy, ReadCached, At, Storing
      <4>4. presented[ProcessOf[c]][r] <= faults
        <5>1. r \in Responses
          BY <4>2 DEF TypeOK, File, Entry, Responses
        <5>2. QED
          BY <4>2, <4>3, <5>1 DEF RefreshInv, OfferedIsUnsent
      <4>5. clients'[c].pc = "refresh" /\ clients'[c].entry.refresh = r
        BY <3>1 DEF Goto, TypeOK
      <4>6. \A d \in Clients : d # c => clients'[d] = clients[d]
        BY <3>1 DEF Goto, TypeOK
      <4>7. \A d \in Clients : Fresh(d)' => Fresh(d) /\ d # c /\ clients[d].entry.refresh # r
        BY <4>2, <4>5, <4>6, FreshIsUnsent DEF Fresh, Storing, RefreshInv
      <4> HIDE DEF r
      <4>8. Known'
        BY <4>1, <4>2, <4>5, <4>6 DEF RefreshInv, Known
      <4>9. FreshIsNew'
        BY <4>1, <4>5, <4>6, <4>7, FreshIsUnsent DEF RefreshInv, FreshIsNew, Offered, At
      <4>10. OfferedIsUnsent'
        <5>1. \A p \in Processes : Busy(p) => Busy(p)'
          BY <2>3, <4>6 DEF Busy, ReadCached, At, Storing
        <5>2. QED
          BY <4>1, <5>1 DEF RefreshInv, OfferedIsUnsent, Offered
      <4>11. RefreshIsUnsent'
        BY <4>1, <4>2, <4>4, <4>5, <4>6 DEF RefreshInv, RefreshIsUnsent, At
      <4>12. RefreshBudget'
        BY <4>1 DEF RefreshInv, RefreshBudget
      <4>13. QED
        BY <4>8, <4>9, <4>10, <4>11, <4>12 DEF RefreshInv
    <3>2. CASE Goto(c, "grant", NoEntry)
      BY <1>1, <1>4, <2>3, <3>2, QuietGoto
         DEF ReadCached, At, Storing, providerVars, historyVars, boundVars
    <3>3. CASE Return(c)
      BY <2>3, <3>3, QuietReturn
         DEF ReadCached, At, Storing, providerVars, historyVars, boundVars
    <3>4. QED
      BY <2>3, <3>1, <3>2, <3>3 DEF ReadCached
  <2>4. CASE RequestToken(c)
    BY <1>1, <1>4, <2>4, QuietGoto
       DEF RequestToken, At, Storing, providerVars, historyVars, boundVars
  <2>5. CASE GrantFails(c)
    BY <2>5, QuietReturn
       DEF GrantFails, Storing, providerVars, historyVars, boundVars
  <2>6. CASE GrantSucceeds(c)
    <3>1. PICK refresh \in {0, issued + 1} :
            Goto(c, "mkdir", [access |-> issued + 1, refresh |-> refresh,
                              used |-> FALSE, failed |-> FALSE])
      BY <2>6 DEF GrantSucceeds
    <3>2. clients'[c].pc = "mkdir" /\ clients'[c].entry.refresh = refresh
      BY <3>1 DEF Goto, TypeOK
    <3>3. \A d \in Clients : d # c => clients'[d] = clients[d]
      BY <3>1 DEF Goto, TypeOK
    <3>4. UNCHANGED <<file, presented, faults>> /\ issued' = issued + 1
      BY <2>6 DEF GrantSucceeds, boundVars
    <3>5. \A p \in Processes : presented[p][issued + 1] = 0
      <4>1. issued + 1 \in Responses
        BY <2>6, <1>4 DEF GrantSucceeds, Responses
      <4>2. \A p \in Processes : presented[p][issued + 1] \in Nat
        BY <4>1 DEF TypeOK
      <4>3. \A p \in Processes : presented[p][issued + 1] > 0 => issued + 1 <= issued
        BY <4>1 DEF RefreshInv, Known
      <4>4. QED
        BY <4>2, <4>3, <1>4
    <3>6. ~Offered(issued + 1) /\ \A d \in Clients : clients[d].entry.refresh # issued + 1
      BY <1>4 DEF RefreshInv, Known, Offered
    <3>7. \A d \in Clients : At(d, "refresh")' => d # c /\ At(d, "refresh")
      BY <3>2, <3>3 DEF At
    <3>8. \A d \in Clients : Fresh(d)' => (d # c /\ Fresh(d)) \/ (d = c /\ refresh = issued + 1)
      BY <3>2, <3>3 DEF Fresh
    <3>9. Known'
      <4>1. \A d \in Clients : clients'[d].entry.refresh <= issued'
        <5>1. \A d \in Clients : clients[d].entry.refresh \in Nat
          BY DEF TypeOK, Client, Entry
        <5>2. QED
          BY <1>3, <1>4, <3>2, <3>3, <3>4, <5>1
      <4>2. file'.state = "token" => file'.entry.refresh <= issued'
        BY <1>4, <3>4 DEF RefreshInv, Known, TypeOK, File, Entry
      <4>3. \A p \in Processes, r \in Responses : presented'[p][r] > 0 => r <= issued'
        BY <1>4, <3>4 DEF RefreshInv, Known, Responses
      <4>4. QED
        BY <4>1, <4>2, <4>3 DEF Known
    <3>10. FreshIsNew'
      BY <3>2, <3>3, <3>4, <3>5, <3>6, <3>7, <3>8, FreshIsUnsent
         DEF RefreshInv, FreshIsNew, Offered
    <3>11. OfferedIsUnsent'
      <4>1. \A p \in Processes : Busy(p) => Busy(p)'
        BY <3>2, <3>3 DEF Busy, Storing
      <4>2. QED
        BY <3>4, <4>1 DEF RefreshInv, OfferedIsUnsent, Offered
    <3>12. RefreshIsUnsent'
      BY <3>3, <3>4, <3>7 DEF RefreshInv, RefreshIsUnsent
    <3>13. RefreshBudget'
      BY <3>4 DEF RefreshInv, RefreshBudget
    <3>14. QED
      BY <3>9, <3>10, <3>11, <3>12, <3>13 DEF RefreshInv
  <2>7. CASE RequestRefresh(c)
    <3> DEFINE q == ProcessOf[c]
               r == clients[c].entry.refresh
    <3>1. r \in Responses /\ presented[q][r] <= faults
      BY <1>3, <2>7 DEF RequestRefresh, RefreshInv, RefreshIsUnsent, TypeOK, Client, Entry, Responses
    <3>2. presented' = [presented EXCEPT ![q][r] = @ + 1]
      BY <2>7 DEF RequestRefresh
    <3>3. clients'[c].pc = "refreshing" /\ clients'[c].entry = clients[c].entry
      BY <2>7 DEF RequestRefresh, Goto, TypeOK
    <3>4. \A d \in Clients : d # c => clients'[d] = clients[d]
      BY <2>7 DEF RequestRefresh, Goto, TypeOK
    <3>5. UNCHANGED <<file, issued, faults>>
      BY <2>7 DEF RequestRefresh, providerVars, boundVars
    <3>6. \A d \in Clients : At(d, "refresh")' => At(d, "refresh") /\ ProcessOf[d] # q
      BY <2>7, <3>3, <3>4, OneHolder DEF RequestRefresh, At
    <3>7. \A d \in Clients : Fresh(d)' => Fresh(d) /\ d # c /\ clients[d].entry.refresh # r
      BY <2>7, <3>3, <3>4, FreshIsUnsent DEF Fresh, Storing, RequestRefresh, RefreshInv
    <3>8. r <= issued
      BY <1>3
    <3>9. q \in Processes
      OBVIOUS
    <3>10. At(c, "refresh")
      BY <2>7 DEF RequestRefresh
    <3> HIDE DEF q, r
    <3>11. presented'[q][r] = presented[q][r] + 1
      BY <3>1, <3>2, <3>9 DEF TypeOK
    <3>12. \A p \in Processes, s \in Nat : p # q \/ s # r => presented'[p][s] = presented[p][s]
      BY <3>2, <3>9 DEF TypeOK
    <3>13. Known'
      <4>1. \A d \in Clients : clients'[d].entry.refresh <= issued'
        BY <1>3, <3>3, <3>4, <3>5
      <4>2. \A p \in Processes, s \in Responses : presented'[p][s] > 0 => s <= issued'
        BY <3>5, <3>8, <3>11, <3>12 DEF RefreshInv, Known, Responses
      <4>3. QED
        BY <3>5, <4>1, <4>2 DEF RefreshInv, Known
    <3>14. FreshIsNew'
      <4>1. \A d \in Clients : clients[d].entry.refresh \in Nat
        BY DEF TypeOK, Client, Entry
      <4>2. ASSUME NEW d \in Clients, Fresh(d)'
            PROVE  \A p \in Processes : presented'[p][clients'[d].entry.refresh] = 0
        BY <3>4, <3>7, <3>12, <4>1, <4>2, FreshIsUnsent DEF RefreshInv
      <4>3. QED
        BY <3>3, <3>4, <3>5, <3>6, <3>7, <4>2, FreshIsUnsent DEF RefreshInv, FreshIsNew, Offered
    <3>15. OfferedIsUnsent'
      <4>1. Busy(q)'
        BY <3>3 DEF Busy, Storing, q
      <4>2. \A p \in Processes : Busy(p) => Busy(p)'
        BY <3>3, <3>4 DEF Busy
      <4>3. QED
        BY <3>5, <3>12, <4>1, <4>2 DEF RefreshInv, OfferedIsUnsent, Offered, Responses
    <3>16. RefreshIsUnsent'
      <4>1. \A d \in Clients : clients[d].entry.refresh \in Nat
        BY DEF TypeOK, Client, Entry
      <4>2. QED
        BY <3>3, <3>4, <3>5, <3>6, <3>12, <4>1 DEF RefreshInv, RefreshIsUnsent, At, q
    <3>17. RefreshBudget'
      <4>1. presented[q][r] \in Nat /\ faults \in Nat
        BY <3>1, <3>9 DEF TypeOK
      <4>2. presented'[q][r] <= 1 + faults
        BY <3>1, <3>11, <4>1
      <4>3. QED
        BY <3>5, <3>12, <4>2 DEF RefreshInv, RefreshBudget, Responses
    <3>18. QED
      BY <3>13, <3>14, <3>15, <3>16, <3>17 DEF RefreshInv
  <2>8. CASE RefreshSucceeds(c)
    <3>1. PICK refresh \in {clients[c].entry.refresh, issued + 1} :
            Goto(c, "mkdir", [access |-> issued + 1, refresh |-> refresh,
                              used |-> TRUE, failed |-> FALSE])
      BY <2>8 DEF RefreshSucceeds
    <3>2. issued' = issued + 1 /\ refresh <= issued'
      BY <1>3, <1>4, <2>8 DEF RefreshSucceeds, TypeOK, Client, Entry
    <3>3. QED
      BY <1>4, <2>8, <3>1, <3>2, QuietGoto
         DEF RefreshSucceeds, Storing, At, historyVars, boundVars
  <2>9. CASE RefreshFails(c)
    BY <1>3, <1>4, <2>9, QuietGoto
       DEF RefreshFails, Storing, providerVars, historyVars, boundVars
  <2>10. CASE MakeDir(c)
    BY <1>3, <1>4, <2>10, QuietGoto
       DEF MakeDir, Storing, Fresh, At, Without, providerVars, historyVars, boundVars
  <2>11. CASE Truncate(c)
    <3>1. CASE Return(c) /\ UNCHANGED file /\ file.state = "noDir"
      BY <2>11, <3>1, QuietReturn
         DEF Truncate, At, Storing, providerVars, historyVars, boundVars
    <3>2. CASE file' = Without("torn") /\ Goto(c, "write", clients[c].entry)
      BY <1>3, <1>4, <2>11, <3>2, QuietGoto
         DEF Truncate, Without, At, Storing, Fresh, providerVars, historyVars, boundVars
    <3>3. QED
      BY <2>11, <3>1, <3>2 DEF Truncate
  <2>12. CASE Write(c)
    <3>1. CASE file'.state # "token"
      BY <2>12, <3>1, QuietReturn DEF Write, providerVars, historyVars, boundVars
    <3>2. CASE file' = [state |-> "token", entry |-> clients[c].entry]
      <4>1. \A d \in Clients : d # c => clients'[d] = clients[d]
        BY <2>12 DEF Write, Return, TypeOK
      <4>2. clients'[c].pc = "idle" /\ clients'[c].entry.refresh = 0
        BY <1>1, <1>2, <2>12 DEF Write, Return, TypeOK
      <4>3. UNCHANGED <<issued, presented, faults>>
        BY <2>12 DEF Write, providerVars, historyVars, boundVars
      <4>4. \A r \in Responses : Offered(r)' => Fresh(c) /\ clients[c].entry.refresh = r
        BY <2>12, <3>2 DEF Write, Offered, Fresh, At, Storing, Responses
      <4>5. \A d \in Clients : Fresh(d)' => d # c /\ Fresh(d)
        BY <4>1, <4>2 DEF Fresh, Storing
      <4>6. \A d \in Clients : At(d, "refresh")' => d # c /\ At(d, "refresh")
        BY <4>1, <4>2 DEF At
      <4>7. Known'
        BY <1>3, <1>4, <3>2, <4>1, <4>2, <4>3 DEF RefreshInv, Known
      <4>8. FreshIsNew'
        <5>1. ASSUME NEW d \in Clients, Fresh(d)'
              PROVE  ~Offered(clients[d].entry.refresh)'
          <6>1. clients[d].entry.refresh \in Responses
            BY <4>5, <5>1 DEF Fresh, TypeOK, Client, Entry, Responses
          <6>2. QED
            BY <4>1, <4>4, <4>5, <5>1, <6>1, FreshIsUnsent DEF RefreshInv
        <5>2. QED
          BY <4>1, <4>3, <4>5, <4>6, <5>1, FreshIsUnsent DEF RefreshInv, FreshIsNew, Offered
      <4>9. OfferedIsUnsent'
        BY <4>3, <4>4, FreshIsUnsent DEF RefreshInv, OfferedIsUnsent, TypeOK
      <4>10. RefreshIsUnsent'
        BY <4>1, <4>3, <4>6 DEF RefreshInv, RefreshIsUnsent
      <4>11. RefreshBudget'
        BY <4>3 DEF RefreshInv, RefreshBudget
      <4>12. QED
        BY <4>7, <4>8, <4>9, <4>10, <4>11 DEF RefreshInv
    <3>3. QED
      <4>1. file.state # "token" => file' = file \/ file' = [state |-> "token", entry |-> clients[c].entry]
                                    \/ file'.state # "token"
        BY <2>12 DEF Write, Without
      <4>2. QED
        BY <2>12, <3>1, <3>2 DEF Write, Absent, Without
  <2>13. CASE StoreFails(c)
    <3>1. \A d \in Clients : clients'[d] = clients[d] \/ clients'[d] = Idle
      BY <2>13 DEF StoreFails, Return, TypeOK
    <3>2. QED
      BY <2>13, <3>1, FaultPaysRefreshes DEF StoreFails, providerVars, historyVars
  <2>14. QED
    BY <1>5, <2>1, <2>2, <2>3, <2>4, <2>5, <2>6, <2>7, <2>8, <2>9, <2>10, <2>11, <2>12, <2>13
       DEF ClientStep
<1>6. CASE Clear
  <2>1. \A d \in Clients : clients'[d] = clients[d]
    BY <1>6 DEF Clear
  <2>2. file'.state # "token" /\ UNCHANGED <<clients, presented, issued, faults>>
    BY <1>6 DEF Clear, Without, providerVars, historyVars
  <2>3. QED
    BY <2>2 DEF RefreshInv, Known, FreshIsNew, OfferedIsUnsent, RefreshIsUnsent, RefreshBudget,
                Offered, Fresh, At
<1>7. ASSUME NEW n \in Responses, Expire(n)
      PROVE  RefreshInv'
  BY <1>7 DEF Expire, RefreshInv, Known, FreshIsNew, OfferedIsUnsent, RefreshIsUnsent,
              RefreshBudget, Offered, Fresh, At, Busy, historyVars, boundVars
<1>8. ASSUME NEW p \in Processes, Crash(p)
      PROVE  RefreshInv'
  <2>1. \A d \in Clients : clients'[d] = clients[d] \/ clients'[d] = Idle
    BY <1>8 DEF Crash
  <2>2. QED
    BY <1>8, <2>1, FaultPaysRefreshes DEF Crash, providerVars, historyVars
<1>9. CASE UNCHANGED vars
  BY <1>9 DEF vars, RefreshInv, Known, FreshIsNew, OfferedIsUnsent, RefreshIsUnsent,
              RefreshBudget, Offered, Fresh, At, Busy
<1>10. QED
  BY <1>5, <1>6, <1>7, <1>8, <1>9 DEF Next

(* A process sends a refresh token once, and once more for each fault at   *)
(* most: refreshUsed is stored before the lock is released.                *)
THEOREM RefreshesAreBudgeted == Spec => []RefreshBudget
<1>1. Init => RefreshInv
  BY TransportAssumption
     DEF Init, RefreshInv, Known, FreshIsNew, OfferedIsUnsent, RefreshIsUnsent, RefreshBudget,
         Offered, Fresh, At, Idle, NoEntry, Without, Storing
<1>2. RefreshInv => RefreshBudget
  BY DEF RefreshInv
<1>3. QED
  BY <1>1, <1>2, TypeInvariant, RefreshStep, PTL DEF Spec
=============================================================================
