--------------------------- MODULE TransportToken ---------------------------
(***************************************************************************)
(* The access token of an MCP transport (pkg/mcp/client/auth.go): cached   *)
(* in one file of the instance's oauth directory, refreshed once, shared   *)
(* by the clients of a process under the lock of its key and, with no lock,*)
(* by the processes that have the same state directory.  A session-close   *)
(* removes the directory at any moment.                                    *)
(*                                                                         *)
(* The look-up under the hint key is left out: nothing is ever stored      *)
(* under that key; so is what fails before the lock is taken, and the      *)
(* second read after a refresh, which changes only what is returned.  A    *)
(* response of the provider is a number: its access token and its refresh  *)
(* token both have it.                                                     *)
(***************************************************************************)
EXTENDS Naturals

CONSTANTS
  Clients,        \* goroutines in resolveTransportOAuthToken
  Processes,
  ProcessOf,      \* the process of each client
  Nobody,         \* holds a free lock
  MaxTokens,      \* bound on the responses of the provider
  MaxClears,      \* bound on session-closes
  MaxFaults       \* bound on crashes and failed writes

ASSUME TransportAssumption ==
  /\ ProcessOf \in [Clients -> Processes]
  /\ Nobody \notin Clients
  /\ MaxTokens \in Nat
  /\ MaxClears \in Nat
  /\ MaxFaults \in Nat

VARIABLES
  file,        \* the cache file
  clients,     \* the goroutine of each client
  lock,        \* the holder of the key's mutex in each process
  issued,      \* responses so far
  expired,     \* access tokens that expire within five seconds, or have
  refreshOver, \* refresh tokens that do
  presented,   \* history: how often a process has sent a refresh token
  grants,      \* history: client_credentials responses a process has got
  clears,
  faults

vars == <<file, clients, lock, issued, expired, refreshOver,
          presented, grants, clears, faults>>
providerVars == <<issued, expired, refreshOver>>
historyVars == <<presented, grants>>
boundVars == <<clears, faults>>

Responses == 1..MaxTokens
\* access, refresh: 0 is the empty string
Entry == [access : 0..MaxTokens, refresh : 0..MaxTokens, used : BOOLEAN, failed : BOOLEAN]
NoEntry == [access |-> 0, refresh |-> 0, used |-> FALSE, failed |-> FALSE]

\* "noDir": the directory is gone too; "torn": empty, or cut off in the middle
FileStates == {"noDir", "noFile", "torn", "token"}
File == [state : FileStates, entry : Entry]
Without(state) == [state |-> state, entry |-> NoEntry]
Absent == file.state \in {"noDir", "noFile"}
ClientPCs == {"idle", "lock", "read", "grant", "granting", "refresh", "refreshing",
              "mkdir", "open", "write"}
\* entry: what was read, later what is to be stored
Client == [pc : ClientPCs, entry : Entry]
Idle == [pc |-> "idle", entry |-> NoEntry]

At(c, pc) == clients[c].pc = pc
Goto(c, pc, entry) == clients' = [clients EXCEPT ![c] = [pc |-> pc, entry |-> entry]]
Held(p) == lock[p] # Nobody

\* return with a token or with an error: the deferred unlock
Return(c) ==
  /\ clients' = [clients EXCEPT ![c] = Idle]
  /\ lock' = [lock EXCEPT ![ProcessOf[c]] = Nobody]

Init ==
  /\ file = Without("noDir")
  /\ clients = [c \in Clients |-> Idle]
  /\ lock = [p \in Processes |-> Nobody]
  /\ issued = 0
  /\ expired = {}
  /\ refreshOver = {}
  /\ presented = [p \in Processes |-> [r \in Responses |-> 0]]
  /\ grants = [p \in Processes |-> 0]
  /\ clears = 0
  /\ faults = 0

Resolve(c) ==
  /\ At(c, "idle")
  /\ Goto(c, "lock", NoEntry)
  /\ UNCHANGED <<file, lock, providerVars, historyVars, boundVars>>

FaultyLock(c) ==
  /\ At(c, "lock")
  /\ lock' = [lock EXCEPT ![ProcessOf[c]] = c]
  /\ Goto(c, "read", NoEntry)
  /\ UNCHANGED <<file, providerVars, historyVars, boundVars>>
Lock(c) ==
  /\ At(c, "lock")
  /\ lock[ProcessOf[c]] = Nobody
  /\ lock' = [lock EXCEPT ![ProcessOf[c]] = c]
  /\ Goto(c, "read", NoEntry)
  /\ UNCHANGED <<file, providerVars, historyVars, boundVars>>

-----------------------------------------------------------------------------
(* The cached token.                                                       *)

Usable(e) == e.access # 0 /\ e.access \notin expired

\* refreshCachedTransportOAuthToken's conditions, in its order; an entry that
\* fails one of them makes the transport fail closed.  Only a failed entry has
\* no access token.
FaultyRefreshable(e) ==
  /\ ~e.failed
  /\ e.refresh # 0
  /\ e.refresh \notin refreshOver
Refreshable(e) ==
  /\ ~e.failed
  /\ ~e.used
  /\ e.refresh # 0
  /\ e.refresh \notin refreshOver

ReadCached(c) ==
  /\ At(c, "read")
  /\ \/ Absent /\ Goto(c, "grant", NoEntry) /\ UNCHANGED lock
     \/ file.state = "torn" /\ Return(c)
     \/ /\ file.state = "token"
        /\ IF ~Usable(file.entry) /\ Refreshable(file.entry)
           THEN Goto(c, "refresh", file.entry) /\ UNCHANGED lock
           ELSE Return(c)
  /\ UNCHANGED <<file, providerVars, historyVars, boundVars>>

-----------------------------------------------------------------------------
(* The provider, which answers or refuses as it likes.                     *)

RequestToken(c) ==
  /\ At(c, "grant")
  /\ Goto(c, "granting", NoEntry)
  /\ UNCHANGED <<file, lock, providerVars, historyVars, boundVars>>

\* A missing secret, no answer, or one without a token: nothing is stored.
GrantFails(c) ==
  /\ clients[c].pc \in {"grant", "granting"}
  /\ Return(c)
  /\ UNCHANGED <<file, providerVars, historyVars, boundVars>>

GrantSucceeds(c) ==
  /\ At(c, "granting")
  /\ issued < MaxTokens
  /\ issued' = issued + 1
  /\ grants' = [grants EXCEPT ![ProcessOf[c]] = @ + 1]
  /\ \E refresh \in {0, issued + 1} :
       Goto(c, "mkdir", [access |-> issued + 1, refresh |-> refresh,
                         used |-> FALSE, failed |-> FALSE])
  /\ UNCHANGED <<file, lock, expired, refreshOver, presented, boundVars>>

RequestRefresh(c) ==
  /\ At(c, "refresh")
  /\ presented' = [presented EXCEPT ![ProcessOf[c]][clients[c].entry.refresh] = @ + 1]
  /\ Goto(c, "refreshing", clients[c].entry)
  /\ UNCHANGED <<file, lock, providerVars, grants, boundVars>>

RefreshSucceeds(c) ==
  /\ At(c, "refreshing")
  /\ issued < MaxTokens
  /\ issued' = issued + 1
  /\ \E refresh \in {clients[c].entry.refresh, issued + 1} :
       Goto(c, "mkdir", [access |-> issued + 1, refresh |-> refresh,
                         used |-> TRUE, failed |-> FALSE])
  /\ UNCHANGED <<file, lock, expired, refreshOver, historyVars, boundVars>>

\* markCachedTransportRefreshFailed, also when only the client has gone away
RefreshFails(c) ==
  /\ clients[c].pc \in {"refresh", "refreshing"}
  /\ Goto(c, "mkdir", [access |-> 0, refresh |-> clients[c].entry.refresh,
                       used |-> TRUE, failed |-> TRUE])
  /\ UNCHANGED <<file, lock, providerVars, historyVars, boundVars>>

-----------------------------------------------------------------------------
(* storeCachedTransportToken: MkdirAll, then os.WriteFile.                 *)

MakeDir(c) ==
  /\ At(c, "mkdir")
  /\ file' = IF file.state = "noDir" THEN Without("noFile") ELSE file
  /\ Goto(c, "open", clients[c].entry)
  /\ UNCHANGED <<lock, providerVars, historyVars, boundVars>>

\* An error when the directory has been removed meanwhile.
Truncate(c) ==
  /\ At(c, "open")
  /\ IF file.state = "noDir"
     THEN Return(c) /\ UNCHANGED file
     ELSE file' = Without("torn") /\ Goto(c, "write", clients[c].entry) /\ UNCHANGED lock
  /\ UNCHANGED <<providerVars, historyVars, boundVars>>

\* What is written to a removed file is lost; over the bytes of another
\* process it may come out as neither's.
Write(c) ==
  /\ At(c, "write")
  /\ \/ Absent /\ UNCHANGED file
     \/ ~Absent /\ file' = [state |-> "token", entry |-> clients[c].entry]
     \/ file.state = "token" /\ file' = Without("torn")
  /\ Return(c)
  /\ UNCHANGED <<providerVars, historyVars, boundVars>>

StoreFails(c) ==
  /\ clients[c].pc \in {"mkdir", "open", "write"}
  /\ faults < MaxFaults
  /\ faults' = faults + 1
  /\ Return(c)
  /\ UNCHANGED <<file, providerVars, historyVars, clears>>

-----------------------------------------------------------------------------

\* os.RemoveAll in handleRuntimeSessionClose
Clear ==
  /\ clears < MaxClears
  /\ clears' = clears + 1
  /\ file' = Without("noDir")
  /\ UNCHANGED <<clients, lock, providerVars, historyVars, faults>>

Expire(n) ==
  /\ n <= issued
  /\ \/ expired' = expired \cup {n} /\ UNCHANGED refreshOver
     \/ refreshOver' = refreshOver \cup {n} /\ UNCHANGED expired
  /\ UNCHANGED <<file, clients, lock, issued, historyVars, boundVars>>

Crash(p) ==
  /\ faults < MaxFaults
  /\ faults' = faults + 1
  /\ clients' = [c \in Clients |-> IF ProcessOf[c] = p THEN Idle ELSE clients[c]]
  /\ lock' = [lock EXCEPT ![p] = Nobody]
  /\ UNCHANGED <<file, providerVars, historyVars, clears>>

ClientStep(c) ==
  \/ Resolve(c)
  \/ Lock(c)
  \/ ReadCached(c)
  \/ RequestToken(c)
  \/ GrantFails(c)
  \/ GrantSucceeds(c)
  \/ RequestRefresh(c)
  \/ RefreshSucceeds(c)
  \/ RefreshFails(c)
  \/ MakeDir(c)
  \/ Truncate(c)
  \/ Write(c)
  \/ StoreFails(c)

Next ==
  \/ \E c \in Clients : ClientStep(c)
  \/ Clear
  \/ \E n \in Responses : Expire(n)
  \/ \E p \in Processes : Crash(p)

Spec == Init /\ [][Next]_vars

-----------------------------------------------------------------------------
(* Properties.                                                             *)

\* The file, the clients and the provider keep their type, and a client holds
\* the lock of its process exactly between lockTransportTokenKey and the
\* deferred unlock.
TypeOK ==
  /\ file \in File
  /\ clients \in [Clients -> Client]
  /\ lock \in [Processes -> Clients \cup {Nobody}]
  /\ \A c \in Clients : clients[c].pc \notin {"idle", "lock"} <=> lock[ProcessOf[c]] = c
  /\ issued \in 0..MaxTokens
  /\ expired \subseteq Responses
  /\ refreshOver \subseteq Responses
  /\ presented \in [Processes -> [Responses -> Nat]]
  /\ grants \in [Processes -> Nat]
  /\ clears \in 0..MaxClears
  /\ faults \in 0..MaxFaults

\* A process sends a refresh token once, however many of its clients find the
\* access token expired: twice only if it died, or could not store the answer.
RefreshBudget ==
  \A p \in Processes, r \in Responses : presented[p][r] <= 1 + faults

\* A process gets one token by client credentials, and another one only after
\* a session-close or a fault: a transport whose refresh is spent or refused
\* fails closed and does not start over.
GrantBudget == \A p \in Processes : grants[p] <= 1 + clears + faults

\* Clients that share the state of an instance never race duplicate refreshes.
NoDuplicateRefresh ==
  \A p, q \in Processes : \A r \in Responses :
    presented[p][r] > 0 /\ presented[q][r] > 0 => p = q
=============================================================================
