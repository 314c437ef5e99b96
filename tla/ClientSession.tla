----------------------------- MODULE ClientSession -----------------------------
(***************************************************************************)
(* One run of open-cli against a remote runtime: the bearer token is       *)
(* resolved (internal/auth/token.go, browser.go), kept in a TokenSession   *)
(* (internal/runtime/session.go) and sent with every request (client.go):  *)
(* first for the catalog (commands/root.go), then for the command.         *)
(*                                                                         *)
(* The runtime that accepts or rejects a token and the provider that       *)
(* issues it are outside.                                                  *)
(***************************************************************************)
EXTENDS OAuthTokens

CONSTANTS
  Cli,          \* the caller that is the client
  Remotes,      \* runtime.remote.oauth of the configurations: [mode, delegated]
  BrowserFlows, \* metadata of /v1/auth/browser-config, as secrets
  MaxGrants,    \* tokens the provider issues to the client
  MaxRuns       \* runs of the client, one after the other

ASSUME SessionAssumption == Cli \in Callers /\ MaxGrants \in Nat /\ MaxRuns \in Nat

VARIABLES
  remote,    \* runtime.remote.oauth
  stage,     \* what the run is doing
  primary,   \* the primary token: its place in granted, or 0 for the empty one
  session,   \* TokenSession; forced is an expiry set by HandleAuthnFailed
  granted,   \* tokens of this run: [kind, timed]
  expiring,  \* those less than TokenRefreshGrace before the expiry the client knows
  left,      \* requests the command has yet to send
  sent,      \* tokens this run has sent to the runtime
  refreshes, \* refreshes of this run
  runs

sessionVars == <<remote, stage, primary, session, granted, expiring, left, sent, refreshes, runs>>

NewSession(token, refreshable) ==
  [token |-> token, refreshable |-> refreshable, refreshed |-> FALSE, forced |-> FALSE]

Fresh ==
  /\ stage' = "handshake" /\ primary' = 0 /\ session' = NewSession(0, FALSE)
  /\ granted' = << >> /\ expiring' = {} /\ left' = 0 /\ sent' = {} /\ refreshes' = 0

SessionInit ==
  /\ remote \in Remotes
  /\ stage = "handshake" /\ primary = 0 /\ session = NewSession(0, FALSE)
  /\ granted = << >> /\ expiring = {} /\ left = 0 /\ sent = {} /\ refreshes = 0 /\ runs = 1

Is(s) == stage = s
NewToken == Len(granted) + 1
Grant(kind) ==
  /\ Len(granted) < MaxGrants
  /\ \E timed \in BOOLEAN : granted' = Append(granted, [kind |-> kind, timed |-> timed])
Fail ==
  /\ stage' = "ended"
  /\ UNCHANGED <<remote, primary, session, granted, expiring, left, sent, refreshes, runs, oauthVars>>

-----------------------------------------------------------------------------
(* ResolveToken.                                                           *)

\* FetchHandshake, and for a browser login the metadata of the runtime
Handshake ==
  /\ Is("handshake")
  /\ \/ /\ stage' = "primary"
        /\ UNCHANGED <<remote, primary, session, granted, expiring, left, sent, refreshes, runs,
                       oauthVars>>
     \/ remote.mode # "providedToken" /\ Fail

\* resolvePrimaryToken: the token of an environment variable, which may be unset
ProvidedToken ==
  /\ Is("primary") /\ remote.mode = "providedToken"
  /\ \/ granted' = << [kind |-> "provided", timed |-> FALSE] >> /\ primary' = 1
     \/ primary' = 0 /\ UNCHANGED granted
  /\ stage' = "delegate"
  /\ UNCHANGED <<remote, session, expiring, left, sent, refreshes, runs, oauthVars>>

\* ResolveOAuthClientToken
ClientToken ==
  /\ Is("primary") /\ remote.mode = "oauthClient"
  /\ \/ /\ Grant("client") /\ primary' = NewToken /\ stage' = "delegate"
        /\ UNCHANGED <<remote, session, expiring, left, sent, refreshes, runs, oauthVars>>
     \/ Fail

\* AcquireBrowserLoginToken: the flow of the tool calls, in the client's own state directory
BrowserLogin ==
  /\ Is("primary") /\ remote.mode = "browserLogin" /\ job[Cli] = NoJob
  /\ \E flow \in BrowserFlows :
       job' = [job EXCEPT ![Cli] =
                 Begun("client", <<"runtime.browser", flow.authURL>>, flow,
                       [name |-> "runtime", type |-> "oauth2", scopes |-> flow.scopes,
                        flows |-> << >>, oidc |-> ""], TRUE)]
  /\ UNCHANGED <<sessionVars, memory, files, issued, lapsed>>

\* the session is not told when the token expires
BrowserLoginEnds ==
  /\ Is("primary") /\ remote.mode = "browserLogin"
  /\ \/ /\ At(Cli, "done")
        /\ granted' = << [kind |-> "browser", timed |-> FALSE] >>
        /\ primary' = 1 /\ stage' = "delegate"
     \/ At(Cli, "failed") /\ stage' = "ended" /\ UNCHANGED <<granted, primary>>
  /\ job' = [job EXCEPT ![Cli] = NoJob]
  /\ UNCHANGED <<remote, session, expiring, left, sent, refreshes, runs, memory, files, issued, lapsed>>

\* without delegation only the token of oauthClient can be acquired again
StartSession ==
  /\ Is("delegate") /\ ~remote.delegated
  /\ session' = NewSession(primary, remote.mode = "oauthClient") /\ stage' = "catalog"
  /\ UNCHANGED <<remote, primary, granted, expiring, left, sent, refreshes, runs, oauthVars>>

\* resolveDelegatedRuntimeToken: an empty token cannot be exchanged; only a
\* browser login is not repeated for a later exchange
Delegate ==
  /\ Is("delegate") /\ remote.delegated
  /\ \/ /\ primary # 0 /\ Grant("delegated")
        /\ session' = NewSession(NewToken, remote.mode # "browserLogin") /\ stage' = "catalog"
        /\ UNCHANGED <<remote, primary, expiring, left, sent, refreshes, runs, oauthVars>>
     \/ Fail

-----------------------------------------------------------------------------
(* HTTPClient.do and TokenSession: first FetchCatalog, then the command's  *)
(* requests, of which each is the last if it fails.                        *)

Asking == stage \in {"catalog", "command"}
IsExpiring == session.forced \/ session.token \in expiring
Refreshable == session.refreshable /\ ~session.refreshed

\* 401 without asking the runtime, also when the refresh fails
PreflightFails == Asking /\ IsExpiring /\ Fail

FaultyRefreshed == session' = [session EXCEPT !.token = NewToken, !.forced = FALSE]
Refreshed == session' = [session EXCEPT !.token = NewToken, !.forced = FALSE, !.refreshed = TRUE]

\* the primary token is acquired again, and exchanged if it was before; the
\* new token is sent as it is
FaultyRefreshKind == IF remote.mode = "oauthClient" THEN "client" ELSE "delegated"
RefreshKind == IF remote.delegated THEN "delegated" ELSE "client"
Refresh ==
  /\ Asking /\ IsExpiring /\ Refreshable
  /\ Grant(RefreshKind) /\ Refreshed
  /\ refreshes' = refreshes + 1 /\ sent' = sent \cup {NewToken}
  /\ stage' = IF Is("catalog") THEN "catalog_sent" ELSE "command_sent"
  /\ UNCHANGED <<remote, primary, expiring, left, runs, oauthVars>>

Send ==
  /\ Asking /\ ~IsExpiring
  /\ sent' = sent \cup ({session.token} \ {0})
  /\ stage' = IF Is("catalog") THEN "catalog_sent" ELSE "command_sent"
  /\ UNCHANGED <<remote, primary, session, granted, expiring, left, refreshes, runs, oauthVars>>

\* the catalog: an HTTPError ends the run; without a connection only the
\* commands that ask nothing are left.  status asks twice, others once
CatalogAnswer(answer) ==
  /\ Is("catalog_sent")
  /\ \/ answer = "ok" /\ \E n \in 0 .. 2 : left' = n
     \/ answer = "unreachable" /\ left' = 0
     \/ answer \in {"refused", "authn_failed"} /\ UNCHANGED left
  /\ stage' = IF left' = 0 THEN "ended" ELSE "command"

CommandAnswer(answer) ==
  /\ Is("command_sent")
  /\ left' = IF answer = "ok" THEN left - 1 ELSE 0
  /\ stage' = IF left' = 0 THEN "ended" ELSE "command"

\* HandleAuthnFailed: the next request is to refresh
Answer(answer) ==
  /\ CatalogAnswer(answer) \/ CommandAnswer(answer)
  /\ session' = [session EXCEPT !.forced = @ \/ (answer = "authn_failed" /\ Refreshable)]
  /\ UNCHANGED <<remote, primary, granted, expiring, sent, refreshes, runs, oauthVars>>

TokenExpires ==
  /\ \E t \in DOMAIN granted \ expiring : granted[t].timed /\ expiring' = expiring \cup {t}
  /\ ~Is("ended")
  /\ UNCHANGED <<remote, stage, primary, session, granted, left, sent, refreshes, runs, oauthVars>>

\* the user breaks the run off, wherever it is
Interrupt ==
  /\ Is("primary") /\ job[Cli] # NoJob
  /\ stage' = "ended" /\ job' = [job EXCEPT ![Cli] = NoJob]
  /\ UNCHANGED <<remote, primary, session, granted, expiring, left, sent, refreshes, runs, memory, files,
                 issued, lapsed>>

NextRun ==
  /\ Is("ended") /\ runs < MaxRuns /\ Fresh /\ runs' = runs + 1
  /\ UNCHANGED <<remote, oauthVars>>

SessionStep ==
  \/ Handshake \/ ProvidedToken \/ ClientToken \/ BrowserLogin \/ BrowserLoginEnds
  \/ StartSession \/ Delegate \/ PreflightFails \/ Refresh \/ Send
  \/ (\E answer \in {"ok", "refused", "authn_failed", "unreachable"} : Answer(answer))
  \/ TokenExpires \/ Interrupt \/ NextRun

-----------------------------------------------------------------------------
\* A run refreshes its token once at the most, however often the token is about to expire and
\* the runtime rejects it (TokenSession).
RefreshOnce == refreshes <= 1

\* With delegation enabled the runtime is never shown the token the delegated one was
\* exchanged for, neither at first nor after a refresh (resolveDelegatedRuntimeToken).
DelegatedOnly == remote.delegated => \A t \in sent : granted[t].kind = "delegated"
=============================================================================
