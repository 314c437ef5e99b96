------------------------------ MODULE OAuthTokens ------------------------------
(***************************************************************************)
(* ResolveOAuthAccessTokenWithOptions (pkg/auth/oauth.go): a caller finds  *)
(* the endpoints, looks for a cached token, and otherwise asks for one, by *)
(* client credentials or through a browser and a loopback listener, and    *)
(* stores it.  Callers of one process share its memory, all share the      *)
(* files of a state directory, and nothing locks them out of each other.   *)
(*                                                                         *)
(* A token is its place in issued.  A URL is a name and "" is none; the    *)
(* order of scopes, which the code keeps in its cache keys, is left out.   *)
(***************************************************************************)
EXTENDS Naturals, FiniteSets, Sequences

CONSTANTS
  Callers,
  ProcessOf,   \* of every caller
  Documents,   \* of every issuer: its authURL and tokenURL
  MaxTokens

ASSUME OAuthAssumption == MaxTokens \in Nat

VARIABLES
  job,      \* per caller, its call of ResolveOAuthAccessTokenWithOptions
  memory,   \* memoryTokenCache: per process, tokens by cache key
  files,    \* tokens by directory and key: a token, Empty or Torn
  issued,   \* the tokens issued, with what was asked for
  lapsed    \* tokens less than 5 s before the expiry the code knows

oauthVars == <<job, memory, files, issued, lapsed>>

NoFiles == [k \in {} |-> 0]
Empty == MaxTokens + 1
Torn == MaxTokens + 2
With(f, k, v) == [x \in DOMAIN f \cup {k} |-> IF x = k THEN v ELSE f[x]]
NoJob == [pc |-> "none"]

OAuthInit ==
  /\ job = [c \in Callers |-> NoJob]
  /\ memory = [p \in {ProcessOf[c] : c \in Callers} |-> NoFiles]
  /\ files = NoFiles /\ issued = << >> /\ lapsed = {}

-----------------------------------------------------------------------------
(* What a call asks for.                                                   *)

\* the first URL given: by the secret, or by a flow of its mode
Selected(own, flows, mode, field) ==
  LET given == SelectSeq(flows, LAMBDA f : f.mode = mode /\ f[field] # "")
  IN IF own # "" THEN own ELSE IF given = << >> THEN "" ELSE given[1][field]

Configured(j) ==
  [auth |-> IF j.secret.mode = "clientCredentials" THEN ""
            ELSE Selected(j.secret.authURL, j.requirement.flows, "authorizationCode", "authURL"),
   token |-> Selected(j.secret.tokenURL, j.requirement.flows, j.secret.mode, "tokenURL")]

Complete(j, urls) ==
  urls.token # "" /\ (j.secret.mode = "authorizationCode" => urls.auth # "")

Issuer(j) == IF j.secret.issuer # "" THEN j.secret.issuer ELSE j.requirement.oidc

Discovered(j) ==
  LET own == Configured(j)  document == Documents[Issuer(j)]
  IN [auth |-> IF j.secret.mode = "authorizationCode" /\ own.auth = "" THEN document.authURL
               ELSE own.auth,
      token |-> IF own.token = "" THEN document.tokenURL ELSE own.token]

JoinScopes(j) == j.secret.scopes \cup j.requirement.scopes

FaultyTokenCacheKey(j) ==
  <<j.provider, j.secret.mode, j.urls, j.secret.issuer, j.requirement.oidc, j.secret.client,
    j.secret.scopes, j.secret.audience>>
TokenCacheKey(j) ==
  <<j.provider, j.secret.mode, j.urls, j.secret.issuer, j.requirement.oidc, j.secret.client,
    IF j.secret.mode = "clientCredentials" THEN "" ELSE j.secret.redirect,
    JoinScopes(j), j.secret.audience>>

\* the form of the token request
Form(j) == [grant |-> j.secret.mode, endpoint |-> j.urls.token, client |-> j.secret.client,
            scopes |-> JoinScopes(j), audience |-> j.secret.audience]

-----------------------------------------------------------------------------
Begun(dir, provider, secret, requirement, interactive) ==
  [pc |-> "start", dir |-> dir, provider |-> provider, secret |-> secret,
   requirement |-> requirement, interactive |-> interactive,
   urls |-> [auth |-> "", token |-> ""], token |-> 0]

At(c, pc) == job[c].pc = pc
Goto(c, pc) == job' = [job EXCEPT ![c].pc = pc]
Failed(c) == Goto(c, "failed") /\ UNCHANGED <<memory, files, issued, lapsed>>
Key(c) == <<job[c].dir, TokenCacheKey(job[c])>>

\* resolveTokenURL, resolveAuthorizationCodeEndpoints, and the client id
FindEndpoints(c) ==
  /\ At(c, "start")
  /\ LET j == job[c]
         urls == IF Complete(j, Configured(j)) THEN Configured(j)
                 ELSE IF Issuer(j) \in DOMAIN Documents THEN Discovered(j)
                 ELSE [auth |-> "", token |-> ""]
     IN \/ /\ Complete(j, urls)
           /\ job' = [job EXCEPT ![c].urls = urls, ![c].pc = "load"]
           /\ UNCHANGED <<memory, files, issued, lapsed>>
        \/ Failed(c)

Cached(c) ==
  LET cache == IF job[c].secret.storage = "memory" THEN memory[ProcessOf[c]] ELSE files
      k == IF job[c].secret.storage = "memory" THEN TokenCacheKey(job[c]) ELSE Key(c)
  IN IF k \in DOMAIN cache THEN cache[k] ELSE 0

\* loadCachedToken: a file that is no JSON is an error
LoadCached(c) ==
  /\ At(c, "load")
  /\ \/ Cached(c) \in {Empty, Torn} /\ Failed(c)
     \/ /\ Cached(c) \in DOMAIN issued \ lapsed
        /\ job' = [job EXCEPT ![c].token = Cached(c), ![c].pc = "done"]
        /\ UNCHANGED <<memory, files, issued, lapsed>>
     \/ /\ Cached(c) \in lapsed \cup {0}
        /\ \/ job[c].secret.mode = "clientCredentials" /\ Goto(c, "request")
           \/ job[c].secret.mode = "authorizationCode" /\ job[c].interactive /\ Goto(c, "listen")
           \/ /\ job[c].secret.mode = "authorizationCode" /\ ~job[c].interactive
              /\ Goto(c, "failed")  \* ErrInteractiveRequired
        /\ UNCHANGED <<memory, files, issued, lapsed>>

\* prepareRedirectListener: a fixed port is held until the login has its token
Listening(c) == job[c].pc \in {"login", "request"} /\ job[c].secret.mode = "authorizationCode"
Listen(c) ==
  /\ At(c, "listen")
  /\ \/ /\ job[c].secret.redirect # "auto" =>
             \A d \in Callers : Listening(d) => job[d].secret.redirect # job[c].secret.redirect
        /\ Goto(c, "login") /\ UNCHANGED <<memory, files, issued, lapsed>>
     \/ Failed(c)

\* the user logs in; or the browser does not start, the state is another, the
\* code is missing, 120 s have passed or the caller is cancelled
Login(c) ==
  /\ At(c, "login")
  /\ \/ Goto(c, "request") /\ UNCHANGED <<memory, files, issued, lapsed>>
     \/ Failed(c)

RequestToken(c) ==
  /\ At(c, "request")
  /\ \/ /\ Len(issued) < MaxTokens
        /\ \E timed \in BOOLEAN :
             issued' = Append(issued, [form |-> Form(job[c]), timed |-> timed])
        /\ job' = [job EXCEPT ![c].token = Len(issued) + 1, ![c].pc = "store"]
        /\ UNCHANGED <<memory, files, lapsed>>
     \/ Failed(c)

\* storeCachedToken; os.WriteFile truncates the file and writes it
Store(c) ==
  /\ At(c, "store")
  /\ \/ /\ job[c].secret.storage = "memory"
        /\ memory' = [memory EXCEPT ![ProcessOf[c]] = With(@, TokenCacheKey(job[c]), job[c].token)]
        /\ Goto(c, "done") /\ UNCHANGED <<files, issued, lapsed>>
     \/ /\ job[c].secret.storage = "instance"
        /\ files' = With(files, Key(c), Empty)
        /\ Goto(c, "write") /\ UNCHANGED <<memory, issued, lapsed>>
     \/ job[c].secret.storage = "instance" /\ Failed(c)

\* of two writes the shorter leaves the end of the longer one behind
Write(c) ==
  /\ At(c, "write")
  /\ \/ /\ \E content \in IF files[Key(c)] = Empty THEN {job[c].token} ELSE {job[c].token, Torn} :
             files' = [files EXCEPT ![Key(c)] = content]
        /\ Goto(c, "done")
     \/ files' = [files EXCEPT ![Key(c)] = Torn] /\ Goto(c, "failed")
  /\ UNCHANGED <<memory, issued, lapsed>>

\* the directory was removed after the file was opened
WriteUnlinked(c) ==
  At(c, "unlinked") /\ Goto(c, "done") /\ UNCHANGED <<memory, files, issued, lapsed>>

ClearDirectory(dir) ==
  /\ files' = [k \in {x \in DOMAIN files : x[1] # dir} |-> files[k]]
  /\ job' = [c \in Callers |-> IF At(c, "write") /\ job[c].dir = dir
                               THEN [job[c] EXCEPT !.pc = "unlinked"] ELSE job[c]]
  /\ UNCHANGED <<memory, issued, lapsed>>

Lapse(t) ==
  /\ t \in DOMAIN issued \ lapsed /\ issued[t].timed
  /\ lapsed' = lapsed \cup {t} /\ UNCHANGED <<job, memory, files, issued>>

OAuthStep(c) ==
  \/ FindEndpoints(c) \/ LoadCached(c) \/ Listen(c) \/ Login(c) \/ RequestToken(c)
  \/ Store(c) \/ Write(c) \/ WriteUnlinked(c)

-----------------------------------------------------------------------------
\* A token that a call gets, cached or new, was issued for the endpoint, the client, the
\* audience and just the scopes the call asks for (tokenCacheKey).
TokensFit ==
  \A c \in Callers : At(c, "done") => issued[job[c].token].form = Form(job[c])
=============================================================================
