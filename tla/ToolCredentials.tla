--------------------------- MODULE ToolCredentials ---------------------------
(***************************************************************************)
(* resolveAuthPlan: the credentials of a tool call                         *)
(* (internal/runtime/auth_resolution.go), from the security requirements   *)
(* of its operation (pkg/catalog/build.go).  The alternatives are tried in *)
(* order, first without and then with a browser; the first one whose       *)
(* requirements all have a value becomes the plan.                         *)
(*                                                                         *)
(* An alternative is a set: the order of its requirements is that of a Go  *)
(* map.  A value is what goes into a header or the query, as a tuple.  A   *)
(* call keeps, as history, which static secrets it could not read.         *)
(***************************************************************************)
EXTENDS OAuthTokens

CONSTANTS
  ToolCalls,    \* callers that are tool calls
  Schemes,      \* security schemes of the document, by name
  Secrets,      \* secrets of the configuration, by name
  Operations,   \* what can be called: [service, security]
  MaxToolCalls

\* a requirement has a name, and the alternatives of an operation have an order
ASSUME CredentialAssumption ==
  /\ ToolCalls \subseteq Callers
  /\ "none" \notin DOMAIN Schemes
  /\ \A o \in Operations : DOMAIN o.security \subseteq Nat

VARIABLES
  call,         \* per tool call
  toolCalls     \* calls so far

credentialVars == <<call, toolCalls>>

NoPlan == [t \in {} |-> << >>]
NoCall == [pc |-> "idle"]
CredentialInit == call = [c \in ToolCalls |-> NoCall] /\ toolCalls = 0

-----------------------------------------------------------------------------
(* extractAuthAlternatives: unknown schemes are dropped, and so is an      *)
(* alternative without any that is known.                                  *)

Requirement(name, scopes) ==
  LET s == Schemes[name]
  IN [name |-> name, type |-> s.type, target |-> s.target, flows |-> s.flows, oidc |-> s.oidc,
      scopes |-> scopes]

Alternative(item) ==
  {Requirement(name, item[name]) : name \in DOMAIN item \cap DOMAIN Schemes}

\* what is left, by its place in the document
AuthAlternatives(operation) ==
  LET known == {i \in DOMAIN operation.security : Alternative(operation.security[i]) # {}}
  IN [i \in known |-> Alternative(operation.security[i])]

FirstOf(places) == CHOOSE i \in places : \A j \in places : i <= j

\* lookupSecret
SecretKey(service, name) ==
  IF <<service, name>> \in DOMAIN Secrets THEN <<service, name>> ELSE <<name>>

-----------------------------------------------------------------------------
\* tryResolveAlternative starts with an empty plan
FaultyEmptyPlan(plan) == plan
EmptyPlan(plan) == NoPlan

FaultyPasses == <<TRUE, TRUE>>
Passes == <<FALSE, TRUE>>

\* resolveAuthPlan begins
StartCall(c, operation) ==
  /\ call[c].pc = "idle" /\ toolCalls < MaxToolCalls
  /\ toolCalls' = toolCalls + 1
  /\ LET alternatives == AuthAlternatives(operation)
         first == FirstOf(DOMAIN alternatives)
         none == DOMAIN alternatives = {}
     IN call' = [call EXCEPT ![c] =
          [pc |-> IF none THEN "ready" ELSE "resolving",
           operation |-> operation, pass |-> 1, next |-> IF none THEN 0 ELSE first,
           left |-> IF none THEN {} ELSE alternatives[first],
           plan |-> NoPlan, pending |-> "none", unread |-> {}]]
  /\ UNCHANGED oauthVars

\* the next alternative, the second pass, or the error of all of them
NextAlternative(k) ==
  LET alternatives == AuthAlternatives(k.operation)
      later == {i \in DOMAIN alternatives : i > k.next}
      last == later = {}
      next == FirstOf(IF last THEN DOMAIN alternatives ELSE later)
  IN IF last /\ k.pass = Len(Passes) THEN [k EXCEPT !.pc = "failed", !.pending = "none"]
     ELSE [k EXCEPT !.pass = IF last THEN @ + 1 ELSE @, !.next = next,
                    !.left = alternatives[next], !.plan = EmptyPlan(@), !.pending = "none"]

\* a value for its target: another value for the same one is a conflict
Planned(k, target, value) ==
  IF target \in DOMAIN k.plan /\ k.plan[target] # value THEN NextAlternative(k)
  ELSE [k EXCEPT !.plan = With(@, target, value), !.pending = "none"]

Authorization == <<"header", "Authorization">>
IsOAuth(r) == r.type \in {"oauth2", "openIdConnect"}
Target(r) == IF r.type = "apiKey" THEN r.target ELSE Authorization
StaticValue(r, secret) == IF r.type = "apiKey" THEN <<secret.value>> ELSE <<r.type, secret.value>>

\* a secret of the right kind is configured, and the requirement is a supported one
Usable(k, r) ==
  LET key == SecretKey(k.operation.service, r.name)
  IN /\ key \in DOMAIN Secrets
     /\ Secrets[key].type = IF IsOAuth(r) THEN "oauth2" ELSE "static"
     /\ r.type \in {"oauth2", "openIdConnect", "apiKey", "basic", "bearer"}
     /\ r.type = "apiKey" => r.target[1] \in {"header", "query"}

ResolveRequirement(c) ==
  /\ call[c].pc = "resolving" /\ call[c].pending = "none"
  /\ \E r \in call[c].left :
       LET k == [call[c] EXCEPT !.left = @ \ {r}]
           key == SecretKey(k.operation.service, r.name)
       IN \/ /\ ~Usable(k, r)
             /\ call' = [call EXCEPT ![c] = NextAlternative(k)]
             /\ UNCHANGED job
          \/ /\ Usable(k, r) /\ ~IsOAuth(r)
             /\ call' = [call EXCEPT ![c] = Planned(k, Target(r), StaticValue(r, Secrets[key]))]
             /\ UNCHANGED job
          \* the variable, file, keychain entry or command of the secret fails this time
          \/ /\ Usable(k, r) /\ ~IsOAuth(r)
             /\ call' = [call EXCEPT ![c] = NextAlternative([k EXCEPT !.unread = @ \cup {r.name}])]
             /\ UNCHANGED job
          \/ /\ Usable(k, r) /\ IsOAuth(r)
             /\ call' = [call EXCEPT ![c] = [k EXCEPT !.pending = r.name]]
             /\ job' = [job EXCEPT ![c] =
                          Begun("runtime", key, Secrets[key], r, Passes[k.pass])]
  /\ UNCHANGED <<toolCalls, memory, files, issued, lapsed>>

\* ResolveOAuthAccessTokenWithOptions returns
TokenResolved(c) ==
  /\ call[c].pc = "resolving" /\ call[c].pending # "none"
  /\ \/ /\ At(c, "done")
        /\ call' = [call EXCEPT ![c] = Planned(@, Authorization, <<"Bearer", job[c].token>>)]
     \/ At(c, "failed") /\ call' = [call EXCEPT ![c] = NextAlternative(@)]
  /\ job' = [job EXCEPT ![c] = NoJob]
  /\ UNCHANGED <<toolCalls, memory, files, issued, lapsed>>

PlanReady(c) ==
  /\ call[c].pc = "resolving" /\ call[c].left = {} /\ call[c].pending = "none"
  /\ call' = [call EXCEPT ![c].pc = "ready"]
  /\ UNCHANGED <<toolCalls, oauthVars>>

\* the request is sent with the plan, or the call fails
EndCall(c) ==
  /\ call[c].pc \in {"ready", "failed"}
  /\ call' = [call EXCEPT ![c] = NoCall]
  /\ UNCHANGED <<toolCalls, oauthVars>>

\* the runtime is killed; and any client's session-close removes the tokens
RuntimeExits ==
  /\ \E c \in ToolCalls : call[c] # NoCall
  /\ call' = [c \in ToolCalls |-> NoCall]
  /\ job' = [c \in Callers |-> IF c \in ToolCalls THEN NoJob ELSE job[c]]
  /\ memory' = [p \in DOMAIN memory |-> IF p = "runtime" THEN NoFiles ELSE memory[p]]
  /\ UNCHANGED <<toolCalls, files, issued, lapsed>>
SessionClose == ClearDirectory("runtime") /\ UNCHANGED credentialVars

CredentialStep(c) ==
  \/ (\E o \in Operations : StartCall(c, o))
  \/ ResolveRequirement(c) \/ TokenResolved(c) \/ PlanReady(c) \/ EndCall(c)

-----------------------------------------------------------------------------
Satisfies(k, r, value) ==
  LET secret == Secrets[SecretKey(k.operation.service, r.name)]
  IN IF IsOAuth(r) THEN /\ value[1] = "Bearer" /\ Len(value) = 2
                        /\ value[2] \in DOMAIN issued
                        /\ r.scopes \subseteq issued[value[2]].form.scopes
     ELSE value = StaticValue(r, secret)

\* The plan a call is sent with is one alternative, whole and nothing else: no value is left
\* over from an alternative that failed half-way, none is missing (resolveAuthPlan).
PlanIsOneAlternative ==
  \A c \in ToolCalls : call[c].pc = "ready" =>
    LET k == call[c]  alternatives == AuthAlternatives(k.operation)
    IN IF DOMAIN alternatives = {} THEN k.plan = NoPlan
       ELSE \E i \in DOMAIN alternatives :
              /\ DOMAIN k.plan = {Target(r) : r \in alternatives[i]}
              /\ \A r \in alternatives[i] : Satisfies(k, r, k.plan[Target(r)])

StaticallyMet(k, alternative) ==
  /\ \A r \in alternative : Usable(k, r) /\ ~IsOAuth(r) /\ r.name \notin k.unread
  /\ \A r, s \in alternative : Target(r) = Target(s) =>
       StaticValue(r, Secrets[SecretKey(k.operation.service, r.name)])
         = StaticValue(s, Secrets[SecretKey(k.operation.service, s.name)])

\* No tool call opens a browser while an alternative that needs none would do, wherever it
\* stands among the alternatives of the operation (resolveAuthPlan): each has a requirement
\* without a usable secret, one whose secret this call tried to read in vain, or a conflict.
BrowserIsLastResort ==
  \A c \in ToolCalls : At(c, "login") =>
    \A i \in DOMAIN AuthAlternatives(call[c].operation) :
      ~StaticallyMet(call[c], AuthAlternatives(call[c].operation)[i])
=============================================================================
