-------------------------- MODULE ToolAuthorization --------------------------
(***************************************************************************)
(* What a client of the runtime may see and run: scopes of its token,      *)
(* views, tool sets and policy (internal/runtime/server.go,                *)
(* pkg/policy/policy.go, pkg/catalog/build.go).                            *)
(*                                                                         *)
(* Every request loads the configuration and the catalog anew, and both    *)
(* may have changed since the last one: a file was edited, an upstream     *)
(* document lost an operation.  A pattern list is the set of tools its     *)
(* patterns match; for an allow list the model also keeps whether there    *)
(* is one, for a deny list whether "**" is in it.                          *)
(***************************************************************************)
EXTENDS FiniteSets

CONSTANTS
  Tools,         \* tool ids
  Services,
  ServiceOf,     \* the service of each tool
  Profiles,      \* agent profile names
  Discover,      \* the profile name "discover", which a built-in view has too
  Configs,       \* effective configurations that may be loaded
  Tokens,        \* the scopes of the tokens clients present
  Nothing        \* no profile

Modes == {"", "discover", "curated"}
ToolSet == [hasAllow : BOOLEAN, allow : SUBSET Tools, denyAll : BOOLEAN, deny : SUBSET Tools]
\* a profile that is not configured is Nothing
Profile == [mode : Modes, toolSet : ToolSet]
Config == [authEnabled : BOOLEAN, defaultMode : Modes,
           defaultProfile : Profiles \cup {Nothing},
           profiles : [Profiles -> Profile \cup {Nothing}],
           managedDeny : SUBSET Tools, deny : SUBSET Tools, approval : SUBSET Tools]
Scopes == [bundles : SUBSET Services, profiles : SUBSET Profiles, tools : SUBSET Tools]
\* what a request chooses
Query == [mode : Modes, profile : Profiles \cup {Nothing}, approval : BOOLEAN]

ASSUME AuthorizationAssumption ==
  /\ ServiceOf \in [Tools -> Services]
  /\ Configs \subseteq Config
  /\ Tokens \subseteq Scopes
  /\ Discover \in Profiles
  /\ Nothing \notin Profiles \cup Profile

VARIABLES
  config,     \* what LoadEffective returns now
  catalog,    \* the tools catalog.Build finds now
  token,      \* the scopes of the client's token
  called      \* history: tools executed since the last change

authorizationVars == <<config, catalog, token, called>>

-----------------------------------------------------------------------------
(* Tool sets and profiles.                                                 *)

Configured(p) == p # Nothing /\ config.profiles[p] # Nothing

\* a deny of "**" only counts when there is no allow list
ToolAllowed(t, toolSet) ==
  /\ toolSet.hasAllow => t \in toolSet.allow
  /\ t \notin toolSet.deny
  /\ toolSet.denyAll => toolSet.hasAllow

AuthorizedProfileTools(p) ==
  IF ~Configured(p) THEN {}
  ELSE LET profile == config.profiles[p]
           mode == IF profile.mode = "" THEN config.defaultMode ELSE profile.mode
       IN IF mode # "curated" THEN catalog
          ELSE {t \in catalog : ToolAllowed(t, profile.toolSet)}

-----------------------------------------------------------------------------
(* The authorization envelope.  The tools of bundle: and profile: scopes   *)
(* are united, tool: scopes that name a tool of the catalog narrow them,   *)
(* deny rules come last.                                                   *)

HasUnion(scopes) == scopes.bundles # {} \/ scopes.profiles # {}
FaultyUnion(scopes) ==
  {t \in catalog :
     /\ scopes.bundles # {} => ServiceOf[t] \in scopes.bundles
     /\ \A p \in scopes.profiles : t \in AuthorizedProfileTools(p)}
Union(scopes) ==
  {t \in catalog : ServiceOf[t] \in scopes.bundles}
    \cup UNION {AuthorizedProfileTools(p) : p \in scopes.profiles}
Explicit(scopes) == scopes.tools \cap catalog

FaultyCandidates(scopes) == Explicit(scopes) \cup Union(scopes)
FaultyCandidatesNoScope(scopes) ==
  IF HasUnion(scopes) THEN Union(scopes)
  ELSE IF Explicit(scopes) # {} THEN Explicit(scopes) ELSE catalog
Candidates(scopes) ==
  IF Explicit(scopes) = {} THEN Union(scopes)
  ELSE IF HasUnion(scopes) THEN Explicit(scopes) \cap Union(scopes)
  ELSE Explicit(scopes)

AuthorizedTools(scopes) == Candidates(scopes) \ (config.managedDeny \cup config.deny)

Authorized(t) == config.authEnabled => t \in AuthorizedTools(token)

-----------------------------------------------------------------------------
(* The policy decision.                                                    *)

\* resolveModeAndToolSet; NoToolSet is the zero value, which allows everything
NoToolSet == [hasAllow |-> FALSE, allow |-> {}, denyAll |-> FALSE, deny |-> {}]

ResolvedMode(q) ==
  LET mode == IF q.mode = "" THEN config.defaultMode ELSE q.mode IN
  IF Configured(q.profile) /\ config.profiles[q.profile].mode # ""
  THEN config.profiles[q.profile].mode
  ELSE mode

FaultyResolvedToolSet(q) ==
  IF Configured(config.defaultProfile) /\ ResolvedMode(q) = "curated"
  THEN config.profiles[config.defaultProfile].toolSet
  ELSE IF Configured(q.profile) THEN config.profiles[q.profile].toolSet
  ELSE NoToolSet

ResolvedToolSet(q) ==
  IF Configured(q.profile) THEN config.profiles[q.profile].toolSet
  ELSE IF Configured(config.defaultProfile) /\ ResolvedMode(q) = "curated"
  THEN config.profiles[config.defaultProfile].toolSet
  ELSE NoToolSet

Decide(t, q) ==
  IF t \in config.managedDeny THEN "managed_deny"
  ELSE IF ResolvedMode(q) = "curated" /\ ~ToolAllowed(t, ResolvedToolSet(q))
  THEN "curated_deny"
  ELSE IF t \in config.approval /\ ~q.approval THEN "approval_required"
  ELSE "allowed"

\* handleExecuteTool up to the call of the upstream
Verdict(t, q) ==
  IF t \notin catalog THEN "tool not found"
  ELSE IF ~Authorized(t) THEN "authz_denied"
  ELSE Decide(t, q)

-----------------------------------------------------------------------------
(* Views.  buildEffectiveViews puts the built-in view "discover", which    *)
(* has every tool, before those of the configured profiles, which it       *)
(* makes whatever the mode of the profile; a view is found by its name,    *)
(* the first one first.  So "discover" always names the built-in view,     *)
(* also when a profile of that name is configured.                         *)

HasView(p) == p = Discover \/ Configured(p)

ViewOf(p) ==
  IF p = Discover THEN catalog
  ELSE {t \in catalog : ToolAllowed(t, config.profiles[p].toolSet)}

SelectView(q) ==
  LET mode == IF q.mode = "" THEN config.defaultMode ELSE q.mode IN
  IF HasView(q.profile) THEN ViewOf(q.profile)
  ELSE IF mode = "curated" /\ HasView(config.defaultProfile)
  THEN ViewOf(config.defaultProfile)
  ELSE catalog

\* handleEffectiveCatalog: the filtered view
FilteredView(q) == {t \in SelectView(q) : Authorized(t)}

-----------------------------------------------------------------------------

AuthorizationInit ==
  /\ config \in Configs
  /\ catalog \in SUBSET Tools
  /\ token \in Tokens
  /\ called = {}

ConfigChanges ==
  /\ config' \in Configs
  /\ called' = {}
  /\ UNCHANGED <<catalog, token>>

CatalogChanges ==
  /\ catalog' \in SUBSET Tools
  /\ called' = {}
  /\ UNCHANGED <<config, token>>

\* a refused request changes nothing here
ExecuteTool(t, q) ==
  /\ Verdict(t, q) = "allowed"
  /\ called' = called \cup {t}
  /\ UNCHANGED <<config, catalog, token>>

AuthorizationNext ==
  \/ ConfigChanges
  \/ CatalogChanges
  \/ \E t \in Tools, q \in Query : ExecuteTool(t, q)

AuthorizationSpec == AuthorizationInit /\ [][AuthorizationNext]_authorizationVars

-----------------------------------------------------------------------------
(* Properties.                                                             *)

\* The state keeps its type: in particular nothing is run that the catalog
\* does not have.
TypeOK ==
  /\ config \in Configs
  /\ catalog \subseteq Tools
  /\ token \in Tokens
  /\ called \subseteq catalog

\* Profiles, modes and configuration never give a client more than its token
\* names: what it has run is of a bundle, a profile or a tool in its scopes,
\* and no deny rule of either kind matches it.
NothingBeyondScopes ==
  config.authEnabled =>
    \A t \in called :
      /\ \/ ServiceOf[t] \in token.bundles
         \/ t \in token.tools
         \/ \E p \in token.profiles : t \in AuthorizedProfileTools(p)
      /\ t \notin config.managedDeny \cup config.deny

\* The built-in view is taken by its name, as the profile of the request or
\* as the default profile; policy.Decide knows no profile of that name, or
\* takes the tool set of the configured one the view hides.
DiscoverByName(q) ==
  \/ q.profile = Discover
  \/ ~Configured(q.profile) /\ config.defaultProfile = Discover

\* Every tool in the view a client is shown can be run with the mode and the
\* profile it was shown for, given approval, unless a managed deny rule
\* forbids it: selectView and Decide choose by different rules and agree,
\* but for requests that Decide curates and selectView takes the view
\* "discover" for by its name.
ListedIsExecutable ==
  \A q \in Query :
    (DiscoverByName(q) => ResolvedMode(q) # "curated")
    => \A t \in FilteredView(q) :
         Verdict(t, [q EXCEPT !.approval = TRUE]) \in {"allowed", "managed_deny"}

\* The resolution algorithm as it was designed: start from the tools there
\* are, unite what the scopes expand to, intersect with the tools the tool:
\* scopes name when the token has such scopes, deny last.
DesignedEnvelope ==
  {t \in catalog :
    /\ HasUnion(token) =>
         \/ ServiceOf[t] \in token.bundles
         \/ \E p \in token.profiles : t \in AuthorizedProfileTools(p)
    /\ token.tools # {} => t \in token.tools
    /\ HasUnion(token) \/ token.tools # {}
    /\ t \notin config.managedDeny
    /\ t \notin config.deny}

\* The envelope is the designed one for every token without tool: scopes and
\* for every token one of whose tool: scopes names a tool the catalog has.
ResolvedEnvelopeFollowsDesign ==
  token.tools = {} \/ Explicit(token) # {} => AuthorizedTools(token) = DesignedEnvelope

\* A child token with some of its parent's bundle: and profile: scopes, and all
\* of its tool: scopes, may do no more than the parent; it has to keep one
\* bundle: or profile: scope, for without any the tool: scopes grant what
\* they otherwise only narrow.
ReducedTokenNarrows ==
  \A child \in Tokens :
    /\ child.bundles \subseteq token.bundles
    /\ child.profiles \subseteq token.profiles
    /\ child.tools = token.tools
    /\ HasUnion(token) => HasUnion(child)
    => AuthorizedTools(child) \subseteq AuthorizedTools(token)
=============================================================================
