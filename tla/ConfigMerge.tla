----------------------------- MODULE ConfigMerge -----------------------------
(***************************************************************************)
(* LoadEffective: the configuration files of four scopes are read, merged  *)
(* one over the other and validated (pkg/config/load.go, mcp.go,           *)
(* schema.go, discovery.go).                                               *)
(*                                                                         *)
(* A JSON object is a sparse function: its domain holds the fields the     *)
(* object gives, and the schema lets no string field be empty.  A list     *)
(* whose order nothing depends on is a set.  What a value says beyond its  *)
(* identity (a URL, a header) is left out.                                 *)
(***************************************************************************)
EXTENDS Naturals, Sequences

CONSTANTS
  Disks,      \* the files there may be, [Range of ScopeOrder -> file or NoFile or Broken]
  NoFile,     \* discovery finds no file for the scope
  Broken      \* the file cannot be read, is missing where a path was given,
              \* or does not fit the schema

ScopeOrder == <<"managed", "user", "project", "local">>

\* the sections of a file, empty where the file does not give them
Sections == {"top", "sources", "mcpServers", "services", "toolSets", "profiles", "secrets",
             "deny", "approval"}
ASSUME DiskAssumption ==
  \A d \in Disks : \A k \in 1 .. Len(ScopeOrder) :
    d[ScopeOrder[k]] \in {NoFile, Broken} \/ DOMAIN d[ScopeOrder[k]] = Sections

VARIABLES
  disk,            \* the files
  at,              \* position in ScopeOrder
  cfg,             \* the effective configuration so far
  sourceNames,     \* names given under "sources" by the files read so far
  mcpServerNames,  \* and under "mcpServers"
  loading          \* "merging", "loaded" or "rejected"

configVars == <<disk, at, cfg, sourceNames, mcpServerNames, loading>>

Empty == [f \in {} |-> f]
Over(new, old) == [f \in DOMAIN new \cup DOMAIN old |-> IF f \in DOMAIN new THEN new[f] ELSE old[f]]
Keep(f, fields) == [x \in DOMAIN f \cap fields |-> f[x]]
Drop(f, fields) == [x \in DOMAIN f \ fields |-> f[x]]
Gives(f, x) == x \in DOMAIN f
At(f, x) == IF Gives(f, x) THEN f[x] ELSE Empty
Says(f, x, v) == Gives(f, x) /\ f[x] = v
ListOf(f, x) == IF Gives(f, x) THEN f[x] ELSE {}

EmptyConfig == [top |-> Empty, sources |-> Empty, services |-> Empty, toolSets |-> Empty,
                profiles |-> Empty, secrets |-> Empty,
                deny |-> {}, managedDeny |-> {}, approval |-> {}]

-----------------------------------------------------------------------------
(* Merging: a field a later scope gives replaces the field, and some       *)
(* objects are merged field by field instead.                              *)

MergeInner(raw, cur, inner, Merge(_, _)) ==
  [f \in DOMAIN raw \cup DOMAIN cur |->
     IF ~Gives(raw, f) THEN cur[f]
     ELSE IF f \in inner THEN Merge(raw[f], At(cur, f)) ELSE raw[f]]

MergeRemoteOAuth(raw, cur) ==
  MergeInner(raw, cur, {"client", "browserLogin", "delegation"}, Over)
MergeRemote(raw, cur) == MergeInner(raw, cur, {"oauth"}, MergeRemoteOAuth)

\* the two spellings of introspection are kept in step
NormalizeRuntimeServerAuth(auth) ==
  IF Says(auth, "mode", "oauth2Introspection")
  THEN Over([validationProfile |-> "oauth2_introspection"], auth)
  ELSE IF ~Gives(auth, "mode") /\ Says(auth, "validationProfile", "oauth2_introspection")
  THEN Over([mode |-> "oauth2Introspection"], auth)
  ELSE auth
MergeServerAuth(raw, cur) == NormalizeRuntimeServerAuth(Over(raw, cur))
MergeServer(raw, cur) == MergeInner(raw, cur, {"auth"}, MergeServerAuth)

MergeRuntime(raw, cur) ==
  [f \in DOMAIN raw \cup DOMAIN cur |->
     CASE ~Gives(raw, f) -> cur[f]
       [] Gives(raw, f) /\ f = "local" -> Over(raw[f], At(cur, f))
       [] Gives(raw, f) /\ f = "remote" -> MergeRemote(raw[f], At(cur, f))
       [] Gives(raw, f) /\ f = "server" -> MergeServer(raw[f], At(cur, f))
       [] OTHER -> raw[f]]

\* what a change of type takes away
TransportExclusive(type) ==
  IF type = "stdio" THEN {"url", "headers", "headerSecrets"} ELSE {"command", "args", "env"}
OAuthExclusive(mode) ==
  IF mode = "clientCredentials"
  THEN {"authorizationURL", "interactive", "callbackPort", "redirectURI"} ELSE {}
SourceExclusive(type) ==
  IF type = "mcp" THEN {"uri"} ELSE {"transport", "disabledTools", "oauth"}

FaultyMergeTransport(raw, cur) == Over(raw, cur)
MergeTransport(raw, cur) ==
  Over(raw, IF Gives(raw, "type") /\ ~Says(cur, "type", raw["type"])
            THEN Drop(cur, TransportExclusive(raw["type"])) ELSE cur)
MergeOAuth(raw, cur) ==
  Over(raw, IF Gives(raw, "mode") /\ ~Says(cur, "mode", raw["mode"])
            THEN Drop(cur, OAuthExclusive(raw["mode"])) ELSE cur)

IsZeroSource(source) ==
  /\ DOMAIN source \subseteq {"enabled", "disabledTools"}
  /\ ~Says(source, "enabled", TRUE)
  /\ ListOf(source, "disabledTools") = {}

MergeSource(raw, current) ==
  LET cur == IF Gives(raw, "type") THEN Drop(current, SourceExclusive(raw["type"])) ELSE current
      newType == Keep(At(raw, "transport"), {"type"})
      leavesHttp == /\ newType # Empty
                    /\ ~Says(At(cur, "transport"), "type", newType["type"])
                    /\ newType["type"] # "streamable-http"
      kept == IF leavesHttp /\ ~Gives(raw, "oauth") THEN Drop(cur, {"oauth"}) ELSE cur
      toggle == IF Gives(raw, "enabled") THEN raw["enabled"]
                ELSE IsZeroSource(current) \/ Says(current, "enabled", TRUE)
  IN Over([enabled |-> toggle],
     Over(IF Gives(raw, "transport")
          THEN [transport |-> MergeTransport(raw["transport"], At(kept, "transport"))] ELSE Empty,
     Over(IF Gives(raw, "oauth")
          THEN [oauth |-> MergeOAuth(raw["oauth"], At(kept, "oauth"))] ELSE Empty,
     Over(raw, kept))))

\* objects by name whose entries are merged one by one
MergeEach(raw, cur, Merge(_, _)) == MergeInner(raw, cur, DOMAIN raw, Merge)

MergeToolSet(raw, cur) ==
  [list \in {"allow", "deny"} |-> ListOf(cur, list) \cup ListOf(raw, list)]

FaultyManagedDeny(scope, raw) == cfg.managedDeny \cup raw.deny
ManagedDeny(scope, raw) ==
  IF scope = "managed" THEN cfg.managedDeny \cup raw.deny ELSE cfg.managedDeny

MergeConfig(scope, raw) ==
  [top |-> MergeInner(raw.top, cfg.top, {"runtime"}, MergeRuntime),
   sources |-> MergeEach(raw.sources, cfg.sources, MergeSource),
   services |-> MergeEach(raw.services, cfg.services, Over),
   toolSets |-> MergeEach(raw.toolSets, cfg.toolSets, MergeToolSet),
   profiles |-> MergeEach(raw.profiles, cfg.profiles, Over),
   secrets |-> Over(raw.secrets, cfg.secrets),
   deny |-> cfg.deny \cup raw.deny,
   managedDeny |-> ManagedDeny(scope, raw),
   approval |-> cfg.approval \cup raw.approval]

-----------------------------------------------------------------------------
(* mcpServers entries become sources, and a source of type mcp gets the    *)
(* service of its name, before the file is merged.                         *)

FaultyAmbiguous(raw) ==
  \/ DOMAIN raw.sources \cap mcpServerNames # {}
  \/ DOMAIN raw.mcpServers \cap DOMAIN raw.sources # {}
Ambiguous(raw) ==
  \/ DOMAIN raw.sources \cap mcpServerNames # {}
  \/ DOMAIN raw.mcpServers \cap (DOMAIN raw.sources \cup sourceNames) # {}

TransportFields == {"type", "command", "args", "env", "url", "headers", "headerSecrets"}

NormalizeMCPSource(server) ==
  LET transport == Keep(server, TransportFields) IN
  Over([type |-> "mcp"],
  Over(IF transport = Empty THEN Empty ELSE [transport |-> transport],
       Keep(server, {"disabledTools", "oauth"})))

NormalizeMCPServers(raw) ==
  [raw EXCEPT !.sources =
     Over([n \in DOMAIN raw.mcpServers |-> NormalizeMCPSource(raw.mcpServers[n])], raw.sources)]

NormalizeMCPSources(raw) ==
  LET type(n) == Keep(Over(Keep(raw.sources[n], {"type"}), At(cfg.sources, n)), {"type"})
      orphans == {n \in DOMAIN raw.sources :
                    /\ Says(type(n), "type", "mcp")
                    /\ ~Gives(At(raw.services, n), "source")
                    /\ ~Gives(At(cfg.services, n), "source")}
  IN [raw EXCEPT !.services =
        MergeEach([n \in orphans |-> [source |-> n]], raw.services, Over)]

-----------------------------------------------------------------------------
(* Validation of the result.                                               *)

SourcesOf(c, types) == {n \in DOMAIN c.sources : c.sources[n]["type"] \in types}

\* required fields of the strict schema, and the fields a type forbids
ValidDocument(c) ==
  /\ {"cli", "mode", "runtime"} \subseteq DOMAIN c.top
  /\ \A n \in DOMAIN c.services : Gives(c.services[n], "source")
  /\ \A n \in DOMAIN c.sources :
       LET source == c.sources[n] IN
       /\ Gives(source, "type")
       /\ source["type"] = "mcp" => Gives(source, "transport") /\ ~Gives(source, "uri")
       /\ source["type"] # "mcp" =>
            /\ Gives(source, "uri")
            /\ ~Gives(source, "transport") /\ ~Gives(source, "oauth")
            /\ ListOf(source, "disabledTools") = {}
       /\ Gives(source, "transport") => Gives(source["transport"], "type")
       /\ Gives(source, "oauth") => Gives(source["oauth"], "mode")

ValidOAuth(oauth) ==
  /\ Says(oauth, "mode", "clientCredentials")
  /\ {"clientId", "clientSecret"} \subseteq DOMAIN oauth
  /\ {"issuer", "tokenURL"} \cap DOMAIN oauth # {}
  /\ OAuthExclusive("clientCredentials") \cap DOMAIN oauth = {}

\* a header map is the set of its names in lower case, the environment the
\* set of its variables; a list or a map that is given may be empty
ValidTransport(source) ==
  LET t == source["transport"] IN
  /\ IF t["type"] = "stdio"
     THEN /\ Gives(t, "command") /\ ~Gives(t, "url")
          /\ ListOf(t, "headers") = {} /\ ListOf(t, "headerSecrets") = {}
     ELSE /\ Gives(t, "url") /\ ~Gives(t, "command")
          /\ ListOf(t, "args") = {} /\ ListOf(t, "env") = {}
  /\ Gives(source, "oauth") =>
       /\ t["type"] = "streamable-http" /\ ValidOAuth(source["oauth"])
       /\ "authorization" \notin ListOf(t, "headers") \cup ListOf(t, "headerSecrets")
  /\ ListOf(t, "headers") \cap ListOf(t, "headerSecrets") = {}

ValidRemoteOAuth(oauth) ==
  /\ Says(oauth, "mode", "providedToken") =>
       /\ Gives(oauth, "tokenRef")
       /\ Says(At(oauth, "delegation"), "enabled", TRUE)
            => Gives(oauth["delegation"], "tokenExchangeURL")
  /\ Says(oauth, "mode", "oauthClient") =>
       {"tokenURL", "clientId", "clientSecret"} \subseteq DOMAIN At(oauth, "client")

ValidationProfile(auth) ==
  IF Says(auth, "mode", "oauth2Introspection") THEN "oauth2_introspection"
  ELSE IF Gives(auth, "validationProfile") THEN auth["validationProfile"] ELSE ""

ValidServerAuth(auth) ==
  /\ ValidationProfile(auth) = "oauth2_introspection"
       => {"audience", "introspectionURL"} \subseteq DOMAIN auth
  /\ ValidationProfile(auth) = "oidc_jwks"
       => {"audience", "issuer", "jwksURL"} \subseteq DOMAIN auth

ValidRuntime(runtime) ==
  /\ Says(runtime, "mode", "remote")
  /\ ~Gives(runtime, "local")
  /\ Gives(At(runtime, "remote"), "oauth")
       => ValidRemoteOAuth(runtime["remote"]["oauth"])
  /\ Gives(At(runtime, "server"), "auth") => ValidServerAuth(runtime["server"]["auth"])

CrossReferences(c) ==
  /\ \A n \in DOMAIN c.services :
       LET source == c.services[n]["source"] IN
       /\ source \in DOMAIN c.sources
       /\ c.sources[source]["type"] = "mcp" => n = source
  /\ \A n \in SourcesOf(c, {"mcp"}) : Says(At(c.services, n), "source", n)

Valid(c) ==
  /\ ValidDocument(c)
  /\ ValidRuntime(c.top["runtime"])
  /\ \A n \in SourcesOf(c, {"mcp"}) : ValidTransport(c.sources[n])
  /\ CrossReferences(c)

-----------------------------------------------------------------------------

ConfigInit ==
  /\ disk \in Disks
  /\ at = 1
  /\ cfg = EmptyConfig
  /\ sourceNames = {} /\ mcpServerNames = {}
  /\ loading = "merging"

Scope == ScopeOrder[at]

SkipScope ==
  /\ loading = "merging" /\ at <= Len(ScopeOrder)
  /\ disk[Scope] = NoFile
  /\ at' = at + 1
  /\ UNCHANGED <<disk, cfg, sourceNames, mcpServerNames, loading>>

RejectScope ==
  /\ loading = "merging" /\ at <= Len(ScopeOrder)
  /\ disk[Scope] # NoFile
  /\ disk[Scope] # Broken => Ambiguous(disk[Scope])
  /\ loading' = "rejected"
  /\ UNCHANGED <<disk, at, cfg, sourceNames, mcpServerNames>>

MergeScope ==
  /\ loading = "merging" /\ at <= Len(ScopeOrder)
  /\ disk[Scope] \notin {NoFile, Broken}
  /\ ~Ambiguous(disk[Scope])
  /\ sourceNames' = sourceNames \cup DOMAIN disk[Scope].sources
  /\ mcpServerNames' = mcpServerNames \cup DOMAIN disk[Scope].mcpServers
  /\ cfg' = MergeConfig(Scope, NormalizeMCPSources(NormalizeMCPServers(disk[Scope])))
  /\ at' = at + 1
  /\ UNCHANGED <<disk, loading>>

Validate ==
  /\ loading = "merging" /\ at > Len(ScopeOrder)
  /\ loading' = IF Valid(cfg) THEN "loaded" ELSE "rejected"
  /\ UNCHANGED <<disk, at, cfg, sourceNames, mcpServerNames>>

LoadEffective == SkipScope \/ RejectScope \/ MergeScope \/ Validate

-----------------------------------------------------------------------------
(* Properties.                                                             *)

Merged == {ScopeOrder[k] : k \in {j \in 1 .. at - 1 : disk[ScopeOrder[j]] # NoFile}}

\* Managed denies are absolute: once the managed file has been read, its deny
\* patterns, all of them and no pattern of another scope, are the managed
\* deny list, and the plain list has them too, whatever later scopes give.
ManagedDenyIsAbsolute ==
  LET managed == IF "managed" \in Merged THEN disk["managed"].deny ELSE {} IN
  /\ cfg.managedDeny = managed
  /\ managed \subseteq cfg.deny

\* No name is a source in one file and an MCP server in another, although a
\* file is only compared with the names of the files before it.
NamesAreUnambiguous ==
  loading = "loaded" =>
    \A s, t \in Merged : DOMAIN disk[s].sources \cap DOMAIN disk[t].mcpServers = {}

\* the file of position k, with its MCP servers as sources
FileSources(k) ==
  IF disk[ScopeOrder[k]] = NoFile THEN Empty ELSE NormalizeMCPServers(disk[ScopeOrder[k]]).sources
FileTransport(n, k) == At(At(FileSources(k), n), "transport")

\* the transport type source n has after the file of position k
TypeInForce(n, k) ==
  LET givers == {j \in 1 .. k : Gives(FileTransport(n, j), "type")} IN
  IF givers = {} THEN ""
  ELSE FileTransport(n, CHOOSE j \in givers : \A i \in givers : i <= j)["type"]

\* Changing the type of a source leaves nothing of the old type behind: a
\* command, an address or credentials that the type in force does not allow
\* were given by a file since the type came into force, so that no file is
\* rejected for what an earlier one said of another type.
NothingLeftOver ==
  \A n \in DOMAIN cfg.sources :
    LET source == cfg.sources[n]
        transport == At(source, "transport")
        since(k) == \A j \in k .. at - 1 : Says(transport, "type", TypeInForce(n, j))
    IN Gives(transport, "type") =>
         /\ \A f \in TransportExclusive(transport["type"]) \cap DOMAIN transport :
              \E k \in 1 .. at - 1 : Gives(FileTransport(n, k), f) /\ since(k)
         /\ (transport["type"] # "streamable-http" /\ Gives(source, "oauth")) =>
              \E k \in 1 .. at - 1 : Gives(At(FileSources(k), n), "oauth") /\ since(k)
=============================================================================
