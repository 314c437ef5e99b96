----------------------------- MODULE Policy_proofs -----------------------------
(***************************************************************************)
(* Proofs about what decides which tools there are and who may run them:   *)
(* the configuration and the catalog built from it (ConfigMerge,           *)
(* ApiCatalogDiscovery, CatalogBuild), the authorization of tools          *)
(* (ToolAuthorization) and the control plane (AdminPublish), for any       *)
(* files, documents, tokens and requests.                                  *)
(***************************************************************************)
EXTENDS CatalogBuild, ToolAuthorization, AdminPublish, SequenceTheorems, WellFoundedInduction,
        TLAPS

-----------------------------------------------------------------------------
(* Configuration: for any files in the four scopes.                        *)

Files == DOMAIN ScopeOrder

LEMMA FourScopes ==
  /\ Len(ScopeOrder) = 4 /\ Files = 1 .. 4
  /\ ScopeOrder[1] = "managed" /\ \A k \in Files : k # 1 => ScopeOrder[k] # "managed"
  BY DEF ScopeOrder, Files

NamesInv ==
  /\ \A s \in Merged : /\ DOMAIN disk[s].sources \subseteq sourceNames
                       /\ DOMAIN disk[s].mcpServers \subseteq mcpServerNames
  /\ sourceNames \cap mcpServerNames = {}

ConfigInv ==
  /\ disk \in Disks /\ at \in 1 .. 5
  /\ ManagedDenyIsAbsolute /\ NamesInv

(* What a step of the program does to the configuration.                   *)
LEMMA ConfigSteps == [Next]_vars => LoadEffective \/ UNCHANGED configVars
  BY Zenon DEF Next, Build, BeginBuild, BuildNamed, NamedDone, BuildUnnamed, BeginExpand, Walk,
     WalkFails, BeginServices, BuildDiscovered, EndExpand, Finish, vars

LEMMA MergedStep ==
  ASSUME at \in 1 .. 4, at' = at + 1, UNCHANGED disk
  PROVE  Merged' = Merged \cup {s \in {Scope} : disk[s] # NoFile}
<1>1. 1 .. at' - 1 = (1 .. at - 1) \cup {at}
  OBVIOUS
<1>. QED
  BY <1>1 DEF Merged, Scope

(* Before a file is merged its MCP servers become sources and services,    *)
(* and the rest of it stays.                                               *)
LEMMA Normalized ==
  ASSUME NEW raw, DOMAIN raw = Sections
  PROVE  LET n == NormalizeMCPSources(NormalizeMCPServers(raw)) IN
         /\ n.deny = raw.deny /\ n.sources = NormalizeMCPServers(raw).sources
<1>. DEFINE m == NormalizeMCPServers(raw)
<1>1. DOMAIN m = Sections /\ m.deny = raw.deny
  BY DEF NormalizeMCPServers, Sections
<1>. HIDE DEF m
<1>2. LET n == NormalizeMCPSources(m) IN n.deny = m.deny /\ n.sources = m.sources
  BY <1>1 DEF NormalizeMCPSources, Sections
<1>. QED
  BY <1>1, <1>2 DEF m

LEMMA ConfigInvNext ==
  ASSUME ConfigInv, LoadEffective
  PROVE  ConfigInv'
<1>1. CASE SkipScope
  <2>1. at \in 1 .. 4 /\ at' = at + 1 /\ disk[Scope] = NoFile
        /\ UNCHANGED <<disk, cfg, sourceNames, mcpServerNames>>
    BY <1>1, FourScopes DEF SkipScope, ConfigInv
  <2>2. Merged' = Merged
    BY <2>1, MergedStep
  <2>. QED
    BY <2>1, <2>2, FourScopes DEF ConfigInv, ManagedDenyIsAbsolute, NamesInv, Scope
<1>2. CASE MergeScope
  <2>. DEFINE raw == disk[Scope]
              n == NormalizeMCPSources(NormalizeMCPServers(raw))
  <2>1. /\ at \in 1 .. 4 /\ at' = at + 1 /\ UNCHANGED disk /\ raw \notin {NoFile, Broken}
        /\ ~Ambiguous(raw) /\ sourceNames' = sourceNames \cup DOMAIN raw.sources
        /\ mcpServerNames' = mcpServerNames \cup DOMAIN raw.mcpServers
        /\ cfg' = MergeConfig(Scope, n)
    BY <1>2, FourScopes DEF MergeScope, ConfigInv
  <2>2. DOMAIN raw = Sections
    BY <2>1, FourScopes, DiskAssumption DEF ConfigInv, Scope
  <2>3. n.deny = raw.deny
    BY <2>2, Normalized
  <2>4. Merged' = Merged \cup {Scope}
    BY <2>1, MergedStep
  <2>5. cfg'.managedDeny = ManagedDeny(Scope, n) /\ cfg'.deny = cfg.deny \cup raw.deny
    BY <2>1, <2>3 DEF MergeConfig
  <2>. HIDE DEF n
  <2>6. ManagedDenyIsAbsolute'
    <3>1. CASE at = 1
      <4>1. Scope = "managed" /\ Merged = {}
        BY <3>1, FourScopes DEF Scope, Merged
      <4>. QED
        BY <2>1, <2>3, <2>4, <2>5, <4>1 DEF ConfigInv, ManagedDenyIsAbsolute, ManagedDeny
    <3>2. CASE at # 1
      <4>1. Scope # "managed"
        BY <2>1, <3>2, FourScopes DEF Scope
      <4>. QED
        BY <2>1, <2>3, <2>4, <2>5, <4>1 DEF ConfigInv, ManagedDenyIsAbsolute, ManagedDeny
    <3>. QED
      BY <3>1, <3>2
  <2>7. NamesInv'
    BY <2>1, <2>4 DEF ConfigInv, NamesInv, Ambiguous
  <2>. QED
    BY <2>1, <2>6, <2>7, FourScopes DEF ConfigInv, Scope
<1>3. CASE RejectScope \/ Validate
  BY <1>3 DEF RejectScope, Validate, ConfigInv, ManagedDenyIsAbsolute, NamesInv, Merged
<1>. QED
  BY <1>1, <1>2, <1>3 DEF LoadEffective

(* What LoadEffective has merged when it is at a scope: the deny rules of  *)
(* the managed file are all there, and no name stands for a source and for *)
(* an MCP server in the files read so far.                                 *)
THEOREM ConfigInvariant == Spec => []ConfigInv
<1>1. Init => ConfigInv
  <2>. SUFFICES ASSUME Init PROVE ConfigInv
    OBVIOUS
  <2>1. /\ disk \in Disks /\ at = 1 /\ cfg.managedDeny = {} /\ cfg.deny = {}
        /\ sourceNames = {} /\ mcpServerNames = {}
    BY DEF Init, ConfigInit, EmptyConfig
  <2>2. Merged = {}
    BY <2>1 DEF Merged
  <2>. QED
    BY <2>1, <2>2 DEF ConfigInv, ManagedDenyIsAbsolute, NamesInv
<1>2. ConfigInv /\ UNCHANGED configVars => ConfigInv'
  BY DEF configVars, ConfigInv, ManagedDenyIsAbsolute, NamesInv, Merged
<1>. QED
  BY <1>1, <1>2, ConfigInvNext, ConfigSteps, PTL DEF Spec

(* No later file takes a pattern from the managed deny list or adds one to *)
(* it (Config.merge).                                                      *)
THEOREM ManagedDenyHolds == Spec => []ManagedDenyIsAbsolute
<1>1. ConfigInv => ManagedDenyIsAbsolute
  BY DEF ConfigInv
<1>. QED
  BY <1>1, ConfigInvariant, PTL

(* A configuration is only loaded when no name is a source in one of its   *)
(* files and an MCP server in another, in whichever order they are read    *)
(* (validateMCPSourceAmbiguity).                                           *)
THEOREM NamesStayApart == Spec => []NamesAreUnambiguous
<1>1. ConfigInv => NamesAreUnambiguous
  BY DEF ConfigInv, NamesInv, NamesAreUnambiguous
<1>. QED
  BY <1>1, ConfigInvariant, PTL

(* The type of a transport after one more file.                            *)
LEMMA InForce ==
  ASSUME NEW n, NEW k \in 1 .. 4
  PROVE  /\ Gives(FileTransport(n, k), "type") => TypeInForce(n, k) = FileTransport(n, k)["type"]
         /\ ~Gives(FileTransport(n, k), "type") => TypeInForce(n, k) = TypeInForce(n, k - 1)
<1>. DEFINE givers(m) == {j \in 1 .. m : Gives(FileTransport(n, j), "type")}
<1>1. CASE Gives(FileTransport(n, k), "type")
  <2>1. k \in givers(k) /\ \A j \in givers(k) : j <= k
    BY <1>1
  <2>2. (CHOOSE j \in givers(k) : \A i \in givers(k) : i <= j) = k
    BY <2>1
  <2>. QED
    BY <2>1, <2>2 DEF TypeInForce
<1>2. CASE ~Gives(FileTransport(n, k), "type")
  <2>1. givers(k) = givers(k - 1)
    BY <1>2
  <2>. DEFINE Newest(S) == IF S = {} THEN ""
                           ELSE FileTransport(n, CHOOSE j \in S : \A i \in S : i <= j)["type"]
  <2>2. TypeInForce(n, k) = Newest(givers(k)) /\ TypeInForce(n, k - 1) = Newest(givers(k - 1))
    BY DEF TypeInForce
  <2>. HIDE DEF Newest, givers
  <2>. QED
    BY <1>2, <2>1, <2>2
<1>. QED
  BY <1>1, <1>2

(* Merging a transport: a type that is new takes away what it excludes.    *)
LEMMA MergedTransport ==
  ASSUME NEW raw, NEW cur
  PROVE  LET m == MergeTransport(raw, cur) IN
         /\ Gives(raw, "type") => Says(m, "type", raw["type"])
         /\ ~Gives(raw, "type") /\ Gives(m, "type") => Says(cur, "type", m["type"])
         /\ \A f \in DOMAIN m :
              \/ f \in DOMAIN raw
              \/ f \in DOMAIN cur /\ (Gives(raw, "type") /\ ~Says(cur, "type", raw["type"])
                                       => f \notin TransportExclusive(raw["type"]))
  BY DEF MergeTransport, Over, Drop, Gives, Says

(* What a source has after a file, T being its transport before and R what *)
(* the file says of it.                                                    *)
Follows(source, R, oauth, T, had) ==
  LET new == At(source, "transport") IN
  /\ Gives(R, "type") => Says(new, "type", R["type"])
  /\ ~Gives(R, "type") /\ Gives(new, "type") => Says(T, "type", new["type"])
  /\ \A f \in DOMAIN new :
       \/ f \in DOMAIN R
       \/ f \in DOMAIN T /\ (Gives(R, "type") /\ ~Says(T, "type", R["type"])
                              => f \notin TransportExclusive(R["type"]))
  /\ Gives(source, "oauth") =>
       \/ oauth
       \/ had /\ (Gives(R, "type") /\ ~Says(T, "type", R["type"])
                  => R["type"] = "streamable-http")

LEMMA MergedSource ==
  ASSUME NEW raw, NEW was
  PROVE  Follows(MergeSource(raw, was), At(raw, "transport"), Gives(raw, "oauth"),
                 At(was, "transport"), Gives(was, "oauth"))
<1>. DEFINE R == At(raw, "transport")
            T == At(was, "transport")
            cur == IF Gives(raw, "type") THEN Drop(was, SourceExclusive(raw["type"])) ELSE was
            newType == Keep(R, {"type"})
            leavesHttp == /\ newType # Empty
                          /\ ~Says(At(cur, "transport"), "type", newType["type"])
                          /\ newType["type"] # "streamable-http"
            kept == IF leavesHttp /\ ~Gives(raw, "oauth") THEN Drop(cur, {"oauth"}) ELSE cur
            t == At(kept, "transport")
            s == MergeSource(raw, was)
<1>1. At(cur, "transport") \in {Empty, T} /\ (Gives(cur, "oauth") => Gives(was, "oauth"))
  BY DEF At, Gives, Drop
<1>2. Gives(R, "type") => newType # Empty /\ newType["type"] = R["type"]
  BY DEF Keep, Gives, Empty
<1>. HIDE DEF cur, newType
<1>3. t = At(cur, "transport")
  BY DEF At, Gives, Drop
<1>4. /\ Gives(kept, "oauth") => Gives(cur, "oauth")
      /\ Gives(kept, "oauth") /\ ~Gives(raw, "oauth") => ~leavesHttp
  BY DEF Gives, Drop
<1>5. \E toggle : s = Over([enabled |-> toggle],
                      Over(IF Gives(raw, "transport")
                           THEN [transport |-> MergeTransport(raw["transport"], t)] ELSE Empty,
                      Over(IF Gives(raw, "oauth")
                           THEN [oauth |-> MergeOAuth(raw["oauth"], At(kept, "oauth"))] ELSE Empty,
                      Over(raw, kept))))
  BY Zenon DEF MergeSource, cur, newType
<1>. HIDE DEF kept, s, leavesHttp
<1>6. /\ At(s, "transport") = IF Gives(raw, "transport") THEN MergeTransport(R, t) ELSE t
      /\ Gives(s, "oauth") => Gives(raw, "oauth") \/ Gives(kept, "oauth")
  BY <1>5 DEF Over, At, Gives, Empty
<1>7. Follows(s, R, Gives(raw, "oauth"), T, Gives(was, "oauth"))
  <2>. DEFINE new == At(s, "transport")
              isNew == Gives(R, "type") /\ ~Says(T, "type", R["type"])
  <2>1. t = Empty \/ t = T
    BY <1>1, <1>3
  <2>2. DOMAIN Empty = {} /\ (isNew => ~Says(t, "type", R["type"]))
    BY <2>1 DEF Empty, Says, Gives
  <2>3. /\ Gives(R, "type") => Says(new, "type", R["type"])
        /\ ~Gives(R, "type") /\ Gives(new, "type") => Says(t, "type", new["type"])
        /\ \A f \in DOMAIN new :
             f \in DOMAIN R \/ (f \in DOMAIN t /\ (isNew => f \notin TransportExclusive(R["type"])))
    <3>1. CASE Gives(raw, "transport")
      BY <1>6, <2>2, <3>1, MergedTransport
    <3>2. CASE ~Gives(raw, "transport")
      <4>1. R = Empty /\ new = t
        BY <1>6, <3>2 DEF At
      <4>. QED
        BY <2>2, <4>1 DEF Gives, Says
    <3>. QED
      BY <3>1, <3>2
  <2>4. ~Gives(R, "type") /\ Gives(new, "type") => Says(T, "type", new["type"])
    BY <2>1, <2>2, <2>3 DEF Says, Gives
  <2>5. \A f \in DOMAIN new :
          f \in DOMAIN R \/ (f \in DOMAIN T /\ (isNew => f \notin TransportExclusive(R["type"])))
    BY <2>1, <2>2, <2>3
  <2>6. Gives(s, "oauth") =>
          Gives(raw, "oauth") \/ (Gives(was, "oauth") /\ (isNew => R["type"] = "streamable-http"))
    BY <1>1, <1>2, <1>3, <1>4, <1>6, <2>2 DEF leavesHttp
  <2>. QED
    BY <2>3, <2>4, <2>5, <2>6 DEF Follows
<1>. QED
  BY <1>7 DEF s

(* A file that says nothing of a source leaves it as it was.               *)
LEMMA UnsaidFollows ==
  ASSUME NEW source
  PROVE  Follows(source, Empty, FALSE, At(source, "transport"), Gives(source, "oauth"))
  BY DEF Follows, Empty, Gives, Says

(* What the file of a position says of a source, and what the files before *)
(* it have left of it.                                                     *)
LEMMA ScopeFollows ==
  ASSUME ConfigInv, SkipScope \/ MergeScope, NEW n \in DOMAIN cfg'.sources
  PROVE  LET old == At(cfg.sources, n) IN
         /\ Gives(old, "transport") \/ Gives(old, "oauth") => n \in DOMAIN cfg.sources
         /\ Follows(cfg'.sources[n], FileTransport(n, at), Gives(At(FileSources(at), n), "oauth"),
                    At(old, "transport"), Gives(old, "oauth"))
<1>. DEFINE old == At(cfg.sources, n)
            said == At(FileSources(at), n)
<1>1. Gives(old, "transport") \/ Gives(old, "oauth") => n \in DOMAIN cfg.sources
  BY DEF At, Gives, Empty
<1>2. CASE cfg'.sources[n] = old /\ said = Empty
  <2>1. FileTransport(n, at) = Empty /\ ~Gives(said, "oauth")
    BY <1>2 DEF FileTransport, At, Gives, Empty
  <2>2. Follows(old, Empty, FALSE, At(old, "transport"), Gives(old, "oauth"))
    BY UnsaidFollows
  <2>3. Gives(said, "oauth") = FALSE
    BY <2>1 DEF Gives
  <2>. HIDE DEF old, said
  <2>4. Follows(cfg'.sources[n], FileTransport(n, at), Gives(said, "oauth"),
                At(old, "transport"), Gives(old, "oauth"))
    BY <1>2, <2>1, <2>2, <2>3
  <2>. QED
    BY <1>1, <2>4 DEF old, said
<1>3. CASE SkipScope
  <2>1. n \in DOMAIN cfg.sources /\ cfg'.sources[n] = cfg.sources[n] /\ FileSources(at) = Empty
    BY <1>3 DEF SkipScope, FileSources, Scope
  <2>. QED
    BY <1>2, <2>1 DEF At, Gives, Empty
<1>4. CASE MergeScope
  <2>. DEFINE raw == NormalizeMCPServers(disk[Scope]).sources
  <2>1. /\ FileSources(at) = raw
        /\ cfg'.sources = MergeEach(raw, cfg.sources, MergeSource)
    <3>1. disk[Scope] \notin {NoFile, Broken}
          /\ cfg' = MergeConfig(Scope, NormalizeMCPSources(NormalizeMCPServers(disk[Scope])))
      BY <1>4, Zenon DEF MergeScope
    <3>2. DOMAIN disk[Scope] = Sections
      BY <1>4, <3>1, FourScopes, DiskAssumption DEF ConfigInv, Scope, MergeScope
    <3>3. NormalizeMCPSources(NormalizeMCPServers(disk[Scope])).sources = raw
      BY <3>2, Normalized
    <3>4. cfg'.sources = MergeEach(NormalizeMCPSources(NormalizeMCPServers(disk[Scope])).sources,
                                   cfg.sources, MergeSource)
      BY <3>1, Zenon DEF MergeConfig
    <3>. QED
      BY <3>1, <3>3, <3>4 DEF FileSources, Scope
  <2>. HIDE DEF raw
  <2>2. n \in DOMAIN raw => cfg'.sources[n] = MergeSource(raw[n], old) /\ said = raw[n]
    BY <2>1 DEF MergeEach, MergeInner, At, Gives
  <2>3. n \notin DOMAIN raw => cfg'.sources[n] = old /\ said = Empty
    BY <2>1 DEF MergeEach, MergeInner, At, Gives
  <2>4. FileTransport(n, at) = At(said, "transport")
    BY DEF FileTransport
  <2>. QED
    BY <1>1, <1>2, <2>2, <2>3, <2>4, MergedSource
<1>. QED
  BY <1>3, <1>4

(* What is true of one source after the files up to position m: the type   *)
(* of its transport is the type in force, and what that type excludes was  *)
(* given since.                                                            *)
Clean(source, n, m) ==
  LET transport == At(source, "transport")
      since(k) == \A j \in k .. m : Says(transport, "type", TypeInForce(n, j))
  IN Gives(transport, "type") =>
       /\ transport["type"] = TypeInForce(n, m)
       /\ \A f \in TransportExclusive(transport["type"]) \cap DOMAIN transport :
            \E k \in 1 .. m : Gives(FileTransport(n, k), f) /\ since(k)
       /\ (transport["type"] # "streamable-http" /\ Gives(source, "oauth")) =>
            \E k \in 1 .. m : Gives(At(FileSources(k), n), "oauth") /\ since(k)

SourceInv == \A n \in DOMAIN cfg.sources : Clean(cfg.sources[n], n, at - 1)

LEMMA StaysClean ==
  ASSUME NEW n, NEW k \in 1 .. 4, NEW old, NEW source, Clean(old, n, k - 1),
         Follows(source, FileTransport(n, k), Gives(At(FileSources(k), n), "oauth"),
                 At(old, "transport"), Gives(old, "oauth"))
  PROVE  Clean(source, n, k)
<1>. DEFINE R == FileTransport(n, k)
            T == At(old, "transport")
            new == At(source, "transport")
            v == new["type"]
            oauth == Gives(At(FileSources(k), n), "oauth")
            isNew == Gives(R, "type") /\ ~Says(T, "type", R["type"])
<1>. SUFFICES ASSUME Gives(new, "type") PROVE Clean(source, n, k)
  BY DEF Clean
<1>1. /\ Gives(R, "type") => v = R["type"]
      /\ ~isNew => Says(T, "type", v)
      /\ \A f \in DOMAIN new :
           f \in DOMAIN R \/ (f \in DOMAIN T /\ (isNew => f \notin TransportExclusive(R["type"])))
      /\ Gives(source, "oauth") =>
           oauth \/ (Gives(old, "oauth") /\ (isNew => R["type"] = "streamable-http"))
  BY DEF Follows, Says
<1>2. ~isNew =>
        /\ v = TypeInForce(n, k - 1)
        /\ \A f \in TransportExclusive(v) \cap DOMAIN T :
             \E i \in 1 .. k - 1 : Gives(FileTransport(n, i), f)
                                   /\ \A j \in i .. k - 1 : v = TypeInForce(n, j)
        /\ (v # "streamable-http" /\ Gives(old, "oauth")) =>
             \E i \in 1 .. k - 1 : Gives(At(FileSources(i), n), "oauth")
                                   /\ \A j \in i .. k - 1 : v = TypeInForce(n, j)
  <2>. HAVE ~isNew
  <2>1. Gives(T, "type") /\ T["type"] = v
    BY <1>1 DEF Says
  <2>. HIDE DEF T, v
  <2>. QED
    BY <2>1 DEF Clean, Says, T
<1>3. v = TypeInForce(n, k)
  BY <1>1, <1>2, InForce DEF Says
<1>. HIDE DEF R, T, new, v, oauth, isNew
<1>4. ASSUME NEW i \in 1 .. k - 1, \A j \in i .. k - 1 : v = TypeInForce(n, j)
      PROVE  i \in 1 .. k /\ \A j \in i .. k : v = TypeInForce(n, j)
  <2>1. \A j \in i .. k : j = k \/ j \in i .. k - 1
    OBVIOUS
  <2>. QED
    BY <1>3, <1>4, <2>1
<1>5. k \in 1 .. k /\ \A j \in k .. k : v = TypeInForce(n, j)
  BY <1>3
<1>6. \A f \in TransportExclusive(v) \cap DOMAIN new :
        \E i \in 1 .. k : Gives(FileTransport(n, i), f) /\ \A j \in i .. k : v = TypeInForce(n, j)
  <2>. TAKE f \in TransportExclusive(v) \cap DOMAIN new
  <2>1. CASE f \in DOMAIN R
    BY <1>5, <2>1 DEF Gives, R
  <2>2. CASE f \notin DOMAIN R
    <3>1. f \in DOMAIN T /\ ~isNew
      BY <1>1, <2>2 DEF isNew
    <3>. QED
      BY <1>2, <1>4, <3>1
  <2>. QED
    BY <2>1, <2>2
<1>7. (v # "streamable-http" /\ Gives(source, "oauth")) =>
        \E i \in 1 .. k : Gives(At(FileSources(i), n), "oauth")
                          /\ \A j \in i .. k : v = TypeInForce(n, j)
  <2>. HAVE v # "streamable-http" /\ Gives(source, "oauth")
  <2>1. CASE oauth
    BY <1>5, <2>1 DEF oauth
  <2>2. CASE ~oauth
    <3>1. Gives(old, "oauth") /\ ~isNew
      BY <1>1, <2>2 DEF isNew
    <3>. QED
      BY <1>2, <1>4, <3>1
  <2>. QED
    BY <2>1, <2>2
<1>. QED
  BY <1>3, <1>6, <1>7 DEF Clean, Says, new, v

(* The same of a disk that is given.                                       *)
FileOn(d, n, k) ==
  At(At(IF d[ScopeOrder[k]] = NoFile THEN Empty ELSE NormalizeMCPServers(d[ScopeOrder[k]]).sources, n),
     "transport")
TypeOn(d, n, k) ==
  LET givers == {j \in 1 .. k : Gives(FileOn(d, n, j), "type")} IN
  IF givers = {} THEN ""
  ELSE FileOn(d, n, CHOOSE j \in givers : \A i \in givers : i <= j)["type"]

LEMMA SameInForce ==
  ASSUME UNCHANGED disk
  PROVE  \A n, k : TypeInForce(n, k)' = TypeInForce(n, k)
<1>. TAKE n, k
<1>1. TypeInForce(n, k) = TypeOn(disk, n, k)
  BY DEF TypeInForce, FileTransport, FileSources, TypeOn, FileOn
<1>2. TypeInForce(n, k)' = TypeOn(disk', n, k)
  BY DEF TypeInForce, FileTransport, FileSources, TypeOn, FileOn
<1>. QED
  BY <1>1, <1>2

LEMMA SourceInvNext ==
  ASSUME ConfigInv, SourceInv, LoadEffective
  PROVE  SourceInv'
<1>1. UNCHANGED disk
  BY DEF LoadEffective, SkipScope, RejectScope, MergeScope, Validate
<1>2. \A n, k : FileTransport(n, k)' = FileTransport(n, k)
  BY <1>1 DEF FileTransport, FileSources
<1>3. \A n, k : TypeInForce(n, k)' = TypeInForce(n, k)
  BY <1>1, SameInForce
<1>4. \A k : FileSources(k)' = FileSources(k)
  BY <1>1 DEF FileSources
<1>5. ASSUME NEW source, NEW n, NEW m, Clean(source, n, m)
      PROVE  Clean(source, n, m)'
  BY <1>2, <1>3, <1>4, <1>5 DEF Clean
<1>6. CASE RejectScope \/ Validate
  <2>1. UNCHANGED <<cfg, at>>
    BY <1>6 DEF RejectScope, Validate
  <2>. QED
    BY <1>5, <2>1 DEF SourceInv
<1>7. CASE SkipScope \/ MergeScope
  <2>1. at \in 1 .. 4 /\ at' = at + 1
    BY <1>7, FourScopes DEF SkipScope, MergeScope, ConfigInv
  <2>2. ASSUME NEW n \in DOMAIN cfg'.sources PROVE Clean(cfg'.sources[n], n, at)
    <3>. DEFINE old == At(cfg.sources, n)
    <3>1. Clean(old, n, at - 1)
      <4>1. CASE n \in DOMAIN cfg.sources
        BY <4>1 DEF SourceInv, At, Gives
      <4>2. CASE n \notin DOMAIN cfg.sources
        BY <4>2 DEF Clean, At, Gives, Empty
      <4>. QED
        BY <4>1, <4>2
    <3>2. Follows(cfg'.sources[n], FileTransport(n, at), Gives(At(FileSources(at), n), "oauth"),
                  At(old, "transport"), Gives(old, "oauth"))
      BY <1>7, ScopeFollows
    <3>. HIDE DEF old
    <3>. QED
      BY <2>1, <3>1, <3>2, StaysClean
  <2>3. at' - 1 = at
    BY <2>1
  <2>. QED
    BY <1>5, <2>2, <2>3 DEF SourceInv
<1>. QED
  BY <1>6, <1>7 DEF LoadEffective

(* A change of a source's type never leaves a field or credentials of the  *)
(* old type in the configuration (mergeSource, mergeTransport), through    *)
(* every order of the files that give a type and those that give none.     *)
THEOREM ChangeOfTypeIsComplete == Spec => []NothingLeftOver
<1>1. Init => SourceInv
  BY DEF Init, ConfigInit, EmptyConfig, Empty, SourceInv
<1>2. SourceInv /\ UNCHANGED configVars => SourceInv'
  <2>. SUFFICES ASSUME SourceInv, UNCHANGED configVars PROVE SourceInv'
    OBVIOUS
  <2>1. UNCHANGED <<cfg, at, disk>>
    BY DEF configVars
  <2>2. \A n, k : FileTransport(n, k)' = FileTransport(n, k)
    BY <2>1 DEF FileTransport, FileSources
  <2>3. \A n, k : TypeInForce(n, k)' = TypeInForce(n, k)
    BY <2>1, SameInForce
  <2>. QED
    BY <2>1, <2>2, <2>3 DEF SourceInv, Clean, FileSources
<1>3. SourceInv => NothingLeftOver
  BY DEF SourceInv, Clean, NothingLeftOver
<1>. QED
  BY <1>1, <1>2, <1>3, SourceInvNext, ConfigInvariant, ConfigSteps, PTL DEF Spec

-----------------------------------------------------------------------------
(* Discovery: for any graph of API catalogs, with links back, links to     *)
(* nothing and links to the same catalog twice.                            *)

Catalogs == DOMAIN web.catalogs
IsItem(l) == "item" \in l.rels
IsCatalog(l) == ~IsItem(l) /\ "api-catalog" \in l.rels
Cyclic(u) == u \in Reached(Nested(u))
AllItems == UNION {Links(u, "item") : u \in Catalogs}
Lists == UNION {Seq(Elements(Answer(u))) : u \in Catalogs}
Completed == visited \ OnStack(frames)

(* The stack is a path of links through catalogs that are fetched.         *)
StackOK(root) ==
  /\ frames \in Seq([url : Catalogs, left : Lists])
  /\ visited \subseteq Catalogs /\ root \in visited
  /\ \A u \in visited : Answer(u) # Missing /\ u \in Reached({root})
  /\ \A i \in 1 .. Len(frames) :
       /\ frames[i].url \in visited
       /\ frames[i].left \in Seq(Elements(Answer(frames[i].url)))
  /\ \A i, j \in 1 .. Len(frames) :
       i < j => /\ frames[i].url # frames[j].url
                /\ frames[j].url \in Reached(Nested(frames[i].url))

(* A link of a fetched catalog is taken or left on the stack.              *)
LinksOK ==
  \A u \in visited : \A l \in Elements(Answer(u)) :
    \/ (IsItem(l) => l.href \in Elements(found)) /\ (IsCatalog(l) => l.href \in visited)
    \/ \E i \in 1 .. Len(frames) : frames[i].url = u /\ l \in Elements(frames[i].left)

FoundOK ==
  /\ found \in Seq(AllItems)
  /\ Elements(found) \subseteq UNION {Links(u, "item") : u \in visited}
  /\ \A i, j \in 1 .. Len(found) : found[i] = found[j] => i = j

(* Without a warning, what is behind the stack is closed and has no cycle, *)
(* and the links taken lead there or up the stack.                         *)
CyclesOK ==
  /\ warned # {} => \E u \in visited : Cyclic(u)
  /\ warned = {} =>
       /\ \A u \in Completed : Nested(u) \subseteq Completed /\ ~Cyclic(u)
       /\ \A i \in 1 .. Len(frames) : \A l \in Elements(Answer(frames[i].url)) :
            IsCatalog(l) => \/ l \in Elements(frames[i].left)
                            \/ l.href \in Completed
                            \/ i < Len(frames) /\ l.href = frames[i + 1].url

WalkInv(root) ==
  /\ walk = "done" <=> frames = << >>
  /\ StackOK(root) /\ LinksOK /\ FoundOK /\ CyclesOK

DiscoveryInv ==
  /\ disk \in Disks /\ web \in Webs[disk]
  /\ building # "waiting" => loading = "loaded"
  /\ walk \in {"walking", "done"} =>
       building = "expanding" /\ WalkInv(cfg.sources[current]["uri"])

LEMMA SameGraph ==
  ASSUME UNCHANGED web
  PROVE  /\ Catalogs' = Catalogs /\ AllItems' = AllItems /\ Lists' = Lists
         /\ \A u : Answer(u)' = Answer(u) /\ Nested(u)' = Nested(u) /\ Cyclic(u)' = Cyclic(u)
         /\ \A u, rel : Links(u, rel)' = Links(u, rel)
         /\ \A R : Reached(R)' = Reached(R)
<1>1. Catalogs' = Catalogs /\ \A u : Answer(u)' = Answer(u)
  BY DEF Catalogs, Answer
<1>2. \A u, rel : Links(u, rel)' = Links(u, rel)
  BY <1>1 DEF Links
<1>3. \A u : Nested(u)' = Nested(u)
  BY <1>2 DEF Nested
<1>4. \A R : Reached(R)' = Reached(R)
  BY <1>1, <1>3 DEF Reached, Catalogs
<1>5. \A u : Cyclic(u)' = Cyclic(u)
  BY <1>3, <1>4 DEF Cyclic
<1>6. AllItems' = AllItems /\ Lists' = Lists
  BY <1>1, <1>2 DEF AllItems, Lists
<1>. QED
  BY <1>1, <1>2, <1>3, <1>4, <1>5, <1>6

LEMMA LinksOf ==
  ASSUME NEW u, Answer(u) # Missing
  PROVE  /\ u \in Catalogs
         /\ \A h : h \in Nested(u) <=> \E l \in Elements(Answer(u)) : IsCatalog(l) /\ l.href = h
         /\ \A h : h \in Links(u, "item") <=> \E l \in Elements(Answer(u)) : IsItem(l) /\ l.href = h
<1>1. u \in Catalogs
  BY DEF Answer, Catalogs
<1>2. \A h : h \in Nested(u) <=> \E l \in Elements(Answer(u)) : IsCatalog(l) /\ l.href = h
  BY DEF Nested, Links, IsCatalog, IsItem
<1>3. \A h : h \in Links(u, "item") <=> \E l \in Elements(Answer(u)) : IsItem(l) /\ l.href = h
  BY DEF Links, IsItem
<1>. QED
  BY <1>1, <1>2, <1>3

(* Reached is the least set of catalogs with the roots that is closed.     *)
LEMMA ReachedSet ==
  ASSUME NEW R
  PROVE  /\ Reached(R) \subseteq Catalogs
         /\ \A u \in Catalogs : u \in R => u \in Reached(R)
         /\ \A v \in Reached(R) : \A h \in Nested(v) \cap Catalogs : h \in Reached(R)
         /\ \A S \in SUBSET Catalogs :
              R \subseteq S /\ (\A v \in S : Nested(v) \subseteq S) => Reached(R) \subseteq S
<1>1. \A v \in Reached(R) : \A h \in Nested(v) \cap Catalogs : h \in Reached(R)
  <2>. TAKE v \in Reached(R)
  <2>. TAKE h \in Nested(v) \cap Catalogs
  <2>1. ASSUME NEW S \in SUBSET Catalogs, R \subseteq S, \A x \in S : Nested(x) \subseteq S
        PROVE  h \in S
    BY <2>1 DEF Reached, Catalogs
  <2>. QED
    BY <2>1 DEF Reached, Catalogs
<1>. QED
  BY <1>1 DEF Reached, Catalogs

LEMMA ListParts ==
  ASSUME NEW S, NEW s \in Seq(S), s # << >>
  PROVE  /\ Head(s) \in S /\ Tail(s) \in Seq(S)
         /\ Elements(s) = {Head(s)} \cup Elements(Tail(s))
<1>1. Len(s) \in Nat \ {0} /\ Len(Tail(s)) = Len(s) - 1 /\ Head(s) = s[1]
      /\ \A k \in 1 .. Len(s) - 1 : Tail(s)[k] = s[k + 1]
  OBVIOUS
<1>2. Elements(s) \subseteq {Head(s)} \cup Elements(Tail(s))
  <2>. SUFFICES ASSUME NEW k \in 1 .. Len(s) PROVE s[k] \in {Head(s)} \cup Elements(Tail(s))
    BY DEF Elements
  <2>1. k = 1 \/ (k - 1 \in 1 .. Len(s) - 1 /\ Tail(s)[k - 1] = s[k])
    BY <1>1
  <2>. QED
    BY <1>1, <2>1 DEF Elements
<1>3. {Head(s)} \cup Elements(Tail(s)) \subseteq Elements(s)
  BY <1>1 DEF Elements
<1>. QED
  BY <1>2, <1>3

(* The stack once the top frame has taken its next link.                   *)
LEMMA AdvancedStack ==
  ASSUME NEW root, StackOK(root), frames # << >>, Top.left # << >>
  PROVE  LET a == Advanced
             n == Len(frames)
         IN /\ n \in Nat \ {0} /\ a \in Seq([url : Catalogs, left : Lists]) /\ Len(a) = n
            /\ \A i \in 1 .. n : a[i].url = frames[i].url
            /\ \A i \in 1 .. n : i # n => a[i] = frames[i]
            /\ a[n].left \in Seq(Elements(Answer(Top.url)))
            /\ Head(Top.left) \in Elements(Answer(Top.url))
            /\ Elements(Top.left) = {Head(Top.left)} \cup Elements(a[n].left)
            /\ OnStack(a) = OnStack(frames)
<1>. DEFINE n == Len(frames)
            F == [url : Catalogs, left : Lists]
<1>1. frames \in Seq(F) /\ n \in Nat \ {0} /\ n \in 1 .. n /\ Top \in F
  <2>1. frames \in Seq(F) /\ Top = frames[n]
    BY DEF StackOK, Top
  <2>. HIDE DEF F
  <2>. QED
    BY <2>1
<1>2. Top.left \in Seq(Elements(Answer(Top.url))) /\ Top.url \in Catalogs
  BY <1>1 DEF StackOK, Top
<1>3. /\ Head(Top.left) \in Elements(Answer(Top.url))
      /\ Tail(Top.left) \in Seq(Elements(Answer(Top.url)))
      /\ Elements(Top.left) = {Head(Top.left)} \cup Elements(Tail(Top.left))
  BY <1>2, ListParts
<1>4. Tail(Top.left) \in Lists
  BY <1>2, <1>3 DEF Lists
<1>. DEFINE top == [Top EXCEPT !.left = Tail(Top.left)]
<1>5. Advanced = [frames EXCEPT ![n] = top]
  BY <1>1 DEF Advanced, Top
<1>6. top \in F /\ top.url = Top.url /\ top.left = Tail(Top.left)
  BY <1>1, <1>4
<1>. HIDE DEF top, F
<1>7. /\ Advanced \in Seq(F) /\ Len(Advanced) = n /\ Advanced[n] = top
      /\ \A i \in 1 .. n : i # n => Advanced[i] = frames[i]
  BY <1>1, <1>5, <1>6
<1>8. \A i \in 1 .. n : Advanced[i].url = frames[i].url
  BY <1>6, <1>7 DEF Top
<1>9. OnStack(Advanced) = OnStack(frames)
  BY <1>7, <1>8 DEF OnStack
<1>. QED
  BY <1>1, <1>3, <1>6, <1>7, <1>8, <1>9 DEF F

(* A link that leads to no catalog that is new.                            *)
LEMMA LinkTaken ==
  ASSUME NEW root, WalkInv(root), frames # << >>, Top.left # << >>, frames' = Advanced,
         UNCHANGED <<web, visited, walk>>, FoundOK',
         Elements(found) \subseteq Elements(found'), warned \subseteq warned',
         LET l == Head(Top.left) IN
           /\ IsItem(l) => l.href \in Elements(found')
           /\ IsCatalog(l) => l.href \in visited /\ (warned' = {} => l.href \in Completed),
         warned' # {} => \E u \in visited : Cyclic(u)
  PROVE  WalkInv(root)'
<1>. DEFINE n == Len(frames)
            l == Head(Top.left)
<1>0. StackOK(root) /\ LinksOK /\ CyclesOK /\ Top = frames[n]
  BY DEF WalkInv, Top
<1>1. /\ n \in Nat \ {0} /\ frames' \in Seq([url : Catalogs, left : Lists]) /\ Len(frames') = n
      /\ \A i \in 1 .. n : frames'[i].url = frames[i].url
      /\ \A i \in 1 .. n : i # n => frames'[i] = frames[i]
      /\ frames'[n].left \in Seq(Elements(Answer(Top.url)))
      /\ l \in Elements(Answer(Top.url))
      /\ Elements(Top.left) = {l} \cup Elements(frames'[n].left)
      /\ OnStack(frames') = OnStack(frames)
  BY <1>0, AdvancedStack
<1>. HIDE DEF n
<1>2. /\ Catalogs' = Catalogs /\ Lists' = Lists
      /\ \A u : Answer(u)' = Answer(u) /\ Nested(u)' = Nested(u) /\ Cyclic(u)' = Cyclic(u)
      /\ \A R : Reached(R)' = Reached(R)
      /\ Completed' = Completed
  BY <1>1, SameGraph DEF Completed
<1>3. StackOK(root)'
  <2>1. \A i \in 1 .. n : frames'[i].left \in Seq(Elements(Answer(frames'[i].url)))
    BY <1>0, <1>1 DEF StackOK, n
  <2>2. \A i, j \in 1 .. n : i < j => /\ frames[i].url # frames[j].url
                                     /\ frames[j].url \in Reached(Nested(frames[i].url))
    BY <1>0 DEF StackOK, n
  <2>3. \A i, j \in 1 .. n : i < j => /\ frames'[i].url # frames'[j].url
                                     /\ frames'[j].url \in Reached(Nested(frames'[i].url))
    BY <1>1, <2>2
  <2>4. \A i \in 1 .. n : frames'[i].url \in visited
    BY <1>0, <1>1 DEF StackOK, n
  <2>5. /\ visited \subseteq Catalogs /\ root \in visited
        /\ \A u \in visited : Answer(u) # Missing /\ u \in Reached({root})
    BY <1>0 DEF StackOK
  <2>6. \A i \in 1 .. Len(frames') : /\ frames'[i].url \in visited'
                                     /\ frames'[i].left \in Seq(Elements(Answer(frames'[i].url)))
    BY <1>1, <2>1, <2>4
  <2>7. \A i, j \in 1 .. Len(frames') :
          i < j => /\ frames'[i].url # frames'[j].url
                   /\ frames'[j].url \in Reached(Nested(frames'[i].url))
    BY <1>1, <2>3
  <2>. QED
    BY <1>1, <1>2, <2>5, <2>6, <2>7 DEF StackOK
<1>4. LinksOK'
  <2>. SUFFICES ASSUME NEW u \in visited, NEW k \in Elements(Answer(u)),
                       ~((IsItem(k) => k.href \in Elements(found'))
                         /\ (IsCatalog(k) => k.href \in visited))
                PROVE  \E i \in 1 .. n : frames'[i].url = u /\ k \in Elements(frames'[i].left)
    BY <1>1, <1>2 DEF LinksOK
  <2>1. PICK i \in 1 .. n : frames[i].url = u /\ k \in Elements(frames[i].left)
    BY <1>0 DEF LinksOK, n
  <2>2. k \in Elements(frames'[i].left)
    BY <1>0, <1>1, <2>1
  <2>. QED
    BY <1>1, <2>1, <2>2
<1>5. CyclesOK'
  <2>1. ASSUME warned' = {}
        PROVE  /\ \A u \in Completed : Nested(u) \subseteq Completed /\ ~Cyclic(u)
               /\ \A i \in 1 .. n : \A k \in Elements(Answer(frames'[i].url)) :
                    IsCatalog(k) => \/ k \in Elements(frames'[i].left)
                                    \/ k.href \in Completed
                                    \/ i < n /\ k.href = frames'[i + 1].url
    <3>1. warned = {}
      BY <2>1
    <3>2. \A i \in 1 .. n : \A k \in Elements(Answer(frames[i].url)) :
            IsCatalog(k) => \/ k \in Elements(frames[i].left)
                            \/ k.href \in Completed
                            \/ i < n /\ k.href = frames[i + 1].url
      BY <1>0, <3>1 DEF CyclesOK, n
    <3>3. \A i \in 1 .. n : i < n => i + 1 \in 1 .. n
      BY <1>1
    <3>. QED
      BY <1>0, <1>1, <2>1, <3>1, <3>2, <3>3 DEF CyclesOK
  <2>. QED
    BY <1>1, <1>2, <2>1 DEF CyclesOK
<1>6. frames' # << >>
  BY <1>1
<1>. QED
  BY <1>3, <1>4, <1>5, <1>6 DEF WalkInv

LEMMA Appended ==
  ASSUME NEW S, NEW s \in Seq(S), NEW e \in S
  PROVE  /\ Append(s, e) \in Seq(S) /\ Len(Append(s, e)) = Len(s) + 1
         /\ Append(s, e)[Len(s) + 1] = e
         /\ \A i \in 1 .. Len(s) : Append(s, e)[i] = s[i]
  OBVIOUS

(* A link to a catalog that is fetched.                                    *)
LEMMA CatalogEntered ==
  ASSUME NEW root, disk \in Disks, web \in Webs[disk],
         WalkInv(root), frames # << >>, Top.left # << >>, IsCatalog(Head(Top.left)),
         Head(Top.left).href \notin visited, Answer(Head(Top.left).href) # Missing,
         frames' = Append(Advanced, [url |-> Head(Top.left).href,
                                     left |-> Answer(Head(Top.left).href)]),
         visited' = visited \cup {Head(Top.left).href},
         UNCHANGED <<web, found, warned, walk>>
  PROVE  WalkInv(root)'
<1>. DEFINE n == Len(frames)
            l == Head(Top.left)
            h == l.href
            t == Top.url
            a == Advanced
<1>0. StackOK(root) /\ LinksOK /\ FoundOK /\ CyclesOK /\ Top = frames[n]
  BY DEF WalkInv, Top
<1>1. /\ n \in Nat \ {0} /\ a \in Seq([url : Catalogs, left : Lists]) /\ Len(a) = n
      /\ \A i \in 1 .. n : a[i].url = frames[i].url
      /\ \A i \in 1 .. n : i # n => a[i] = frames[i]
      /\ a[n].left \in Seq(Elements(Answer(t)))
      /\ l \in Elements(Answer(t))
      /\ Elements(Top.left) = {l} \cup Elements(a[n].left)
      /\ OnStack(a) = OnStack(frames)
  BY <1>0, AdvancedStack
<1>2. /\ Answer(h) \in Seq(Elements(Answer(h))) /\ h \in Catalogs /\ Answer(h) \in Lists
  <2>1. h \in DOMAIN web.catalogs /\ Answer(h) = web.catalogs[h]
    BY DEF Answer
  <2>2. Answer(h) \in Seq(Elements(Answer(h)))
    BY <2>1, WebAssumption
  <2>. QED
    BY <2>1, <2>2 DEF Catalogs, Lists
<1>. DEFINE e == [url |-> h, left |-> Answer(h)]
<1>3. e \in [url : Catalogs, left : Lists] /\ e.url = h /\ e.left = Answer(h)
  BY <1>2
<1>. HIDE DEF n, a, e, t
<1>4. /\ frames' \in Seq([url : Catalogs, left : Lists]) /\ Len(frames') = n + 1
      /\ frames'[n + 1] = e
      /\ \A i \in 1 .. n : frames'[i] = a[i]
  <2>. DEFINE F == [url : Catalogs, left : Lists]
  <2>1. a \in Seq(F) /\ e \in F /\ frames' = Append(a, e)
    BY <1>1, <1>3 DEF a, e
  <2>. HIDE DEF F
  <2>2. n \in Nat /\ Len(a) = n
    BY <1>1
  <2>3. /\ frames' \in Seq(F) /\ Len(frames') = n + 1 /\ frames'[n + 1] = e
        /\ \A i \in 1 .. n : frames'[i] = a[i]
    <3>1. /\ Append(a, e) \in Seq(F) /\ Len(Append(a, e)) = Len(a) + 1
          /\ Append(a, e)[Len(a) + 1] = e
          /\ \A i \in 1 .. Len(a) : Append(a, e)[i] = a[i]
      BY <2>1, Appended
    <3>2. frames' = Append(a, e)
      BY <2>1
    <3>3. frames' \in Seq(F)
      BY <3>1, <3>2
    <3>4. Len(frames') = n + 1 /\ frames'[n + 1] = e
      BY <2>2, <3>1, <3>2
    <3>5. \A i \in 1 .. n : frames'[i] = a[i]
      BY <2>2, <3>1, <3>2
    <3>. QED
      BY <3>3, <3>4, <3>5
  <2>. QED
    BY <2>3 DEF F
<1>5. \A i \in 1 .. n + 1 : i \in 1 .. n \/ i = n + 1
  BY <1>1
<1>6. OnStack(frames') = OnStack(frames) \cup {h}
  <2>1. OnStack(frames') = {frames'[i].url : i \in 1 .. n + 1}
    BY <1>4 DEF OnStack
  <2>2. {frames'[i].url : i \in 1 .. n + 1} = {a[i].url : i \in 1 .. n} \cup {h}
    BY <1>1, <1>3, <1>4, <1>5
  <2>. QED
    BY <1>1, <2>1, <2>2 DEF OnStack
<1>7. OnStack(frames) \subseteq visited
  BY <1>0 DEF OnStack, StackOK
<1>8. /\ Catalogs' = Catalogs /\ Lists' = Lists /\ AllItems' = AllItems
      /\ \A u : Answer(u)' = Answer(u) /\ Nested(u)' = Nested(u) /\ Cyclic(u)' = Cyclic(u)
      /\ \A u, rel : Links(u, rel)' = Links(u, rel)
      /\ \A R : Reached(R)' = Reached(R)
      /\ Completed' = Completed
  BY <1>6, <1>7, SameGraph DEF Completed
<1>9. /\ t \in visited /\ h \in Nested(t) /\ t = frames[n].url /\ n \in 1 .. n
      /\ h \in Reached({root}) /\ \A i \in 1 .. n : h \in Reached(Nested(frames[i].url))
  <2>1. t \in visited /\ t = frames[n].url /\ n \in 1 .. n /\ Answer(t) # Missing
    BY <1>0, <1>1 DEF StackOK, t, n
  <2>2. h \in Nested(t)
    BY <1>1, <2>1, LinksOf
  <2>3. h \in Reached({root})
    <3>1. t \in Reached({root})
      BY <1>0, <2>1 DEF StackOK
    <3>2. \A v \in Reached({root}) : \A x \in Nested(v) \cap Catalogs : x \in Reached({root})
      BY Zenon, ReachedSet
    <3>. QED
      BY <1>2, <2>2, <3>1, <3>2
  <2>4. ASSUME NEW i \in 1 .. n PROVE h \in Reached(Nested(frames[i].url))
    <3>1. CASE i = n
      BY <1>2, <2>1, <2>2, <3>1, ReachedSet
    <3>2. CASE i # n
      <4>1. t \in Reached(Nested(frames[i].url))
        BY <1>0, <1>1, <2>1, <3>2 DEF StackOK, n
      <4>. QED
        BY <1>2, <2>2, <4>1, ReachedSet
    <3>. QED
      BY <3>1, <3>2
  <2>. QED
    BY <2>1, <2>2, <2>3, <2>4
<1>. HIDE DEF h
<1>10. StackOK(root)'
  <2>1. \A i \in 1 .. n + 1 : /\ frames'[i].url \in visited'
                              /\ frames'[i].left \in Seq(Elements(Answer(frames'[i].url)))
    BY <1>0, <1>1, <1>2, <1>3, <1>4, <1>5 DEF StackOK, n, t, h
  <2>. DEFINE Path(x, y) == x # y /\ y \in Reached(Nested(x))
  <2>0. \A i, j \in 1 .. n : i < j => Path(frames[i].url, frames[j].url)
    BY <1>0 DEF StackOK, n
  <2>2. \A i, j \in 1 .. n + 1 :
          i < j => /\ frames'[i].url # frames'[j].url
                   /\ frames'[j].url \in Reached(Nested(frames'[i].url))
    <3>. SUFFICES ASSUME NEW i \in 1 .. n + 1, NEW j \in 1 .. n + 1, i < j
                  PROVE  /\ frames'[i].url # frames'[j].url
                         /\ frames'[j].url \in Reached(Nested(frames'[i].url))
      OBVIOUS
    <3>1. i \in 1 .. n /\ frames'[i].url = frames[i].url /\ frames[i].url \in visited
      BY <1>0, <1>1, <1>4 DEF StackOK, n
    <3>2. CASE j = n + 1
      BY <1>3, <1>4, <1>9, <3>1, <3>2 DEF h
    <3>3. CASE j # n + 1
      <4>1. j \in 1 .. n /\ frames'[j].url = frames[j].url
        BY <1>1, <1>4, <1>5, <3>3
      <4>. QED
        BY <2>0, <3>1, <4>1
    <3>. QED
      BY <3>2, <3>3
  <2>3. \A u \in visited' : Answer(u) # Missing /\ u \in Reached({root})
    BY <1>0, <1>9 DEF StackOK, h
  <2>4. visited' \subseteq Catalogs /\ root \in visited'
    BY <1>0, <1>2 DEF StackOK, h
  <2>5. \A i \in 1 .. Len(frames') : /\ frames'[i].url \in visited'
                                     /\ frames'[i].left \in Seq(Elements(Answer(frames'[i].url)))
    BY <1>4, <2>1
  <2>6. \A i, j \in 1 .. Len(frames') :
          i < j => /\ frames'[i].url # frames'[j].url
                   /\ frames'[j].url \in Reached(Nested(frames'[i].url))
    BY <1>4, <2>2
  <2>. QED
    BY <1>4, <1>8, <2>3, <2>4, <2>5, <2>6 DEF StackOK
<1>11. LinksOK'
  <2>. SUFFICES ASSUME NEW u \in visited', NEW k \in Elements(Answer(u)),
                       ~((IsItem(k) => k.href \in Elements(found))
                         /\ (IsCatalog(k) => k.href \in visited'))
                PROVE  \E i \in 1 .. n + 1 : frames'[i].url = u /\ k \in Elements(frames'[i].left)
    BY <1>4, <1>8 DEF LinksOK
  <2>1. CASE u = h
    BY <1>1, <1>3, <1>4, <2>1
  <2>2. CASE u # h
    <3>1. PICK i \in 1 .. n : frames[i].url = u /\ k \in Elements(frames[i].left)
      BY <1>0, <2>2 DEF LinksOK, n, h
    <3>2. k # l
      BY DEF h, IsCatalog
    <3>3. k \in Elements(a[i].left)
      BY <1>0, <1>1, <3>1, <3>2
    <3>. QED
      BY <1>1, <1>4, <3>1, <3>3
  <2>. QED
    BY <2>1, <2>2
<1>12. FoundOK'
  BY <1>0, <1>8 DEF FoundOK
<1>13. CyclesOK'
  <2>1. ASSUME warned = {}
        PROVE  \A i \in 1 .. n + 1 : \A k \in Elements(Answer(frames'[i].url)) :
                 IsCatalog(k) => \/ k \in Elements(frames'[i].left)
                                 \/ k.href \in Completed
                                 \/ i < n + 1 /\ k.href = frames'[i + 1].url
    <3>. SUFFICES ASSUME NEW i \in 1 .. n + 1, NEW k \in Elements(Answer(frames'[i].url)),
                         IsCatalog(k)
                  PROVE  \/ k \in Elements(frames'[i].left)
                         \/ k.href \in Completed
                         \/ i < n + 1 /\ k.href = frames'[i + 1].url
      OBVIOUS
    <3>1. CASE i = n + 1
      BY <1>3, <1>4, <3>1
    <3>2. CASE i \in 1 .. n
      <4>1. \/ k \in Elements(frames[i].left)
            \/ k.href \in Completed
            \/ i < n /\ k.href = frames[i + 1].url
        BY <1>0, <1>1, <1>4, <2>1, <3>2 DEF CyclesOK, n
      <4>2. CASE i = n
        <5>1. k \in Elements(a[n].left) \/ k = l \/ k.href \in Completed
          BY <1>0, <1>1, <4>1, <4>2
        <5>. QED
          BY <1>1, <1>3, <1>4, <4>2, <5>1 DEF h
      <4>3. CASE i # n
        <5>1. i + 1 \in 1 .. n /\ frames'[i + 1].url = frames[i + 1].url
              /\ frames'[i].left = frames[i].left
          BY <1>1, <1>4, <3>2, <4>3
        <5>. QED
          <6>1. i < n => i < n + 1
            BY <1>1
          <6>. QED
            BY <4>1, <5>1, <6>1
      <4>. QED
        BY <4>2, <4>3
    <3>. QED
      BY <1>5, <3>1, <3>2
  <2>2. \A u \in Completed : warned = {} => Nested(u) \subseteq Completed /\ ~Cyclic(u)
    BY <1>0 DEF CyclesOK
  <2>3. warned # {} => \E u \in visited' : Cyclic(u)
    BY <1>0 DEF CyclesOK
  <2>. QED
    BY <1>4, <1>8, <2>1, <2>2, <2>3 DEF CyclesOK
<1>14. frames' # << >>
  BY <1>1, <1>4
<1>. QED
  BY <1>10, <1>11, <1>12, <1>13, <1>14 DEF WalkInv

LEMMA ButLast ==
  ASSUME NEW S, NEW s \in Seq(S), Len(s) # 0
  PROVE  LET p == SubSeq(s, 1, Len(s) - 1) IN
         /\ p \in Seq(S) /\ Len(p) = Len(s) - 1
         /\ \A i \in 1 .. Len(s) - 1 : p[i] = s[i]
<1>. DEFINE n == Len(s) - 1
            p == SubSeq(s, 1, n)
<1>1. n \in Nat /\ \A i \in 1 .. n : s[i] \in S
  OBVIOUS
<1>. HIDE DEF n
<1>2. /\ p \in Seq(S)
      /\ Len(p) = IF 1 <= n THEN n - 1 + 1 ELSE 0
      /\ \A i \in 1 .. n - 1 + 1 : p[i] = s[1 + i - 1]
  BY <1>1, SubSeqProperties
<1>. HIDE DEF p
<1>3. Len(p) = n /\ \A i \in 1 .. n : p[i] = s[i]
  BY <1>1, <1>2
<1>. QED
  BY <1>2, <1>3 DEF n, p

(* A catalog all of whose links are taken.                                 *)
LEMMA CatalogLeft ==
  ASSUME NEW root, WalkInv(root), LeaveCatalog, UNCHANGED web
  PROVE  WalkInv(root)'
<1>. DEFINE n == Len(frames)
            t == Top.url
            F == [url : Catalogs, left : Lists]
<1>0. StackOK(root) /\ LinksOK /\ FoundOK /\ CyclesOK /\ Top = frames[n]
  BY DEF WalkInv, Top
<1>1. /\ Top.left = << >> /\ frames' = SubSeq(frames, 1, n - 1) /\ frames # << >>
      /\ walk' = (IF n = 1 THEN "done" ELSE "walking") /\ UNCHANGED <<visited, found, warned>>
  BY DEF LeaveCatalog
<1>2. /\ n \in Nat \ {0} /\ frames' \in Seq(F) /\ Len(frames') = n - 1
      /\ \A i \in 1 .. n - 1 : frames'[i] = frames[i]
  <2>1. frames \in Seq(F)
    BY <1>0 DEF StackOK
  <2>. HIDE DEF F
  <2>2. n \in Nat \ {0} /\ n - 1 \in Nat /\ n - 1 <= n
    BY <1>1, <2>1
  <2>. DEFINE s == SubSeq(frames, 1, n - 1)
  <2>3. Len(s) = n - 1 /\ s \in Seq(F) /\ \A i \in 1 .. n - 1 : s[i] = frames[i]
    BY <2>1, <2>2, ButLast
  <2>. QED
    BY <1>1, <2>2, <2>3
<1>3. Elements(Top.left) = {}
  BY <1>1 DEF Elements
<1>4. /\ \A i \in 1 .. n : frames[i].url \in visited
      /\ \A i \in 1 .. n : frames[i].left \in Seq(Elements(Answer(frames[i].url)))
      /\ \A i, j \in 1 .. n : i < j => /\ frames[i].url # frames[j].url
                                       /\ frames[j].url \in Reached(Nested(frames[i].url))
      /\ t = frames[n].url /\ n \in 1 .. n
  <2>1. n \in 1 .. n
    BY <1>2
  <2>. QED
    BY <1>0, <2>1 DEF StackOK
<1>. HIDE DEF n, t, F
<1>5. /\ \A i \in 1 .. n : i \in 1 .. n - 1 \/ i = n
      /\ \A i \in 1 .. n - 1 : i \in 1 .. n /\ i < n
  BY <1>2
<1>6. /\ OnStack(frames) = OnStack(frames') \cup {t} /\ t \notin OnStack(frames')
      /\ OnStack(frames) \subseteq visited
  <2>1. OnStack(frames) = {frames[i].url : i \in 1 .. n}
    BY DEF OnStack, n
  <2>2. OnStack(frames') = {frames[i].url : i \in 1 .. n - 1}
    BY <1>2 DEF OnStack
  <2>. QED
    BY <1>4, <1>5, <2>1, <2>2
<1>7. /\ Catalogs' = Catalogs /\ Lists' = Lists /\ AllItems' = AllItems
      /\ \A u : Answer(u)' = Answer(u) /\ Nested(u)' = Nested(u) /\ Cyclic(u)' = Cyclic(u)
      /\ \A u, rel : Links(u, rel)' = Links(u, rel)
      /\ \A R : Reached(R)' = Reached(R)
  BY SameGraph
<1>8. Completed' = Completed \cup {t} /\ t \notin Completed
  BY <1>1, <1>6 DEF Completed
<1>9. StackOK(root)'
  <2>1. \A i \in 1 .. Len(frames') : /\ frames'[i].url \in visited'
                                     /\ frames'[i].left \in Seq(Elements(Answer(frames'[i].url)))
    BY <1>1, <1>2, <1>4, <1>5
  <2>2. \A i, j \in 1 .. Len(frames') :
          i < j => /\ frames'[i].url # frames'[j].url
                   /\ frames'[j].url \in Reached(Nested(frames'[i].url))
    BY <1>2, <1>4, <1>5
  <2>3. /\ visited' \subseteq Catalogs /\ root \in visited'
        /\ \A u \in visited' : Answer(u) # Missing /\ u \in Reached({root})
    BY <1>0, <1>1 DEF StackOK
  <2>. QED
    BY <1>2, <1>7, <2>1, <2>2, <2>3 DEF StackOK, F
<1>10. LinksOK'
  <2>. SUFFICES ASSUME NEW u \in visited, NEW k \in Elements(Answer(u)),
                       ~((IsItem(k) => k.href \in Elements(found))
                         /\ (IsCatalog(k) => k.href \in visited))
                PROVE  \E i \in 1 .. Len(frames') : frames'[i].url = u
                                                    /\ k \in Elements(frames'[i].left)
    BY <1>1, <1>7 DEF LinksOK
  <2>1. PICK i \in 1 .. n : frames[i].url = u /\ k \in Elements(frames[i].left)
    BY <1>0 DEF LinksOK, n
  <2>2. i \in 1 .. n - 1
    BY <1>0, <1>3, <1>5, <2>1
  <2>. QED
    BY <1>2, <2>1, <2>2
<1>11. FoundOK'
  BY <1>0, <1>1, <1>7 DEF FoundOK
<1>12. CyclesOK'
  <2>1. ASSUME warned = {}
        PROVE  /\ \A u \in Completed' : Nested(u) \subseteq Completed' /\ ~Cyclic(u)
               /\ \A i \in 1 .. Len(frames') : \A k \in Elements(Answer(frames'[i].url)) :
                    IsCatalog(k) => \/ k \in Elements(frames'[i].left)
                                    \/ k.href \in Completed'
                                    \/ i < Len(frames') /\ k.href = frames'[i + 1].url
    <3>1. \A u \in Completed : Nested(u) \subseteq Completed /\ ~Cyclic(u)
      BY <1>0, <2>1 DEF CyclesOK
    <3>2. \A i \in 1 .. n : \A k \in Elements(Answer(frames[i].url)) :
            IsCatalog(k) => \/ k \in Elements(frames[i].left)
                            \/ k.href \in Completed
                            \/ i < n /\ k.href = frames[i + 1].url
      BY <1>0, <2>1 DEF CyclesOK, n
    <3>3. Nested(t) \subseteq Completed
      <4>1. Answer(t) # Missing
        BY <1>0, <1>4 DEF StackOK
      <4>2. \A k \in Elements(Answer(t)) : IsCatalog(k) => k.href \in Completed
        BY <1>0, <1>2, <1>3, <1>4, <3>2
      <4>. QED
        BY <4>1, <4>2, LinksOf
    <3>4. ~Cyclic(t)
      <4>1. Completed \in SUBSET Catalogs
        BY <1>0 DEF StackOK, Completed
      <4>2. Reached(Nested(t)) \subseteq Completed
        BY <3>1, <3>3, <4>1, ReachedSet
      <4>. QED
        BY <1>8, <4>2 DEF Cyclic
    <3>5. ASSUME NEW i \in 1 .. n - 1, NEW k \in Elements(Answer(frames[i].url)), IsCatalog(k)
          PROVE  \/ k \in Elements(frames[i].left)
                 \/ k.href \in Completed'
                 \/ i < n - 1 /\ k.href = frames[i + 1].url
      <4>1. CASE i = n - 1
        <5>1. i + 1 = n
          BY <1>2, <4>1
        <5>. QED
          BY <1>4, <1>5, <1>8, <3>2, <3>5, <5>1
      <4>2. CASE i # n - 1
        <5>1. i < n - 1
          BY <1>2, <4>2
        <5>. QED
          BY <1>5, <1>8, <3>2, <3>5, <5>1
      <4>. QED
        BY <4>1, <4>2
    <3>6. \A i \in 1 .. n - 1 : i < n - 1 => i + 1 \in 1 .. n - 1
      BY <1>2
    <3>. QED
      BY <1>2, <1>8, <3>1, <3>3, <3>4, <3>5, <3>6
  <2>2. warned' = warned /\ (warned # {} => \E u \in visited' : Cyclic(u))
    BY <1>0, <1>1 DEF CyclesOK
  <2>. QED
    BY <1>7, <2>1, <2>2 DEF CyclesOK
<1>13. (walk = "done" <=> frames = << >>)'
  <2>1. frames' = << >> <=> n = 1
    BY <1>2
  <2>. QED
    BY <1>1, <2>1
<1>. QED
  BY <1>9, <1>10, <1>11, <1>12, <1>13 DEF WalkInv

LEMMA WalkInvNext ==
  ASSUME NEW root, disk \in Disks, web \in Webs[disk], WalkInv(root), WalkStep, UNCHANGED web
  PROVE  walk' = "failed" \/ WalkInv(root)'
<1>. DEFINE l == Head(Top.left)
            t == Top.url
<1>0. StackOK(root) /\ LinksOK /\ FoundOK /\ CyclesOK
  BY DEF WalkInv
<1>1. CASE LeaveCatalog
  BY <1>1, CatalogLeft
<1>2. ASSUME frames # << >>, Top.left # << >>
      PROVE  /\ l \in Elements(Answer(t)) /\ t \in visited /\ Answer(t) # Missing
             /\ \E i \in 1 .. Len(frames) :
                  /\ t = frames[i].url
                  /\ \A j \in 1 .. Len(frames) : j = i \/ j < i
             /\ OnStack(Advanced) = OnStack(frames)
  <2>1. /\ Len(frames) \in Nat \ {0} /\ l \in Elements(Answer(t))
        /\ OnStack(Advanced) = OnStack(frames)
    BY <1>0, <1>2, AdvancedStack
  <2>2. t \in visited /\ Answer(t) # Missing
    BY <1>0, <2>1 DEF StackOK, Top
  <2>3. Len(frames) \in 1 .. Len(frames)
        /\ \A j \in 1 .. Len(frames) : j = Len(frames) \/ j < Len(frames)
    BY <2>1
  <2>. QED
    BY <2>1, <2>2, <2>3 DEF Top
<1>3. CASE FollowItem
  <2>1. /\ frames # << >> /\ Top.left # << >> /\ IsItem(l) /\ frames' = Advanced
        /\ found' = IF l.href \in Elements(found) THEN found ELSE Append(found, l.href)
        /\ UNCHANGED <<visited, warned, walk>>
    BY <1>3 DEF FollowItem, IsItem
  <2>2. l.href \in Links(t, "item") /\ t \in visited /\ t \in Catalogs
    BY <1>2, <2>1, LinksOf
  <2>. HIDE DEF l, t
  <2>3. /\ found \in Seq(AllItems) /\ l.href \in AllItems
        /\ Elements(found) \subseteq UNION {Links(u, "item") : u \in visited}
        /\ \A i, j \in 1 .. Len(found) : found[i] = found[j] => i = j
    BY <1>0, <2>2 DEF FoundOK, AllItems
  <2>4. /\ found' \in Seq(AllItems) /\ Elements(found') = Elements(found) \cup {l.href}
        /\ \A i, j \in 1 .. Len(found') : found'[i] = found'[j] => i = j
    <3>1. CASE l.href \in Elements(found)
      BY <2>1, <2>3, <3>1
    <3>2. CASE l.href \notin Elements(found)
      <4>. DEFINE h == l.href
                  m == Len(found)
                  new == Append(found, h)
      <4>1. m \in Nat /\ found' = new
        BY <2>1, <2>3, <3>2
      <4>2. /\ new \in Seq(AllItems) /\ Len(new) = m + 1 /\ new[m + 1] = h
            /\ \A i \in 1 .. m : new[i] = found[i]
        BY <2>3, Appended
      <4>. HIDE DEF new, h, m
      <4>3. \A i \in 1 .. m + 1 : i \in 1 .. m \/ i = m + 1
        BY <4>1
      <4>4. \A i \in 1 .. m : i \in 1 .. m + 1 /\ found[i] # h /\ found[i] \in Elements(found)
        BY <3>2, <4>1 DEF Elements, m, h
      <4>5. Elements(new) = Elements(found) \cup {h}
        <5>1. Elements(new) = {new[i] : i \in 1 .. m + 1} /\ Elements(found) = {found[i] : i \in 1 .. m}
          BY <4>2 DEF Elements, m
        <5>2. m + 1 \in 1 .. m + 1
          BY <4>1
        <5>. QED
          BY <4>2, <4>3, <4>4, <5>1, <5>2
      <4>6. \A i, j \in 1 .. m + 1 : new[i] = new[j] => i = j
        BY <2>3, <4>2, <4>3, <4>4 DEF m
      <4>. QED
        BY <4>1, <4>2, <4>5, <4>6 DEF h
    <3>. QED
      BY <3>1, <3>2
  <2>5. FoundOK'
    <3>1. AllItems' = AllItems /\ \A u, rel : Links(u, rel)' = Links(u, rel)
      BY SameGraph
    <3>2. Elements(found') \subseteq UNION {Links(u, "item") : u \in visited}
      BY <2>2, <2>3, <2>4
    <3>. QED
      BY <2>1, <2>4, <3>1, <3>2 DEF FoundOK
  <2>6. ~IsCatalog(l)
    BY <2>1 DEF IsCatalog
  <2>7. warned # {} => \E u \in visited : Cyclic(u)
    BY <1>0 DEF CyclesOK
  <2>. QED
    BY <2>1, <2>4, <2>5, <2>6, <2>7, LinkTaken DEF l
<1>4. CASE IgnoreLink
  <2>1. /\ frames # << >> /\ Top.left # << >> /\ ~IsItem(l) /\ ~IsCatalog(l) /\ frames' = Advanced
        /\ UNCHANGED <<visited, found, warned, walk>>
    BY <1>4 DEF IgnoreLink, IsItem, IsCatalog
  <2>2. FoundOK'
    BY <1>0, <2>1, SameGraph DEF FoundOK
  <2>3. warned # {} => \E u \in visited : Cyclic(u)
    BY <1>0 DEF CyclesOK
  <2>. QED
    BY <2>1, <2>2, <2>3, LinkTaken
<1>5. CASE FollowCatalog
  <2>. DEFINE h == l.href
  <2>1. /\ frames # << >> /\ Top.left # << >> /\ IsCatalog(l) /\ ~IsItem(l)
        /\ Visit(h, Advanced) /\ UNCHANGED found
    BY <1>5 DEF FollowCatalog, IsItem, IsCatalog
  <2>2. /\ t \in visited /\ h \in Nested(t) /\ OnStack(Advanced) = OnStack(frames)
        /\ t \in Catalogs
    BY <1>2, <2>1, LinksOf
  <2>3. FoundOK' \/ visited' # visited
    BY <1>0, <2>1, SameGraph DEF FoundOK
  <2>4. warned # {} => \E u \in visited : Cyclic(u)
    BY <1>0 DEF CyclesOK
  <2>5. CASE h \in OnStack(frames)
    <3>1. warned' = warned \cup {h} /\ frames' = Advanced /\ UNCHANGED <<visited, walk>>
      BY <2>1, <2>2, <2>5 DEF Visit, InProgress
    <3>2. h \in visited /\ h \in Catalogs
      BY <1>0, <2>5 DEF OnStack, StackOK
    <3>3. Cyclic(h)
      <4>1. PICK i \in 1 .. Len(frames) : h = frames[i].url
        BY <2>5 DEF OnStack
      <4>2. PICK j \in 1 .. Len(frames) : /\ t = frames[j].url
                                          /\ \A x \in 1 .. Len(frames) : x = j \/ x < j
        BY <1>2, <2>1
      <4>3. CASE i = j
        BY <2>2, <3>2, <4>1, <4>2, <4>3, ReachedSet DEF Cyclic
      <4>4. CASE i # j
        <5>1. t \in Reached(Nested(h))
          BY <1>0, <4>1, <4>2, <4>4 DEF StackOK
        <5>. QED
          BY <2>2, <3>2, <5>1, ReachedSet DEF Cyclic
      <4>. QED
        BY <4>3, <4>4
    <3>. QED
      BY <2>1, <2>3, <3>1, <3>2, <3>3, LinkTaken
  <2>6. CASE h \notin OnStack(frames) /\ h \in visited
    <3>1. frames' = Advanced /\ UNCHANGED <<visited, warned, walk>>
      BY <2>1, <2>2, <2>6 DEF Visit, InProgress
    <3>2. h \in Completed
      BY <2>6 DEF Completed
    <3>. QED
      BY <2>1, <2>3, <2>4, <2>6, <3>1, <3>2, LinkTaken
  <2>7. CASE h \notin OnStack(frames) /\ h \notin visited
    <3>1. \/ walk' = "failed"
          \/ /\ Answer(h) # Missing /\ visited' = visited \cup {h} /\ UNCHANGED <<warned, walk>>
             /\ frames' = Append(Advanced, [url |-> h, left |-> Answer(h)])
      BY <2>1, <2>2, <2>7 DEF Visit, InProgress
    <3>. QED
      BY <2>1, <2>7, <3>1, CatalogEntered
  <2>. QED
    BY <2>5, <2>6, <2>7
<1>. QED
  BY <1>1, <1>3, <1>4, <1>5 DEF WalkStep

(* Reading the root catalog, with nothing found yet.                       *)
LEMMA WalkBegins ==
  ASSUME NEW root, disk \in Disks, web \in Webs[disk], BeginWalk(root), UNCHANGED web
  PROVE  walk' = "failed" \/ (walk' = "walking" /\ WalkInv(root)')
<1>. SUFFICES ASSUME walk' # "failed" PROVE walk' = "walking" /\ WalkInv(root)'
  OBVIOUS
<1>. DEFINE e == [url |-> root, left |-> Answer(root)]
<1>1. /\ Answer(root) # Missing /\ walk' = "walking" /\ visited' = {root} /\ found' = << >>
      /\ warned' = {} /\ frames' = <<e>>
  BY DEF BeginWalk
<1>2. root \in Catalogs /\ Answer(root) \in Seq(Elements(Answer(root))) /\ Answer(root) \in Lists
  <2>1. root \in DOMAIN web.catalogs /\ Answer(root) = web.catalogs[root]
    BY <1>1 DEF Answer
  <2>2. Answer(root) \in Seq(Elements(Answer(root)))
    BY <1>1, <2>1, WebAssumption
  <2>. QED
    BY <2>1, <2>2 DEF Catalogs, Lists
<1>3. e \in [url : Catalogs, left : Lists] /\ e.url = root /\ e.left = Answer(root)
  BY <1>2
<1>. HIDE DEF e
<1>4. /\ frames' \in Seq([url : Catalogs, left : Lists]) /\ Len(frames') = 1 /\ frames'[1] = e
      /\ frames' # << >> /\ \A i \in 1 .. Len(frames') : i = 1
  BY <1>1, <1>3
<1>5. /\ Catalogs' = Catalogs /\ Lists' = Lists /\ AllItems' = AllItems
      /\ \A u : Answer(u)' = Answer(u) /\ Nested(u)' = Nested(u) /\ Cyclic(u)' = Cyclic(u)
      /\ \A R : Reached(R)' = Reached(R)
  BY SameGraph
<1>6. root \in Reached({root})
  BY <1>2, ReachedSet
<1>7. OnStack(frames') = {root} /\ Completed' = {}
  BY <1>1, <1>3, <1>4 DEF OnStack, Completed
<1>8. StackOK(root)'
  BY <1>1, <1>2, <1>3, <1>4, <1>5, <1>6 DEF StackOK
<1>9. LinksOK'
  BY <1>1, <1>3, <1>4, <1>5 DEF LinksOK
<1>10. FoundOK'
  BY <1>1 DEF FoundOK, Elements
<1>11. CyclesOK'
  BY <1>1, <1>3, <1>4, <1>5, <1>7 DEF CyclesOK
<1>. QED
  BY <1>1, <1>4, <1>8, <1>9, <1>10, <1>11 DEF WalkInv

LEMMA WalkInvStays ==
  ASSUME NEW root, WalkInv(root), UNCHANGED <<web, walkVars>>
  PROVE  WalkInv(root)'
<1>1. UNCHANGED <<frames, visited, found, warned, walk>>
  BY DEF walkVars
<1>2. /\ Catalogs' = Catalogs /\ Lists' = Lists /\ AllItems' = AllItems
      /\ \A u : Answer(u)' = Answer(u) /\ Nested(u)' = Nested(u) /\ Cyclic(u)' = Cyclic(u)
      /\ \A u, rel : Links(u, rel)' = Links(u, rel)
      /\ \A R : Reached(R)' = Reached(R)
  BY SameGraph
<1>3. Completed' = Completed
  BY <1>1 DEF Completed
<1>4. StackOK(root)'
  BY <1>1, <1>2 DEF WalkInv, StackOK
<1>5. LinksOK' /\ FoundOK'
  BY <1>1, <1>2 DEF WalkInv, LinksOK, FoundOK
<1>6. CyclesOK'
  BY <1>1, <1>2, <1>3 DEF WalkInv, CyclesOK
<1>. QED
  BY <1>1, <1>4, <1>5, <1>6 DEF WalkInv

LEMMA DiscoveryInvNext ==
  ASSUME DiscoveryInv, Next
  PROVE  DiscoveryInv'
<1>. DEFINE root == cfg.sources[current]["uri"]
<1>1. CASE LoadEffective /\ UNCHANGED <<web, walkVars, buildVars>>
  <2>1. loading # "loaded" /\ UNCHANGED <<disk, web, walk, building>>
    BY <1>1 DEF LoadEffective, SkipScope, RejectScope, MergeScope, Validate, walkVars, buildVars
  <2>. QED
    BY <2>1 DEF DiscoveryInv
<1>2. CASE Build
  <2>1. UNCHANGED <<disk, web, cfg, loading>>
    BY <1>2, Zenon DEF Build, BeginBuild, BuildNamed, NamedDone, BuildUnnamed, BeginExpand, Walk,
       WalkFails, BeginServices, BuildDiscovered, EndExpand, Finish, configVars
  <2>2. building' # "waiting" => loading = "loaded"
    BY <1>2 DEF Build, BeginBuild, BuildNamed, NamedDone, BuildUnnamed, BeginExpand, Walk,
       WalkFails, BeginServices, BuildDiscovered, EndExpand, Finish, DiscoveryInv, buildVars, Adds
  <2>3. CASE Walk
    <3>1. walk = "walking" /\ building' = building /\ root' = root
      BY <2>1, <2>3 DEF Walk, WalkStep, FollowItem, FollowCatalog, IgnoreLink, LeaveCatalog,
         buildVars
    <3>2. WalkStep
      BY <2>3 DEF Walk
    <3>3. walk' = "failed" \/ WalkInv(root)'
      <4>. DEFINE r == root
      <4>1. WalkInv(r) /\ disk \in Disks /\ web \in Webs[disk] /\ UNCHANGED web
        BY <2>1, <3>1 DEF DiscoveryInv
      <4>2. \A x : x = r /\ WalkInv(x) => walk' = "failed" \/ WalkInv(x)'
        BY <3>2, <4>1, WalkInvNext
      <4>. QED
        BY <3>1, <4>1, <4>2
    <3>. QED
      BY <2>1, <2>2, <3>1, <3>3 DEF DiscoveryInv
  <2>4. CASE \E s \in rest : BeginExpand(s)
    <3>1. PICK s \in rest : BeginExpand(s)
      BY <2>4
    <3>2. /\ BeginWalk(cfg.sources[s]["uri"]) /\ current' = s /\ building' = "expanding"
      BY <3>1 DEF BeginExpand
    <3>3. \A x : BeginWalk(x) => walk' = "failed" \/ (walk' = "walking" /\ WalkInv(x)')
      BY <2>1, WalkBegins DEF DiscoveryInv
    <3>4. root' = cfg.sources[s]["uri"]
      BY <2>1, <3>2
    <3>. QED
      BY <2>1, <2>2, <3>2, <3>3, <3>4 DEF DiscoveryInv
  <2>5. CASE BeginServices
    BY <2>1, <2>2, <2>5 DEF BeginServices, DiscoveryInv
  <2>6. CASE BeginBuild \/ BuildNamed \/ NamedDone \/ (\E s \in rest : BuildUnnamed(s))
             \/ WalkFails \/ BuildDiscovered \/ EndExpand \/ Finish
    <3>1. walk' = walk /\ walk \notin {"walking", "done"}
      BY <2>6 DEF BeginBuild, BuildNamed, NamedDone, BuildUnnamed, WalkFails, BuildDiscovered,
         EndExpand, Finish, DiscoveryInv, walkVars
    <3>. QED
      BY <2>1, <2>2, <3>1 DEF DiscoveryInv
  <2>. QED
    BY <1>2, <2>3, <2>4, <2>5, <2>6 DEF Build
<1>. QED
  BY <1>1, <1>2 DEF Next

(* The catalogs under way are a path of links from the root, each is one   *)
(* that was visited, and a link that is not followed yet is left in one of *)
(* them (DiscoverAPICatalog).                                              *)
THEOREM DiscoveryInvariant == Spec => []DiscoveryInv
<1>1. Init => DiscoveryInv
  BY DEF Init, ConfigInit, BuildInit, WalkInit, DiscoveryInv
<1>2. DiscoveryInv /\ UNCHANGED vars => DiscoveryInv'
  <2>. SUFFICES ASSUME DiscoveryInv, UNCHANGED vars PROVE DiscoveryInv'
    OBVIOUS
  <2>. DEFINE root == cfg.sources[current]["uri"]
  <2>1. /\ UNCHANGED <<disk, cfg, loading, web, walkVars, walk, building, current>>
    BY DEF vars, configVars, walkVars, buildVars
  <2>2. \A x : WalkInv(x) => WalkInv(x)'
    BY <2>1, WalkInvStays
  <2>3. root' = root
    BY <2>1
  <2>. QED
    BY <2>1, <2>2, <2>3 DEF DiscoveryInv
<1>. QED
  BY <1>1, <1>2, DiscoveryInvNext, PTL DEF Spec

(* A walk that ends has read the reachable catalogs and no other, has      *)
(* their services, each once, and has warned if and only if some of them   *)
(* is on a cycle (visit).                                                  *)
THEOREM DiscoveryReadsAll == Spec => []DiscoveryIsComplete
<1>1. DiscoveryInv => DiscoveryIsComplete
  <2>. SUFFICES ASSUME DiscoveryInv, walk = "done"
                PROVE  WalkIsComplete(cfg.sources[current]["uri"])
    BY DEF DiscoveryIsComplete
  <2>. DEFINE root == cfg.sources[current]["uri"]
  <2>1. frames = << >> /\ StackOK(root) /\ LinksOK /\ FoundOK /\ CyclesOK
    BY DEF DiscoveryInv, WalkInv
  <2>. HIDE DEF root
  <2>2. /\ Len(frames) = 0 /\ OnStack(frames) = {} /\ Completed = visited
    BY <2>1 DEF OnStack, Completed
  <2>3. \A u \in visited : \A l \in Elements(Answer(u)) :
          (IsItem(l) => l.href \in Elements(found)) /\ (IsCatalog(l) => l.href \in visited)
    BY <2>1, <2>2 DEF LinksOK
  <2>4. /\ visited \subseteq Catalogs /\ {root} \subseteq visited
        /\ \A u \in visited : Answer(u) # Missing /\ u \in Reached({root})
    BY <2>1 DEF StackOK
  <2>5. \A u \in visited : Nested(u) \subseteq visited /\ Links(u, "item") \subseteq Elements(found)
    BY <2>3, <2>4, LinksOf
  <2>6. visited = Reached({root})
    <3>1. visited \in SUBSET Catalogs /\ \A v \in visited : Nested(v) \subseteq visited
      BY <2>4, <2>5
    <3>2. \A S \in SUBSET Catalogs :
            {root} \subseteq S /\ (\A v \in S : Nested(v) \subseteq S) => Reached({root}) \subseteq S
      BY Zenon, ReachedSet
    <3>3. Reached({root}) \subseteq visited
      BY <2>4, <3>1, <3>2
    <3>. QED
      BY <2>4, <3>3
  <2>7. Elements(found) = UNION {Links(u, "item") : u \in visited}
    BY <2>1, <2>5 DEF FoundOK
  <2>8. \A i, j \in 1 .. Len(found) : found[i] = found[j] => i = j
    BY <2>1 DEF FoundOK
  <2>9. warned # {} <=> \E u \in visited : Cyclic(u)
    BY <2>1, <2>2 DEF CyclesOK
  <2>. QED
    BY <2>6, <2>7, <2>8, <2>9 DEF WalkIsComplete, root, Cyclic
<1>. QED
  BY <1>1, DiscoveryInvariant, PTL

-----------------------------------------------------------------------------
(* Workflows: for any documents, overlays and workflow files.              *)

WithinTools(flows, set) == \A w \in flows : Elements(w) \subseteq {t.id : t \in set}

LEMMA StepsAreBound ==
  ASSUME NEW service, NEW document, NEW refs, disk \in Disks, web \in Webs[disk],
         WorkflowsLoad(service, document, refs)
  PROVE  WithinTools(LoadWorkflows(service, document, refs), BuildTools(service, document))
<1>. DEFINE ids == {t.id : t \in BuildTools(service, document)}
            bound(step) == CHOOSE id \in Bound(service, document, step) : TRUE
<1>1. \A step : Bound(service, document, step) \subseteq ids
  BY DEF Bound
<1>2. ASSUME NEW ref \in Elements(refs), NEW w \in Elements(WorkflowFile(ref))
      PROVE  Elements([k \in 1 .. Len(w) |-> bound(w[k])]) \subseteq ids
  <2>1. /\ WorkflowFile(ref) # Missing
        /\ \A step \in Elements(w) : Bound(service, document, step) # {}
    BY <1>2 DEF WorkflowsLoad, Elements
  <2>2. w \in Seq(Elements(w))
    <3>1. ref \in DOMAIN web.workflows /\ w \in Elements(web.workflows[ref])
      BY <2>1 DEF WorkflowFile
    <3>. QED
      BY <2>1, <3>1, WebAssumption DEF WorkflowFile
  <2>3. Len(w) \in Nat /\ \A k \in 1 .. Len(w) : w[k] \in Elements(w)
    BY <2>2 DEF Elements
  <2>4. \A k \in 1 .. Len(w) : bound(w[k]) \in ids
    <3>. TAKE k \in 1 .. Len(w)
    <3>1. Bound(service, document, w[k]) # {}
      BY <2>1, <2>3
    <3>2. bound(w[k]) \in Bound(service, document, w[k])
      BY <3>1
    <3>. QED
      BY <1>1, <3>2
  <2>. DEFINE f == [k \in 1 .. Len(w) |-> bound(w[k])]
  <2>. HIDE DEF bound
  <2>5. Len(f) = Len(w) /\ \A k \in 1 .. Len(w) : f[k] \in ids
    BY <2>3, <2>4
  <2>. HIDE DEF f
  <2>6. Elements(f) \subseteq ids
    BY <2>5 DEF Elements
  <2>. QED
    BY <2>6 DEF f
<1>. HIDE DEF ids
<1>3. ASSUME NEW x \in LoadWorkflows(service, document, refs)
      PROVE  Elements(x) \subseteq ids
  <2>1. PICK w \in UNION {Elements(WorkflowFile(ref)) : ref \in Elements(refs)} :
          x = [k \in 1 .. Len(w) |-> bound(w[k])]
    BY DEF LoadWorkflows
  <2>. HIDE DEF bound
  <2>2. PICK ref \in Elements(refs) : w \in Elements(WorkflowFile(ref))
    BY <2>1
  <2>. QED
    BY <1>2, <2>1, <2>2
<1>. QED
  BY <1>3 DEF WithinTools, ids

LEMMA ServiceIsWithin ==
  ASSUME NEW name, NEW service, NEW source, disk \in Disks, web \in Webs[disk],
         BuildService(name, service, source).ok
  PROVE  LET built == BuildService(name, service, source)
         IN  WithinTools(built.workflows, built.tools)
<1>. DEFINE built == BuildService(name, service, source)
<1>1. ASSUME NEW b, NEW id, NEW document, NEW refs, NEW states, b.ok,
             \/ /\ WorkflowsLoad(id, document, refs)
                /\ b = [ok |-> TRUE, tools |-> BuildTools(id, document),
                        workflows |-> LoadWorkflows(id, document, refs), states |-> states]
             \/ b = Failure
      PROVE  WithinTools(b.workflows, b.tools)
  <2>1. b # Failure
    BY <1>1 DEF Failure
  <2>2. /\ WorkflowsLoad(id, document, refs) /\ b.tools = BuildTools(id, document)
        /\ b.workflows = LoadWorkflows(id, document, refs)
    BY <1>1, <2>1
  <2>. QED
    BY <2>2, StepsAreBound
<1>2. \E id, document, refs, states :
        \/ /\ WorkflowsLoad(id, document, refs)
           /\ built = [ok |-> TRUE, tools |-> BuildTools(id, document),
                       workflows |-> LoadWorkflows(id, document, refs), states |-> states]
        \/ built = Failure
  <2>1. CASE source["type"] = "mcp"
    BY <2>1, Zenon DEF BuildService, BuildMCPService
  <2>2. CASE source["type"] # "mcp"
    BY <2>2, Zenon DEF BuildService, BuildDocumentService
  <2>. QED
    BY <2>1, <2>2
<1>. HIDE DEF built
<1>3. WithinTools(built.workflows, built.tools)
  BY <1>1, <1>2 DEF built
<1>. QED
  BY <1>3 DEF built

FlowInv == WithinTools(workflows, tools)

LEMMA AddsWithin ==
  ASSUME FlowInv, NEW name, NEW service, NEW source, NEW of, disk \in Disks, web \in Webs[disk],
         Adds(BuildService(name, service, source), of)
  PROVE  FlowInv'
<1>. DEFINE built == BuildService(name, service, source)
<1>1. built.ok => WithinTools(built.workflows, built.tools)
  BY ServiceIsWithin
<1>2. Adds(built, of)
  OBVIOUS
<1>. HIDE DEF built
<1>3. CASE built.ok
  BY <1>1, <1>2, <1>3 DEF Adds, FlowInv, WithinTools
<1>4. CASE ~built.ok
  BY <1>2, <1>4 DEF Adds, FlowInv, WithinTools
<1>. QED
  BY <1>3, <1>4

(* No built catalog has a workflow with a step whose tool was removed,     *)
(* hidden or disabled (loadWorkflows).                                     *)
THEOREM WorkflowsCanRun == Spec => []StepsHaveTools
<1>1. Init => FlowInv
  BY DEF Init, BuildInit, FlowInv, WithinTools
<1>2. DiscoveryInv /\ FlowInv /\ Next => FlowInv'
  <2>. SUFFICES ASSUME DiscoveryInv, FlowInv, Next PROVE FlowInv'
    OBVIOUS
  <2>1. disk \in Disks /\ web \in Webs[disk]
    BY DEF DiscoveryInv
  <2>2. CASE BuildNamed
    BY <2>1, <2>2, AddsWithin DEF BuildNamed
  <2>3. CASE \E s \in rest : BuildUnnamed(s)
    BY <2>1, <2>3, AddsWithin DEF BuildUnnamed
  <2>4. CASE BuildDiscovered
    BY <2>1, <2>4, AddsWithin DEF BuildDiscovered
  <2>5. CASE UNCHANGED <<tools, workflows>>
    BY <2>5 DEF FlowInv
  <2>6. BuildNamed \/ (\E s \in rest : BuildUnnamed(s)) \/ BuildDiscovered
          \/ UNCHANGED <<tools, workflows>>
    BY Zenon DEF Next, Build, BeginBuild, NamedDone, BeginExpand, Walk, WalkFails, BeginServices,
       EndExpand, Finish, buildVars
  <2>. QED
    BY <2>2, <2>3, <2>4, <2>5, <2>6
<1>3. FlowInv /\ UNCHANGED vars => FlowInv'
  BY DEF vars, buildVars, FlowInv
<1>4. FlowInv => StepsHaveTools
  BY DEF FlowInv, WithinTools, StepsHaveTools, ToolIds
<1>. QED
  BY <1>1, <1>2, <1>3, <1>4, DiscoveryInvariant, PTL DEF Spec

-----------------------------------------------------------------------------
(* Names of MCP tools: for any list of tools and any disabled ones.  What  *)
(* a loop over a list does is proved from its first member to its last.    *)

(* Induction on a number, one set of counterexamples at a time.            *)
LEMMA NoCounterexample ==
  ASSUME NEW n \in Nat, NEW S \in SUBSET (0 .. n),
         0 \notin S, \A k \in 1 .. n : k \in S => k - 1 \in S
  PROVE  S = {}
<1>. SUFFICES ASSUME S # {} PROVE FALSE
  OBVIOUS
<1>. DEFINE Below == {p \in Nat \X Nat : p[1] < p[2]}
<1>1. OpToRel(<, Nat) = Below
  BY Zenon DEF OpToRel
<1>2. IsWellFoundedOn(Below, Nat)
  BY <1>1, NatLessThanWellFounded, Zenon
<1>3. S \in SUBSET Nat
  OBVIOUS
<1>4. PICK k \in S : \A j \in S : ~(<<j, k>> \in Below)
  BY <1>2, <1>3, WFMin, Zenon
<1>5. k \in 1 .. n /\ k - 1 \in S /\ k - 1 \in Nat /\ k \in Nat
  OBVIOUS
<1>6. <<k - 1, k>> \in Nat \X Nat /\ <<k - 1, k>>[1] = k - 1 /\ <<k - 1, k>>[2] = k
  BY <1>5
<1>7. <<k - 1, k>> \in Below
  BY <1>5, <1>6
<1>. QED
  BY <1>4, <1>5, <1>7

LEMMA MaxOfNext ==
  ASSUME NEW n \in Nat, NEW t \in SUBSET (1 .. n + 1), n + 1 \in t
  PROVE  Max(t) = n + 1
<1>1. \A x \in t : (\A y \in t : x >= y) => x = n + 1
  OBVIOUS
<1>2. \A y \in t : n + 1 >= y
  OBVIOUS
<1>3. PICK m : m = Max(t)
  OBVIOUS
<1>4. m \in t /\ \A y \in t : m >= y
  BY <1>2, <1>3, Zenon DEF Max
<1>. QED
  BY <1>1, <1>3, <1>4

(* A loop over a list passes through the states of its loop variable: the  *)
(* fold that names operations, written out.                                *)
AddsUp(trail, names) ==
  /\ trail[0] = NoOperations
  /\ \A k \in 1 .. Len(names) : trail[k] = AddRef(trail[k - 1], names[k])

LEMMA NamingFold ==
  ASSUME NEW names, Len(names) \in Nat, DOMAIN names = 1 .. Len(names)
  PROVE  \E trail : AddsUp(trail, names) /\ FoldLeft(AddRef, NoOperations, names) = trail[Len(names)]
<1>. DEFINE Folds(g, n) ==
       g = [t \in SUBSET (1 .. n) |->
              IF t = {} THEN NoOperations ELSE AddRef(g[t \ {Max(t)}], names[Max(t)])]
            Lacking == {n \in 0 .. Len(names) : ~\E g : Folds(g, n)}
<1>1. \E g : Folds(g, 0)
  <2>. DEFINE g == [t \in SUBSET (1 .. 0) |-> NoOperations]
  <2>1. SUBSET (1 .. 0) = {{}}
    OBVIOUS
  <2>2. g = [t \in SUBSET (1 .. 0) |->
              IF t = {} THEN NoOperations ELSE AddRef(g[t \ {Max(t)}], names[Max(t)])]
    BY <2>1, Zenon
  <2>. QED
    BY <2>2, Zenon
<1>2. ASSUME NEW n \in Nat, NEW g, Folds(g, n) PROVE \E h : Folds(h, n + 1)
  <2>. DEFINE h == [t \in SUBSET (1 .. n + 1) |->
                      IF n + 1 \in t THEN AddRef(g[t \ {n + 1}], names[n + 1]) ELSE g[t]]
              F(t) == IF t = {} THEN NoOperations ELSE AddRef(h[t \ {Max(t)}], names[Max(t)])
  <2>1. \A t \in SUBSET (1 .. n + 1) : n + 1 \notin t => t \in SUBSET (1 .. n)
    OBVIOUS
  <2>2. \A t \in SUBSET (1 .. n) : t \in SUBSET (1 .. n + 1) /\ n + 1 \notin t
    OBVIOUS
  <2>3. \A t \in SUBSET (1 .. n) : h[t] = g[t]
    BY <2>2, Zenon
  <2>4. ASSUME NEW t \in SUBSET (1 .. n + 1) PROVE h[t] = F(t)
    <3>1. CASE n + 1 \in t
      <4>1. Max(t) = n + 1 /\ t # {}
        BY <3>1, MaxOfNext
      <4>2. t \ {n + 1} \in SUBSET (1 .. n)
        OBVIOUS
      <4>3. h[t] = AddRef(g[t \ {n + 1}], names[n + 1])
        BY <3>1, Zenon
      <4>4. h[t \ {n + 1}] = g[t \ {n + 1}]
        BY <2>3, <4>2, Zenon
      <4>. HIDE DEF h
      <4>. QED
        BY <4>1, <4>3, <4>4, Zenon
    <3>2. CASE n + 1 \notin t
      <4>1. t \in SUBSET (1 .. n)
        BY <2>1, <3>2, Zenon
      <4>2. g[t] = IF t = {} THEN NoOperations ELSE AddRef(g[t \ {Max(t)}], names[Max(t)])
        BY <1>2, <4>1, Zenon
      <4>3. h[t] = g[t] /\ t \ {Max(t)} \in SUBSET (1 .. n)
        BY <2>3, <4>1, Zenon
      <4>4. h[t \ {Max(t)}] = g[t \ {Max(t)}]
        BY <2>3, <4>3, Zenon
      <4>. HIDE DEF h
      <4>. QED
        BY <4>2, <4>3, <4>4, Zenon
    <3>. QED
      BY <3>1, <3>2, Zenon
  <2>5. h = [t \in SUBSET (1 .. n + 1) |-> F(t)]
    BY <2>4, Zenon
  <2>. QED
    BY <2>5, Zenon
<1>. HIDE DEF Folds
<1>3. Lacking = {}
  <2>1. 0 \notin Lacking
    BY <1>1
  <2>2. ASSUME NEW k \in 1 .. Len(names), k \in Lacking PROVE k - 1 \in Lacking
    <3>1. k - 1 \in Nat /\ k - 1 \in 0 .. Len(names) /\ (k - 1) + 1 = k
      OBVIOUS
    <3>2. (\E g : Folds(g, k - 1)) => \E h : Folds(h, (k - 1) + 1)
      BY <1>2, <3>1
    <3>. QED
      BY <2>2, <3>1, <3>2
  <2>3. Lacking \in SUBSET (0 .. Len(names))
    OBVIOUS
  <2>. HIDE DEF Lacking
  <2>. QED
    BY <2>1, <2>2, <2>3, NoCounterexample
<1>. DEFINE g == CHOOSE h : Folds(h, Len(names))
<1>4. Folds(g, Len(names))
  <2>1. Len(names) \notin Lacking
    BY <1>3
  <2>2. \E h : Folds(h, Len(names))
    BY <2>1
  <2>. QED
    BY <2>2, Zenon
<1>5. FoldLeft(AddRef, NoOperations, names) = g[1 .. Len(names)]
  BY Zenon DEF FoldLeft, MapThenFoldSet, Folds
<1>. HIDE DEF g
<1>. DEFINE trail == [k \in 0 .. Len(names) |-> g[1 .. k]]
<1>6. trail[0] = NoOperations
  <2>1. 1 .. 0 = {} /\ {} \in SUBSET (1 .. Len(names)) /\ 0 \in 0 .. Len(names)
    OBVIOUS
  <2>2. g[{}] = NoOperations
    BY <1>4, <2>1, Zenon DEF Folds
  <2>. QED
    BY <2>1, <2>2
<1>7. ASSUME NEW k \in 1 .. Len(names) PROVE trail[k] = AddRef(trail[k - 1], names[k])
  <2>1. /\ 1 .. k \in SUBSET (1 .. Len(names)) /\ 1 .. k # {} /\ (1 .. k) \ {k} = 1 .. k - 1
        /\ k \in 0 .. Len(names) /\ k - 1 \in 0 .. Len(names)
    <3>1. k \in 1 .. k
      OBVIOUS
    <3>2. /\ 1 .. k \in SUBSET (1 .. Len(names)) /\ (1 .. k) \ {k} = 1 .. k - 1
          /\ k \in 0 .. Len(names) /\ k - 1 \in 0 .. Len(names)
      OBVIOUS
    <3>. QED
      BY <3>1, <3>2, Zenon
  <2>2. Max(1 .. k) = k
    <3>1. k - 1 \in Nat /\ (k - 1) + 1 = k /\ 1 .. k \in SUBSET (1 .. (k - 1) + 1) /\ k \in 1 .. k
      OBVIOUS
    <3>2. PICK m : m = k - 1
      OBVIOUS
    <3>3. m \in Nat /\ m + 1 = k
      BY <3>1, <3>2
    <3>. QED
      BY <3>1, <3>3, MaxOfNext
  <2>3. g[1 .. k] = AddRef(g[(1 .. k) \ {Max(1 .. k)}], names[Max(1 .. k)])
    BY <1>4, <2>1, Zenon DEF Folds
  <2>4. g[1 .. k] = AddRef(g[1 .. k - 1], names[k])
    BY <2>1, <2>2, <2>3, Zenon
  <2>. QED
    BY <2>1, <2>4, Zenon
<1>8. Len(names) \in 0 .. Len(names)
  OBVIOUS
<1>9. trail[Len(names)] = g[1 .. Len(names)]
  BY <1>8, Zenon
<1>. HIDE DEF trail
<1>. QED
  BY <1>5, <1>6, <1>7, <1>9, Zenon DEF AddsUp

(* And the fold that leaves out some members of a list.                    *)
Passes(kept, x, passed) == IF x \in passed THEN kept ELSE Append(kept, x)
Thins(trail, list, passed) ==
  /\ trail[0] = << >>
  /\ \A k \in 1 .. Len(list) : trail[k] = Passes(trail[k - 1], list[k], passed)

LEMMA WithoutFold ==
  ASSUME NEW list, NEW passed, Len(list) \in Nat, DOMAIN list = 1 .. Len(list)
  PROVE  \E trail : Thins(trail, list, passed) /\ Without(list, passed) = trail[Len(list)]
<1>. DEFINE Folds(g, n) ==
       g = [t \in SUBSET (1 .. n) |->
              IF t = {} THEN << >> ELSE Passes(g[t \ {Max(t)}], list[Max(t)], passed)]
            Lacking == {n \in 0 .. Len(list) : ~\E g : Folds(g, n)}
<1>1. \E g : Folds(g, 0)
  <2>. DEFINE g == [t \in SUBSET (1 .. 0) |-> << >>]
  <2>1. SUBSET (1 .. 0) = {{}}
    OBVIOUS
  <2>2. g = [t \in SUBSET (1 .. 0) |->
              IF t = {} THEN << >> ELSE Passes(g[t \ {Max(t)}], list[Max(t)], passed)]
    BY <2>1, Zenon
  <2>. QED
    BY <2>2, Zenon
<1>2. ASSUME NEW n \in Nat, NEW g, Folds(g, n) PROVE \E h : Folds(h, n + 1)
  <2>. DEFINE h == [t \in SUBSET (1 .. n + 1) |->
                      IF n + 1 \in t THEN Passes(g[t \ {n + 1}], list[n + 1], passed) ELSE g[t]]
              F(t) == IF t = {} THEN << >> ELSE Passes(h[t \ {Max(t)}], list[Max(t)], passed)
  <2>1. \A t \in SUBSET (1 .. n + 1) : n + 1 \notin t => t \in SUBSET (1 .. n)
    OBVIOUS
  <2>2. \A t \in SUBSET (1 .. n) : t \in SUBSET (1 .. n + 1) /\ n + 1 \notin t
    OBVIOUS
  <2>3. \A t \in SUBSET (1 .. n) : h[t] = g[t]
    BY <2>2, Zenon
  <2>4. ASSUME NEW t \in SUBSET (1 .. n + 1) PROVE h[t] = F(t)
    <3>1. CASE n + 1 \in t
      <4>1. Max(t) = n + 1 /\ t # {}
        BY <3>1, MaxOfNext
      <4>2. t \ {n + 1} \in SUBSET (1 .. n)
        OBVIOUS
      <4>3. h[t] = Passes(g[t \ {n + 1}], list[n + 1], passed)
        BY <3>1, Zenon
      <4>4. h[t \ {n + 1}] = g[t \ {n + 1}]
        BY <2>3, <4>2, Zenon
      <4>. HIDE DEF h
      <4>. QED
        BY <4>1, <4>3, <4>4, Zenon
    <3>2. CASE n + 1 \notin t
      <4>1. t \in SUBSET (1 .. n)
        BY <2>1, <3>2, Zenon
      <4>2. g[t] = IF t = {} THEN << >> ELSE Passes(g[t \ {Max(t)}], list[Max(t)], passed)
        BY <1>2, <4>1, Zenon
      <4>3. h[t] = g[t] /\ t \ {Max(t)} \in SUBSET (1 .. n)
        BY <2>3, <4>1, Zenon
      <4>4. h[t \ {Max(t)}] = g[t \ {Max(t)}]
        BY <2>3, <4>3, Zenon
      <4>. HIDE DEF h
      <4>. QED
        BY <4>2, <4>3, <4>4, Zenon
    <3>. QED
      BY <3>1, <3>2, Zenon
  <2>5. h = [t \in SUBSET (1 .. n + 1) |-> F(t)]
    BY <2>4, Zenon
  <2>. QED
    BY <2>5, Zenon
<1>. HIDE DEF Folds
<1>3. Lacking = {}
  <2>1. 0 \notin Lacking
    BY <1>1
  <2>2. ASSUME NEW k \in 1 .. Len(list), k \in Lacking PROVE k - 1 \in Lacking
    <3>1. k - 1 \in Nat /\ k - 1 \in 0 .. Len(list) /\ (k - 1) + 1 = k
      OBVIOUS
    <3>2. (\E g : Folds(g, k - 1)) => \E h : Folds(h, (k - 1) + 1)
      BY <1>2, <3>1
    <3>. QED
      BY <2>2, <3>1, <3>2
  <2>3. Lacking \in SUBSET (0 .. Len(list))
    OBVIOUS
  <2>. HIDE DEF Lacking
  <2>. QED
    BY <2>1, <2>2, <2>3, NoCounterexample
<1>. DEFINE g == CHOOSE h : Folds(h, Len(list))
<1>4. Folds(g, Len(list))
  <2>1. Len(list) \notin Lacking
    BY <1>3
  <2>2. \E h : Folds(h, Len(list))
    BY <2>1
  <2>. QED
    BY <2>2, Zenon
<1>5. Without(list, passed) = g[1 .. Len(list)]
  BY Zenon DEF Without, FoldLeft, MapThenFoldSet, Folds, Passes
<1>. HIDE DEF g
<1>. DEFINE trail == [k \in 0 .. Len(list) |-> g[1 .. k]]
<1>6. trail[0] = << >>
  <2>1. 1 .. 0 = {} /\ {} \in SUBSET (1 .. Len(list)) /\ 0 \in 0 .. Len(list)
    OBVIOUS
  <2>2. g[{}] = << >>
    BY <1>4, <2>1, Zenon DEF Folds
  <2>. QED
    BY <2>1, <2>2
<1>7. ASSUME NEW k \in 1 .. Len(list) PROVE trail[k] = Passes(trail[k - 1], list[k], passed)
  <2>1. /\ 1 .. k \in SUBSET (1 .. Len(list)) /\ 1 .. k # {} /\ (1 .. k) \ {k} = 1 .. k - 1
        /\ k \in 0 .. Len(list) /\ k - 1 \in 0 .. Len(list)
    <3>1. k \in 1 .. k
      OBVIOUS
    <3>2. /\ 1 .. k \in SUBSET (1 .. Len(list)) /\ (1 .. k) \ {k} = 1 .. k - 1
          /\ k \in 0 .. Len(list) /\ k - 1 \in 0 .. Len(list)
      OBVIOUS
    <3>. QED
      BY <3>1, <3>2, Zenon
  <2>2. Max(1 .. k) = k
    <3>1. k - 1 \in Nat /\ (k - 1) + 1 = k /\ 1 .. k \in SUBSET (1 .. (k - 1) + 1) /\ k \in 1 .. k
      OBVIOUS
    <3>2. PICK m : m = k - 1
      OBVIOUS
    <3>3. m \in Nat /\ m + 1 = k
      BY <3>1, <3>2
    <3>. QED
      BY <3>1, <3>3, MaxOfNext
  <2>3. g[1 .. k] = Passes(g[(1 .. k) \ {Max(1 .. k)}], list[Max(1 .. k)], passed)
    BY <1>4, <2>1, Zenon DEF Folds
  <2>4. g[1 .. k] = Passes(g[1 .. k - 1], list[k], passed)
    BY <2>1, <2>2, <2>3, Zenon
  <2>. QED
    BY <2>1, <2>4, Zenon
<1>8. Len(list) \in 0 .. Len(list)
  OBVIOUS
<1>9. trail[Len(list)] = g[1 .. Len(list)]
  BY <1>8, Zenon
<1>. HIDE DEF trail
<1>. QED
  BY <1>5, <1>6, <1>7, <1>9, Zenon DEF Thins

(* What is left of a list is the rest of its members, in order.            *)
LEMMA WithoutKeeps ==
  ASSUME NEW list, NEW passed, list \in Seq(Elements(list))
  PROVE  /\ Without(list, passed) \in Seq(Elements(list) \ passed)
         /\ Elements(Without(list, passed)) = Elements(list) \ passed
<1>. DEFINE X == Elements(list) \ passed
            n == Len(list)
            Thinned(s, k) ==
              /\ s \in Seq(X)
              /\ \A i \in 1 .. k : list[i] \notin passed => \E j \in 1 .. Len(s) : s[j] = list[i]
<1>1. n \in Nat /\ DOMAIN list = 1 .. n /\ \A k \in 1 .. n : list[k] \in Elements(list)
  BY DEF Elements
<1>2. PICK trail : Thins(trail, list, passed) /\ Without(list, passed) = trail[n]
  BY <1>1, WithoutFold
<1>. DEFINE Wrong == {k \in 0 .. n : ~Thinned(trail[k], k)}
<1>3. 0 \notin Wrong
  <2>1. trail[0] = << >>
    BY <1>2, Zenon DEF Thins
  <2>2. Thinned(<< >>, 0)
    OBVIOUS
  <2>. QED
    BY <2>1, <2>2, Zenon
<1>4. ASSUME NEW k \in 1 .. n, k - 1 \notin Wrong PROVE k \notin Wrong
  <2>1. k - 1 \in 0 .. n /\ k \in 0 .. n
    BY <1>1
  <2>2. PICK s : s = trail[k - 1]
    OBVIOUS
  <2>3. Thinned(s, k - 1)
    BY <1>4, <2>1, <2>2
  <2>4. trail[k] = Passes(s, list[k], passed)
    BY <1>2, <2>2 DEF Thins
  <2>5. \A i \in 1 .. k : i \in 1 .. k - 1 \/ i = k
    BY <1>1
  <2>6. CASE list[k] \in passed
    BY <2>3, <2>4, <2>5, <2>6 DEF Passes
  <2>7. CASE list[k] \notin passed
    <3>1. list[k] \in X /\ trail[k] = Append(s, list[k])
      BY <1>1, <2>4, <2>7 DEF Passes
    <3>. HIDE DEF X
    <3>2. s \in Seq(X)
      BY <2>3
    <3>3. /\ Append(s, list[k]) \in Seq(X) /\ Len(Append(s, list[k])) = Len(s) + 1
          /\ \A j \in 1 .. Len(s) : Append(s, list[k])[j] = s[j]
          /\ Append(s, list[k])[Len(s) + 1] = list[k] /\ Len(s) \in Nat
      BY <3>1, <3>2
    <3>4. Thinned(Append(s, list[k]), k)
      <4>1. ASSUME NEW i \in 1 .. k, list[i] \notin passed
            PROVE  \E j \in 1 .. Len(Append(s, list[k])) : Append(s, list[k])[j] = list[i]
        <5>1. CASE i = k
          BY <3>3, <5>1
        <5>2. CASE i \in 1 .. k - 1
          <6>1. PICK j \in 1 .. Len(s) : s[j] = list[i]
            BY <2>3, <4>1, <5>2
          <6>. QED
            BY <3>3, <6>1
        <5>. QED
          BY <2>5, <5>1, <5>2
      <4>. QED
        BY <3>3, <4>1
    <3>. QED
      BY <3>1, <3>4
  <2>. QED
    BY <2>6, <2>7
<1>5. Wrong \in SUBSET (0 .. n)
  OBVIOUS
<1>. HIDE DEF Wrong
<1>6. Wrong = {}
  BY <1>1, <1>3, <1>4, <1>5, NoCounterexample
<1>7. Thinned(trail[n], n)
  BY <1>1, <1>6 DEF Wrong
<1>8. \A s : Thinned(s, n) => Elements(s) = X
  <2>. SUFFICES ASSUME NEW s, Thinned(s, n) PROVE Elements(s) = X
    OBVIOUS
  <2>1. \A x \in X : \E i \in 1 .. n : x = list[i] /\ list[i] \notin passed
    BY DEF Elements
  <2>. HIDE DEF X
  <2>2. \A j \in 1 .. Len(s) : s[j] \in X
    OBVIOUS
  <2>. QED
    BY <2>1, <2>2 DEF Elements
<1>. QED
  BY <1>2, <1>7, <1>8

(* When the members left out are the last ones, the first ones are left.   *)
LEMMA WithoutRest ==
  ASSUME NEW S, NEW first \in Seq(S), NEW more \in Seq(S), NEW passed,
         \A i \in 1 .. Len(first) : first[i] \notin passed,
         \A i \in 1 .. Len(more) : more[i] \in passed
  PROVE  Without(first \o more, passed) = first
<1>. DEFINE n == Len(first)
            list == first \o more
            Start(s, k) == IF k <= n THEN s = SubSeq(first, 1, k) ELSE s = first
<1>1. /\ n \in Nat /\ Len(list) = n + Len(more) /\ Len(more) \in Nat /\ list \in Seq(S)
      /\ \A i \in 1 .. n : list[i] = first[i]
      /\ \A i \in n + 1 .. Len(list) : list[i] \in passed
  OBVIOUS
<1>. HIDE DEF list
<1>2. DOMAIN list = 1 .. Len(list) /\ Len(list) \in Nat
  BY <1>1
<1>3. PICK trail : Thins(trail, list, passed) /\ Without(list, passed) = trail[Len(list)]
  BY <1>2, WithoutFold
<1>. DEFINE Wrong == {k \in 0 .. Len(list) : ~Start(trail[k], k)}
<1>4. 0 \notin Wrong
  <2>1. trail[0] = << >>
    BY <1>3, Zenon DEF Thins
  <2>2. Start(<< >>, 0)
    BY <1>1
  <2>. QED
    BY <2>1, <2>2, Zenon
<1>5. ASSUME NEW k \in 1 .. Len(list), k - 1 \notin Wrong PROVE k \notin Wrong
  <2>1. k - 1 \in 0 .. Len(list) /\ k \in Nat /\ k - 1 \in Nat
    BY <1>2
  <2>2. PICK s : s = trail[k - 1]
    OBVIOUS
  <2>3. Start(s, k - 1)
    BY <1>5, <2>1, <2>2
  <2>4. trail[k] = Passes(s, list[k], passed)
    BY <1>3, <2>2 DEF Thins
  <2>5. CASE k <= n
    <3>1. k \in 1 .. n
      BY <2>1, <2>5
    <3>2. list[k] = first[k] /\ list[k] \notin passed
      BY <1>1, <3>1
    <3>3. trail[k] = Append(SubSeq(first, 1, k - 1), first[k])
      BY <1>1, <2>1, <2>3, <2>4, <2>5, <3>2 DEF Passes
    <3>4. SubSeq(first, 1, k) = Append(SubSeq(first, 1, k - 1), first[k])
      BY <1>1, <3>1, SubSeqRecursiveSecond
    <3>. QED
      BY <2>5, <3>3, <3>4
  <2>6. CASE k > n
    <3>1. list[k] \in passed
      BY <1>1, <2>6
    <3>2. SubSeq(first, 1, n) = first
      BY <1>1, SubSeqFull
    <3>3. s = first
      BY <1>1, <2>1, <2>3, <2>6, <3>2
    <3>. QED
      BY <1>1, <2>1, <2>4, <2>6, <3>1, <3>3 DEF Passes
  <2>. QED
    BY <1>1, <2>1, <2>5, <2>6
<1>6. Wrong \in SUBSET (0 .. Len(list))
  OBVIOUS
<1>. HIDE DEF Wrong
<1>7. Wrong = {}
  BY <1>2, <1>4, <1>5, <1>6, NoCounterexample
<1>8. Start(trail[Len(list)], Len(list))
  BY <1>2, <1>7 DEF Wrong
<1>9. SubSeq(first, 1, n) = first
  BY <1>1, SubSeqFull
<1>10. trail[Len(list)] = first
  BY <1>1, <1>8, <1>9
<1>. QED
  BY <1>3, <1>10 DEF list

(* The operations that have been named after k names.                      *)
Labels(X) ==
  LET words == X \cup {Slug[n] : n \in X}
  IN  {<<w>> : w \in words} \cup {<<v, w>> : v \in words, w \in words}
Operation(X) == [tool : X, id : Labels(X), path : Labels(X)]

Named(acc, names, k) ==
  /\ acc.refs \in Seq(Operation(Elements(names))) /\ Len(acc.refs) = k
  /\ acc.ids = {acc.refs[i].id : i \in 1 .. k}
  /\ \A i \in 1 .. k : acc.refs[i].tool = names[i] /\ <<names[i]>> \in acc.ids

LEMMA UniqueLabel ==
  ASSUME NEW X, NEW used, NEW name \in X
  PROVE  /\ Unique(name, used, name) \in Labels(X) /\ Unique(Slug[name], used, name) \in Labels(X)
         /\ <<name>> \in used \cup {Unique(name, used, name)}
  BY DEF Unique, Labels

(* Naming one more tool leaves the names of the others as they are.        *)
LEMMA NextNamed ==
  ASSUME NEW names, NEW k \in 1 .. Len(names), Len(names) \in Nat, NEW acc, Named(acc, names, k - 1)
  PROVE  /\ Named(AddRef(acc, names[k]), names, k)
         /\ AddRef(acc, names[k]).refs = Append(acc.refs, AddRef(acc, names[k]).refs[k])
<1>. DEFINE name == names[k]
            id == Unique(name, acc.ids, name)
            path == Unique(Slug[name], acc.paths, name)
            r == [tool |-> name, id |-> id, path |-> path]
            next == AddRef(acc, name)
<1>1. name \in Elements(names)
  BY DEF Elements
<1>2. /\ id \in Labels(Elements(names)) /\ path \in Labels(Elements(names))
      /\ <<name>> \in acc.ids \cup {id}
  BY <1>1, UniqueLabel
<1>3. next.refs = Append(acc.refs, r) /\ next.ids = acc.ids \cup {id}
  BY DEF AddRef
<1>. HIDE DEF id, path, next
<1>4. r \in Operation(Elements(names)) /\ r.id = id /\ r.tool = name
  BY <1>1, <1>2 DEF Operation
<1>. HIDE DEF r
<1>5. acc.refs \in Seq(Operation(Elements(names))) /\ Len(acc.refs) = k - 1
  BY DEF Named
<1>6. /\ next.refs \in Seq(Operation(Elements(names))) /\ Len(next.refs) = k
      /\ next.refs[k] = r /\ \A i \in 1 .. k - 1 : next.refs[i] = acc.refs[i]
  BY <1>3, <1>4, <1>5
<1>7. \A i \in 1 .. k : i \in 1 .. k - 1 \/ i = k
  OBVIOUS
<1>8. next.ids = {next.refs[i].id : i \in 1 .. k}
  <2>1. acc.ids = {acc.refs[i].id : i \in 1 .. k - 1}
    BY DEF Named
  <2>2. k \in 1 .. k /\ \A i \in 1 .. k - 1 : i \in 1 .. k
    OBVIOUS
  <2>. QED
    BY <1>3, <1>4, <1>6, <1>7, <2>1, <2>2
<1>9. ASSUME NEW i \in 1 .. k PROVE next.refs[i].tool = names[i] /\ <<names[i]>> \in next.ids
  <2>1. CASE i = k
    BY <1>2, <1>3, <1>4, <1>6, <2>1
  <2>2. CASE i \in 1 .. k - 1
    BY <1>3, <1>6, <2>2 DEF Named
  <2>. QED
    BY <1>7, <2>1, <2>2
<1>10. Named(next, names, k)
  BY <1>6, <1>8, <1>9 DEF Named
<1>. QED
  BY <1>3, <1>6, <1>10 DEF next

LEMMA NamesAdded ==
  ASSUME NEW names, names \in Seq(Elements(names)), NEW trail, AddsUp(trail, names)
  PROVE  \A k \in 0 .. Len(names) : Named(trail[k], names, k)
<1>. DEFINE Wrong == {k \in 0 .. Len(names) : ~Named(trail[k], names, k)}
<1>1. Len(names) \in Nat
  OBVIOUS
<1>2. 0 \notin Wrong
  <2>1. trail[0] = NoOperations
    BY Zenon DEF AddsUp
  <2>2. Named(NoOperations, names, 0)
    BY DEF Named, NoOperations
  <2>. QED
    BY <2>1, <2>2, Zenon
<1>3. ASSUME NEW k \in 1 .. Len(names), k - 1 \notin Wrong PROVE k \notin Wrong
  <2>1. k - 1 \in 0 .. Len(names)
    BY <1>1
  <2>2. Named(trail[k - 1], names, k - 1)
    BY <1>3, <2>1
  <2>3. trail[k] = AddRef(trail[k - 1], names[k])
    BY DEF AddsUp
  <2>. QED
    BY <1>1, <2>2, <2>3, NextNamed
<1>4. Wrong \in SUBSET (0 .. Len(names))
  OBVIOUS
<1>. HIDE DEF Wrong
<1>5. Wrong = {}
  BY <1>1, <1>2, <1>3, <1>4, NoCounterexample
<1>. QED
  BY <1>5 DEF Wrong

(* The first names are given alike, whatever names come after them.        *)
LEMMA SameStart ==
  ASSUME NEW first, first \in Seq(Elements(first)), NEW names, names \in Seq(Elements(names)),
         Len(first) <= Len(names), \A i \in 1 .. Len(first) : names[i] = first[i],
         NEW one, AddsUp(one, first), NEW all, AddsUp(all, names)
  PROVE  all[Len(first)] = one[Len(first)]
<1>. DEFINE Wrong == {k \in 0 .. Len(first) : all[k] # one[k]}
<1>1. Len(first) \in Nat /\ Len(names) \in Nat
  OBVIOUS
<1>2. 0 \notin Wrong
  BY Zenon DEF AddsUp
<1>3. ASSUME NEW k \in 1 .. Len(first), k - 1 \notin Wrong PROVE k \notin Wrong
  <2>1. k - 1 \in 0 .. Len(first) /\ k \in 1 .. Len(names)
    BY <1>1
  <2>2. all[k] = AddRef(all[k - 1], names[k]) /\ one[k] = AddRef(one[k - 1], first[k])
    BY <2>1, Zenon DEF AddsUp
  <2>3. all[k - 1] = one[k - 1] /\ names[k] = first[k]
    BY <1>3, <2>1
  <2>. QED
    BY <2>2, <2>3, Zenon
<1>4. Wrong \in SUBSET (0 .. Len(first))
  OBVIOUS
<1>. HIDE DEF Wrong
<1>5. Wrong = {}
  BY <1>1, <1>2, <1>3, <1>4, NoCounterexample
<1>. QED
  BY <1>1, <1>5 DEF Wrong

LEMMA AddsOne ==
  ASSUME NEW names, Len(names) \in Nat, NEW trail, AddsUp(trail, names),
         \A k \in 0 .. Len(names) : Named(trail[k], names, k)
  PROVE  \A k \in 1 .. Len(names) :
           /\ trail[k].refs[k] \in Operation(Elements(names))
           /\ trail[k].refs = Append(trail[k - 1].refs, trail[k].refs[k])
<1>. TAKE k \in 1 .. Len(names)
<1>1. k - 1 \in 0 .. Len(names) /\ k \in 0 .. Len(names)
  OBVIOUS
<1>2. Named(trail[k - 1], names, k - 1) /\ trail[k] = AddRef(trail[k - 1], names[k])
  BY <1>1, Zenon DEF AddsUp
<1>3. trail[k].refs = Append(trail[k - 1].refs, trail[k].refs[k])
  BY <1>2, NextNamed
<1>4. trail[k].refs \in Seq(Operation(Elements(names))) /\ Len(trail[k].refs) = k
  BY <1>1, Zenon DEF Named
<1>. QED
  BY <1>3, <1>4

LEMMA StartStays ==
  ASSUME NEW names, names \in Seq(Elements(names)), NEW trail, AddsUp(trail, names),
         NEW m \in 0 .. Len(names)
  PROVE  \E more \in Seq(Operation(Elements(names))) : trail[Len(names)].refs = trail[m].refs \o more
<1>1. Len(names) \in Nat /\ \A k \in 0 .. Len(names) : Named(trail[k], names, k)
  BY NamesAdded
<1>. DEFINE R == Operation(Elements(names))
            Extends(s) == \E more \in Seq(R) : s = trail[m].refs \o more
            Wrong == {k \in 0 .. Len(names) : k >= m /\ ~Extends(trail[k].refs)}
<1>2. \A k \in 1 .. Len(names) :
        /\ trail[k].refs[k] \in R
        /\ trail[k].refs = Append(trail[k - 1].refs, trail[k].refs[k])
  BY <1>1, AddsOne, Zenon
<1>3. trail[m].refs \in Seq(R)
  BY <1>1, Zenon DEF Named
<1>. HIDE DEF R
<1>4. Extends(trail[m].refs)
  <2>1. << >> \in Seq(R) /\ \A s \in Seq(R) : s = s \o << >>
    OBVIOUS
  <2>. QED
    BY <1>3, <2>1, Zenon
<1>5. ASSUME NEW s, Extends(s), NEW r \in R PROVE Extends(Append(s, r))
  <2>1. PICK more \in Seq(R) : s = trail[m].refs \o more
    BY <1>5
  <2>2. <<r>> \in Seq(R) /\ more \o <<r>> \in Seq(R) /\ s \in Seq(R)
    BY <1>3, <2>1
  <2>3. Append(s, r) = s \o <<r>>
    BY <2>2, AppendIsConcat
  <2>4. ASSUME NEW t \in Seq(R) PROVE (t \o more) \o <<r>> = t \o (more \o <<r>>)
    BY <2>2, ConcatAssociative
  <2>. QED
    BY <1>3, <2>1, <2>2, <2>3, <2>4, Zenon
<1>. HIDE DEF Extends
<1>6. 0 \notin Wrong
  <2>1. 0 >= m => 0 = m
    OBVIOUS
  <2>. QED
    BY <1>4, <2>1
<1>7. ASSUME NEW k \in 1 .. Len(names), k - 1 \notin Wrong PROVE k \notin Wrong
  <2>1. k - 1 \in 0 .. Len(names) /\ (k >= m => (k = m \/ k - 1 >= m))
    BY <1>1
  <2>2. k - 1 >= m => Extends(trail[k - 1].refs)
    BY <1>7, <2>1
  <2>3. k - 1 >= m => Extends(trail[k].refs)
    BY <1>2, <1>5, <2>2, Zenon
  <2>. QED
    BY <1>4, <2>1, <2>3
<1>8. Wrong \in SUBSET (0 .. Len(names))
  OBVIOUS
<1>. HIDE DEF Wrong
<1>9. Wrong = {}
  BY <1>1, <1>6, <1>7, <1>8, NoCounterexample
<1>10. Extends(trail[Len(names)].refs)
  BY <1>1, <1>9 DEF Wrong
<1>. QED
  BY <1>10 DEF Extends, R

(* NamingOrder puts the tools that are not disabled first, and every tool  *)
(* of the list somewhere.                                                  *)
LEMMA NamingOrderParts ==
  ASSUME NEW names, names \in Seq(Elements(names)), NEW disabled
  PROVE  LET live == Without(names, disabled)
             order == NamingOrder(names, disabled)
         IN  /\ live \in Seq(Elements(live)) /\ order \in Seq(Elements(order))
             /\ Elements(order) = Elements(names)
             /\ Len(live) \in Nat /\ Len(order) \in Nat /\ Len(live) <= Len(order)
             /\ \A i \in 1 .. Len(live) : order[i] = live[i] /\ live[i] \notin disabled
             /\ \A i \in Len(live) + 1 .. Len(order) : order[i] \in disabled
<1>. DEFINE E == Elements(names)
            live == Without(names, disabled)
            dead == Without(names, E \ disabled)
            order == NamingOrder(names, disabled)
<1>1. /\ live \in Seq(E \ disabled) /\ Elements(live) = E \ disabled
      /\ dead \in Seq(E \ (E \ disabled)) /\ Elements(dead) = E \ (E \ disabled)
  BY WithoutKeeps
<1>2. order = live \o dead
  BY DEF NamingOrder
<1>. HIDE DEF E, live, dead, order
<1>3. E \ disabled \in SUBSET E /\ E \ (E \ disabled) \in SUBSET E
  OBVIOUS
<1>4. /\ live \in Seq(E) /\ dead \in Seq(E)
      /\ \A i \in 1 .. Len(live) : live[i] \notin disabled
      /\ \A i \in 1 .. Len(dead) : dead[i] \in disabled
  BY <1>1, <1>3
<1>5. /\ order \in Seq(E) /\ Len(order) = Len(live) + Len(dead) /\ Len(live) \in Nat /\ Len(dead) \in Nat
      /\ \A i \in 1 .. Len(live) : order[i] = live[i]
      /\ \A i \in 1 .. Len(dead) : order[Len(live) + i] = dead[i]
  BY <1>2, <1>4
<1>6. \A i \in Len(live) + 1 .. Len(order) : i - Len(live) \in 1 .. Len(dead) /\ order[i] \in disabled
  <2>. TAKE i \in Len(live) + 1 .. Len(order)
  <2>1. i - Len(live) \in 1 .. Len(dead) /\ Len(live) + (i - Len(live)) = i
    BY <1>5
  <2>. QED
    BY <1>4, <1>5, <2>1
<1>7. Elements(order) = E
  <2>1. Elements(order) \subseteq E
    BY <1>5 DEF Elements
  <2>2. ASSUME NEW x \in E PROVE x \in Elements(order)
    <3>1. CASE x \notin disabled
      <4>1. PICK i \in 1 .. Len(live) : live[i] = x
        BY <1>1, <3>1 DEF Elements
      <4>2. i \in 1 .. Len(order) /\ order[i] = x
        BY <1>5, <4>1
      <4>. QED
        BY <4>2 DEF Elements
    <3>2. CASE x \in disabled
      <4>1. PICK i \in 1 .. Len(dead) : dead[i] = x
        BY <1>1, <3>2 DEF Elements
      <4>2. Len(live) + i \in 1 .. Len(order) /\ order[Len(live) + i] = x
        BY <1>5, <4>1
      <4>. QED
        BY <4>2 DEF Elements
    <3>. QED
      BY <3>1, <3>2
  <2>. QED
    BY <2>1, <2>2
<1>8. live \in Seq(Elements(live))
  BY <1>1
<1>9. Len(order) \in Nat /\ Len(live) <= Len(order)
  BY <1>5
<1>10. \A i \in 1 .. Len(live) : order[i] = live[i] /\ live[i] \notin disabled
  BY <1>4, <1>5
<1>11. order \in Seq(Elements(order))
  BY <1>5, <1>7
<1>. QED
  BY <1>5, <1>6, <1>7, <1>8, <1>9, <1>10, <1>11, Zenon DEF live, order, E

LEMMA NamingOrderOfLive ==
  ASSUME NEW live, live \in Seq(Elements(live))
  PROVE  NamingOrder(live, {}) = live
<1>. DEFINE E == Elements(live)
<1>1. live \o << >> = live /\ << >> \o live = live /\ << >> \in Seq(E)
  OBVIOUS
<1>2. \A i \in 1 .. Len(live) : live[i] \in E /\ live[i] \notin {}
  OBVIOUS
<1>3. live \in Seq(E) /\ \A i \in 1 .. Len(<< >>) : FALSE
  OBVIOUS
<1>. HIDE DEF E
<1>4. Without(live \o << >>, {}) = live /\ Without(<< >> \o live, E) = << >>
  <2>1. PICK none : none = << >>
    OBVIOUS
  <2>2. none \in Seq(E) /\ \A i \in 1 .. Len(none) : FALSE
    BY <1>1, <1>3, <2>1
  <2>3. Without(live \o none, {}) = live
    BY <1>2, <1>3, <2>2, WithoutRest, Zenon
  <2>4. Without(none \o live, E) = none
    BY <1>2, <1>3, <2>2, WithoutRest, Zenon
  <2>. QED
    BY <2>1, <2>3, <2>4
<1>5. Without(live, {}) = live /\ Without(live, E) = << >>
  BY <1>1, <1>4
<1>6. E \ {} = E
  OBVIOUS
<1>. QED
  BY <1>1, <1>5, <1>6 DEF NamingOrder, E

LEMMA EnabledNames ==
  ASSUME NEW names, names \in Seq(Elements(names)), NEW disabled
  PROVE  EnabledOperations(AllOperations(names, disabled), disabled)
           = AllOperations(Without(names, disabled), {})
<1>. DEFINE live == Without(names, disabled)
            order == NamingOrder(names, disabled)
<1>1. /\ live \in Seq(Elements(live)) /\ order \in Seq(Elements(order))
      /\ Len(live) \in Nat /\ Len(order) \in Nat /\ Len(live) <= Len(order)
      /\ \A i \in 1 .. Len(live) : order[i] = live[i] /\ live[i] \notin disabled
      /\ \A i \in Len(live) + 1 .. Len(order) : order[i] \in disabled
  BY NamingOrderParts
<1>. HIDE DEF live, order
<1>2. DOMAIN live = 1 .. Len(live) /\ DOMAIN order = 1 .. Len(order)
  BY <1>1
<1>3. PICK one : AddsUp(one, live) /\ FoldLeft(AddRef, NoOperations, live) = one[Len(live)]
  BY <1>1, <1>2, NamingFold
<1>4. PICK all : AddsUp(all, order) /\ FoldLeft(AddRef, NoOperations, order) = all[Len(order)]
  BY <1>1, <1>2, NamingFold
<1>. DEFINE refs == all[Len(order)].refs
            first == one[Len(live)].refs
<1>5. AllOperations(names, disabled) = refs
  BY <1>4, Zenon DEF AllOperations, order
<1>6. AllOperations(live, {}) = first
  BY <1>1, <1>3, NamingOrderOfLive, Zenon DEF AllOperations
<1>7. all[Len(live)] = one[Len(live)]
  BY <1>1, <1>3, <1>4, SameStart
<1>8. Len(live) \in 0 .. Len(order) /\ Len(order) \in 0 .. Len(order) /\ Len(live) \in 0 .. Len(live)
  BY <1>1
<1>9. Named(all[Len(order)], order, Len(order)) /\ Named(all[Len(live)], order, Len(live))
  BY <1>1, <1>4, <1>8, NamesAdded
<1>10. PICK more \in Seq(Operation(Elements(order))) : refs = all[Len(live)].refs \o more
  BY <1>1, <1>4, <1>8, StartStays
<1>. DEFINE passed == {r \in Elements(refs) : r.tool \in disabled}
            S == Operation(Elements(order))
<1>11. /\ refs \in Seq(S) /\ Len(refs) = Len(order)
       /\ \A i \in 1 .. Len(order) : refs[i].tool = order[i]
  BY <1>9 DEF Named
<1>12. first \in Seq(S) /\ Len(first) = Len(live) /\ refs = first \o more
  BY <1>7, <1>9, <1>10 DEF Named
<1>. HIDE DEF refs, first, S
<1>13. /\ \A i \in 1 .. Len(first) : i \in 1 .. Len(order) /\ first[i] = refs[i]
       /\ \A i \in 1 .. Len(more) : /\ Len(live) + i \in 1 .. Len(order)
                                    /\ Len(live) + i \in Len(live) + 1 .. Len(order)
                                    /\ more[i] = refs[Len(live) + i]
  BY <1>1, <1>10, <1>11, <1>12 DEF S
<1>14. \A i \in 1 .. Len(first) : first[i] \notin passed
  BY <1>1, <1>11, <1>12, <1>13
<1>15. \A i \in 1 .. Len(more) : more[i] \in passed
  <2>. TAKE i \in 1 .. Len(more)
  <2>1. more[i] = refs[Len(live) + i] /\ Len(live) + i \in 1 .. Len(refs)
    BY <1>11, <1>13
  <2>2. more[i] \in Elements(refs)
    BY <2>1 DEF Elements
  <2>. QED
    BY <1>1, <1>11, <1>13, <2>1, <2>2
<1>. HIDE DEF passed
<1>16. Without(first \o more, passed) = first
  BY <1>10, <1>12, <1>14, <1>15, WithoutRest DEF S
<1>. QED
  BY <1>5, <1>6, <1>12, <1>16, Zenon DEF EnabledOperations, passed, live

(* Every tool of the list has the operation id that is its name.           *)
LEMMA AllNamesUsed ==
  ASSUME NEW names, names \in Seq(Elements(names)), NEW disabled, NEW name \in Elements(names)
  PROVE  \E r \in Elements(AllOperations(names, disabled)) : r.id = <<name>>
<1>. DEFINE order == NamingOrder(names, disabled)
<1>1. /\ order \in Seq(Elements(order)) /\ Elements(order) = Elements(names) /\ Len(order) \in Nat
  BY NamingOrderParts
<1>. HIDE DEF order
<1>2. DOMAIN order = 1 .. Len(order)
  BY <1>1
<1>3. PICK all : AddsUp(all, order) /\ FoldLeft(AddRef, NoOperations, order) = all[Len(order)]
  BY <1>1, <1>2, NamingFold
<1>4. Len(order) \in 0 .. Len(order)
  BY <1>1
<1>5. PICK acc : acc = all[Len(order)]
  OBVIOUS
<1>6. Named(acc, order, Len(order))
  BY <1>1, <1>3, <1>4, <1>5, NamesAdded
<1>7. AllOperations(names, disabled) = acc.refs
  BY <1>3, <1>5, Zenon DEF AllOperations, order
<1>8. PICK i \in 1 .. Len(order) : order[i] = name
  BY <1>1 DEF Elements
<1>9. PICK j \in 1 .. Len(order) : acc.refs[j].id = <<name>>
  BY <1>6, <1>8 DEF Named
<1>10. acc.refs[j] \in Elements(acc.refs)
  BY <1>6 DEF Named, Elements
<1>. QED
  BY <1>7, <1>9, <1>10

-----------------------------------------------------------------------------
(* What the build of an MCP service leaves behind: names that do not       *)
(* depend on the disabled tools, an id for every tool of the list, and     *)
(* live tools that are tools of the catalog.                               *)

StableNames(st) ==
  EnabledOperations(st.refs, st.disabled) = AllOperations(Without(st.names, st.disabled), {})
Offers(st, n, source) == \A name \in Elements(Listing(source)) : <<n, name>> \in st.allIds

LEMMA TwoParts ==
  ASSUME NEW a, NEW b
  PROVE  <<a>> \o <<b>> = <<a, b>>
<1>. DEFINE S == {a, b}
<1>1. <<a>> \in Seq(S) /\ <<b>> \in Seq(S) /\ <<a, b>> \in Seq(S)
  OBVIOUS
<1>2. PICK s \in Seq(S) : s = <<a>>
  BY <1>1
<1>3. PICK t \in Seq(S) : t = <<b>>
  BY <1>1
<1>4. /\ Len(s) = 1 /\ s[1] = a /\ Len(t) = 1 /\ t[1] = b
  BY <1>2, <1>3
<1>5. s \o t \in Seq(S) /\ Len(s \o t) = 2 /\ (s \o t)[1] = a /\ (s \o t)[2] = b
  <2>1. /\ s \o t \in Seq(S) /\ Len(s \o t) = Len(s) + Len(t)
        /\ \A i \in 1 .. Len(s) + Len(t) : (s \o t)[i] = IF i <= Len(s) THEN s[i] ELSE t[i - Len(s)]
    BY ConcatProperties
  <2>2. 1 \in 1 .. Len(s) + Len(t) /\ 2 \in 1 .. Len(s) + Len(t) /\ 1 <= Len(s) /\ ~(2 <= Len(s))
        /\ 2 - Len(s) = 1
    BY <1>4
  <2>. QED
    BY <1>4, <2>1, <2>2
<1>6. PICK u \in Seq(S) : u = <<a, b>>
  BY <1>1
<1>7. Len(u) = 2 /\ u[1] = a /\ u[2] = b
  BY <1>6
<1>8. \A i \in 1 .. 2 : i = 1 \/ i = 2
  OBVIOUS
<1>9. s \o t = u
  BY <1>5, <1>7, <1>8, SeqEqual
<1>. QED
  BY <1>2, <1>3, <1>6, <1>9

LEMMA StatesOfService ==
  ASSUME disk \in Disks, web \in Webs[disk], NEW name, NEW service, NEW source,
         BuildService(name, service, source).ok
  PROVE  LET built == BuildService(name, service, source) IN
         /\ \A st \in built.states :
              StableNames(st) /\ st.liveIds \subseteq {t.id : t \in built.tools}
         /\ source["type"] = "mcp" => \E st \in built.states : Offers(st, name, service["source"])
<1>. DEFINE built == BuildService(name, service, source)
<1>1. CASE source["type"] # "mcp"
  <2>1. built = Failure \/ \E x, y : built = [ok |-> TRUE, tools |-> x, workflows |-> y, states |-> {}]
    BY <1>1, Zenon DEF BuildService, BuildDocumentService
  <2>2. built # Failure
    BY DEF Failure
  <2>. HIDE DEF built
  <2>3. built.states = {}
    BY <2>1, <2>2
  <2>. QED
    BY <1>1, <2>3 DEF built
<1>2. CASE source["type"] = "mcp"
  <2>. DEFINE names == Listing(service["source"])
              disabled == ListOf(source, "disabledTools")
              refs == AllOperations(names, disabled)
              listed == EnabledOperations(refs, disabled)
              document == Overlaid(DocumentOf(listed), List(service, "overlays"))
              ids == {<<name>> \o r.id : r \in Elements(refs)}
              st == [service |-> name, names |-> names, disabled |-> disabled, refs |-> refs,
                     allIds |-> ids, liveIds |-> FinalIds(name, document)]
  <2>1. built = Failure \/
          /\ names # Missing
          /\ \E y : built = [ok |-> TRUE, tools |-> BuildTools(name, document), workflows |-> y,
                             states |-> {[service |-> name, names |-> names, disabled |-> disabled,
                                          refs |-> refs,
                                          allIds |-> McpState(name, refs, listed).allIds,
                                          liveIds |-> FinalIds(name, document)]}]
    BY <1>2, Zenon DEF BuildService, BuildMCPService
  <2>2. built # Failure
    BY DEF Failure
  <2>3. McpState(name, refs, listed).allIds = ids
    BY DEF McpState
  <2>. HIDE DEF built, listed, document, refs, disabled, names
  <2>4. names # Missing /\ built.tools = BuildTools(name, document) /\ built.states = {st}
    <3>1. PICK y : built = [ok |-> TRUE, tools |-> BuildTools(name, document), workflows |-> y,
                            states |-> {st}]
      BY <2>1, <2>2, <2>3, Zenon
    <3>. HIDE DEF st
    <3>. QED
      BY <2>1, <2>2, <3>1
  <2>5. names \in Seq(Elements(names))
    <3>1. service["source"] \in DOMAIN web.listings /\ names = web.listings[service["source"]]
      BY <2>4, Zenon DEF Listing, names
    <3>. QED
      BY <2>4, <3>1, WebAssumption, Zenon
  <2>6. StableNames(st)
    <3>1. st.refs = refs /\ st.names = names /\ st.disabled = disabled
      OBVIOUS
    <3>2. EnabledOperations(refs, disabled) = AllOperations(Without(names, disabled), {})
      BY <2>5, EnabledNames DEF refs
    <3>. HIDE DEF st
    <3>. QED
      BY <3>1, <3>2 DEF StableNames
  <2>7. st.liveIds = {t.id : t \in BuildTools(name, document)} /\ st.allIds = ids
    BY DEF FinalIds
  <2>8. Offers(st, name, service["source"])
    <3>1. ASSUME NEW n \in Elements(names) PROVE <<name, n>> \in ids
      <4>1. PICK r \in Elements(refs) : r.id = <<n>>
        BY <2>5, AllNamesUsed DEF refs
      <4>2. <<name>> \o <<n>> = <<name, n>>
        BY TwoParts
      <4>. QED
        BY <4>1, <4>2, Zenon
    <3>. HIDE DEF st, ids
    <3>. QED
      BY <2>7, <3>1 DEF Offers, names
  <2>. HIDE DEF st
  <2>. QED
    BY <2>4, <2>6, <2>7, <2>8 DEF built
<1>. QED
  BY <1>1, <1>2

StatesInv ==
  /\ \A st \in mcpStates : StableNames(st) /\ st.liveIds \subseteq ToolIds

LEMMA AddsStates ==
  ASSUME StatesInv, disk \in Disks, web \in Webs[disk], NEW name, NEW service, NEW source, NEW of,
         Adds(BuildService(name, service, source), of)
  PROVE  /\ StatesInv' /\ mcpStates \subseteq mcpStates' /\ building' \in {building, "failed"}
         /\ source["type"] = "mcp" /\ building' # "failed" =>
              \E st \in mcpStates' : Offers(st, name, service["source"])
<1>. DEFINE built == BuildService(name, service, source)
<1>1. built.ok =>
        /\ \A st \in built.states :
             StableNames(st) /\ st.liveIds \subseteq {t.id : t \in built.tools}
        /\ source["type"] = "mcp" => \E st \in built.states : Offers(st, name, service["source"])
  BY StatesOfService
<1>2. Adds(built, of)
  OBVIOUS
<1>. HIDE DEF built
<1>3. CASE built.ok
  <2>1. tools' = tools \cup built.tools /\ mcpStates' = mcpStates \cup built.states
        /\ building' = building
    BY <1>2, <1>3, Zenon DEF Adds
  <2>2. ToolIds' = ToolIds \cup {t.id : t \in built.tools}
    BY <2>1 DEF ToolIds
  <2>. QED
    BY <1>1, <1>3, <2>1, <2>2, Zenon DEF StatesInv
<1>4. CASE ~built.ok
  <2>1. UNCHANGED <<tools, mcpStates>> /\ building' = "failed"
    BY <1>2, <1>4, Zenon DEF Adds
  <2>. QED
    BY <2>1, Zenon DEF StatesInv, ToolIds
<1>. QED
  BY <1>3, <1>4

LEMMA StatesInvNext ==
  ASSUME StatesInv, DiscoveryInv, Next
  PROVE  StatesInv'
<1>1. disk \in Disks /\ web \in Webs[disk]
  BY DEF DiscoveryInv
<1>2. CASE BuildNamed
  BY <1>1, <1>2, AddsStates, Zenon DEF BuildNamed
<1>3. CASE \E s \in rest : BuildUnnamed(s)
  BY <1>1, <1>3, AddsStates, Zenon DEF BuildUnnamed
<1>4. CASE BuildDiscovered
  BY <1>1, <1>4, AddsStates, Zenon DEF BuildDiscovered
<1>5. CASE UNCHANGED <<tools, mcpStates>>
  BY <1>5, Zenon DEF StatesInv, ToolIds
<1>6. BuildNamed \/ (\E s \in rest : BuildUnnamed(s)) \/ BuildDiscovered
        \/ UNCHANGED <<tools, mcpStates>>
  BY Zenon DEF Next, Build, BeginBuild, NamedDone, BeginExpand, Walk, WalkFails, BeginServices,
     EndExpand, Finish, buildVars
<1>. QED
  BY <1>2, <1>3, <1>4, <1>5, <1>6

(* What expandMCPServer remembered of a server stays true until the build  *)
(* ends: the tools it lists as live are in the catalog, under the ids it   *)
(* gave them, whatever buildServiceTools adds for other services.          *)
THEOREM StatesInvariant == Spec => []StatesInv
<1>1. Init => StatesInv
  BY DEF Init, BuildInit, StatesInv
<1>2. StatesInv /\ UNCHANGED vars => StatesInv'
  BY DEF vars, buildVars, StatesInv, ToolIds
<1>. QED
  BY <1>1, <1>2, StatesInvNext, DiscoveryInvariant, PTL DEF Spec

(* Disabling a tool of an MCP server does not rename another one, since    *)
(* the enabled tools take their operation ids and paths first              *)
(* (BuildDocumentResult).                                                  *)
THEOREM NamesAreStable == Spec => []LiveNamesAreStable
<1>1. StatesInv => LiveNamesAreStable
  BY Zenon DEF StatesInv, StableNames, LiveNamesAreStable
<1>. QED
  BY <1>1, StatesInvariant, PTL

-----------------------------------------------------------------------------
(* Policy patterns of a built catalog.                                     *)

\* the names of services are known, and the services are in their order
NamedInv == DOMAIN cfg.services \subseteq Elements(NameOrder)

LEMMA NamedServices ==
  ASSUME NEW raw, DOMAIN raw = Sections
  PROVE  DOMAIN NormalizeMCPSources(NormalizeMCPServers(raw)).services
           \subseteq DOMAIN raw.services \cup DOMAIN raw.sources \cup DOMAIN raw.mcpServers
<1>. DEFINE m == NormalizeMCPServers(raw)
<1>1. /\ DOMAIN m = Sections /\ m.services = raw.services
      /\ DOMAIN m.sources = DOMAIN raw.sources \cup DOMAIN raw.mcpServers
  BY DEF NormalizeMCPServers, Sections, Over
<1>. HIDE DEF m
<1>2. \E orphans \in SUBSET DOMAIN m.sources :
        NormalizeMCPSources(m).services = MergeEach([n \in orphans |-> [source |-> n]], m.services, Over)
  <2>. DEFINE type(n) == Keep(Over(Keep(m.sources[n], {"type"}), At(cfg.sources, n)), {"type"})
              orphans == {n \in DOMAIN m.sources :
                            /\ Says(type(n), "type", "mcp")
                            /\ ~Gives(At(m.services, n), "source")
                            /\ ~Gives(At(cfg.services, n), "source")}
              merged == MergeEach([n \in orphans |-> [source |-> n]], m.services, Over)
  <2>1. NormalizeMCPSources(m) = [m EXCEPT !.services = merged]
    BY Zenon DEF NormalizeMCPSources
  <2>2. orphans \in SUBSET DOMAIN m.sources
    OBVIOUS
  <2>. HIDE DEF orphans
  <2>3. NormalizeMCPSources(m).services = merged
    <3>. HIDE DEF merged
    <3>. QED
      BY <1>1, <2>1 DEF Sections
  <2>. QED
    BY <2>2, <2>3, Zenon
<1>3. PICK orphans \in SUBSET DOMAIN m.sources :
        NormalizeMCPSources(m).services = MergeEach([n \in orphans |-> [source |-> n]], m.services, Over)
  BY <1>2
<1>4. DOMAIN NormalizeMCPSources(m).services = orphans \cup DOMAIN m.services
  BY <1>3 DEF MergeEach, MergeInner
<1>. QED
  BY <1>1, <1>4 DEF m

LEMMA NamedInvNext ==
  ASSUME ConfigInv, NamedInv, LoadEffective
  PROVE  NamedInv'
<1>1. CASE MergeScope
  <2>. DEFINE file == disk[Scope]
              raw == NormalizeMCPSources(NormalizeMCPServers(file))
  <2>1. at \in 1 .. 4 /\ disk \in Disks /\ file \notin {NoFile, Broken}
    BY <1>1, FourScopes DEF ConfigInv, MergeScope
  <2>2. DOMAIN file = Sections
    BY <2>1, FourScopes, DiskAssumption DEF Scope
  <2>3. DOMAIN file.services \cup DOMAIN file.sources \cup DOMAIN file.mcpServers \subseteq Elements(NameOrder)
    BY <2>1, FourScopes, NameAssumption DEF Scope
  <2>. HIDE DEF file
  <2>4. DOMAIN raw.services \subseteq Elements(NameOrder)
    BY <2>2, <2>3, NamedServices
  <2>5. cfg' = MergeConfig(Scope, raw)
    BY <1>1, Zenon DEF MergeScope, file
  <2>. HIDE DEF raw
  <2>6. cfg'.services = MergeEach(raw.services, cfg.services, Over)
    BY <2>5 DEF MergeConfig
  <2>7. DOMAIN cfg'.services = DOMAIN raw.services \cup DOMAIN cfg.services
    BY <2>6 DEF MergeEach, MergeInner
  <2>. QED
    BY <2>4, <2>7 DEF NamedInv
<1>2. CASE UNCHANGED cfg
  BY <1>2 DEF NamedInv
<1>. QED
  BY <1>1, <1>2, Zenon DEF LoadEffective, SkipScope, RejectScope, Validate

ServiceListed(n) ==
  LET source == ServiceSource(n) IN
  Enabled_(source) /\ cfg.sources[source]["type"] = "mcp" =>
    \E st \in mcpStates : Offers(st, n, source)

BuildInv ==
  /\ building # "waiting" => loading = "loaded"
  /\ building = "services" => todo \in Seq(Elements(todo))
  /\ building \notin {"waiting", "failed"} =>
       \A n \in DOMAIN cfg.services :
         ServiceListed(n) \/ (building = "services" /\ n \in Elements(todo))
  /\ building = "built" => PoliciesAreLive

LEMMA ListedStays ==
  ASSUME UNCHANGED <<cfg, web>>, mcpStates \subseteq mcpStates', NEW n, ServiceListed(n)
  PROVE  ServiceListed(n)'
  BY Zenon DEF ServiceListed, Offers, Listing, ServiceSource, Enabled_

(* A step of the build other than its first and its last one, and other    *)
(* than the one that takes a service off the list.                         *)
LEMMA BuildGoesOn ==
  ASSUME BuildInv, UNCHANGED <<configVars, web>>, mcpStates \subseteq mcpStates',
         building' # "waiting", building' = "failed" \/ building \notin {"waiting", "failed"},
         building' # "built", building' # "services",
         building = "services" => building' = "failed" \/ todo = << >>, building # "waiting"
  PROVE  BuildInv'
<1>1. loading' = "loaded"
  BY Zenon DEF BuildInv, configVars
<1>2. ASSUME building' # "failed", NEW n \in DOMAIN cfg.services PROVE ServiceListed(n)'
  <2>1. ServiceListed(n) \/ (building = "services" /\ n \in Elements(todo))
    BY <1>2 DEF BuildInv
  <2>2. Elements(<< >>) = {}
    BY DEF Elements
  <2>3. ServiceListed(n)
    BY <1>2, <2>1, <2>2
  <2>4. UNCHANGED <<cfg, web>>
    BY DEF configVars
  <2>. QED
    BY <2>3, <2>4, ListedStays
<1>3. cfg' = cfg
  BY DEF configVars
<1>. QED
  BY <1>1, <1>2, <1>3 DEF BuildInv

LEMMA BuildBegins ==
  ASSUME NamedInv, BeginBuild
  PROVE  BuildInv'
<1>. DEFINE passed == {n \in Elements(NameOrder) :
                         ~(n \in DOMAIN cfg.services /\ Enabled_(ServiceSource(n)))}
<1>1. /\ todo' = Without(NameOrder, passed) /\ building' = "services" /\ loading = "loaded"
      /\ UNCHANGED <<configVars, web, walkVars, mcpStates>>
  BY Zenon DEF BeginBuild
<1>2. Elements(Without(NameOrder, passed)) = Elements(NameOrder) \ passed
      /\ Without(NameOrder, passed) \in Seq(Elements(NameOrder) \ passed)
  BY NameAssumption, WithoutKeeps
<1>3. cfg' = cfg /\ loading' = loading /\ Elements(todo)' = Elements(NameOrder) \ passed
  BY <1>1, <1>2 DEF configVars, Elements
<1>4. ASSUME NEW n \in DOMAIN cfg.services PROVE ServiceListed(n)' \/ n \in Elements(todo)'
  <2>1. n \in Elements(NameOrder)
    BY DEF NamedInv
  <2>2. CASE Enabled_(ServiceSource(n))
    BY <1>3, <2>1, <2>2
  <2>3. CASE ~Enabled_(ServiceSource(n))
    BY <1>3, <2>3, Zenon DEF ServiceListed, Enabled_, ServiceSource
  <2>. QED
    BY <2>2, <2>3
<1>5. todo' \in Seq(Elements(todo)')
  BY <1>1, <1>2, <1>3
<1>. HIDE DEF passed
<1>. QED
  BY <1>1, <1>3, <1>4, <1>5 DEF BuildInv

LEMMA ServiceIsBuilt ==
  ASSUME BuildInv, StatesInv, disk \in Disks, web \in Webs[disk], BuildNamed
  PROVE  BuildInv'
<1>. DEFINE h == Head(todo)
<1>1. /\ building = "services" /\ todo # << >> /\ todo' = Tail(todo)
      /\ UNCHANGED <<configVars, web>>
      /\ Adds(BuildService(h, cfg.services[h], cfg.sources[ServiceSource(h)]), ServiceSource(h))
  BY Zenon DEF BuildNamed
<1>2. /\ mcpStates \subseteq mcpStates' /\ building' \in {"services", "failed"}
      /\ cfg.sources[ServiceSource(h)]["type"] = "mcp" /\ building' # "failed" =>
           \E st \in mcpStates' : Offers(st, h, cfg.services[h]["source"])
  BY <1>1, AddsStates
<1>3. cfg' = cfg /\ loading' = loading /\ web' = web /\ loading = "loaded"
      /\ todo \in Seq(Elements(todo))
  BY <1>1, Zenon DEF configVars, BuildInv
<1>. HIDE DEF h
<1>4. todo' \in Seq(Elements(todo)') /\ Elements(todo) \subseteq Elements(todo)' \cup {h}
  <2>1. PICK s : s = todo
    OBVIOUS
  <2>2. PICK t : t = Tail(s)
    OBVIOUS
  <2>3. s # << >> /\ s \in Seq(Elements(s)) /\ h = Head(s) /\ todo' = t
    BY <1>1, <1>3, <2>1, <2>2 DEF h
  <2>4. /\ Len(s) \in Nat \ {0} /\ h = s[1] /\ t \in Seq(Elements(s)) /\ Len(t) = Len(s) - 1
        /\ \A i \in 1 .. Len(t) : t[i] = s[i + 1]
    BY <2>2, <2>3
  <2>5. Elements(s) \subseteq Elements(t) \cup {h}
    <3>1. ASSUME NEW i \in 1 .. Len(s), i # 1 PROVE s[i] \in Elements(t)
      <4>1. i - 1 \in 1 .. Len(t) /\ (i - 1) + 1 = i
        BY <2>4, <3>1
      <4>2. s[i] = t[i - 1]
        BY <2>4, <4>1
      <4>. QED
        BY <4>1, <4>2 DEF Elements
    <3>. QED
      BY <2>4, <3>1 DEF Elements
  <2>6. t \in Seq(Elements(t))
    <3>1. \A i \in 1 .. Len(t) : t[i] \in Elements(t)
      BY DEF Elements
    <3>. QED
      BY <2>4, <3>1, IsASeq, LenProperties
  <2>7. Elements(todo) = Elements(s) /\ Elements(todo)' = Elements(t)
    BY <2>1, <2>3 DEF Elements
  <2>. QED
    BY <2>3, <2>5, <2>6, <2>7
<1>5. ASSUME building' # "failed", NEW n \in DOMAIN cfg.services
      PROVE  ServiceListed(n)' \/ n \in Elements(todo)'
  <2>1. CASE ServiceListed(n)
    BY <1>2, <1>3, <2>1, ListedStays
  <2>2. CASE n = h
    <3>1. cfg.sources[ServiceSource(n)]["type"] = "mcp" =>
            \E st \in mcpStates' : Offers(st, n, ServiceSource(n))
      BY <1>2, <1>5, <2>2 DEF ServiceSource
    <3>2. ServiceSource(n)' = ServiceSource(n) /\ cfg'.sources = cfg.sources
      BY <1>3 DEF ServiceSource
    <3>3. \A st : Offers(st, n, ServiceSource(n)) => Offers(st, n, ServiceSource(n))'
      BY <1>3, Zenon DEF Offers, Listing, ServiceSource
    <3>. QED
      BY <3>1, <3>2, <3>3, Zenon DEF ServiceListed
  <2>. QED
    BY <1>1, <1>4, <1>5, <2>1, <2>2 DEF BuildInv
<1>. QED
  BY <1>2, <1>3, <1>4, <1>5 DEF BuildInv

LEMMA BuildInvNext ==
  ASSUME BuildInv, StatesInv, NamedInv, DiscoveryInv, Next
  PROVE  BuildInv'
<1>1. disk \in Disks /\ web \in Webs[disk]
  BY DEF DiscoveryInv
<1>2. CASE LoadEffective /\ UNCHANGED <<web, walkVars, buildVars>>
  <2>1. loading = "merging"
    BY <1>2, Zenon DEF LoadEffective, SkipScope, RejectScope, MergeScope, Validate
  <2>2. building = "waiting" /\ building' = "waiting"
    BY <1>2, <2>1 DEF BuildInv, buildVars
  <2>. QED
    BY <2>2 DEF BuildInv
<1>3. CASE BeginBuild
  BY <1>3, BuildBegins
<1>4. CASE BuildNamed
  BY <1>1, <1>4, ServiceIsBuilt
<1>5. CASE \E s \in rest : BuildUnnamed(s)
  <2>1. /\ building = "sources" /\ UNCHANGED <<configVars, web>>
        /\ mcpStates \subseteq mcpStates' /\ building' \in {building, "failed"}
    BY <1>1, <1>5, AddsStates, Zenon DEF BuildUnnamed
  <2>. QED
    BY <2>1, BuildGoesOn
<1>6. CASE BuildDiscovered
  <2>1. /\ building = "expanding" /\ UNCHANGED <<configVars, web>>
        /\ mcpStates \subseteq mcpStates' /\ building' \in {building, "failed"}
    BY <1>1, <1>6, AddsStates, Zenon DEF BuildDiscovered
  <2>. QED
    BY <2>1, BuildGoesOn
<1>7. CASE NamedDone
  <2>1. /\ building = "services" /\ todo = << >> /\ building' = "sources"
        /\ UNCHANGED <<configVars, web, mcpStates>>
    BY <1>7, Zenon DEF NamedDone
  <2>. QED
    BY <2>1, BuildGoesOn
<1>8. CASE \E s \in rest : BeginExpand(s)
  <2>1. /\ building = "sources" /\ building' = "expanding" /\ UNCHANGED <<configVars, web, mcpStates>>
    BY <1>8, Zenon DEF BeginExpand
  <2>. QED
    BY <2>1, BuildGoesOn
<1>9. CASE Walk
  <2>1. /\ building = "expanding" /\ building' = "expanding" /\ UNCHANGED <<configVars, web, mcpStates>>
    BY <1>9, Zenon DEF Walk, buildVars
  <2>. QED
    BY <2>1, BuildGoesOn
<1>10. CASE WalkFails \/ BeginServices \/ EndExpand
  <2>1. /\ building = "expanding" /\ building' \in {"expanding", "failed", "sources"}
        /\ UNCHANGED <<configVars, web, mcpStates>>
    BY <1>10, Zenon DEF WalkFails, BeginServices, EndExpand
  <2>. QED
    BY <2>1, BuildGoesOn
<1>11. CASE Finish
  <2>1. /\ building = "sources" /\ building' = IF PoliciesAreLive THEN "built" ELSE "failed"
        /\ UNCHANGED <<configVars, web, mcpStates, tools>>
    BY <1>11, Zenon DEF Finish
  <2>2. cfg' = cfg /\ loading' = loading /\ loading = "loaded"
    BY <2>1 DEF configVars, BuildInv
  <2>3. PoliciesAreLive' = PoliciesAreLive
    BY <2>1, <2>2 DEF PoliciesAreLive, CheckedPatterns, OnlyDisabled
  <2>4. \A n \in DOMAIN cfg.services : ServiceListed(n) /\ ServiceListed(n)'
    BY <2>1, <2>2, ListedStays DEF BuildInv
  <2>. QED
    BY <2>1, <2>2, <2>3, <2>4 DEF BuildInv
<1>. QED
  BY <1>2, <1>3, <1>4, <1>5, <1>6, <1>7, <1>8, <1>9, <1>10, <1>11, Zenon DEF Next, Build

LEMMA ListedIsChecked ==
  ASSUME PoliciesAreLive, StatesInv, NEW pattern \in CheckedPatterns, NEW st \in mcpStates,
         NEW n, NEW source, Offers(st, n, source), NEW name \in Elements(Listing(source)),
         Matches(pattern, <<n, name>>)
  PROVE  Matching(pattern, ToolIds) # {}
<1>1. <<n, name>> \in Matching(pattern, st.allIds)
  BY DEF Offers, Matching
<1>2. ~OnlyDisabled(pattern, st)
  BY DEF PoliciesAreLive
<1>3. Matching(pattern, ToolIds) # {} \/ Matching(pattern, st.allIds) \cap st.liveIds # {}
  BY <1>1, <1>2, Zenon DEF OnlyDisabled, ToolIds
<1>4. Matching(pattern, st.allIds) \cap st.liveIds \subseteq Matching(pattern, ToolIds)
  BY DEF Matching, StatesInv
<1>. QED
  BY <1>3, <1>4

(* A catalog is only built when every pattern that means a tool of an MCP  *)
(* server's list still means a tool of the catalog                         *)
(* (validateDisabledMCPPolicyPatterns).                                    *)
THEOREM PatternsStayLive == Spec => []PatternsAreLive
<1>1. Init => NamedInv /\ BuildInv
  <2>. SUFFICES ASSUME Init PROVE NamedInv /\ BuildInv
    OBVIOUS
  <2>1. cfg.services = Empty /\ building = "waiting"
    BY DEF Init, ConfigInit, EmptyConfig, BuildInit
  <2>2. DOMAIN Empty = {}
    BY DEF Empty
  <2>. QED
    BY <2>1, <2>2 DEF NamedInv, BuildInv
<1>2. ConfigInv /\ NamedInv /\ [Next]_vars => NamedInv'
  <2>1. NamedInv /\ UNCHANGED configVars => NamedInv'
    BY DEF configVars, NamedInv
  <2>. QED
    BY <2>1, ConfigSteps, NamedInvNext
<1>3. BuildInv /\ UNCHANGED vars => BuildInv'
  BY DEF vars, configVars, buildVars, BuildInv, PoliciesAreLive, CheckedPatterns, OnlyDisabled,
     ServiceListed, Offers, Listing, ServiceSource, Enabled_, Elements
<1>4. BuildInv /\ StatesInv => PatternsAreLive
  <2>. SUFFICES ASSUME BuildInv, StatesInv, building = "built", NEW pattern \in CheckedPatterns,
                       NEW n \in DOMAIN cfg.services, Enabled_(ServiceSource(n)),
                       cfg.sources[ServiceSource(n)]["type"] = "mcp",
                       NEW name \in Elements(Listing(ServiceSource(n))),
                       Matches(pattern, <<n, name>>)
                PROVE  Matching(pattern, ToolIds) # {}
    BY Zenon DEF PatternsAreLive
  <2>1. PoliciesAreLive /\ ServiceListed(n)
    BY DEF BuildInv
  <2>2. PICK st \in mcpStates : Offers(st, n, ServiceSource(n))
    BY <2>1, Zenon DEF ServiceListed
  <2>. QED
    BY <2>1, <2>2, ListedIsChecked
<1>. QED
  BY <1>1, <1>2, <1>3, <1>4, BuildInvNext, ConfigInvariant, StatesInvariant, DiscoveryInvariant, PTL
     DEF Spec

-----------------------------------------------------------------------------
(* The control plane: for any number of handlers, principals and rows.     *)

Numbers == {"bundle", "content", "assignment", "source", "revision", "time"}

\* an entry is about the bundle its statement changes
EntryOK(e) ==
  /\ e = Entry(e.action, e.about, e.id, e.value)
  /\ \/ e.action \in {"CREATE_BUNDLE", "UPDATE_BUNDLE", "DELETE_BUNDLE"} /\ e.id = e.about
     \/ e.action = "CREATE_ASSIGNMENT" /\ e.value.bundle = e.about
     \/ e.action \in {"DELETE_ASSIGNMENT", "CREATE_SOURCE"}

IsLog(x) ==
  /\ x.pc = "log"
  /\ x = [pc |-> "log", entry |-> x.entry, success |-> x.success]
  /\ x.success \in BOOLEAN /\ EntryOK(x.entry)
IsPublish(x) ==
  /\ x = [pc |-> x.pc, bundle |-> x.bundle, snapshot |-> x.snapshot, revision |-> x.revision,
          now |-> x.now]
  /\ x.pc \in {"insert", "clock", "publish"}

AdminShape ==
  /\ db = [bundles |-> db.bundles, assignments |-> db.assignments, sources |-> db.sources,
           revisions |-> db.revisions]
  /\ told = [bundles |-> told.bundles, assignments |-> told.assignments]
  /\ given \in [Numbers -> Nat]
  /\ DOMAIN handler = Handlers
  /\ \A h \in Handlers : handler[h] = Idle \/ IsLog(handler[h]) \/ IsPublish(handler[h])

(* What the records tell of one bundle.                                    *)

Has(bundles, b) == [i \in {x \in DOMAIN bundles : x = b} |-> bundles[i]]
Own(assignments, b) ==
  [i \in {x \in DOMAIN assignments : assignments[x].bundle = b} |-> assignments[i]]

BundlesAfter(bundles, e) ==
  IF e.action = "CREATE_BUNDLE"
    \/ (e.action = "UPDATE_BUNDLE" /\ e.id \in DOMAIN bundles)
  THEN Row(bundles, e.id, e.value)
  ELSE IF e.action = "DELETE_BUNDLE" THEN Rows(bundles, LAMBDA i : i # e.id) ELSE bundles
AssignmentsAfter(assignments, e) ==
  IF e.action = "CREATE_ASSIGNMENT" THEN Row(assignments, e.id, e.value)
  ELSE IF e.action = "DELETE_BUNDLE"
  THEN Rows(assignments, LAMBDA i : assignments[i].bundle # e.id)
  ELSE IF e.action = "DELETE_ASSIGNMENT" THEN Rows(assignments, LAMBDA i : i # e.id)
  ELSE assignments

Pending(h, b) == handler[h].pc = "log" /\ handler[h].success /\ handler[h].entry.about = b
Agree(bundles, assignments, b) ==
  Has(db.bundles, b) = Has(bundles, b) /\ Own(db.assignments, b) = Own(assignments, b)

(* The row of an assignment is the same wherever it is kept.               *)
RowsOK(rows) ==
  /\ \A i \in DOMAIN db.assignments :
       i \in 1 .. given["assignment"] /\ db.assignments[i] = rows[i]
  /\ \A i \in DOMAIN told.assignments :
       i \in 1 .. given["assignment"] /\ told.assignments[i] = rows[i]
  /\ \A h \in Handlers : handler[h].pc = "log" =>
       LET e == handler[h].entry IN
       /\ (e.action = "CREATE_ASSIGNMENT" /\ handler[h].success) =>
            (e.id \in 1 .. given["assignment"] /\ rows[e.id] = e.value)
       /\ e.action = "DELETE_ASSIGNMENT" =>
            (e.id \in 1 .. given["assignment"] /\ rows[e.id].bundle = e.about)
OwnerInv == \E rows : RowsOK(rows)

(* Of a bundle that is not dubious at most one record is missing, and with *)
(* it the trail tells what the tables have.                                *)
ToldOf(b) ==
  /\ (\A h \in Handlers : ~Pending(h, b)) => Agree(told.bundles, told.assignments, b)
  /\ \A h \in Handlers : Pending(h, b) =>
       /\ \A g \in Handlers : Pending(g, b) => g = h
       /\ Agree(BundlesAfter(told.bundles, handler[h].entry),
                AssignmentsAfter(told.assignments, handler[h].entry), b)
ToldInv == \A b : b \notin dubious => ToldOf(b)

TrailInv == AdminShape /\ OwnerInv /\ ToldInv

(* Revisions of one bundle.                                                *)

PublishedAt(r) == db.revisions[r].publishedAt
Snapshot(r) == db.revisions[r].snapshot

BundlesOK ==
  \A b \in DOMAIN db.bundles :
    b \in 1 .. given["bundle"] /\ db.bundles[b] \in 1 .. given["content"]
RevisionsOK ==
  \A r \in DOMAIN db.revisions :
    /\ r \in 1 .. given["revision"]
    /\ db.revisions[r] \in [bundle : DOMAIN db.bundles, status : {"draft", "published"},
                            snapshot : Nat, publishedAt : 0 .. given["time"]]
    /\ Snapshot(r) <= db.bundles[db.revisions[r].bundle]
ReturnedOK ==
  \A r \in returned :
    /\ r \in 1 .. given["revision"]
    /\ r \in DOMAIN db.revisions => db.revisions[r].status = "published"
TablesOK == BundlesOK /\ RevisionsOK /\ ReturnedOK

PublisherOK(x) ==
  /\ x.bundle \in 1 .. given["bundle"] /\ x.snapshot \in Nat
  /\ x.bundle \in DOMAIN db.bundles => x.snapshot <= db.bundles[x.bundle]
  /\ x.pc \in {"clock", "publish"} =>
       /\ x.revision \in 1 .. given["revision"]
       /\ x.revision \in DOMAIN db.revisions =>
            /\ db.revisions[x.revision].bundle = x.bundle
            /\ Snapshot(x.revision) = x.snapshot
  /\ x.pc = "publish" => x.now \in 1 .. given["time"]

(* Revisions that are published one after the other have contents in that  *)
(* order, and the one under way will be the last.                          *)
SerialOK(b) ==
  /\ \A r, s \in PublishedOf(b) : PublishedAt(r) <= PublishedAt(s) => Snapshot(r) <= Snapshot(s)
  /\ PublishedOf(b) # {} => \E s \in PublishedOf(b) : IsActive(s, b)
  /\ \A h \in Handlers : Publishing(h, b) =>
       /\ \A g \in Handlers : Publishing(g, b) => g = h
       /\ \A r \in PublishedOf(b) :
            /\ Snapshot(r) <= handler[h].snapshot
            /\ handler[h].pc = "publish" => PublishedAt(r) < handler[h].now

PublishersOK ==
  \A h \in Handlers : handler[h].pc \in {"insert", "clock", "publish"} => PublisherOK(handler[h])
RevisionInv ==
  AdminShape /\ TablesOK /\ PublishersOK /\ \A b : b \notin mixed => SerialOK(b)

-----------------------------------------------------------------------------
(* A mutation, whichever it is: what its statement does to bundles and     *)
(* assignments is what its record will tell.                               *)
Mutated(h, e, tables) ==
  /\ handler[h] = Idle /\ EntryOK(e) /\ Statement(h, tables, e)
  /\ UNCHANGED <<told, returned, mixed>>
  /\ tables = [bundles |-> BundlesAfter(db.bundles, e),
               assignments |-> AssignmentsAfter(db.assignments, e),
               sources |-> tables.sources, revisions |-> tables.revisions]
  /\ tables.revisions = IF e.action = "DELETE_BUNDLE"
                        THEN Rows(db.revisions, LAMBDA i : db.revisions[i].bundle # e.id)
                        ELSE db.revisions
  /\ given' \in [Numbers -> Nat] /\ \A k \in Numbers : given'[k] >= given[k]
  /\ e.action = "CREATE_BUNDLE" => e.id = given["bundle"] + 1 /\ given'["bundle"] = e.id
  /\ e.action \in {"CREATE_BUNDLE", "UPDATE_BUNDLE"} =>
       e.value = given["content"] + 1 /\ given'["content"] = e.value
  /\ IF e.action = "CREATE_ASSIGNMENT"
     THEN e.id = given["assignment"] + 1 /\ given'["assignment"] = e.id
     ELSE given'["assignment"] = given["assignment"]
  /\ e.action = "DELETE_ASSIGNMENT" =>
       \/ e.id \in DOMAIN db.assignments /\ e.about = db.assignments[e.id].bundle
       \/ e.id \in DOMAIN told.assignments /\ e.about = told.assignments[e.id].bundle

LEMMA Given ==
  ASSUME AdminShape, NEW kinds \in SUBSET Numbers, Give(kinds)
  PROVE  /\ given' \in [Numbers -> Nat] /\ \A k \in Numbers : given'[k] >= given[k]
         /\ \A k \in kinds : New(k) = given[k] + 1 /\ given'[k] = given[k] + 1
         /\ \A k \in Numbers : k \notin kinds => given'[k] = given[k]
  BY DEF AdminShape, Give, New

LEMMA EntryFields ==
  ASSUME NEW action, NEW about, NEW id, NEW value
  PROVE  LET e == Entry(action, about, id, value) IN
         /\ e.action = action /\ e.about = about /\ e.id = id /\ e.value = value
         /\ e = Entry(e.action, e.about, e.id, e.value)
  BY DEF Entry

LEMMA Mutations ==
  ASSUME AdminShape, NEW h \in Handlers, Request(h)
  PROVE  \/ \E e, tables : Mutated(h, e, tables)
         \/ \E b, p : LET e == Entry("CREATE_ASSIGNMENT", b, New("assignment"),
                                     [bundle |-> b, principal |-> p])
                      IN  Free(h) /\ Refused(h, e)
         \/ \E i \in DOMAIN db.sources : ValidateSource(h, i)
         \/ \E b \in DOMAIN db.bundles : CompileBundle(h, b)
<1>0. db = [bundles |-> db.bundles, assignments |-> db.assignments, sources |-> db.sources,
            revisions |-> db.revisions]
  BY DEF AdminShape
<1>. SUFFICES ASSUME ~(\E i \in DOMAIN db.sources : ValidateSource(h, i)),
                     ~(\E b \in DOMAIN db.bundles : CompileBundle(h, b)),
                     ~(\E b, p : LET e == Entry("CREATE_ASSIGNMENT", b, New("assignment"),
                                                [bundle |-> b, principal |-> p])
                                 IN  Free(h) /\ Refused(h, e))
              PROVE  \E e, tables : Mutated(h, e, tables)
  OBVIOUS
<1>g. UNCHANGED given => /\ given' \in [Numbers -> Nat] /\ \A k \in Numbers : given'[k] >= given[k]
                         /\ given'["assignment"] = given["assignment"]
  BY DEF AdminShape
<1>1. CASE CreateBundle(h)
  <2>. DEFINE e == Entry("CREATE_BUNDLE", New("bundle"), New("bundle"), New("content"))
              tables == [db EXCEPT !.bundles = Row(@, New("bundle"), New("content"))]
  <2>1. handler[h] = Idle /\ UNCHANGED <<told, returned, mixed>> /\ Statement(h, tables, e)
        /\ Give({"bundle", "content"})
    BY <1>1 DEF CreateBundle, Free
  <2>2. /\ given' \in [Numbers -> Nat] /\ \A k \in Numbers : given'[k] >= given[k]
        /\ New("bundle") = given["bundle"] + 1 /\ given'["bundle"] = given["bundle"] + 1
        /\ New("content") = given["content"] + 1 /\ given'["content"] = given["content"] + 1
        /\ given'["assignment"] = given["assignment"]
    BY <2>1, Given DEF Numbers
  <2>3. /\ e.action = "CREATE_BUNDLE" /\ e.about = New("bundle") /\ e.id = New("bundle")
        /\ e.value = New("content") /\ e = Entry(e.action, e.about, e.id, e.value)
    BY EntryFields
  <2>4. /\ tables.bundles = Row(db.bundles, New("bundle"), New("content"))
        /\ tables.assignments = db.assignments /\ tables.revisions = db.revisions
        /\ tables = [bundles |-> tables.bundles, assignments |-> tables.assignments,
                     sources |-> tables.sources, revisions |-> tables.revisions]
    BY <1>0
  <2>. HIDE DEF e, tables
  <2>5. EntryOK(e)
    BY <2>3 DEF EntryOK
  <2>6. BundlesAfter(db.bundles, e) = tables.bundles
        /\ AssignmentsAfter(db.assignments, e) = tables.assignments
    BY <2>3, <2>4 DEF BundlesAfter, AssignmentsAfter
  <2>7. Mutated(h, e, tables)
    BY <2>1, <2>2, <2>3, <2>4, <2>5, <2>6 DEF Mutated
  <2>. QED
    BY <2>7
<1>2. ASSUME NEW kind \in Kinds, CreateSource(h, kind)
      PROVE  \E e, tables : Mutated(h, e, tables)
  <2>. DEFINE e == Entry("CREATE_SOURCE", 0, New("source"), 0)
              tables == [db EXCEPT !.sources = Row(@, New("source"), [kind |-> kind, status |-> "draft"])]
  <2>1. handler[h] = Idle /\ UNCHANGED <<told, returned, mixed>> /\ Statement(h, tables, e)
        /\ Give({"source"})
    BY <1>2 DEF CreateSource, Free
  <2>2. /\ given' \in [Numbers -> Nat] /\ \A k \in Numbers : given'[k] >= given[k]
        /\ given'["assignment"] = given["assignment"]
    BY <2>1, Given DEF Numbers
  <2>3. e.action = "CREATE_SOURCE" /\ e = Entry(e.action, e.about, e.id, e.value)
    BY EntryFields
  <2>4. /\ tables.bundles = db.bundles
        /\ tables.assignments = db.assignments /\ tables.revisions = db.revisions
        /\ tables = [bundles |-> tables.bundles, assignments |-> tables.assignments,
                     sources |-> tables.sources, revisions |-> tables.revisions]
    BY <1>0
  <2>. HIDE DEF e, tables
  <2>5. EntryOK(e)
    BY <2>3 DEF EntryOK
  <2>6. BundlesAfter(db.bundles, e) = tables.bundles
        /\ AssignmentsAfter(db.assignments, e) = tables.assignments
    BY <2>3, <2>4 DEF BundlesAfter, AssignmentsAfter
  <2>7. Mutated(h, e, tables)
    BY <2>1, <2>2, <2>3, <2>4, <2>5, <2>6 DEF Mutated
  <2>. QED
    BY <2>7
<1>3. ASSUME NEW b, UpdateBundle(h, b)
      PROVE  \E e, tables : Mutated(h, e, tables)
  <2>. DEFINE e == Entry("UPDATE_BUNDLE", b, b, New("content"))
              tables == IF b \in DOMAIN db.bundles
                        THEN [db EXCEPT !.bundles[b] = New("content")] ELSE db
  <2>1. handler[h] = Idle /\ UNCHANGED <<told, returned, mixed>> /\ Statement(h, tables, e)
        /\ Give({"content"})
    BY <1>3 DEF UpdateBundle, Free
  <2>2. /\ given' \in [Numbers -> Nat] /\ \A k \in Numbers : given'[k] >= given[k]
        /\ New("content") = given["content"] + 1 /\ given'["content"] = given["content"] + 1
        /\ given'["assignment"] = given["assignment"]
    BY <2>1, Given DEF Numbers
  <2>3. /\ e.action = "UPDATE_BUNDLE" /\ e.about = b /\ e.id = b
        /\ e.value = New("content") /\ e = Entry(e.action, e.about, e.id, e.value)
    BY EntryFields
  <2>4. /\ tables.bundles = IF b \in DOMAIN db.bundles
                            THEN Row(db.bundles, b, New("content")) ELSE db.bundles
        /\ tables.assignments = db.assignments /\ tables.revisions = db.revisions
        /\ tables = [bundles |-> tables.bundles, assignments |-> tables.assignments,
                     sources |-> tables.sources, revisions |-> tables.revisions]
    <3>1. CASE b \in DOMAIN db.bundles
      <4>1. [db.bundles EXCEPT ![b] = New("content")] = Row(db.bundles, b, New("content"))
        BY <3>1 DEF Row
      <4>. QED
        BY <1>0, <3>1, <4>1
    <3>2. CASE b \notin DOMAIN db.bundles
      BY <1>0, <3>2
    <3>. QED
      BY <3>1, <3>2
  <2>. HIDE DEF e, tables
  <2>5. EntryOK(e)
    BY <2>3 DEF EntryOK
  <2>6. BundlesAfter(db.bundles, e) = tables.bundles
        /\ AssignmentsAfter(db.assignments, e) = tables.assignments
    BY <2>3, <2>4 DEF BundlesAfter, AssignmentsAfter
  <2>7. Mutated(h, e, tables)
    BY <2>1, <2>2, <2>3, <2>4, <2>5, <2>6 DEF Mutated
  <2>. QED
    BY <2>7
<1>4. ASSUME NEW b, DeleteBundle(h, b)
      PROVE  \E e, tables : Mutated(h, e, tables)
  <2>. DEFINE e == Entry("DELETE_BUNDLE", b, b, 0)
              tables == [db EXCEPT !.bundles = Rows(@, LAMBDA i : i # b),
                           !.assignments = Rows(@, LAMBDA i : db.assignments[i].bundle # b),
                           !.revisions = Rows(@, LAMBDA i : db.revisions[i].bundle # b)]
  <2>1. handler[h] = Idle /\ UNCHANGED <<told, returned, mixed>> /\ Statement(h, tables, e)
        /\ UNCHANGED given
    BY <1>4 DEF DeleteBundle, Free
  <2>3. /\ e.action = "DELETE_BUNDLE" /\ e.about = b /\ e.id = b
        /\ e = Entry(e.action, e.about, e.id, e.value)
    BY EntryFields
  <2>4. /\ tables.bundles = Rows(db.bundles, LAMBDA i : i # b)
        /\ tables.assignments = Rows(db.assignments, LAMBDA i : db.assignments[i].bundle # b)
        /\ tables.revisions = Rows(db.revisions, LAMBDA i : db.revisions[i].bundle # b)
        /\ tables = [bundles |-> tables.bundles, assignments |-> tables.assignments,
                     sources |-> tables.sources, revisions |-> tables.revisions]
    <3>. DEFINE bs == Rows(db.bundles, LAMBDA i : i # b)
                as == Rows(db.assignments, LAMBDA i : db.assignments[i].bundle # b)
                rs == Rows(db.revisions, LAMBDA i : db.revisions[i].bundle # b)
    <3>1. tables = [db EXCEPT !.bundles = bs, !.assignments = as, !.revisions = rs]
      BY DEF Rows
    <3>. HIDE DEF tables, bs, as, rs
    <3>2. /\ tables.bundles = bs /\ tables.assignments = as /\ tables.revisions = rs
          /\ tables = [bundles |-> tables.bundles, assignments |-> tables.assignments,
                       sources |-> tables.sources, revisions |-> tables.revisions]
      BY <1>0, <3>1
    <3>. QED
      BY <3>2 DEF bs, as, rs
  <2>. HIDE DEF e, tables
  <2>5. EntryOK(e)
    BY <2>3 DEF EntryOK
  <2>6. BundlesAfter(db.bundles, e) = tables.bundles
        /\ AssignmentsAfter(db.assignments, e) = tables.assignments
    BY <2>3, <2>4 DEF BundlesAfter, AssignmentsAfter, Rows
  <2>7. tables.revisions = Rows(db.revisions, LAMBDA i : db.revisions[i].bundle # e.id)
    BY <2>3, <2>4 DEF Rows
  <2>8. Mutated(h, e, tables)
    BY <1>g, <2>1, <2>3, <2>4, <2>5, <2>6, <2>7 DEF Mutated, Rows
  <2>. QED
    BY <2>8
<1>5. ASSUME NEW b, NEW p, CreateBundleAssignment(h, b, p)
      PROVE  \E e, tables : Mutated(h, e, tables)
  <2>. DEFINE row == [bundle |-> b, principal |-> p]
              e == Entry("CREATE_ASSIGNMENT", b, New("assignment"), row)
              tables == [db EXCEPT !.assignments = Row(@, New("assignment"), row)]
  <2>1. handler[h] = Idle /\ UNCHANGED <<told, returned, mixed>> /\ Statement(h, tables, e)
        /\ Give({"assignment"})
    BY <1>5 DEF CreateBundleAssignment, Free
  <2>2. /\ given' \in [Numbers -> Nat] /\ \A k \in Numbers : given'[k] >= given[k]
        /\ New("assignment") = given["assignment"] + 1
        /\ given'["assignment"] = given["assignment"] + 1
    BY <2>1, Given DEF Numbers
  <2>3. /\ e.action = "CREATE_ASSIGNMENT" /\ e.about = b /\ e.id = New("assignment")
        /\ e.value = row /\ row.bundle = b /\ e = Entry(e.action, e.about, e.id, e.value)
    BY EntryFields
  <2>4. /\ tables.assignments = Row(db.assignments, New("assignment"), row)
        /\ tables.bundles = db.bundles /\ tables.revisions = db.revisions
        /\ tables = [bundles |-> tables.bundles, assignments |-> tables.assignments,
                     sources |-> tables.sources, revisions |-> tables.revisions]
    BY <1>0
  <2>. HIDE DEF e, tables, row
  <2>5. EntryOK(e)
    BY <2>3 DEF EntryOK
  <2>6. BundlesAfter(db.bundles, e) = tables.bundles
        /\ AssignmentsAfter(db.assignments, e) = tables.assignments
    BY <2>3, <2>4 DEF BundlesAfter, AssignmentsAfter
  <2>7. Mutated(h, e, tables)
    BY <2>1, <2>2, <2>3, <2>4, <2>5, <2>6 DEF Mutated
  <2>. QED
    BY <2>7
<1>6. ASSUME NEW i \in DOMAIN db.assignments \cup DOMAIN told.assignments,
             DeleteBundleAssignment(h, i)
      PROVE  \E e, tables : Mutated(h, e, tables)
  <2>. DEFINE rows == IF i \in DOMAIN db.assignments THEN db.assignments ELSE told.assignments
              e == Entry("DELETE_ASSIGNMENT", rows[i].bundle, i, 0)
              tables == [db EXCEPT !.assignments = Rows(@, LAMBDA j : j # i)]
  <2>1. handler[h] = Idle /\ UNCHANGED <<told, returned, mixed>> /\ Statement(h, tables, e)
        /\ UNCHANGED given
    BY <1>6 DEF DeleteBundleAssignment, Free
  <2>3. /\ e.action = "DELETE_ASSIGNMENT" /\ e.about = rows[i].bundle /\ e.id = i
        /\ e = Entry(e.action, e.about, e.id, e.value)
    BY EntryFields
  <2>4. /\ tables.assignments = Rows(db.assignments, LAMBDA j : j # i)
        /\ tables.bundles = db.bundles /\ tables.revisions = db.revisions
        /\ tables = [bundles |-> tables.bundles, assignments |-> tables.assignments,
                     sources |-> tables.sources, revisions |-> tables.revisions]
    BY <1>0 DEF Rows
  <2>. HIDE DEF e, tables
  <2>5. EntryOK(e)
    BY <2>3 DEF EntryOK
  <2>6. BundlesAfter(db.bundles, e) = tables.bundles
        /\ AssignmentsAfter(db.assignments, e) = tables.assignments
    BY <2>3, <2>4 DEF BundlesAfter, AssignmentsAfter, Rows
  <2>7. Mutated(h, e, tables)
    BY <1>g, <2>1, <2>3, <2>4, <2>5, <2>6 DEF Mutated
  <2>. QED
    BY <2>7
<1>. QED
  BY <1>1, <1>2, <1>3, <1>4, <1>5, <1>6 DEF Request

LEMMA HandlerSet ==
  ASSUME DOMAIN handler = Handlers, NEW h \in Handlers, NEW x, handler' = [handler EXCEPT ![h] = x]
  PROVE  DOMAIN handler' = Handlers /\ handler'[h] = x
         /\ \A g \in Handlers : g # h => handler'[g] = handler[g]
  OBVIOUS

LEMMA Logs ==
  ASSUME NEW e, EntryOK(e), NEW success \in BOOLEAN
  PROVE  LET x == [pc |-> "log", entry |-> e, success |-> success] IN
         IsLog(x) /\ x.pc = "log" /\ x.entry = e /\ x.success = success
  BY DEF IsLog

LEMMA MutatedEffect ==
  ASSUME AdminShape, NEW h \in Handlers, NEW e, NEW tables, Mutated(h, e, tables)
  PROVE  /\ DOMAIN handler' = Handlers /\ \A g \in Handlers : g # h => handler'[g] = handler[g]
         /\ IsLog(handler'[h]) /\ handler'[h].entry = e /\ handler[h].pc = "idle"
         /\ \/ /\ handler'[h].success = TRUE /\ db' = tables
               /\ dubious' = IF Unlogged(e.about) THEN dubious \cup {e.about} ELSE dubious
            \/ /\ handler'[h].success = FALSE /\ db' \in {db, tables}
               /\ dubious' = dubious \cup {e.about}
<1>1. EntryOK(e) /\ Statement(h, tables, e) /\ handler[h] = Idle /\ DOMAIN handler = Handlers
  BY DEF Mutated, AdminShape
<1>2. CASE /\ db' = tables /\ ToLog(h, e, TRUE)
           /\ dubious' = IF Unlogged(e.about) THEN dubious \cup {e.about} ELSE dubious
  <2>. DEFINE x == [pc |-> "log", entry |-> e, success |-> TRUE]
  <2>1. IsLog(x) /\ x.entry = e /\ x.success = TRUE
    BY <1>1, Logs
  <2>2. handler' = [handler EXCEPT ![h] = x]
    BY <1>2 DEF ToLog
  <2>. HIDE DEF x
  <2>. QED
    BY <1>1, <1>2, <2>1, <2>2, HandlerSet DEF Idle
<1>3. CASE db' \in {db, tables} /\ ToLog(h, e, FALSE) /\ dubious' = dubious \cup {e.about}
  <2>. DEFINE x == [pc |-> "log", entry |-> e, success |-> FALSE]
  <2>1. IsLog(x) /\ x.entry = e /\ x.success = FALSE
    BY <1>1, Logs
  <2>2. handler' = [handler EXCEPT ![h] = x]
    BY <1>3 DEF ToLog
  <2>. HIDE DEF x
  <2>. QED
    BY <1>1, <1>3, <2>1, <2>2, HandlerSet DEF Idle
<1>. QED
  BY <1>1, <1>2, <1>3 DEF Statement

(* What a record tells of bundles and of assignments.                      *)
LEMMA RetoldEffect ==
  ASSUME AdminShape, NEW e, EntryOK(e)
  PROVE  Retold(e) = [bundles |-> BundlesAfter(told.bundles, e),
                      assignments |-> AssignmentsAfter(told.assignments, e)]
<1>0. told = [bundles |-> told.bundles, assignments |-> told.assignments]
  BY DEF AdminShape
<1>1. CASE e.action = "CREATE_BUNDLE"
  BY <1>0, <1>1 DEF Retold, BundlesAfter, AssignmentsAfter
<1>2. CASE e.action = "UPDATE_BUNDLE"
  <2>1. CASE e.id \in DOMAIN told.bundles
    <3>1. [told.bundles EXCEPT ![e.id] = e.value] = Row(told.bundles, e.id, e.value)
      BY <2>1 DEF Row
    <3>2. Retold(e) = [told EXCEPT !.bundles = [told.bundles EXCEPT ![e.id] = e.value]]
      BY <1>2, <2>1 DEF Retold
    <3>. QED
      BY <1>0, <1>2, <2>1, <3>1, <3>2 DEF BundlesAfter, AssignmentsAfter
  <2>2. CASE e.id \notin DOMAIN told.bundles
    BY <1>0, <1>2, <2>2 DEF Retold, BundlesAfter, AssignmentsAfter
  <2>. QED
    BY <2>1, <2>2
<1>3. CASE e.action = "DELETE_BUNDLE"
  <2>. DEFINE bs == Rows(told.bundles, LAMBDA i : i # e.id)
              as == Rows(told.assignments, LAMBDA i : told.assignments[i].bundle # e.id)
  <2>1. Retold(e) = [told EXCEPT !.bundles = bs, !.assignments = as]
    BY <1>3 DEF Retold, Rows
  <2>2. BundlesAfter(told.bundles, e) = bs /\ AssignmentsAfter(told.assignments, e) = as
    BY <1>3 DEF BundlesAfter, AssignmentsAfter, Rows
  <2>. HIDE DEF bs, as
  <2>. QED
    BY <1>0, <2>1, <2>2
<1>4. CASE e.action = "CREATE_ASSIGNMENT"
  BY <1>0, <1>4 DEF Retold, BundlesAfter, AssignmentsAfter
<1>5. CASE e.action = "DELETE_ASSIGNMENT"
  <2>. DEFINE as == Rows(told.assignments, LAMBDA i : i # e.id)
  <2>1. Retold(e) = [told EXCEPT !.assignments = as]
    BY <1>5 DEF Retold, Rows
  <2>2. BundlesAfter(told.bundles, e) = told.bundles /\ AssignmentsAfter(told.assignments, e) = as
    BY <1>5 DEF BundlesAfter, AssignmentsAfter, Rows
  <2>. HIDE DEF as
  <2>. QED
    BY <1>0, <2>1, <2>2
<1>6. CASE e.action = "CREATE_SOURCE"
  BY <1>0, <1>6 DEF Retold, BundlesAfter, AssignmentsAfter
<1>. QED
  BY <1>1, <1>2, <1>3, <1>4, <1>5, <1>6 DEF EntryOK

(* What a record is not about it does not change.                          *)
LEMMA OthersUnchanged ==
  ASSUME NEW e, EntryOK(e), NEW b, b # e.about, NEW bundles, NEW assignments,
         e.action \in {"CREATE_ASSIGNMENT", "DELETE_ASSIGNMENT"} /\ e.id \in DOMAIN assignments
           => assignments[e.id].bundle = e.about
  PROVE  /\ Has(BundlesAfter(bundles, e), b) = Has(bundles, b)
         /\ Own(AssignmentsAfter(assignments, e), b) = Own(assignments, b)
<1>1. Has(BundlesAfter(bundles, e), b) = Has(bundles, b)
  BY DEF EntryOK, Has, BundlesAfter, Row, Rows
<1>2. Own(AssignmentsAfter(assignments, e), b) = Own(assignments, b)
  <2>1. CASE e.action = "CREATE_ASSIGNMENT"
    BY <2>1 DEF EntryOK, Own, AssignmentsAfter, Row
  <2>2. CASE e.action = "DELETE_ASSIGNMENT"
    BY <2>2 DEF EntryOK, Own, AssignmentsAfter, Rows
  <2>3. CASE e.action = "DELETE_BUNDLE"
    BY <2>3 DEF EntryOK, Own, AssignmentsAfter, Rows
  <2>4. CASE e.action \notin {"CREATE_ASSIGNMENT", "DELETE_ASSIGNMENT", "DELETE_BUNDLE"}
    BY <2>4 DEF AssignmentsAfter
  <2>. QED
    BY <2>1, <2>2, <2>3, <2>4
<1>. QED
  BY <1>1, <1>2

LEMMA OwnSame ==
  ASSUME NEW as, NEW ds, NEW b,
         \A i : (i \in DOMAIN as /\ as[i].bundle = b) <=> (i \in DOMAIN ds /\ ds[i].bundle = b),
         \A i \in DOMAIN as : as[i].bundle = b => as[i] = ds[i]
  PROVE  Own(as, b) = Own(ds, b)
<1>. DEFINE X == {x \in DOMAIN as : as[x].bundle = b}
            Y == {x \in DOMAIN ds : ds[x].bundle = b}
<1>1. X = Y /\ \A i \in X : as[i] = ds[i]
  <2>1. \A i : i \in X <=> i \in Y
    OBVIOUS
  <2>2. X = Y
    BY Zenon, <2>1
  <2>. QED
    BY <2>2
<1>2. Own(as, b) = [i \in X |-> as[i]] /\ Own(ds, b) = [i \in Y |-> ds[i]]
  BY DEF Own
<1>. HIDE DEF X, Y
<1>. QED
  BY <1>1, <1>2

(* What it tells of its bundle follows from what was told of that bundle.  *)
LEMMA SameTold ==
  ASSUME NEW e, EntryOK(e), NEW bs, NEW cs, NEW as, NEW ds,
         Has(bs, e.about) = Has(cs, e.about), Own(as, e.about) = Own(ds, e.about)
  PROVE  /\ Has(BundlesAfter(bs, e), e.about) = Has(BundlesAfter(cs, e), e.about)
         /\ Own(AssignmentsAfter(as, e), e.about) = Own(AssignmentsAfter(ds, e), e.about)
<1>. DEFINE b == e.about
<1>1. /\ b \in DOMAIN bs <=> b \in DOMAIN cs
      /\ b \in DOMAIN bs => bs[b] = cs[b]
  <2>1. /\ DOMAIN Has(bs, b) = {x \in DOMAIN bs : x = b} /\ DOMAIN Has(cs, b) = {x \in DOMAIN cs : x = b}
        /\ b \in DOMAIN bs => Has(bs, b)[b] = bs[b]
        /\ b \in DOMAIN cs => Has(cs, b)[b] = cs[b]
    BY DEF Has
  <2>. QED
    BY <2>1
<1>2. \A i : /\ i \in DOMAIN as /\ as[i].bundle = b <=> i \in DOMAIN ds /\ ds[i].bundle = b
             /\ i \in DOMAIN as /\ as[i].bundle = b => as[i] = ds[i]
  <2>1. /\ DOMAIN Own(as, b) = {x \in DOMAIN as : as[x].bundle = b}
        /\ DOMAIN Own(ds, b) = {x \in DOMAIN ds : ds[x].bundle = b}
        /\ \A i \in DOMAIN Own(as, b) : Own(as, b)[i] = as[i]
        /\ \A i \in DOMAIN Own(ds, b) : Own(ds, b)[i] = ds[i]
    BY DEF Own
  <2>. QED
    BY <2>1
<1>. HIDE DEF b
<1>3. Has(BundlesAfter(bs, e), b) = Has(BundlesAfter(cs, e), b)
  <2>1. CASE e.id = b
    BY <1>1, <2>1 DEF Has, BundlesAfter, Row, Rows
  <2>2. CASE e.action \notin {"CREATE_BUNDLE", "UPDATE_BUNDLE", "DELETE_BUNDLE"}
    BY <2>2 DEF BundlesAfter, b
  <2>. QED
    BY <2>1, <2>2 DEF EntryOK, b
<1>4. Own(AssignmentsAfter(as, e), b) = Own(AssignmentsAfter(ds, e), b)
  <2>1. CASE e.action = "CREATE_ASSIGNMENT"
    BY <1>2, <2>1 DEF Own, AssignmentsAfter, Row
  <2>2. CASE e.action = "DELETE_ASSIGNMENT"
    <3>. DEFINE x == AssignmentsAfter(as, e)
                y == AssignmentsAfter(ds, e)
    <3>1. /\ DOMAIN x = {i \in DOMAIN as : i # e.id} /\ \A i \in DOMAIN x : x[i] = as[i]
          /\ DOMAIN y = {i \in DOMAIN ds : i # e.id} /\ \A i \in DOMAIN y : y[i] = ds[i]
      BY <2>2 DEF AssignmentsAfter, Rows
    <3>. HIDE DEF x, y
    <3>2. /\ \A i : (i \in DOMAIN x /\ x[i].bundle = b) <=> (i \in DOMAIN y /\ y[i].bundle = b)
          /\ \A i \in DOMAIN x : x[i].bundle = b => x[i] = y[i]
      BY <1>2, <3>1
    <3>3. Own(x, b) = Own(y, b)
      BY <3>2, OwnSame
    <3>. QED
      BY <3>3 DEF x, y
  <2>3. CASE e.action = "DELETE_BUNDLE"
    <3>. DEFINE x == AssignmentsAfter(as, e)
                y == AssignmentsAfter(ds, e)
    <3>1. /\ DOMAIN x = {i \in DOMAIN as : as[i].bundle # b} /\ \A i \in DOMAIN x : x[i] = as[i]
          /\ DOMAIN y = {i \in DOMAIN ds : ds[i].bundle # b} /\ \A i \in DOMAIN y : y[i] = ds[i]
      BY <2>3 DEF EntryOK, AssignmentsAfter, Rows, b
    <3>. HIDE DEF x, y
    <3>2. (\A i \in DOMAIN x : x[i].bundle # b) /\ (\A i \in DOMAIN y : y[i].bundle # b)
      BY <3>1
    <3>3. Own(x, b) = Own(y, b)
      BY <3>2, OwnSame
    <3>. QED
      BY <3>3 DEF x, y
  <2>4. CASE e.action \notin {"CREATE_ASSIGNMENT", "DELETE_ASSIGNMENT", "DELETE_BUNDLE"}
    BY <2>4 DEF AssignmentsAfter, b
  <2>. QED
    BY <2>1, <2>2, <2>3, <2>4
<1>. QED
  BY <1>3, <1>4 DEF b

(* A step that is no mutation leaves bundles, assignments and records.     *)
Quiet(h) ==
  /\ UNCHANGED <<told, dubious>>
  /\ db' = [bundles |-> db.bundles, assignments |-> db.assignments, sources |-> db'.sources,
            revisions |-> db'.revisions]
  /\ given' \in [Numbers -> Nat] /\ given'["assignment"] = given["assignment"]
  /\ DOMAIN handler' = Handlers /\ \A g \in Handlers : g # h => handler'[g] = handler[g]
  /\ handler[h].pc # "log" /\ (handler'[h] = Idle \/ IsPublish(handler'[h]))

LEMMA PublishRecord ==
  ASSUME NEW bundle, NEW snapshot, NEW revision, NEW now, NEW pc \in {"insert", "clock", "publish"},
         NEW x, x = [pc |-> pc, bundle |-> bundle, snapshot |-> snapshot, revision |-> revision,
                     now |-> now]
  PROVE  /\ IsPublish(x) /\ x.pc = pc /\ x.bundle = bundle /\ x.snapshot = snapshot
         /\ x.revision = revision /\ x.now = now
  BY DEF IsPublish

LEMMA PublishField ==
  ASSUME NEW x, NEW pc, NEW bundle, NEW snapshot, NEW revision, NEW now, NEW n,
         x = [pc |-> pc, bundle |-> bundle, snapshot |-> snapshot, revision |-> revision, now |-> now]
  PROVE  /\ [x EXCEPT !.pc = n] = [pc |-> n, bundle |-> bundle, snapshot |-> snapshot,
                                   revision |-> revision, now |-> now]
         /\ [x EXCEPT !.revision = n] = [pc |-> pc, bundle |-> bundle, snapshot |-> snapshot,
                                         revision |-> n, now |-> now]
         /\ [x EXCEPT !.now = n] = [pc |-> pc, bundle |-> bundle, snapshot |-> snapshot,
                                    revision |-> revision, now |-> n]
  OBVIOUS

Inserted(x, revision) == [x EXCEPT !.pc = "clock", !.revision = revision]
Timed(x, time) == [x EXCEPT !.pc = "publish", !.now = time]

LEMMA PublishMoves ==
  ASSUME NEW x, IsPublish(x), NEW n
  PROVE  /\ IsPublish(Inserted(x, n)) /\ Inserted(x, n).pc = "clock"
         /\ Inserted(x, n).bundle = x.bundle /\ Inserted(x, n).snapshot = x.snapshot
         /\ Inserted(x, n).revision = n
         /\ IsPublish(Timed(x, n)) /\ Timed(x, n).pc = "publish"
         /\ Timed(x, n).bundle = x.bundle /\ Timed(x, n).snapshot = x.snapshot
         /\ Timed(x, n).revision = x.revision /\ Timed(x, n).now = n
<1>. DEFINE was == x.pc
            bundle == x.bundle
            snapshot == x.snapshot
            revision == x.revision
            time == x.now
<1>1. x = [pc |-> was, bundle |-> bundle, snapshot |-> snapshot, revision |-> revision, now |-> time]
  BY DEF IsPublish
<1>. HIDE DEF was, bundle, snapshot, revision, time
<1>2. Inserted(x, n) = [pc |-> "clock", bundle |-> bundle, snapshot |-> snapshot, revision |-> n,
                        now |-> time]
  <2>. DEFINE w == [x EXCEPT !.pc = "clock"]
  <2>1. Inserted(x, n) = [w EXCEPT !.revision = n]
    BY DEF Inserted
  <2>2. w = [pc |-> "clock", bundle |-> bundle, snapshot |-> snapshot, revision |-> revision,
             now |-> time]
    BY <1>1, PublishField
  <2>. HIDE DEF w
  <2>. QED
    BY <2>1, <2>2, PublishField
<1>3. Timed(x, n) = [pc |-> "publish", bundle |-> bundle, snapshot |-> snapshot,
                     revision |-> revision, now |-> n]
  <2>. DEFINE w == [x EXCEPT !.pc = "publish"]
  <2>1. Timed(x, n) = [w EXCEPT !.now = n]
    BY DEF Timed
  <2>2. w = [pc |-> "publish", bundle |-> bundle, snapshot |-> snapshot, revision |-> revision,
             now |-> time]
    BY <1>1, PublishField
  <2>. HIDE DEF w
  <2>. QED
    BY <2>1, <2>2, PublishField
<1>4. /\ IsPublish(Inserted(x, n)) /\ Inserted(x, n).pc = "clock"
      /\ Inserted(x, n).bundle = bundle /\ Inserted(x, n).snapshot = snapshot
      /\ Inserted(x, n).revision = n
  BY <1>2, PublishRecord
<1>5. /\ IsPublish(Timed(x, n)) /\ Timed(x, n).pc = "publish"
      /\ Timed(x, n).bundle = bundle /\ Timed(x, n).snapshot = snapshot
      /\ Timed(x, n).revision = revision /\ Timed(x, n).now = n
  BY <1>3, PublishRecord
<1>. QED
  BY <1>4, <1>5 DEF bundle, snapshot, revision

LEMMA QuietSteps ==
  ASSUME AdminShape, NEW h \in Handlers,
         \/ \E i \in DOMAIN db.sources : ValidateSource(h, i)
         \/ \E b \in DOMAIN db.bundles : CompileBundle(h, b)
         \/ CreateRevision(h) \/ ReadClock(h) \/ PublishRevision(h)
  PROVE  Quiet(h)
<1>0. /\ db = [bundles |-> db.bundles, assignments |-> db.assignments, sources |-> db.sources,
               revisions |-> db.revisions]
      /\ given \in [Numbers -> Nat] /\ DOMAIN handler = Handlers
      /\ handler[h] = Idle \/ IsLog(handler[h]) \/ IsPublish(handler[h])
  BY DEF AdminShape
<1>1. ASSUME NEW x, handler' = [handler EXCEPT ![h] = x], x = Idle \/ IsPublish(x)
      PROVE  /\ DOMAIN handler' = Handlers /\ \A g \in Handlers : g # h => handler'[g] = handler[g]
             /\ handler'[h] = Idle \/ IsPublish(handler'[h])
  <2>1. DOMAIN handler' = Handlers /\ handler'[h] = x
        /\ \A g \in Handlers : g # h => handler'[g] = handler[g]
    BY <1>0, <1>1, HandlerSet
  <2>. QED
    BY <1>1, <2>1
<1>2. ASSUME NEW rs PROVE LET d == [db EXCEPT !.revisions = rs] IN
        d = [bundles |-> db.bundles, assignments |-> db.assignments, sources |-> d.sources,
             revisions |-> d.revisions]
  BY <1>0
<1>3. ASSUME NEW i \in DOMAIN db.sources, ValidateSource(h, i) PROVE Quiet(h)
  <2>1. handler[h] = Idle /\ UNCHANGED <<told, dubious, given, handler>>
    BY <1>3 DEF ValidateSource, Free
  <2>2. db' = [bundles |-> db.bundles, assignments |-> db.assignments, sources |-> db'.sources,
               revisions |-> db'.revisions]
    <3>. DEFINE ss == [db.sources EXCEPT ![i].status = "validated"]
    <3>1. db' = [db EXCEPT !.sources = ss]
      BY <1>3 DEF ValidateSource
    <3>. HIDE DEF ss
    <3>. QED
      BY <1>0, <3>1
  <2>. QED
    BY <1>0, <2>1, <2>2 DEF Quiet, Idle
<1>4. ASSUME NEW b \in DOMAIN db.bundles, CompileBundle(h, b) PROVE Quiet(h)
  <2>. DEFINE x == [pc |-> "insert", bundle |-> b, snapshot |-> db.bundles[b], revision |-> 0,
                    now |-> 0]
  <2>1. handler[h] = Idle /\ UNCHANGED <<told, dubious, given, db>>
        /\ handler' = [handler EXCEPT ![h] = x]
    BY <1>4 DEF CompileBundle
  <2>2. IsPublish(x)
    BY PublishRecord
  <2>. HIDE DEF x
  <2>. QED
    BY <1>0, <1>1, <2>1, <2>2 DEF Quiet, Idle
<1>5. CASE CreateRevision(h)
  <2>1. handler[h].pc = "insert" /\ UNCHANGED <<told, dubious>>
    BY <1>5 DEF CreateRevision
  <2>2. IsPublish(handler[h])
    BY <1>0, <2>1 DEF IsLog, Idle
  <2>3. DOMAIN handler' = Handlers /\ (\A g \in Handlers : g # h => handler'[g] = handler[g])
        /\ (handler'[h] = Idle \/ IsPublish(handler'[h]))
    <3>. DEFINE x == Inserted(handler[h], New("revision"))
    <3>1. IsPublish(x)
      BY <2>2, PublishMoves
    <3>2. CASE handler' = [handler EXCEPT ![h] = Idle]
      BY <1>1, <3>2
    <3>3. CASE handler' = [handler EXCEPT ![h].pc = "clock", ![h].revision = New("revision")]
      <4>1. handler' = [handler EXCEPT ![h] = x]
        BY <1>0, <3>3 DEF Inserted
      <4>. HIDE DEF x
      <4>. QED
        BY <1>1, <3>1, <4>1
    <3>. QED
      BY <1>5, <3>2, <3>3 DEF CreateRevision, PublishFails
  <2>4. given' \in [Numbers -> Nat] /\ given'["assignment"] = given["assignment"]
    <3>1. UNCHANGED given \/ Give({"revision"})
      BY <1>5 DEF CreateRevision
    <3>. QED
      BY <1>0, <3>1, Given DEF Numbers
  <2>5. db' = [bundles |-> db.bundles, assignments |-> db.assignments, sources |-> db'.sources,
               revisions |-> db'.revisions]
    <3>. DEFINE rs == Row(db.revisions, New("revision"), Draft(h))
    <3>1. db' = db \/ db' = [db EXCEPT !.revisions = rs]
      BY <1>5 DEF CreateRevision
    <3>. HIDE DEF rs
    <3>. QED
      BY <1>0, <1>2, <3>1
  <2>. QED
    BY <2>1, <2>3, <2>4, <2>5 DEF Quiet
<1>6. CASE ReadClock(h)
  <2>1. handler[h].pc = "clock" /\ UNCHANGED <<told, dubious, db>> /\ Give({"time"})
        /\ handler' = [handler EXCEPT ![h].pc = "publish", ![h].now = New("time")]
    BY <1>6 DEF ReadClock
  <2>2. IsPublish(handler[h])
    BY <1>0, <2>1 DEF IsLog, Idle
  <2>. DEFINE x == Timed(handler[h], New("time"))
  <2>3. IsPublish(x)
    BY <2>2, PublishMoves
  <2>4. handler' = [handler EXCEPT ![h] = x]
    BY <1>0, <2>1 DEF Timed
  <2>. HIDE DEF x
  <2>5. given' \in [Numbers -> Nat] /\ given'["assignment"] = given["assignment"]
    BY <2>1, Given DEF Numbers
  <2>. QED
    BY <1>0, <1>1, <2>1, <2>3, <2>4, <2>5 DEF Quiet
<1>7. CASE PublishRevision(h)
  <2>1. handler[h].pc = "publish" /\ UNCHANGED <<told, dubious, given>>
        /\ handler' = [handler EXCEPT ![h] = Idle]
    BY <1>7 DEF PublishRevision, PublishFails
  <2>2. db' = [bundles |-> db.bundles, assignments |-> db.assignments, sources |-> db'.sources,
               revisions |-> db'.revisions]
    <3>1. \E rs : db' = db \/ db' = [db EXCEPT !.revisions = rs]
      BY <1>7 DEF PublishRevision
    <3>. QED
      BY <1>0, <1>2, <3>1
  <2>. QED
    BY <1>0, <1>1, <2>1, <2>2 DEF Quiet
<1>. QED
  BY <1>3, <1>4, <1>5, <1>6, <1>7

LEMMA RecordEffect ==
  ASSUME AdminShape, NEW h \in Handlers, LogAuditEvent(h)
  PROVE  /\ handler[h].pc = "log" /\ handler[h].success \in BOOLEAN /\ EntryOK(handler[h].entry)
         /\ DOMAIN handler' = Handlers /\ \A g \in Handlers : g # h => handler'[g] = handler[g]
         /\ handler'[h] = Idle
         /\ \/ /\ told' = IF handler[h].success
                          THEN [bundles |-> BundlesAfter(told.bundles, handler[h].entry),
                                assignments |-> AssignmentsAfter(told.assignments, handler[h].entry)]
                          ELSE told
               /\ UNCHANGED dubious
            \/ UNCHANGED told /\ dubious' = dubious \cup {handler[h].entry.about}
<1>1. handler[h].pc = "log" /\ handler' = [handler EXCEPT ![h] = Idle]
  BY DEF LogAuditEvent
<1>2. IsLog(handler[h]) /\ DOMAIN handler = Handlers
  BY <1>1 DEF AdminShape, Idle, IsPublish
<1>3. /\ DOMAIN handler' = Handlers /\ \A g \in Handlers : g # h => handler'[g] = handler[g]
      /\ handler'[h] = Idle
  BY <1>1, <1>2, HandlerSet
<1>4. Retold(handler[h].entry) = [bundles |-> BundlesAfter(told.bundles, handler[h].entry),
                                  assignments |-> AssignmentsAfter(told.assignments, handler[h].entry)]
  BY <1>2, RetoldEffect DEF IsLog
<1>. QED
  BY <1>1, <1>2, <1>3, <1>4 DEF LogAuditEvent, Recorded, IsLog

LEMMA ShapeNext ==
  ASSUME AdminShape, AdminNext
  PROVE  AdminShape'
<1>0. /\ told = [bundles |-> told.bundles, assignments |-> told.assignments]
      /\ \A g \in Handlers : handler[g] = Idle \/ IsLog(handler[g]) \/ IsPublish(handler[g])
      /\ db = [bundles |-> db.bundles, assignments |-> db.assignments, sources |-> db.sources,
               revisions |-> db.revisions]
      /\ given \in [Numbers -> Nat] /\ DOMAIN handler = Handlers
  BY DEF AdminShape
<1>1. ASSUME NEW h \in Handlers, DOMAIN handler' = Handlers,
             \A g \in Handlers : g # h => handler'[g] = handler[g],
             handler'[h] = Idle \/ IsLog(handler'[h]) \/ IsPublish(handler'[h])
      PROVE  \A g \in Handlers : handler'[g] = Idle \/ IsLog(handler'[g]) \/ IsPublish(handler'[g])
  BY <1>0, <1>1
<1>2. ASSUME NEW h \in Handlers, Quiet(h) PROVE AdminShape'
  <2>1. db' = [bundles |-> db'.bundles, assignments |-> db'.assignments, sources |-> db'.sources,
               revisions |-> db'.revisions]
    <3>. DEFINE ss == db'.sources
                rs == db'.revisions
    <3>1. db' = [bundles |-> db.bundles, assignments |-> db.assignments, sources |-> ss,
                 revisions |-> rs]
      BY <1>2 DEF Quiet
    <3>. HIDE DEF ss, rs
    <3>. QED
      BY <3>1
  <2>. QED
    BY <1>0, <1>1, <1>2, <2>1 DEF Quiet, AdminShape
<1>3. ASSUME NEW h \in Handlers, NEW e, NEW tables, Mutated(h, e, tables) PROVE AdminShape'
  <2>1. db' = db \/ db' = tables
    BY <1>3, MutatedEffect
  <2>2. db' = [bundles |-> db'.bundles, assignments |-> db'.assignments, sources |-> db'.sources,
               revisions |-> db'.revisions]
    <3>. DEFINE bs == BundlesAfter(db.bundles, e)
                as == AssignmentsAfter(db.assignments, e)
    <3>1. \E ss, rs : tables = [bundles |-> bs, assignments |-> as, sources |-> ss, revisions |-> rs]
      BY <1>3 DEF Mutated
    <3>. HIDE DEF bs, as
    <3>. QED
      BY <1>0, <2>1, <3>1
  <2>3. told' = told /\ given' \in [Numbers -> Nat]
    BY <1>3 DEF Mutated
  <2>4. /\ DOMAIN handler' = Handlers /\ \A g \in Handlers : g # h => handler'[g] = handler[g]
        /\ IsLog(handler'[h])
    BY <1>3, MutatedEffect
  <2>. QED
    BY <1>0, <1>1, <2>2, <2>3, <2>4 DEF AdminShape
<1>4. ASSUME NEW h \in Handlers, NEW e, EntryOK(e), Free(h), Refused(h, e) PROVE AdminShape'
  <2>. DEFINE x == [pc |-> "log", entry |-> e, success |-> FALSE]
  <2>1. handler' = [handler EXCEPT ![h] = x] /\ UNCHANGED <<db, given, told>>
    BY <1>4 DEF Refused, ToLog, Free
  <2>2. IsLog(x)
    BY <1>4, Logs
  <2>. HIDE DEF x
  <2>3. DOMAIN handler' = Handlers /\ handler'[h] = x
        /\ \A g \in Handlers : g # h => handler'[g] = handler[g]
    BY <1>0, <2>1, HandlerSet
  <2>. QED
    BY <1>0, <1>1, <2>1, <2>2, <2>3 DEF AdminShape
<1>5. ASSUME NEW h \in Handlers, LogAuditEvent(h) PROVE AdminShape'
  <2>1. UNCHANGED <<db, given>>
    BY <1>5 DEF LogAuditEvent
  <2>2. /\ DOMAIN handler' = Handlers /\ \A g \in Handlers : g # h => handler'[g] = handler[g]
        /\ handler'[h] = Idle
    BY <1>5, RecordEffect
  <2>3. told' = [bundles |-> told'.bundles, assignments |-> told'.assignments]
    <3>. DEFINE bs == BundlesAfter(told.bundles, handler[h].entry)
                as == AssignmentsAfter(told.assignments, handler[h].entry)
    <3>1. told' = told \/ told' = [bundles |-> bs, assignments |-> as]
      BY <1>5, RecordEffect
    <3>. HIDE DEF bs, as
    <3>. QED
      BY <1>0, <3>1
  <2>. QED
    BY <1>0, <1>1, <2>1, <2>2, <2>3 DEF AdminShape
<1>6. CASE Crash
  BY <1>0, <1>6 DEF Crash, AdminShape
<1>7. ASSUME NEW h \in Handlers, Request(h) PROVE AdminShape'
  <2>1. ASSUME NEW b, NEW p
        PROVE  EntryOK(Entry("CREATE_ASSIGNMENT", b, New("assignment"), [bundle |-> b, principal |-> p]))
    BY EntryFields DEF EntryOK
  <2>. QED
    BY <1>2, <1>3, <1>4, <1>7, <2>1, Mutations, QuietSteps
<1>. QED
  BY <1>2, <1>5, <1>6, <1>7, QuietSteps DEF AdminNext

(* The steps of the control plane, by what the trail sees of them.         *)
LEMMA RefusedEffect ==
  ASSUME AdminShape, NEW h \in Handlers, NEW e, EntryOK(e), Free(h), Refused(h, e)
  PROVE  /\ UNCHANGED <<db, given, told, dubious>> /\ handler[h].pc = "idle"
         /\ DOMAIN handler' = Handlers /\ \A g \in Handlers : g # h => handler'[g] = handler[g]
         /\ IsLog(handler'[h]) /\ handler'[h].entry = e /\ handler'[h].success = FALSE
<1>. DEFINE x == [pc |-> "log", entry |-> e, success |-> FALSE]
<1>1. handler' = [handler EXCEPT ![h] = x] /\ UNCHANGED <<db, given, told, dubious>>
      /\ handler[h] = Idle
  BY DEF Refused, ToLog, Free
<1>2. IsLog(x) /\ x.entry = e /\ x.success = FALSE
  BY Logs
<1>. HIDE DEF x
<1>3. DOMAIN handler' = Handlers /\ handler'[h] = x
      /\ \A g \in Handlers : g # h => handler'[g] = handler[g]
  BY <1>1, HandlerSet DEF AdminShape
<1>. QED
  BY <1>1, <1>2, <1>3 DEF Idle

LEMMA AdminSteps ==
  ASSUME AdminShape, AdminNext
  PROVE  \/ \E h \in Handlers : \E e, tables : Mutated(h, e, tables)
         \/ \E h \in Handlers : \E e : /\ EntryOK(e) /\ e.action = "CREATE_ASSIGNMENT"
                                       /\ Free(h) /\ Refused(h, e)
         \/ \E h \in Handlers : Quiet(h)
         \/ \E h \in Handlers : LogAuditEvent(h)
         \/ Crash
<1>1. ASSUME NEW h \in Handlers, Request(h)
      PROVE  \/ \E e, tables : Mutated(h, e, tables)
             \/ \E e : EntryOK(e) /\ e.action = "CREATE_ASSIGNMENT" /\ Free(h) /\ Refused(h, e)
             \/ Quiet(h)
  <2>1. ASSUME NEW b, NEW p
        PROVE  LET e == Entry("CREATE_ASSIGNMENT", b, New("assignment"),
                              [bundle |-> b, principal |-> p])
               IN  EntryOK(e) /\ e.action = "CREATE_ASSIGNMENT"
    BY EntryFields DEF EntryOK
  <2>. QED
    BY <1>1, <2>1, Mutations, QuietSteps
<1>. QED
  BY <1>1, QuietSteps DEF AdminNext

(* An assignment keeps its row.                                            *)
LEMMA AssignmentRows ==
  ASSUME NEW e, NEW as, NEW i \in DOMAIN AssignmentsAfter(as, e)
  PROVE  \/ i \in DOMAIN as /\ AssignmentsAfter(as, e)[i] = as[i]
         \/ /\ e.action = "CREATE_ASSIGNMENT" /\ i = e.id
            /\ AssignmentsAfter(as, e)[i] = e.value
  BY DEF AssignmentsAfter, Row, Rows

LEMMA OwnerNext ==
  ASSUME AdminShape, OwnerInv, AdminNext
  PROVE  OwnerInv'
<1>0. given \in [Numbers -> Nat] /\ given["assignment"] \in Nat
  BY DEF AdminShape, Numbers
<1>r. PICK rows : RowsOK(rows)
  BY DEF OwnerInv
<1>1. /\ \A i \in DOMAIN db.assignments :
           i \in 1 .. given["assignment"] /\ db.assignments[i] = rows[i]
      /\ \A i \in DOMAIN told.assignments :
           i \in 1 .. given["assignment"] /\ told.assignments[i] = rows[i]
      /\ \A g \in Handlers : handler[g].pc = "log" =>
           /\ (handler[g].entry.action = "CREATE_ASSIGNMENT" /\ handler[g].success) =>
                /\ handler[g].entry.id \in 1 .. given["assignment"]
                /\ rows[handler[g].entry.id] = handler[g].entry.value
           /\ handler[g].entry.action = "DELETE_ASSIGNMENT" =>
                /\ handler[g].entry.id \in 1 .. given["assignment"]
                /\ rows[handler[g].entry.id].bundle = handler[g].entry.about
  BY <1>r DEF RowsOK
<1>2. ASSUME NEW h \in Handlers, NEW e, NEW tables, Mutated(h, e, tables) PROVE OwnerInv'
  <2>1. /\ \A g \in Handlers : g # h => handler'[g] = handler[g]
        /\ handler'[h].entry = e /\ (db' = db \/ db' = tables)
    BY <1>2, MutatedEffect
  <2>2. /\ told' = told /\ tables.assignments = AssignmentsAfter(db.assignments, e)
        /\ IF e.action = "CREATE_ASSIGNMENT"
           THEN e.id = given["assignment"] + 1 /\ given'["assignment"] = e.id
           ELSE given'["assignment"] = given["assignment"]
        /\ e.action = "DELETE_ASSIGNMENT" =>
             \/ e.id \in DOMAIN db.assignments /\ e.about = db.assignments[e.id].bundle
             \/ e.id \in DOMAIN told.assignments /\ e.about = told.assignments[e.id].bundle
    BY <1>2 DEF Mutated
  <2>3. PICK more : more = [i \in 1 .. given'["assignment"] |->
                              IF e.action = "CREATE_ASSIGNMENT" /\ i = e.id THEN e.value ELSE rows[i]]
    OBVIOUS
  <2>4. /\ \A i \in 1 .. given["assignment"] : i \in 1 .. given'["assignment"] /\ more[i] = rows[i]
        /\ e.action = "CREATE_ASSIGNMENT" =>
             (e.id \in 1 .. given'["assignment"] /\ more[e.id] = e.value)
    BY <1>0, <2>2, <2>3
  <2>5. \A i \in DOMAIN db'.assignments :
          i \in 1 .. given'["assignment"] /\ db'.assignments[i] = more[i]
    <3>1. CASE db' = db
      BY <1>1, <2>4, <3>1
    <3>2. CASE db' = tables
      BY <1>1, <2>2, <2>4, <3>2, AssignmentRows
    <3>. QED
      BY <2>1, <3>1, <3>2
  <2>6. \A i \in DOMAIN told'.assignments :
          i \in 1 .. given'["assignment"] /\ told'.assignments[i] = more[i]
    BY <1>1, <2>2, <2>4
  <2>7. ASSUME NEW g \in Handlers, handler'[g].pc = "log"
        PROVE  /\ (handler'[g].entry.action = "CREATE_ASSIGNMENT" /\ handler'[g].success) =>
                    /\ handler'[g].entry.id \in 1 .. given'["assignment"]
                    /\ more[handler'[g].entry.id] = handler'[g].entry.value
               /\ handler'[g].entry.action = "DELETE_ASSIGNMENT" =>
                    /\ handler'[g].entry.id \in 1 .. given'["assignment"]
                    /\ more[handler'[g].entry.id].bundle = handler'[g].entry.about
    <3>1. CASE g = h
      <4>1. e.action = "DELETE_ASSIGNMENT" =>
              (e.id \in 1 .. given["assignment"] /\ rows[e.id].bundle = e.about)
        BY <1>1, <2>2
      <4>. QED
        BY <2>1, <2>4, <3>1, <4>1
    <3>2. CASE g # h
      BY <1>1, <2>1, <2>4, <2>7, <3>2
    <3>. QED
      BY <3>1, <3>2
  <2>8. RowsOK(more)'
    BY <2>5, <2>6, <2>7 DEF RowsOK
  <2>. QED
    BY <2>8 DEF OwnerInv
<1>3. ASSUME UNCHANGED told, given'["assignment"] = given["assignment"],
             db'.assignments = db.assignments,
             \A g \in Handlers : handler'[g].pc = "log" =>
               \/ handler'[g] = handler[g]
               \/ handler'[g].entry.action = "CREATE_ASSIGNMENT" /\ ~handler'[g].success
      PROVE  OwnerInv'
  <2>1. RowsOK(rows)'
    BY <1>1, <1>3 DEF RowsOK
  <2>. QED
    BY <2>1 DEF OwnerInv
<1>4. ASSUME NEW h \in Handlers, NEW e, EntryOK(e), e.action = "CREATE_ASSIGNMENT",
             Free(h), Refused(h, e)
      PROVE  OwnerInv'
  <2>1. /\ UNCHANGED <<db, given, told>> /\ \A g \in Handlers : g # h => handler'[g] = handler[g]
        /\ handler'[h].entry = e /\ handler'[h].success = FALSE
    BY <1>4, RefusedEffect
  <2>. QED
    BY <1>3, <1>4, <2>1
<1>5. ASSUME NEW h \in Handlers, Quiet(h) PROVE OwnerInv'
  <2>1. db'.assignments = db.assignments
    <3>. DEFINE ss == db'.sources
                rs == db'.revisions
    <3>1. db' = [bundles |-> db.bundles, assignments |-> db.assignments, sources |-> ss,
                 revisions |-> rs]
      BY <1>5 DEF Quiet
    <3>. HIDE DEF ss, rs
    <3>. QED
      BY <3>1
  <2>2. handler'[h].pc # "log"
    BY <1>5 DEF Quiet, Idle, IsPublish
  <2>. QED
    BY <1>3, <1>5, <2>1, <2>2 DEF Quiet
<1>6. ASSUME NEW h \in Handlers, LogAuditEvent(h) PROVE OwnerInv'
  <2>. DEFINE e == handler[h].entry
  <2>1. /\ handler[h].pc = "log" /\ \A g \in Handlers : g # h => handler'[g] = handler[g]
        /\ handler'[h].pc # "log" /\ UNCHANGED <<db, given>>
        /\ \/ UNCHANGED told
           \/ handler[h].success /\ told'.assignments = AssignmentsAfter(told.assignments, e)
    <3>. DEFINE bs == BundlesAfter(told.bundles, e)
                as == AssignmentsAfter(told.assignments, e)
    <3>1. /\ handler[h].pc = "log" /\ \A g \in Handlers : g # h => handler'[g] = handler[g]
          /\ handler'[h] = Idle
          /\ UNCHANGED told \/ (handler[h].success /\ told' = [bundles |-> bs, assignments |-> as])
      BY <1>6, RecordEffect
    <3>2. UNCHANGED <<db, given>>
      BY <1>6 DEF LogAuditEvent
    <3>. HIDE DEF bs, e
    <3>3. told' = [bundles |-> bs, assignments |-> as] => told'.assignments = as
      OBVIOUS
    <3>. QED
      BY <3>1, <3>2, <3>3 DEF Idle
  <2>. HIDE DEF e
  <2>2. (e.action = "CREATE_ASSIGNMENT" /\ handler[h].success) =>
          (e.id \in 1 .. given["assignment"] /\ rows[e.id] = e.value)
    BY <1>1, <2>1 DEF e
  <2>3. \A i \in DOMAIN told'.assignments :
          i \in 1 .. given["assignment"] /\ told'.assignments[i] = rows[i]
    <3>1. CASE UNCHANGED told
      BY <1>1, <3>1
    <3>2. CASE handler[h].success /\ told'.assignments = AssignmentsAfter(told.assignments, e)
      BY <1>1, <2>2, <3>2, AssignmentRows
    <3>. QED
      BY <2>1, <3>1, <3>2
  <2>4. RowsOK(rows)'
    BY <1>1, <2>1, <2>3 DEF RowsOK
  <2>. QED
    BY <2>4 DEF OwnerInv
<1>7. CASE Crash
  BY <1>3, <1>7 DEF Crash, Idle
<1>. QED
  BY <1>2, <1>4, <1>5, <1>6, <1>7, AdminSteps

(* A step that leaves what there is of a bundle, in the tables and in the  *)
(* trail, and the records that are missing about it.                       *)
LEMMA ToldSame ==
  ASSUME NEW b, ToldOf(b),
         Has(db'.bundles, b) = Has(db.bundles, b),
         Own(db'.assignments, b) = Own(db.assignments, b),
         Has(told'.bundles, b) = Has(told.bundles, b),
         Own(told'.assignments, b) = Own(told.assignments, b),
         \A g \in Handlers : Pending(g, b) => EntryOK(handler[g].entry),
         \A g \in Handlers : /\ Pending(g, b)' <=> Pending(g, b)
                             /\ Pending(g, b) => handler'[g].entry = handler[g].entry
  PROVE  ToldOf(b)'
<1>1. ASSUME \A h \in Handlers : ~Pending(h, b)'
      PROVE  Agree(told.bundles, told.assignments, b)'
  BY <1>1 DEF ToldOf, Agree
<1>2. ASSUME NEW h \in Handlers, Pending(h, b)'
      PROVE  /\ \A g \in Handlers : Pending(g, b)' => g = h
             /\ Agree(BundlesAfter(told.bundles, handler[h].entry),
                      AssignmentsAfter(told.assignments, handler[h].entry), b)'
  <2>. DEFINE e == handler[h].entry
  <2>1. /\ Pending(h, b) /\ EntryOK(e) /\ handler'[h].entry = e /\ e.about = b
        /\ \A g \in Handlers : Pending(g, b) => g = h
        /\ Agree(BundlesAfter(told.bundles, e), AssignmentsAfter(told.assignments, e), b)
    BY <1>2 DEF ToldOf, Pending
  <2>. HIDE DEF e
  <2>2. /\ Has(BundlesAfter(told'.bundles, e), b) = Has(BundlesAfter(told.bundles, e), b)
        /\ Own(AssignmentsAfter(told'.assignments, e), b) = Own(AssignmentsAfter(told.assignments, e), b)
    BY <2>1, SameTold
  <2>. QED
    BY <2>1, <2>2 DEF Agree
<1>. QED
  BY <1>1, <1>2 DEF ToldOf

LEMMA ToldNext ==
  ASSUME TrailInv, AdminNext
  PROVE  ToldInv'
<1>0. /\ AdminShape /\ OwnerInv /\ \A b : b \notin dubious => ToldOf(b)
      /\ \A g \in Handlers : handler[g].pc = "log" => EntryOK(handler[g].entry)
  BY DEF TrailInv, ToldInv, AdminShape, Idle, IsLog, IsPublish
<1>o. \A b : \A g \in Handlers : Pending(g, b) => EntryOK(handler[g].entry)
  BY <1>0 DEF Pending
<1>r. PICK rows : /\ \A i \in DOMAIN db.assignments :
                       i \in 1 .. given["assignment"] /\ db.assignments[i] = rows[i]
                  /\ \A i \in DOMAIN told.assignments :
                       i \in 1 .. given["assignment"] /\ told.assignments[i] = rows[i]
                  /\ \A g \in Handlers : handler[g].pc = "log" =>
                       /\ (handler[g].entry.action = "CREATE_ASSIGNMENT" /\ handler[g].success) =>
                            /\ handler[g].entry.id \in 1 .. given["assignment"]
                            /\ rows[handler[g].entry.id] = handler[g].entry.value
                       /\ handler[g].entry.action = "DELETE_ASSIGNMENT" =>
                            /\ handler[g].entry.id \in 1 .. given["assignment"]
                            /\ rows[handler[g].entry.id].bundle = handler[g].entry.about
  BY <1>0 DEF OwnerInv, RowsOK
<1>p. ASSUME NEW b, NEW h \in Handlers, ~Pending(h, b), ~Pending(h, b)',
             \A g \in Handlers : g # h => handler'[g] = handler[g]
      PROVE  \A g \in Handlers : /\ Pending(g, b)' <=> Pending(g, b)
                                 /\ Pending(g, b) => handler'[g].entry = handler[g].entry
  BY <1>p DEF Pending
<1>1. ASSUME NEW b, b \notin dubious', NEW h \in Handlers, NEW e, NEW tables, Mutated(h, e, tables)
      PROVE  ToldOf(b)'
  <2>1. /\ EntryOK(e) /\ told' = told
        /\ tables.bundles = BundlesAfter(db.bundles, e)
        /\ tables.assignments = AssignmentsAfter(db.assignments, e)
        /\ e.action = "CREATE_ASSIGNMENT" => e.id = given["assignment"] + 1
        /\ e.action = "DELETE_ASSIGNMENT" =>
             \/ e.id \in DOMAIN db.assignments /\ e.about = db.assignments[e.id].bundle
             \/ e.id \in DOMAIN told.assignments /\ e.about = told.assignments[e.id].bundle
    BY <1>1 DEF Mutated
  <2>2. /\ \A g \in Handlers : g # h => handler'[g] = handler[g]
        /\ IsLog(handler'[h]) /\ handler'[h].entry = e /\ handler[h].pc = "idle"
        /\ \/ /\ handler'[h].success = TRUE /\ db' = tables
              /\ dubious' = IF Unlogged(e.about) THEN dubious \cup {e.about} ELSE dubious
           \/ /\ handler'[h].success = FALSE /\ db' \in {db, tables}
              /\ dubious' = dubious \cup {e.about}
    BY <1>0, <1>1, MutatedEffect
  <2>3. ToldOf(b)
    BY <1>0, <1>1, <2>2
  <2>4. CASE b = e.about
    <3>1. /\ handler'[h].success = TRUE /\ db' = tables /\ ~Unlogged(b)
          /\ \A g \in Handlers : ~Pending(g, b)
      BY <1>1, <2>2, <2>4 DEF Unlogged, Pending
    <3>2. Agree(told.bundles, told.assignments, b)
      BY <2>3, <3>1 DEF ToldOf
    <3>3. Pending(h, b)' /\ \A g \in Handlers : Pending(g, b)' => g = h
      BY <2>2, <2>4, <3>1 DEF Pending, IsLog
    <3>4. /\ Has(tables.bundles, b) = Has(BundlesAfter(told.bundles, e), b)
          /\ Own(tables.assignments, b) = Own(AssignmentsAfter(told.assignments, e), b)
      BY <2>1, <2>4, <3>2, SameTold DEF Agree
    <3>5. Agree(BundlesAfter(told.bundles, handler[h].entry),
                AssignmentsAfter(told.assignments, handler[h].entry), b)'
      BY <2>1, <2>2, <3>1, <3>4 DEF Agree
    <3>. QED
      BY <3>3, <3>5 DEF ToldOf
  <2>5. CASE b # e.about
    <3>1. e.action \in {"CREATE_ASSIGNMENT", "DELETE_ASSIGNMENT"} /\ e.id \in DOMAIN db.assignments
            => db.assignments[e.id].bundle = e.about
      <4>1. given["assignment"] \in Nat
        BY <1>0 DEF AdminShape, Numbers
      <4>. QED
        BY <1>r, <2>1, <4>1
    <3>2. /\ Has(db'.bundles, b) = Has(db.bundles, b)
          /\ Own(db'.assignments, b) = Own(db.assignments, b)
      BY <2>1, <2>2, <2>5, <3>1, OthersUnchanged
    <3>3. ~Pending(h, b) /\ ~Pending(h, b)'
      BY <2>2, <2>5 DEF Pending
    <3>. QED
      BY <1>o, <1>p, <2>1, <2>2, <2>3, <3>2, <3>3, ToldSame
  <2>. QED
    BY <2>4, <2>5
<1>2. ASSUME NEW b, b \notin dubious', NEW h \in Handlers, NEW e, EntryOK(e), Free(h), Refused(h, e)
      PROVE  ToldOf(b)'
  <2>1. /\ UNCHANGED <<db, told, dubious>> /\ handler[h].pc = "idle"
        /\ \A g \in Handlers : g # h => handler'[g] = handler[g]
        /\ handler'[h].success = FALSE
    BY <1>0, <1>2, RefusedEffect
  <2>2. ~Pending(h, b) /\ ~Pending(h, b)' /\ ToldOf(b)
    BY <1>0, <1>2, <2>1 DEF Pending
  <2>. QED
    BY <1>o, <1>p, <2>1, <2>2, ToldSame
<1>3. ASSUME NEW b, b \notin dubious', NEW h \in Handlers, Quiet(h)
      PROVE  ToldOf(b)'
  <2>1. /\ UNCHANGED <<told, dubious>> /\ \A g \in Handlers : g # h => handler'[g] = handler[g]
        /\ handler[h].pc # "log" /\ handler'[h].pc # "log"
    BY <1>3 DEF Quiet, Idle, IsPublish
  <2>2. db'.bundles = db.bundles /\ db'.assignments = db.assignments
    <3>. DEFINE ss == db'.sources
                rs == db'.revisions
    <3>1. db' = [bundles |-> db.bundles, assignments |-> db.assignments, sources |-> ss,
                 revisions |-> rs]
      BY <1>3 DEF Quiet
    <3>. HIDE DEF ss, rs
    <3>. QED
      BY <3>1
  <2>3. ~Pending(h, b) /\ ~Pending(h, b)' /\ ToldOf(b)
    BY <1>0, <1>3, <2>1 DEF Pending
  <2>. QED
    BY <1>o, <1>p, <2>1, <2>2, <2>3, ToldSame
<1>4. ASSUME NEW b, b \notin dubious', NEW h \in Handlers, LogAuditEvent(h)
      PROVE  ToldOf(b)'
  <2>. DEFINE e == handler[h].entry
              bs == BundlesAfter(told.bundles, e)
              as == AssignmentsAfter(told.assignments, e)
  <2>1. /\ handler[h].pc = "log" /\ EntryOK(e) /\ handler'[h] = Idle
        /\ \A g \in Handlers : g # h => handler'[g] = handler[g]
        /\ \/ /\ told' = IF handler[h].success THEN [bundles |-> bs, assignments |-> as] ELSE told
              /\ UNCHANGED dubious
           \/ UNCHANGED told /\ dubious' = dubious \cup {e.about}
    BY <1>0, <1>4, RecordEffect
  <2>2. UNCHANGED db
    BY <1>4 DEF LogAuditEvent
  <2>3. ToldOf(b) /\ ~Pending(h, b)' /\ (Pending(h, b) <=> handler[h].success /\ e.about = b)
    BY <1>0, <1>4, <2>1 DEF Pending, Idle
  <2>4. (e.action = "CREATE_ASSIGNMENT" /\ handler[h].success) =>
          (e.id \in 1 .. given["assignment"] /\ rows[e.id] = e.value)
    BY <1>r, <2>1
  <2>5. e.action = "DELETE_ASSIGNMENT" =>
          (e.id \in 1 .. given["assignment"] /\ rows[e.id].bundle = e.about)
    BY <1>r, <2>1
  <2>. HIDE DEF e, bs, as
  <2>6. CASE handler[h].success /\ told' = [bundles |-> bs, assignments |-> as] /\ e.about = b
    <3>1. Agree(bs, as, b) /\ \A g \in Handlers : Pending(g, b) => g = h
      BY <2>3, <2>6 DEF ToldOf, e, bs, as
    <3>2. \A g \in Handlers : ~Pending(g, b)'
      BY <2>1, <2>3, <3>1 DEF Pending
    <3>3. Agree(told.bundles, told.assignments, b)'
      BY <2>2, <2>6, <3>1 DEF Agree
    <3>. QED
      BY <3>2, <3>3 DEF ToldOf
  <2>7. CASE handler[h].success /\ told' = [bundles |-> bs, assignments |-> as] /\ e.about # b
    <3>1. e.action \in {"CREATE_ASSIGNMENT", "DELETE_ASSIGNMENT"} /\ e.id \in DOMAIN told.assignments
            => told.assignments[e.id].bundle = e.about
      BY <1>r, <2>1, <2>4, <2>5, <2>7 DEF EntryOK
    <3>2. Has(bs, b) = Has(told.bundles, b) /\ Own(as, b) = Own(told.assignments, b)
      BY <2>1, <2>7, <3>1, OthersUnchanged DEF bs, as
    <3>3. told'.bundles = bs /\ told'.assignments = as
      BY <2>7
    <3>4. ~Pending(h, b)
      BY <2>3, <2>7
    <3>. QED
      BY <1>o, <1>p, <2>1, <2>2, <2>3, <3>2, <3>3, <3>4, ToldSame
  <2>8. CASE UNCHANGED told /\ ~Pending(h, b)
    BY <1>o, <1>p, <2>1, <2>2, <2>3, <2>8, ToldSame
  <2>9. UNCHANGED told /\ dubious' = dubious \cup {e.about} => ~Pending(h, b)
    BY <1>4, <2>3
  <2>. QED
    BY <2>1, <2>3, <2>6, <2>7, <2>8, <2>9
<1>5. ASSUME NEW b, b \notin dubious', Crash
      PROVE  ToldOf(b)'
  <2>1. /\ UNCHANGED <<db, told>> /\ b \notin dubious
        /\ \A g \in Handlers : handler[g].pc = "log" => handler[g].entry.about # b
        /\ \A g \in Handlers : handler'[g].pc # "log"
    BY <1>5 DEF Crash, Idle
  <2>2. ToldOf(b) /\ (\A g \in Handlers : ~Pending(g, b)) /\ \A g \in Handlers : ~Pending(g, b)'
    BY <1>0, <2>1 DEF Pending
  <2>. QED
    BY <2>1, <2>2 DEF ToldOf, Agree
<1>. QED
  BY <1>0, <1>1, <1>2, <1>3, <1>4, <1>5, AdminSteps DEF ToldInv

LEMMA TrailTold ==
  ASSUME TrailInv
  PROVE  TrailTellsBundles
<1>1. SUFFICES ASSUME NEW b \in (DOMAIN db.bundles \cup DOMAIN told.bundles) \ dubious, ~Unlogged(b)
               PROVE  /\ b \in DOMAIN db.bundles \cap DOMAIN told.bundles
                      /\ db.bundles[b] = told.bundles[b]
                      /\ Own(db.assignments, b) = Own(told.assignments, b)
  BY DEF TrailTellsBundles, Own, Rows
<1>2. \A h \in Handlers : ~Pending(h, b)
  BY <1>1 DEF Unlogged, Pending
<1>3. Agree(told.bundles, told.assignments, b)
  BY <1>1, <1>2 DEF TrailInv, ToldInv, ToldOf
<1>4. /\ DOMAIN Has(db.bundles, b) = {x \in DOMAIN db.bundles : x = b}
      /\ DOMAIN Has(told.bundles, b) = {x \in DOMAIN told.bundles : x = b}
      /\ b \in DOMAIN db.bundles => Has(db.bundles, b)[b] = db.bundles[b]
      /\ b \in DOMAIN told.bundles => Has(told.bundles, b)[b] = told.bundles[b]
  BY DEF Has
<1>. QED
  BY <1>1, <1>3, <1>4 DEF Agree

LEMMA TrailInit ==
  ASSUME AdminInit
  PROVE  TrailInv
<1>1. AdminShape
  BY BoundsAssumption DEF AdminInit, AdminShape, Numbers
<1>2. OwnerInv
  <2>1. RowsOK(NoRows)
    BY DEF AdminInit, NoRows, RowsOK, Idle
  <2>. QED
    BY <2>1 DEF OwnerInv
<1>3. ASSUME NEW b PROVE ToldOf(b)
  BY DEF AdminInit, ToldOf, Agree, Pending, Idle
<1>. QED
  BY <1>1, <1>2, <1>3 DEF TrailInv, ToldInv

\* However the handlers interleave, and whatever fails, the audit trail tells each bundle that
\* no fault and no overlap has touched as the tables have it (LogAuditEvent after each mutation).
THEOREM TrailIsComplete == AdminSpec => []TrailTellsBundles
<1>1. AdminInit => TrailInv
  BY TrailInit
<1>2. TrailInv /\ [AdminNext]_adminVars => TrailInv'
  <2>1. ASSUME TrailInv, AdminNext PROVE TrailInv'
    BY <2>1, ShapeNext, OwnerNext, ToldNext DEF TrailInv
  <2>2. ASSUME TrailInv, UNCHANGED adminVars PROVE TrailInv'
    BY <2>2 DEF adminVars, TrailInv, AdminShape, OwnerInv, RowsOK, ToldInv, ToldOf, Agree, Pending
  <2>. QED
    BY <2>1, <2>2
<1>3. TrailInv => TrailTellsBundles
  BY TrailTold
<1>. QED
  BY <1>1, <1>2, <1>3, PTL DEF AdminSpec

-----------------------------------------------------------------------------
(* Revisions: a step that publishes nothing.                               *)
Kept ==
  /\ given \in [Numbers -> Nat] /\ given' \in [Numbers -> Nat]
  /\ \A k \in Numbers : given'[k] >= given[k]
  /\ \A b \in DOMAIN db'.bundles :
       /\ b \in 1 .. given'["bundle"] /\ db'.bundles[b] \in 1 .. given'["content"]
       /\ b \in DOMAIN db.bundles => db'.bundles[b] >= db.bundles[b]
       /\ b \notin DOMAIN db.bundles => b > given["bundle"]
  /\ \A r \in DOMAIN db'.revisions :
       /\ r \in DOMAIN db.revisions /\ db'.revisions[r] = db.revisions[r]
       /\ db'.revisions[r].bundle \in DOMAIN db'.bundles
  /\ \A r \in DOMAIN db.revisions :
       db.revisions[r].bundle \in DOMAIN db'.bundles => r \in DOMAIN db'.revisions
  /\ returned' = returned

LEMMA KeptUnchanged ==
  ASSUME AdminShape, TablesOK, db'.bundles = db.bundles, db'.revisions = db.revisions,
         given' \in [Numbers -> Nat], \A k \in Numbers : given'[k] >= given[k],
         returned' = returned
  PROVE  Kept
<1>1. /\ given \in [Numbers -> Nat]
      /\ \A b \in DOMAIN db.bundles :
           b \in 1 .. given["bundle"] /\ db.bundles[b] \in 1 .. given["content"]
      /\ \A r \in DOMAIN db.revisions : db.revisions[r].bundle \in DOMAIN db.bundles
  BY DEF AdminShape, TablesOK, BundlesOK, RevisionsOK
<1>2. /\ given["bundle"] \in Nat /\ given'["bundle"] \in Nat /\ given'["bundle"] >= given["bundle"]
      /\ given["content"] \in Nat /\ given'["content"] \in Nat /\ given'["content"] >= given["content"]
  BY <1>1 DEF Numbers
<1>3. \A b \in DOMAIN db.bundles :
        /\ b \in 1 .. given'["bundle"] /\ db.bundles[b] \in 1 .. given'["content"]
        /\ db.bundles[b] >= db.bundles[b]
  BY <1>1, <1>2
<1>. QED
  BY <1>1, <1>3 DEF Kept

LEMMA KeptMutated ==
  ASSUME AdminShape, TablesOK, NEW h \in Handlers, NEW e, NEW tables, Mutated(h, e, tables)
  PROVE  Kept
<1>0. given \in [Numbers -> Nat]
  BY DEF AdminShape
<1>1. /\ EntryOK(e) /\ returned' = returned
      /\ tables.bundles = BundlesAfter(db.bundles, e)
      /\ tables.revisions = IF e.action = "DELETE_BUNDLE"
                            THEN Rows(db.revisions, LAMBDA i : db.revisions[i].bundle # e.id)
                            ELSE db.revisions
      /\ given' \in [Numbers -> Nat] /\ \A k \in Numbers : given'[k] >= given[k]
      /\ e.action = "CREATE_BUNDLE" => e.id = given["bundle"] + 1 /\ given'["bundle"] = e.id
      /\ e.action \in {"CREATE_BUNDLE", "UPDATE_BUNDLE"} =>
           e.value = given["content"] + 1 /\ given'["content"] = e.value
  BY DEF Mutated
<1>2. /\ given["bundle"] \in Nat /\ given'["bundle"] \in Nat /\ given'["bundle"] >= given["bundle"]
      /\ given["content"] \in Nat /\ given'["content"] \in Nat /\ given'["content"] >= given["content"]
  BY <1>0, <1>1 DEF Numbers
<1>3. /\ \A b \in DOMAIN db.bundles :
           b \in 1 .. given["bundle"] /\ db.bundles[b] \in 1 .. given["content"]
      /\ \A r \in DOMAIN db.revisions : db.revisions[r].bundle \in DOMAIN db.bundles
  BY DEF TablesOK, BundlesOK, RevisionsOK
<1>4. CASE db' = db
  BY <1>1, <1>4, KeptUnchanged
<1>5. CASE db' = tables
  <2>1. \A b \in DOMAIN tables.bundles :
          \/ b \in DOMAIN db.bundles /\ tables.bundles[b] = db.bundles[b]
          \/ /\ e.action = "CREATE_BUNDLE" /\ b = e.id /\ tables.bundles[b] = e.value
          \/ /\ e.action = "UPDATE_BUNDLE" /\ b \in DOMAIN db.bundles /\ tables.bundles[b] = e.value
    BY <1>1 DEF BundlesAfter, Row, Rows
  <2>2. \A b \in DOMAIN tables.bundles :
          /\ b \in 1 .. given'["bundle"] /\ tables.bundles[b] \in 1 .. given'["content"]
          /\ b \in DOMAIN db.bundles => tables.bundles[b] >= db.bundles[b]
          /\ b \notin DOMAIN db.bundles => b > given["bundle"]
    BY <1>1, <1>2, <1>3, <2>1
  <2>3. \A b \in DOMAIN db.bundles :
          b \in DOMAIN tables.bundles <=> ~(e.action = "DELETE_BUNDLE" /\ b = e.id)
    BY <1>1 DEF BundlesAfter, Row, Rows
  <2>4. /\ \A r : r \in DOMAIN tables.revisions <=>
                    /\ r \in DOMAIN db.revisions
                    /\ ~(e.action = "DELETE_BUNDLE" /\ db.revisions[r].bundle = e.id)
        /\ \A r \in DOMAIN tables.revisions : tables.revisions[r] = db.revisions[r]
    BY <1>1 DEF Rows
  <2>. QED
    BY <1>0, <1>1, <1>3, <1>5, <2>2, <2>3, <2>4 DEF Kept
<1>. QED
  BY <1>4, <1>5, MutatedEffect

LEMMA KeptTables ==
  ASSUME TablesOK, Kept
  PROVE  TablesOK' /\ \A x : PublisherOK(x) => PublisherOK(x)'
<1>1. /\ given["bundle"] \in Nat /\ given'["bundle"] \in Nat /\ given'["bundle"] >= given["bundle"]
      /\ given["revision"] \in Nat /\ given'["revision"] \in Nat
      /\ given'["revision"] >= given["revision"]
      /\ given["content"] \in Nat /\ given'["content"] \in Nat
      /\ given["time"] \in Nat /\ given'["time"] \in Nat /\ given'["time"] >= given["time"]
  BY DEF Kept, Numbers
<1>2. BundlesOK'
  BY DEF Kept, BundlesOK
<1>3. RevisionsOK'
  <2>1. SUFFICES ASSUME NEW r \in DOMAIN db'.revisions
                 PROVE  /\ r \in 1 .. given'["revision"]
                        /\ db'.revisions[r] \in [bundle : DOMAIN db'.bundles,
                             status : {"draft", "published"}, snapshot : Nat,
                             publishedAt : 0 .. given'["time"]]
                        /\ db'.revisions[r].snapshot <= db'.bundles[db'.revisions[r].bundle]
    BY DEF RevisionsOK, Snapshot
  <2>. DEFINE row == db.revisions[r]
  <2>2. /\ r \in DOMAIN db.revisions /\ db'.revisions[r] = row /\ row.bundle \in DOMAIN db'.bundles
        /\ r \in 1 .. given["revision"]
        /\ row \in [bundle : DOMAIN db.bundles, status : {"draft", "published"},
                    snapshot : Nat, publishedAt : 0 .. given["time"]]
        /\ row.snapshot <= db.bundles[row.bundle]
    BY <2>1 DEF Kept, TablesOK, RevisionsOK, Snapshot
  <2>3. /\ db'.bundles[row.bundle] \in Nat /\ db'.bundles[row.bundle] >= db.bundles[row.bundle]
        /\ db.bundles[row.bundle] \in Nat
    BY <1>1, <2>2 DEF Kept, TablesOK, BundlesOK
  <2>. HIDE DEF row
  <2>. QED
    BY <1>1, <2>2, <2>3
<1>4. ReturnedOK'
  BY <1>1 DEF Kept, TablesOK, ReturnedOK
<1>5. ASSUME NEW x, PublisherOK(x) PROVE PublisherOK(x)'
  <2>1. x.bundle \in 1 .. given'["bundle"] /\ x.snapshot \in Nat
    BY <1>1, <1>5 DEF PublisherOK
  <2>2. x.bundle \in DOMAIN db'.bundles => x.snapshot <= db'.bundles[x.bundle]
    <3>1. x.bundle \in DOMAIN db'.bundles =>
            /\ x.bundle \in DOMAIN db.bundles
            /\ db'.bundles[x.bundle] \in Nat /\ db'.bundles[x.bundle] >= db.bundles[x.bundle]
            /\ x.snapshot <= db.bundles[x.bundle] /\ db.bundles[x.bundle] \in Nat
      BY <1>1, <1>5 DEF PublisherOK, Kept, TablesOK, BundlesOK
    <3>. QED
      BY <2>1, <3>1
  <2>3. x.pc \in {"clock", "publish"} =>
          /\ x.revision \in 1 .. given'["revision"]
          /\ x.revision \in DOMAIN db'.revisions =>
               /\ db'.revisions[x.revision].bundle = x.bundle
               /\ db'.revisions[x.revision].snapshot = x.snapshot
    BY <1>1, <1>5 DEF PublisherOK, Kept, Snapshot
  <2>4. x.pc = "publish" => x.now \in 1 .. given'["time"]
    BY <1>1, <1>5 DEF PublisherOK
  <2>. QED
    BY <2>1, <2>2, <2>3, <2>4 DEF PublisherOK, Snapshot
<1>. QED
  BY <1>2, <1>3, <1>4, <1>5 DEF TablesOK

LEMMA KeptPublished ==
  ASSUME Kept, NEW b
  PROVE  /\ PublishedOf(b)' = {} \/ PublishedOf(b)' = PublishedOf(b)
         /\ \A r \in PublishedOf(b)' : db'.revisions[r] = db.revisions[r]
<1>1. \A r \in PublishedOf(b)' : r \in PublishedOf(b) /\ db'.revisions[r] = db.revisions[r]
                                 /\ b \in DOMAIN db'.bundles
  BY DEF Kept, PublishedOf
<1>2. b \in DOMAIN db'.bundles => \A r \in PublishedOf(b) : r \in PublishedOf(b)'
  BY DEF Kept, PublishedOf
<1>. QED
  BY <1>1, <1>2

(* A bundle of which nothing is published keeps its order.                 *)
LEMMA SerialKept ==
  ASSUME NEW b, SerialOK(b),
         PublishedOf(b)' = {} \/ PublishedOf(b)' = PublishedOf(b),
         \A r \in PublishedOf(b)' : db'.revisions[r] = db.revisions[r],
         \A g \in Handlers : Publishing(g, b)' =>
           /\ Publishing(g, b)
           /\ \/ handler'[g] = handler[g]
              \/ /\ handler'[g].snapshot = handler[g].snapshot
                 /\ handler'[g].pc = "publish" =>
                      \A r \in PublishedOf(b)' : PublishedAt(r)' < handler'[g].now
  PROVE  SerialOK(b)'
<1>1. \A r \in PublishedOf(b)' : /\ r \in PublishedOf(b) /\ PublishedAt(r)' = PublishedAt(r)
                                 /\ Snapshot(r)' = Snapshot(r)
  BY DEF PublishedAt, Snapshot
<1>2. \A r, s \in PublishedOf(b)' : PublishedAt(r)' <= PublishedAt(s)' => Snapshot(r)' <= Snapshot(s)'
  BY <1>1 DEF SerialOK
<1>3. ASSUME PublishedOf(b)' # {} PROVE \E s \in PublishedOf(b)' : IsActive(s, b)'
  <2>1. PICK s \in PublishedOf(b) : IsActive(s, b)
    BY <1>3 DEF SerialOK
  <2>2. s \in PublishedOf(b)' /\ \A r \in PublishedOf(b)' : Precedes(r, s)'
    BY <1>1, <1>3, <2>1 DEF IsActive, Precedes, PublishedAt
  <2>. QED
    BY <2>2 DEF IsActive
<1>4. ASSUME NEW h \in Handlers, Publishing(h, b)'
      PROVE  /\ \A g \in Handlers : Publishing(g, b)' => g = h
             /\ \A r \in PublishedOf(b)' :
                  /\ Snapshot(r)' <= handler'[h].snapshot
                  /\ handler'[h].pc = "publish" => PublishedAt(r)' < handler'[h].now
  BY <1>1, <1>4 DEF SerialOK
<1>. QED
  BY <1>2, <1>3, <1>4 DEF SerialOK

LEMMA SerialSame ==
  ASSUME Kept, NEW b, SerialOK(b),
         \A g \in Handlers : Publishing(g, b)' => Publishing(g, b) /\ handler'[g] = handler[g]
  PROVE  SerialOK(b)'
  BY KeptPublished, SerialKept

LEMMA QuietTables ==
  ASSUME NEW h \in Handlers, Quiet(h)
  PROVE  db'.bundles = db.bundles /\ db'.assignments = db.assignments
<1>. DEFINE ss == db'.sources
            rs == db'.revisions
<1>1. db' = [bundles |-> db.bundles, assignments |-> db.assignments, sources |-> ss,
             revisions |-> rs]
  BY DEF Quiet
<1>. HIDE DEF ss, rs
<1>. QED
  BY <1>1

(* Whoever is no publisher takes no part.                                  *)
LEMMA BystanderStep ==
  ASSUME RevisionInv, Kept, AdminShape', UNCHANGED mixed,
         \A g \in Handlers : handler'[g].pc \in {"insert", "clock", "publish"} => handler'[g] = handler[g]
  PROVE  RevisionInv'
<1>1. TablesOK' /\ \A x : PublisherOK(x) => PublisherOK(x)'
  BY KeptTables DEF RevisionInv
<1>2. PublishersOK'
  BY <1>1 DEF RevisionInv, PublishersOK
<1>3. ASSUME NEW b, b \notin mixed' PROVE SerialOK(b)'
  <2>1. \A g \in Handlers : Publishing(g, b)' => Publishing(g, b) /\ handler'[g] = handler[g]
    BY DEF Publishing
  <2>. QED
    BY <1>3, <2>1, SerialSame DEF RevisionInv
<1>. QED
  BY <1>1, <1>2, <1>3 DEF RevisionInv

LEMMA CompileStep ==
  ASSUME RevisionInv, AdminShape', NEW h \in Handlers, NEW c \in DOMAIN db.bundles, CompileBundle(h, c)
  PROVE  RevisionInv'
<1>. DEFINE x == [pc |-> "insert", bundle |-> c, snapshot |-> db.bundles[c], revision |-> 0,
                  now |-> 0]
<1>0. AdminShape /\ TablesOK /\ PublishersOK /\ \A b : b \notin mixed => SerialOK(b)
  BY DEF RevisionInv
<1>1. handler' = [handler EXCEPT ![h] = x] /\ UNCHANGED <<db, given, returned>>
      /\ mixed' = IF \E g \in Handlers : Publishing(g, c) THEN mixed \cup {c} ELSE mixed
  BY DEF CompileBundle
<1>2. x.pc = "insert" /\ x.bundle = c /\ x.snapshot = db.bundles[c]
  OBVIOUS
<1>. HIDE DEF x
<1>3. handler'[h] = x /\ \A g \in Handlers : g # h => handler'[g] = handler[g]
  BY <1>0, <1>1, HandlerSet DEF AdminShape
<1>4. Kept
  <2>1. given' \in [Numbers -> Nat] /\ \A k \in Numbers : given'[k] >= given[k]
    BY <1>0, <1>1 DEF AdminShape
  <2>. QED
    BY <1>0, <1>1, <2>1, KeptUnchanged
<1>5. TablesOK' /\ \A y : PublisherOK(y) => PublisherOK(y)'
  BY <1>0, <1>4, KeptTables
<1>6. c \in 1 .. given["bundle"] /\ db.bundles[c] \in Nat /\ given["content"] \in Nat
  <2>1. given["content"] \in Nat
    BY <1>0 DEF AdminShape, Numbers
  <2>. QED
    BY <1>0, <2>1 DEF TablesOK, BundlesOK
<1>7. PublishersOK'
  <2>1. PublisherOK(x)
    BY <1>2, <1>6 DEF PublisherOK
  <2>2. \A g \in Handlers : handler'[g].pc \in {"insert", "clock", "publish"} =>
          PublisherOK(handler'[g])
    BY <1>0, <1>3, <2>1 DEF PublishersOK
  <2>3. \A g \in Handlers : handler'[g].pc \in {"insert", "clock", "publish"} =>
          PublisherOK(handler[g])'
    BY <1>1, <2>2 DEF PublisherOK, Snapshot
  <2>. QED
    BY <2>3 DEF PublishersOK
<1>8. ASSUME NEW b, b \notin mixed' PROVE SerialOK(b)'
  <2>1. SerialOK(b) /\ (b = c => \A g \in Handlers : ~Publishing(g, b))
    BY <1>0, <1>1, <1>8
  <2>2. CASE b # c
    <3>1. \A g \in Handlers : Publishing(g, b)' => Publishing(g, b) /\ handler'[g] = handler[g]
      BY <1>2, <1>3, <2>2 DEF Publishing
    <3>. QED
      BY <1>4, <2>1, <3>1, SerialSame
  <2>3. CASE b = c
    <3>1. \A g \in Handlers : Publishing(g, b)' => g = h
      BY <1>3, <2>1, <2>3 DEF Publishing
    <3>2. PublishedOf(b)' = PublishedOf(b)
      BY <1>1 DEF PublishedOf
    <3>3. \A r \in PublishedOf(b)' : Snapshot(r)' <= handler'[h].snapshot
      BY <1>0, <1>1, <1>2, <1>3, <2>3 DEF PublishedOf, TablesOK, RevisionsOK, Snapshot
    <3>4. handler'[h].pc # "publish"
      BY <1>2, <1>3
    <3>5. \A r, s \in PublishedOf(b)' : PublishedAt(r)' <= PublishedAt(s)' => Snapshot(r)' <= Snapshot(s)'
      BY <1>1, <2>1, <3>2 DEF SerialOK, PublishedAt, Snapshot
    <3>6. PublishedOf(b)' # {} => \E s \in PublishedOf(b)' : IsActive(s, b)'
      BY <1>1, <2>1, <3>2 DEF SerialOK, IsActive, Precedes
    <3>. QED
      BY <3>1, <3>3, <3>4, <3>5, <3>6 DEF SerialOK
  <2>. QED
    BY <2>2, <2>3
<1>. QED
  BY <1>5, <1>7, <1>8 DEF RevisionInv

LEMMA ReadClockStep ==
  ASSUME RevisionInv, AdminShape', NEW h \in Handlers, ReadClock(h)
  PROVE  RevisionInv'
<1>. DEFINE x == Timed(handler[h], New("time"))
<1>0. AdminShape /\ TablesOK /\ PublishersOK /\ \A b : b \notin mixed => SerialOK(b)
  BY DEF RevisionInv
<1>1. /\ handler[h].pc = "clock" /\ UNCHANGED <<db, returned, mixed>> /\ Give({"time"})
      /\ handler' = [handler EXCEPT ![h].pc = "publish", ![h].now = New("time")]
  BY DEF ReadClock
<1>2. IsPublish(handler[h]) /\ DOMAIN handler = Handlers
  BY <1>0, <1>1 DEF AdminShape, IsLog, Idle
<1>3. /\ x.pc = "publish" /\ x.bundle = handler[h].bundle /\ x.snapshot = handler[h].snapshot
      /\ x.revision = handler[h].revision /\ x.now = New("time")
  BY <1>2, PublishMoves
<1>4. handler' = [handler EXCEPT ![h] = x]
  BY <1>1, <1>2 DEF Timed
<1>. HIDE DEF x
<1>5. handler'[h] = x /\ \A g \in Handlers : g # h => handler'[g] = handler[g]
  BY <1>2, <1>4, HandlerSet
<1>6. /\ given' \in [Numbers -> Nat] /\ \A k \in Numbers : given'[k] >= given[k]
      /\ New("time") = given["time"] + 1 /\ given'["time"] = given["time"] + 1
      /\ given["time"] \in Nat
  BY <1>0, <1>1, Given DEF Numbers, AdminShape
<1>7. Kept
  BY <1>0, <1>1, <1>6, KeptUnchanged
<1>8. TablesOK' /\ \A y : PublisherOK(y) => PublisherOK(y)'
  BY <1>0, <1>7, KeptTables
<1>9. PublisherOK(handler[h])
  BY <1>0, <1>1 DEF PublishersOK
<1>10. PublishersOK'
  <2>1. PublisherOK(handler[h])'
    <3>1. /\ x.bundle \in 1 .. given'["bundle"] /\ x.snapshot \in Nat
          /\ x.bundle \in DOMAIN db'.bundles => x.snapshot <= db'.bundles[x.bundle]
          /\ x.revision \in 1 .. given'["revision"]
          /\ x.revision \in DOMAIN db'.revisions =>
               /\ db'.revisions[x.revision].bundle = x.bundle
               /\ db'.revisions[x.revision].snapshot = x.snapshot
      <4>1. given' = [given EXCEPT !["time"] = given["time"] + 1]
        BY <1>0, <1>1, <1>6 DEF Give, AdminShape, Numbers
      <4>2. given'["bundle"] = given["bundle"] /\ given'["revision"] = given["revision"]
        BY <1>0, <4>1 DEF AdminShape, Numbers
      <4>. QED
        BY <1>1, <1>3, <1>9, <4>2 DEF PublisherOK, Snapshot
    <3>2. x.now \in 1 .. given'["time"]
      BY <1>3, <1>6
    <3>. QED
      BY <1>5, <3>1, <3>2 DEF PublisherOK, Snapshot
  <2>2. \A g \in Handlers : (g # h /\ handler'[g].pc \in {"insert", "clock", "publish"}) =>
          PublisherOK(handler[g])'
    <3>1. ASSUME NEW g \in Handlers, g # h, handler'[g].pc \in {"insert", "clock", "publish"}
          PROVE  PublisherOK(handler[g])'
      <4>1. PICK y : y = handler[g]
        OBVIOUS
      <4>2. PublisherOK(y) /\ y = handler'[g]
        BY <1>0, <1>5, <3>1, <4>1 DEF PublishersOK
      <4>3. PublisherOK(y)'
        BY <1>8, <4>2
      <4>. QED
        BY <4>2, <4>3 DEF PublisherOK
    <3>. QED
      BY <3>1
  <2>. QED
    BY <2>1, <2>2 DEF PublishersOK
<1>11. ASSUME NEW b, b \notin mixed' PROVE SerialOK(b)'
  <2>1. SerialOK(b)
    BY <1>0, <1>1, <1>11
  <2>2. \A r \in PublishedOf(b)' : PublishedAt(r)' < x.now
    BY <1>0, <1>1, <1>3, <1>6 DEF PublishedOf, PublishedAt, TablesOK, RevisionsOK
  <2>3. \A g \in Handlers : Publishing(g, b)' =>
          /\ Publishing(g, b)
          /\ \/ handler'[g] = handler[g]
             \/ /\ handler'[g].snapshot = handler[g].snapshot
                /\ handler'[g].pc = "publish" =>
                     \A r \in PublishedOf(b)' : PublishedAt(r)' < handler'[g].now
    BY <1>1, <1>3, <1>5, <2>2 DEF Publishing
  <2>. QED
    BY <1>7, <2>1, <2>3, KeptPublished, SerialKept
<1>. QED
  BY <1>8, <1>10, <1>11 DEF RevisionInv

LEMMA CreateRevisionStep ==
  ASSUME RevisionInv, AdminShape', NEW h \in Handlers, CreateRevision(h)
  PROVE  RevisionInv'
<1>. DEFINE r == New("revision")
            x == Inserted(handler[h], r)
            row == Draft(h)
            rs == Row(db.revisions, r, row)
<1>0. AdminShape /\ TablesOK /\ PublishersOK /\ \A b : b \notin mixed => SerialOK(b)
  BY DEF RevisionInv
<1>1. /\ handler[h].pc = "insert" /\ UNCHANGED mixed
      /\ \/ /\ handler[h].bundle \in DOMAIN db.bundles /\ Give({"revision"})
            /\ db' = [db EXCEPT !.revisions = rs] /\ returned' = returned
            /\ \/ handler' = [handler EXCEPT ![h].pc = "clock", ![h].revision = r]
               \/ handler' = [handler EXCEPT ![h] = Idle]
         \/ UNCHANGED <<db, given, returned>> /\ handler' = [handler EXCEPT ![h] = Idle]
  BY DEF CreateRevision, PublishFails
<1>2. IsPublish(handler[h]) /\ DOMAIN handler = Handlers
  BY <1>0, <1>1 DEF AdminShape, IsLog, Idle
<1>3. /\ x.pc = "clock" /\ x.bundle = handler[h].bundle /\ x.snapshot = handler[h].snapshot
      /\ x.revision = r
  BY <1>2, PublishMoves
<1>4. handler' = [handler EXCEPT ![h].pc = "clock", ![h].revision = r]
        => handler' = [handler EXCEPT ![h] = x]
  BY <1>2 DEF Inserted
<1>. HIDE DEF x
<1>5. /\ \A g \in Handlers : g # h => handler'[g] = handler[g]
      /\ handler'[h] = Idle \/ handler'[h] = x
  BY <1>1, <1>2, <1>4, HandlerSet
<1>6. CASE UNCHANGED <<db, given, returned>> /\ handler' = [handler EXCEPT ![h] = Idle]
  <2>1. given' \in [Numbers -> Nat] /\ \A k \in Numbers : given'[k] >= given[k]
    BY <1>0, <1>6 DEF AdminShape
  <2>2. Kept
    BY <1>0, <1>6, <2>1, KeptUnchanged
  <2>3. handler'[h] = Idle
    BY <1>2, <1>6, HandlerSet
  <2>. QED
    BY <1>1, <1>5, <2>2, <2>3, BystanderStep DEF Idle
<1>7. CASE /\ handler[h].bundle \in DOMAIN db.bundles /\ Give({"revision"})
           /\ db' = [db EXCEPT !.revisions = rs] /\ returned' = returned
  <2>1. /\ row = [bundle |-> handler[h].bundle, status |-> "draft", snapshot |-> handler[h].snapshot,
                  publishedAt |-> 0]
        /\ row.bundle = handler[h].bundle /\ row.status = "draft"
        /\ row.snapshot = handler[h].snapshot /\ row.publishedAt = 0
    BY DEF Draft
  <2>2. /\ r = given["revision"] + 1 /\ given'["revision"] = r /\ given["revision"] \in Nat
        /\ \A k \in Numbers : k # "revision" => given'[k] = given[k]
        /\ given' \in [Numbers -> Nat] /\ given'["time"] = given["time"] /\ given["time"] \in Nat
    BY <1>0, <1>7, Given DEF Numbers, AdminShape
  <2>. HIDE DEF row
  <2>3. DOMAIN rs = DOMAIN db.revisions \cup {r} /\ rs[r] = row
        /\ \A i \in DOMAIN db.revisions : i # r => rs[i] = db.revisions[i]
    BY DEF Row
  <2>. HIDE DEF rs, r
  <2>4. db'.bundles = db.bundles /\ db'.revisions = rs
    BY <1>0, <1>7 DEF AdminShape
  <2>5. PublisherOK(handler[h])
    BY <1>0, <1>1 DEF PublishersOK
  <2>6. /\ r \notin DOMAIN db.revisions /\ r \notin returned /\ r \in 1 .. given'["revision"]
        /\ \A i : i \in 1 .. given["revision"] => i \in 1 .. given'["revision"] /\ i # r
    BY <1>0, <2>2 DEF TablesOK, RevisionsOK, ReturnedOK
  <2>7. BundlesOK'
    BY <1>0, <2>2, <2>4 DEF TablesOK, BundlesOK, Numbers
  <2>8. RevisionsOK'
    <3>1. ASSUME NEW i \in DOMAIN rs
          PROVE  /\ i \in 1 .. given'["revision"]
                 /\ rs[i] \in [bundle : DOMAIN db.bundles, status : {"draft", "published"},
                               snapshot : Nat, publishedAt : 0 .. given'["time"]]
                 /\ rs[i].snapshot <= db.bundles[rs[i].bundle]
      <4>1. CASE i = r
        <5>1. row \in [bundle : DOMAIN db.bundles, status : {"draft", "published"},
                       snapshot : Nat, publishedAt : 0 .. given'["time"]]
          BY <1>7, <2>1, <2>2, <2>5 DEF PublisherOK
        <5>2. row.snapshot <= db.bundles[row.bundle]
          BY <1>7, <2>1, <2>5 DEF PublisherOK
        <5>. QED
          BY <2>3, <2>6, <4>1, <5>1, <5>2
      <4>2. CASE i # r
        BY <1>0, <2>2, <2>3, <2>6, <3>1, <4>2 DEF TablesOK, RevisionsOK, Snapshot
      <4>. QED
        BY <4>1, <4>2
    <3>. QED
      BY <2>4, <3>1 DEF RevisionsOK, Snapshot
  <2>9. ReturnedOK'
    BY <1>0, <1>7, <2>3, <2>4, <2>6 DEF TablesOK, ReturnedOK
  <2>10. ASSUME NEW y, PublisherOK(y) PROVE PublisherOK(y)'
    BY <2>2, <2>3, <2>4, <2>6, <2>10 DEF PublisherOK, Snapshot, Numbers
  <2>11. PublisherOK(handler[h])' \/ handler'[h] = Idle
    <3>1. ASSUME handler'[h] = x
          PROVE  /\ x.bundle \in 1 .. given'["bundle"] /\ x.snapshot \in Nat
                 /\ x.bundle \in DOMAIN db'.bundles => x.snapshot <= db'.bundles[x.bundle]
                 /\ x.revision \in 1 .. given'["revision"]
                 /\ db'.revisions[x.revision].bundle = x.bundle
                 /\ db'.revisions[x.revision].snapshot = x.snapshot
                 /\ x.pc # "publish"
      <4>1. given'["bundle"] = given["bundle"]
        BY <2>2 DEF Numbers
      <4>2. x.revision = r
        BY <1>3 DEF r
      <4>. QED
        BY <1>3, <2>1, <2>3, <2>4, <2>5, <2>6, <4>1, <4>2 DEF PublisherOK
    <3>. QED
      BY <1>5, <3>1 DEF PublisherOK, Snapshot
  <2>12. PublishersOK'
    <3>1. ASSUME NEW g \in Handlers, g # h, handler'[g].pc \in {"insert", "clock", "publish"}
          PROVE  PublisherOK(handler[g])'
      <4>1. PICK y : y = handler[g]
        OBVIOUS
      <4>2. PublisherOK(y) /\ y = handler'[g]
        BY <1>0, <1>5, <3>1, <4>1 DEF PublishersOK
      <4>3. PublisherOK(y)'
        BY <2>10, <4>2
      <4>. QED
        BY <4>2, <4>3 DEF PublisherOK
    <3>. QED
      BY <2>11, <3>1 DEF PublishersOK, Idle
  <2>13. ASSUME NEW b, b \notin mixed' PROVE SerialOK(b)'
    <3>1. PublishedOf(b)' = PublishedOf(b)
          /\ \A i \in PublishedOf(b)' : db'.revisions[i] = db.revisions[i]
      <4>1. \A i : i \in PublishedOf(b)' <=> i \in PublishedOf(b)
        BY <2>1, <2>3, <2>4, <2>6 DEF PublishedOf
      <4>2. PublishedOf(b)' = PublishedOf(b)
        BY <4>1 DEF PublishedOf
      <4>. QED
        BY <2>3, <2>4, <2>6, <4>2 DEF PublishedOf
    <3>2. \A g \in Handlers : Publishing(g, b)' =>
            /\ Publishing(g, b)
            /\ \/ handler'[g] = handler[g]
               \/ handler'[g].snapshot = handler[g].snapshot /\ handler'[g].pc # "publish"
      BY <1>1, <1>3, <1>5 DEF Publishing, Idle
    <3>3. SerialOK(b)
      BY <1>0, <1>1, <2>13
    <3>. QED
      BY <3>1, <3>2, <3>3, SerialKept
  <2>. QED
    BY <2>7, <2>8, <2>9, <2>12, <2>13 DEF RevisionInv, TablesOK
<1>. QED
  BY <1>1, <1>6, <1>7

LEMMA RevisionPublished ==
  ASSUME NEW B, NEW T, NEW now \in T,
         NEW row \in [bundle : B, status : {"draft", "published"}, snapshot : Nat, publishedAt : T]
  PROVE  LET x == [row EXCEPT !.status = "published", !.publishedAt = now] IN
         /\ x \in [bundle : B, status : {"draft", "published"}, snapshot : Nat, publishedAt : T]
         /\ x.bundle = row.bundle /\ x.snapshot = row.snapshot
         /\ x.status = "published" /\ x.publishedAt = now
  OBVIOUS

LEMMA PublishRevisionStep ==
  ASSUME RevisionInv, AdminShape', NEW h \in Handlers, PublishRevision(h)
  PROVE  RevisionInv'
<1>. DEFINE r == handler[h].revision
            now == handler[h].now
            rs == [i \in DOMAIN db.revisions |->
                     IF i = r THEN [db.revisions[i] EXCEPT !.status = "published", !.publishedAt = now]
                     ELSE db.revisions[i]]
<1>0. AdminShape /\ TablesOK /\ PublishersOK /\ \A b : b \notin mixed => SerialOK(b)
  BY DEF RevisionInv
<1>1. /\ handler[h].pc = "publish" /\ UNCHANGED <<mixed, given>>
      /\ handler' = [handler EXCEPT ![h] = Idle]
  BY DEF PublishRevision, PublishFails
<1>d. \/ /\ db' = [db EXCEPT !.revisions = rs]
         /\ returned' \in {returned, IF r \in DOMAIN db.revisions THEN returned \cup {r} ELSE returned}
      \/ db' = db /\ returned' = returned
  <2>1. \/ /\ db' = [db EXCEPT !.revisions = rs]
           /\ returned' = IF r \in DOMAIN db.revisions THEN returned \cup {r} ELSE returned
        \/ db' = [db EXCEPT !.revisions = rs] /\ returned' = returned
        \/ db' = db /\ returned' = returned
    BY DEF PublishRevision, PublishFails
  <2>. HIDE DEF rs, r
  <2>. QED
    BY <2>1
<1>2. DOMAIN handler = Handlers /\ given \in [Numbers -> Nat]
  BY <1>0 DEF AdminShape
<1>3. handler'[h] = Idle /\ \A g \in Handlers : g # h => handler'[g] = handler[g]
  BY <1>1, <1>2, HandlerSet
<1>4. PublisherOK(handler[h])
  BY <1>0, <1>1 DEF PublishersOK
<1>5. /\ r \in 1 .. given["revision"] /\ now \in 1 .. given["time"] /\ now \in 0 .. given["time"]
      /\ r \in DOMAIN db.revisions =>
           /\ db.revisions[r].bundle = handler[h].bundle
           /\ db.revisions[r].snapshot = handler[h].snapshot
  <2>1. given["time"] \in Nat
    BY <1>2 DEF Numbers
  <2>. QED
    BY <1>1, <1>4, <2>1 DEF PublisherOK, Snapshot
<1>6. CASE db' = db /\ returned' = returned
  <2>1. given' \in [Numbers -> Nat] /\ \A k \in Numbers : given'[k] >= given[k]
    BY <1>1, <1>2
  <2>2. Kept
    BY <1>0, <1>6, <2>1, KeptUnchanged
  <2>. QED
    BY <1>1, <1>3, <2>2, BystanderStep DEF Idle
<1>7. CASE /\ db' = [db EXCEPT !.revisions = rs]
           /\ returned' \in {returned, IF r \in DOMAIN db.revisions THEN returned \cup {r} ELSE returned}
  <2>1. ASSUME NEW i \in DOMAIN db.revisions
        PROVE  /\ rs[i] \in [bundle : DOMAIN db.bundles, status : {"draft", "published"},
                             snapshot : Nat, publishedAt : 0 .. given["time"]]
               /\ rs[i].bundle = db.revisions[i].bundle /\ rs[i].snapshot = db.revisions[i].snapshot
               /\ i = r => rs[i].status = "published" /\ rs[i].publishedAt = now
               /\ i # r => rs[i] = db.revisions[i]
    <3>1. db.revisions[i] \in [bundle : DOMAIN db.bundles, status : {"draft", "published"},
                               snapshot : Nat, publishedAt : 0 .. given["time"]]
      BY <1>0 DEF TablesOK, RevisionsOK
    <3>2. CASE i # r
      BY <3>1, <3>2
    <3>3. CASE i = r
      <4>. DEFINE row == db.revisions[i]
      <4>1. rs[i] = [row EXCEPT !.status = "published", !.publishedAt = now]
        BY <3>3
      <4>. DEFINE x == [row EXCEPT !.status = "published", !.publishedAt = now]
      <4>. HIDE DEF rs, row, now
      <4>2. row \in [bundle : DOMAIN db.bundles, status : {"draft", "published"},
                     snapshot : Nat, publishedAt : 0 .. given["time"]]
        BY <3>1 DEF row
      <4>3. /\ x \in [bundle : DOMAIN db.bundles, status : {"draft", "published"},
                      snapshot : Nat, publishedAt : 0 .. given["time"]]
            /\ x.bundle = row.bundle /\ x.snapshot = row.snapshot
            /\ x.status = "published" /\ x.publishedAt = now
        BY <1>5, <4>2, RevisionPublished
      <4>. HIDE DEF x
      <4>4. rs[i] = x
        BY <4>1 DEF x
      <4>. QED
        BY <3>3, <4>3, <4>4 DEF row
    <3>. QED
      BY <3>2, <3>3
  <2>2. DOMAIN rs = DOMAIN db.revisions
    OBVIOUS
  <2>. HIDE DEF rs, r, now
  <2>3. db'.bundles = db.bundles /\ db'.revisions = rs
    BY <1>0, <1>7 DEF AdminShape
  <2>4. BundlesOK'
    BY <1>0, <1>1, <2>3 DEF TablesOK, BundlesOK
  <2>5. RevisionsOK'
    BY <1>0, <1>1, <2>1, <2>2, <2>3 DEF TablesOK, RevisionsOK, Snapshot
  <2>6. ReturnedOK'
    BY <1>0, <1>1, <1>5, <1>7, <2>1, <2>2, <2>3 DEF TablesOK, ReturnedOK
  <2>7. ASSUME NEW y, PublisherOK(y) PROVE PublisherOK(y)'
    BY <1>1, <2>1, <2>2, <2>3, <2>7 DEF PublisherOK, Snapshot
  <2>8. PublishersOK'
    <3>1. ASSUME NEW g \in Handlers, handler'[g].pc \in {"insert", "clock", "publish"}
          PROVE  PublisherOK(handler[g])'
      <4>1. PICK y : y = handler[g]
        OBVIOUS
      <4>2. PublisherOK(y) /\ y = handler'[g]
        BY <1>0, <1>3, <3>1, <4>1 DEF PublishersOK, Idle
      <4>3. PublisherOK(y)'
        BY <2>7, <4>2
      <4>. QED
        BY <4>2, <4>3 DEF PublisherOK
    <3>. QED
      BY <3>1 DEF PublishersOK
  <2>9. ASSUME NEW b, b \notin mixed', b = handler[h].bundle, r \in DOMAIN db.revisions
        PROVE  SerialOK(b)'
    <3>1. SerialOK(b) /\ Publishing(h, b)
      BY <1>0, <1>1, <2>9 DEF Publishing
    <3>2. \A s \in PublishedOf(b) : PublishedAt(s) < now /\ Snapshot(s) <= Snapshot(r)
      BY <1>1, <1>5, <2>9, <3>1 DEF SerialOK, Snapshot, r, now
    <3>. DEFINE P == PublishedOf(b)
                TimeOf(s) == db.revisions[s].publishedAt
                ContentOf(s) == db.revisions[s].snapshot
    <3>3. /\ now \in Nat /\ ContentOf(r) \in Nat
          /\ \A s \in P : /\ TimeOf(s) \in Nat /\ ContentOf(s) \in Nat
                         /\ TimeOf(s) < now /\ ContentOf(s) <= ContentOf(r)
          /\ \A s, t \in P : TimeOf(s) <= TimeOf(t) => ContentOf(s) <= ContentOf(t)
      BY <1>0, <1>5, <2>9, <3>1, <3>2
         DEF TablesOK, RevisionsOK, PublishedOf, PublishedAt, Snapshot, SerialOK
    <3>4. /\ r \in DOMAIN rs /\ rs[r].bundle = b /\ rs[r].status = "published"
          /\ rs[r].publishedAt = now /\ rs[r].snapshot = ContentOf(r)
      BY <1>5, <2>1, <2>2, <2>9
    <3>5. \A s \in DOMAIN rs : (s # r /\ rs[s].bundle = b /\ rs[s].status = "published") =>
            s \in P /\ rs[s].publishedAt = TimeOf(s) /\ rs[s].snapshot = ContentOf(s)
      BY <2>1, <2>2 DEF PublishedOf
    <3>. HIDE DEF P, TimeOf, ContentOf
    <3>6. PublishedOf(b)' = {s \in DOMAIN rs : rs[s].bundle = b /\ rs[s].status = "published"}
      BY <2>3 DEF PublishedOf
    <3>7. /\ \A s, t \in PublishedOf(b)' :
               rs[s].publishedAt <= rs[t].publishedAt => rs[s].snapshot <= rs[t].snapshot
          /\ r \in PublishedOf(b)'
          /\ \A s \in PublishedOf(b)' : rs[s].publishedAt <= rs[r].publishedAt
      <4>1. ASSUME NEW s \in PublishedOf(b)'
            PROVE  /\ s \in DOMAIN rs
                   /\ \/ s = r /\ rs[s].publishedAt = now /\ rs[s].snapshot = ContentOf(r)
                      \/ s \in P /\ rs[s].publishedAt = TimeOf(s) /\ rs[s].snapshot = ContentOf(s)
        BY <3>4, <3>5, <3>6
      <4>2. ASSUME NEW s \in PublishedOf(b)', NEW t \in PublishedOf(b)',
                   rs[s].publishedAt <= rs[t].publishedAt
            PROVE  rs[s].snapshot <= rs[t].snapshot
        BY <3>3, <4>1, <4>2
      <4>3. r \in PublishedOf(b)'
        BY <3>4, <3>6
      <4>. QED
        BY <3>3, <3>4, <4>1, <4>2, <4>3
    <3>8. \A g \in Handlers : ~Publishing(g, b)'
      BY <1>3, <3>1 DEF SerialOK, Publishing, Idle
    <3>. QED
      BY <2>3, <3>7, <3>8 DEF SerialOK, IsActive, Precedes, PublishedAt, Snapshot
  <2>10. ASSUME NEW b, b \notin mixed', b # handler[h].bundle \/ r \notin DOMAIN db.revisions
         PROVE  SerialOK(b)'
    <3>1. SerialOK(b)
      BY <1>0, <1>1, <2>10
    <3>2. \A s \in DOMAIN db.revisions : db.revisions[s].bundle = b => s # r
      BY <1>5, <2>10
    <3>3. \A s : s \in PublishedOf(b)' <=> s \in PublishedOf(b)
      BY <2>1, <2>2, <2>3, <3>2 DEF PublishedOf
    <3>4. PublishedOf(b)' = PublishedOf(b)
      BY <3>3 DEF PublishedOf
    <3>5. \A s \in PublishedOf(b)' : db'.revisions[s] = db.revisions[s]
      BY <2>1, <2>3, <3>2, <3>4 DEF PublishedOf
    <3>6. \A g \in Handlers : Publishing(g, b)' => Publishing(g, b) /\ handler'[g] = handler[g]
      BY <1>3 DEF Publishing, Idle
    <3>. QED
      BY <3>1, <3>4, <3>5, <3>6, SerialKept
  <2>11. \A b : b \notin mixed' => SerialOK(b)'
    BY <2>9, <2>10
  <2>. QED
    BY <2>4, <2>5, <2>6, <2>8, <2>11 DEF RevisionInv, TablesOK
<1>. QED
  BY <1>d, <1>6, <1>7

LEMMA RevisionInit ==
  ASSUME AdminInit
  PROVE  RevisionInv
<1>1. AdminShape
  BY TrailInit DEF TrailInv
<1>2. TablesOK
  BY DEF AdminInit, NoRows, TablesOK, BundlesOK, RevisionsOK, ReturnedOK
<1>3. PublishersOK
  BY DEF AdminInit, PublishersOK, Idle
<1>4. ASSUME NEW b PROVE SerialOK(b)
  BY DEF AdminInit, NoRows, SerialOK, PublishedOf, Publishing, Idle
<1>. QED
  BY <1>1, <1>2, <1>3, <1>4 DEF RevisionInv

(* A step either publishes nothing or is one of a PublishBundle.           *)
Bystanding ==
  /\ Kept /\ UNCHANGED mixed
  /\ \A g \in Handlers : handler'[g].pc \in {"insert", "clock", "publish"} => handler'[g] = handler[g]

LEMMA RevisionSteps ==
  ASSUME RevisionInv, AdminNext
  PROVE  \/ Bystanding
         \/ \E h \in Handlers : \/ \E c \in DOMAIN db.bundles : CompileBundle(h, c)
                                \/ CreateRevision(h) \/ ReadClock(h) \/ PublishRevision(h)
<1>0. /\ AdminShape /\ TablesOK /\ given \in [Numbers -> Nat]
      /\ \A k \in Numbers : given[k] >= given[k]
  <2>1. AdminShape /\ TablesOK
    BY DEF RevisionInv
  <2>2. given \in [Numbers -> Nat]
    BY <2>1 DEF AdminShape
  <2>3. \A k \in Numbers : given[k] >= given[k]
    BY <2>2
  <2>. QED
    BY <2>1, <2>2, <2>3
<1>1. ASSUME NEW h \in Handlers, NEW e, NEW tables, Mutated(h, e, tables) PROVE Bystanding
  <2>1. Kept
    BY <1>0, <1>1, KeptMutated
  <2>2. \A g \in Handlers : handler'[g].pc \in {"insert", "clock", "publish"} =>
          handler'[g] = handler[g]
    BY <1>0, <1>1, MutatedEffect DEF IsLog
  <2>3. UNCHANGED mixed
    BY <1>1 DEF Mutated
  <2>. QED
    BY <2>1, <2>2, <2>3 DEF Bystanding
<1>2. ASSUME NEW h \in Handlers, NEW e, EntryOK(e), Free(h), Refused(h, e) PROVE Bystanding
  <2>1. /\ UNCHANGED <<db, given, returned, mixed>> /\ IsLog(handler'[h])
        /\ \A g \in Handlers : g # h => handler'[g] = handler[g]
    BY <1>0, <1>2, RefusedEffect DEF Free
  <2>2. Kept
    BY <1>0, <2>1, KeptUnchanged
  <2>3. \A g \in Handlers : handler'[g].pc \in {"insert", "clock", "publish"} =>
          handler'[g] = handler[g]
    BY <2>1 DEF IsLog
  <2>. QED
    BY <2>1, <2>2, <2>3 DEF Bystanding
<1>3. ASSUME NEW h \in Handlers, NEW i \in DOMAIN db.sources, ValidateSource(h, i) PROVE Bystanding
  <2>1. UNCHANGED <<given, handler, returned, mixed>>
    BY <1>3 DEF ValidateSource, Free
  <2>2. db'.bundles = db.bundles /\ db'.revisions = db.revisions
    <3>. DEFINE ss == [db.sources EXCEPT ![i].status = "validated"]
    <3>1. db' = [db EXCEPT !.sources = ss]
      BY <1>3 DEF ValidateSource
    <3>. HIDE DEF ss
    <3>. QED
      BY <1>0, <3>1 DEF AdminShape
  <2>3. Kept
    BY <1>0, <2>1, <2>2, KeptUnchanged
  <2>. QED
    BY <2>1, <2>3 DEF Bystanding
<1>4. ASSUME NEW h \in Handlers, LogAuditEvent(h) PROVE Bystanding
  <2>1. UNCHANGED <<db, given, returned, mixed>> /\ handler'[h] = Idle
        /\ \A g \in Handlers : g # h => handler'[g] = handler[g]
    BY <1>0, <1>4, RecordEffect DEF LogAuditEvent
  <2>2. Kept
    BY <1>0, <2>1, KeptUnchanged
  <2>. QED
    BY <2>1, <2>2 DEF Bystanding, Idle
<1>5. CASE Crash
  <2>1. UNCHANGED <<db, given, returned, mixed>> /\ \A g \in Handlers : handler'[g] = Idle
    BY <1>5 DEF Crash
  <2>2. Kept
    BY <1>0, <2>1, KeptUnchanged
  <2>. QED
    BY <2>1, <2>2 DEF Bystanding, Idle
<1>6. ASSUME NEW h \in Handlers, Request(h)
      PROVE  Bystanding \/ \E c \in DOMAIN db.bundles : CompileBundle(h, c)
  <2>1. ASSUME NEW b, NEW p
        PROVE  EntryOK(Entry("CREATE_ASSIGNMENT", b, New("assignment"), [bundle |-> b, principal |-> p]))
    BY EntryFields DEF EntryOK
  <2>. QED
    BY <1>0, <1>1, <1>2, <1>3, <1>6, <2>1, Mutations
<1>. QED
  BY <1>4, <1>5, <1>6 DEF AdminNext

LEMMA RevisionNext ==
  ASSUME RevisionInv, AdminNext
  PROVE  RevisionInv'
<1>1. AdminShape'
  BY ShapeNext DEF RevisionInv
<1>2. CASE Bystanding
  BY <1>1, <1>2, BystanderStep DEF Bystanding
<1>. QED
  BY <1>1, <1>2, RevisionSteps, CompileStep, CreateRevisionStep, ReadClockStep, PublishRevisionStep

LEMMA RevisionUnchanged ==
  ASSUME RevisionInv, UNCHANGED adminVars
  PROVE  RevisionInv'
  BY DEF adminVars, RevisionInv, AdminShape, TablesOK, BundlesOK, RevisionsOK, ReturnedOK,
         PublishersOK, PublisherOK, SerialOK, PublishedOf, PublishedAt, Snapshot, Publishing,
         IsActive, Precedes

\* A revision that was published stays outranked only by one of a newer content: every bundle of
\* a returned publish has an active revision no older, unless two publishes of it overlapped
\* (PublishBundle, GetActiveRevision).
THEOREM PublishedStaysActive == AdminSpec => []ActiveIsNewest
<1>1. AdminInit => RevisionInv
  BY RevisionInit
<1>2. RevisionInv /\ [AdminNext]_adminVars => RevisionInv'
  BY RevisionNext, RevisionUnchanged
<1>3. RevisionInv => ActiveIsNewest
  <2>1. SUFFICES ASSUME RevisionInv, NEW r \in returned \cap DOMAIN db.revisions,
                        db.revisions[r].bundle \notin mixed
                 PROVE  \E s \in PublishedOf(db.revisions[r].bundle) :
                          /\ IsActive(s, db.revisions[r].bundle)
                          /\ db.revisions[s].snapshot >= db.revisions[r].snapshot
    BY DEF ActiveIsNewest
  <2>. DEFINE b == db.revisions[r].bundle
  <2>2. SerialOK(b) /\ r \in PublishedOf(b)
    BY <2>1 DEF RevisionInv, TablesOK, ReturnedOK, PublishedOf
  <2>3. PICK s \in PublishedOf(b) : IsActive(s, b)
    BY <2>2 DEF SerialOK
  <2>4. PublishedAt(r) <= PublishedAt(s)
    BY <2>2, <2>3 DEF IsActive, Precedes, PublishedAt
  <2>5. Snapshot(r) <= Snapshot(s)
    BY <2>2, <2>3, <2>4 DEF SerialOK
  <2>6. Snapshot(r) \in Nat /\ Snapshot(s) \in Nat
    BY <2>1, <2>2, <2>3 DEF RevisionInv, TablesOK, RevisionsOK, PublishedOf, Snapshot
  <2>. QED
    BY <2>3, <2>5, <2>6 DEF Snapshot
<1>. QED
  BY <1>1, <1>2, <1>3, PTL DEF AdminSpec

(* The revision a PublishBundle has inserted is a draft of its own until   *)
(* it publishes it.                                                        *)
DraftsInv ==
  \A h \in Handlers : handler[h].pc \in {"clock", "publish"} =>
    /\ handler[h].revision \in DOMAIN db.revisions =>
         db.revisions[handler[h].revision].status = "draft"
    /\ \A g \in Handlers :
         handler[g].pc \in {"clock", "publish"} /\ handler[g].revision = handler[h].revision => g = h

\* what a step may do to the revisions
RevisionsAreFinal ==
  /\ \A r \in DOMAIN db.revisions \cap DOMAIN db'.revisions :
       /\ db'.revisions[r].bundle = db.revisions[r].bundle
       /\ db'.revisions[r].snapshot = db.revisions[r].snapshot
       /\ db.revisions[r].status = "published" => db'.revisions[r] = db.revisions[r]
  /\ \A r \in DOMAIN db.revisions \ DOMAIN db'.revisions :
       db.revisions[r].bundle \notin DOMAIN db'.bundles
  /\ \A r \in DOMAIN db'.revisions \ DOMAIN db.revisions :
       r \notin returned /\ db'.revisions[r].status = "draft"

LEMMA SameRevisions ==
  ASSUME UNCHANGED db
  PROVE  RevisionsAreFinal
  BY DEF RevisionsAreFinal

\* a handler that no longer publishes, or still publishes what it did
LEMMA SameDrafts ==
  ASSUME DraftsInv, NEW h \in Handlers,
         \A g \in Handlers : g # h => handler'[g] = handler[g],
         \/ handler'[h].pc \notin {"clock", "publish"}
         \/ handler[h].pc \in {"clock", "publish"} /\ handler'[h].revision = handler[h].revision,
         \A g \in Handlers :
           handler'[g].pc \in {"clock", "publish"} /\ handler'[g].revision \in DOMAIN db'.revisions =>
             /\ handler'[g].revision \in DOMAIN db.revisions
             /\ db'.revisions[handler'[g].revision].status
                  = db.revisions[handler'[g].revision].status
  PROVE  DraftsInv'
<1>1. \A g \in Handlers : handler'[g].pc \in {"clock", "publish"} =>
        handler[g].pc \in {"clock", "publish"} /\ handler'[g].revision = handler[g].revision
  OBVIOUS
<1>. QED
  BY <1>1 DEF DraftsInv

LEMMA BystandingDrafts ==
  ASSUME DraftsInv, Bystanding
  PROVE  DraftsInv' /\ RevisionsAreFinal
<1>1. RevisionsAreFinal
  BY DEF Bystanding, Kept, RevisionsAreFinal
<1>2. \A g \in Handlers : handler'[g].pc \in {"clock", "publish"} => handler'[g] = handler[g]
  BY DEF Bystanding
<1>3. \A r \in DOMAIN db'.revisions : r \in DOMAIN db.revisions /\ db'.revisions[r] = db.revisions[r]
  BY DEF Bystanding, Kept
<1>. QED
  BY <1>1, <1>2, <1>3 DEF DraftsInv

LEMMA CompileDrafts ==
  ASSUME RevisionInv, DraftsInv, NEW h \in Handlers, NEW c \in DOMAIN db.bundles, CompileBundle(h, c)
  PROVE  DraftsInv' /\ RevisionsAreFinal
<1>. DEFINE x == [pc |-> "insert", bundle |-> c, snapshot |-> db.bundles[c], revision |-> 0,
                  now |-> 0]
<1>1. handler' = [handler EXCEPT ![h] = x] /\ UNCHANGED db
  BY DEF CompileBundle
<1>2. x.pc = "insert"
  OBVIOUS
<1>. HIDE DEF x
<1>3. handler'[h] = x /\ \A g \in Handlers : g # h => handler'[g] = handler[g]
  BY <1>1, HandlerSet DEF RevisionInv, AdminShape
<1>. QED
  BY <1>1, <1>2, <1>3, SameDrafts, SameRevisions

LEMMA ReadClockDrafts ==
  ASSUME RevisionInv, DraftsInv, NEW h \in Handlers, ReadClock(h)
  PROVE  DraftsInv' /\ RevisionsAreFinal
<1>. DEFINE x == Timed(handler[h], New("time"))
<1>1. /\ handler[h].pc = "clock" /\ UNCHANGED db
      /\ handler' = [handler EXCEPT ![h].pc = "publish", ![h].now = New("time")]
  BY DEF ReadClock
<1>2. IsPublish(handler[h]) /\ DOMAIN handler = Handlers
  BY <1>1 DEF RevisionInv, AdminShape, IsLog, Idle
<1>3. x.revision = handler[h].revision
  BY <1>2, PublishMoves
<1>4. handler' = [handler EXCEPT ![h] = x]
  BY <1>1, <1>2 DEF Timed
<1>. HIDE DEF x
<1>5. handler'[h] = x /\ \A g \in Handlers : g # h => handler'[g] = handler[g]
  BY <1>2, <1>4, HandlerSet
<1>. QED
  BY <1>1, <1>3, <1>5, SameDrafts, SameRevisions

LEMMA CreateRevisionDrafts ==
  ASSUME RevisionInv, DraftsInv, NEW h \in Handlers, CreateRevision(h)
  PROVE  DraftsInv' /\ RevisionsAreFinal
<1>. DEFINE r == New("revision")
            x == Inserted(handler[h], r)
            row == Draft(h)
            rs == Row(db.revisions, r, row)
<1>0. AdminShape /\ TablesOK /\ PublishersOK
  BY DEF RevisionInv
<1>1. /\ handler[h].pc = "insert"
      /\ \/ /\ db' = [db EXCEPT !.revisions = rs]
            /\ \/ handler' = [handler EXCEPT ![h].pc = "clock", ![h].revision = r]
               \/ handler' = [handler EXCEPT ![h] = Idle]
         \/ UNCHANGED db /\ handler' = [handler EXCEPT ![h] = Idle]
  BY DEF CreateRevision, PublishFails
<1>2. IsPublish(handler[h]) /\ DOMAIN handler = Handlers
  BY <1>0, <1>1 DEF AdminShape, IsLog, Idle
<1>3. x.revision = r
  BY <1>2, PublishMoves
<1>4. handler' = [handler EXCEPT ![h].pc = "clock", ![h].revision = r]
        => (handler' = [handler EXCEPT ![h] = x])
  BY <1>2 DEF Inserted
<1>. HIDE DEF x
<1>5. /\ \A g \in Handlers : g # h => handler'[g] = handler[g]
      /\ handler'[h] = Idle \/ handler'[h] = x
  BY <1>1, <1>2, <1>4, HandlerSet
<1>6. UNCHANGED db => handler'[h] = Idle
  <2>1. CASE handler' = [handler EXCEPT ![h] = Idle]
    BY <1>2, <2>1, HandlerSet
  <2>2. CASE db' = [db EXCEPT !.revisions = rs]
    <3>1. db' # db
      <4>1. db'.revisions = rs /\ r \in DOMAIN rs
        BY <1>0, <2>2 DEF AdminShape, Row
      <4>2. r \notin DOMAIN db.revisions
        BY <1>0 DEF TablesOK, RevisionsOK, New, AdminShape, Numbers
      <4>. QED
        BY <4>1, <4>2
    <3>. QED
      BY <3>1
  <2>. QED
    BY <1>1, <2>1, <2>2
<1>7. CASE UNCHANGED db
  BY <1>5, <1>6, <1>7, SameDrafts, SameRevisions DEF Idle
<1>8. CASE db' = [db EXCEPT !.revisions = rs]
  <2>1. row.status = "draft"
    BY DEF Draft
  <2>2. /\ r \notin DOMAIN db.revisions /\ r \notin returned
        /\ \A i \in 1 .. given["revision"] : i # r
    <3>1. r = given["revision"] + 1 /\ given["revision"] \in Nat
      BY <1>0 DEF New, AdminShape, Numbers
    <3>. HIDE DEF r
    <3>2. \A i \in 1 .. given["revision"] : i # r
      BY <3>1
    <3>. QED
      BY <1>0, <3>2 DEF TablesOK, RevisionsOK, ReturnedOK
  <2>. HIDE DEF row
  <2>3. DOMAIN rs = DOMAIN db.revisions \cup {r} /\ rs[r] = row
        /\ \A i \in DOMAIN db.revisions : rs[i] = db.revisions[i]
    BY <2>2 DEF Row
  <2>. HIDE DEF rs, r
  <2>4. db'.revisions = rs
    BY <1>0, <1>8 DEF AdminShape
  <2>5. RevisionsAreFinal
    BY <2>1, <2>2, <2>3, <2>4 DEF RevisionsAreFinal
  <2>6. \A g \in Handlers : g # h /\ handler'[g].pc \in {"clock", "publish"} =>
          /\ handler[g].pc \in {"clock", "publish"} /\ handler'[g].revision = handler[g].revision
          /\ handler'[g].revision # r
    BY <1>0, <1>5, <2>2 DEF PublishersOK, PublisherOK
  <2>7. handler'[h].pc \in {"clock", "publish"} => handler'[h].revision = r
    BY <1>3, <1>5 DEF Idle
  <2>8. DraftsInv'
    BY <2>1, <2>3, <2>4, <2>6, <2>7 DEF DraftsInv
  <2>. QED
    BY <2>5, <2>8
<1>. QED
  BY <1>1, <1>7, <1>8

LEMMA PublishRevisionDrafts ==
  ASSUME RevisionInv, DraftsInv, NEW h \in Handlers, PublishRevision(h)
  PROVE  DraftsInv' /\ RevisionsAreFinal
<1>. DEFINE r == handler[h].revision
            now == handler[h].now
            rs == [i \in DOMAIN db.revisions |->
                     IF i = r THEN [db.revisions[i] EXCEPT !.status = "published", !.publishedAt = now]
                     ELSE db.revisions[i]]
<1>0. AdminShape /\ TablesOK
  BY DEF RevisionInv
<1>1. /\ handler[h].pc = "publish" /\ handler' = [handler EXCEPT ![h] = Idle]
      /\ db' = [db EXCEPT !.revisions = rs] \/ db' = db
  BY DEF PublishRevision, PublishFails
<1>2. handler'[h] = Idle /\ \A g \in Handlers : g # h => handler'[g] = handler[g]
  BY <1>0, <1>1, HandlerSet DEF AdminShape
<1>3. CASE db' = db
  BY <1>2, <1>3, SameDrafts, SameRevisions DEF Idle
<1>4. CASE db' = [db EXCEPT !.revisions = rs]
  <2>1. ASSUME NEW i \in DOMAIN db.revisions
        PROVE  /\ rs[i].bundle = db.revisions[i].bundle /\ rs[i].snapshot = db.revisions[i].snapshot
               /\ i # r => rs[i] = db.revisions[i]
    <3>1. CASE i # r
      BY <3>1
    <3>2. CASE i = r
      <4>. DEFINE row == db.revisions[i]
                  y == [row EXCEPT !.status = "published", !.publishedAt = now]
      <4>1. rs[i] = y
        BY <3>2
      <4>2. row \in [bundle : DOMAIN db.bundles, status : {"draft", "published"}, snapshot : Nat,
                     publishedAt : 0 .. given["time"]]
        BY <1>0 DEF TablesOK, RevisionsOK
      <4>. HIDE DEF rs, row, now
      <4>3. y.bundle = row.bundle /\ y.snapshot = row.snapshot
        BY <4>2
      <4>. QED
        BY <3>2, <4>1, <4>3 DEF row
    <3>. QED
      BY <3>1, <3>2
  <2>2. DOMAIN rs = DOMAIN db.revisions
    OBVIOUS
  <2>3. r \in DOMAIN db.revisions => db.revisions[r].status = "draft"
    BY <1>1 DEF DraftsInv
  <2>4. \A g \in Handlers : g # h /\ handler[g].pc \in {"clock", "publish"} =>
          handler[g].revision # r
    BY <1>1 DEF DraftsInv
  <2>. HIDE DEF rs, r, now
  <2>5. db'.revisions = rs
    BY <1>0, <1>4 DEF AdminShape
  <2>6. RevisionsAreFinal
    BY <2>1, <2>2, <2>3, <2>5 DEF RevisionsAreFinal
  <2>7. \A g \in Handlers :
          handler'[g].pc \in {"clock", "publish"} /\ handler'[g].revision \in DOMAIN db'.revisions =>
            /\ handler'[g].revision \in DOMAIN db.revisions
            /\ db'.revisions[handler'[g].revision] = db.revisions[handler'[g].revision]
    BY <1>2, <2>1, <2>2, <2>4, <2>5 DEF Idle
  <2>8. DraftsInv'
    BY <1>2, <2>7, SameDrafts DEF Idle
  <2>. QED
    BY <2>6, <2>8
<1>. QED
  BY <1>1, <1>3, <1>4

\* A revision is immutable but for its publication: no step moves it to another bundle or gives it
\* another snapshot, one that is published is never touched again, whatever publishes overlap, fail
\* or are retried, it goes only with its bundle, and a new one starts as a draft under an id that no
\* PublishBundle ever returned (CreateRevision, PublishRevision, DeleteBundle).
THEOREM PublishedIsFinal == AdminSpec => [][RevisionsAreFinal]_adminVars
<1>1. AdminInit => RevisionInv /\ DraftsInv
  BY RevisionInit DEF AdminInit, DraftsInv, Idle
<1>2. RevisionInv /\ DraftsInv /\ [AdminNext]_adminVars => RevisionInv' /\ DraftsInv'
  <2>1. UNCHANGED adminVars /\ DraftsInv => DraftsInv'
    BY DEF adminVars, DraftsInv
  <2>. QED
    BY <2>1, RevisionNext, RevisionUnchanged, RevisionSteps, BystandingDrafts, CompileDrafts,
       CreateRevisionDrafts, ReadClockDrafts, PublishRevisionDrafts
<1>3. RevisionInv /\ DraftsInv /\ [AdminNext]_adminVars => [RevisionsAreFinal]_adminVars
  BY RevisionSteps, BystandingDrafts, CompileDrafts, CreateRevisionDrafts, ReadClockDrafts,
     PublishRevisionDrafts
<1>. QED
  BY <1>1, <1>2, <1>3, PTL DEF AdminSpec

-----------------------------------------------------------------------------
(* Authorization: for all tools, profiles, configurations and tokens.      *)

(* Loads of the configuration and the catalog and runs of tools keep the   *)
(* types, and only a tool of the catalog is run (handleExecuteTool).       *)
THEOREM AuthorizationTypeInvariant == AuthorizationSpec => []TypeOK
<1>1. AuthorizationInit => TypeOK
  BY DEF AuthorizationInit, TypeOK
<1>2. TypeOK /\ [AuthorizationNext]_authorizationVars => TypeOK'
  <2>1. ASSUME TypeOK, NEW t \in Tools, NEW q \in Query, ExecuteTool(t, q)
        PROVE  TypeOK'
    <3>1. t \in catalog
      BY <2>1 DEF ExecuteTool, Verdict
    <3>2. QED
      BY <2>1, <3>1 DEF ExecuteTool, TypeOK
  <2>2. QED
    BY <2>1 DEF AuthorizationNext, ConfigChanges, CatalogChanges, authorizationVars, TypeOK
<1>3. QED
  BY <1>1, <1>2, PTL DEF AuthorizationSpec

(* What a tool of the envelope owes its place to (authorizedTools).        *)
LEMMA EnvelopeNames ==
  ASSUME NEW scopes \in Scopes, NEW t \in AuthorizedTools(scopes)
  PROVE  /\ \/ ServiceOf[t] \in scopes.bundles
            \/ t \in scopes.tools
            \/ \E p \in scopes.profiles : t \in AuthorizedProfileTools(p)
         /\ t \notin config.managedDeny \cup config.deny
BY DEF AuthorizedTools, Candidates, Explicit, Union

(* A tool that was run was named by the token and by no deny rule,         *)
(* whatever profile and mode the request chose.                            *)
THEOREM ScopesBound == AuthorizationSpec => []NothingBeyondScopes
<1>1. AuthorizationInit => NothingBeyondScopes
  BY DEF AuthorizationInit, NothingBeyondScopes
<1>2. TypeOK /\ NothingBeyondScopes /\ [AuthorizationNext]_authorizationVars => NothingBeyondScopes'
  <2> SUFFICES ASSUME TypeOK, NothingBeyondScopes, [AuthorizationNext]_authorizationVars
               PROVE  NothingBeyondScopes'
    OBVIOUS
  <2>1. CASE ConfigChanges \/ CatalogChanges
    BY <2>1 DEF ConfigChanges, CatalogChanges, NothingBeyondScopes
  <2>2. CASE UNCHANGED authorizationVars
    BY <2>2 DEF authorizationVars, NothingBeyondScopes, AuthorizedProfileTools, Configured
  <2>3. ASSUME NEW t \in Tools, NEW q \in Query, ExecuteTool(t, q)
        PROVE  NothingBeyondScopes'
    <3>1. config' = config /\ catalog' = catalog /\ token' = token /\ called' = called \cup {t}
      BY <2>3 DEF ExecuteTool
    <3>2. config.authEnabled => t \in AuthorizedTools(token)
      BY <2>3 DEF ExecuteTool, Verdict, Authorized
    <3>3. token \in Scopes
      BY AuthorizationAssumption DEF TypeOK
    <3>4. \A p : AuthorizedProfileTools(p)' = AuthorizedProfileTools(p)
      BY <3>1 DEF AuthorizedProfileTools, Configured
    <3>5. config.authEnabled =>
            /\ \/ ServiceOf[t] \in token.bundles
               \/ t \in token.tools
               \/ \E p \in token.profiles : t \in AuthorizedProfileTools(p)
            /\ t \notin config.managedDeny \cup config.deny
      BY <3>2, <3>3, EnvelopeNames
    <3>6. QED
      BY <3>1, <3>4, <3>5 DEF NothingBeyondScopes
  <2>4. QED
    BY <2>1, <2>2, <2>3 DEF AuthorizationNext
<1>3. QED
  BY <1>1, <1>2, AuthorizationTypeInvariant, PTL DEF AuthorizationSpec

(* authorizedTools computes the designed envelope unless every tool: scope *)
(* of the token names a tool that is gone from the catalog.                *)
THEOREM EnvelopeIsDesigned == AuthorizationSpec => []ResolvedEnvelopeFollowsDesign
<1>1. TypeOK => ResolvedEnvelopeFollowsDesign
  <2> SUFFICES ASSUME TypeOK, token.tools = {} \/ Explicit(token) # {}
               PROVE  AuthorizedTools(token) = DesignedEnvelope
    BY DEF ResolvedEnvelopeFollowsDesign
  <2>1. \A p : AuthorizedProfileTools(p) \subseteq catalog
    BY DEF AuthorizedProfileTools
  <2>2. \A t : t \in Union(token) <=>
          /\ t \in catalog
          /\ \/ ServiceOf[t] \in token.bundles
             \/ \E p \in token.profiles : t \in AuthorizedProfileTools(p)
    BY <2>1 DEF Union
  <2>3. ~HasUnion(token) => Union(token) = {}
    BY <2>2 DEF HasUnion
  <2>4. CASE token.tools = {}
    <3>1. Candidates(token) = Union(token)
      BY <2>4 DEF Candidates, Explicit
    <3>2. QED
      BY <2>2, <2>3, <2>4, <3>1 DEF AuthorizedTools, DesignedEnvelope
  <2>5. CASE Explicit(token) # {}
    <3>1. token.tools # {}
      BY <2>5 DEF Explicit
    <3>2. \A t : t \in Candidates(token) <=>
            t \in catalog /\ t \in token.tools /\ (HasUnion(token) => t \in Union(token))
      BY <2>5 DEF Candidates, Explicit
    <3>3. QED
      BY <2>2, <3>1, <3>2 DEF AuthorizedTools, DesignedEnvelope
  <2>6. QED
    BY <2>4, <2>5
<1>2. QED
  BY <1>1, AuthorizationTypeInvariant, PTL
(* The expansions of bundle: and profile: scopes grow with the scopes.     *)
LEMMA UnionIsMonotone ==
  ASSUME NEW small, NEW large,
         small.bundles \subseteq large.bundles,
         small.profiles \subseteq large.profiles
  PROVE  Union(small) \subseteq Union(large)
BY DEF Union

(* authorizedTools gives a child token that keeps its parent's tool: scopes *)
(* and one of its bundle: or profile: scopes no more than the parent has.  *)
THEOREM ReductionNarrows == AuthorizationSpec => []ReducedTokenNarrows
<1>1. ReducedTokenNarrows
  <2> SUFFICES ASSUME NEW child \in Tokens,
                      child.bundles \subseteq token.bundles,
                      child.profiles \subseteq token.profiles,
                      child.tools = token.tools,
                      HasUnion(token) => HasUnion(child)
               PROVE  AuthorizedTools(child) \subseteq AuthorizedTools(token)
    BY DEF ReducedTokenNarrows
  <2>1. Union(child) \subseteq Union(token)
    BY UnionIsMonotone
  <2>2. Explicit(child) = Explicit(token)
    BY DEF Explicit
  <2>3. Candidates(child) \subseteq Candidates(token)
    BY <2>1, <2>2 DEF Candidates
  <2>4. QED
    BY <2>3 DEF AuthorizedTools
<1>2. QED
  BY <1>1, PTL

(* The empty tool set allows every tool (resolveModeAndToolSet's zero      *)
(* value, toolAllowed).                                                    *)
LEMMA NoToolSetAllows == \A t : ToolAllowed(t, NoToolSet)
BY DEF ToolAllowed, NoToolSet

(* A tool of the view selectView chooses passes the curated check of       *)
(* Decide, whose rules for the mode and the tool set are other ones, if    *)
(* that view is not the built-in one taken by its name.                    *)
LEMMA SelectedIsAllowed ==
  ASSUME NEW q, NEW t \in SelectView(q), DiscoverByName(q) => ResolvedMode(q) # "curated"
  PROVE  /\ t \in catalog
         /\ ResolvedMode(q) = "curated" => ToolAllowed(t, ResolvedToolSet(q))
<1>1. t \in catalog
  BY DEF SelectView, ViewOf
<1>2. SUFFICES ASSUME ResolvedMode(q) = "curated"
               PROVE  ToolAllowed(t, ResolvedToolSet(q))
  BY <1>1
<1>3. /\ q.profile # Discover
      /\ Configured(q.profile) \/ config.defaultProfile # Discover
  BY <1>2 DEF DiscoverByName
<1>4. CASE Configured(q.profile)
  BY <1>3, <1>4 DEF SelectView, HasView, ViewOf, ResolvedToolSet
<1>5. CASE ~Configured(q.profile)
  <2>1. ResolvedMode(q) = IF q.mode = "" THEN config.defaultMode ELSE q.mode
    BY <1>5 DEF ResolvedMode
  <2>2. CASE Configured(config.defaultProfile)
    BY <1>2, <1>3, <1>5, <2>1, <2>2 DEF SelectView, HasView, ViewOf, ResolvedToolSet
  <2>3. CASE ~Configured(config.defaultProfile)
    <3>1. ResolvedToolSet(q) = NoToolSet
      BY <1>5, <2>3 DEF ResolvedToolSet
    <3>2. QED
      BY <3>1, NoToolSetAllows
  <2>4. QED
    BY <2>2, <2>3
<1>6. QED
  BY <1>4, <1>5

(* What handleEffectiveCatalog lists, handleExecuteTool runs, once         *)
(* approved and unless a managed deny rule forbids it, but for the view    *)
(* "discover" taken by its name for a request that Decide curates.         *)
THEOREM ListedToolsRun == AuthorizationSpec => []ListedIsExecutable
<1>1. ListedIsExecutable
  <2> SUFFICES ASSUME NEW q \in Query, DiscoverByName(q) => ResolvedMode(q) # "curated",
                      NEW t \in FilteredView(q)
               PROVE  Verdict(t, [q EXCEPT !.approval = TRUE]) \in {"allowed", "managed_deny"}
    BY DEF ListedIsExecutable
  <2> DEFINE approved == [q EXCEPT !.approval = TRUE]
  <2>1. approved.mode = q.mode /\ approved.profile = q.profile /\ approved.approval
    BY DEF Query
  <2>2. /\ t \in SelectView(approved) /\ Authorized(t)
        /\ DiscoverByName(approved) => ResolvedMode(approved) # "curated"
    BY <2>1 DEF FilteredView, SelectView, DiscoverByName, ResolvedMode
  <2>3. /\ t \in catalog
        /\ ResolvedMode(approved) = "curated" => ToolAllowed(t, ResolvedToolSet(approved))
    BY <2>2, SelectedIsAllowed
  <2> HIDE DEF approved
  <2>4. Decide(t, approved) \in {"allowed", "managed_deny"}
    BY <2>1, <2>3 DEF Decide
  <2>5. QED
    BY <2>2, <2>3, <2>4 DEF Verdict, approved
<1>2. QED
  BY <1>1, PTL
=============================================================================
