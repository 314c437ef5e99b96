------------------------------ MODULE HttpCache ------------------------------
(***************************************************************************)
(* The HTTP cache of catalog sources (pkg/cache): one key, the two files   *)
(* it is stored in, the fetches that read and replace them, and the origin *)
(* server.                                                                 *)
(*                                                                         *)
(* A file is an inode with a content; a path names an inode.  Save writes  *)
(* a temporary file and renames it, for the metadata and then for the      *)
(* body, with no lock; the name of the temporary file has the pid of the   *)
(* process in it and nothing of the goroutine.  What the origin serves is  *)
(* a version number; the metadata file holds the version its ETag names,   *)
(* the body file the version its bytes are of, 0 while it is empty.        *)
(***************************************************************************)
EXTENDS Naturals, FiniteSets

CONSTANTS
  Fetchers,       \* goroutines in Fetch
  Processes,
  ProcessOf,      \* the process each fetcher runs in
  Inodes,
  NoInode,
  Policies,       \* the [force, manual] a fetch may be asked for
  MaxVersion,     \* bound on the changes at the origin
  MaxFaults       \* bound on crashes and failed writes

ASSUME CacheAssumption ==
  /\ ProcessOf \in [Fetchers -> Processes]
  /\ NoInode \notin Inodes
  /\ Policies \subseteq [force : BOOLEAN, manual : BOOLEAN]
  /\ MaxVersion \in Nat \ {0}
  /\ MaxFaults \in Nat

\* There is an inode for each name and each open file, and one to spare.
ASSUME InodesAssumption ==
  /\ IsFiniteSet(Fetchers) /\ IsFiniteSet(Processes)
  /\ IsFiniteSet(Inodes) =>
       Cardinality(Inodes) > 2 + 2 * Cardinality(Processes) + Cardinality(Fetchers)

VARIABLES
  path,       \* the two files of the entry
  temp,       \* the temporary files of each process
  content,    \* of each inode
  fetch,      \* the goroutine of each fetch
  origin,     \* the version the origin serves
  faults,     \* crashes and failed writes so far
  calm        \* history: there was no fault, and no two fetches overlapped

vars == <<path, temp, content, fetch, origin, faults, calm>>
diskVars == <<path, temp, content>>

Kinds == {"meta", "body"}
Versions == 0..MaxVersion
FetchPCs == {"idle", "loadMeta", "loadBody", "removeMeta", "removeBody", "decide",
             "network", "open", "write", "rename", "return"}
Outcomes == {"none", "fresh_hit", "stale_hit", "revalidated_hit", "refreshed"}

\* cached: the entry was loaded.  meta, body: the versions of the metadata and
\* the body the fetch holds.  began: what the origin served when it began.
\* saving: the file Save is at.
FetchState ==
  [pc : FetchPCs, cached : BOOLEAN, meta : Versions, body : Versions,
   began : Versions, outcome : Outcomes, saving : Kinds, fd : Inodes \cup {NoInode}]

Idle == [pc |-> "idle", cached |-> FALSE, meta |-> 0, body |-> 0,
         began |-> 0, outcome |-> "none", saving |-> "meta", fd |-> NoInode]

At(f, pc) == fetch[f].pc = pc
Step(f, state) == fetch' = [fetch EXCEPT ![f] = state]
Return(f, state, outcome) ==
  Step(f, [state EXCEPT !.pc = "return", !.outcome = outcome])

TempOf(f) == temp[ProcessOf[f]]
UsedInodes ==
  {path[k] : k \in Kinds} \cup {temp[p][k] : p \in Processes, k \in Kinds}
    \cup {fetch[f].fd : f \in Fetchers}
FreeInode == CHOOSE i \in Inodes : i \notin UsedInodes

Init ==
  /\ path = [k \in Kinds |-> NoInode]
  /\ temp = [p \in Processes |-> [k \in Kinds |-> NoInode]]
  /\ content = [i \in Inodes |-> 0]
  /\ fetch = [f \in Fetchers |-> Idle]
  /\ origin = 1
  /\ faults = 0
  /\ calm = TRUE

Fetch(f) ==
  /\ At(f, "idle")
  /\ Step(f, [Idle EXCEPT !.pc = "loadMeta", !.began = origin])
  /\ calm' = (calm /\ \A g \in Fetchers : At(g, "idle"))
  /\ UNCHANGED <<diskVars, origin, faults>>

-----------------------------------------------------------------------------
(* Load.  An unreadable metadata file or a missing body makes the entry    *)
(* corrupt: both files are removed, one after the other.                   *)

LoadMetadata(f) ==
  /\ At(f, "loadMeta")
  /\ LET read == content[path["meta"]] IN
     Step(f, IF path["meta"] = NoInode THEN [fetch[f] EXCEPT !.pc = "network"]
             ELSE IF read = 0 THEN [fetch[f] EXCEPT !.pc = "removeMeta"]
             ELSE [fetch[f] EXCEPT !.pc = "loadBody", !.meta = read])
  /\ UNCHANGED <<diskVars, origin, faults, calm>>

LoadBody(f) ==
  /\ At(f, "loadBody")
  /\ Step(f, IF path["body"] = NoInode
             THEN [fetch[f] EXCEPT !.pc = "removeMeta", !.meta = 0]
             ELSE [fetch[f] EXCEPT !.pc = "decide", !.cached = TRUE,
                                   !.body = content[path["body"]]])
  /\ UNCHANGED <<diskVars, origin, faults, calm>>

Delete(f) ==
  /\ \/ /\ At(f, "removeMeta")
        /\ path' = [path EXCEPT !["meta"] = NoInode]
        /\ Step(f, [fetch[f] EXCEPT !.pc = "removeBody"])
     \/ /\ At(f, "removeBody")
        /\ path' = [path EXCEPT !["body"] = NoInode]
        /\ Step(f, [fetch[f] EXCEPT !.pc = "network"])
  /\ UNCHANGED <<temp, content, origin, faults, calm>>

-----------------------------------------------------------------------------
(* The fetch's policy.  A loaded entry may or may not be fresh; manualOnly  *)
(* serves it anyway, a forced refresh never.                               *)

Decide(f, policy) ==
  /\ At(f, "decide")
  /\ \/ ~policy.force /\ Return(f, fetch[f], "fresh_hit")
     \/ ~policy.force /\ policy.manual /\ Return(f, fetch[f], "stale_hit")
     \/ /\ policy.force \/ ~policy.manual
        /\ Step(f, [fetch[f] EXCEPT !.pc = "network"])
  /\ UNCHANGED <<diskVars, origin, faults, calm>>

\* No answer, or a status that is neither 2xx nor the 304 asked for, is made up
\* for by what was cached; a body that breaks off is an error all the same.
NetworkFails(f) ==
  /\ At(f, "network")
  /\ \/ fetch[f].cached /\ Return(f, fetch[f], "stale_hit")
     \/ Step(f, Idle)
  /\ UNCHANGED <<diskVars, origin, faults, calm>>

\* If-None-Match carries the ETag of the metadata.
FaultyNotModified(f) ==
  /\ At(f, "network")
  /\ fetch[f].cached
  /\ Step(f, [fetch[f] EXCEPT !.pc = "open", !.outcome = "revalidated_hit"])
  /\ UNCHANGED <<diskVars, origin, faults, calm>>

NotModified(f) ==
  /\ At(f, "network")
  /\ fetch[f].cached
  /\ fetch[f].meta = origin
  /\ Step(f, [fetch[f] EXCEPT !.pc = "open", !.outcome = "revalidated_hit"])
  /\ UNCHANGED <<diskVars, origin, faults, calm>>

FaultyNewResponse(f) ==
  /\ At(f, "network")
  /\ Step(f, [fetch[f] EXCEPT !.pc = "open", !.outcome = "refreshed", !.meta = origin,
                !.body = IF fetch[f].cached THEN fetch[f].body ELSE origin])
  /\ UNCHANGED <<diskVars, origin, faults, calm>>

NewResponse(f) ==
  /\ At(f, "network")
  /\ Step(f, [fetch[f] EXCEPT !.pc = "open", !.outcome = "refreshed",
                              !.meta = origin, !.body = origin])
  /\ UNCHANGED <<diskVars, origin, faults, calm>>

-----------------------------------------------------------------------------
(* Save: writeAtomically for the metadata, then for the body.              *)

FaultyOpenTemp(f) ==
  /\ At(f, "open")
  /\ LET k == fetch[f].saving IN
     LET i == IF path[k] = NoInode THEN FreeInode ELSE path[k] IN
       /\ temp' = [temp EXCEPT ![ProcessOf[f]][k] = i]
       /\ content' = [content EXCEPT ![i] = 0]
       /\ Step(f, [fetch[f] EXCEPT !.pc = "write", !.fd = i])
  /\ UNCHANGED <<path, origin, faults, calm>>

\* O_CREATE|O_TRUNC on the temporary name
OpenTemp(f) ==
  /\ At(f, "open")
  /\ LET k == fetch[f].saving IN
     LET i == IF TempOf(f)[k] = NoInode THEN FreeInode ELSE TempOf(f)[k] IN
       /\ temp' = [temp EXCEPT ![ProcessOf[f]][k] = i]
       /\ content' = [content EXCEPT ![i] = 0]
       /\ Step(f, [fetch[f] EXCEPT !.pc = "write", !.fd = i])
  /\ UNCHANGED <<path, origin, faults, calm>>

\* the open file is written, wherever a rename has put it meanwhile
WriteTemp(f) ==
  /\ At(f, "write")
  /\ content' = [content EXCEPT ![fetch[f].fd] = fetch[f][fetch[f].saving]]
  /\ Step(f, [fetch[f] EXCEPT !.pc = "rename", !.fd = NoInode])
  /\ UNCHANGED <<path, temp, origin, faults, calm>>

\* The name may be gone, renamed by another goroutine: Fetch returns the error.
RenameTemp(f) ==
  LET k == fetch[f].saving IN
  /\ At(f, "rename")
  /\ IF TempOf(f)[k] = NoInode
     THEN Step(f, Idle) /\ UNCHANGED <<path, temp>>
     ELSE /\ path' = [path EXCEPT ![k] = TempOf(f)[k]]
          /\ temp' = [temp EXCEPT ![ProcessOf[f]][k] = NoInode]
          /\ Step(f, IF k = "meta"
                     THEN [fetch[f] EXCEPT !.pc = "open", !.saving = "body"]
                     ELSE [fetch[f] EXCEPT !.pc = "return"])
  /\ UNCHANGED <<content, origin, faults, calm>>

\* The disk is full: Fetch returns the error and leaves what Save has done.
SaveFails(f) ==
  /\ fetch[f].pc \in {"open", "write"}
  /\ faults < MaxFaults
  /\ faults' = faults + 1
  /\ calm' = FALSE
  /\ Step(f, Idle)
  /\ UNCHANGED <<diskVars, origin>>

Deliver(f) ==
  /\ At(f, "return")
  /\ Step(f, Idle)
  /\ UNCHANGED <<diskVars, origin, faults, calm>>

-----------------------------------------------------------------------------

OriginChanges ==
  /\ origin < MaxVersion
  /\ origin' = origin + 1
  /\ UNCHANGED <<diskVars, fetch, faults, calm>>

\* The process dies; its files stay.
Crash(p) ==
  /\ faults < MaxFaults
  /\ faults' = faults + 1
  /\ calm' = FALSE
  /\ fetch' = [f \in Fetchers |-> IF ProcessOf[f] = p THEN Idle ELSE fetch[f]]
  /\ UNCHANGED <<diskVars, origin>>

FetchStep(f) ==
  \/ Fetch(f)
  \/ LoadMetadata(f)
  \/ LoadBody(f)
  \/ Delete(f)
  \/ \E policy \in Policies : Decide(f, policy)
  \/ NetworkFails(f)
  \/ NotModified(f)
  \/ NewResponse(f)
  \/ OpenTemp(f)
  \/ WriteTemp(f)
  \/ RenameTemp(f)
  \/ SaveFails(f)
  \/ Deliver(f)

Next ==
  \/ \E f \in Fetchers : FetchStep(f)
  \/ OriginChanges
  \/ \E p \in Processes : Crash(p)

Spec == Init /\ [][Next]_vars

-----------------------------------------------------------------------------
(* Properties.                                                             *)

\* The entry, the temporary files and the fetches keep their type, and only a
\* goroutine between the open and the write of WriteFile holds a file.
TypeOK ==
  /\ path \in [Kinds -> Inodes \cup {NoInode}]
  /\ temp \in [Processes -> [Kinds -> Inodes \cup {NoInode}]]
  /\ content \in [Inodes -> Versions]
  /\ fetch \in [Fetchers -> FetchState]
  /\ origin \in 1..MaxVersion
  /\ faults \in 0..MaxFaults
  /\ calm \in BOOLEAN
  /\ \A f \in Fetchers : fetch[f].fd = NoInode <=> ~At(f, "write")

\* A file of the entry is never seen half written: writeAtomically replaces it
\* in one step, whatever other process shares the directory or crashes.
FilesAreWhole == \A k \in Kinds : path[k] # NoInode => content[path[k]] # 0

\* What a fetch returns is the body the metadata beside it describes, as long
\* as no two fetches of the key overlap and no Save has been cut short: the
\* files are written, and read, in two steps.
ServedPairMatches ==
  calm => \A f \in Fetchers : At(f, "return") => fetch[f].meta = fetch[f].body

\* A result that claims to come from the origin, just fetched or just
\* confirmed by a 304, is no older than what the origin served when the
\* fetch began, under the same condition: a torn pair would be confirmed by
\* every 304 from then on.
ServedIsCurrent ==
  calm => \A f \in Fetchers :
    At(f, "return") /\ fetch[f].outcome \in {"revalidated_hit", "refreshed"} =>
      fetch[f].body >= fetch[f].began
=============================================================================
