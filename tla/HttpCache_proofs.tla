--------------------------- MODULE HttpCache_proofs ---------------------------
(***************************************************************************)
(* Proofs about HttpCache, for any fetches, processes and bounds.          *)
(*                                                                         *)
(* A Save writes to the temporary file of its own and to no other file: no *)
(* inode has two names, and the goroutine that may reach a name of its     *)
(* process is alone with it, because each process fetches the key once at  *)
(* a time or because no two fetches have overlapped.  So what is renamed   *)
(* is whole, and is what the fetch holds.  In the calm case the entry's    *)
(* two files also belong together but between the renames of one Save.     *)
(***************************************************************************)
EXTENDS HttpCache, FiniteSetTheorems, TLAPS

(* Goroutines of one process do not fetch at the same time: each has a     *)
(* process of its own, or no two fetches have overlapped.                  *)
DistinctProcesses == \A f, g \in Fetchers : ProcessOf[f] = ProcessOf[g] => f = g
OneEach == DistinctProcesses \/ calm

Active(f) == ~At(f, "idle")
Alone == calm => \A f, g \in Fetchers : Active(f) /\ Active(g) => f = g

(* No inode has two names.                                                 *)
Disjoint ==
  /\ path["meta"] # NoInode => path["meta"] # path["body"]
  /\ \A p \in Processes, k, j \in Kinds : temp[p][k] # NoInode => temp[p][k] # path[j]
  /\ \A p, q \in Processes, k, j \in Kinds :
       temp[p][k] # NoInode /\ temp[p][k] = temp[q][j] => p = q /\ k = j

(* A Save writes to its own temporary file until it renames it.            *)
Saved(f) ==
  /\ At(f, "write") => fetch[f].fd = TempOf(f)[fetch[f].saving]
  /\ fetch[f].pc \in {"write", "rename"} => TempOf(f)[fetch[f].saving] # NoInode
  /\ At(f, "rename") => content[TempOf(f)[fetch[f].saving]] = fetch[f][fetch[f].saving]
Saves == OneEach => \A f \in Fetchers : Saved(f)

(* What a fetch holds was read from whole files or got from the origin.    *)
Held(f) ==
  /\ fetch[f].cached => fetch[f].body # 0
  /\ fetch[f].pc \in {"open", "write", "rename"} => fetch[f].meta # 0 /\ fetch[f].body # 0
Holds == OneEach => \A f \in Fetchers : Held(f)

Whole == OneEach => FilesAreWhole

(* Metadata and body of the entry belong together but between the renames  *)
(* of one Save.                                                            *)
Agree ==
  path["meta"] # NoInode => path["body"] # NoInode /\ content[path["meta"]] = content[path["body"]]
Saving(f, k) == fetch[f].pc \in {"open", "write", "rename"} /\ fetch[f].saving = k
Paired(f) ==
  /\ fetch[f].pc \notin {"removeMeta", "removeBody"}
  /\ fetch[f].pc \in {"loadMeta", "loadBody", "decide", "network"} => fetch[f].saving = "meta"
  /\ fetch[f].pc \in {"loadMeta", "loadBody", "decide", "network", "return"} => Agree
  /\ At(f, "loadMeta") => ~fetch[f].cached
  /\ Saving(f, "meta") => Agree
  /\ Saving(f, "body") => path["meta"] # NoInode /\ content[path["meta"]] = fetch[f].meta
  /\ At(f, "loadBody") => path["meta"] # NoInode /\ content[path["meta"]] = fetch[f].meta
  /\ At(f, "network") /\ fetch[f].cached => fetch[f].meta = fetch[f].body
  /\ fetch[f].pc \in {"decide", "return", "open", "write", "rename"} => fetch[f].meta = fetch[f].body
Quiet == (\A f \in Fetchers : At(f, "idle")) => Agree
Pairs == calm => Quiet /\ \A f \in Fetchers : Active(f) => Paired(f)

(* A version from the origin is no older than the fetch.                   *)
Recent(f) ==
  /\ fetch[f].began <= origin
  /\ fetch[f].outcome \in {"revalidated_hit", "refreshed"} =>
       fetch[f].pc \in {"open", "write", "rename", "return"} /\ fetch[f].meta >= fetch[f].began
Currents == \A f \in Fetchers : Recent(f)
-----------------------------------------------------------------------------
(* Inodes.                                                                 *)

HasInode == \E i \in Inodes : i \notin UsedInodes

LEMMA FiniteImage ==
  ASSUME NEW S, IsFiniteSet(S), NEW F, F = [s \in S |-> F[s]]
  PROVE  IsFiniteSet({F[s] : s \in S}) /\ Cardinality({F[s] : s \in S}) <= Cardinality(S)
<1>1. F \in Surjection(S, {F[s] : s \in S})
  BY DEF Surjection
<1>. QED
  BY <1>1, FS_Surjection

LEMMA FiniteUnion ==
  ASSUME NEW S, IsFiniteSet(S), NEW T, IsFiniteSet(T)
  PROVE  IsFiniteSet(S \cup T) /\ Cardinality(S \cup T) <= Cardinality(S) + Cardinality(T)
<1>1. IsFiniteSet(S \cup T) /\ IsFiniteSet(S \cap T)
  BY FS_Union, FS_Subset
<1>2. Cardinality(S \cap T) \in Nat /\ Cardinality(S) \in Nat /\ Cardinality(T) \in Nat
  BY <1>1, FS_CardinalityType
<1>3. Cardinality(S \cup T) = Cardinality(S) + Cardinality(T) - Cardinality(S \cap T)
  BY FS_Union
<1>. DEFINE a == Cardinality(S)
            b == Cardinality(T)
            c == Cardinality(S \cap T)
            d == Cardinality(S \cup T)
<1>4. a \in Nat /\ b \in Nat /\ c \in Nat /\ d = a + b - c
  BY <1>2, <1>3
<1>. HIDE DEF a, b, c, d
<1>5. d <= a + b
  BY <1>4
<1>. QED
  BY <1>1, <1>5 DEF a, b, d

LEMMA InodesLast ==
  ASSUME TypeOK
  PROVE  HasInode
<1>. DEFINE Meta == [p \in Processes |-> temp[p]["meta"]]
            Body == [p \in Processes |-> temp[p]["body"]]
            Open == [f \in Fetchers |-> fetch[f].fd]
            M == {Meta[p] : p \in Processes}
            B == {Body[p] : p \in Processes}
            O == {Open[f] : f \in Fetchers}
            P == {path["meta"]} \cup {path["body"]}
<1>1. UsedInodes \subseteq (P \cup M) \cup (B \cup O)
  BY DEF UsedInodes, Kinds
<1>2. /\ IsFiniteSet(M) /\ Cardinality(M) <= Cardinality(Processes)
      /\ IsFiniteSet(B) /\ Cardinality(B) <= Cardinality(Processes)
  BY FiniteImage, InodesAssumption
<1>3. IsFiniteSet(O) /\ Cardinality(O) <= Cardinality(Fetchers)
  BY FiniteImage, InodesAssumption
<1>4. IsFiniteSet(P) /\ Cardinality(P) <= 2
  <2>1. IsFiniteSet({path["meta"]}) /\ IsFiniteSet({path["body"]})
    BY FS_Singleton
  <2>2. Cardinality({path["meta"]}) = 1 /\ Cardinality({path["body"]}) = 1
    BY FS_Singleton
  <2>3. IsFiniteSet(P) /\ Cardinality(P) <= Cardinality({path["meta"]}) + Cardinality({path["body"]})
    BY <2>1, FiniteUnion
  <2>. QED
    BY <2>2, <2>3
<1>. HIDE DEF M, B, O, P
<1>5. /\ IsFiniteSet(P \cup M) /\ Cardinality(P \cup M) <= Cardinality(P) + Cardinality(M)
      /\ IsFiniteSet(B \cup O) /\ Cardinality(B \cup O) <= Cardinality(B) + Cardinality(O)
  BY <1>2, <1>3, <1>4, FiniteUnion
<1>. DEFINE All == (P \cup M) \cup (B \cup O)
<1>6. IsFiniteSet(All) /\ Cardinality(All) <= Cardinality(P \cup M) + Cardinality(B \cup O)
  BY <1>5, FiniteUnion
<1>7. /\ Cardinality(P \cup M) \in Nat /\ Cardinality(B \cup O) \in Nat /\ Cardinality(All) \in Nat
      /\ Cardinality(P) \in Nat /\ Cardinality(M) \in Nat /\ Cardinality(B) \in Nat
      /\ Cardinality(O) \in Nat /\ Cardinality(Processes) \in Nat /\ Cardinality(Fetchers) \in Nat
  BY <1>2, <1>3, <1>4, <1>5, <1>6, InodesAssumption, FS_CardinalityType
<1>8. Cardinality(All) <= 2 + 2 * Cardinality(Processes) + Cardinality(Fetchers)
  BY <1>2, <1>3, <1>4, <1>5, <1>6, <1>7
<1>9. ASSUME Inodes \subseteq UsedInodes
      PROVE  FALSE
  <2>1. Inodes \in SUBSET All
    BY <1>1, <1>9
  <2>2. IsFiniteSet(Inodes) /\ Cardinality(Inodes) <= Cardinality(All)
    BY <1>6, <2>1, FS_Subset
  <2>3. Cardinality(Inodes) \in Nat
    BY <2>2, FS_CardinalityType
  <2>. QED
    BY <1>7, <1>8, <2>2, <2>3, InodesAssumption
<1>. QED
  BY <1>9 DEF HasInode

-----------------------------------------------------------------------------
(* The opening of a temporary file.                                        *)

Opened(f, i) ==
  LET k == fetch[f].saving IN
  /\ At(f, "open") /\ UNCHANGED <<path, origin, faults, calm>>
  /\ TempOf(f)[k] = NoInode => i \notin UsedInodes
  /\ TempOf(f)[k] # NoInode => i = TempOf(f)[k]
  /\ temp' = [temp EXCEPT ![ProcessOf[f]][k] = i]
  /\ content' = [content EXCEPT ![i] = 0]
  /\ fetch' = [fetch EXCEPT ![f] = [fetch[f] EXCEPT !.pc = "write", !.fd = i]]

LEMMA OpenTempOutcome ==
  ASSUME TypeOK, HasInode, NEW f \in Fetchers, OpenTemp(f)
  PROVE  \E i \in Inodes : Opened(f, i)
<1>1. FreeInode \in Inodes /\ FreeInode \notin UsedInodes
  BY DEF HasInode, FreeInode
<1>2. TempOf(f)[fetch[f].saving] \in Inodes \cup {NoInode}
  BY CacheAssumption DEF TempOf, TypeOK, FetchState
<1>. DEFINE i == IF TempOf(f)[fetch[f].saving] = NoInode THEN FreeInode
                 ELSE TempOf(f)[fetch[f].saving]
<1>3. i \in Inodes /\ Opened(f, i)
  BY <1>1, <1>2 DEF Opened, OpenTemp, Step
<1>. QED
  BY <1>3

LEMMA CalmFalls ==
  ASSUME NEW f \in Fetchers, FetchStep(f)
  PROVE  (calm' => calm) /\ (OneEach' => OneEach)
<1>1. calm' => calm
  BY DEF FetchStep, Fetch, LoadMetadata, LoadBody, Delete, Decide, NetworkFails, NotModified,
         NewResponse, OpenTemp, WriteTemp, RenameTemp, SaveFails, Deliver
<1>. QED
  BY <1>1 DEF OneEach, DistinctProcesses

-----------------------------------------------------------------------------
(* Steps of a fetch.                                                       *)


(* The goroutine after its step.                                           *)
Moved(f) ==
  /\ fetch' = [fetch EXCEPT ![f] = fetch'[f]]
  /\ fetch'[f] \in FetchState
  /\ fetch'[f].fd = NoInode <=> fetch'[f].pc # "write"

LEMMA FetchMoves ==
  ASSUME TypeOK, HasInode, NEW f \in Fetchers, FetchStep(f)
  PROVE  Moved(f)
<1>1. /\ fetch \in [Fetchers -> FetchState] /\ fetch[f] \in FetchState
      /\ fetch[f].fd = NoInode <=> fetch[f].pc # "write"
      /\ content \in [Inodes -> Versions] /\ path \in [Kinds -> Inodes \cup {NoInode}]
      /\ "meta" \in Kinds /\ "body" \in Kinds /\ origin \in Versions /\ 0 \in Versions
      /\ NoInode \notin Inodes
  BY CacheAssumption DEF TypeOK, At, Kinds, Versions
<1>. USE <1>1 DEF Moved, FetchState, FetchPCs, Outcomes, At, Step, Idle, Return
<1>2. CASE Fetch(f)
  BY <1>2 DEF Fetch
<1>3. CASE LoadMetadata(f)
  BY <1>3 DEF LoadMetadata
<1>4. CASE LoadBody(f)
  BY <1>4 DEF LoadBody
<1>5. CASE Delete(f)
  <2>1. CASE fetch' = [fetch EXCEPT ![f] = [fetch[f] EXCEPT !.pc = "removeBody"]] /\ At(f, "removeMeta")
    BY <2>1
  <2>2. CASE fetch' = [fetch EXCEPT ![f] = [fetch[f] EXCEPT !.pc = "network"]] /\ At(f, "removeBody")
    BY <2>2
  <2>. QED
    BY <1>5, <2>1, <2>2 DEF Delete
<1>6. CASE \E policy \in Policies : Decide(f, policy)
  <2>1. At(f, "decide")
    BY <1>6 DEF Decide
  <2>2. CASE Return(f, fetch[f], "fresh_hit")
    BY <2>1, <2>2
  <2>3. CASE Return(f, fetch[f], "stale_hit")
    BY <2>1, <2>3
  <2>4. CASE Step(f, [fetch[f] EXCEPT !.pc = "network"])
    BY <2>1, <2>4
  <2>. QED
    BY <1>6, <2>2, <2>3, <2>4 DEF Decide
<1>7. CASE NetworkFails(f)
  <2>1. CASE At(f, "network") /\ Return(f, fetch[f], "stale_hit")
    BY <2>1
  <2>2. CASE At(f, "network") /\ Step(f, Idle)
    BY <2>2
  <2>. QED
    BY <1>7, <2>1, <2>2 DEF NetworkFails
<1>8. CASE NotModified(f)
  BY <1>8 DEF NotModified
<1>9. CASE NewResponse(f)
  BY <1>9 DEF NewResponse
<1>10. CASE OpenTemp(f)
  <2>1. PICK i \in Inodes : Opened(f, i)
    BY <1>10, OpenTempOutcome
  <2>. QED
    BY <2>1 DEF Opened
<1>11. CASE WriteTemp(f)
  BY <1>11 DEF WriteTemp
<1>12. CASE RenameTemp(f)
  <2>1. At(f, "rename")
    BY <1>12 DEF RenameTemp
  <2>2. CASE Step(f, Idle)
    BY <2>1, <2>2
  <2>3. CASE Step(f, [fetch[f] EXCEPT !.pc = "open", !.saving = "body"])
    BY <2>1, <2>3
  <2>4. CASE Step(f, [fetch[f] EXCEPT !.pc = "return"])
    BY <2>1, <2>4
  <2>. QED
    BY <1>12, <2>2, <2>3, <2>4 DEF RenameTemp
<1>13. CASE SaveFails(f)
  BY <1>13 DEF SaveFails
<1>14. CASE Deliver(f)
  BY <1>14 DEF Deliver
<1>. QED
  BY <1>2, <1>3, <1>4, <1>5, <1>6, <1>7, <1>8, <1>9, <1>10, <1>11, <1>12, <1>13, <1>14
     DEF FetchStep

(* The disk after the step.                                                *)
DiskOK ==
  /\ path \in [Kinds -> Inodes \cup {NoInode}]
  /\ temp \in [Processes -> [Kinds -> Inodes \cup {NoInode}]]
  /\ content \in [Inodes -> Versions]

LEMMA DiskMoves ==
  ASSUME TypeOK, HasInode, NEW f \in Fetchers, FetchStep(f)
  PROVE  DiskOK'
<1>1. /\ DiskOK
      /\ fetch[f] \in FetchState /\ ProcessOf[f] \in Processes /\ 0 \in Versions
      /\ fetch[f].fd = NoInode <=> fetch[f].pc # "write"
  BY CacheAssumption DEF TypeOK, At, Versions, DiskOK
<1>. USE <1>1 DEF DiskOK, diskVars, At, FetchState, TempOf
<1>2. CASE Fetch(f)
  BY <1>2 DEF Fetch
<1>3. CASE LoadMetadata(f)
  BY <1>3 DEF LoadMetadata
<1>4. CASE LoadBody(f)
  BY <1>4 DEF LoadBody
<1>5. CASE Delete(f)
  BY <1>5 DEF Delete, Kinds
<1>6. CASE \E policy \in Policies : Decide(f, policy)
  BY <1>6 DEF Decide
<1>7. CASE NetworkFails(f)
  BY <1>7 DEF NetworkFails
<1>8. CASE NotModified(f)
  BY <1>8 DEF NotModified
<1>9. CASE NewResponse(f)
  BY <1>9 DEF NewResponse
<1>10. CASE OpenTemp(f)
  <2>1. PICK i \in Inodes : Opened(f, i)
    BY <1>10, OpenTempOutcome
  <2>. QED
    BY <2>1 DEF Opened
<1>11. CASE WriteTemp(f)
  <2>1. fetch[f][fetch[f].saving] \in Versions
    BY DEF Kinds
  <2>. QED
    BY <1>11, <2>1 DEF WriteTemp
<1>12. CASE RenameTemp(f)
  BY <1>12 DEF RenameTemp
<1>13. CASE SaveFails(f)
  BY <1>13 DEF SaveFails
<1>14. CASE Deliver(f)
  BY <1>14 DEF Deliver
<1>. QED
  BY <1>2, <1>3, <1>4, <1>5, <1>6, <1>7, <1>8, <1>9, <1>10, <1>11, <1>12, <1>13, <1>14
     DEF FetchStep

LEMMA TypeNext ==
  ASSUME TypeOK, HasInode, NEW f \in Fetchers, FetchStep(f)
  PROVE  TypeOK'
<1>1. Moved(f)
  BY FetchMoves
<1>2. fetch' \in [Fetchers -> FetchState]
  BY <1>1 DEF Moved, TypeOK
<1>3. \A g \in Fetchers : fetch'[g].fd = NoInode <=> fetch'[g].pc # "write"
  BY <1>1 DEF Moved, TypeOK, At
<1>4. UNCHANGED origin /\ (UNCHANGED faults \/ (faults < MaxFaults /\ faults' = faults + 1))
  BY DEF FetchStep, Fetch, LoadMetadata, LoadBody, Delete, Decide, NetworkFails, NotModified,
         NewResponse, OpenTemp, WriteTemp, RenameTemp, SaveFails, Deliver
<1>5. origin' \in 1..MaxVersion /\ faults' \in 0..MaxFaults
  BY <1>4, CacheAssumption DEF TypeOK
<1>6. calm' \in BOOLEAN
  BY DEF TypeOK, FetchStep, Fetch, LoadMetadata, LoadBody, Delete, Decide, NetworkFails,
         NotModified, NewResponse, OpenTemp, WriteTemp, RenameTemp, SaveFails, Deliver
<1>. QED
  BY <1>2, <1>3, <1>5, <1>6, DiskMoves DEF TypeOK, At, DiskOK

LEMMA DisjointNext ==
  ASSUME TypeOK, HasInode, Disjoint, NEW f \in Fetchers, FetchStep(f)
  PROVE  Disjoint'
<1>1. /\ DiskOK /\ fetch[f] \in FetchState /\ ProcessOf[f] \in Processes
      /\ NoInode \notin Inodes
  BY CacheAssumption DEF TypeOK, DiskOK
<1>. DEFINE k == fetch[f].saving
            p == ProcessOf[f]
<1>2. k \in Kinds /\ p \in Processes
  BY <1>1 DEF FetchState
<1>3. CASE Delete(f)
  <2>1. CASE path' = [path EXCEPT !["meta"] = NoInode] /\ UNCHANGED temp
    BY <1>1, <2>1 DEF DiskOK, Disjoint, Kinds
  <2>2. CASE path' = [path EXCEPT !["body"] = NoInode] /\ UNCHANGED temp
    BY <1>1, <2>2 DEF DiskOK, Disjoint, Kinds
  <2>. QED
    BY <1>3, <2>1, <2>2 DEF Delete
<1>4. CASE OpenTemp(f)
  <2>1. PICK i \in Inodes : Opened(f, i)
    BY <1>4, OpenTempOutcome
  <2>2. temp' = [temp EXCEPT ![p][k] = i] /\ path' = path
    BY <2>1 DEF Opened, TempOf
  <2>3. CASE temp[p][k] # NoInode
    <3>1. i = temp[p][k]
      BY <2>1, <2>3 DEF Opened, TempOf
    <3>2. temp' = temp
      BY <1>1, <1>2, <2>2, <3>1 DEF DiskOK
    <3>. QED
      BY <2>2, <3>2 DEF Disjoint
  <2>4. CASE temp[p][k] = NoInode
    <3>1. i \notin UsedInodes
      BY <2>1, <2>4 DEF Opened, TempOf
    <3>2. /\ \A j \in Kinds : path[j] # i
          /\ \A q \in Processes, j \in Kinds : temp[q][j] # i
      BY <3>1 DEF UsedInodes
    <3>3. \A q \in Processes, j \in Kinds :
            temp'[q][j] = IF q = p /\ j = k THEN i ELSE temp[q][j]
      BY <1>1, <1>2, <2>2 DEF DiskOK
    <3>. QED
      BY <2>2, <3>2, <3>3, <1>2 DEF Disjoint
  <2>. QED
    BY <2>3, <2>4
<1>5. CASE RenameTemp(f)
  <2>1. CASE UNCHANGED <<path, temp>>
    BY <2>1 DEF Disjoint
  <2>2. CASE /\ temp[p][k] # NoInode
             /\ path' = [path EXCEPT ![k] = temp[p][k]]
             /\ temp' = [temp EXCEPT ![p][k] = NoInode]
    <3>1. \A q \in Processes, j \in Kinds :
            temp'[q][j] = IF q = p /\ j = k THEN NoInode ELSE temp[q][j]
      BY <1>1, <1>2, <2>2 DEF DiskOK
    <3>2. \A j \in Kinds : path'[j] = IF j = k THEN temp[p][k] ELSE path[j]
      BY <1>1, <1>2, <2>2 DEF DiskOK
    <3>3. "meta" \in Kinds /\ "body" \in Kinds
      BY DEF Kinds
    <3>4. (path["meta"] # NoInode => path["meta"] # path["body"])'
      BY <3>2, <3>3, <1>2, <2>2 DEF Disjoint, Kinds
    <3>. QED
      BY <3>1, <3>2, <3>4, <1>2, <2>2 DEF Disjoint
  <2>. QED
    BY <1>5, <2>1, <2>2 DEF RenameTemp, TempOf
<1>6. CASE UNCHANGED <<path, temp>>
  BY <1>6 DEF Disjoint
<1>. QED
  BY <1>3, <1>4, <1>5, <1>6 DEF FetchStep, Fetch, LoadMetadata, LoadBody, Decide, NetworkFails,
     NotModified, NewResponse, WriteTemp, SaveFails, Deliver, diskVars

(* What a step makes of the goroutine, field by field.                     *)
Kept(f, fields) == \A x \in fields : fetch'[f][x] = fetch[f][x]
Rests(f) == fetch'[f] = Idle

LEMMA FetchEffect ==
  ASSUME TypeOK, NEW f \in Fetchers, Fetch(f)
  PROVE  /\ fetch'[f].pc = "loadMeta" /\ ~fetch'[f].cached
         /\ fetch'[f].outcome = "none" /\ fetch'[f].began = origin
         /\ fetch'[f].saving = "meta"
<1>1. fetch \in [Fetchers -> FetchState] /\ fetch[f] \in FetchState
  BY DEF TypeOK
<1>. USE <1>1 DEF At, Step, Return, Rests, Kept, FetchState
<1>. QED
  BY DEF Fetch, Idle

LEMMA LoadMetadataEffect ==
  ASSUME TypeOK, NEW f \in Fetchers, LoadMetadata(f)
  PROVE  /\ Kept(f, {"cached", "body", "began", "outcome", "saving"})
         /\ \/ fetch'[f].pc = "network" /\ Kept(f, {"meta"}) /\ path["meta"] = NoInode
            \/ /\ fetch'[f].pc = "removeMeta" /\ Kept(f, {"meta"})
               /\ path["meta"] # NoInode /\ content[path["meta"]] = 0
            \/ /\ fetch'[f].pc = "loadBody" /\ path["meta"] # NoInode
               /\ fetch'[f].meta = content[path["meta"]]
<1>1. fetch \in [Fetchers -> FetchState] /\ fetch[f] \in FetchState
  BY DEF TypeOK
<1>. USE <1>1 DEF At, Step, Return, Rests, Kept, FetchState
<1>2. CASE path["meta"] = NoInode
  <2>1. fetch'[f] = [fetch[f] EXCEPT !.pc = "network"]
    BY <1>2 DEF LoadMetadata
  <2>. QED
    BY <1>2, <2>1
<1>3. CASE path["meta"] # NoInode /\ content[path["meta"]] = 0
  <2>1. fetch'[f] = [fetch[f] EXCEPT !.pc = "removeMeta"]
    BY <1>3 DEF LoadMetadata
  <2>. QED
    BY <1>3, <2>1
<1>4. CASE path["meta"] # NoInode /\ content[path["meta"]] # 0
  <2>1. fetch'[f] = [fetch[f] EXCEPT !.pc = "loadBody", !.meta = content[path["meta"]]]
    BY <1>4 DEF LoadMetadata
  <2>. QED
    BY <1>4, <2>1
<1>. QED
  BY <1>2, <1>3, <1>4

LEMMA LoadBodyEffect ==
  ASSUME TypeOK, NEW f \in Fetchers, LoadBody(f)
  PROVE  /\ Kept(f, {"began", "outcome", "saving"})
         /\ \/ /\ path["body"] = NoInode
               /\ fetch'[f].pc = "removeMeta" /\ Kept(f, {"cached", "body"})
            \/ /\ path["body"] # NoInode /\ Kept(f, {"meta"})
               /\ fetch'[f].pc = "decide" /\ fetch'[f].cached
               /\ fetch'[f].body = content[path["body"]]
<1>1. fetch \in [Fetchers -> FetchState] /\ fetch[f] \in FetchState
  BY DEF TypeOK
<1>. USE <1>1 DEF At, Step, Return, Rests, Kept, FetchState
<1>2. CASE path["body"] = NoInode
  <2>1. fetch'[f] = [fetch[f] EXCEPT !.pc = "removeMeta", !.meta = 0]
    BY <1>2 DEF LoadBody
  <2>. QED
    BY <1>2, <2>1
<1>3. CASE path["body"] # NoInode
  <2>1. fetch'[f] = [fetch[f] EXCEPT !.pc = "decide", !.cached = TRUE, !.body = content[path["body"]]]
    BY <1>3 DEF LoadBody
  <2>. QED
    BY <1>3, <2>1
<1>. QED
  BY <1>2, <1>3

LEMMA DeleteEffect ==
  ASSUME TypeOK, NEW f \in Fetchers, Delete(f)
  PROVE  /\ Kept(f, {"cached", "meta", "body", "began", "outcome", "saving"})
         /\ \/ At(f, "removeMeta") /\ fetch'[f].pc = "removeBody"
            \/ At(f, "removeBody") /\ fetch'[f].pc = "network"
<1>1. fetch \in [Fetchers -> FetchState] /\ fetch[f] \in FetchState
  BY DEF TypeOK
<1>. USE <1>1 DEF At, Step, Return, Rests, Kept, FetchState
<1>2. CASE At(f, "removeMeta")
  <2>1. fetch'[f] = [fetch[f] EXCEPT !.pc = "removeBody"]
    BY <1>2 DEF Delete
  <2>. QED
    BY <1>2, <2>1
<1>3. CASE At(f, "removeBody")
  <2>1. fetch'[f] = [fetch[f] EXCEPT !.pc = "network"]
    BY <1>3 DEF Delete
  <2>. QED
    BY <1>3, <2>1
<1>. QED
  BY <1>2, <1>3 DEF Delete

LEMMA DecideEffect ==
  ASSUME TypeOK, NEW f \in Fetchers, NEW policy \in Policies, Decide(f, policy)
  PROVE  /\ Kept(f, {"cached", "meta", "body", "began", "saving"})
         /\ \/ fetch'[f].pc = "return" /\ fetch'[f].outcome \in {"fresh_hit", "stale_hit"}
            \/ fetch'[f].pc = "network" /\ Kept(f, {"outcome"})
<1>1. fetch \in [Fetchers -> FetchState] /\ fetch[f] \in FetchState
  BY DEF TypeOK
<1>. USE <1>1 DEF At, Step, Return, Rests, Kept, FetchState
<1>2. ASSUME NEW outcome \in {"fresh_hit", "stale_hit"}, Return(f, fetch[f], outcome)
      PROVE  /\ Kept(f, {"cached", "meta", "body", "began", "saving"})
             /\ fetch'[f].pc = "return" /\ fetch'[f].outcome = outcome
  BY <1>2
<1>3. CASE Step(f, [fetch[f] EXCEPT !.pc = "network"])
  BY <1>3
<1>. QED
  BY <1>2, <1>3 DEF Decide

LEMMA NetworkFailsEffect ==
  ASSUME TypeOK, NEW f \in Fetchers, NetworkFails(f)
  PROVE  \/ Rests(f)
         \/ /\ fetch'[f].pc = "return" /\ fetch'[f].outcome = "stale_hit" /\ fetch[f].cached
            /\ Kept(f, {"cached", "meta", "body", "began", "saving"})
<1>1. fetch \in [Fetchers -> FetchState] /\ fetch[f] \in FetchState
  BY DEF TypeOK
<1>. USE <1>1 DEF At, Step, Return, Rests, Kept, FetchState
<1>2. CASE fetch[f].cached /\ Return(f, fetch[f], "stale_hit")
  BY <1>2
<1>3. CASE Step(f, Idle)
  BY <1>3
<1>. QED
  BY <1>2, <1>3 DEF NetworkFails

LEMMA NotModifiedEffect ==
  ASSUME TypeOK, NEW f \in Fetchers, NotModified(f)
  PROVE  /\ fetch'[f].pc = "open" /\ fetch[f].cached /\ fetch[f].meta = origin
         /\ Kept(f, {"cached", "meta", "body", "began", "saving"})
<1>1. fetch \in [Fetchers -> FetchState] /\ fetch[f] \in FetchState
  BY DEF TypeOK
<1>. USE <1>1 DEF At, Step, Return, Rests, Kept, FetchState
<1>. QED
  BY DEF NotModified

LEMMA NewResponseEffect ==
  ASSUME TypeOK, NEW f \in Fetchers, NewResponse(f)
  PROVE  /\ fetch'[f].pc = "open" /\ fetch'[f].meta = origin /\ fetch'[f].body = origin
         /\ Kept(f, {"cached", "began", "saving"})
<1>1. fetch \in [Fetchers -> FetchState] /\ fetch[f] \in FetchState
  BY DEF TypeOK
<1>. USE <1>1 DEF At, Step, Return, Rests, Kept, FetchState
<1>. QED
  BY DEF NewResponse

LEMMA OpenedEffect ==
  ASSUME TypeOK, NEW f \in Fetchers, NEW i \in Inodes, Opened(f, i)
  PROVE  /\ fetch'[f].pc = "write" /\ fetch'[f].fd = i
         /\ Kept(f, {"cached", "meta", "body", "began", "outcome", "saving"})
<1>1. fetch \in [Fetchers -> FetchState] /\ fetch[f] \in FetchState
  BY DEF TypeOK
<1>. USE <1>1 DEF At, Step, Return, Rests, Kept, FetchState
<1>. QED
  BY DEF Opened

LEMMA WriteTempEffect ==
  ASSUME TypeOK, NEW f \in Fetchers, WriteTemp(f)
  PROVE  /\ fetch'[f].pc = "rename"
         /\ Kept(f, {"cached", "meta", "body", "began", "outcome", "saving"})
<1>1. fetch \in [Fetchers -> FetchState] /\ fetch[f] \in FetchState
  BY DEF TypeOK
<1>. USE <1>1 DEF At, Step, Return, Rests, Kept, FetchState
<1>. QED
  BY DEF WriteTemp

LEMMA RenameTempEffect ==
  ASSUME TypeOK, NEW f \in Fetchers, RenameTemp(f)
  PROVE  \/ Rests(f) /\ UNCHANGED <<path, temp>> /\ TempOf(f)[fetch[f].saving] = NoInode
         \/ /\ fetch'[f].pc = "open" /\ fetch[f].saving = "meta" /\ fetch'[f].saving = "body"
            /\ TempOf(f)["meta"] # NoInode
            /\ path' = [path EXCEPT !["meta"] = TempOf(f)["meta"]]
            /\ Kept(f, {"cached", "meta", "body", "began", "outcome"})
         \/ /\ fetch'[f].pc = "return" /\ fetch[f].saving = "body"
            /\ TempOf(f)["body"] # NoInode
            /\ path' = [path EXCEPT !["body"] = TempOf(f)["body"]]
            /\ Kept(f, {"cached", "meta", "body", "began", "outcome", "saving"})
<1>1. fetch \in [Fetchers -> FetchState] /\ fetch[f] \in FetchState
  BY DEF TypeOK
<1>. USE <1>1 DEF At, Step, Return, Rests, Kept, FetchState
<1>2. CASE TempOf(f)[fetch[f].saving] = NoInode
  BY <1>2 DEF RenameTemp
<1>3. CASE TempOf(f)[fetch[f].saving] # NoInode /\ fetch[f].saving = "meta"
  <2>1. fetch'[f] = [fetch[f] EXCEPT !.pc = "open", !.saving = "body"]
    BY <1>3 DEF RenameTemp
  <2>. QED
    BY <1>3, <2>1 DEF RenameTemp
<1>4. CASE TempOf(f)[fetch[f].saving] # NoInode /\ fetch[f].saving = "body"
  <2>1. fetch'[f] = [fetch[f] EXCEPT !.pc = "return"]
    BY <1>4 DEF RenameTemp
  <2>. QED
    BY <1>4, <2>1 DEF RenameTemp
<1>. QED
  BY <1>2, <1>3, <1>4 DEF Kinds

LEMMA EndsEffect ==
  ASSUME TypeOK, NEW f \in Fetchers, SaveFails(f) \/ Deliver(f)
  PROVE  Rests(f)
<1>1. fetch \in [Fetchers -> FetchState] /\ fetch[f] \in FetchState
  BY DEF TypeOK
<1>. USE <1>1 DEF At, Step, Return, Rests, Kept, FetchState
<1>. QED
  BY DEF SaveFails, Deliver

(* What a step leaves to the other fetches: nothing of what a Save of      *)
(* theirs is writing is touched.                                           *)
LEMMA OthersKeep ==
  ASSUME TypeOK, HasInode, Disjoint, Alone, Saves, OneEach, NEW f \in Fetchers, FetchStep(f),
         NEW g \in Fetchers, g # f, fetch[g].pc \in {"write", "rename"}
  PROVE  /\ temp'[ProcessOf[g]] = temp[ProcessOf[g]]
         /\ content'[TempOf(g)[fetch[g].saving]] = content[TempOf(g)[fetch[g].saving]]
<1>1. /\ DiskOK /\ fetch[f] \in FetchState /\ fetch[g] \in FetchState
      /\ ProcessOf[f] \in Processes /\ ProcessOf[g] \in Processes
      /\ NoInode \notin Inodes
  BY CacheAssumption DEF TypeOK, DiskOK
<1>. DEFINE p == ProcessOf[f]
            k == fetch[f].saving
            q == ProcessOf[g]
            j == fetch[g].saving
<1>2. k \in Kinds /\ j \in Kinds /\ p \in Processes /\ q \in Processes
  BY <1>1 DEF FetchState
<1>3. Saved(f) /\ Saved(g)
  BY DEF Saves
<1>4. temp[q][j] # NoInode
  BY <1>3 DEF Saved, TempOf
<1>5. CASE UNCHANGED <<temp, content>>
  BY <1>5 DEF TempOf
<1>6. ASSUME ~At(f, "idle")
      PROVE  p # q
  BY <1>6 DEF Alone, Active, At, OneEach, DistinctProcesses
<1>7. CASE OpenTemp(f)
  <2>1. PICK i \in Inodes : Opened(f, i)
    BY <1>7, OpenTempOutcome
  <2>2. /\ p # q /\ temp' = [temp EXCEPT ![p][k] = i] /\ content' = [content EXCEPT ![i] = 0]
    BY <1>6, <2>1 DEF Opened, At
  <2>3. i # temp[q][j]
    <3>1. CASE temp[p][k] = NoInode
      BY <2>1, <3>1, <1>2 DEF Opened, TempOf, UsedInodes
    <3>2. CASE temp[p][k] # NoInode
      BY <2>1, <3>2, <1>2, <2>2 DEF Opened, TempOf, Disjoint
    <3>. QED
      BY <3>1, <3>2
  <2>. QED
    BY <1>1, <1>2, <1>4, <2>2, <2>3 DEF DiskOK, TempOf
<1>8. CASE WriteTemp(f)
  <2>1. /\ p # q /\ fetch[f].fd = temp[p][k] /\ temp' = temp
        /\ content' = [content EXCEPT ![fetch[f].fd] = fetch[f][k]]
    BY <1>3, <1>6, <1>8 DEF WriteTemp, At, Saved, TempOf
  <2>2. fetch[f].fd # temp[q][j]
    BY <1>2, <1>4, <2>1 DEF Disjoint
  <2>. QED
    BY <1>1, <1>2, <1>4, <2>1, <2>2 DEF DiskOK, TempOf
<1>9. CASE RenameTemp(f)
  <2>1. p # q /\ content' = content
    BY <1>6, <1>9 DEF RenameTemp, At
  <2>2. temp' = temp \/ temp' = [temp EXCEPT ![p][k] = NoInode]
    BY <1>9 DEF RenameTemp
  <2>. QED
    BY <1>1, <2>1, <2>2 DEF DiskOK
<1>. QED
  BY <1>5, <1>7, <1>8, <1>9 DEF FetchStep, Fetch, LoadMetadata, LoadBody, Delete, Decide,
     NetworkFails, NotModified, NewResponse, SaveFails, Deliver, diskVars

LEMMA SavesNext ==
  ASSUME TypeOK, HasInode, Disjoint, Alone, Saves, NEW f \in Fetchers, FetchStep(f)
  PROVE  Saves'
<1>. SUFFICES ASSUME OneEach', NEW g \in Fetchers
              PROVE  Saved(g)'
  BY DEF Saves
<1>1. OneEach /\ Saved(f) /\ Saved(g)
  BY CalmFalls DEF Saves
<1>2. /\ fetch' = [fetch EXCEPT ![f] = fetch'[f]]
      /\ fetch \in [Fetchers -> FetchState] /\ fetch[f] \in FetchState
  BY FetchMoves DEF Moved, TypeOK
<1>3. CASE g # f
  <2>1. fetch'[g] = fetch[g]
    BY <1>2, <1>3
  <2>2. CASE fetch[g].pc \in {"write", "rename"}
    BY <1>1, <1>3, <2>1, <2>2, OthersKeep DEF Saved, At, TempOf
  <2>3. CASE fetch[g].pc \notin {"write", "rename"}
    BY <2>1, <2>3 DEF Saved, At
  <2>. QED
    BY <2>2, <2>3
<1>4. CASE g = f
  <2>1. CASE OpenTemp(f)
    <3>1. PICK i \in Inodes : Opened(f, i)
      BY <2>1, OpenTempOutcome
    <3>2. /\ fetch'[f].pc = "write" /\ fetch'[f].fd = i /\ fetch'[f].saving = fetch[f].saving
      BY <1>2, <3>1 DEF Opened, FetchState
    <3>3. temp' = [temp EXCEPT ![ProcessOf[f]][fetch[f].saving] = i]
      BY <3>1 DEF Opened
    <3>4. temp'[ProcessOf[f]][fetch[f].saving] = i
      BY <1>2, <3>3, CacheAssumption DEF TypeOK, FetchState
    <3>. QED
      BY <1>4, <3>2, <3>4, CacheAssumption DEF Saved, At, TempOf
  <2>2. CASE WriteTemp(f)
    <3>1. /\ fetch'[f].pc = "rename" /\ fetch'[f].saving = fetch[f].saving
          /\ fetch'[f].meta = fetch[f].meta /\ fetch'[f].body = fetch[f].body
      BY <1>2, <2>2 DEF WriteTemp, Step, FetchState
    <3>2. fetch'[f][fetch[f].saving] = fetch[f][fetch[f].saving]
      BY <1>2, <3>1 DEF FetchState, Kinds
    <3>3. /\ temp' = temp /\ content' = [content EXCEPT ![fetch[f].fd] = fetch[f][fetch[f].saving]]
          /\ fetch[f].fd = TempOf(f)[fetch[f].saving] /\ TempOf(f)[fetch[f].saving] # NoInode
      BY <1>1, <2>2 DEF WriteTemp, At, Saved
    <3>4. fetch[f].fd \in Inodes
      BY <1>2, <3>3 DEF FetchState
    <3>. QED
      BY <1>4, <3>1, <3>2, <3>3, <3>4 DEF Saved, At, TempOf, TypeOK
  <2>3. CASE fetch'[f].pc \notin {"write", "rename"}
    BY <1>4, <2>3 DEF Saved, At
  <2>4. CASE RenameTemp(f) \/ SaveFails(f) \/ Deliver(f) \/ NetworkFails(f)
    BY <2>3, <2>4, RenameTempEffect, EndsEffect, NetworkFailsEffect DEF Rests, Idle
  <2>5. CASE Fetch(f) \/ LoadMetadata(f) \/ LoadBody(f) \/ Delete(f)
    BY <2>3, <2>5, FetchEffect, LoadMetadataEffect, LoadBodyEffect, DeleteEffect
  <2>6. CASE (\E policy \in Policies : Decide(f, policy)) \/ NotModified(f) \/ NewResponse(f)
    BY <2>3, <2>6, DecideEffect, NotModifiedEffect, NewResponseEffect
  <2>. QED
    BY <2>1, <2>2, <2>4, <2>5, <2>6 DEF FetchStep
<1>. QED
  BY <1>3, <1>4

(* Save never writes to a file of the entry.                               *)
LEMMA EntryUntouched ==
  ASSUME TypeOK, HasInode, Disjoint, Saves, OneEach, NEW f \in Fetchers,
         OpenTemp(f) \/ WriteTemp(f), NEW k \in Kinds, path[k] # NoInode
  PROVE  path' = path /\ content'[path[k]] = content[path[k]]
<1>1. /\ DiskOK /\ fetch[f] \in FetchState /\ ProcessOf[f] \in Processes
      /\ fetch[f].saving \in Kinds
  BY CacheAssumption DEF TypeOK, DiskOK, FetchState
<1>2. CASE OpenTemp(f)
  <2>1. PICK i \in Inodes : Opened(f, i)
    BY <1>2, OpenTempOutcome
  <2>2. i # path[k]
    <3>1. CASE TempOf(f)[fetch[f].saving] = NoInode
      BY <2>1, <3>1 DEF Opened, UsedInodes
    <3>2. CASE TempOf(f)[fetch[f].saving] # NoInode
      BY <1>1, <2>1, <3>2 DEF Opened, TempOf, Disjoint
    <3>. QED
      BY <3>1, <3>2
  <2>. QED
    BY <1>1, <2>1, <2>2 DEF Opened, DiskOK
<1>3. CASE WriteTemp(f)
  <2>1. fetch[f].fd # path[k]
    BY <1>1, <1>3 DEF Saves, Saved, WriteTemp, At, TempOf, Disjoint
  <2>. QED
    BY <1>1, <1>3, <2>1 DEF WriteTemp, DiskOK
<1>. QED
  BY <1>2, <1>3

LEMMA HoldsNext ==
  ASSUME TypeOK, HasInode, Whole, Holds, NEW f \in Fetchers, FetchStep(f)
  PROVE  Holds'
<1>. SUFFICES ASSUME OneEach', NEW g \in Fetchers
              PROVE  Held(g)'
  BY DEF Holds
<1>1. OneEach /\ Held(f) /\ Held(g) /\ FilesAreWhole
  BY CalmFalls DEF Holds, Whole
<1>2. CASE g # f
  BY <1>1, <1>2, FetchMoves DEF Moved, Held, TypeOK
<1>3. CASE g = f
  <2>. USE <1>1, <1>3 DEF Held, At, Kept, Rests, Idle
  <2>1. origin # 0 /\ "body" \in Kinds
    BY CacheAssumption DEF TypeOK, Kinds
  <2>2. CASE Fetch(f)
    BY <2>2, FetchEffect
  <2>3. CASE LoadMetadata(f)
    BY <2>3, LoadMetadataEffect
  <2>4. CASE LoadBody(f)
    BY <2>1, <2>4, LoadBodyEffect DEF FilesAreWhole
  <2>5. CASE Delete(f)
    BY <2>5, DeleteEffect
  <2>6. ASSUME NEW policy \in Policies, Decide(f, policy)
        PROVE  Held(f)'
    BY <2>6, DecideEffect
  <2>7. CASE NetworkFails(f)
    BY <2>7, NetworkFailsEffect
  <2>8. CASE NotModified(f)
    BY <2>1, <2>8, NotModifiedEffect
  <2>9. CASE NewResponse(f)
    BY <2>1, <2>9, NewResponseEffect
  <2>10. CASE OpenTemp(f)
    <3>1. PICK i \in Inodes : Opened(f, i)
      BY <2>10, OpenTempOutcome
    <3>2. At(f, "open")
      BY <3>1 DEF Opened
    <3>. QED
      BY <3>1, <3>2, OpenedEffect
  <2>11. CASE WriteTemp(f)
    <3>1. fetch[f].pc \in {"write", "rename"}
      BY <2>11 DEF WriteTemp
    <3>. QED
      BY <2>11, <3>1, WriteTempEffect
  <2>12. CASE RenameTemp(f)
    <3>1. fetch[f].pc \in {"write", "rename"}
      BY <2>12 DEF RenameTemp
    <3>. QED
      BY <2>12, <3>1, RenameTempEffect
  <2>13. CASE SaveFails(f) \/ Deliver(f)
    BY <2>13, EndsEffect
  <2>. QED
    BY <2>2, <2>3, <2>4, <2>5, <2>6, <2>7, <2>8, <2>9, <2>10, <2>11, <2>12, <2>13 DEF FetchStep
<1>. QED
  BY <1>2, <1>3

LEMMA WholeNext ==
  ASSUME TypeOK, HasInode, Disjoint, Saves, Holds, Whole, NEW f \in Fetchers, FetchStep(f)
  PROVE  Whole'
<1>. SUFFICES ASSUME OneEach', NEW k \in Kinds, path'[k] # NoInode
              PROVE  content'[path'[k]] # 0
  BY DEF Whole, FilesAreWhole
<1>1. OneEach /\ Saved(f) /\ Held(f) /\ FilesAreWhole
  BY CalmFalls DEF Saves, Holds, Whole
<1>2. path \in [Kinds -> Inodes \cup {NoInode}] /\ fetch[f] \in FetchState
  BY DEF TypeOK
<1>3. CASE UNCHANGED <<path, content>>
  BY <1>1, <1>3 DEF FilesAreWhole
<1>4. CASE Delete(f)
  BY <1>1, <1>2, <1>4 DEF Delete, FilesAreWhole, Kinds
<1>5. CASE OpenTemp(f) \/ WriteTemp(f)
  <2>1. path' = path
    BY <1>5 DEF OpenTemp, WriteTemp
  <2>. QED
    BY <1>1, <1>5, <2>1, EntryUntouched DEF FilesAreWhole
<1>6. CASE RenameTemp(f)
  <2>1. content' = content /\ At(f, "rename")
    BY <1>6 DEF RenameTemp
  <2>2. CASE path' = path
    BY <1>1, <2>1, <2>2 DEF FilesAreWhole
  <2>3. CASE path' = [path EXCEPT ![fetch[f].saving] = TempOf(f)[fetch[f].saving]]
    <3>1. fetch[f].meta # 0 /\ fetch[f].body # 0
      BY <1>1, <2>1 DEF Held, At
    <3>2. content[TempOf(f)[fetch[f].saving]] # 0
      BY <1>1, <1>2, <2>1, <3>1 DEF Saved, FetchState, Kinds
    <3>3. path'[k] = path[k] \/ path'[k] = TempOf(f)[fetch[f].saving]
      BY <1>2, <2>3
    <3>. QED
      BY <1>1, <2>1, <3>2, <3>3 DEF FilesAreWhole
  <2>. QED
    BY <1>6, <2>2, <2>3 DEF RenameTemp
<1>. QED
  BY <1>3, <1>4, <1>5, <1>6 DEF FetchStep, Fetch, LoadMetadata, LoadBody, Decide, NetworkFails,
     NotModified, NewResponse, SaveFails, Deliver, diskVars

LEMMA AloneNext ==
  ASSUME TypeOK, HasInode, Alone, NEW f \in Fetchers, FetchStep(f)
  PROVE  Alone'
<1>. SUFFICES ASSUME calm', NEW g \in Fetchers, NEW h \in Fetchers, Active(g)', Active(h)'
              PROVE  g = h
  BY DEF Alone
<1>1. calm /\ fetch' = [fetch EXCEPT ![f] = fetch'[f]]
  BY CalmFalls, FetchMoves DEF Moved
<1>2. \A e \in Fetchers : Active(e)' => Active(e) \/ e = f
  BY <1>1 DEF Active, At, TypeOK
<1>3. CASE Fetch(f)
  BY <1>2, <1>3 DEF Fetch, Active
<1>4. CASE Active(f)
  BY <1>1, <1>2, <1>4 DEF Alone
<1>. QED
  BY <1>3, <1>4 DEF FetchStep, LoadMetadata, LoadBody, Delete, Decide, NetworkFails, NotModified,
     NewResponse, OpenTemp, WriteTemp, RenameTemp, SaveFails, Deliver, Active, At

(* The step of the only active fetch, or of the first.                     *)
LEMMA PairedNext ==
  ASSUME TypeOK, HasInode, Disjoint, Saves, Whole, calm', NEW f \in Fetchers, FetchStep(f),
         IF Active(f) THEN Paired(f) ELSE Agree
  PROVE  IF Active(f)' THEN Paired(f)' ELSE Agree'
<1>1. calm /\ OneEach /\ Saved(f) /\ FilesAreWhole
  BY CalmFalls DEF OneEach, Saves, Whole
<1>2. /\ path \in [Kinds -> Inodes \cup {NoInode}] /\ fetch[f] \in FetchState
      /\ "meta" \in Kinds /\ "body" \in Kinds
  BY DEF TypeOK, Kinds
<1>. USE DEF Paired, Saving, Active, At, Kept, diskVars
<1>3. CASE Fetch(f)
  <2>1. Agree /\ UNCHANGED diskVars
    BY <1>3 DEF Fetch
  <2>2. Agree'
    BY <2>1 DEF Agree
  <2>3. fetch'[f].pc = "loadMeta" /\ ~fetch'[f].cached /\ fetch'[f].saving = "meta"
    BY <1>3, FetchEffect
  <2>. QED
    BY <2>2, <2>3
<1>4. CASE LoadMetadata(f)
  <2>1. Agree /\ UNCHANGED diskVars
    BY <1>4 DEF LoadMetadata
  <2>2. Agree'
    BY <2>1 DEF Agree
  <2>3. fetch'[f].pc # "removeMeta"
    BY <1>1, <1>2, <1>4, LoadMetadataEffect DEF FilesAreWhole
  <2>4. Paired(f) /\ At(f, "loadMeta")
    BY <1>4 DEF LoadMetadata
  <2>. QED
    BY <1>4, <2>1, <2>2, <2>3, <2>4, LoadMetadataEffect
<1>5. CASE LoadBody(f)
  <2>1. Paired(f) /\ At(f, "loadBody") /\ UNCHANGED diskVars
    BY <1>5 DEF LoadBody
  <2>2. Agree' /\ path["body"] # NoInode /\ content[path["body"]] = fetch[f].meta
    BY <2>1 DEF Agree
  <2>. QED
    BY <1>5, <2>1, <2>2, LoadBodyEffect
<1>6. CASE Delete(f)
  BY <1>6 DEF Delete
<1>7. ASSUME NEW policy \in Policies, Decide(f, policy)
      PROVE  IF Active(f)' THEN Paired(f)' ELSE Agree'
  <2>1. Paired(f) /\ At(f, "decide") /\ UNCHANGED diskVars
    BY <1>7 DEF Decide
  <2>2. Agree'
    BY <2>1 DEF Agree
  <2>. QED
    BY <1>7, <2>1, <2>2, DecideEffect
<1>8. CASE NetworkFails(f)
  <2>1. Paired(f) /\ At(f, "network") /\ UNCHANGED diskVars
    BY <1>8 DEF NetworkFails
  <2>2. Agree'
    BY <2>1 DEF Agree
  <2>. QED
    BY <1>8, <2>1, <2>2, NetworkFailsEffect DEF Rests, Idle
<1>9. CASE NotModified(f) \/ NewResponse(f)
  <2>1. Paired(f) /\ At(f, "network") /\ UNCHANGED diskVars
    BY <1>9 DEF NotModified, NewResponse
  <2>2. Agree'
    BY <2>1 DEF Agree
  <2>. QED
    BY <1>9, <2>1, <2>2, NotModifiedEffect, NewResponseEffect
<1>10. CASE OpenTemp(f) \/ WriteTemp(f)
  <2>1. Paired(f) /\ fetch[f].pc \in {"open", "write"} /\ fetch[f].saving \in Kinds
    BY <1>2, <1>10 DEF OpenTemp, WriteTemp, FetchState
  <2>2. path' = path
    BY <1>10 DEF OpenTemp, WriteTemp
  <2>3. \A k \in Kinds : path[k] # NoInode => content'[path[k]] = content[path[k]]
    BY <1>1, <1>10, EntryUntouched
  <2>4. /\ Agree => Agree'
        /\ path["meta"] # NoInode => content'[path'["meta"]] = content[path["meta"]]
    BY <1>2, <2>2, <2>3 DEF Agree
  <2>5. /\ fetch'[f].pc \in {"write", "rename"}
        /\ Kept(f, {"cached", "meta", "body", "began", "outcome", "saving"})
    BY <1>10, OpenTempOutcome, OpenedEffect, WriteTempEffect
  <2>. QED
    BY <2>1, <2>2, <2>4, <2>5
<1>11. CASE RenameTemp(f)
  <2>1. Paired(f) /\ At(f, "rename") /\ content' = content /\ TempOf(f)[fetch[f].saving] # NoInode
    BY <1>1, <1>11 DEF RenameTemp, Saved
  <2>2. CASE fetch[f].saving = "meta"
    <3>1. /\ fetch'[f].pc = "open" /\ fetch'[f].saving = "body" /\ Kept(f, {"meta", "body"})
          /\ path' = [path EXCEPT !["meta"] = TempOf(f)["meta"]]
      BY <1>11, <2>1, <2>2, RenameTempEffect
    <3>2. path'["meta"] # NoInode /\ content'[path'["meta"]] = fetch'[f].meta
      BY <1>1, <1>2, <2>1, <2>2, <3>1 DEF Saved
    <3>. QED
      BY <2>1, <3>1, <3>2
  <2>3. CASE fetch[f].saving = "body"
    <3>1. /\ fetch'[f].pc = "return" /\ Kept(f, {"meta", "body"})
          /\ path' = [path EXCEPT !["body"] = TempOf(f)["body"]]
      BY <1>11, <2>1, <2>3, RenameTempEffect
    <3>2. /\ path'["meta"] = path["meta"] /\ path'["body"] = TempOf(f)["body"]
          /\ content[path["meta"]] = fetch[f].meta /\ content[TempOf(f)["body"]] = fetch[f].body
      BY <1>1, <1>2, <2>1, <2>3, <3>1 DEF Saved
    <3>3. Agree'
      BY <2>1, <2>3, <3>2 DEF Agree
    <3>. QED
      BY <2>1, <3>1, <3>3
  <2>. QED
    BY <1>2, <2>2, <2>3 DEF FetchState, Kinds
<1>12. CASE SaveFails(f)
  BY <1>12 DEF SaveFails
<1>13. CASE Deliver(f)
  <2>1. Paired(f) /\ At(f, "return") /\ UNCHANGED diskVars
    BY <1>13 DEF Deliver
  <2>2. Agree'
    BY <2>1 DEF Agree
  <2>. QED
    BY <1>13, <2>2, EndsEffect DEF Rests, Idle
<1>. QED
  BY <1>3, <1>4, <1>5, <1>6, <1>7, <1>8, <1>9, <1>10, <1>11, <1>12, <1>13 DEF FetchStep

LEMMA PairsNext ==
  ASSUME TypeOK, HasInode, Disjoint, Alone, Saves, Whole, Pairs, NEW f \in Fetchers, FetchStep(f)
  PROVE  Pairs'
<1>. SUFFICES ASSUME calm'
              PROVE  Quiet' /\ \A g \in Fetchers : Active(g)' => Paired(g)'
  BY DEF Pairs
<1>1. calm /\ Quiet /\ \A g \in Fetchers : Active(g) => Paired(g)
  BY CalmFalls DEF Pairs
<1>2. \A g \in Fetchers : g # f => ~Active(g) /\ ~Active(g)'
  <2>1. \A g \in Fetchers : g # f => ~Active(g)
    <3>1. CASE Fetch(f)
      BY <3>1 DEF Fetch, Active
    <3>2. CASE Active(f)
      BY <1>1, <3>2 DEF Alone
    <3>. QED
      BY <3>1, <3>2 DEF FetchStep, LoadMetadata, LoadBody, Delete, Decide, NetworkFails,
         NotModified, NewResponse, OpenTemp, WriteTemp, RenameTemp, SaveFails, Deliver, Active, At
  <2>. QED
    BY <2>1, FetchMoves DEF Moved, Active, At, TypeOK
<1>3. IF Active(f) THEN Paired(f) ELSE Agree
  BY <1>1, <1>2 DEF Quiet, Active
<1>4. IF Active(f)' THEN Paired(f)' ELSE Agree'
  BY <1>3, PairedNext
<1>. QED
  BY <1>2, <1>4 DEF Quiet, Active

LEMMA CurrentsNext ==
  ASSUME TypeOK, HasInode, Currents, NEW f \in Fetchers, FetchStep(f)
  PROVE  Currents'
<1>. SUFFICES ASSUME NEW g \in Fetchers
              PROVE  Recent(g)'
  BY DEF Currents
<1>1. /\ Recent(f) /\ Recent(g) /\ origin \in Nat /\ fetch[f] \in FetchState
      /\ fetch[f].began \in Nat
  BY CacheAssumption DEF Currents, TypeOK, FetchState, Versions
<1>2. origin' = origin
  BY DEF FetchStep, Fetch, LoadMetadata, LoadBody, Delete, Decide, NetworkFails, NotModified,
     NewResponse, OpenTemp, WriteTemp, RenameTemp, SaveFails, Deliver
<1>3. CASE g # f
  BY <1>1, <1>2, <1>3, FetchMoves DEF Moved, Recent, TypeOK
<1>4. CASE g = f
  <2>. USE <1>1, <1>2, <1>4 DEF Recent, At, Kept, Rests, Idle
  <2>1. CASE Fetch(f)
    BY <2>1, FetchEffect
  <2>2. CASE LoadMetadata(f)
    <3>1. fetch[f].pc \in {"loadMeta", "loadBody"}
      BY <2>2 DEF LoadMetadata
    <3>. QED
      BY <2>2, <3>1, LoadMetadataEffect
  <2>3. CASE LoadBody(f)
    <3>1. fetch[f].pc \in {"loadMeta", "loadBody"}
      BY <2>3 DEF LoadBody
    <3>. QED
      BY <2>3, <3>1, LoadBodyEffect
  <2>4. CASE Delete(f)
    BY <2>4, DeleteEffect
  <2>5. ASSUME NEW policy \in Policies, Decide(f, policy)
        PROVE  Recent(f)'
    <3>1. At(f, "decide")
      BY <2>5 DEF Decide
    <3>. QED
      BY <2>5, <3>1, DecideEffect
  <2>6. CASE NetworkFails(f)
    BY <2>6, NetworkFailsEffect
  <2>7. CASE NotModified(f)
    BY <2>7, NotModifiedEffect
  <2>8. CASE NewResponse(f)
    BY <2>8, NewResponseEffect
  <2>9. CASE OpenTemp(f)
    BY <2>9, OpenTempOutcome, OpenedEffect
  <2>10. CASE WriteTemp(f)
    BY <2>10, WriteTempEffect
  <2>11. CASE RenameTemp(f)
    BY <2>11, RenameTempEffect
  <2>12. CASE SaveFails(f) \/ Deliver(f)
    BY <2>12, EndsEffect
  <2>. QED
    BY <2>1, <2>2, <2>3, <2>4, <2>5, <2>6, <2>7, <2>8, <2>9, <2>10, <2>11, <2>12 DEF FetchStep
<1>. QED
  BY <1>3, <1>4

-----------------------------------------------------------------------------
(* The steps that are no fetch's, and the inductive invariant.             *)

IInv ==
  TypeOK /\ Alone /\ Disjoint /\ Saves /\ Holds /\ Whole /\ Pairs /\ Currents

LEMMA InitIInv == Init => IInv
<1>. SUFFICES ASSUME Init
              PROVE  IInv
  OBVIOUS
<1>. USE CacheAssumption DEF Init, Idle, At
<1>1. TypeOK
  BY DEF TypeOK, FetchState, FetchPCs, Outcomes, Versions, Kinds
<1>2. Alone /\ Saves /\ Holds /\ Currents
  BY DEF Alone, Active, Saves, Saved, Holds, Held, Currents, Recent
<1>3. Disjoint /\ Whole /\ Pairs
  BY DEF Disjoint, Whole, FilesAreWhole, Pairs, Quiet, Agree, Active, Kinds
<1>. QED
  BY <1>1, <1>2, <1>3 DEF IInv

LEMMA FetchIInv ==
  ASSUME IInv, NEW f \in Fetchers, FetchStep(f)
  PROVE  IInv'
<1>1. HasInode
  BY InodesLast DEF IInv
<1>. QED
  BY <1>1, TypeNext, AloneNext, DisjointNext, SavesNext, HoldsNext, WholeNext, PairsNext,
     CurrentsNext DEF IInv

LEMMA OriginIInv ==
  ASSUME IInv, OriginChanges
  PROVE  IInv'
<1>1. /\ UNCHANGED <<path, temp, content, fetch, faults, calm>>
      /\ origin < MaxVersion /\ origin' = origin + 1
  BY DEF OriginChanges, diskVars
<1>2. TypeOK'
  BY <1>1, CacheAssumption DEF IInv, TypeOK, At
<1>3. Currents'
  <2>1. \A f \in Fetchers : fetch[f].began \in Nat /\ origin \in Nat
    BY CacheAssumption DEF IInv, TypeOK, FetchState, Versions
  <2>. QED
    BY <1>1, <2>1 DEF IInv, Currents, Recent
<1>4. Alone' /\ Disjoint' /\ Pairs'
  BY <1>1 DEF IInv, Alone, Active, At, Disjoint, Pairs, Quiet, Paired, Saving, Agree
<1>5. Saves' /\ Holds' /\ Whole'
  BY <1>1 DEF IInv, Saves, Saved, Holds, Held, Whole, FilesAreWhole, OneEach, DistinctProcesses,
     TempOf, At
<1>. QED
  BY <1>2, <1>3, <1>4, <1>5 DEF IInv

LEMMA CrashIInv ==
  ASSUME IInv, NEW p \in Processes, Crash(p)
  PROVE  IInv'
<1>1. /\ UNCHANGED <<path, temp, content, origin>> /\ ~calm'
      /\ faults < MaxFaults /\ faults' = faults + 1
  BY DEF Crash, diskVars
<1>2. fetch' = [f \in Fetchers |-> IF ProcessOf[f] = p THEN Idle ELSE fetch[f]]
  BY DEF Crash
<1>3. \A f \in Fetchers : fetch'[f] = Idle \/ fetch'[f] = fetch[f]
  BY <1>2
<1>4. /\ Idle \in FetchState /\ Idle.fd = NoInode /\ Idle.pc = "idle"
      /\ ~Idle.cached /\ Idle.began = 0 /\ Idle.outcome = "none"
  BY CacheAssumption DEF Idle, FetchState, FetchPCs, Outcomes, Versions, Kinds
<1>5. TypeOK'
  <2>1. fetch' \in [Fetchers -> FetchState]
    BY <1>2, <1>4 DEF IInv, TypeOK
  <2>2. \A f \in Fetchers : fetch'[f].fd = NoInode <=> ~(fetch'[f].pc = "write")
    BY <1>3, <1>4 DEF IInv, TypeOK, At
  <2>3. calm' = FALSE
    BY DEF Crash
  <2>4. faults' \in 0..MaxFaults
    BY <1>1, CacheAssumption DEF IInv, TypeOK
  <2>. QED
    BY <1>1, <2>1, <2>2, <2>3, <2>4 DEF IInv, TypeOK, At
<1>6. Alone' /\ Disjoint' /\ Pairs'
  BY <1>1 DEF IInv, Alone, Disjoint, Pairs
<1>7. OneEach' => OneEach
  BY <1>1 DEF OneEach, DistinctProcesses
<1>8. Saves' /\ Holds'
  BY <1>1, <1>3, <1>4, <1>7 DEF IInv, Saves, Saved, Holds, Held, TempOf, At
<1>9. Whole'
  BY <1>1, <1>7 DEF IInv, Whole, FilesAreWhole
<1>10. Currents'
  <2>1. \A f \in Fetchers : Recent(f)'
    <3>. SUFFICES ASSUME NEW f \in Fetchers
                  PROVE  Recent(f)'
      OBVIOUS
    <3>1. Recent(f) /\ origin \in Nat
      BY CacheAssumption DEF IInv, Currents, TypeOK
    <3>2. CASE fetch'[f] = fetch[f]
      BY <1>1, <3>1, <3>2 DEF Recent
    <3>3. CASE fetch'[f] = Idle
      BY <1>1, <1>4, <3>1, <3>3 DEF Recent
    <3>. QED
      BY <1>3, <3>2, <3>3
  <2>. QED
    BY <2>1 DEF Currents
<1>. QED
  BY <1>5, <1>6, <1>8, <1>9, <1>10 DEF IInv

LEMMA NextIInv == IInv /\ [Next]_vars => IInv'
<1>. SUFFICES ASSUME IInv, [Next]_vars
              PROVE  IInv'
  OBVIOUS
<1>1. CASE UNCHANGED vars
  <2>1. UNCHANGED <<path, temp, content, fetch, origin, faults, calm>>
    BY <1>1 DEF vars
  <2>2. (TypeOK /\ Alone /\ Disjoint /\ Saves)'
    BY <2>1 DEF IInv, TypeOK, Alone, Active, At, Disjoint, Saves, Saved, OneEach,
       DistinctProcesses, TempOf
  <2>3. (Holds /\ Whole /\ Pairs /\ Currents)'
    BY <2>1 DEF IInv, Holds, Held, Whole, FilesAreWhole, OneEach, DistinctProcesses, Pairs, Quiet,
       Paired, Saving, Agree, Active, At, Currents, Recent
  <2>. QED
    BY <2>2, <2>3 DEF IInv
<1>. QED
  BY <1>1, FetchIInv, OriginIInv, CrashIInv DEF Next

LEMMA Invariance == Spec => []IInv
<1>. QED
  BY InitIInv, NextIInv, PTL DEF Spec

-----------------------------------------------------------------------------
(* The cache keeps its types, and only a goroutine inside WriteFile holds  *)
(* an open file (pkg/cache/store.go).                                      *)
THEOREM TypeInvariant == Spec => []TypeOK
<1>1. IInv => TypeOK
  BY DEF IInv
<1>. QED
  BY <1>1, Invariance, PTL

(* While no two goroutines of one process fetch the key, no file of the    *)
(* entry is ever seen half written: writeAtomically writes to a file that  *)
(* has no other name and renames it when it is whole, and that holds with  *)
(* any number of processes on one directory, crashes and full disks.       *)
THEOREM EntriesAreWhole == DistinctProcesses => (Spec => []FilesAreWhole)
<1>1. IInv /\ DistinctProcesses => FilesAreWhole
  BY DEF IInv, Whole, OneEach
<1>2. ASSUME DistinctProcesses
      PROVE  IInv => FilesAreWhole
  BY <1>1, <1>2
<1>3. ASSUME DistinctProcesses
      PROVE  Spec => []FilesAreWhole
  BY <1>2, <1>3, Invariance, PTL
<1>. QED
  BY <1>3

(* While no two fetches of the key overlap and no Save is cut short, Fetch *)
(* returns the body its metadata describes.                                *)
THEOREM PairsMatch == Spec => []ServedPairMatches
<1>1. IInv => ServedPairMatches
  BY DEF IInv, Pairs, Paired, Active, At, ServedPairMatches
<1>. QED
  BY <1>1, Invariance, PTL

(* And an answer that claims to come from the origin, fetched or confirmed *)
(* by a 304, is no older than the fetch.                                   *)
THEOREM AnswersAreCurrent == Spec => []ServedIsCurrent
<1>1. IInv => ServedIsCurrent
  BY DEF IInv, Pairs, Paired, Active, At, Currents, Recent, ServedIsCurrent
<1>. QED
  BY <1>1, Invariance, PTL
=============================================================================
