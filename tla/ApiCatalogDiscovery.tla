------------------------- MODULE ApiCatalogDiscovery -------------------------
(***************************************************************************)
(* DiscoverAPICatalog: API catalogs link to services and to other          *)
(* catalogs, and are followed depth first (pkg/discovery/api_catalog.go).  *)
(*                                                                         *)
(* frames is the call stack of the recursive visit: one frame per catalog  *)
(* that is being read, with the links it has left.                         *)
(***************************************************************************)
EXTENDS Naturals, Sequences

CONSTANTS
  Webs,       \* what the network may answer; catalogs maps each URL to links,
              \* a sequence of [rels, href]
  Missing     \* an answer that is an error or cannot be decoded

VARIABLES
  web,        \* what the network answers during the build
  frames,
  visited,    \* catalogs fetched
  found,      \* services in the order of their first link
  warned,     \* catalogs reported as part of a cycle
  walk        \* "idle", "walking", "done" or "failed"

walkVars == <<frames, visited, found, warned, walk>>

Elements(s) == {s[k] : k \in 1 .. Len(s)}
OnStack(stack) == {stack[k].url : k \in 1 .. Len(stack)}

\* nothing answers for a URL that is none of web's
Answer(url) == IF url \in DOMAIN web.catalogs THEN web.catalogs[url] ELSE Missing

\* a catalog that is being read further down the stack
FaultyInProgress(url, stack) == url \in OnStack(stack) \ visited
InProgress(url, stack) == url \in OnStack(stack)

\* the head of visit, with the links the frames below have left
Visit(url, stack) ==
  IF InProgress(url, stack)
  THEN warned' = warned \cup {url} /\ frames' = stack /\ UNCHANGED <<visited, walk>>
  ELSE IF url \in visited
  THEN UNCHANGED <<visited, warned, walk>> /\ frames' = stack
  ELSE IF Answer(url) = Missing
  THEN walk' = "failed" /\ frames' = << >> /\ UNCHANGED <<visited, warned>>
  ELSE /\ frames' = Append(stack, [url |-> url, left |-> Answer(url)])
       /\ visited' = visited \cup {url}
       /\ UNCHANGED <<warned, walk>>

WalkInit ==
  /\ frames = << >> /\ visited = {} /\ found = << >> /\ warned = {}
  /\ walk = "idle"

Top == frames[Len(frames)]
\* the stack once the next link of the top frame is taken
Advanced == [frames EXCEPT ![Len(frames)].left = Tail(@)]

\* visit of the root; fails at once when it cannot be fetched
BeginWalk(root) ==
  /\ found' = << >> /\ warned' = {}
  /\ IF Answer(root) = Missing
     THEN walk' = "failed" /\ frames' = << >> /\ visited' = {}
     ELSE /\ walk' = "walking" /\ visited' = {root}
          /\ frames' = <<[url |-> root, left |-> Answer(root)]>>

FollowItem ==
  /\ walk = "walking" /\ frames # << >> /\ Top.left # << >>
  /\ "item" \in Head(Top.left).rels
  /\ LET href == Head(Top.left).href IN
     found' = IF href \in Elements(found) THEN found ELSE Append(found, href)
  /\ frames' = Advanced
  /\ UNCHANGED <<visited, warned, walk>>

FollowCatalog ==
  /\ walk = "walking" /\ frames # << >> /\ Top.left # << >>
  /\ "item" \notin Head(Top.left).rels
  /\ "api-catalog" \in Head(Top.left).rels
  /\ Visit(Head(Top.left).href, Advanced)
  /\ UNCHANGED found

IgnoreLink ==
  /\ walk = "walking" /\ frames # << >> /\ Top.left # << >>
  /\ Head(Top.left).rels \cap {"item", "api-catalog"} = {}
  /\ frames' = Advanced
  /\ UNCHANGED <<visited, found, warned, walk>>

LeaveCatalog ==
  /\ walk = "walking" /\ frames # << >> /\ Top.left = << >>
  /\ frames' = SubSeq(frames, 1, Len(frames) - 1)
  /\ walk' = IF Len(frames) = 1 THEN "done" ELSE "walking"
  /\ UNCHANGED <<visited, found, warned>>

WalkStep == FollowItem \/ FollowCatalog \/ IgnoreLink \/ LeaveCatalog

-----------------------------------------------------------------------------
(* The walk against the graph of catalogs.                                 *)

Links(url, rel) ==
  IF Answer(url) = Missing THEN {}
  ELSE {l.href : l \in {k \in Elements(Answer(url)) :
                          rel = IF "item" \in k.rels THEN "item"
                                ELSE IF "api-catalog" \in k.rels THEN "api-catalog" ELSE ""}}
Nested(url) == Links(url, "api-catalog")

\* every catalog reached from roots over links: the least closed set
Reached(roots) ==
  {u \in DOMAIN web.catalogs :
     \A S \in SUBSET DOMAIN web.catalogs :
       roots \subseteq S /\ (\A v \in S : Nested(v) \subseteq S) => u \in S}

\* A walk that ends has visited every catalog that is reachable from its
\* root, has found the services of all of them and no other, each once, and
\* has warned of a cycle exactly when there is one among these catalogs.
WalkIsComplete(root) ==
  LET reached == Reached({root}) IN
  /\ visited = reached
  /\ Elements(found) = UNION {Links(u, "item") : u \in reached}
  /\ \A i, j \in 1 .. Len(found) : found[i] = found[j] => i = j
  /\ warned # {} <=> \E u \in reached : u \in Reached(Nested(u))
=============================================================================
