----------------------------- MODULE CatalogBuild -----------------------------
(***************************************************************************)
(* Build: the catalog of tools from a loaded configuration                 *)
(* (pkg/catalog/build.go, mcp_disabled_validation.go, pkg/mcp/openapi,     *)
(* pkg/overlay, pkg/openapi, pkg/discovery).                               *)
(*                                                                         *)
(* web is what every document, tool list and service root answers while    *)
(* the build runs.  A document is a function from its paths (the method    *)
(* is part of the path) to operations, a tool id is <<service, operation   *)
(* id>>, an operation id is a tuple, and a pattern is the prefix of the    *)
(* ids it matches: << >> is "**".  What a tool says beyond its id, its     *)
(* path and its backend is left out, and so are provenance and             *)
(* fingerprint.                                                            *)
(***************************************************************************)
EXTENDS ConfigMerge, ApiCatalogDiscovery, SequencesExt

CONSTANTS
  NameOrder,  \* all service names in their sorting order
  Slug        \* slugify, a function on names: it may map two to one

\* every name a file gives to a service, or to a source that gets a service of its name
ASSUME NameAssumption ==
  /\ NameOrder \in Seq(Elements(NameOrder))
  /\ \A d \in Disks : \A k \in 1 .. Len(ScopeOrder) :
       LET file == d[ScopeOrder[k]] IN
       file \notin {NoFile, Broken} =>
         DOMAIN file.services \cup DOMAIN file.sources \cup DOMAIN file.mcpServers
           \subseteq Elements(NameOrder)

\* the links of a catalog, the tools of a server, the workflows of a file and
\* the steps of a workflow are lists
ASSUME WebAssumption ==
  LET IsList(s) == s \in Seq(Elements(s)) IN
  \A d \in Disks : \A w \in Webs[d] :
    /\ \A url \in DOMAIN w.catalogs : w.catalogs[url] # Missing => IsList(w.catalogs[url])
    /\ \A source \in DOMAIN w.listings :
         w.listings[source] # Missing => IsList(w.listings[source])
    /\ \A ref \in DOMAIN w.workflows :
         w.workflows[ref] # Missing => \A f \in Elements(w.workflows[ref]) : IsList(f)

VARIABLES
  building,   \* "waiting", "services", "sources", "expanding", "built" or "failed"
  todo,       \* services of the configuration still to build, in order
  rest,       \* enabled sources no service refers to, still to build
  current,    \* the API catalog whose services are being built
  tools,      \* the tools of the catalog
  workflows,  \* and its workflows: sequences of tool ids
  recorded,   \* sources with a provenance record
  mcpStates   \* validation states of the MCP services

buildVars == <<building, todo, rest, current, tools, workflows, recorded, mcpStates>>
vars == <<configVars, web, walkVars, buildVars>>

-----------------------------------------------------------------------------
\* what a loop over a list keeps that passes over some of its members
Without(list, passed) ==
  FoldLeft(LAMBDA kept, x : IF x \in passed THEN kept ELSE Append(kept, x), << >>, list)

(* The document of an MCP service (adapter.go).                            *)

\* uniqueValue: the second use of a value gets a suffix made of the name
Unique(base, used, name) == IF <<base>> \notin used THEN <<base>> ELSE <<base, name>>

AddRef(acc, name) ==
  LET id == Unique(name, acc.ids, name)
      path == Unique(Slug[name], acc.paths, name)
  IN [refs |-> Append(acc.refs, [tool |-> name, id |-> id, path |-> path]),
      ids |-> acc.ids \cup {id}, paths |-> acc.paths \cup {path}]

\* tools that are not disabled take their names first
FaultyNamingOrder(names, disabled) == names
NamingOrder(names, disabled) ==
  Without(names, disabled) \o Without(names, Elements(names) \ disabled)

NoOperations == [refs |-> << >>, ids |-> {}, paths |-> {}]
AllOperations(names, disabled) == FoldLeft(AddRef, NoOperations, NamingOrder(names, disabled)).refs

\* the operations of the tools that are not disabled
EnabledOperations(refs, disabled) ==
  Without(refs, {r \in Elements(refs) : r.tool \in disabled})

\* a path set again replaces the operation under it
DocumentOf(refs) ==
  [p \in {r.path : r \in Elements(refs)} |->
     LET last == CHOOSE k \in 1 .. Len(refs) :
                   refs[k].path = p /\ \A j \in k + 1 .. Len(refs) : refs[j].path # p
     IN [id |-> refs[last].id, ignore |-> FALSE]]

\* refs is the operations before the document is filtered, listed those in it
McpState(service, refs, listed) ==
  [service |-> service,
   allPaths |-> {r.path : r \in Elements(refs)},
   livePaths |-> {r.path : r \in Elements(listed)},
   allIds |-> {<<service>> \o r.id : r \in Elements(refs)}]

-----------------------------------------------------------------------------
(* Overlays (overlay/apply.go), as far as they decide which tools there    *)
(* are: an action removes an operation, hides it or gives it another id.   *)

ApplyAction(document, action) ==
  IF action.does = "remove" THEN Drop(document, {action.path})
  ELSE [p \in DOMAIN document |->
          IF p # action.path THEN document[p]
          ELSE IF action.does = "hide" THEN [document[p] EXCEPT !.ignore = TRUE]
          ELSE [document[p] EXCEPT !.id = action.id]]

Overlaid(document, overlays) ==
  FoldLeft(LAMBDA doc, ref : FoldLeft(ApplyAction, doc, web.overlays[ref]), document, overlays)

\* validateOverlayReference: a target that only means disabled tools
TargetsDisabled(state, action) == action.path \in state.allPaths \ state.livePaths

OverlaysLoad(overlays) == \A k \in 1 .. Len(overlays) : web.overlays[overlays[k]] # Missing
OverlaysAreLive(state, overlays) ==
  \A k \in 1 .. Len(overlays) : \A action \in Elements(web.overlays[overlays[k]]) :
    ~TargetsDisabled(state, action)

-----------------------------------------------------------------------------
(* Tools and workflows of one service.                                     *)

\* an ignored operation is no tool and nothing can refer to it
BuildTools(service, document) ==
  {[id |-> <<service>> \o document[p].id, path |-> p] :
     p \in {q \in DOMAIN document : ~document[q].ignore}}

\* the tools a step means: by operation id, and if there is none by path
FaultyBound(service, document, step) ==
  LET byId == {<<service>> \o document[p].id : p \in {q \in DOMAIN document : document[q].id = step.id}}
      byPath == {<<service>> \o document[p].id : p \in DOMAIN document \cap {step.path}}
  IN IF byId # {} THEN byId ELSE byPath
Bound(service, document, step) ==
  LET live == BuildTools(service, document)
      byId == {t.id : t \in {u \in live : u.id = <<service>> \o step.id}}
      byPath == {t.id : t \in {u \in live : u.path = step.path}}
  IN IF byId # {} THEN byId ELSE byPath

\* a reference to no file is an error like a file that cannot be read
WorkflowFile(ref) == IF ref \in DOMAIN web.workflows THEN web.workflows[ref] ELSE Missing

\* loadWorkflows: one step that means no tool fails the build
WorkflowsLoad(service, document, refs) ==
  \A k \in 1 .. Len(refs) :
    /\ WorkflowFile(refs[k]) # Missing
    /\ \A w \in Elements(WorkflowFile(refs[k])) :
         \A step \in Elements(w) : Bound(service, document, step) # {}
LoadWorkflows(service, document, refs) ==
  {[k \in 1 .. Len(w) |-> CHOOSE id \in Bound(service, document, w[k]) : TRUE] :
     w \in UNION {Elements(WorkflowFile(ref)) : ref \in Elements(refs)}}

\* skills only have to load
GuidanceLoads(refs) == \A ref \in Elements(refs) : web.skills[ref]

List(f, x) == IF Gives(f, x) THEN f[x] ELSE << >>
UniqueRefs(first, second) ==
  FoldLeft(LAMBDA kept, ref : IF ref \in Elements(kept) THEN kept ELSE Append(kept, ref),
           << >>, first \o second)

\* DiscoverServiceRoot: the links of the HEAD answer, else of the GET answer
RootLinks(uri) ==
  LET answers == Without(web.roots[uri], {Missing}) IN
  IF answers = << >> THEN Missing ELSE answers[1]

NoRefs == [overlays |-> << >>, skills |-> << >>, workflows |-> << >>]

\* resolveServiceSource: the document and the references that come with it
Resolved(source) ==
  CASE source["type"] = "openapi" -> [document |-> source["uri"], refs |-> NoRefs]
    [] source["type"] = "serviceRoot" ->
         IF RootLinks(source["uri"]) = Missing THEN Missing ELSE RootLinks(source["uri"])
    [] OTHER -> Missing

Failure == [ok |-> FALSE]

\* buildServiceCatalog for a document; without a name the service is called
\* after the document
BuildDocumentService(name, service, source) ==
  LET target == Resolved(source)
      found_ == target # Missing /\ target.refs # Missing /\ web.documents[target.document] # Missing
      refs == target.refs
      overlays == UniqueRefs(List(service, "overlays"), refs.overlays)
      skills == UniqueRefs(List(service, "skills"), refs.skills)
      flows == UniqueRefs(List(service, "workflows"), refs.workflows)
      loaded == web.documents[target.document]
      document == Overlaid(loaded.paths, overlays)
      id == IF name = "" THEN loaded.name ELSE name
  IN IF /\ found_ /\ OverlaysLoad(overlays) /\ GuidanceLoads(skills)
        /\ WorkflowsLoad(id, document, flows)
     THEN [ok |-> TRUE, tools |-> BuildTools(id, document),
           workflows |-> LoadWorkflows(id, document, flows), states |-> {}]
     ELSE Failure

\* setFinalTools: the tools the service has after overlays and x-cli-ignore
FaultyFinalIds(service, document) == {<<service>> \o document[p].id : p \in DOMAIN document}
FinalIds(service, document) == {t.id : t \in BuildTools(service, document)}

\* a server nothing answers for is an error like one that does not list its tools
Listing(source) == IF source \in DOMAIN web.listings THEN web.listings[source] ELSE Missing

\* buildMCPServiceCatalog
BuildMCPService(name, service, source) ==
  LET names == Listing(service["source"])
      refs == AllOperations(names, ListOf(source, "disabledTools"))
      listed == EnabledOperations(refs, ListOf(source, "disabledTools"))
      state == McpState(name, refs, listed)
      overlays == List(service, "overlays")
      document == Overlaid(DocumentOf(listed), overlays)
  IN IF /\ names # Missing /\ OverlaysLoad(overlays) /\ OverlaysAreLive(state, overlays)
        /\ GuidanceLoads(List(service, "skills"))
        /\ WorkflowsLoad(name, document, List(service, "workflows"))
     THEN [ok |-> TRUE, tools |-> BuildTools(name, document),
           workflows |-> LoadWorkflows(name, document, List(service, "workflows")),
           states |-> {[service |-> name, names |-> names,
                        disabled |-> ListOf(source, "disabledTools"), refs |-> refs,
                        allIds |-> state.allIds, liveIds |-> FinalIds(name, document)]}]
     ELSE Failure

BuildService(name, service, source) ==
  IF source["type"] = "mcp" THEN BuildMCPService(name, service, source)
  ELSE BuildDocumentService(name, service, source)

-----------------------------------------------------------------------------
(* Policy patterns that mean only disabled tools.                          *)

Matches(pattern, id) == \A k \in 1 .. Len(pattern) : k <= Len(id) /\ pattern[k] = id[k]
Matching(pattern, ids) == {id \in ids : Matches(pattern, id)}

CheckedPatterns ==
  cfg.approval \cup cfg.managedDeny
    \cup UNION {cfg.toolSets[s]["allow"] \cup cfg.toolSets[s]["deny"] : s \in DOMAIN cfg.toolSets}

OnlyDisabled(pattern, state) ==
  LET candidates == Matching(pattern, state.allIds) IN
  /\ candidates # {}
  /\ Matching(pattern, {t.id : t \in tools}) = {}
  /\ candidates \cap state.liveIds = {}

PoliciesAreLive ==
  \A pattern \in CheckedPatterns, state \in mcpStates : ~OnlyDisabled(pattern, state)

-----------------------------------------------------------------------------
(* Build.                                                                  *)

Enabled_(source) == Says(At(cfg.sources, source), "enabled", TRUE)
ServiceSource(name) == cfg.services[name]["source"]

BuildInit ==
  /\ web \in Webs[disk]
  /\ WalkInit
  /\ building = "waiting" /\ todo = << >> /\ rest = {} /\ current = ""
  /\ tools = {} /\ workflows = {} /\ recorded = {} /\ mcpStates = {}

\* services whose source is absent or disabled are passed over
BeginBuild ==
  /\ building = "waiting" /\ loading = "loaded"
  /\ todo' = Without(NameOrder, {n \in Elements(NameOrder) :
                                 ~(n \in DOMAIN cfg.services /\ Enabled_(ServiceSource(n)))})
  /\ rest' = {s \in DOMAIN cfg.sources :
                Enabled_(s) /\ \A n \in DOMAIN cfg.services : ServiceSource(n) # s}
  /\ building' = "services"
  /\ UNCHANGED <<configVars, web, walkVars, current, tools, workflows, recorded, mcpStates>>

\* what a service adds to the catalog; an error ends the build
Adds(built, source) ==
  IF built.ok
  THEN /\ tools' = tools \cup built.tools
       /\ workflows' = workflows \cup built.workflows
       /\ mcpStates' = mcpStates \cup built.states
       /\ recorded' = recorded \cup {source}
       /\ UNCHANGED building
  ELSE building' = "failed" /\ UNCHANGED <<tools, workflows, mcpStates, recorded>>

BuildNamed ==
  /\ building = "services" /\ todo # << >>
  /\ Adds(BuildService(Head(todo), cfg.services[Head(todo)], cfg.sources[ServiceSource(Head(todo))]),
          ServiceSource(Head(todo)))
  /\ todo' = Tail(todo)
  /\ UNCHANGED <<configVars, web, walkVars, rest, current>>

NamedDone ==
  /\ building = "services" /\ todo = << >>
  /\ building' = "sources"
  /\ UNCHANGED <<configVars, web, walkVars, todo, rest, current, tools, workflows, recorded, mcpStates>>

\* the map of sources is walked in any order
BuildUnnamed(s) ==
  /\ building = "sources" /\ s \in rest
  /\ cfg.sources[s]["type"] \in {"openapi", "serviceRoot"}
  /\ Adds(BuildService("", [source |-> s], cfg.sources[s]), s)
  /\ rest' = rest \ {s}
  /\ UNCHANGED <<configVars, web, walkVars, todo, current>>

BeginExpand(s) ==
  /\ building = "sources" /\ s \in rest
  /\ cfg.sources[s]["type"] = "apiCatalog"
  /\ BeginWalk(cfg.sources[s]["uri"])
  /\ current' = s
  /\ building' = "expanding"
  /\ UNCHANGED <<configVars, web, todo, rest, tools, workflows, recorded, mcpStates>>

Walk ==
  /\ building = "expanding"
  /\ WalkStep
  /\ UNCHANGED <<configVars, web, buildVars>>

WalkFails ==
  /\ building = "expanding" /\ walk = "failed"
  /\ building' = "failed"
  /\ UNCHANGED <<configVars, web, walkVars, todo, rest, current, tools, workflows, recorded, mcpStates>>

\* todo now holds service roots
BeginServices ==
  /\ building = "expanding" /\ walk = "done"
  /\ walk' = "idle"
  /\ todo' = found
  /\ recorded' = recorded \cup {current}
  /\ UNCHANGED <<configVars, web, frames, visited, found, warned, building, rest, current,
                 tools, workflows, mcpStates>>

BuildDiscovered ==
  /\ building = "expanding" /\ walk = "idle" /\ todo # << >>
  /\ Adds(BuildService("", [source |-> current],
                       [type |-> "serviceRoot", uri |-> Head(todo), enabled |-> TRUE]), current)
  /\ todo' = Tail(todo)
  /\ UNCHANGED <<configVars, web, walkVars, rest, current>>

EndExpand ==
  /\ building = "expanding" /\ walk = "idle" /\ todo = << >>
  /\ building' = "sources"
  /\ rest' = rest \ {current}
  /\ UNCHANGED <<configVars, web, walkVars, todo, current, tools, workflows, recorded, mcpStates>>

Finish ==
  /\ building = "sources" /\ rest = {}
  /\ building' = IF PoliciesAreLive THEN "built" ELSE "failed"
  /\ UNCHANGED <<configVars, web, walkVars, todo, rest, current, tools, workflows, recorded, mcpStates>>

Build ==
  \/ BeginBuild \/ BuildNamed \/ NamedDone
  \/ \E s \in rest : BuildUnnamed(s)
  \/ \E s \in rest : BeginExpand(s)
  \/ Walk \/ WalkFails \/ BeginServices \/ BuildDiscovered \/ EndExpand
  \/ Finish

Init == ConfigInit /\ BuildInit

Next ==
  \/ LoadEffective /\ UNCHANGED <<web, walkVars, buildVars>>
  \/ Build

\* one goroutine loads the configuration and builds the catalog
Spec == Init /\ [][Next]_vars

-----------------------------------------------------------------------------
(* Properties.                                                             *)

ToolIds == {t.id : t \in tools}

\* Disabling tools fails closed: in a catalog that is built, no approval
\* pattern, managed deny pattern or tool set pattern is left without a tool
\* that matches some tool of an MCP server's list.
PatternsAreLive ==
  building = "built" =>
    \A pattern \in CheckedPatterns, n \in DOMAIN cfg.services :
      LET source == ServiceSource(n) IN
      Enabled_(source) /\ cfg.sources[source]["type"] = "mcp" =>
        \A name \in Elements(Listing(source)) :
          Matches(pattern, <<n, name>>) => Matching(pattern, ToolIds) # {}

\* Every step of a workflow in a built catalog runs a tool of the catalog:
\* none refers to what an overlay removed or hid, or to a disabled tool.
StepsHaveTools ==
  building = "built" => \A w \in workflows : Elements(w) \subseteq ToolIds

\* Disabling a tool of an MCP server never renames another: the operations in
\* the document are those that the list without the disabled tools gives.
LiveNamesAreStable ==
  \A st \in mcpStates :
    EnabledOperations(st.refs, st.disabled) = AllOperations(Without(st.names, st.disabled), {})

\* Discovery reads exactly the catalogs reachable from the source's URI, finds
\* exactly their services and reports exactly the cyclic ones.
DiscoveryIsComplete == walk = "done" => WalkIsComplete(cfg.sources[current]["uri"])
=============================================================================
