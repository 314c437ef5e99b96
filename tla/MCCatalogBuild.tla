--------------------------- MODULE MCCatalogBuild ---------------------------
(* Four families of files and documents for CatalogBuild: a source whose   *)
(* type changes from file to file, catalogs that link to each other, an    *)
(* MCP server with disabled tools, and the authentication of the runtime.  *)
EXTENDS CatalogBuild

Names == <<"api", "cat", "fs">>
Slugs == [n \in {"read", "Read", "write"} |-> IF n = "Read" THEN "read" ELSE n]

File == [top |-> Empty, sources |-> Empty, mcpServers |-> Empty, services |-> Empty,
         toolSets |-> Empty, profiles |-> Empty, secrets |-> Empty, deny |-> {}, approval |-> {}]
Root == [File EXCEPT !.top = [cli |-> "1", mode |-> "discover", runtime |-> [mode |-> "remote"]]]
OneDisk(file) == [s \in Elements(ScopeOrder) |-> IF s = "managed" THEN file ELSE NoFile]

Paths == [x \in {<<"list">>, <<"drop">>} |-> [id |-> x, ignore |-> FALSE]]
Doc == [name |-> "api", paths |-> Paths]
Web == [catalogs |-> Empty, roots |-> Empty, documents |-> [u \in {"d1"} |-> Doc],
        listings |-> [s \in {"fs"} |-> <<"read">>], overlays |-> Empty,
        workflows |-> Empty, skills |-> Empty]

-----------------------------------------------------------------------------
Stdio == [type |-> "stdio", command |-> "c"]
Http == [type |-> "streamable-http", url |-> "u"]
OAuth == [mode |-> "clientCredentials", clientId |-> "i", clientSecret |-> "s", issuer |-> "o"]
Fragments ==
  {[sources |-> [n \in {"fs"} |-> f], mcpServers |-> Empty] : f \in
     {[type |-> "mcp", transport |-> Stdio], [type |-> "openapi", uri |-> "d1"],
      [transport |-> [type |-> "sse", url |-> "u"]], [transport |-> [command |-> "c"]],
      [enabled |-> FALSE], [oauth |-> [scopes |-> {"x"}]],
      [transport |-> [type |-> "streamable-http"], enabled |-> TRUE]}}
  \cup {[sources |-> Empty, mcpServers |-> [n \in {"fs"} |-> Over([oauth |-> OAuth], Http)]]}
FileOf(fragment) == [File EXCEPT !.sources = fragment.sources, !.mcpServers = fragment.mcpServers,
                                 !.deny = {<<"fs">>}]
MergeDisks ==
  {[s \in Elements(ScopeOrder) |->
      CASE s = "managed" -> [Root EXCEPT !.sources = m.sources, !.mcpServers = m.mcpServers,
                                         !.deny = {<<"fs", "write">>}]
        [] s = "user" -> u [] s = "project" -> p [] s = "local" -> l] :
     m \in Fragments, u \in {NoFile} \cup {FileOf(f) : f \in Fragments},
     p \in {FileOf(f) : f \in Fragments}, l \in {NoFile, Broken} \cup {FileOf(f) : f \in Fragments}}

-----------------------------------------------------------------------------
Auths == {NoFile} \cup
  {[File EXCEPT !.top = [runtime |-> [server |-> [auth |-> a]]]] : a \in
     {[validationProfile |-> "oauth2_introspection", audience |-> "a", introspectionURL |-> "i"],
      [validationProfile |-> "oidc_jwks", audience |-> "b", issuer |-> "o", jwksURL |-> "j"],
      [mode |-> "oauth2Introspection"], [validationProfile |-> "oidc_jwks"]}}
AuthDisks ==
  {[s \in Elements(ScopeOrder) |->
      CASE s = "managed" -> Root [] s = "user" -> u [] s = "project" -> p [] s = "local" -> l] :
     u \in Auths, p \in Auths, l \in Auths}

-----------------------------------------------------------------------------
CatalogDisk ==
  OneDisk([Root EXCEPT !.sources = [n \in {"cat"} |-> [type |-> "apiCatalog", uri |-> "c1"]]])
Link(rel, href) == [rels |-> {rel}, href |-> href]
SomeLinks == {Link("item", "s1"), Link("api-catalog", "c1"), Link("api-catalog", "c2"),
              Link("api-catalog", "c3")}
FewLinks(n) == UNION {[1 .. k -> SomeLinks] : k \in 0 .. n}
RootAnswer(overlays) == [document |-> "d1", refs |-> [NoRefs EXCEPT !.overlays = overlays]]
CatalogWebs ==
  {[Web EXCEPT !.catalogs = [u \in {"c1", "c2", "c3"} |->
      CASE u = "c1" -> one [] u = "c2" -> two [] u = "c3" -> three],
      !.roots = [u \in {"s1", "s2"} |-> IF u = "s1" THEN <<Missing, RootAnswer(<< >>)>>
                                        ELSE <<Missing, Missing>>]] :
    one \in FewLinks(2), two \in FewLinks(2) \cup {Missing},
    three \in FewLinks(1) \cup {<<Link("other", "c1"), Link("item", "s2")>>}}

-----------------------------------------------------------------------------
ToolLists == {<<"read", "Read">>, <<"Read", "read", "write">>, <<"read", "read">>}
Disabled == {{}, {"read"}, {"Read"}, {"read", "write"}}
McpSource(disabled) == [type |-> "mcp", transport |-> Stdio, disabledTools |-> disabled]
ApiService == [source |-> "api", overlays |-> <<"o">>, workflows |-> <<"w">>]
McpDisks ==
  {OneDisk([Root EXCEPT
     !.sources = [n \in {"fs", "api"} |-> IF n = "fs" THEN McpSource(disabled)
                                          ELSE [type |-> "openapi", uri |-> "d1"]],
     !.services = IF services = {} THEN Empty
                  ELSE IF services = {"api"} THEN [n \in {"api"} |-> ApiService]
                  ELSE [n \in {"fs"} |-> [source |-> "fs", overlays |-> <<"o">>, workflows |-> <<"w">>]],
     !.approval = {pattern}, !.toolSets = [n \in {"set"} |-> [deny |-> {<< >>}]]]) :
   disabled \in Disabled, services \in {{}, {"api"}, {"fs"}},
   pattern \in {<< >>, <<"fs">>, <<"fs", "read">>, <<"api", "drop">>, <<"fs", "write">>}}
Act(path, does) == [path |-> path, does |-> does, id |-> <<"fresh">>]
McpWebs ==
  {[Web EXCEPT !.listings = [s \in {"fs"} |-> list],
     !.overlays = [o \in {"o"} |-> overlay],
     !.workflows = [w \in {"w"} |-> << <<step>> >>]] :
   list \in ToolLists \cup {Missing},
   overlay \in {<< >>, <<Act(<<"read">>, "hide")>>, <<Act(<<"write">>, "remove")>>,
                <<Act(<<"read">>, "rename"), Act(<<"list">>, "remove")>>, <<Act(<<"drop">>, "hide")>>},
   step \in {[id |-> <<"read">>, path |-> <<"drop">>], [id |-> <<"list">>, path |-> <<"read">>],
             [id |-> <<"fresh">>, path |-> <<"drop">>], [id |-> <<"Read">>, path |-> <<"list">>]}}

AllDisks == MergeDisks \cup AuthDisks \cup McpDisks \cup {CatalogDisk}
AllWebs == [d \in AllDisks |->
  IF d = CatalogDisk THEN CatalogWebs ELSE IF d["managed"].approval # {} THEN McpWebs ELSE {Web}]
=============================================================================
