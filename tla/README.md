# A TLA+ verification project for open-cli

`open-cli` turns OpenAPI descriptions and MCP servers into commands. The client
(`cmd/open-cli`) shows a catalog of tools and forwards executions;
`open-cli-toolbox` (`cmd/open-cli-toolbox` around `internal/runtime`) is the
hosted runtime that loads the configuration, discovers and caches documents,
builds the catalog, authorizes and executes tool calls, keeps sessions and
credentials, runs MCP servers as child processes and writes the audit log.

This directory holds TLA+ modules translated from that code, TLC configurations
that check them on small instances, and proofs that TLAPS checks for every
instance. Paths in this file are relative to `src/`.

- [Inventory](#inventory)
- [Modules](#modules)
- [Runs](#runs)
- [Proofs](#proofs)
- [Known divergences](#known-divergences)
- [What is not modelled](#what-is-not-modelled)
- [Plan](#plan)

## Inventory

`PROJECT.json` lists every component with its sources, status and note, and
every hazard at its line. In short:

| Component | State it keeps | Operations | What makes it correct |
|---|---|---|---|
| Session leases (`internal/runtime/server.go`) | `leases`, one timer per lease, `inflight`, the token directory | heartbeat, session-close, stop, expiry | no lease is stranded or expires early; the last one ends the runtime |
| Toolbox process (`cmd/open-cli-toolbox/main.go`) | `shutdownOnce`, `runtime.json`, the listener | serve, signal, clean-up | one clean-up, finished before the process exits |
| Managed MCP processes (`pkg/exec/process_supervisor.go`, `pkg/exec/mcp.go`, `pkg/mcp/client/stdio.go`) | `pids`, the registry file | track, release, shutdown, restart | no child outlives the runtime that owns it |
| HTTP cache (`pkg/cache`) | a metadata and a body file per key | fetch, load, save, delete | whole files, matching pairs, current answers |
| Authorization and policy (`internal/runtime/server.go`, `pkg/policy`, `pkg/catalog`) | none beyond a request | envelope, view, decision | nothing beyond the scopes; listed means executable |
| Transport OAuth (`pkg/mcp/client/auth.go`) | a token file, a lock per key | resolve, refresh, store | one refresh per token, failing closed |
| Tool execution and audit (`internal/runtime/server.go`, `pkg/exec/exec.go`, `pkg/audit/store.go`) | the audit file | execute with retries, append, list | every record is true, records are not lost |
| OAuth of tool calls (`pkg/auth/oauth.go`, `internal/runtime/auth_resolution.go`) | `memoryTokenCache`, token files | plan the credentials of a call; find, request and store a token | a token fits what it is used for; a plan is one alternative; the browser is the last resort |
| MCP over HTTP and SSE (`pkg/mcp/client/http.go`, `pkg/exec/mcp.go`) | session, initialised flag, event stream | open, list, call, re-initialise, replay, close | a call runs once, gets its own answer, in an initialised session that is closed at the end |
| Client runtime sessions and login (`cmd/open-cli/internal/runtime`, `cmd/open-cli/internal/auth`) | `TokenSession`, the cached login token | handshake, login, delegation, preflight refresh, request | one refresh a run; only the delegated token is sent |
| Configuration (`pkg/config`) | none that is shared | discover, merge and validate four scopes | a managed deny stays; nothing is left over of a source's earlier kind; names are unambiguous |
| Discovery, overlays, catalog build (`pkg/discovery`, `pkg/overlay`, `pkg/mcp/openapi`, `pkg/catalog`) | the visited catalogs | follow links, fetch, overlay, name, disable, validate | every link once; patterns and steps name tools; names are stable |
| Admin control plane (`internal/admin`) | database rows | bundles, sources, assignments, revisions, audit | the trail tells what exists; the newest publication is active |
| Bearer tokens, contract version (`internal/runtime`) | none | validate, compare | left out: no state |
| CLI commands, instances, observability | none that is shared | | left out, but for the requests a command sends |

How they meet. The client calls the runtime over HTTP; each request is a
goroutine. Management requests work on the leases under `leaseMu`; the end of
the last lease drains the business requests and runs the shutdown hook, which is
the `Close` of the toolbox's `http.Server`. That makes `Serve` return in `main`,
which runs the same clean-up as the signal goroutine: server, leases, managed
processes, `runtime.json`. A tool execution loads configuration and catalog
(through the HTTP cache), decides, executes (over HTTP, or through a child
process or a transport whose token is cached on disk), appends an audit record
and replies. Session-close removes the token directory under everybody's feet.
The client resolves its own token by the same code of `pkg/auth`, keeps it for one
command and refreshes it by preflight. The admin control plane shares nothing with
the rest but a listener.

The hard behaviour is where those meet: a renewal racing the timer it stops, two
leases ending at once, a clean-up racing the handler that caused it, a child
started while the supervisor shuts down from a snapshot, two processes on one
state or cache directory, crashes between two file operations, refresh tokens
that may be spent once, retries and exits between an effect and its record, replays
of a request whose first answer was lost, files merged one over the other, and
SQL statements of two administrators without a transaction.

## Modules

Every module says at its top what it stands for; `PROJECT.json` "map" gives the
source lines of each definition. Definitions named `Faulty...` are variants no
action uses: each is a plausible mistake that makes one property fail, so that
one can see that the property says something about the code.

**SessionLease** — a step is what a goroutine does between two points where
another one can run: a critical section of `leaseMu`, a poll of the in-flight
counter, the hook, the removal of the token directory. `handlers` are the
goroutines of management requests, with the position they are at; `expiries` are
the goroutines of fired timers, which `Timer.Stop` does not call back. Time is
counted down in ticks and any goroutine may be late. `ExpiresAt` is compared for
equality only (`expireLease`), so it is an identity, the stamp of a lease.
`TTL = 0` is a runtime without lifecycle.

**LeaseContract** — what the runtime promises without timers and goroutines:
sessions attach and detach; the runtime is open, then doomed (stopped, or its
last session is gone), then closed, and a doomed runtime closes. `SessionLease`
implements it with `attached <- Leased`, `phase <- phaseOf`.

**ToolboxLifecycle** extends SessionLease by the process: the positions of `main`
and of the signal goroutine, the `sync.Once` and its four clean-up steps,
`runtime.json`, `SIGKILL`. The server's steps are those of SessionLease while the
process is alive; when `main` returns, every other goroutine ends where it is.

**ManagedProcesses** — `calls` are the goroutines of tool calls (which track their
child) and of catalog builds (which do not), from `cmd.Start` to the deferred
`Close` and `Release`; `process` is what the system knows; `pids`, `registry`,
`pending` and `victim` follow the supervisor. A child may die at any time, ignore
signals, and may never die; the system may refuse a signal, after which `Shutdown`
forgets the child; the toolbox may crash and restart on the same file, which it may fail
to read, and then starts with no pids and overwrites it. `refused` and `unread` keep, as
history, the children these two have cost.

**HttpCache** — one key. A file is an inode with a content, a path names an inode,
so that a writer that has a file open writes to it wherever a rename has put it.
Fetchers are goroutines of processes; the temporary name has only the pid in it.
The origin serves versions; freshness is left open (an entry may or may not be
fresh), and `AllowStaleOnError` is true, as `pkg/catalog/build.go` always sets it.

**ToolAuthorization** — configuration and catalog are loaded anew by every request
and may both have changed. `AuthorizedTools` is the envelope, `Decide` the policy,
`SelectView` the listing. A pattern list is the set of tools it matches; for allow
lists the model keeps whether there is one, for deny lists whether `**` is in it.
`Safety.RequiresApproval` and the approval patterns are one set. `Discover` is the name
of the built-in view, which a request, the default profile or a configured profile may
have too: the view is found by that name before any profile, of which `Decide` knows
nothing (`HasView`, `DiscoverByName`).

**TransportToken** — one cache key. Clients are goroutines of processes that share
the directory; the mutex of the key is per process. `file` may be missing with its
directory, missing, torn, or hold an entry with `used` and `failed` as in
`cachedTransportToken`. A provider's response is a number. The look-up under the
hint key is left out, because nothing is ever stored under that key.

**ToolExecution** — a call from its decision to its reply. Attempts, the pause
after a 429 or 503 that ignores the context and follows the last attempt too, an
error of `client.Do` after the request has arrived, the record and the reply.
`log` is the audit file as lines: a write that breaks off leaves a line without an
end, and the next record is glued to it. The process may close its server, exit
with calls under way, and start again.

**ConfigMerge** — `LoadEffective`: the scopes are merged one at a time in
`ScopeOrder`, with the two maps of names that the ambiguity check reads
(`sourceNames`, `mcpServerNames`), then normalised and validated. A JSON object is a
function whose domain has the fields it gives; what a value says beyond its identity
is left out. `Disks` are the files there may be.

**ApiCatalogDiscovery** — the recursive visit of linked catalogs, with its call stack
as the variable `frames`; `visited` and `warned` follow the maps of the code.

**CatalogBuild** extends both by `Build`: configured services, then the sources no
service refers to, documents, overlays, MCP tools and their names, workflows, the
removal of disabled tools and the validation of what still names them. A document is
a function from paths to operations; a tool id is a tuple, a pattern the prefix of the
ids it matches. `Slug` is `slugify`, which may map two names to one.

**OAuthTokens** — one caller's way through `ResolveOAuthAccessTokenWithOptions`, with
the memory cache of its process and the files all share, which are truncated and then
written without a lock. `issued` keeps what each token was asked for; a token is its
place in it. **ToolCredentials** extends it by `resolveAuthPlan` (alternatives in
order, first without and then with a browser; a static secret may fail to be read on
either pass, which the call keeps in `unread`), **ClientSession** by a run of
`open-cli` with its `TokenSession`, and **RemoteCall** composes the two: tool calls in
a runtime, or runs of a client, over the one implementation of the token cache.

**McpHttpSession** — one client from `Open` to `Close` over streamable HTTP or SSE and
the server it talks to, which is external: it answers, refuses, forgets sessions,
delays and garbles events and drops connections, before or after it has run a request.
`frame` is the request the client is at (`init`, `notify` or `main`), so that a replay
inside a replay is visible; `ran` is the history of what the server has run.

**RequestContract** — what the caller of that client may rely on, without transports,
sessions and replays: one request at a time is pending, under a number of its own; the
server runs a call at most once; a request that returns has been run and returns its own
answer, any other returns an error. `McpHttpSession` implements it with
`pending <- Pending`, `log <- ran`, `outcome <- result`: a request is pending from its
first step to its return, over every replay between the two.

**AdminPublish** — the handlers of the admin API as the SQL statements they are made
of, each a step, over the tables `bundles`, `assignments`, `sources`, `revisions`, with
a crash and failing statements between any two. `told` is what the audit trail tells
of the same tables when it is read in order.

`MC...` modules give small sets; `..._proofs` modules hold the proofs.

## Runs

| Run | Bounds | What it shows |
|---|---|---|
| `lease` | 2 sessions, 1 management request at a time, 3 stamps, TTL 2, grace 1, 1 business request, group | the lease properties, and that the code implements `LeaseContract`, liveness included |
| `lease_exclusive_race` | 2 sessions, 2 requests, exclusive | two heartbeats both attach |
| `toolbox` | 1 session, 2 requests, 2 stamps | the clean-up is run once and finished, and a doomed process ends |
| `processes` | 2 calls, 2 children, 2 restarts | tracked children are lost to a refused signal or an unreadable file only, a shutdown ends |
| `cache` | 2 processes, every policy, 2 versions, 1 fault | whole files, matching pairs, current answers |
| `authz` | 3 tools, 2 services, 3 profiles, 480 configurations, 12 tokens | the envelope, the view and the decision agree |
| `transport` | 3 clients in 2 processes, 2 responses, 1 removal, 1 fault | one refresh per token, failing closed |
| `execution` | 3 calls, 2 attempts, 1 restart, 1 broken write | records, losses and cancelled calls |
| `catalog` | four families of files and networks, see `MCCatalogBuild` | what a merge keeps, what a build names, what discovery reaches |
| `mcp_http` | 2 requests, 3 sessions, 1 garbled event, both transports | calls run once, sessions are initialised and closed, and the code implements `RequestContract` |
| `calls` | 2 tool calls over 5 operations and 6 schemes, or 3 runs of a client in 6 configurations; 2 tokens, 4 grants | tokens, plans, browsers, refreshes, delegation |
| `admin` | 2 handlers, 2 bundles, contents, revisions and clock readings, 1 source, 1 assignment, 1 fault | the trail and the active revision |

Why the bounds are enough to see the interesting cases. Leases: two sessions are
what "the last lease" and "a different session" need, three stamps allow a renewal
while a goroutine with an older stamp waits, and expiry goroutines run beside the
one request, so renewals, closes and expiries do interleave; concurrent requests
are in the `toolbox` run and in the exclusive one, and the proofs have no bound.
Processes: a restart with one child of the old generation and a call of the new
one, and a second restart that can read the file the first could not. Cache: two
versions let an old body be confirmed for a new one, and nine inodes are one more than
the two names of the entry, the four temporary ones and the two open files can hold.
Authorization: the third profile has the name of the discover view. Transport: two responses
are a grant and a refresh, or two grants, and the third client waits for the lock.
Execution: one broken write glues one record; `maxAttempts` is 3 in the code and 2
here, the proofs leave it open. Catalog: a merge of four scopes from eight kinds of
fragment, links with cycles and diamonds over three catalogs, two names with one slug.
MCP: two requests let an answer of the first arrive in the second; three sessions are
one at the start, one replaced and one that the replacement loses. Calls: the operations
have alternatives that share a requirement, need a browser or cannot be met. Admin:
two handlers are what an overlap needs, two clock readings what an order needs. Bounds
are `MaxInflight`, `Stamps`, `MaxRestarts`,
`Pids`, `MaxVersion`, `MaxFaults`, `MaxTokens`, `MaxClears`, `MaxBroken`, `MaxRequests`,
`MaxSessions`, `MaxGarbled`, `MaxToolCalls`, `MaxGrants`, `MaxRuns`, `MaxGiven`; each is a
guard of the action it limits. `transport` uses the symmetry of the two clients of
one process, `admin` that of the two handlers; neither checks liveness.

Deadlock is checked in `authz` and `transport`. The others stop
where the program does: a closed runtime, an exited process, used-up process ids,
calls that are over, a catalog that is built, a client that is closed. Type invariants
are not in the runs: they are theorems of the modules that have proofs.

Fairness. `lease`, `toolbox`: the scheduler runs every goroutine that is not
blocked and time passes (weak fairness of handler steps, timers, expiries, ticks,
and in the process also of `Serve`'s return and the `Once`). Clients owe nothing:
there is none on requests, nor on the end of a business request, which may hang on
its upstream; that `DoomedProcessEnds` holds all the same is what the grace period
is for. `processes`: only the goroutine in `Shutdown` is fair, no child owes its
death. `execution`: a goroutine goes on when it can, and `client.Do` returns once
its context is cancelled; of the upstream nothing is assumed. Signals, crashes,
kills, failing listeners and providers have no fairness anywhere, and the modules
`CatalogBuild`, `McpHttpSession`, `RemoteCall` and `AdminPublish` state none.

Some properties are less obvious than they look:

- `LeaseCanExpire`, `StaleExpiryIsHarmless`, `NoEarlyExpiry`: renewal stops the
  old timer and starts a new one, but a goroutine the old one has started still
  comes for `leaseMu`. Only the equality of `ExpiresAt` makes it harmless.
- `OwedIsRecorded` speaks of children whose `Track` succeeded before the snapshot of
  `Shutdown`; those after it are the subject of `NoOrphans`, which fails. It leaves out
  those a `Shutdown` has been refused a signal for, and those in a file that could not be
  read, until a toolbox reads them from it: the code does lose both, see below. Every
  other one stays in the file through crashes and failed writes and is ended by the
  shutdown that is over.
- `ListedIsExecutable` leaves out requests that `Decide` curates and that are shown the
  discover view because of its name; there the two rules disagree, see below.
- `BrowserIsLastResort` takes an alternative with a secret that this call tried to read
  and could not for one that does not do.
- `ServedPairMatches` and `ServedIsCurrent` hold while `calm`: no two fetches have
  overlapped and there was no fault. `FilesAreWhole` holds without that condition
  between processes, and fails between goroutines of one.
- `GrantBudget` and `RefreshBudget` count what a process has asked for, against the
  session-closes and faults that excuse it; they speak of each process alone,
  since the lock does.
- `LossBudget` is about calls that were answered. It is `2 * broken`: a broken
  write costs its own record and the one glued to it.
- `CallsRunOnce` is about tool calls. Over HTTP a call is repeated, but only after a
  404, when the server has not run it; over SSE, where nobody knows, only `tools/list`
  is. `InitialisedFirst` is about the first request, which is all that `ExecuteMCP` and
  `Build` send; see below for the second.
- `SessionsAreClosed` needs that no connection broke (`orderly`) and that `Open` had
  returned a client: an `Open` that fails at its notification leaves the session.
- `TrailTellsBundles` leaves out bundles a fault or an overlap has touched, and those
  whose mutation is made and not yet recorded; `ActiveIsNewest` those that two requests
  were publishing at once. Both do go wrong there, see below.
- `LiveNamesAreStable` compares a build with the one without disabled tools.
- `ReducedTokenNarrows` needs the child to keep its parent's `tool:` scopes and one
  `bundle:` or `profile:` scope; see below for why.

## Proofs

TLC checks the instances above; the following are theorems for all values of the
constants, assuming only the `ASSUME` of each module, which the runs evaluate.

| Module | Theorem | Says |
|---|---|---|
| `SessionLease_proofs` | `TypeInvariant`, `EveryLeaseCanExpire`, `NoStaleExpiry`, `FullTTL`, `LastLeaseCommits` | `TypeOK`, `LeaseCanExpire`, `StaleExpiryIsHarmless`, `NoEarlyExpiry`, `LastLeaseEndsRuntime` |
| | `SerialRequestsExclusive` | with at most one management request at a time `ExclusiveOwner` holds |
| | `ImplementsContractSafety` | `Spec` implements `LeaseContract` without its fairness |
| | `ExitsAreClean`, `WithdrawnIsClosed`, `ProcessTypeInvariant` | of the process around the server: `ExitIsClean`, `UnadvertisedIsClosed`, `ProcessTypeOK` |
| | `LeasesOfTheProcess` | in the whole process, its exit included, `LeaseCanExpire` and `StaleExpiryIsHarmless` hold |
| `ManagedProcesses_proofs` | `TypeInvariant`, `TrackedIsNeverLost` | `TypeOK`, `OwedIsRecorded` |
| | `OrphansHaveCauses` | if no request has a child that `Track` does not know when `Shutdown` copies its pids, what a cleaned-up toolbox leaves running has refused a signal or stood in an unreadable file |
| `Policy_proofs` | `ManagedDenyHolds`, `NamesStayApart`, `ChangeOfTypeIsComplete` | of the configuration: `ManagedDenyIsAbsolute`, `NamesAreUnambiguous`, `NothingLeftOver` |
| | `DiscoveryReadsAll`, `WorkflowsCanRun`, `NamesAreStable`, `PatternsStayLive` | of the catalog: `DiscoveryIsComplete`, `StepsHaveTools`, `LiveNamesAreStable`, `PatternsAreLive` |
| | `AuthorizationTypeInvariant`, `ScopesBound`, `EnvelopeIsDesigned`, `ListedToolsRun`, `ReductionNarrows` | `TypeOK` and the four properties of `authz` |
| | `TrailIsComplete`, `PublishedStaysActive` | of the control plane: `TrailTellsBundles`, `ActiveIsNewest` |
| | `PublishedIsFinal` | no step alters a published revision, or takes it away without its bundle |
| `TransportToken_proofs` | `TypeInvariant`, `RefreshesAreBudgeted`, `GrantsAreBudgeted` | `TypeOK` and the two properties of `transport` |
| `ToolExecution_proofs` | `TypeInvariant`, `AuditIsTrue`, `LossIsBudgeted` | `TypeOK`, `RecordsAreTrue`, `LossBudget` |
| | `AuditOnlyGrows` | no step alters a line of the log that has its end, and a call gains one record, by its own append |
| `HttpCache_proofs` | `TypeInvariant`, `PairsMatch`, `AnswersAreCurrent` | `TypeOK`, `ServedPairMatches`, `ServedIsCurrent` |
| | `EntriesAreWhole` | with one fetch of the key in each process `FilesAreWhole` holds |
| `McpHttpSession_proofs` | `TypeInvariant`, `CallsRunAtMostOnce`, `AnswersAreMatched`, `FirstIsInitialised`, `NoSessionIsLeft` | `TypeOK`, `CallsRunOnce`, `AnswersMatch`, `InitialisedFirst`, `SessionsAreClosed` |
| | `ImplementsRequestContract` | `Spec` implements `RequestContract`: `ImplementsRequests` |
| `RemoteCall_proofs` | `TokensAlwaysFit` | of OAuth: `TokensFit`, from `OAuthInvariant` |
| | `PlansAreOneAlternative`, `NoNeedlessBrowser` | of a tool call: `PlanIsOneAlternative`, `BrowserIsLastResort`, from `CallInvariant` |
| | `OneRefreshPerRun`, `OnlyDelegatedIsSent` | of the CLI: `RefreshOnce`, `DelegatedOnly`, from `SessionInvariant` |

The arguments:

- *Leases.* `LeaseInv` is the type invariant with `LeaseCanExpire` and
  `StaleExpiryIsHarmless`, which need each other: a fresh stamp keeps older goroutines
  from matching a renewed lease, and the goroutine that does match is the one the
  lease's own timer started. `FullTTL` and `LastLeaseCommits` are step properties
  that follow from it.
- *Refinement.* Every step of the lease code is an attach, a detach, a stop, a
  termination or invisible, case by case over `Next`; only the type invariant is
  needed.
- *Toolbox.* `once` tells how far the one clean-up is, and a caller that has returned
  found it done. runtime.json goes in its last step. From the step after the first the
  HTTP server is closed (`PastHTTP`), and nothing the server does afterwards opens it
  (`ClosedStaysClosed`): that, and not the order of two writes, is why a withdrawn
  process does not serve.
- *Processes.* `OwedIsRecorded` speaks of the file, but the file is written from
  memory, so the invariant follows the running children the supervisor owes an end
  through the map, the snapshot and the file, phase by phase, and says that a call
  that is about to release its child has seen it dead. A child leaves it by `GiveUp` or by
  a `Restart` on an unreadable file, and comes back with a `Restart` that reads it.
- *Orphans.* `NoOrphans` fails because `Shutdown` works from a copy, because a refused
  signal ends its care for a child, and because an unreadable file is none to it.
  `OrphansHaveCauses` says that nothing else is wrong: once the process ends no call gets a
  child (`CallsOfTheEnd`), and a running child of a call is in the copy until it has been
  killed or given up (`NoneLate`); of the children an earlier toolbox has tracked
  `OwedIsRecorded` says the rest.
- *Transport.* A refresh token that the file offers, or that a client is about to
  send, has been sent by its process at most once for each fault. A client that has
  just sent one holds the lock until it has stored the result. For grants: who
  leaves without an entry in the file leaves a session-close or a fault to charge.
- *Execution.* Until a call has appended its record, its goroutine knows how many
  requests have arrived (`Counted`), and a call with a record never sends again.
  `LossBudget` alone is not inductive: a torn last line will cost the record that is
  glued to it, so `LossInv` charges it beforehand (`StillToCome`). `AuditOnlyGrows` needs
  that a line without its end is torn, and that a call at its append has no record.
- *Cache.* No inode has two names (`Disjoint`), and a Save that has opened or written
  its temporary file still finds it under that name (`Saves`), because another
  process has names of its own and another goroutine of this one is not there: each
  process fetches the key once at a time, or no two fetches have overlapped
  (`OneEach`). So what is renamed is whole and is what the fetch holds (`Holds`,
  `Whole`). While `calm`, the one active fetch knows whether the two files agree
  (`Pairs`), and holds nothing older than the fetch from the origin (`Currents`).
  `InodesAssumption` asks for one inode more than there are names and open files.
- *MCP session.* Requests are numbered, so the history `ran` tells them apart
  (`Numbers`, `Kinds`). `CallsRunOnce` is not inductive: `UnsentCall` adds that, wherever
  the client may still send its call or send it again, the server has not run it.
  `AnswersMatch` follows from what is on the stream having been run (`Sent`) and from
  the client's taking only the number it waits for. `InitialisedFirst` follows the
  session from its notification to the first request (`Notifications`), which a server
  that forgets sessions does not disturb, since a lost session starts again.
  `SessionsAreClosed` is about the end; `Held` says of every moment where the one session
  is that the server may know: the client has it, or the answer under way carries it.
- *MCP contract.* Every step but `Run` leaves the history alone and is an `Ask`, a
  `Return`, a `ReturnError` or invisible, replays and re-initialisations among them
  (`RequestOutcomes`). `Run` is an `Execute`: by `UnsentCall` for a call, and because a
  request keeps its number and its method through every replay (`RunExecutes`). What
  returns has been run, since whatever a reply or the stream carries has (`Sent`,
  `Answers`).
- *OAuth, credentials, CLI.* Three invariants, one for each part of the composition,
  each of which the other parts' steps leave alone. `OAuthInv`: whatever a cache, a file
  or a job past its grant holds was issued for the form its key spells out, so that it
  does not matter who put it there; a torn file is never read. `CallInv`: the plan of a
  call is what it has met of the alternative it is at (`PlanMeets`), and no alternative
  before it, in the second pass none at all, could be met without OAuth (`NoneMet`): a
  secret that could not be read stays in `unread` for the rest of the call.
  `SessionInv`: the refreshes are counted by the session's flag, and with delegation the
  token a session holds is a delegated one once it has got past its start.
- *Configuration.* `ManagedDenyIsAbsolute` and the names read so far (`NamesInv`) are
  inductive with the position in `ScopeOrder`. `NothingLeftOver` is inductive too
  (`SourceInv`) once the merge of a source is summed up (`Follows`): a field comes from
  the file or was there before, and a new type takes away what it excludes; a file that
  gives no type leaves the one in force.
- *Discovery.* The catalogs on the stack are a path of links, each reached from those
  below it (`StackOK`); a link of a visited catalog is taken or left in a frame
  (`LinksOK`), which gives completeness when the stack is empty; what was found are items
  of visited catalogs, each once (`FoundOK`). A warning names a cycle, since it is a link
  up the stack; without one the catalogs behind the stack are closed and have no cycle
  (`CyclesOK`), so that at the end there is none.
- *Workflows.* The steps of the workflows a service adds are tools it adds
  (`ServiceIsWithin`), for both ways a service is built, and tools are only ever added.
- *Names and patterns.* The code builds its lists with loops and the model with folds. A
  fold is written out as the trail of its results, one for each member of the list
  (`NamingFold`, `WithoutFold`), and what holds along a trail is shown without a
  counterexample, by a fact about sets of numbers (`NoCounterexample`). So the name of a
  tool depends on those before it only (`SameStart`, `StartStays`), and a tool is disabled
  in a build under the name it has in the build without disabled tools. `StatesInv` says
  that of what every MCP source has listed; `BuildInv` adds that each configured one is
  listed or still to come, so that `Finish` compares the policies with the true names.
- *Audit trail.* For each bundle that is not dubious at most one record is missing, and
  the trail with that record in it tells what the tables have (`ToldOf`). An assignment's
  row is the same in the tables, in the trail and in a record (`OwnerInv`); without that a
  deletion could be charged to another bundle. Then a record changes nothing of a bundle
  it is not about (`OthersUnchanged`), and its effect depends on nothing else
  (`SameTold`), so that every handler can be looked at alone.
- *Revisions.* Of a bundle that is published by one request at a time (`SerialOK`) the
  revisions have contents in the order of their times, and the one under way has a
  content no older and will get a time later than all. The active one is kept as a
  witness, so that no induction over the table is needed; a deletion takes all of them
  or none (`KeptPublished`). That a published revision is final (`PublishedIsFinal`) needs
  that the one a `PublishBundle` has inserted is still a draft, and no other request's,
  when it comes to publish it (`DraftsInv`).
- *Authorization.* The properties are about one state, so the proofs are about the
  operators: what a tool owes its place in the envelope to, and that view and
  decision choose the same tool set (`SelectedIsAllowed`), which needs that a view `Decide`
  curates was not taken for its name `discover`.

Every invariant of a passing run is a theorem. Model-checked only: liveness and
everything with fairness or `ENABLED` (`SilentSessionExpires`, `DoomedProcessEnds`,
`ShutdownEnds`, `CancelledCallEnds`, the liveness half of `ImplementsContract`), which the
prover does not reach. It does not reach induction over data either, since the library's
induction theorems take an operator and no installed prover can instantiate one; what the
proofs need of folds they get by sets of counterexamples, see *Names and patterns*, and no
module with a theorem uses a recursive operator.

The assumptions the proofs use say what the constants stand for, and no more:
bounds are natural numbers (`OAuthAssumption`, `McpAssumption`, `SessionAssumption`,
`BoundsAssumption` and the like); the CLI's own token request is no tool call
(`CliIsNoToolCall`: `cmd/open-cli` asks for itself, `resolveAuthPlan` for a call); the
alternatives of an operation are a list, and `"none"`, which stands for no pending
requirement, names no scheme (`CredentialAssumption`);
`DiskAssumption` gives a file all sections, empty where a `rawConfig` field is nil, and
`WebAssumption` makes lists of what `linksetDocument`, `workflowDocument` and the answer to
`tools/list` decode into slices; `NameAssumption` has the order in which `Build` goes
through its maps (`sortedKeys`) name every service, source and MCP server that a file
gives.

## Known divergences

Shown by a run, with the quoted sentence, under "findings" in `PROJECT.json`:
`lease_exclusive_race`.

Stated in a module and failing there, one constant or invariant away from a run:

- `CloseClearsTokens` of `ToolboxLifecycle`, in the bounds of `toolbox` with one handler:
  the exit of the process overtakes the session-close that caused it
  (`website/docs/runtime/http-api.md:310`: "clears session-scoped auth cache state").
- `NoOrphans` of `ManagedProcesses`, in the bounds of `processes`: a child that is started
  while `Shutdown` works from its snapshot stays, and so does one whose signal is refused
  or whose file cannot be read; `OrphansHaveCauses` proves that there is no fourth cause
  (`devtools/superpowers/specs/2026-03-15-local-managed-runtime-lifecycle-design.md:15`:
  "Prevent orphaned `oclird` and MCP child processes").
- `FilesAreWhole` of `HttpCache`, with `Processes <- OneProcess`, `ProcessOf <-
  SameProcess`, `Policies <- Ordinary`, `MaxVersion = 1`, `MaxFaults = 0`: two goroutines
  share a temporary name (`website/docs/operations/cache-and-refresh.md:75`: "metadata and
  body are written atomically but separately").
- `NoDuplicateRefresh` of `TransportToken`, with `Clients <- TwoClients`, `MaxClears = 0`,
  `MaxFaults = 0`: two processes refresh with one token
  (`website/docs/security/secret-sources.md:195`: "instead of racing duplicate refresh
  requests").

Met while modelling, visible in the modules and kept out of the properties by a
named condition or by what the property speaks of:

- `NewProcessSupervisor` drops the error of `load` (`pkg/exec/process_supervisor.go:35`):
  after a registry file that cannot be read or decoded the toolbox starts with no pids, and
  its next `Track`, `Release` or `Shutdown` overwrites or removes the file. A `Signal` or
  `Kill` that fails otherwise than by the end of the process (lines 159-161, 167-169) is
  reported, and `Shutdown` forgets the child all the same (lines 75-77). Either loses a
  child that was tracked, against the design quoted at `NoOrphans`: the second disjunct of
  `Restart`, and `GiveUp`.
- `selectView` finds the built-in discover view under the name of a profile
  (`server.go:1213`, `pkg/catalog/build.go:826`), while `policy.Decide` looks for a
  configured profile of that name (`pkg/policy/policy.go:51-63`). A curated request with
  `agentProfile=discover` lists every tool and is then refused those outside the default
  profile's tool set; a configured profile `discover`, requested or the default, is hidden
  by the view, although `website/docs/configuration/modes-and-profiles.md:65` says "use
  that profile's effective view". These are the condition of `ListedIsExecutable`.
- The session-close that ends the runtime closes its own connection before it
  replies (`server.go:754`); `website/docs/runtime/http-api.md:312-319` shows a reply.
- An expired lease leaves the cached tokens (`server.go:1414`);
  `devtools/superpowers/specs/2026-03-15-remote-runtime-authz-policy-design.md:132`
  wants them destroyed "on explicit session close, lease expiry, ...".
- Metadata and body of a cache entry can be of different responses after a crash
  between the two renames or by overlapping fetches, and every 304 then confirms
  the old body; `website/docs/operations/cache-and-refresh.md:58` says an inconsistent
  entry is deleted, but `Load` compares nothing. This is `calm`.
- `tool:` scopes that name no tool of the catalog are dropped before it is decided
  whether there are any (`server.go:974`), against line 103 of the design above:
  the condition of `ResolvedEnvelopeFollowsDesign`.
- A child token without its parent's `tool:` scopes may do more than the parent,
  and one with only `tool:` scopes may too (`server.go:981`), although
  `website/docs/runtime/authentik-reference.md:109` allows delegation to reduce
  scopes: the conditions of `ReducedTokenNarrows`.
- An execute request without a valid token leaves no audit record
  (`server.go:308-315`), and neither does a call that a regular exit of the toolbox
  ends between effect and record; `website/docs/enterprise/overview.md:67` says every
  execution and auth event is recorded. These are `Reject` and `Exit`.
- After a broken write, or a line above 64 KiB, `List` fails for good
  (`pkg/audit/store.go:86-89`).
- MCP over HTTP and SSE: SSE does not read the status of a request's POST, so a refused
  request waits until the stream ends; its `ListTools` replay runs on a new stream that is
  not initialised; after a re-initialisation that failed half-way, the next request of
  the client goes out in a session that was not notified; `openStreamableHTTP` leaves the
  session when its notification fails; the DELETE of `Close` has no deadline
  (`ReadSSEStatus`, `StreamFails`, `Notified`, `Fail`, `Close`).
- A command sends no further request after a 401, so the refresh of
  `HandleAuthnFailed` never takes effect, although
  `devtools/superpowers/specs/2026-03-15-runtime-deployment-authz-design.md:231` lets the
  client attempt it. With tokens that live 30 s or less the second preflight fails.
- `pkg/auth/oauth.go` has no single-flight, unlike the transport's
  (`devtools/superpowers/specs/2026-03-14-mcp-native-oauth-design.md:573`). A torn token
  file is an error until it is deleted; session-close leaves `memoryTokenCache`.
- `auth logout` prints "Cached tokens cleared." (`commands/auth.go:327`) and leaves the
  client's own login token, which stays cached after the runtime has rejected it too;
  `auth login` reads `auth.browserLoginEndpoint`, which `handleRuntimeInfo` never sends.
- `extractAuthAlternatives` drops an empty requirement and alternatives of unknown
  schemes; a tool with no other alternative then needs no credentials.
- Configuration: a source that a scope gives only as `{"enabled": false}` is enabled by a
  later scope that names its type (`load.go:374-391`); `normalizeRuntimeServerAuth`
  resets `validationProfile` without an error; the local scope may widen a managed tool
  set's allow list and replace its `disabledTools`.
- Catalog: an overlay that removes by a filter that matches two items of an array
  removes one; a service that refers to an `apiCatalog` source fails the build, and so
  does any one source that fails; overlay targets of another form than
  `$.paths['...'].method` bypass `validateOverlayReference`.
- Admin: `handleValidateSource` changes a source's status without a record, and records of
  `VALIDATE_SOURCE`, `CREATE_REVISION`, `PUBLISH_REVISION` are never written, although
  `website/docs/operations/admin-audit-trail.md:7` has every mutating operation
  "automatically logged"; an update or deletion of no row is recorded as a success;
  records of two overlapping updates may stand in the other order than their effects; of
  two overlapping publishes the one with the older content may stay active; a publish that
  fails leaves a draft. The revision endpoints of `website/docs/admin/overview.md:211-229`
  are not routed, and the toolbox mounts the API with nil dependencies
  (`cmd/open-cli-toolbox/main.go:94`).
- A request that is cancelled during a refresh marks the refresh token as failed,
  and every later request of the instance fails closed (`pkg/mcp/client/auth.go:276`).

## What is not modelled

- Of the newer components: schema validation and the resolution of paths and addresses;
  parsing and validation of OpenAPI documents, texts, schemas, provenance and
  fingerprints; bytes of secrets and headers; the framing of JSON and of events; endpoint
  events after the first; authentication and the reading requests of the admin API;
  heartbeat, local handshake and embedded client of `cmd/open-cli/internal/runtime`,
  which no command uses; `pkg/mcp/client/stdio.go` beyond the life of its child.
- Of the modelled components: flag parsing and start-up before `Serve`; requests that
  are rejected before they reach the leases; the frames on a child's pipe; cache keys
  and header values; patterns beyond the prefix they end in (`CatalogBuild` has
  prefixes where the code has `path.Match`; a character class or a `?` would match
  other sets of ids); `copy` and added fields of overlays, and the validation of a
  document after its overlays; `CleanupManagedProcesses` and its one caller
  `resolveRuntimeURLFromInstance`, which no command calls; a static secret that reads
  as two different values within one call; the reuse of process ids; what fails before
  a transport's lock is taken, and its in-memory storage, which is the same code
  without the file; the retries Go's own HTTP transport makes; `handleWorkflowRun`,
  which only checks; catalog and refresh requests. An MCP tool call makes one attempt
  and appends its record as an HTTP one does.
- Signatures and claims of bearer tokens, schema validation, document parsing:
  libraries, or pure functions without shared state.
- CLI commands, prompts, output, observability, instance paths: no
  shared state a model would tell something about.

## Plan

Done: leases, toolbox, processes, cache, authorization, transport tokens, execution and
audit; OAuth of tool calls, client sessions and their composition; MCP over HTTP and SSE;
configuration, discovery and catalog build; admin control plane; proofs of every
invariant the runs check, of two refinements, and of action properties of the leases, the
control plane and the audit log.

Left, each with its runs, mutants and proofs:

1. More action properties, checked and then proved: the tokens of a session of
   `ClientSession` only move forward; a cache entry on disk is replaced by no older one
   while `calm`.
2. `LeaseTracker` (`internal/runtime/lease.go`) against `LeaseContract`, once something
   uses it.
3. Contract compatibility (`internal/runtime/contract.go`) as a pure operator.
4. The catalog, refresh and workflow handlers of the runtime server over `CatalogBuild`
   and `HttpCache`.
