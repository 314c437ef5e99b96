----------------------------- MODULE AdminPublish -----------------------------
(***************************************************************************)
(* The admin control plane (internal/admin): handlers that serve requests  *)
(* at the same time, each by SQL statements of its own without a           *)
(* transaction, over the tables of schema.sql.  A mutation is recorded in  *)
(* the audit trail by a second statement, whose error is dropped.          *)
(*                                                                         *)
(* Ids, contents of a bundle and readings of the clock are numbers, each   *)
(* kind given in order.  Requests that only read, and the refusal of a     *)
(* caller that is no administrator, change nothing and are left out.       *)
(***************************************************************************)
EXTENDS Naturals, FiniteSets

CONSTANTS
  Handlers,
  Principals,
  Kinds,        \* of sources
  Supported,    \* those the validator knows
  MaxGiven,     \* per kind of number: ids of the tables, contents, readings of the clock
  MaxFaults

ASSUME BoundsAssumption ==
  MaxGiven \in [{"bundle", "content", "assignment", "source", "revision", "time"} -> Nat]

VARIABLES
  db,        \* the tables bundles, assignments, sources and revisions
  given,     \* the last number of each kind
  handler,   \* per handler, the request it serves
  told,      \* the tables as the audit trail tells them
  returned,  \* revisions PublishBundle has returned
  faults,
  dubious,   \* bundles whose trail a fault or an overlap has touched
  mixed      \* bundles that two requests were publishing at the same time

adminVars == <<db, given, handler, told, returned, faults, dubious, mixed>>

NoRows == [i \in {} |-> 0]
Row(table, i, row) == [x \in DOMAIN table \cup {i} |-> IF x = i THEN row ELSE table[x]]
Rows(table, Keep(_)) == [i \in {x \in DOMAIN table : Keep(x)} |-> table[i]]
Idle == [pc |-> "idle"]

AdminInit ==
  /\ db = [bundles |-> NoRows, assignments |-> NoRows, sources |-> NoRows, revisions |-> NoRows]
  /\ given = [k \in DOMAIN MaxGiven |-> 0] /\ handler = [h \in Handlers |-> Idle]
  /\ told = [bundles |-> NoRows, assignments |-> NoRows]
  /\ returned = {} /\ faults = 0 /\ dubious = {} /\ mixed = {}

Free(h) == handler[h] = Idle /\ UNCHANGED <<told, returned, mixed>>
New(kind) == given[kind] + 1
Give(kinds) ==
  /\ \A k \in kinds : New(k) <= MaxGiven[k]
  /\ given' = [k \in DOMAIN given |-> IF k \in kinds THEN New(k) ELSE given[k]]
Fault == faults < MaxFaults /\ faults' = faults + 1

-----------------------------------------------------------------------------
(* Mutations.  A record names the bundle it is about, 0 if there is none.  *)

Entry(action, about, id, value) == [action |-> action, about |-> about, id |-> id, value |-> value]
ToLog(h, entry, success) ==
  handler' = [handler EXCEPT ![h] = [pc |-> "log", entry |-> entry, success |-> success]]
Unlogged(about) ==
  \E h \in Handlers : handler[h].pc = "log" /\ handler[h].success /\ handler[h].entry.about = about

\* a statement succeeds; or an error is reported, although it may have been
\* executed, and the record is one of failure
Statement(h, tables, entry) ==
  \/ /\ db' = tables /\ ToLog(h, entry, TRUE) /\ UNCHANGED faults
     /\ dubious' = IF Unlogged(entry.about) THEN dubious \cup {entry.about} ELSE dubious
  \/ /\ Fault /\ db' \in {db, tables} /\ ToLog(h, entry, FALSE)
     /\ dubious' = dubious \cup {entry.about}
Refused(h, entry) ==
  ToLog(h, entry, FALSE) /\ UNCHANGED <<db, given, faults, dubious>>

CreateBundle(h) ==
  /\ Free(h) /\ Give({"bundle", "content"})
  /\ Statement(h, [db EXCEPT !.bundles = Row(@, New("bundle"), New("content"))],
               Entry("CREATE_BUNDLE", New("bundle"), New("bundle"), New("content")))

\* an id without a row is no error
UpdateBundle(h, b) ==
  /\ Free(h) /\ Give({"content"})
  /\ Statement(h, IF b \in DOMAIN db.bundles THEN [db EXCEPT !.bundles[b] = New("content")] ELSE db,
               Entry("UPDATE_BUNDLE", b, b, New("content")))

\* the foreign keys cascade
DeleteBundle(h, b) ==
  /\ Free(h)
  /\ Statement(h, [db EXCEPT !.bundles = Rows(@, LAMBDA i : i # b),
                             !.assignments = Rows(@, LAMBDA i : db.assignments[i].bundle # b),
                             !.revisions = Rows(@, LAMBDA i : db.revisions[i].bundle # b)],
               Entry("DELETE_BUNDLE", b, b, 0))
  /\ UNCHANGED given

\* the bundle must exist, and a principal has it once
CreateBundleAssignment(h, b, p) ==
  LET row == [bundle |-> b, principal |-> p]
      entry == Entry("CREATE_ASSIGNMENT", b, New("assignment"), row)
      refused == b \notin DOMAIN db.bundles
                   \/ \E i \in DOMAIN db.assignments : db.assignments[i] = row
  IN /\ Free(h)
     /\ \/ refused = TRUE /\ Refused(h, entry)
        \/ /\ refused = FALSE /\ Give({"assignment"})
           /\ Statement(h, [db EXCEPT !.assignments = Row(@, New("assignment"), row)], entry)

\* an id without a row is no error here either
DeleteBundleAssignment(h, i) ==
  /\ Free(h)
  /\ LET rows == IF i \in DOMAIN db.assignments THEN db.assignments ELSE told.assignments
     IN Statement(h, [db EXCEPT !.assignments = Rows(@, LAMBDA j : j # i)],
                  Entry("DELETE_ASSIGNMENT", rows[i].bundle, i, 0))
  /\ UNCHANGED given

\* the new row is read back
CreateSource(h, kind) ==
  /\ Free(h) /\ Give({"source"})
  /\ Statement(h, [db EXCEPT !.sources = Row(@, New("source"), [kind |-> kind, status |-> "draft"])],
               Entry("CREATE_SOURCE", 0, New("source"), 0))

\* nothing is recorded
ValidateSource(h, i) ==
  /\ Free(h) /\ db.sources[i].kind \in Supported
  /\ db' = [db EXCEPT !.sources[i].status = "validated"]
  /\ UNCHANGED <<given, handler, faults, dubious>>

\* what the records, in the order of their timestamps, tell of the tables
Retold(e) ==
  CASE e.action = "CREATE_BUNDLE" -> [told EXCEPT !.bundles = Row(@, e.id, e.value)]
    [] e.action = "UPDATE_BUNDLE" ->
         IF e.id \in DOMAIN told.bundles THEN [told EXCEPT !.bundles[e.id] = e.value] ELSE told
    [] e.action = "DELETE_BUNDLE" ->
         [told EXCEPT !.bundles = Rows(@, LAMBDA i : i # e.id),
                      !.assignments = Rows(@, LAMBDA i : told.assignments[i].bundle # e.id)]
    [] e.action = "CREATE_ASSIGNMENT" -> [told EXCEPT !.assignments = Row(@, e.id, e.value)]
    [] e.action = "DELETE_ASSIGNMENT" ->
         [told EXCEPT !.assignments = Rows(@, LAMBDA i : i # e.id)]
    [] e.action = "CREATE_SOURCE" -> told

\* LogAuditEvent, in the context of the request
FaultyRecorded(success) == TRUE
Recorded(success) == success
LogAuditEvent(h) ==
  /\ handler[h].pc = "log" /\ handler' = [handler EXCEPT ![h] = Idle]
  /\ \/ /\ told' = IF Recorded(handler[h].success) THEN Retold(handler[h].entry) ELSE told
        /\ UNCHANGED <<faults, dubious>>
     \/ Fault /\ dubious' = dubious \cup {handler[h].entry.about} /\ UNCHANGED told
  /\ UNCHANGED <<db, given, returned, mixed>>

-----------------------------------------------------------------------------
(* PublishBundle: compile, insert a draft, read the clock and publish it.  *)

Publishing(h, b) == handler[h].pc \in {"insert", "clock", "publish"} /\ handler[h].bundle = b
PublishFails(h) == Fault /\ handler' = [handler EXCEPT ![h] = Idle] /\ UNCHANGED returned

CompileBundle(h, b) ==
  /\ handler[h] = Idle
  /\ handler' = [handler EXCEPT ![h] = [pc |-> "insert", bundle |-> b, snapshot |-> db.bundles[b],
                                        revision |-> 0, now |-> 0]]
  /\ mixed' = IF \E g \in Handlers : Publishing(g, b) THEN mixed \cup {b} ELSE mixed
  /\ UNCHANGED <<db, given, told, returned, faults, dubious>>

Draft(h) == [bundle |-> handler[h].bundle, status |-> "draft", snapshot |-> handler[h].snapshot,
             publishedAt |-> 0]
CreateRevision(h) ==
  /\ handler[h].pc = "insert"
  /\ \/ /\ handler[h].bundle \in DOMAIN db.bundles /\ Give({"revision"})
        /\ db' = [db EXCEPT !.revisions = Row(@, New("revision"), Draft(h))]
        /\ \/ /\ handler' = [handler EXCEPT ![h].pc = "clock", ![h].revision = New("revision")]
              /\ UNCHANGED <<faults, returned>>
           \/ PublishFails(h)
     \/ /\ handler[h].bundle \notin DOMAIN db.bundles
        /\ handler' = [handler EXCEPT ![h] = Idle] /\ UNCHANGED <<db, given, faults, returned>>
     \/ PublishFails(h) /\ UNCHANGED <<db, given>>
  /\ UNCHANGED <<told, dubious, mixed>>

ReadClock(h) ==
  /\ handler[h].pc = "clock" /\ Give({"time"})
  /\ handler' = [handler EXCEPT ![h].pc = "publish", ![h].now = New("time")]
  /\ UNCHANGED <<db, told, returned, faults, dubious, mixed>>

\* no row was affected if the bundle has gone meanwhile
PublishRevision(h) ==
  LET r == handler[h].revision
      published == [db EXCEPT !.revisions = [i \in DOMAIN @ |->
                      IF i = r THEN [@[i] EXCEPT !.status = "published",
                                                 !.publishedAt = handler[h].now] ELSE @[i]]]
  IN /\ handler[h].pc = "publish"
     /\ \/ /\ db' = published /\ handler' = [handler EXCEPT ![h] = Idle]
           /\ returned' = IF r \in DOMAIN db.revisions THEN returned \cup {r} ELSE returned
           /\ UNCHANGED faults
        \/ PublishFails(h) /\ db' \in {db, published}
     /\ UNCHANGED <<given, told, dubious, mixed>>

\* of the published revisions of the bundle the last one
FaultyPrecedes(r, s) == db.revisions[r].publishedAt >= db.revisions[s].publishedAt
Precedes(r, s) == db.revisions[r].publishedAt <= db.revisions[s].publishedAt
PublishedOf(b) ==
  {r \in DOMAIN db.revisions : db.revisions[r].bundle = b /\ db.revisions[r].status = "published"}
IsActive(r, b) == r \in PublishedOf(b) /\ \A s \in PublishedOf(b) : Precedes(s, r)

Crash ==
  /\ Fault /\ handler' = [h \in Handlers |-> Idle]
  /\ dubious' = dubious \cup {handler[h].entry.about : h \in {x \in Handlers : handler[x].pc = "log"}}
  /\ UNCHANGED <<db, given, told, returned, mixed>>

Request(h) ==
  \/ CreateBundle(h)
  \/ (\E kind \in Kinds : CreateSource(h, kind))
  \/ (\E i \in DOMAIN db.sources : ValidateSource(h, i))
  \/ (\E b \in DOMAIN db.bundles \cup DOMAIN told.bundles :
        \/ UpdateBundle(h, b) \/ DeleteBundle(h, b)
        \/ (\E p \in Principals : CreateBundleAssignment(h, b, p)))
  \/ (\E i \in DOMAIN db.assignments \cup DOMAIN told.assignments : DeleteBundleAssignment(h, i))
  \/ (\E b \in DOMAIN db.bundles : CompileBundle(h, b))

AdminNext ==
  \/ (\E h \in Handlers : Request(h) \/ LogAuditEvent(h) \/ CreateRevision(h) \/ ReadClock(h)
                            \/ PublishRevision(h))
  \/ Crash

AdminSpec == AdminInit /\ [][AdminNext]_adminVars

-----------------------------------------------------------------------------
\* The audit trail is a complete history: read in order, with the cascades of a deletion, its
\* records of success give the bundles and assignments there are, as long as no fault touched
\* the bundle and no two mutations of it overlapped (LogAuditEvent).
TrailTellsBundles ==
  \A b \in (DOMAIN db.bundles \cup DOMAIN told.bundles) \ dubious : ~Unlogged(b) =>
    /\ b \in DOMAIN db.bundles \cap DOMAIN told.bundles /\ db.bundles[b] = told.bundles[b]
    /\ Rows(db.assignments, LAMBDA i : db.assignments[i].bundle = b)
         = Rows(told.assignments, LAMBDA i : told.assignments[i].bundle = b)

\* What was published stays published: after a PublishBundle that returned, its bundle has an
\* active revision, of a content no older than the returned one, whatever drafts, failed
\* publishes and updates came between, unless two publishes overlapped (GetActiveRevision).
ActiveIsNewest ==
  \A r \in returned \cap DOMAIN db.revisions :
    LET b == db.revisions[r].bundle
    IN b \notin mixed =>
         \E s \in PublishedOf(b) :
           IsActive(s, b) /\ db.revisions[s].snapshot >= db.revisions[r].snapshot
=============================================================================
