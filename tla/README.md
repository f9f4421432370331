# agent-memoryd in TLA+

agent-memoryd is a resident daemon that keeps memories of coding sessions in a
local zvec collection. It ingests git events and agent transcripts through a
summarizer command, and serves its store over a unix socket to the command
line, the MCP server and the TUI. This directory models its core in TLA+,
checks the models with TLC on small instances and proves their main results
with TLAPS. Paths below are under `src/`; Go packages are under
`src/internal/`. All the definitions are translated from the code; `PROJECT.json`
gives the source lines of each (`map`), and the properties each hazard is
caught by (`hazards`).

## 1. The system

    git hook --> spool/*.json --+
                                |  daemon.Once (ticker, one pass at a time)
    transcripts, opencode ------+--> summarizer --> Add --+
                                |                         v
                 ingest-state.json                  memory.Store --> zvec
                                                          ^  (mutex; embedder
    CLI, MCP, TUI --> storerpc client --> unix socket ----+   outside it)

| component | state it keeps | operations | what is hard | what makes it correct |
|---|---|---|---|---|
| memory store (`memory/store.go`, `record.go`, `api.go`) | the collection, `s.mu` | Add, Get, Forget, List, Search, Status, Backfill, Optimize | embedding outside the mutex; several critical sections per operation; index entries of deleted documents; Upsert done and Flush failed | operations take effect at one instant; a vector belongs to its record's text; List and Backfill miss nothing; nobody waits for another's embedder |
| search blending (`memory/search_*.go`) | none | blend, normalize, lexical text | relevance and distance run in opposite directions; legs with equal scores; the limit | each id once, at most limit, better memories first |
| opening, migration (`store.go` Open, `migrate.go`) | legacy file, collection | Open, migrateIfNeeded, Close | a crash in or between batches; ids that share a key; retries beside clients' records | a renamed file is in the store whole; no client's record is replaced; the store opens again |
| ingest state (`ingeststate`) | per input: fingerprint, status, attempts, retry time; the file | Load, Save, ShouldProcess, MarkProcessed, MarkFailed | crash between doing and saving; two processes saving | a bounded number of retries; the file can be loaded |
| git spool (`spool`) | event files, `failed/` | EnqueueGit, ProcessGit | hooks, the daemon and `scan-once` at once; partial writes; moves that fail | no event is lost, no event blocks others |
| daemon pass (`daemon`) | a copy of the ingest state | Run, Once | one step failing must not undo or prevent the others | state is saved on every path |
| transcript scan (`ingest`) | (ingest state) | Scan, scanOpenCode, parse | files that grow while they are read; idle window; failing exports | the last state of a session is summarized in the end |
| daemon lifecycle (`app`, `cloexec`) | zvec lock, socket file | runDaemon, dialOrOpen, shutdown | handlers in flight at Close; the last Optimize; inherited descriptors | one process has the collection; the socket leads to it; an acknowledged Add is kept; stops end |
| store RPC (`storerpc`) | a socket, one request per connection | Serve, dispatch, call | lost replies; stale socket | a reply belongs to its request; errors keep their meaning |
| MCP (`app/mcp.go`) | none | tools, buildMemoryContext | a Get for each result while others write; limits and truncation | context fits its budget, and no result starves another |
| TUI (`explore`) | query, records, selection, offset, window | Update, refresh | lists that shrink, windows that change, records forgotten while a search is filled in | the selection exists and is drawn; pages are full |
| summarizer, embedder | none | Summarize; Embed | time out, fail, answer nonsense | (their outcomes are inputs to the others) |
| import (`importmem`) | none | Import | one record of many failing, perhaps after it was stored | re-running leaves each record once |
| setup (`app`, `config`, `githooks`, `launchd`) | files of the root, a plist, git's `core.hooksPath`, the manifest | init, embedder setup, uninstall | a command cut short anywhere; the user moves `core.hooksPath`; daemons and hooks that write | git points at hooks that exist; others' settings stay; uninstall leaves nothing |

They interact by calls under one process (pass, scan and handlers all call
`memory.API`), by RPC from other processes, and through three shared files:
event files, `ingest-state.json` and the socket.

## 2. The memory store

* `RecordMap` is the abstract specification: a map from ids to texts on which
  an Add, Get, Forget or List takes effect at one instant between call and
  reply. A search may look several times and reports records it saw, each id
  once. Backfill, Optimize and Status do not touch the map. Calls may be
  refused, and an Add or Forget that was done may be reported failed.
* `MemoryStore` is the code. Variables: `docs` is the collection (text,
  creation time, vector or null), `stale` the index entries zvec keeps of
  deleted documents, `mu` the mutex, `cancelled` the daemon's context, and per
  caller `pc`, `req`, `loc` (the operation's Go variables) and `reply`. `raced`
  is a history variable read by no action. One action is one critical section
  or one stretch of code without the mutex; `Lock` is separate. A text stands
  for all that Add can set of a record, and a vector is named by the text it
  embeds, so "the vector of another text" can be told.

| code | actions |
|---|---|
| every operation's head, `s.mu.Lock`, return | `Call`, `Lock`, `Return`, `EngineError` |
| `Add` | `AddEmbed`, `AddWrite` |
| `Get`, `Forget`, `List`, `Optimize` | `GetWork`, `ForgetWork`, `ListWork`, `OptimizeWork` |
| `SearchDetailed`, `searchFilteredByEmbedding`, `blend` | `SearchEmbed`, `SearchLegs`, `SearchList`, `SearchListFails`, `SearchRank` |
| `Status`, `pendingCount` | `StatusCount`, `StatusPending`, `StatusProbe`, `StatusCancelled` |
| `Backfill` | `BackfillSnapshot`, `BackfillEmbed`, `BackfillFill`, `BackfillSkip` |

zvec is not in the repository. It is modelled from how the code uses it
(`Index`, `Upsert` and `Live` are marked external): an Upsert replaces a key's
document and index entry; a Delete may leave an index entry, which takes a
place among the `TopK` hits and which Optimize may drop (the reason the code
gives for re-fetching hits); full-text search may match any subset of what the
filter admits; any call may fail before it changes anything, and Flush may fail
after an Upsert or Delete. Scores are abstracted to a free choice of which
hits are best, because no property here depends on them.

What is checked:

* `StoreIsRecordMap` - the store implements `RecordMap`. This is where a
  Backfill that brings back a forgotten record, a List that shows a deleted
  one or a search that shows an id twice would be seen.
* `StaleVectorOnlyAfterRace` - a document's vector is that of its own text or
  null, except when its last Add was written while a Backfill held an older
  text of that id. It is exact: `store_backfill_overwrites` shows the
  exception happens.
* `EnumerationComplete` - with at most `MaxTopK` documents and no left-over
  entry, List returns all records and Backfill takes up all pending ones.
* `EmbedderBlocksNobody` - whoever waits for the mutex gets it and leaves its
  critical section, though embedders may hang for ever.
* `CallsReturn` - if embedders answer, every call returns.
* `TypeOK` - types, vectors of the right dimension, and the mutex held by the
  one caller inside a critical section.

## 3. Spool and ingest state

* `IngestState` has the operators of `state.go` on one input. Of a retry time
  only "has it passed" is kept; `Elapse` lets it pass, for all the inputs with
  the same number of failures in every copy of the state (back-off is a
  function of that number).
* `EventDelivery` is the promise: an event written by its hook is kept until
  an attempt has stored all its memories, or `MaxAttempts` attempts failed.
* `GitSpool` is the code, with any number of workers: the resident daemon, and
  `scan-once` commands, which dial the daemon's store but run the pass in their
  own process on the same files. Variables: `file` (each event's place),
  `stored` (the memories under the event's ids), `disk` and `tmp` (the state
  file and the temporary file), `fd` (what the file a worker has open is called
  by now), and per worker `pc`, `mem` (its `State`), `changed`, `queue` and the
  event in hand. `tries` and `whole` are history.

| code | actions |
|---|---|
| `EnqueueGit` | `EnqueueCreate`, `EnqueueWrite` (which may leave a broken file) |
| `Once`: Load | `Load` |
| `ProcessGit` | `ReadSpool`, `TakeEvent` (read, decode, ShouldProcess), `Remove`, `Move` |
| `addGitMemory` | `Summarize`, `AddMemory` (each also failing into `Fail`, i.e. MarkFailed) |
| `State.Save` | `SaveNothing`, `SaveOpen`, `SaveWrite`, `SaveRename` |
| death of a process; time | `Crash`; `Elapse` |

Events are numbered in the order of their file names, because ReadDir sorts
and the order decides which events a failing one holds up. A memory in `stored`
carries the size of the summary it came from, so memories of different attempts
can be told apart. The bytes of the state file are not modelled: overlapping
writes leave either writer's state or one that does not decode.

What is checked:

* `SpoolDelivers` - `GitSpool` implements `EventDelivery`, for two overlapping
  workers, crashes at every point and failing removes and moves.
* `SummaryWhole` - when an event is removed the store holds the summary of the
  attempt that removes it, unmixed. (What a longer earlier attempt left in
  further slots stays; no document promises otherwise.)
* `RetriesBounded` - an event fails at most `MaxAttempts` times plus one per
  fault: a crash forgets at most one failure.
* `EventsSettle` - every written event leaves the spool, or is quarantined in
  place when moving it failed, unless a broken event file sorts before it.
* `SavedStateLoads` - a state file at rest decodes.
* `TypeOK` - every copy of the state is one `Load` accepts: a failed input has
  attempts left, a quarantined one has none.

The middle four hold for one worker only. Two workers that summarize the same
event interleave their memories under the same ids, each saves over the other's
counts, and they can garble the state file, after which no pass runs at all.
Delivery and types hold for any number of workers.

## 4. The daemon's pass and its transcript scan

`TranscriptScan` is one process running `daemon.Run`: pass after pass, each
Load, ProcessGit, Scan, Save, with shutdowns (a cancelled context, then
launchd's restart), crashes and failing system calls in between, while agents
write the sessions the pass walks over. Variables: `version` and `kind` (what
each session holds), `idle` (the sessions that rest), `disk` (the state file),
`cancelled`, and of the pass `pc`, `mem` (its `State`), `root` and `left` (where
the walk is) and the session in hand with its fingerprint `fp` and the version
`got` that was read. `fails` and `whole` are history, read by no action.

| code | actions |
|---|---|
| `Run`, `Once`: ticker and Load; the deferred Save | `Load`; `Save` |
| `ProcessGit` as the scan sees it | `ProcessGit` (goes on, or ends the pass) |
| `Scan`: the loop over roots; `openCodeSessionIDs` | `NextRoot` |
| `WalkDir`'s callback: stat, windows, `fileID`, ShouldProcess; parse | `VisitFile`; `ReadFile` |
| `scanOpenCode`: export, parse, windows, `dataID`, ShouldProcess | `Export` |
| `StoreTranscriptMemories` with MarkProcessed, or MarkFailed | `Digest`, `DigestFails` |
| SIGTERM; return of `Run` and restart; death | `Stop`; `Restart`; `Crash` |
| agents; time | `Write`; `Rest`, `Elapse` |

* Versions stand for contents. A file has a fingerprint of its directory entry,
  which the walk takes before it reads, so `fp` and `got` may differ; an export
  is fingerprinted itself, so they do not. Version 0 is older than the manifest
  of `init`, and no file at version 0 is read: what it holds is fixed to "blank".
* The kind is what parsing makes of a session: "talk" is summarized; "blank"
  has no conversation (a file is passed over unmarked; an opencode export gives
  an empty transcript whose zero time passes both windows, and is summarized);
  "broken" does not parse (a file is marked failed, an export is passed over);
  an "unexportable" one makes `opencode export` fail, which ends the scan.
* The context is looked at between roots and between opencode sessions only. A
  walk under way goes on, and the listing of existing memories fails for each
  file it still meets: `DigestFails` with a cancelled context.
* The spool's part is one step, which ends the pass by a fault; `GitSpool` says
  when it does so for good (`NoEventBlocked`). Save is one step because a single
  process saves, and for that case `GitSpoolProofs` shows that the file
  always decodes. Sessions are numbered in the order a scan meets them.
* Not modelled: files that are deleted, and the memories stored for a summary
  one by one (`whole` says only which version was summarized in full).

What is checked:

* `ProcessedIsWhole` - a session marked under a fingerprint has a summary of
  what it held at that fingerprint or of more. It fails if the fingerprint is
  taken when the session is marked.
* `QuarantineEarned` - a session is quarantined for failures of the content it
  has that fingerprint for, and each shutdown takes at most one attempt away.
* `DigestedOnce` - without faults nothing is summarized twice: passes that end
  early save what they have done.
* `LastStateDigested` - what a session holds when it comes to rest is
  summarized or quarantined, unless an unexportable session precedes it.
* `TypeOK` - types, and that a session in hand is one the root still has.

## 5. The daemon and its clients

`DaemonService` is any number of `memoryd daemon` processes on one directory
(launchd's, one started by hand, the next one after a stop or a crash) and the
clients that call them. A call is an Add of the client's own record, the only
operation whose effect has to outlive the daemon; what operations do to each
other is MemoryStore's subject. Of the collection three sets are kept: `dirty`
(upserted), `disk` (flushed) and `searchable` (an Optimize has run since).
Variables: `lock` (zvec's lock on its directory), `sock` (whose listener the
socket path leads to), per daemon its main goroutine's `pc`, its context
`cancelled`, `listening`, `accepting`, and `mu` (whose handler has the store's
mutex), and per client its `call` and, as the handler sees it, its connection
`conn` to the daemon `at`. `acked` is history.

| code | actions |
|---|---|
| `newDaemonCommand`, `loadStore`, `memory.Open` | `Open`, `StartFails`; `Close`, `Exit` |
| `Server.Listen`: remove, then listen | `Unlink`, `Bind`, `StartFails` |
| `runDaemon`: SIGTERM, `Run` returns, last Optimize, deferred clean-up | `Stop`, `RunReturns`, `StopOptimize`, `Cleanup` |
| `Server.Serve` and its goroutine that closes the listener | `Accept`, `AcceptFails`; `ServeEnds` |
| `Client.call`, `handleConn`, `Store.Add` | `Dial`, `Accept`, `Upsert`, `Flush`, `Reply`, `EngineFails` |
| Optimize at the end of a pass; deaths | `PassOptimize`; `Crash`, `Leave` |

* The shutdown is split where goroutines can come between: SIGTERM cancels the
  context; the listener is then closed by Serve's goroutine or by the deferred
  function, before or after `Run` returns and Optimize runs; handlers go on
  through all of it, and meet a closed collection if they are late.
* Closing a listener removes the path by name (Go unlinks it), and so does the
  next Listen; a crash leaves it. The lock is external: one process at a time,
  released by Close or death. `MarkOpenFiles` is why it dies with the daemon
  though subprocesses live on.
* Close or a crash may keep any of what was upserted and not flushed: the code
  relies on Flush only. Embedding is part of the time a connection is
  "handling". Open is one step here; its inside is
  `StoreOpening`.

What is checked:

* `SocketServed` - whoever listens, the path leads to it: no late clean-up or
  early Listen removes another's socket. Only the lock sees to that.
* `AckedKept` - an acknowledged record is on disk, whatever stops or dies later.
* `CallsAnswered` - a call returns, through stops and deaths of the daemon, unless
  its accept loop has ended by an error. The exception is real: Serve returns
  on any error of Accept, nothing looks at that until the daemon stops
  (`srvDone`), the listener stays open, and clients have no timeout.
* `StopEnds` - a daemon that is told to stop gets there, whatever its handlers do.
* `ServiceReturns` - again and again there is a daemon to be dialled.
* `TypeOK` - types, and that the collection is open, the listener is open and
  the mutex is held in the stretches of code they should be.

## 6. The programs around the store

Five programs are run by one process from start to end, each beside surroundings
that change or fail: the opening of the store, the bulk import, the explorer, the
context tool, and the commands that set memoryd up and take it away. They never
call each other; to each of the first four the rest of the system is clients of
the store. `StoreTools` composes them that way: one of the five runs (`tool`), and
the others' variables rest.

* `StoreOpening` is `memory.Open` with `migrateIfNeeded`. Variables: the lines of
  the `legacy` file, the `file`'s name, the collection (`coll`, and what of it is
  `durable` and `merged` into the full-text index), how far Open has come
  (`phase`, `line`). A record of the file is named by its line, so "which of
  two lines with one key" can be told. `touched` is history. The lock is `DaemonService`'s subject; here one
  daemon at a time has the store.
* `BulkImport` is `memoryd init --import`: a file or a directory, item by item.
  An item is a JSONL line with or without an id, a blank one, one that does
  not decode, or the body of a text file. It is stored under the key of its id,
  the given one or the one made from its place. Directories that are skipped are
  files that are not there.
* `RecordKeys` is what the two share: `PkOf` is `sanitizePK`, under which ids such
  as `a:b` and `a/b` have one key. In `MemoryStore` the ids are those keys.
* `Explorer` is the TUI. A message is handled in one step, except a search, whose
  Gets are calls of their own. Records carry when they were last updated; which
  records a search finds is free. The lists and the window are the state.
* `ContextBuilder` is the tool `context`, on top of `SearchBlend`, the scoring of
  `search_blend.go` over small integers: a normalized score is a fraction and is
  kept as its numerator over a common denominator, so that comparing blended
  scores is exact. A body counts by its length. Negative limits and budgets ask
  for the defaults and are covered by 0.
* `LiveStore` is the store these two read in several calls: a map that others
  change between any two. `RecordMap` says what one call promises.
* `Setup` is `memoryd init`, `embedder setup` and `uninstall`. Variables: `step` and
  `choice` (the running command and what it was asked for), `disk` (each file absent,
  torn or whole; the manifest names a config file), `data` (the rest of the root),
  `planned` (the config file of the manifest that uninstall loaded), `hooksPath` and
  what git last answered (`seen`), `loaded` and `running` (launchd's service and a
  daemon), `hookRuns`, `outcome`. `moved`, `blind`, `unbooted` and `lingering` are history.
  A bootout succeeds or fails, and `unbooted` tells that it failed and left the service. A
  command may find no git in its PATH. The surroundings act at any step: the user
  sets `core.hooksPath` to another path or unsets it, hooks enqueue, daemons start, save
  and stop, launchd starts over at a login. One command runs at a time, the root
  is where the default is, and nobody but init sets the managed path.

| code | actions |
|---|---|
| `Open`; `Close`, `runDaemon`'s last Optimize | `OpenCollection`; `CloseStore` |
| `migrateIfNeeded`: Stat and DocCount; parse; batches; Flush, Optimize, Rename | `SkipImport`, `StartImport`; `ParseFails`; `UpsertBatch`; `FlushImport`, `OptimizeImport`, `RenameFile` |
| its error returns; death of the daemon | `OpenFails`; `Crash` |
| `Add`, `Forget` by clients | `ClientAdds`, `ClientForgets` |
| `Import`, `importFile`, `importJSONL`, `importText` | `StartRun`, `SkipFile`, `SkipItem`, `AddItem`, `NextFile`, `FinishRun` |
| their error returns | `AddFails` (done or not), `DecodeFails`, `ReadFails` |
| `NewModel`; `Update`: keys, resize | `StartExplorer`; `Line`, `Page`, `Home`, `End`, `Resize` |
| `refresh` | `ClearQuery`, `SearchFor`, `SearchErrs`, `FillFromRecords`, `FillByGet`, `FillFails`, `ShowResults` |
| `buildMemoryContext` | `AskContext`, `SearchFails`, `ExpandHit`, `PassForgotten`, `ExpandFails`, `AnswerContext` |
| `InitWithConfig`, `WriteManifest` | `StartInit`, `MakeDirs`, `WriteConfig`, `WriteManifest` |
| `githooks.InstallManaged` | `WriteManagedHooks`, `LookAtHooksPath`, `SetHooksPath` |
| init's daemon and import: `InstallAndStart`, `waitForDaemon` | `StartDaemonOrNot`, `WritePlist`, `RestartService`, `AwaitDaemon`, `ImportAtInit` |
| `embedder setup` | `StartEmbedder`, `WriteEmbedder` |
| `runUninstall`: manifest, `UninstallManaged`, `BootoutAndRemove`, removals | `StartUninstall`, `LoadManifest`, `LookToUnhook`, `UnsetHooksPath`, `BootoutAndRemove`, `RemoveRoot`, `RemoveConfig` |
| a kill or a failed call in any of these | `CutShort` |
| user, hooks, daemons, launchd | `UserSetsHooksPath`, `HookStarts`, `HookEnqueues`, `DaemonStarts`, `DaemonSaves`, `DaemonStops`, `Login` |

What is checked:

* `MigratedWhole` - once the legacy file is renamed, each of its records that no
  client touched is in the collection, flushed and merged, and of lines with
  one key the last is; whatever failed or crashed before.
* `ClientRecordsStand` - no step of an opening replaces a client's record, also
  when the file of an earlier, interrupted import is still there.
* `OpensAgain` - after every crash and failed call the store comes open, unless a
  line of the file does not parse and the collection is empty.
* `ImportedWhole` - of what an import that has not failed got past, the store has
  under each key the last record with that key, and every record is counted. Of two
  ids with one key the earlier record is lost, as it is in the code.
* `SelectionVisible`, `PageFull` - the selected item exists and is among the rows
  that `bodyView` draws; no row stays blank that could show an item. The two
  compare `listCapacity` with what is drawn, which the code computes twice.
* `WithinBudget`, `FairShare` - the bodies and the budget left add up to
  `max_chars`; each entry is whole or has its equal share of it.
* `BetterRanksFirst` - a memory no worse in each leg and better in one that counts
  precedes the other, also where the limit cuts.
* `HooksLive` - `core.hooksPath` never names the managed directory while a script is
  missing there, however init and uninstall are cut short and mixed, unless an
  uninstall found no git to ask and removed the scripts all the same.
* `OthersHooksKept` - neither command replaces or unsets a `core.hooksPath` of
  somebody else, unless it was set after the command looked.
* `UninstallLeavesNothing` - an uninstall that reports success has removed the files,
  the plist, the config file of its manifest and git's setting, if git was there. launchd
  has the service no more and the root does not come back, at a login either, with
  exceptions that the property names: a daemon or a hook that ran when the root was
  removed, a daemon that the user starts later, and a bootout that failed, after which
  launchd keeps the service and starts its daemon again. The last is against
  docs/uninstall.md:33 (section 10).
* `ToolsTypeOK` - types of the six modules; the budget is below its cap.

## 7. Runs

| run | instance | states | what it shows |
|---|---|---|---|
| `store_safety` | 2 callers, 2 ids, 2 texts, limit and TopK 2, every operation but Status | 3.4M, 2 min | safety of the store |
| `store_live` | 2 callers, 1 id, 2 texts; Add, Search, Status, Backfill | 0.3M, 80 s | progress of the store |
| `store_backfill_overwrites` | 2 callers, 1 id | violation | finding 1 |
| `spool_safety` | 2 workers, 1 event, 3 attempts, summaries of 0 to 2, 2 faults | 0.3M, 10 s | delivery |
| `spool_live` | 1 worker, 2 events, 3 attempts, summaries of 0 to 2, 1 fault | 0.4M, 40 s | progress and bounds |
| `spool_blocked` | 1 worker, 2 events, no fault | violation | finding 2 |
| `spool_state_garbled` | 2 workers, 2 events, no fault | violation | finding 3 |
| `scan` | an opencode session and a file, of which the file is written twice or the export once, 2 attempts, 1 shutdown, 1 fault | 0.2M, 30 s | safety and progress of the scan |
| `service` | 2 daemons, 2 clients, 1 stop, 1 fault | 0.2M, 2 min | safety and progress of daemons and calls |
| `service_unsearchable` | the same | violation | finding 4 |
| `store_tools` | each program by itself: legacy files of up to 3 lines in batches of 2, 2 keys for 3 ids, 2 faults; 10 import sources, with two ids of one key in a file and across files, 2 runs, 2 breaks; 3 memories with 2 bodies, 3 windows; budgets of 5 and 9 characters, scores 0 to 2; any sequence of setup commands, 1 cut short | 1.8M, 2 min | safety of the five programs, progress of the opening |
| `migration_cut_short` | the same | violation | finding 5 |

Bounds. Two callers are enough for every race of the store: each critical
section is atomic and every property relates at most one operation to the
effect of others, which one other caller can produce in any number, one call
after the other. Two ids are needed for enumerations that miss one and for
merges of legs, two texts for a replaced record and for a filter. `Status`
reads only, so it is left to the run about progress, where its two critical
sections matter. Progress needs no second id: Backfill's loop is already one
item or none. In the spool three attempts leave a state of each kind (first
failure, further failure, quarantine); two memories give a partial summary; two
faults let a crash meet a failed move. The counter `tries` stops at `MaxTries`,
which is above every bound it is compared with: 3 for `SpoolDelivers`, and 6
for `RetriesBounded`, which would have to exceed 4. `MaxNow` bounds the clock,
which ticks once in `store_live` and nowhere else: no property reads it. In the
scan a file is written twice, before it is read and while it is, or the export
once, since it is one step; the two bounds are alternatives (`MaxWrites`), because
a session's history matters to the other only by failing before it; one root is opencode's
and comes first, so that an export that fails can hold up the file. Two attempts
leave every kind of record (failed, quarantined), and with one shutdown a
quarantine needs at least one failure of its own. Two daemons give a stop or a crash
beside a start, and a third could only do what one of them does again, since
an exited daemon may start anew; two clients give two handlers on one mutex and
a call that arrives while another is served; stop and fault may hit the
same daemon or both. The zvec limit of 10000 hits is 2
here; `EnumerationComplete` says what holds up to it. Three lines in batches of two
give a full batch, a partial one and a crash between them, and two of the ids share
a key, within a batch or across; two faults let a second opening fail too. Three
memories are one more than fit a row or two, and a resize to the size not known
yet (0 by 0) is among the windows. Budgets of 5 and 9 leave shares below, at and
above the three characters of the marker for bodies of 2 and 7; scores 0 to 2 give
legs with and without a span. One setup command cut short leaves every partial
installation and removal there is, from which any sequence of commands goes on;
`Setup` alone was run with two as well. No fault but a crash, a failed call or
another client's write can come between two steps of a program, so each of them
runs alone.

Symmetry is used in safety runs only (callers and ids; workers). `t1` is in a
filter, so texts are not symmetric, and events are ordered, so they are not.

## 8. Fairness

* Store: weak fairness of the steps a goroutine can always take, strong
  fairness of `Lock`: Go's `sync.Mutex` enters starvation mode after a waiter
  has waited 1 ms and then hands the mutex to it. Nothing is assumed of the
  embedder in `EmbedderBlocksNobody`. `CallsReturn` has fairness of `Embedding`
  as its hypothesis, which holds when the embedder's configured timeout is set.
* Spool: weak fairness of `Work` of each worker (the ticker of `daemon.Run`
  starts pass after pass, and the summarizer runs under a timeout), of
  `EnqueueWrite` (a hook finishes or dies) and of `Elapse` (clocks advance).
  Faults are bounded by `MaxFaults` and not fair: crashes may happen or not,
  not for ever.
* Scan: weak fairness of `Work`, of `Rest` (whoever stops writing is idle in the
  end) and of `Elapse`; strong fairness of `Restart`. With a cancelled context
  `Run`'s select has two ready cases whenever the ticker has fired, and Go
  chooses among them at random, so it does not take the ticker for ever; launchd
  keeps the daemon alive. Nothing is assumed of the summarizer: a session may
  fail until it is quarantined.

* Daemons: weak fairness of some daemon's start (launchd keeps one alive) and of
  `ServeEnds`; strong fairness of each daemon's main goroutine and of each
  handler, which wait for one mutex that starves nobody. That `Run` returns
  once the context is cancelled holds as in the scan: a pass ends, and select
  does not take the ticker for ever. Handlers assume an embedder that answers.
  Stops and faults are bounded and not fair.
* Opening: weak fairness of the daemon's own steps, `OpensBy(OpeningStep)`: launchd
  starts a daemon that has exited, and one that opens the store goes on. No
  fairness is assumed of the other programs, whose users drive them.

## 9. Proofs

`MemoryStoreProofs`, for any number of callers, ids, texts, filters and any
limits:

* `TypeCorrect`, `VectorsTrustworthy`, `StoreImplementsMap`, all from the
  inductive invariant `IInv == StoreOK /\ CallersOK /\ RaceInv /\ LegsInOrder`.
  `TypeOK` alone is not inductive: that an Add only writes a right-sized vector
  needs what it learnt when embedding (`AddHoldsOwnVector`). The vector property
  needs that a Backfill's texts are still current unless `raced` says otherwise
  (`HeldTextIsCurrent`), and that left-over index entries are of dead documents,
  so that a snapshot is of live ones. The refinement needs that only a search
  holds results and that no leg has an id twice (`LegsInOrder`); then each
  action maps to one action of `RecordMap` or to a stutter.
* `StoreServesReaders`: through `RecordMap`, the store also implements `LiveStore`,
  the changing store in which `Explorer` and `ContextBuilder` are checked and
  proved. What those two assume of their environment is what the store does.
* `EnumerationsComplete`: a List, or the pick-up of a Backfill, misses nothing while
  there are at most `MaxTopK` records and no left-over index entry. The argument is
  one of cardinality: what a query returns of the matching entries is a subset of
  the size it asked for, and there are no more of them (`TopKIsAll`).
* `BackfillAloneFillsOnlyNull` and `VectorsOwnWithoutRace`, for behaviours with
  `BackfillAlone`: what a Backfill holds is then still without a vector, or gone,
  when it is written (`ItemsPending`).

`GitSpoolProofs`, for any workers, events and bounds:

* `SpoolTypeCorrect`, `SpoolImplementsDelivery`, from `IInv == TypeOK /\
  Counted /\ InHand`: no copy of the state counts a failure that did not happen,
  and a worker at a step has done what the step relies on (an event in `remove`
  was stored in full, one in `move` failed `MaxAttempts` times). `Counted` is
  what makes a stale copy harmless: it may forget failures and cannot invent
  any.
* `SavesApartStateLoads`, for any number of workers no two of which save at a time:
  the temporary file is then that of the one that writes it, and empty or whole
  at each step (`SaveIsPrivate`). `EventsApartSummaryWhole`, if no two store memories
  of one event at a time: the memories stored so far are those of the summary in
  hand (`AddedSoFar`). With one worker (`Alone`) neither can happen, which gives
  `SingleWorkerStateLoads` and `SingleWorkerSummaryWhole`.
* `SingleWorkerRetriesBounded`, for one worker too: every copy of the state knows
  an event under its own fingerprint (`OwnFps`), a pass takes each event once, so
  that its `State` is at most one failure ahead of the file (`OncePerPass`), and of
  the failures there were the State remembers all but one for each fault
  (`Remembered`).

`TranscriptScanProofs`, for any sessions, roots, shutdowns and bounds (both it
and `GitSpoolProofs` rest on `IngestStateProofs`, what the operators of the ingest
state return):

* `ScanTypeCorrect`, `SessionsWhole`, `QuarantinesEarned` and
  `NothingDigestedTwice`, all from one `IInv`. To `TypeOK` and `ProcessedIsWhole` it
  adds: the attempts the State counts have failed or were lost to a shutdown
  (`AllCharged`), and the shutdown under way has not yet taken one from the
  sessions still to be visited (`NotChargedYet`), which is why one shutdown costs
  at most one attempt; what the State knows of a session is never ahead of it
  (`NotAhead`), without faults what was summarized is known or overtaken
  (`Remembered`), and a session in hand is not known under its fingerprint
  (`HandIsNews`).

`DaemonServiceProofs`, for any daemons, clients and bounds:

* `ServiceTypeCorrect`, `ListenerReachable` and `AcknowledgedSurvives`, from `IInv`:
  `TypeOK`, `SocketServed` and `AckedKept` together with where connections can
  lead (`Placed`) and what a handler about to reply has flushed (`FlushedKept`).
  The argument for the socket is mutual exclusion: whoever removes the path
  has the lock, and a listener is open only in the daemon that has it.
* `QuietStopSearchable`, for behaviours with `NoLateAdd`: from the last Optimize of a
  daemon to the lock's release all that is on disk or yet to be flushed can be
  searched for (`AllIndexed`).

`StoreToolsProofs`, `ExplorerProofs` and `ContextBuilderProofs` are about the modules'
own specifications first, and then about `StoreTools`, which runs them together:

* `ToolsAreEach`: a behaviour of `StoreTools` is one of each of its programs. They
  share one variable, `recs`, and whoever changes it does to the others what a
  client of the store may do. So what is proved of one program holds of the whole
  (`ToolsKeepPromises`), and the types of the whole are those of the programs
  (`ToolsTypeCorrect`).
* `MigrationComplete` and `OpeningKeepsRecords`, for any file, batch size, keys and
  faults. What is inductive is that the lines imported so far are in the
  collection as the last of their keys (`ImportInOrder`), that a rename follows a
  Flush of all of it (`FlushedBeforeRename`), and that an import only starts on
  an empty collection. That batches add up to the whole file is `BatchesAddUp`.
  `UntroubledOpenImports` adds what the absence of faults leaves of the phases
  (`Untroubled`): no collection with records beside a file that was not imported.
* `SelectionStaysVisible` and `PagesStayFull`, for any memories, limit and window
  sizes, from `ViewInv`, which says of the model's offset what the two say of the
  rows drawn; `CapacityFits` is the agreement of `listCapacity` with `bodyView`.
* `SharesAreFair`, for any bodies and budgets: the budget left is at least one
  equal share for each result left (`SharesLeft`, by `ShareEnough` and `RestEnough`).
  `AnswersFitBudget` is about a sum by recursion. That appending an entry adds
  its length to it needs induction over the length of a sequence, and the
  library's induction theorems cannot be used (below); in its place stands a
  least counterexample, a set of naturals with no least element being empty.
  `BestRankFirst`, for any scores and weights: normalizing keeps or reverses the
  order of a leg, and so the blended order extends the order of both.
* `SetupTypeCorrect`, `HooksStayLive`, `OthersPathKept` and `NothingIsLeft` (in
  `StoreToolsProofs` too), for any number of kills and failed calls. `HooksLive` rests on
  the order of the steps: whoever is at or past the setting of the path has
  the scripts (`ScriptsInOrder`), and uninstall at a removal has seen the path
  unset or another's (`UnhookedBeforeRemoval`); together they are `HooksInv`.
  `OthersPathKept` needs that a command at its change has seen a path it may
  change (`MaySet`). `LeavingInv` says what each step of uninstall has removed so far,
  and that whatever could make the root again is one of the exceptions by name: a service
  that launchd still has is one whose bootout failed (`UnloadedOrUnbooted`).
* `ImportTypeCorrect` and `ImportIsWhole`, for any sources, breaks and repeated runs:
  the records passed are finitely many, the last of each key among them is what the
  store has under it, and no line that does not decode was passed (`ImportInv`).
  That the number reported is theirs is `PassedGrows`: each record adds its place.

The assumptions are the named ASSUMEs of the modules: special values differ
from data, bounds are naturals, `MaxTries >= MaxAttempts`. TLC evaluates them
in every run.

Five theorems have a hypothesis on the behaviour, one of `BackfillAlone`, `NoLateAdd`,
`SavesApart` and `EventsApart`. The code ensures none of them, and the runs that
expect a violation leave the first three out; each says what callers
have to see to, or a change of the code would have to add, for the documentation to
be right. None rules out the steps that it is about: a store whose callers
take turns satisfies `BackfillAlone` with every kind of request in it, a daemon that
is stopped between two Adds satisfies `NoLateAdd`, and one process at a time
satisfies the other two, with all its failures and crashes.

Every safety property of the passing runs, the refinements included, is stated by
a theorem. Only model-checked are the liveness properties: `EmbedderBlocksNobody`,
`CallsReturn`, `EventsSettle`, `LastStateDigested`, `OpensAgain`, `CallsAnswered`,
`StopEnds` and `ServiceReturns`. They rest on fairness, and so on ENABLED, which this
prover does not reason about. Nor can it use the library's induction theorems, which
take the predicate as a parameter; where a proof needs induction over data (`Used`,
the sum of an answer) it argues with the set of the numbers for which it fails.

## 10. Findings

1. `store_backfill_overwrites`: Backfill replaces a vector that is no longer
   null, and by that of an old text; docs/architecture.md:29 says reindex
   backfills records with null vectors.
2. `spool_blocked`: an event file that does not decode ends every pass at its
   place; docs/daemon.md:55 says failing events do not block later ones.
3. `spool_state_garbled`: two processes that save at once share
   `ingest-state.json.tmp` and can leave a file that never loads again.
4. `service_unsearchable`: a handler in flight at shutdown stores its record after
   the last Optimize and before Close; app.go:1065-1066 says that records
   added by RPC are durable for full-text search.
5. `migration_cut_short`: an import of the legacy file that is cut short after a part
   of it leaves a collection that is not empty, so that no later open imports
   the rest or renames the file; docs/architecture.md:9 says the file is imported
   on first open and no further migration is needed.

How much of each but the second is right nevertheless, and when, is proved:
`BackfillAloneFillsOnlyNull`, `SavesApartStateLoads`, `QuietStopSearchable` and
`UntroubledOpenImports` (section 9).

One more contradiction has no run of its own. docs/uninstall.md:33 says that uninstall
unloads the service, and `BootoutAndRemove` ignores the error of `launchctl bootout`
(plist.go:108): when it fails while no daemon runs, uninstall removes the files and the
plist and reports success, launchd still has the service, whose plist says KeepAlive,
and starts the daemon, which makes the root again. `Setup` has these behaviours:
`UninstallLeavesNothing` and `NothingIsLeft` hold with the exception `unbooted`, and
without it TLC finds the trace.

Noticed while modelling, and too plain to need a run: ids that differ only in characters
zvec does not accept replace each other's records, though store.go:863-864 speaks of a
round trip by the original id; an Add under an existing id
resets `created_at`, which the data model reference says is preserved;
`memoryd init --import` of the `memories.jsonl` in the data root (docs/install.md)
may find it renamed by the daemon's first open; one line of the legacy file that
does not parse keeps the store from opening for good; a crash after the import's
Flush, followed by clients forgetting every record, brings the records back; a
single vector hit, or hits at equal distances, count 0; the explorer never reads
a record again that it has once read; the memory that `context` gets may have
changed since the search and no longer match its filter. Of the setup: an uninstall
that finds no git removes the scripts and leaves `core.hooksPath` pointing at them;
a second init with another `--path`, or a manifest lost by an uninstall cut short,
leaves the earlier config file behind; `init --path` writes a config that Load never
reads; init over an existing config resets it to the defaults; a torn `config.json`
makes uninstall refuse, as it does the daemon and the hooks; without launchd a plain
init fails after five seconds unless a daemon runs already; `init --no-daemon
--import` fails after it has installed everything.

## 11. Not modelled

* What the plist and the hook scripts say, and a root or a socket that the config
  file moves elsewhere: `Setup` knows of a file whether it is there and whole.
* The values, defaults and environment of the configuration, flags, printing,
  colours, wrapping: no state, or no state that outlives a call.
* The text processing of transcripts, summaries and prompts: their outcomes are
  inputs to the models.
* `reflect` of the MCP server: a summary followed by one Add per memory, the loop
  of `GitSpool`'s `AddMemory` with no retry and nothing kept.
* The stages of one scan's summary: `TranscriptScan` stores the memories of a session in
  one step. What a failed or repeated summary leaves in the store is stated for
  events (`SummaryWhole`) and not for sessions.

## 12. Plan

Done: the store, the spool with the ingest state, the scan with the pass, the
daemons with their clients, the programs around the store, and the commands that
set it all up and take it away. What is left, in the order of its worth:

1. `TranscriptScan`, further: the memories stored one by one under their ids (a
   file's contain its fingerprint, an opencode session's do not), so that what a
   failed or repeated summary leaves in the store can be stated; and the pass
   with the detailed spool, to say what one part failing keeps from the other.
2. With 1, the proofs that go with it: that a session's memories in the store are
   those of one summary unless a shutdown or a failed Add came between.
3. Of the liveness properties, the invariants that they rest on and that are in the
   prover's reach: that whoever waits for the mutex waits for a caller at a step
   inside its critical section, which has nothing to wait for.
