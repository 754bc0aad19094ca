# TLA+ models of tiny-tools

The repository holds two programs that share nothing but the repository:

* **rodinia** (`rodinia/`): a key-value store for Flutter apps. A Rust library
  keeps an in-memory index and a write-ahead log; a Dart package wraps it.
* **mock_machina** (`mock_machina/`): a mock HTTP and gRPC server in Go that serves
  a folder of YAML files and follows changes to it while it runs.

This directory models the parts of both in which order, interleaving, crashes and
failures decide whether they are correct. Paths below are relative to
`rodinia/rodinia_ffi/src` and `mock_machina/internal`.

## 1. Inventory

### rodinia

| part | state | operations | what is hard | what makes it correct |
|---|---|---|---|---|
| store (`store.rs`) | `cache` under a read-write lock, `wal` under a mutex, the encryption key | set, get, contains, delete, clear, increment, set_if_absent, list_push, list_get, delete_from_list, import, export, purge_expired, compact, close, drop | calls of several threads (one process-wide store, any isolate may call), two locks taken in different patterns, entries that expire lazily on a read, a failing append in the middle of a call | a write happens on one durable map at once with its answer, or not at all; writers exclude each other; every call returns |
| write-ahead log (`wal.rs`) | the file, a buffered writer, `rodinia.wal.tmp` | open, append, replay, compact, reopen, close, delete | crash between any two steps, a record cut in two, a buffer that keeps what failed, a renamed file that is still open, a reopening that fails | a restart rebuilds exactly what the process was serving |
| entries (`cache.rs`) | value, encrypted, expires_at | is_expired | saturation, negative TTL, deadline reached | an expired entry is never seen |
| events (`events.rs`) | subscribers | subscribe, publish | events are published after the locks are gone | a key that is gone has been announced as gone |
| encryption (`crypto.rs`) | a key | encrypt, decrypt | the key is replaced while sealed entries live | an entry that cannot be opened is left as it is |
| ffi and Dart (`api/store.rs`, `rodinia_flutter/lib`) | one `OnceLock<Store>` | forwarding | nothing | - |

The store calls the log under both locks and the event bus under none. Readers
(`get`, `contains`, `list_get`, `purge_expired`) become writers after they have
released the read lock, through `expire_key`.

### mock_machina

| part | state | operations | what is hard | what makes it correct |
|---|---|---|---|---|
| watcher (`watch/poll.go`) | last snapshot, pending names | tick | bursts of saves, saves during a reload or the start | a save is neither missed nor put off for ever |
| reload (`cli/start.go`) | the four views: `Live`, `LiveGRPC`, the control API's project, the screen's | reload, start, stop | two goroutines may reload at once; files are read one by one; a reload may be refused half way | the saved folder is served; a refused reload changes nothing; nothing is announced before it is served |
| SetActive (`config/write.go`) | none; a file | set one route's `active` | reads the file twice and writes it once without a lock, beside editors and other callers | what it reports as saved stays saved |
| event hub (`control/hub.go`) | ring of 500 requests and its counts, listeners and their channels | publish, reload, subscribe, stop, close, clear, recent, counts | listeners that do not read; closing against joining, leaving and sending; a ring that wraps and is reset | the newest requests are listed; messages arrive in order; streams end; nothing is closed twice |
| control API (`control/`) | project pointer | pin, unpin, reset, apply, requests, coverage, swap, pages | several locks per call; a reload between two steps of a call | counts and list agree; a pin is refused only if its route has changed; a page follows the project |
| dashboard script (`control/ui/static/app.js`, `control/ui/layout.html`) | connection, pause, missed rows, dialogs, a pending `g`, htmx's requests | pause, resume, trim, clear, open and close dialogs, keys, search | messages, answers and swaps in any order; a page that replaces itself | rows are whole and in order; labels say what is so; results are those of the input |
| CRUD collections (`server/crud.go`) | collections, call numbers | list, get, create, replace, change, delete | a collection is fetched in one step and locked in another; a body is waited for with the lock held | no id comes to be there twice; changes last until a reset or another data file |
| serving, memory (`server/`) | call counters, pins, variables, coverage | serve a request, pick a state, remember, report, reset | requests in flight over reloads and resets; memory and history have a lock each | a state is given in turn as often as it is listed; coverage and request list tell the same |
| streams, webhooks, gRPC calls (`server/`) | none | pace, retry, answer | retries | - |
| project loading (`config/`) | none | load, check, merge, write | order of checks | every problem is reported, a good project is accepted |
| matching, rules (`match/`, `server/`) | none | first match, pick a state | specificity order | the most specific route answers |
| screen (`tui/`) | routes, cursor, requests, pending set | update | messages out of order | the screen follows the served project |
| proxy and recording (`live/`), contract diff (`diff/`, `schema/`), OpenAPI (`openapi/`), MCP (`mcp/`) | none | conversions and comparisons | - | - |
| certificates (`certs/`), self-update (`update/`) | files | write two files, swap a binary | a crash or failure between two steps | the old or the new pair, never a mix |
| model, tmpl, fake, seed, suggest, protos, release, gitfs, docs, buildinfo, testkit | none | pure functions, tooling | - | - |

The watcher calls `reload`; `reload` loads the folder, builds handlers and swaps the
pointers from which requests, control calls and the screen read. `SetActive` talks to
the reload only through the file it writes. The servers publish every request they
answer to the hub, and `API.Swap` publishes the reload. The control API shares `Memory` with the
handlers of every generation.

## 2. Modules

| module | role |
|---|---|
| `RodiniaEntry` | entries, deadlines, saturation, and the index a log rebuilds |
| `RodiniaStore` | `store.rs` over `wal.rs`: threads, locks, files, crashes |
| `RodiniaKV` | the abstract durable map |
| `RodiniaProperties` | the store's properties, and the refinement of `RodiniaKV` |
| `RodiniaStoreProofs` | theorems about the store |
| `RodiniaMapProofs` | theorems that the store is the map of `RodiniaKV` |
| `MachinaReload` | watcher, reload, `r` key, editors, SetActive, and their properties |
| `MachinaReloadProofs` | theorems about the reload |
| `MachinaHub` | the control API's hub, its streams and the pages that follow them |
| `MachinaHubProofs` | theorems about the hub |
| `MachinaCollections` | CRUD collections over requests, control calls, resets and reloads |
| `MachinaCollectionsProofs` | theorems about the collections |
| `MachinaServe` | requests, memory, history and the control API's calls on them |
| `MachinaServeProofs` | theorems about the serving |
| `DashboardTraffic` | the dashboard's list of requests in a browser |
| `DashboardTrafficProofs` | theorems about the list |
| `DashboardPalette` | the dashboard's dialogs, keys and palette |
| `DashboardPaletteProofs` | theorems about the palette |
| `MC...` | one per component: the instances for TLC |

### RodiniaStore

A call advances from one lock operation to the next; `pc[t]` names where it stands.

* Writes: `LockCache` takes the write lock; one action per operation (`Set`,
  `Increment`, `ListPush`, ...) takes the log's mutex and decides from the index what
  to append (`plan`); `Commit` appends, flushes and updates the index; `Unlock`;
  `Publish`. Append and index update are one step: both locks are held and nobody
  else can look. `CommitFails` is the `?` on a failing append; a delete has left the
  index by then.
* Reads: `ReadEntry` clones under the read lock, `CheckEntry` looks at the clone's
  deadline without it, and an expired key goes through `RemoveExpired` (write lock
  only), `LogExpiry` (mutex only), `PublishExpiry`. Between these steps anything may
  run. `purge` and the first part of `compact` collect keys and do the same.
* Compaction: `OpenTmp`, `WriteTmp`, `RenameTmp` under the read lock, `Reopen` under
  the mutex. Files are inodes: an inode keeps its content as long as it has a name or
  an open handle, so a writer that holds a replaced file is visible as such.
* `LogFails` is what the other `?`s of `wal.rs` return: `CompactFails`, when the
  temporary file cannot be opened, written or renamed (it stays behind, half written);
  `ReopenFails`, which leaves the writer on the replaced file; `CloseFails`, a flush or
  an unlink of `close` and `drop`. `Faults` names the kinds a run allows ("append",
  "file", "tear") and `MaxFaults` how many.
* `Crash` at any moment, `Open` replays. `SetEncryptionKey`, `Tick` are the
  environment.

Abstractions, and why they lose nothing the properties see:

* A log is modelled by the index its records rebuild (`Apply` is one step of the fold
  in `Store::open`), plus `torn` for a file that ends in a cut record. Nothing reads
  a log but that fold. A record behind a cut one is never replayed: `replay` takes
  the bytes that follow for the rest of the cut record. With other lengths it may
  stop one record later or decode rubbish; the model takes the usual outcome.
* A value is its kind and a number (payload, counter, item count). Lists are counted
  up to `MaxLen`; how many items `delete_from_list` matches is any number. `set`
  overwrites whatever it finds: created and updated are one piece of news.
* A subscriber is what a listener of `"*"` believes (`seen`).
* A write reads the clock once; time stands still between its decision and its
  commit. A purge reads it when it collects.
* A crash loses no flushed byte: the process ends, the machine does not.
* `import`, `close` and `drop` are calls of the library that the Dart API does not
  reach; they are modelled as the library offers them.

### MachinaReload

A file is the `active` lines of its routes and its fate: good, with problems, routes
that overlap (refused by `server.New`), protos that do not fit (refused by
`server.NewGRPC`), or absent. The poller's two snapshots are `listed`, the files its last
one has, and `changed`, those a snapshot taken now would differ in: a save gives a file a
stamp it never had, a file removed is missed if it was `listed`, and one that was made
and removed in between leaves no difference (`diff`). `pending` is its variable of that name.
`Poll` is a tick: it notes changes, or, on a quiet tick with something pending, starts
the reload in its own goroutine. `PressR(m)` starts one in a goroutine of the screen.
`ReadFile` reads the files one by one in any order; `LoadFails`, `BuildHandler`,
`SwapGRPC` are the three places where a reload ends early; `SwapLive`, `SwapControl`,
`Notify` complete it. `Start` takes the snapshot and loads, `Open` serves or ends the
process. `Edit` is an editor's save, made with one write; `SetChecks`, `SetReads`,
`SetWrites`/`SetFails` are `config.SetActive`.

Left out: saves that change neither size nor modification time; a folder that cannot
be read at all; the plain `start` command, which has no screen. A SetActive whose
process dies is one that takes no further step: its temporary file is ignored by the
snapshot. The two messages of `Notify` are one step; the screen handles them one after
another and shows the first alone for an instant. `promised`, `raced` and `glimpsed` are
history variables: the state SetActive reported last, whether two reloads have overlapped
since one ran alone and was not refused, and the files the latest reload has read that no
snapshot has listed.

### MachinaHub

Every method of `hub` holds its mutex from beginning to end and is one action:
`Publish` (with `Record`, the ring, and `Send`), `Swap`'s second step (`reload`),
`Clear`, `Close`, `Subscribe`, and `Unsubscribe`, the closure `subscribe` returns.
`serveEvents` is the stream of one listener: `pc` goes from `away` to `streaming` to
`leaving` and back, `Receive` takes a message from the channel, `StreamEnds` reads it
as closed, `ClientLeaves` is a finished request or a failed write. A listener that
comes back gets a new channel, which takes the place of the old one in `chan` and
`queue`. `Swap` is `API.Swap`'s two steps, made by any of `Reloaders`. A page is
rendered from a project by `Load` before it connects; a `reload` it hears makes it
`due` (`hx-trigger="sse:reload"` in `layout.html`), `Read` is the handler that renders
it again and `Arrive` the swap of the answer into the page.

Left out: what an event says but whether it is a failure; the filter of the traffic
page; pages that load the project twice while they are rendered (a reload between
the two loads is announced after both). `log`, `served`, `sent`, `heard`, `missed` and
`misled` are history variables: the requests since the last clear, the messages a
listener should have had, and whether it had to miss one or a page could not know of a
reload.

### MachinaCollections

One collection, several routes to it, and callers: goroutines of requests or of
control calls. `Request` binds a caller to the handler of the moment (`Control` to the
project of the control API), `Serve` is its next step: draw the route's call number,
fetch the collection that is in force (`memory.collection`, which makes it from the
data file when the name is new or the bytes are others), lock it and act. Create and
update wait for their body with the lock held (`reading`), and `BodyCame` is the step
they take once the client has sent it or is gone. `Reset` is `Memory.Reset`,
`SwapLive` and `SwapControl` a reload that brings another data file, in the order of
`reload`. Collections are numbered as they are made, and stay in `heap` after another
has taken their place, as they stay in the memory of who has fetched them. Of an item
its id is kept: the id a client sends, or the one `create` makes from the call number. A
data file is any list of ids (`Seed`): `config` asks only that every item has one, so a file may
repeat an id, or hold one that `create` makes.

### MachinaServe

`Serve` is a request: it arrives at a handler (and so at a project), draws its number,
picks a state (the header's, the named scenario's, a pin's, the turn of a sequential
route, the `active` one), remembers it as served (the coverage) and is reported to the
history. It may end early: a state the route has not, a check that fails, a client
that leaves. `Command` is a call of the control API: pin, pin with persist, unpin, apply
a scenario, reset in its two halves (memory, then history), the requests view in its two
reads, the coverage view in one read per state. `Edit` is a saved folder, `SwapLive` and
`SwapControl` the reload, as in `MachinaReload`, without overlap. A route's states are a
list that may have a state twice, as `loader.states` does not look for it.

Left out: variables, rules and the random mode (neither reads nor writes the memory to
pick a state, but for the variables), proxied routes, webhooks and gRPC calls that are
reported to the same history. `clears`, `vouched` and `forgotten` are history variables.

### DashboardTraffic

A page with its list, its stream and htmx's requests, beside the mock it shows. A task
of the page is one step: `Receive` handles a message of the stream (a row that is
inserted, trimmed and counted, or held back while paused; a `reload`, which fetches
`#app` again), `TogglePause`, `ClearView`, `Load` and the swaps of answers are the functions
of `app.js` in their order. A fetch goes from `asked` to `answered` (a handler of the
mock has rendered it) to swapped, and htmx's queue keeps one more behind it. A
connection breaks, a mock stops and comes back with another history; a stream opens or
never does. `ears` are the elements that are registered with the stream: a swap
replaces them. Rows are request numbers; what a row shows, and the filter, are left out.

### DashboardPalette

The other half of `app.js`: two dialogs, where the keys go, `g` and its deadline with
the interval that sweeps it, the palette's input with htmx's `changed delay:120ms`
(`heard`, `timer`) and its request queue, the results and the link marked in them.
htmx is modelled from how `layout.html` and `app.js` use it. Left out: the theme, the
copy buttons, a page that comes back from the browser's cache, a script that runs
before htmx has been loaded.

## 3. Properties, runs and what they show

| run | properties | shows |
|---|---|---|
| `RodiniaThreads` | `BackedLogRebuildsIndex`, `ImplementsMap` | two threads and every kind of write on one key, reads, drop and close, crash anywhere, one fault (failing append or file operation, cut record): a write takes effect at once with its answer or not at all, and a restart at rest serves what was served |
| `RodiniaAlone` | `TypeOK`, `BackedLogRebuildsIndex`, `NoPhantomKey`, `ImplementsMap` | one thread with TTLs (also negative), encryption, purge, compact, close, drop, one fault (failing append, compaction, reopening, close or drop, or a cut record) |
| `RodiniaLocks` | `WritersExclude`, `CallsReturn` | every pattern of lock use by two threads: exclusion, and no deadlock or starvation |
| `RodiniaExpiryRace` | `LogRebuildsIndex` (violated) | finding 2 |
| `MachinaWatch` | `LoneReloadServesSaved`, `ViewsAgree`, `ScreenTellsProblems`, `AnnouncedIsServed` | two files, HTTP and gRPC, broken and repaired, one removed and made again, the watcher and one `r` |
| `MachinaPersist` | `PersistKept`, `SavedIsServed` | one file with every fate, two routes, one SetActive beside an editor |
| `MachinaHub` | `RecentIsNewest`, `NoPanic`, `InOrder`, `PageFollows`, `StreamsEnd` | requests, two reloading goroutines, resets, the hub's close, and a listener that joins, lags, leaves and comes back |
| `MachinaCollections` | `IdsUnique`, `FoundStays`, `ChangesLast`, `CallsEnd` | two callers that list, create, change and delete while the memory is reset and the data file replaced by an empty one or one with a repeated and a made id |
| `MachinaServe` | `CoverageTells`, `CoverageWhole`, `InTurn`, `ViewCovers`, `PinRefusedOnlyStale` | two callers, requests or control calls, over a reset and a reload: memory, history and project tell the same, view by view |
| `DashboardTraffic` | `TypeOK`, `RowsWhole`, `NewestFirst`, `PageFollows`, `ButtonTells`, `PageUpdates` | a page that pauses, clears, leaves and reloads while requests, reloads and faults happen |
| `DashboardResume` | `NothingMissed` (violated) | finding 7 |
| `DashboardPalette` | `ResultsAnswer`, `LinkMarked`, `DialogsModal`, `GoInTime`, `ResultsCome` | dialogs, keys, typing, delays and answers in any order |

Deadlock is checked in every run but `MachinaCollections` and `MachinaServe`, where the
bounds use up the calls: a mock that nobody asks has nothing to do. Type invariants are
checked in `RodiniaAlone` and `DashboardTraffic` and proved for every module
(section 5).

**Bounds.** One key suffices for the store's races: its calls lock everything, and
only `clear`, `import` and the expiry lists span keys; `RodiniaAlone` has two keys for
those. Two threads are what a race between two calls needs. `Inodes` counts the files
open at once (log, replaced log, one temporary file per thread that compacts).
`MaxTime` 1 lets a deadline come once; TTL -1 makes one that has come at once;
`MaxInt` 1 or 2 with increments of 1 reaches saturation. One fault per behaviour shows what
a single failing step leaves behind. For the reload: two files are what it takes for
one to be read before and another after a save and for one to be refused while
the other is not, and one of them comes and goes; two states tell an old project from a new one; one manual
reload is what overlaps the watcher's; two routes are what two SetActive calls need
in order to undo each other. For the hub: a ring of 2 wraps at the third request and a
reset may fall anywhere; a buffer of 2 has an order, fills up and empties; two reloads
by two goroutines overlap. One listener is checked, since what a listener has depends on
no other: the theorems are for any number. For the collections: two callers, one of them
between fetch and lock while the other acts, one reset and one change of data file (of
three: an id, nothing, an id twice and a made one), two calls (`MaxCalls`). For the serving: three calls by two interchangeable callers,
one reset, one save, and a history of 2, which the third request overflows; lists of
states with and without a repeated one. For the
traffic page: caps of 2 (traffic), 1 (overview) and 0, one request before the page and
two after it, so lists are trimmed and refilled, two reloads, so one overtakes the
answer to another, a buffer of 2 and one fault. For the palette: three queries, the
empty one among them, four changes, so that a query is typed, left and typed again
while an older one is under way; a deadline of two sweeps.

**Fairness.** `FairSpec` of the store is strong fairness of every thread's call:
parking_lot's locks hand over to waiters eventually, and all else is a running
thread. Beginning a call, a crash and a failing append are not fair. `FairSpec` of the reload is
weak fairness of the watcher's tick and of its reload: its sleep ends and its steps
are local I/O. Editors, SetActive, the `r` key and stopping are not fair.
`SavedIsServed` accordingly assumes that the writers stop and that the mock stays up.
`FairSpec` of the hub is weak fairness of a stream that has a message to take, a closed
channel to find or a channel to give back: the goroutine runs, and a write to a client
ends or fails with its connection. Nobody has to come, leave, fetch or publish. Without
`StreamsEnd` the server's `Shutdown` would wait until its timeout.
`FairSpec` of the collections is strong fairness of every caller's `Serve`: Go's
mutexes hand over to a waiter that has starved for a millisecond, and all else is a running
goroutine. `BodyCame` is not fair, since the server has no timeout for a body
(`start.go:451`): `CallsEnd` says that calls end if every wait for a body does. Coming and
resetting are not fair either. `FairSpec` of the
traffic page is weak fairness of a
message at hand and of a request that a running mock has, which is answered or fails; no
stream has to open. `FairSpec` of the palette is weak fairness of htmx's delay and of the answers. Typing ends by `MaxTyped`.
`MachinaServe` states no liveness: no step of a request or a call waits for another, but
for a lock that its holder gives back in the same step.

**Refinement.** `ImplementsMap` is `RodiniaKV!KvSpec` with `kv` the live entries of the
cache while the process runs and of the log while it is down, and `result` what a
call will answer. In the abstract map a write happens at once with its answer, an
entry leaves only by a call, by its deadline, or when it is not backed by the log at
a restart. The map says less than linearizability: any call may decline at any time
(with an error, or because it finds nothing to do), and what reads answer is not in it.
`RodiniaThreads` and `RodiniaAlone` show the store refines it where calls do not race with
the lazy expiry or with a compaction.

## 4. Findings

Two have a run in which TLC reaches them; the others are behaviours the models have too,
which the properties named set apart.

1. `purge_expired`, `get`, `contains` and the list calls evict a key they found expired
   without looking again: a fresh value set in between is evicted (`store.rs:353`).
   `ImplementsMap` is checked without deadlines where threads race.
2. `expire_key` logs its Delete after it has unlocked the cache: a set in between is
   served, and lost by the next restart (run `RodiniaExpiryRace`).
3. `compact` unlocks between rename and reopen: a write in between goes to the file
   that was replaced (`store.rs:573`). `RodiniaThreads` does not compact, and one thread
   alone (`RodiniaAlone`) has no write in between.
4. After a crash that cuts a record, `Wal::open` appends behind it, where `replay` does
   not look (`wal.rs:38`). `BackedLogRebuildsIndex` sets such a log apart.
5. Two overlapping reloads may leave the older project served (`start.go:405`).
   `LoneReloadServesSaved` sets them apart (`raced`).
6. Two concurrent SetActive calls on one file may undo each other (`write.go:31`).
   `PersistKept` is checked with one setter and proved of any number of them that do
   not change two routes of one file (`Apart`).
7. A request answered after the page for a resume was rendered, and heard before it is
   swapped in, is not in the list afterwards (`app.js:37`, run `DashboardResume`).
8. A page does not hear of a reload announced before its stream is open or while
   another reload's answer is swapped in (`ui.go:109`). Both `PageFollows` set it apart
   (`misled`, `untold`).
9. A palette opened again has an empty input over the results of its last query, and
   typing that query again asks for nothing (`app.js:50`). `ResultsAnswer` sets it apart
   (`unread`).
10. A reset begins the call numbers again, so an id made before it may be made again,
    and so may one that the data file holds (`crud.go:197`). `IdsUnique` sets a collection
    with such an id apart (`late`).
11. A caller that is still bound to the project before an edit of the data file makes
    the collection anew from the old data (`crud.go:45`). `ChangesLast` allows other data
    to replace a collection.
12. A `reopen` that fails after a compaction leaves the writer on the file that was
    replaced: later writes are acknowledged, and lost by the next restart (`wal.rs:112`).
    `Backed` sets such a log apart; the next compaction repairs it.
13. Two compactions share `rodinia.wal.tmp`: the second truncates what the first has
    written and is about to rename over the log, and a crash before it has written it
    again loses the store (`wal.rs:88`). No run compacts in two threads beside crashes.
14. A file made after one snapshot and removed before the next is in neither
    (`poll.go:85`): a reload that read it in between is not put right until something
    else changes. `LoneReloadServesSaved`, `ScreenTellsProblems` and `SavedIsServed` set it
    apart (`glimpsed`).
15. While a client is connected and has not sent its body, its create or update holds the
    collection's lock and nobody else is answered (`crud.go:122`). `CallsEnd` is
    conditional on bodies.
16. A page that fetches its list while the message of a request is on the way shows that
    request twice until the next fetch (`app.js:120`). `NewestFirst` and `RowsWhole` set
    such a list apart (`overtaken`).

## 5. Proofs

Proved by TLAPS for every value of the constants under the modules' assumptions
(`EntryAssumption`, `StoreAssumption`, `PlanAssumption`, `ReloadAssumption`,
`HubAssumption`, `CollectionsAssumption`, `ServeAssumption`, `TrafficAssumption`,
`PaletteAssumption`: values are of their sets, the special values are none of the others,
a ring and a buffer have room for one, and the ids that clients choose are none of those
`create` makes, which a client has from an answer only and a data file from an earlier run):

* `TypeCorrect`: `Spec => []TypeOK` for the store.
* `Exclusion`: `Spec => []WritersExclude`. The property is not inductive: that
  `wr = t` has to follow from where `t` stands, and that a snapshotting thread is
  among the readers. `LockInv` says so: a thread between `LockCache` and `Unlock` owns
  the write lock, one between `OpenTmp` and `RenameTmp` is in `rd`, a writer excludes
  readers, and a thread that has decided owns the mutex if it appends.
* `Durability`: `Spec => [](Calm => BackedLogRebuildsIndex)`, for any number of threads
  that write, read, drop and close, with failing appends, closes and drops and crashes that cut records.
  `Calm` rules out what findings 1 to 3 need: a `compact`, and a deadline in a store
  where somebody looks for expired entries (`Undated \/ Unread`: one of the two may
  be there). `Timeless`, proved first, says that where no request has a TTL no
  entry in memory, on disk or in a call has a deadline. `Durable` then says, at every
  moment and not only at rest: the file written to is the log or the log was dropped,
  and it holds every append while none failed (`InStep`); what is live in the cache is
  what those records leave live (`Mirrored`); no thread is ever in the steps that log an
  expiry or compact (`Unhurried`).
* `FaultlessDurability`: the same for `LogRebuildsIndex` itself, where no append fails and
  no crash cuts a record. `Faultless` shows that `Backed` is no way out then: `dirty`
  stays false.
* `AloneDurability` and `AloneEvents` (`RodiniaMapProofs`): `BackedLogRebuildsIndex` and
  `NoPhantomKey` where one thread calls the store (`Alone`), with every operation and
  fault of the model, compactions and reopenings that fail among them. More threads break
  both, as findings show. The invariant `AloneInv`
  says of the steps in between what the two say of rest: a subscriber's key is there or
  about to be told gone (`Heard`); the log is the file written to and holds every append
  unless an append or a reopening failed (`Logged`), except between a compaction's rename and its reopening
  (`Rewriting`); what is live in the cache is what the appended records leave live, at
  any later clock too (`Mirrored`); and a key found expired still is (`Expiring`).
* `StoreImplementsMap`: `Spec => ImplementsMap`, so every step of the store is a call, a
  tick, a loss or a stutter of the durable map, under two hypotheses. `Sheltered` is
  `Alone \/ Calm`: outside it findings 1 to 3 are behaviours the map does not have.
  `ImportsPlain` says that no import is asked to encrypt, since `import`
  (`store.rs:438`) stores entries as they are given. `PreparedInv` says what a call carries at
  each step; `FaithfulInv` that what a thread has decided on is still what the map of
  now would choose, because `LockInv` keeps every other thread off the cache until it
  commits; `ShelterInv` joins `AloneInv` and `Durable`, which show that a restart
  rebuilds the map and a compaction or an expiry changes nothing of it.
* `ReloadTypeCorrect`, `SavedWins`, `Agreement`, `Announcement`: type correctness, and
  the three promises of the reload (`LoneReloadServesSaved`, `ViewsAgree`,
  `AnnouncedIsServed`), for any files, routes, goroutines and setters. Their common
  invariant `LoneInv` is about behaviours in which reloads do not overlap: at most one
  is under way (`AtMostOne`); the start is one (`Booting`); what it has read of a file
  is on the disk unless the file is in `changed` (`ReadsDisk`); the views it has
  swapped hold what it read and the others what they held (`SwapsInOrder`); the views agree when it
  is idle (`ViewsStill`); and, with nothing changed or pending, what
  was last read is what is served unless it was refused (`LastRead`). The last
  is the point: a save during a reload leaves its file in `changed`, so the promise
  need not hold until another tick; a file that is gone again is neither in `changed` nor on
  the disk as it was read, and then it is `glimpsed` (finding 14).
* `ProblemsAreTold`: `ScreenTellsProblems`, on top of `LoneInv`. A reload that swaps has
  found no problems (`Cleared`), and the screen says what was wrong with a folder that
  differs from the disk only in files the watcher still has to look at (`LastTold`).
* `PromisesKept`: `Spec /\ []Apart => []PersistKept`, for any number of calls of
  `SetActive` at once. `Apart` is what finding 6 makes necessary: no two of them change
  two routes of one file. What a setter is about to write has its own state and what was
  reported of the other routes of its file (`Carries`).
* `HubTypeCorrect`, `RingCorrect`, `NeverPanics`, `StreamOrder`, `PagesFollow`: the hub,
  for any size of ring and buffer and any number of listeners and reloaders.
  `RingCorrect` rests on `RingHolds`, which says slot by slot where the i-th newest
  request lies (`SlotOf` is the code's remainder worked out by `NextSlot` and
  `NewestSlot`); `NeverPanics` on `Registered`: the listed channels are the open ones, and a
  closed hub lists none; `StreamOrder` on `Sequential`, which adds that a queue
  from which nothing is missing has no gaps; `PagesFollow` on `Told`: a page that is not
  up to date is to fetch, has a `reload` waiting, or some swap has still to announce.

* `MachinaCollectionsProofs`: `TypeCorrect`, `ItemsFoundStay`, `IdsAreUnique` and
  `ChangesAreKept`, for any callers, routes, ids and data files. The invariant has, next
  to the types: a caller that waits for a body holds the lock of the collection it has
  fetched (`Held`), so the item it found stays (`FoundStays`); the collection in
  force was made after the last reset (`InForce`); between two resets a number is drawn
  once and makes one id (`Numbers`); and a collection that is not `late` has the ids that
  were made and none that a caller has still to make (`Clean`), so `create` adds a new
  one. An id the data file repeats stays repeated: `IdsUnique` is an action property, that no
  step adds one to those that are there twice (`AppendTwice`, `WithoutTwice`).
  `ChangesLast` is proved of every step.
* `MachinaServeProofs`: `TypeCorrect`, `CoverageIsTold`, `CoverageViewsWhole`,
  `TurnsTakenOnce`, `ViewsCover` and `PinsRefusedOnlyStale`. `Carried` says what a caller holds
  at each of its steps; `History` that the list is the newest of what was counted;
  `Numbers` that two requests of one route between the same resets have different
  numbers, each below the counter, and that a turn is the state its number stands for: the
  requests given a state in turn are then no more than its places in the list
  (`InItsTurn`, a count of finite sets);
  `Vouched` that a pin is a state its route had when it was checked.
* `DashboardTrafficProofs`: `TrafficTypeCorrect`, `WhatThePageSays`, `PageIsCurrent`,
  `RowsInOrder` and `RowsAreWhole`. A page that was told is current, is to fetch or has
  a `reload` on its way (`Told`); rows on the page, held back and on the wire are in the
  order of their numbers (`Ordered`), unless the list was `overtaken` (finding 16); and the rows are the newest up to what is missed
  and on its way, also in an answer not yet swapped in (`Whole`).
* `DashboardPaletteProofs`: `PaletteTypeCorrect`, `OneDialog`, `NoStaleResults`,
  `OneMarked` and `PendingInTime`. `NoStaleResults` needs an invariant of the delay and
  the two requests together: what htmx took last is the input, or a delay is running,
  and the last of its requests asks for what it took last.

Liveness is beyond the prover and is only model-checked: `CallsReturn`, `SavedIsServed`,
`StreamsEnd`, `CallsEnd`, `PageUpdates`, `ResultsCome`. Their safety halves
are proved for every size: nobody
waits in vain, and every step made shortens what is left. Fairness does the rest: that
who may go on does.

* The store, for `CallsReturn`. `LocksAreOrdered`: `Spec => [](Roomy => NoDeadlock)`. A
  thread in a call can make its next step (`Ready`: the locks are free, the file it needs
  can be made) or some lock is held by a thread that can. It rests on `LockInv` and on
  `Supplied`, that a thread about to commit has an outcome to choose. `Roomy` asks for a
  file system that takes the log, the file it replaces, a temporary file and one for every
  thread. `CallsShorten`, for finitely many keys: `Left`, the steps on a call's way plus
  three for every key it has still to look at, falls with each of its steps and never
  rises by anybody else's, so a call makes at most `10 + 3 * Cardinality(Keys)` steps.
* The hub, for `StreamsEnd`: `ClosedStreamsGoOn` and `ClosedStreamsShorten`. `Connected`
  adds to `Registered` that a stream that is on has a channel, so after a close it finds
  a message or the end; nothing is sent any more, so it has no more than its buffer,
  the end and `stop()` before it.
* The collections, for `CallsEnd`: `LocksAreManned` and `CallsAreShort`. A collection that
  is locked is locked by a caller that reads its body (`Manned`, by `LockedBefore`: no
  step locks another), and nobody's step moves another's call. That the body comes is the
  condition `CallsEnd` states.
* The reload, for `SavedIsServed`: `WatcherGetsThere`, for a finite folder. `Work` counts
  a tick that notes changes, one that starts the reload, the files, the check and the
  swaps; while no file comes to differ from the snapshot each step of the watcher lowers it
  and no `r` key, setter or page moves it. What is served when it is zero is `SavedWins`.
* The dashboard's list, for `PageUpdates`: `PageGetsThere`. `Within(n)` says that a page
  behind the mock has at most `n` tasks left before it shows the project: messages up to
  the word of a reload, the swap of an older answer, the fetch and its swap. It always
  holds for `Buffer + 3`; the page's next task makes it `n - 1`, and until the next reload
  nothing undoes it. `Newer` is the lemma that matters: an answer that is still to be swapped
  in is never older than the page.
* The palette, for `ResultsCome`: `ResultsAreComing`. `Pending` counts a delay, what it asks
  for, the request under way and the one behind it: at least 1 while the results are not those
  of the input (by `NoStaleResults`), at most 4, less after each delay, answer and failure,
  and more only by typing or focusing. That a mock does not fail for ever is the fairness
  that TLC's run assumes.

Every other property of a passing run is proved, some under the hypotheses named above.

## 6. Plan

Done, in this order: the store and its log, the abstract map it refines, the reload, the
hub, the dashboard's list and palette, the collections, the serving and its memory; their
theorems, the refinement among them. Left, by what each would add:

1. **`MachinaServe` composed with `MachinaReload`**: a persisted state is served after
   the reload that its own file change starts; today each module models the other's part.
2. **Algorithms** as functions against reference definitions: first match by
   specificity, three-way merge of a generated contract, breaking changes between schemas.

## 7. Not modelled

* Of the store: the calls that only read several keys, pattern matching of events,
  AES-GCM itself. The ffi and Dart layers forward calls one by one; frb and freezed code
  is generated and cargokit is vendored.
* Of serving: match rules and route matching (pure tests of texts and numbers, with no
  state), templates, fake data and seeds (functions of one value to another), variables,
  the random mode, webhooks and streams (each runs by itself and reports once).
* Of the dashboard: the login, what the pages for routes, data and scenarios say, theme,
  copy buttons, a page from the browser's cache, a script without htmx. How a broken stream
  is tried again is `EventSource`'s and `sse.min.js`'s affair: in the model it may open
  whenever the mock is up, and that it does (`docs/dashboard.md:49`) is not checked; nor is
  what `sse.min.js` does with elements it has registered twice after a connection that the
  browser has given up.
* Of the live screen: cursor, filter and drawing; of loading: the checks of single
  fields, any of which keeps a project from being served.
* Schema and diff, OpenAPI import and export: one pass over data, without state.
* The live proxy, certificates and the self-update: one process, one pass, all of it
  network, files and cryptography. The MCP server's tools are the control API's
  operations. Release tooling, documentation and examples are not part of the program.

`PROJECT.json` lists every part with its reason.
