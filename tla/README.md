# Anta Vista in TLA+

Anta Vista (`av`) is a peer-to-peer index: a node keeps an SQLite database of
resources it has indexed or learned from peers, answers the searches of other
agents over the x0x network, resolves names, fetches the bytes behind an address,
and lets its operator block a resource, a name or an agent. This directory holds
TLA+ models of the parts where the order of steps matters, the TLC runs that check
them, and TLAPS proofs of the results that hold for every instance.

Paths below are relative to `src/crates/`.

## The system

A node is several programs that share one SQLite file and one x0x daemon. No
daemon owns the database: every command line, every thread of the local web server
and every answer of `av listen` opens its own connection, runs a few statements,
mostly without a transaction, and closes it. The web server answers each request on
a detached thread. The page it serves runs half of the program: it streams bytes from
the network itself, through a service worker that the browser may kill, and only
falls back on the server.

That is what makes the code hard to test. An operation is a sequence of committed
statements, or of awaits, and anybody else may run between any two of them; a process
or a realm that dies leaves what it has done; peers answer late, twice or never.

| Component | State | Operations | What makes it correct |
|---|---|---|---|
| Block policy (`av-store/src/repo/blocks.rs`) | `blocks`, `blocked_locations` | add, remove, clear, record and forget locations, the location guard | a block refuses every spelling the resource was held under, until it is lifted and no longer |
| Resources, embeddings, names (`av-store/src/repo/`) | one table each; embeddings cascade with their resource | insert or replace, delete with or without the names that point there | every stored row can be found by search |
| `av block`, `av unblock` (`av-cli/src/cmd/block.rs`) | none of its own | three or four statements each, bulk forms included | refusals start with the first statement; none outlives its block |
| `av index`, `av propagate`, `av purge` (`av-cli/src/cmd/`) | local variables between statements | check, deduplicate, store, embed, announce; delete | what was blocked throughout is neither stored nor announced |
| Search and the responder (`av-index/src/search.rs`, `cmd/listen.rs`) | the hits of one query | embeddings, block list, rows, block list again, send | what was blocked throughout is not sent |
| Names (`av-index/src/naming.rs`, `cmd/resolve.rs`, `cmd/search.rs`) | claims with the agent they came from | look up, filter by three block lists, cache, rate | what was blocked throughout is not served, cached or shown |
| Network search and resolve (`av-cli/src/network.rs`, `av-net-x0x`) | query ids, two channels, a deadline | fan out, collect, persist peers | each answer read counts once, blocked agents never, and the wait ends |
| Database open and migrations (`av-store/src/db.rs`) | journal mode, `applied_migrations`, SQLite's write lock | switch to WAL with retries; each migration in a transaction | each migration once, in order, and opening returns |
| Starters (`av-cli/src/starters.rs`) | `starter_seeds` | one transaction that seeds or adopts | all or nothing, and never in the user's place |
| Listener and daemons (`listener.rs`, `startup.rs`, `web/state.rs`, `cmd/stop.rs`) | PID file, processes, the snapshot a search goes by | ensure, start, stop, probe | at most one listener, none after a stop, and a running daemon is used |
| Downloads (`av-cli/src/download.rs`) | the diagnostics file of the ant CLI | detect, fall back, spawn, tail | progress is told once and truthfully; what was detected is used |
| Ingest (`av-ingest`) | none of its own: a link, a name, bytes and what is made of them | locate, sniff, name, describe, list | one content has one type and one name wherever it is asked; no part of a list passes for the whole |
| Web server (`web/{mod,server,viewer}.rs`) | workers, detached threads, temp files, views with a deadline | accept, guard, read, spool, answer, publish, shut down | no upload is taken in part; its temp file is removed; the server ends |
| Fetch jobs (`web/fetchjob.rs`, `handlers.rs`, `assets/app.js`) | job table behind a mutex, one thread per fetch, one polling loop per page | start, push, finish, read, prune | the page sees each event once and in order, its verdict is the thread's, and it stops |
| Page: saves (`assets/app.js`, `assets/autonomi-stream-sw.js`) | one-shot tokens in the worker's realm, one port per save | register, click, pull, deadline, cancel | what is saved is the whole file, and both ends of a save end |
| Page: player (`assets/app.js`) | one dialog, the readers behind it, the tabs they are handed to | open, supersede, hand off, close, block | the page tracks every reader, which has one consumer; a block ends its bytes |
| Page: results (`assets/app.js`) | the rows, two epochs, two dialogs | search, index, remove, block | a finished index is shown, and yields to a later search |
| Query protection (`av-query`) | token buckets, strikes | consume, evict, strike | not used by a node |
| Trust and ranking (`av-trust`), embedding (`av-embed`), rendering | pure functions and caches | score, decay, embed | numeric facts |

Components talk through the database, through x0x messages, through processes and
signals, and, in the page, through messages to the service worker. The hazards this
gives rise to are listed, line by line, in `PROJECT.json`.

## Modules

| Module | Models |
|---|---|
| `AvTables` | the tables; one operator per SQL statement or transaction |
| `AvStore` | the processes on them: block, unblock (one, by kind, all), index, index `--force`, propagate, fetch guard, respond, purge (one, all, name, duplicates), name; any process may stop between two statements |
| `BlockPromise` | abstract: a request never answers with something that was blocked for its whole duration |
| `AvServing` | `AvStore` with the history variable of that promise, and the refinement |
| `AvRefusal` | `AvStore` with history variables for what is owed to a block and for what a fetch has seen |
| `AvNames` | `AvStore` with the operations on names: the name responder, resolve, search, a rating from the page and from the prompt |
| `AvTransport`, `AvListen`, `AvFanout` | the x0x daemon as the code uses it and the two event streams; the responders; the command that asks |
| `Migrate` | opening the database from several connections |
| `AvStarters` | `Migrate` with the transaction of `ensure_seeded` and the commands that touch the same locations |
| `AvListenerProc`, `AvServices` | the listener processes and their PID file; the calls that bring daemon and listener up and down |
| `AvDownload` | one fetch, the ant CLI it may run, and the machine on which both backends come and go |
| `AvListing` | what is read of manifests and bundles, stored of it, and put into a description |
| `AvIngest` | `AvDownload` with what is made of the bytes: planned for, shown, saved, indexed, followed from a result |
| `AvWebServer` | the process of `av web`: workers, requests, bodies, spooled files, views |
| `FetchJob` | fetch threads, the job table, expiry, links, and the polling pages |
| `AvSave` | saves of the page and the service worker they stream through |
| `AvPlayer` | the opens of rows, the player dialog, its tabs, blocks and removals |
| `AvPage` | the results area: searches, indexes, dialogs, removals |
| `MC*` | instances of the modules above for TLC |
| `*Proofs` | theorems |

`AvServing`, `AvRefusal` and `AvNames` compose their operations with those of
`AvStore`, `AvStarters` with those of `Migrate`, `AvFanout` with `AvListen` and
`AvTransport`, and `AvServices` with `AvListenerProc`: the actions of both run
interleaved on shared variables. The web server and the page are modelled each on
its own, because they share no state but what a request carries.

### AvTables and AvStore

`resources` maps an id (a content hash) to its row or `None`. Of a row only the two
spellings matter here: `location`, as it was handed in, and `canonical`, which may
be NULL. `Canon` stands for `analyze_location`; a location that has no canonical
form is its own, which the code treats no differently. `embedded` is the set of ids
with an embedding; `DeleteResources` and `InsertResource` drop embeddings the way
the foreign key's cascade and `INSERT OR REPLACE` do. `names` keeps the target
spellings of a record, `blocks` the blocked subjects of each kind, `blockedLocs` the
pairs of `blocked_locations`.

`proc[p]` is what a process remembers between two statements: the statement it
executes next (`at`), the id and the location it works on, the spellings still to
record or to check (`todo`), what it has read (`hits`), and its flag. Each action is
one statement with the computation up to the next one. Two abstractions: the rows of
a response are read one by one in the code and in one step here, and filters and the
top-k cut of a search, which only remove hits, are left out. `PurgeDuplicates`
handles one location per operation. The initial states are those the other commands
can have left with no block in place.

`Orderly` (`AvRefusal`) is what the run `moderation` and the proof about it assume of
the other processes: none of them takes the row of a blocked resource before all the
spellings of that row are recorded, nor puts another in its place while a block records.
It excludes the orders in which a block does lose a spelling: a purge between the block
row and the record of the spellings, or after an operator that died in between; a row
that takes the place of the one whose spellings the block has read; and a row that an
index with an older block list stores after the block, and that is then purged. Every other order of purges, propagations and moderation stays.

`Fail` covers both a killed process and a statement whose error `?` returns: nothing
is rolled back, because there is no transaction to roll back.

### Migrate

`conn[c]` is where a connection is inside `open`. The busy handler is modelled by
what it does: `BeginImmediate` and `CreateTable` wait for the write lock;
`BeginTimedOut` is the end of `busy_timeout`, for the connections that can be that
unlucky. `PRAGMA journal_mode=WAL` does not wait: while another connection switches
it fails at once, and `ensure_wal` counts attempts. `ran` counts how often each
migration's SQL is in the committed schema: `Apply` on a schema that has the column
already fails and rolls back, as `ALTER TABLE ADD COLUMN` does.

### FetchJob

One job per page. An access to the job table is one action because it happens under
one mutex; everything between two accesses is interleaved. `Tick` ages jobs and
links up to `Retain` and `ViewTtl`, where nothing changes any more. `Poll` is the
round trip of the loop in `app.js`: prune, read what is at or after the cursor,
handle events up to the first outcome, move the cursor, and stop once the job is
finished. The reads filter the log by sequence number; because the numbers only grow,
what a filter keeps is a suffix (`From`). A page may close, a poll may fail, and a fetch thread may hang
for ever or panic past `finish`. What a view of the published file does is in `AvWebServer`.

### AvNames

All records claim the one name that is asked for, because nothing relates two names.
`origin` is the agent a claim was received from. `op[p]` is an asker between two
reads: `list` is which of the three block lists `LoadPolicy` reads next, `resources`
what the names' targets are held as, `kept` what has passed. Every read may fail
(`Misread`, and the outcomes of the reading actions): most paths then give up,
and the few that go on with an empty list set `blind`. `steady` is the history the
properties need: what has been blocked, and which resource a record has stood for,
at every instant since the operation began. A record stands for a resource while that
is the only row its target can be found as. A rating from the page is answered 400
unless a row has the id it names, and no row has the id of a name; the page hides the
buttons of a name, so only a request that echoes a name beside a stored id gets past it.

### AvTransport, AvListen, AvFanout

A packet is a query or an answer, sent directly or by gossip. The daemon may lose,
delay and reorder it. `Hear` may take a packet any number of times, which stands for
both channels of a listener and for repeated delivery; what the asking command
itself is given (`Deliver`) comes once on each stream, from bounded channels, as the
listener threads fill them. The command is a sequence of statements up to the wait
loop, which reads the two channels in turn. A blocked sender sends the loop round
without the second read, as the `continue` in `network.rs` does. The list of agents
that `cluster_responses` keeps for a resource is modelled by the answers that put an
agent on it (`Agreeing`): their number is its length.

### AvStarters

`draft` is what the open transaction sees, `store` what is committed; both are the
same while no pass is open. `BeginPass` takes the `writer` of `Migrate`, so that
seeding, migrating and every other write exclude each other the way SQLite's lock
makes them. `AbortPass` is any statement that fails; `Die` may strike anywhere.

### AvListenerProc, AvServices

A process id is free, or runs a listener that has not registered, one that serves,
a zombie, or another program. A dead child stays a zombie until its parent exits,
and a zombie answers signal 0. `call[c]` is one call of a web thread or of a command
between two system calls. `services_lock` serialises `ensure_services`; nothing
serialises the PID file. The probe of the daemon and the store of its result are two
steps, with no lock around them. Either service may fall silent (`FallsSilent`): it takes
connections and does not answer them. The clients have a deadline for the connection
only, so every step that asks a service comes back from one that answers or is not there
(`Heard`), and waits for one that is silent.

### AvDownload

The diagnostics file is a sequence of half lines: the writes of the child are not
those the reader would like. `Stat` and `ReadAppended` are two steps. A broken ant
binary is found but does not run; `held` records that a working one was found and
has worked ever since.

### AvIngest, AvListing

`AvIngest` starts where a fetch, or the page's own stream, has the bytes. `plan`,
`served`, `copy`, `row` and `again` are the five places that keep a type or a name of
them, each made by the route that makes it in the code (`ViewPlan`, `Publish`,
`SaveCopy`, `Index`, `IndexCopy`) from the link in hand; `Follow` changes that link for
the canonical one, as search results do. A content is what the sniffers ask of it: its
magic number, whether its first bytes and the whole decode, and what marks it. A name is
its extension and what sanitising leaves of it: of a name that is too long the first 80
characters are taken, and that cut falls into the stem or into the extension (`CutOff`).
A link has the names of its path
and of its query, and a segment that does not decode is none. The tables of types are
the code's, entry by entry. `CasesAssumption` says what the links and
contents of `Cases` may be: any of these, except that a link of Autonomi which is
neither an address nor a manifest leads to no bytes (`LeadsToBytes`), and that no sniffer
knows a bundle, which is a type of this program's own.

A manifest is a msgpack value, with fields that come twice, are missing, unknown or
broken; `Accounted` is the parser's verdict on it. A media file of a bundle is already
parsed into title, season and episode (season 0 stands for no token, and `None` is the
title of a name that is nothing but an extension, which `CompactItems` drops). Lengths are
what `FillIntoWindow` compares with the window; fixed words and tags have nominal ones. A
text that does not fit even so is cut (`IsCut`).

### AvWebServer

A body is its number of bytes, and each of the four ways to read one has its cap.
Uploads over it are refused. Texts are cut off there: what is left parses if the JSON
value lies within it, and some routes do not parse it. A sender is our page or a program,
what a view shows, a page of another site, or one that knows us by another name. To a
browser a site has no port, so what a view shows is of the same site as the main port,
and passes the guard. The threads of a process end with it and run no destructor (`Ends`). A request is
handled on a detached thread that may hang.

### AvSave, AvPlayer, AvPage

An action is what the page runs between two awaits. In `AvSave` a port is a queue in
each direction; the worker's realm can be killed, which the page is not told, or
replaced, which it is; every phase of a pipe has the one timer of `arm`, while opening
the file (`OpenAutonomi`) and reading it into memory (`Drain`) have none. In `AvPlayer` a
play is one call of `startPlayer`, and its number is `playerGeneration`. A tab need not
do anything more: one that has the rest of its file asks for no further range, and says
goodbye only if it came as far as to start its player. In `AvPage` the
user does nothing behind a modal dialog, but answers still come.

## Runs

| Run | Module | Distinct states | Checks |
|---|---|---|---|
| `moderation` | `MCAvRefusal` | 1,690,000 | `TypeOK`, `NoOrphanRefusal`, `RefusalHolds` |
| `serving` | `MCAvServing` | 1,110,000 | `RowsAreSearchable`, `KeepsPromise` (refinement) |
| `names` | `MCAvNames` | 281,000 | `ServedIsOpen`, `CachedIsOpen`, `NetworkHitsAreOpen` |
| `fanout` | `MCAvFanout` | 123,000 | `AgreementIsHonest`, `BlockedAreShutOut`, `NoAnswerDropped`, `FanoutEnds` (liveness) |
| `migrate` | `MCAvStarters` | 134,000 | `ExactlyOnce`, `SeededIsWhole`, `LandsWhereThereIsRoom` (action), `OpenReturns` (liveness) |
| `services` | `MCAvServices` | 615,000 | `StopEndsAll`, `OneListener`, `SearchSeesDaemon`, `CallsReturn` (liveness) |
| `download` | `MCAvDownload` | 1,070,000 | `ProgressIsTrue`, `DetectionAgrees`, `OneTypePerRecord`, `PlanIsCautious`, `ListingIsHonest` |
| `webserver` | `MCAvWebServer` | 996,000 | `UploadsAreWhole`, `ShutdownEnds` (liveness) |
| `fetchjob` | `MCFetchJob` | 171,000 | `EachEventOnce`, `VerdictIsTrue`, `PageStops` (liveness) |
| `save` | `MCAvSave` | 141,000 | `SavedIsWhole`, `OneChunkInFlight`, `RefusedOnlyIfRealmLost`, `SavesEnd` (liveness) |
| `player` | `MCAvPlayer` | 489,000 | `ReadersAreOwned`, `OneConsumer`, `PlayingIsAwake`, `BytesStop` (liveness) |
| `page` | `MCAvPage` | 547,000 | `PendingIsShown`, `IndexYields` (action) |

**moderation.** One operator that may die anywhere, with every form of block and
unblock; a second process that fetches, names, propagates and purges, in every order
but those `Orderly` excludes. Two ids, two spellings of one
address, one name record and one agent. Two spellings are what it takes for one of
them to be forgotten; two ids what it takes for one address to change hands.
`NoOrphanRefusal`: every recorded location belongs to a blocked resource.
`RefusalHolds`: from the first statement of a block until an unblock begins, every
spelling the row has had is refused, also once the second process has purged the row.

**serving.** One operator, two workers, two ids and one location: two workers are the
fewest that can overtake each other between the check, the store and the embedding
of the same id, and one location is all that deduplication by location needs to have
two ids collide. Ids and workers are interchangeable (nothing orders them), so the
run uses symmetry; its properties are safety properties. `KeepsPromise`: every
statement maps to a step of `BlockPromise` or to a stutter. `RowsAreSearchable`: a
row without an embedding has a writer about to insert it. It is stated for instances
where nothing fails: a crash between the two inserts does leave such a row (see the
hazards).

**names.** One asker, which runs all five operations, one of whose reads may fail,
and one moderator; one record, target, resource and agent. Each of the three blocks
suppresses a claim on its own, so one claim shows a path that forgets one of them.

**fanout.** Two agents, of which one ignores the scheme filter, the node's own
listener, two resources, a timeout of one tick and channels of two packets. One
agent answering on both channels, and one resource returned by two agents, are what
agreement could miscount; one agent may be blocked or unblocked before the command
reads the list.

**migrate.** Three connections, two migrations, two attempts at WAL, one starter, one
restart; one connection may die, one may time out. Three connections are needed for
one to die while a second one holds the lock and a third waits; two servers for a
second pass to find what the first has left. The number of restarts is bounded,
because an endless series of passes could starve a connection that waits.

**services.** Two web threads and one command, two process ids, two calls in all, one
mishap (a listener that dies, a user's own `av listen`, a process id that is used
again, a daemon that crashes, a service that falls silent). Two calls are what it takes
for one to overtake the other, or to wait for the lock of one that waits for a service.
`CallsReturn`: every call returns once no service is silent; the page's stop, which asks
none, returns in any case.

**download.** Two chunks, three lines, one change of the machine; every kind of
caller; ant absent or in the installer's directory at first. Two chunks and three
lines let one chunk fail and be found again while the other is found; three lines in
half lines are six writes among the reads. Then 22 links (each scheme, each host, and
names whose extension is known, unknown, missing, mended by sanitising, cut or lost to it)
with eight contents, and two links with each of eight bundles and fourteen manifests. A
manifest may have three entries, a row stores two, and the window takes 64 characters,
so that each of the three cuts is met exactly and exceeded by one.
`OneTypePerRecord`: what is stored, what is served, and what a saved copy is indexed as
agree. `PlanIsCautious`: the first bytes say what the file turns out to be, or nothing.
`ListingIsHonest`: what a description lists and counts make up what the file holds, and
where the text had to be cut it lists nothing, so that no list ends in half a count.

**webserver.** Two requests and two workers, caps of one, two and three bytes, and
bodies of none to four: each cap is met exactly and exceeded by one.
`UploadsAreWhole`: what is indexed, shown or planned for are all the bytes that were
sent, and a request that has been answered has left no temp file, wherever its upload
failed. It says nothing of texts, nor of who sent a request (see below).

**fetchjob.** Two pages, a log of two events with up to three pushed, so that it is
trimmed; one thread may panic, the other page may leave. `Retain` 2 and `ViewTtl` 1
let a job and a link expire at any point between two polls.

**save.** Two saves, one of a row and one of the dialog, two chunks, one death of the
worker's realm. Two chunks are what it takes for one to be lost, repeated or sent
before it was asked for. `SavesEnd`: with the file open, a save is piped to an end or
turns to memory, one that was stopped ends, and no download hangs in the browser's list,
though network, disk and worker fall silent. A save that reads into memory ends when the
network answers, or when it is stopped, and not before.

**player.** Two rows, two calls of `startPlayer`, one row that may be blocked, by this
page or by somebody else first, or removed. Two plays are a race; nothing in the code
counts further. `BytesStop`: once the row is gone, no dialog plays it, none of its readers
is open and no tab waits for a range of it, for good. That the playing ends is not said.

**page.** Two hits, two links, two searches, two calls of `runIndex`, one removal or
block: two of each can answer in the other order.

Deadlock is checked in `moderation`, `serving` and `names`, whose processes can always
begin another operation. The other systems end: every connection, page, thread, call or
save of the instance has ended then.

### Fairness

- `Migrate`, `AvStarters`: weak fairness of the steps of each connection inside
  `open`, and of the statements of a pass. A thread is scheduled, and SQLite's busy
  handler retries while `busy_timeout` lasts. Nothing obliges a process to close, die
  or time out.
- `FetchJob`: weak fairness of `Tick` (time passes) and of `Poll` (the server answers
  a page that polls). There is none on the fetch thread, which may take for ever: only
  the expiry of the job ends the loop, and that is what `PageStops` shows.
- `AvFanout`: weak fairness of the command and strong fairness of `Tick`, because the
  loop comes back to its clock again and again and the clock moves. None of the daemon, of
  the detached senders or of anybody's listener.
- `AvServices`: weak fairness of each caller's step. Its waits for a listener or for a
  daemon to come up or go have deadlines, and a step that asks a silent service is not
  enabled. None of the services or of a process that was signalled: that the services
  answer in the end is the hypothesis of the second half of `CallsReturn`, not fairness.
- `AvWebServer`: weak fairness of the workers and of the main thread. A handler may
  hang.
- `AvSave`: weak fairness of what the page and the worker do with a message, a timer
  or a click, and of the browser announcing a new controller; an aborted reader fails by
  itself. None of the network (`OpenAutonomi`, `Drain` and the reads of a pipe are its
  steps) or the disk.
- `AvPlayer`: weak fairness of what the browser has queued: the dialog's close events and
  the page's messages to the worker. None of the tabs, the network or the server.
- The other modules state none; their properties are safety properties.

### Stated, and known not to hold

While the modules were written, these sentences about the code were stated as
properties next to the ones that are checked. TLC refutes each of them on the
instances above, with the changes named here. No run depends on them.

- `RefusalHolds` under `RefusalSpec`, where a purge may come between the block row and
  the read of the spellings; and `NoOrphanRefusal` with two moderators, one blocking and
  one unblocking the same resource.
- `AvRefusal.FetchWasOpen`: `is_location_blocked` is two reads. A block that records and
  deletes between them is seen by neither.
- `FetchJob.KeptWhileRunning`: `prune` counts from the creation of a job, so a long
  fetch loses its job while it runs. `FetchJob.LinkOutlivesJob`: `VIEW_TTL` (120 s) is
  shorter than `RETAIN` (180 s), so a job can hand out a link that has retired.
- `AvNames.AuthoredIsMine`: a claim of a peer for a record that was authored here
  overwrites its origin, and a block of that agent then suppresses it, while `names.rs`
  says agent blocks never touch it. `AvNames.BothRateAlike`: the prompt of `av search`
  announces a blocked name, and `POST /api/rate`, the few times it gets that far, does not.
- `AvServices.StopReturns`: `av stop` asks both daemons for their health before anything
  else, although `startup.rs` says of it "must work while the network is down"; one that
  takes the connection and stays silent keeps it waiting.
- `AvServices.EnsureIsTrue`: a zombie answers signal 0, so `ensure_running` takes a
  dead child of the same process for a running listener.
- `AvStarters.SettledIsWhole`: a row whose `av index` died before its embedding is
  adopted, and stays "marked forever, invisible to search".
- `AvIngest.OneTypePerRecord` without its exceptions, although `mime.rs` says that the
  stored type and the served one "have to agree": the viewer of a bare address does not
  take the name the row knows as a hint, and serves a stored `text/csv` as `text/plain`;
  a bundle is served as the zip it is. `PlanIsCautious` for a prefix with an HTML marker
  of a file that turns out not to be text. `BundleIsListed` for a film that has the title
  of a series: `compact_items` keeps one set of emitted titles for both, and the series
  is left out.
- `AvIngest.MarkersAreWhole`: where the head alone fills the window, `clamp_to_budget` cuts
  the marker with the count away. `AvIngest.EveryItemIsTold`: `parse_item` drops a file
  without a stem, which then is neither listed nor counted.
- `AvWebServer.ViewsChangeNothing`, although `viewer.rs` says that a POST of peer content to
  the main port "is closed by the `Sec-Fetch-Site` guard", which sees it "as `cross-site`":
  a browser calls another port of one host the same site, and `check_fetch_site` refuses
  `cross-site` only.
- `AvWebServer.ViewFilesGo` and `SpoolFilesGo`: neither the detached thread of a view nor that
  of a request is joined, so their temporary files can outlive the server.
- `AvSave.KeptAwake`: all saves share the one reason `download`; the end of one save
  drops it while another is piping. `AvSave.EverySaveSettles`: `openAutonomi` and
  `drainRest` wait for the network without a deadline.
- `AvPlayer.BlockStops`, although `closePlayerIf` says "the block is the user saying this
  file stops now, wherever it is playing": a tab that has buffered the file asks for
  nothing, and hearing `dropped` it changes its notice and pauses nothing; an answer
  "Already blocked" closes not even the dialog. `AvPlayer.NothingPlaysBlocked`: a row whose
  open is past the plan when its block is answered begins to play.
  `AvPlayer.HandedReadersEnd`: a tab that is refused or closed while it loads has not armed
  its goodbye, and the reader it was handed stays open until something else closes it.
- `AvPage.EveryIndexYields`: a second `runIndex` moves the one `indexEpoch`, and the
  first then takes the screen from a later search. `AvPage.RowsMatchQuery`: the answer of an
  older search that comes last is shown under the newer query.

## Proofs

Every theorem is for any values of the constants that satisfy the assumptions named
in the modules: any number of ids, spellings, processes, connections, migrations.

- `TypeCorrect` (`AvStoreProofs`): `Spec => []TypeOK`. Its content is the foreign key
  (no embedding without its row) and that the step a process is at finds the fields
  it uses. It is inductive as it stands.
- `NoRefusalOutlivesItsBlock`: `Spec => []NoOrphanRefusal`, assuming at most one
  moderator; with two moderators it does not hold (see above). The property is
  not inductive: `Remove` deletes the block row and would orphan locations, unless
  one knows what the earlier statements of the same operation achieved.
  `ModeratorKnows` says it: a block row is there while its spellings are recorded;
  no location is left where a block row is about to go; a bulk unblock has the ids
  of all that is left in `hits`. Workers never write the two tables
  (`WorkLeavesModeration`), so only the moderator's steps matter.
- `BlockedIsNotServed` and `StoreKeepsPromise` (`AvStoreProofs`): the store
  implements `BlockPromise`, for any number of moderators and workers. The invariant
  `SeenInv` adds to the promise that an operation in its early steps already carries
  only what it has seen unblocked, and that a busy worker has seen everything that
  is unblocked now; the second part is what makes a later check add nothing new.
  `PromiseStep` maps each statement to a step of the abstract specification.
- `StoredRowsAreSearchable` (`AvStoreProofs`): `RowsAreSearchable`, in instances where
  nothing fails, for any number of processes. It is inductive together with `TypeOK`:
  what the proof shows is that no statement of another process deletes an embedding
  without its row, and that each of the ways to write a row comes to its embedding.
- `BlocksHold` (`AvStoreProofs`): `OrderlySpec => []RefusalHolds`, with one moderator, for
  any workers, operations, ids, spellings, names and agents, wherever an operation
  dies. `RefusalHolds` is not inductive: a spelling may be refused on account of its row
  alone, which the block, or a purge, then deletes. `OwedIsKept` says that what is owed is
  still the row's or recorded, and that nothing is owed once it is being lifted;
  `StillToRecord` that each spelling of a row about to be dropped is recorded or on the list
  of those to be. `OrderlyWork` is the step of a worker: a purge takes no row that is not
  recorded, which is all that `Orderly` says, and so leaves what is owed on record.
- `MigrationIsSafe` (`AvStartersProofs`): `ExactlyOnce`, `InOrder`, `OpenIsMigrated` and
  `LosersSucceed`. The inductive invariant is `MigrateInv`. Its core, `ConnOK`, says
  that only the holder of the write lock knows its migration to be pending, and
  that `next` has only passed what is applied. Without the lock in the invariant, two
  connections past their recheck could both commit.
- `MigrationsBesideSeeding` (`AvStartersProofs`): the same four for `StartersSpec`, in
  which passes, other commands and restarts take, free and lose the same lock. A pass
  holds the lock only while its own connection is open (`Locked`), so nobody is inside
  a migration when a pass takes or frees it (`LockOfOthers`, `LockKeeps`).
- `BlockedStayOut` and `AnswersAreKept` (`AvFanoutProofs`): `BlockedAreShutOut` and
  `NoAnswerDropped`, for any agents, timeouts, channels and answers. `FanoutInv` says
  that nothing is asked or read before the block list is (`NothingYet`), that the list
  which was read covers whoever has been blocked all along and is what every candidate
  and every answer is checked against (`ListCovers`, `OnlyOpen`), and that an id is
  registered before a packet that carries it exists (`Registered`); without the last
  one an answer that overtakes the registration would be dropped as a stranger's.
- `AgreementsAreHonest` (`AvFanoutProofs`): `AgreementIsHonest`, also for infinitely many
  agents. `FromOthers` says that no answer in flight or read is the command's own, as a
  listener ignores its own query; `WasRead` that each result is what the scheme filter
  left of an answer that was read. `Agreeing` is the set of the answers that put an agent
  on the list; as an agent is put there by one of them only, the map from those answers
  to agents is an injection into the agents that answered, of which there are finitely
  many because finitely many answers have been read.
- `DetectionAndUseAgree` (`AvDownloadProofs`): `DetectionAgrees`, for any callers and
  any number of changes of the machine. `HeldIsThere` ties the history `held` to where
  the ant CLI is; the spawn then cannot miss it, because it searches like the check.
- `SeedingIsWhole` and `StartersLandInRoom` (`AvStartersProofs`): `SeededIsWhole` and
  `LandsWhereThereIsRoom`, for any number of starters, servers, other commands, restarts,
  deaths and failures. Neither is inductive: a commit copies the whole draft. `Locked`
  says that a pass, like a migration, holds the write lock and that there is no draft
  without a pass; `PassOK` that what the pass has read (marker, row, block) is still
  so; `Fits` and `DraftIsWhole` that the draft could be committed but for the starter
  the pass is storing at that moment.
- `ServedNamesAreOpen`, `CachedNamesAreOpen` and `NetworkHitsStayOpen` (`AvStoreProofs`):
  the three properties of `AvNames`, for any number of askers and moderators, whichever
  reads fail. `Knows` says what an asker can rely on between two reads: a list that has
  been applied keeps out whatever was blocked before it was read and is so still, the list
  of resources, which is applied last, covers every resource blocked all along, and what
  has passed is open. The history shrinks with every step of anybody (`HistoryShrinks`),
  and the invariant is monotone in it (`KnowsOfLess`); only the asker's own step is left.
- `OpenReadersAreOwned`, `ReadersHaveOneConsumer` and `PlayersStayAwake`
  (`AvPlayerProofs`): the three safety properties of `AvPlayer`, for any rows and plays. The
  first says that the page loses track of no open reader; a session in `handedSessions` is
  one it can close, not one its tab will.
  The invariant adds that a pending open has a play of its own that nobody has used
  (`PlaysAreFresh`): two opens with one play would share a reader, and a used play would
  have been given away. Everything that closes, whatever calls it, is one relation
  (`LetsGo`): nothing is gained, and a reader that stays open keeps its owner.
- `StopsEndAll`, `OneListenerAtMost` and `SearchesSeeDaemon` (`AvServicesProofs`):
  `StopEndsAll`, `OneListener` and `SearchSeesDaemon`, for any pids, threads, commands and
  mishaps. A stop keeps what it owes in sight at every step: whoever was there when it
  began and listens still is signalled or among its targets (`EndsInv`). `LockInv` says
  that `ensure_services` holds its lock from the first probe until it returns, so the
  probe it acts on is of its own making, and `OneInv` that the PID file names the one
  listener unless its spawner is about to write it. `SearchInv` carries a daemon that
  answers all along from the probe, through `store`, to the decision.
- `FilesAreWhole`, `ReadsAwaitDisk` and `ClicksAreServed` (`AvSaveProofs`): the three
  safety properties of `AvSave`, for any saves, files of any length, and any number of
  deaths of the worker. `Flows` relates the two ends of a port and what is on it. Its
  core is that a pull, the read it leads to, the chunk that comes of it and the place of
  that in the queue are one credit, which the body holds when nothing is under way
  (`OneOnItsWay`); with it, what the body has got and what is on its way add up to what
  the page handed over (`Delivered`), and `done` is sent by a page that has handed over
  everything. Files are said to be in order element by element (`Counted`), so no
  induction over their length is needed. `TokenOK` says that a confirmed token is with
  the worker that was in control at the click, unless a worker was killed.
- `ProgressIsTold` (`AvDownloadProofs`): `ProgressIsTrue`, for any number of lines, written
  in any pieces, and read at any moments. `FeedIsRead` says that what the tailer has told
  is the first whole lines of the file, and that what it holds besides is the halves up to
  its offset; `LastPass` that the pass it begins after the child has exited sees a file
  that grows no more, so it is the last one needed. Lines are compared element by element
  (`Alternate` says which half is where), so no induction over the file is needed.
- `EventsComeOnce` and `VerdictsAreTrue` (`AvWebProofs`): `EachEventOnce` and
  `VerdictIsTrue`, for any pages, log sizes, reports and ages. `Agree` ties a log to its
  thread: its numbers are consecutive, an outcome is its last event, and it is marked
  finished only when the thread has ended; so what is trimmed is never the outcome, and a
  page that sees `finished` sees the outcome with it or has handled it. `Reads` ties the
  log to the page: all it has handled is before its cursor, and all that is before the
  cursor and still in the log it has handled.
- `UploadsAreAllOrNothing` (`AvWebProofs`): `UploadsAreWhole`, for any requests, caps and
  sizes. `GivenAll` says that the body a handler is given of an upload is whole; `SpoolOK`
  that there is a temp file only of a request that writes it or is about to read it back,
  so an answer, from wherever it comes, finds none. The threads a process leaves behind
  when it ends are the one exception (`Over`).
- `PendingRowsAreShown` and `IndexesYield` (`AvWebProofs`): `PendingIsShown` and
  `IndexYields`. For the second, `Behind` says that an index which a search overtook, and
  no other index followed, has an earlier epoch than the results; `AreaStep` that nothing
  but a flush at equal epochs writes the row of an index to the area. It needs
  `LinksAssumption`, that a link is no hit: the filter could hide the row of a hit of the
  web and bring it back.

- `TypesAgree`, `PlansAreCautious` and `ListingsAreHonest` (`AvDownloadProofs`):
  `OneTypePerRecord`, `PlanIsCautious` and `ListingIsHonest`, for any links and contents
  `CasesAssumption` allows, any caps and any window, under the exceptions the properties
  state. `PapersAreOfItem` is the inductive
  invariant: each of the five papers is what its route makes of the content in hand and
  of a link that leads to it, so that none outlives the content before. The rest are
  lemmas about operators. `CopyIsSame` goes through the ways a name is suggested: it has
  the extension of the type, or one that hints at nothing, or the link's own, which is
  the one the type was hinted from (`ChosenIsHint`); and an extension that is given to a
  type hints at that type (`TablesAgree`, `HintedExt`), which is where the two tables of
  the code meet. `FillCounts` says that a list which does not fit has a first line that
  does not, and that a text whose lines fit with their marker is not cut, `PathsAreKept` and `CompactListsAll` that nothing is lost before the window.
- `EveryMediaIsListed` (`AvDownloadProofs`): of any archive, the title of each media file
  that has one has a line, unless the bundle's own list leaves it out, and the line names
  its episode, unless a film shares the title of the series. A filter that takes positions in order
  (`InOrder`, of which `Filter` and `Distinct` are made) keeps each of them because they
  have different ranks (`RanksDiffer`).
- `DownloadsOfContents` (`AvDownloadProofs`): `ProgressIsTrue` and `DetectionAgrees` once
  more, for `IngestSpec`, which is what the run checks; `Obtain` leaves a thread with no
  feed (`Fresh`).
- `NamesTypeCorrect` (`AvStoreProofs`), `StartersTypeCorrect` (`AvStartersProofs`),
  `FanoutsTypeCorrect` (`AvFanoutProofs`) and `PlayerTypeCorrect` (`AvPlayerProofs`): the
  type invariants of the other modules, for any values of the constants. Each says more
  than its types: `NamesTyped` that a name is blocked only by the id of a record, and that
  an operation is about one record exactly while it rates one (`OpTyped`);
  `StartersTypeOK` holds of the migrations and the passes together, whose two invariants
  only hold side by side; the one of `AvPlayer` keeps the sessions taught and the ones
  retired apart. `FanoutsTypeCorrect` needs `ReachableAssumption`, that only nodes are
  reached.

Where something of any length has a first element with a property (the first line that
does not fit, the first item with a title), the proofs take it from `LeastOne`: a set of
numbers that is not empty has a least one. It follows from the well-foundedness of
inclusion among finite sets, which the library states without an operator parameter, and
stands in for induction.

Only model-checked:
- the liveness properties, which are under fairness.

## Not modelled

- The contents of resources, search scores and trust arithmetic, name ranking,
  rendering, configuration, argument parsing: pure computation or I/O in which no
  order of steps matters to the properties above. In `AvStore` and the modules on it the
  spellings of a location enter as the constant `Canon`.
- Of `av-ingest`: the metadata and excerpts of files that are not lists (EXIF, ID3, HTML,
  PDF, text), the words of a description, how the name of an episode is parsed, and the
  placeholder row that `av index --no-download` stores.
- Query protection (`av-query`): its guard, rate limiter and strikes are reached by the
  probe and by tests only.
- Embedding models, the x0x and antd daemons, the ant CLI, the browser: external. What
  they may do to the code that uses them is in the actions marked external in
  `PROJECT.json`.
- The WebRTC library of the page (vendored) is a stream that delivers a chunk, ends,
  fails or falls silent.
- A failed disk and SQLite's own recovery: a statement or a transaction is atomic.
- The prompts of `startup.rs`, the model download, the setup banner, themes and layout.

## Plan

The model covers every component of a node in which the order of steps matters. To
come, in this order:

1. Ranking and decay as operators against reference definitions, over bounded inputs.
