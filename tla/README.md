# Verification of the indexer

TLA+ specifications of NZB-Indexer: the NNTP connection layer, the scanner, the
worker's jobs and passes, the pipeline from parts to releases, its repair, the
post-processing of releases, and the services around it. TLC checks each module
on small instances; TLAPS proves every invariant and every action property that
the passing runs check, and one refinement, for every value of the constants. All
source paths below are relative to `src/`.

## 1. The system

The indexer reads article headers from Usenet servers, groups them into
binaries, turns complete binaries into releases, inspects those, and serves
them through a Newznab API. One Go process works on one PostgreSQL database.

| Component | State | Operations | What is hard |
|---|---|---|---|
| Semaphore (`internal/nntp/semaphore.go`) | limit, inUse, waiters | acquire, release, resize | cancellation of waiters, lost wake-ups |
| Connection pool (`nntp/pool.go`) | idle stack, open, closed, configuration | acquire, release, withConn, Reconfigure, Resize, Close | dials outside the lock, changes while callers dial or use a connection |
| Circuit breaker, failover (`nntp/circuit.go`, `failover.go`, `errors.go`) | endpoint list, one breaker each | run, allow, record*, SetEndpoints, Close | outcomes that arrive late, list edits during a request |
| NNTP client (`nntp/conn.go`) | a socket, the group and the overview command it remembers, unread data | group, overview, list, body, body header, ping | reuse by another caller, missing deadlines |
| Scanner (`internal/scanner`, `store/groups.go`, `store/parts.go`) | two watermarks, completion, per-group targets | ScanForward, ScanBackfill, target edits | failure between insert and watermark, expiry and edits during a pass |
| Worker (`internal/worker`, `store/jobs.go`) | trigger queues, tickers, intervals, cancel functions, job rows, pass progress | Trigger*, CancelJob, loops, drain, runScan, Reconfigure, restart | several goroutines, queue limits, crash between statements, a dispatcher and goroutines that leave |
| Assembler (`internal/assembler`, `store/binaries.go`) | parts, binaries | AssembleBinaries, Settle, AgeOut | counts added up over several folds |
| Release builder (`internal/release`, `store/releases.go`) | releases, segment snapshots | Build, CreateRelease, MarkReleased | several statements, crash between them |
| Reassembly, yEnc verification (`internal/reassemble`, `internal/yencverify`, their store files) | cursor, detached parts | Plan, ApplyReparse, ApplyYenc* | statements of one READ COMMITTED transaction interleaved with the assembler and post-processing |
| Post-processing (`internal/postprocess`, `store/postprocess.go`) | status, attempts, next attempt | claim, apply, record failure, requeue | claim before work, read-then-write of attempts |
| Retention, maintenance (`internal/maintenance`, `server/maintenance.go`, `store/retention.go`) | task loops, job rows | execute, prune | pruning of parts that are still needed, rows of runs cut short |
| Notifications (`internal/notify`) | queue, deduplication window, history | Emit, dispatch, deliver, Stop | drop when full, retry, two workers |
| Authentication (`internal/auth`, `store/users.go`) | key cache, rate windows, tokens | get, put, invalidate, Allow, login, deletion | a stale put after an invalidation |
| Log buffer and its stream (`internal/logbuf`, `api/rest/events.go`) | ring, subscriptions | add, publish, Subscribe, Recent | two locks, slow readers |
| Servers and schedule (`store/servers.go`, `server/server.go`, `server/schedule.go`, `api/rest/admin.go`) | rows, endpoint list, options | CRUD, ApplyActive, seeding, Reconfigure | read, change and apply in separate steps |
| Connection budget (`server/budget.go`) | none | computeBudget | rounding at small pools |
| Search index (`internal/search`) | documents | Reindex | releases change between pages |
| Enrichment (`internal/enrich`, `store/metadata.go`, `identifiers.go`) | metadata rows, identifiers | Run | failing providers, one look-up per release for good |
| Metrics, discovery cache, NZB encoding, read-only APIs, web | counters, a cached list | – | sequential, I/O or formatting |

How they interact. The scan loop calls the scanner, which calls the failover
pool, which picks an endpoint and calls that endpoint's connection pool, which
takes a slot of its semaphore. Everything else communicates through the
database: the scanner inserts parts, the assembler folds them, the builder
creates releases, post-processing claims them. The assemble, build,
post-process and scan loops are goroutines of one process, each with its own
ticker; administrators act through HTTP at any time. The process may be killed
at any point and start-up only sweeps the jobs table.

What makes each component correct. *Semaphore*: never more slots than the
limit, exact accounting, no waiter asleep beside a free slot. *Pool*: one owner
per socket, no socket lost, the provider's limit kept. *Breaker*: a failing
server is skipped, a recovered one is used again. *Scanner*: a watermark never
passes an article that was not ingested; completion means the walk is over;
everything is reached in the end. *Jobs*: every job reaches exactly one outcome
and keeps it. *Assembler, builder*: a release holds the whole file; every
complete binary is released once. *Post-processing*: every release reaches done
or permanent failure, and a result is never undone. *Reassembly*: no part is
passed over, what is torn down is torn down whole, finished releases survive.
*Retention*: only parts with durable segments are pruned. *Services*: no answer of
another call, no notification again once it is acknowledged, a deletion takes hold, a change of settings
is what is in force, a row that looks alive is.

## 2. The modules

| Module | Models | Abstracted |
|---|---|---|
| `SlotLimiter` | what the pool relies on: an atomic limiter of holders | – |
| `ResizableSem` | `semaphore.go`, critical section by critical section | the mutex is held by the one goroutine in phase "granting" |
| `ConnPool` | `pool.go`, EXTENDS `SlotLimiter` for its slots | backoff sleeps, the operation's payload |
| `Failover` | `circuit.go`, `failover.go`, `errors.go` | an answer is one of a few outcomes; time is the remaining cooldown |
| `Scanner` | `scanner.go` and the group-row statements it uses | an article is its number, a header's date is old or not |
| `WorkerJobs` | `worker.go`, `scanscheduler.go`, `jobs.go` | a pass is one step that may record an error; a statement on a job may be refused |
| `Pipeline` | `assembler.go`, `release.go`, yEnc verification, `retention.go` and their store statements | an article is a model value, sizes are numbers of parts, a hash is a name and a size bucket |
| `PostProcess` | `postprocess.go`, `store/postprocess.go` | what an article contains is chosen; time is backoff units |
| `Reassembly` | `reassemble.go`, the repair half of `yencverify.go`, their store statements | a grouping is a key; a batch is a set of parts |
| `NntpClient` | `conn.go` and the operations of `pool.go` that use it | the wire format; acquire is any idle or new connection (`ConnPool` has the rest) |
| `Notify`, `Auth`, `LogStream`, `Schedule`, `Maintenance`, `Servers`, `Budget` | the service of that name | payloads, formats |
| `ScanPass` | `runScan` and the outcome columns of the groups' rows | a group's scan is one step (`Scanner` has the rest) |
| `SearchIndex` | `Reindex`, `SearchReleasesPage` | a document is its name's version |
| `Enrich` | `enrich.go` and its store statements, the renaming of releases | a name is a model value, what a provider knows is a set of names |
| `ResizableSem_proofs`, `ConnPool_proofs`, `Failover_proofs`, `Scanner_proofs`, `WorkerJobs_proofs`, `Pipeline_proofs`, `Reassembly_proofs` | theorems on the module of that name | |
| `Services_proofs` | theorems on `PostProcess` and on every service but `Auth` | |
| `MC*` | values for the constants of the above; `MCServices` puts the services side by side | |

`ResizableSem`. `limit` and `inUse` are the fields; `pc` is each goroutine's
position, "wait" being the condition's notify list and "woken" a goroutine that
left it and waits for the mutex. `armed` and `firing` are the
`context.AfterFunc` watchers: registered, and started but not yet broadcasting.
Each critical section is an action, except that acquire reads its context again
after the loop; contexts end without the mutex, so `Finish` is a step of its
own. `gaveUp` is a history variable: some acquire returned an error at that
second look. `SlotLimiter` is instantiated with `holders <- At("holding")`.

`ConnPool`. `idle`, `open` and `closed` are the pool's fields; `live` is
the set of connected sockets, `call[p]` each caller's position in `withConn`/`acquire`, `doomed` the
idle connections an administrator call took and has still to close, `peak` the
largest limit so far. Each lock section is an action; the ping, the dial and the
login happen between them. The slot comes from `SlotLimiter`'s `Grant`, which
`SemImplementsLimiter` justifies.

`Failover`. Endpoints are objects: an edit of the list keeps the object of a
server that stays and builds a new one otherwise, so a request may finish on an
endpoint that is no longer listed. `Kind` is `classifyError`, `Admit`/`Allows`
are `allow`. The `breaker` keeps the cooldown that is left, and `Tick` is the
clock. Load balancing is chosen in Init and never changes; with it a caller may
start anywhere in the list, which covers the unsynchronised counter. Callers leave
and articles lack their yEnc header without any bound: both are recorded as failures
of a server that works (`Kind`), so the circuit of the preferred server closes for
good only once such outcomes (`Stray`) have ended, and `PreferredRecovers` says so.

`Scanner`. One group. An article is one whose overview line parses and has a message
id; the code drops the others before they make a part. `row` is its row of the groups table; `pass` is what a
running pass holds in local variables, including the bounds and the target it
read at its start. A batch is `Ingest` (fetch and the committed insert) and then
`Persist*` (the watermark); `Fail` may end the pass after any step, which also
covers a crash, because every later pass starts from the row. The server posts,
cancels and expires articles at any time.

`WorkerJobs`. `job` is the jobs table; `queue`, `tick`, `cancels`, `ctxDone` are
the channels, the tickers, `jobCancels` and the cancelled contexts. A trigger
is `CreateJob` then `Enqueue`; `withJob` is `Register`, `SkipCancelled` or
`StartJob`, the pass, `Resolve` and `Finish`. `forwardBecameDue` is split where
the loop takes a trigger off the channel and puts it back (`Peek`, `PutBack`).
`Exit` is a crash or the end of a shutdown, `Restart` clears the process's memory
and sweeps the table. The database may refuse the statements on a job: the worker
ignores the errors of StartJob and FinishJob, takes a flag it could not read for
unset, drains nothing when the list of groups fails, and goes on after a failed
sweep. `unwritten` and `missed` are history variables: the jobs whose outcome or
sweep was refused, and those that started although flagged. They are the only
ghosts and the only cancels that do not reach their pass. A
refused statement has no effect; one that was committed although its answer was
lost is left out, and a trigger whose row could not be inserted runs without a job,
like a tick. CancelJob sets the flag and looks up the context in two steps
(`CancelJob`, `CancelPass`).

`Pipeline`. `part[a]` is article a's row: absent, hidden (no segment counter, waits
for yEnc verification), loose (`binary_id IS NULL`) or linked. `bin[k]` is the
binary of post k, whose key never changes here; `rel[h]` is the release with hash
h. `asm`, `build` and `repair` are what an assembler pass, a build pass and a call
of BackfillReleaseSegments hold between two statements, `snap` is
snapshotReleaseSegments on behalf of either of the last two (read the parts, then
write the snapshot). A transaction nobody else can look into is one action: a
fold, an age-out, a prune. A fold selects for some posts some of their loose rows
(`Selection`, the two LIMITs) and adds up what these rows contain (`Upsert`).
`Insert` may bring back an article whose row was deleted, because the first
backfill overlaps the forward region and a failed batch is fetched again. All
articles of a post declare the same total, so the maximum of the declared totals is
`Declared`. The limits of 1000 listed binaries (`server.go:117`) and 5000 aged-out ones are not
reached. `refreshed` is a history variable: the releases whose non-empty snapshot
was written again.

`PostProcess`. `rel` has the columns of post-processing, `pass` and `worker` are
Run and its goroutines around an unbuffered channel. `Claim` counts the attempt
and commits before any work; a worker ends in `ApplyPostProcessing` or in
`RecordRead` and `RecordWrite`. `Fatal` is a worker that stops the pass, `Cancel`
and `Crash` end it from outside, `RequeueFailedReleases` and `Delete` come from
elsewhere.

`Reassembly`. `tx` is the transaction of ApplyReparse: `Protect`, `Regroup`,
`Detach`, `DeleteReleases`, `DeleteBinaries`, `Commit` are its statements, each of
which sees what is committed by then; rows it changed are locked, so whoever needs
them waits. `Fold`, `CreateRelease`, `Finish` and `Verify` are the running
pipeline. `planned`, `raced` and `joined` are history variables: the parts the
cursor may pass, the binaries somebody used while they were torn down, and those a
part joined while the repair of their stub fetched an article.

`NntpClient`. `sock` is what a connection carries from one caller to the next;
`call` is a caller's position among the commands of its operation. An answer is
foreign when it belongs to an unread body or to another group.

`Notify`. `queue` is the buffered channel, `notifier[w]` a worker's event, the index
of the destination it is at and the attempt; destinations are taken in the order of
the configuration. `seen` is the deduplication window. A POST without a 2xx answer
may have arrived, and is made again: delivery is at least once. `posts` is a history
variable: of the dispatches that began within an event's window, how many POSTs a
destination was sent, and which was the first to be acknowledged. A window may pass
while a dispatch goes on (`late`); nothing in the code prevents it.

`Maintenance`. `run` are the rows of the runs, `task` the loops. The row of a run may
stay as it is because its outcome, or the sweep at start-up, was refused
(`unwritten`, `LiveRows`).

`Auth`. A key stands for an owner of its own. Login reads the user and issues the
token in two steps, with the comparison of the password between them. Nothing in the
program calls SetUserActive, so owners are active until they are deleted.

`Enrich`. `title` is what a release is called, `NoName` while it is not listed
(obfuscated, or no TV). The items of a pass keep the names they were listed by, and
providers are asked by these; post-processing renames releases at any time. `asked`
and the names in `ident` are history: what each row was asked by; `renamed` are the
releases renamed since they were last listed.

`ScanPass`. `scanRun` is runScan, `scanning` its goroutines, `progress` the fields
Status shows. `HandOut` is the meeting on the unbuffered channel, including the
goroutine that finds the context done. `by` and `born` are history fields of a
row: the pass that recorded it, and the passes that began before it was inserted.

`MCServices` takes one service at a time (`focus`): they share no state, so a
behaviour of several at once shows nothing a behaviour of one does not.

## 3. The runs

| Run | Instance | Shows |
|---|---|---|
| `sem` | 3 goroutines, all cancellable, limits 0–2, 2 watchers at once | `SlotAccounting`, `NoLostWakeup`, `WaiterServed`; implements `SlotLimiter` |
| `pool` | 2 callers, 1 retry, 2 administrator calls | `OwnedOnce`, `SocketBudget`, `ClosedPoolDrains` |
| `scan` | 3 articles, batches of 2, caps {none, 2}, 1 failure, 1 edit | no gap on either side, completion is sound, no pass starts inside what its watermark covers, everything is reached |
| `failover` | 2 servers, 3 endpoint objects, 2 callers, 1 list edit, 2 failures or recoveries, any number of cancellations and articles without yEnc, threshold 2, a cooldown that does not grow | a half-open circuit has its probe, the preferred server is used again |
| `jobs` | 2 jobs of every kind, queues of 1, 1 group, errors, refused statements, 1 cancel, 1 crash or shutdown | no ghost of a running job, outcomes are final, a cancel reaches its pass |
| `jobs_served` | 2 forward jobs, backfill on or off, refused statements, 1 cancel, 1 crash or shutdown | a forward pass follows every tick; without backfill every job ends |
| `pipeline` | a single-file post of 2 articles, an undeclared collection of 1 that needs verification; 1 article again, 1 failed pass, 1 segment backfill | NZBs are whole, the backlog drains, complete binaries are released |
| `postprocess` | 2 releases, 1 or 2 workers, 2 attempts, 1 abort or crash, 1 failed statement, 1 requeue, 1 deletion | results stay and retries end (`DoneSticks`), every release settles |
| `reassemble` | 4 parts: one with an outdated grouping, one of the same binary that is right, a stub, and one a fresh parse puts into the stub's binary; batches of 2, 2 deadlocks, failures or restarts | `NoPartSkipped`, `TornDownWhole`, `ProtectedSurvives` |
| `services` | 2 callers on 2 connections; 2 events, 3 times emitted, to 2 destinations by 2 workers; 2 keys, 1 request at a time; 2 log writers; 2 schedule updates; 4 tasks; 2 servers and requests; every pool up to 20 × 14; 2 groups, 1 or 2 goroutines; 2 releases of one date, 2 rebuilds; 2 releases, 1 renamed, 2 names, 2 providers | one property per service, two for the scan pass |
| `pipeline_collection` | a collection of 2 files, the first of 2 articles | violation: released with one file |
| `reassemble_regroup` | the instance of `reassemble` | violation: parts are detached with their old grouping |

Why these bounds are enough to be interesting. Three goroutines are one holder,
one waiter and one that consumes a signal; the limit moves both ways. Two
callers and two administrator calls allow a Reconfigure or Close at every point
of a dial and a second change before the first one's sockets are closed; the
socket names suffice for every caller to dial afresh after each call. Three
articles in batches of two give a full and a clamped batch in each direction,
below, at and above a cap. Two flips let a server fail and come back, one list
edit lets a request finish on a removed endpoint.
Two jobs for a queue of one fill it. One failure, one edit or one stop is each
placed at every point; the proofs lift that bound for the scanner. In `pipeline`
a fold takes one row of a post and a pass two folds, so both limits bite with two
articles; one prune statement deletes one part, so a release is seen half pruned;
the failed pass makes the builder meet its own release as a duplicate.
In `postprocess` two workers and one failure reach a worker that records while
another stops the pass; one requeue falls between the read and the write of a
failure. In `reassemble` two batches make the cursor matter, two failures exhaust
the one retry, and the part that moves into the stub's binary joins it while it is
being repaired. In `services` a queue, a ring and a cache of one or two entries are
full at once; one goroutine and two groups leave the dispatcher alone with a group;
two releases of one date and pages of one need the id in the cursor; one rename falls
before, between and after the steps of a pass. The cooldowns of `failover` do not
double, which keeps the instance small; `HalfOpenDecided` holds for any.
Deadlock is checked except in `Scanner` (a group that is complete and whose server
posts nothing more has nothing to do) and `Failover` (after CloseAll nobody is
obliged to call, and the counters of flips and edits end).

### Fairness

- `ResizableSem`: Go's scheduler runs runnable goroutines and `sync.Mutex` does
  not starve; a woken goroutine competes for the mutex and gets it in the end
  (strong fairness). Nobody has to release, resize or cancel.
- `ConnPool`: a caller with a slot goes on, and an administrator call that began
  ends. The first is an assumption about servers: connecting has a timeout, but the
  greeting, AUTHINFO, the ping, QUIT and the operations set no deadline
  (`conn.go:91`, 115, 349, 363), so that every request must be answered, or its dead
  connection broken by TCP, in the end. No caller is promised a slot.
- `Scanner`: a pass goes on; the scan loop comes back to both kinds of pass.
  Strong fairness, because a pass of the other kind disables the start again and
  again. The articles an instance posts are finite and so are failures: a group
  whose passes all fail is not promised anything.
- `Failover`: callers keep calling, requests return, the clock runs.
- `Pipeline`: the assemble and build loops run again and again and their statements
  return. Nothing is promised of post-processing, retention, verification or
  administrators.
- `PostProcess`: workers and the pass go on and time passes. Nobody has to requeue.
- `MCServices`: time passes (`AuthTick`), and the goroutines of a scan pass and its
  dispatcher go on (`ScanPassStep`, weak fairness: Go's scheduler, and requests that
  end). Nothing is promised of the other services.
- `WorkerJobs`: goroutines run, passes return, a `select` that finds both a tick
  and a trigger takes each in the end (Go chooses at random), and a process that
  ended is started again. Tickers need not fire.

### Disagreements between the code and its text

Each shown by a run:

- `pipeline_collection` – `store/binaries.go:172-174` "how many distinct files are
  present": every fold adds the distinct files of its own rows.
- `reassemble_regroup` – `reassemble.go:18-21` "fix the part's grouping fields":
  without a protected binary in the batch `$6` is NULL and
  `p.binary_id <> ALL($6)` selects nothing that has a binary (`store/reassemble.go:170`),
  yet binaries and releases are deleted and the cursor moves on.

Each shown by a definition no run lists, which TLC refutes when it is named in the
module's configuration:

- `BlocksOnlyWhileFull` (`ResizableSem`) – `semaphore.go:37` "acquire blocks until a
  slot is available": a woken goroutine whose context has just ended returns without
  passing on the Signal (line 61). `NoLostWakeup` and `WaiterServed` show it is the
  only way a wake-up is lost.
- `TargetReached` (`Scanner`, batches of 1, no failure) – an edit of the target during a pass is undone by the
  pass's last write (`scanner.go:257`).
- `OneProbe` (`Failover`, one server, three callers, threshold 1) – `circuit.go:96-97` "only one probe runs at
  a time": a late failure of an older request clears probing.
- `NoOrphan` (`WorkerJobs`, backfill on, with `Refusing` either way) – `worker.go:916-917` "doesn't linger as
  queued forever": forwardBecameDue drops the jobID of the trigger it consumes.

Seen while modelling, described by the modules as the code behaves, and without a
run of their own: a connection of the old configuration is put back on the idle
stack after Reconfigure (`pool.go:38-39` "recycled on release" and 166); cancelled
callers and articles without yEnc open the circuit of a healthy server
(`circuit.go:10-12`, `errors.go:132`); sockets exceed both limits while Reconfigure closes idle
connections (`pool.go:43-45` and 65); after a shrink nothing brings `open` down to
the limit (`pool.go:62-64` and 166); the first backfill starts at the server's high
and not below the forward region (`scanner.go:180` and 184); an article target
bounds each pass and not the backfill (`scanner.go:201`, migration 0005); `opens`
is not reset on success (`circuit.go:17-18` and 171); a rejected login is no
authentication failure to the breaker (`circuit.go:135-136`, `conn.go:135`); a
cancellation accepted between the last check and the outcome is lost
(`worker.go:957`); `lastPassError` reports an error of any earlier pass
(`worker.go:1010`); a drain that yields starts over with the first group
(`scanscheduler.go:54`); BackfillReleaseSegments, said to be "safe to call again to
refresh" (`store/releases.go:197-198`), replaces a whole snapshot by what retention
has left when the release was finished and pruned after it was listed – `NzbWhole`
leaves out exactly the releases in `refreshed`; a settled collection without a file
count is never released, because the builder asks for `total_parts > 0`, and a late
part makes it incomplete again (`store/binaries.go:288` and 391); articles posted
twice under one subject are counted twice (`Plain` leaves such posts out); a part
inserted between the drain and AgeOut comes too late for its binary; a release that
becomes done after ApplyReparse has read the protected ones is deleted, although it
"is still seen" (`store/reassemble.go:112-113`; `ProtectedSurvives` leaves out
`raced`); a part that is folded into a stub's binary while the yEnc repair fetches
the stub's article keeps the id of a binary that is deleted, because the
transaction resets only the parts listed before (`yencverify.go:141`,
`store/yencverify.go:229`) and `parts.binary_id` is no foreign key (`TornDownWhole`
leaves out `joined`); releases whose article cannot be fetched stay at the head of the yEnc
repair's list (`store/yencverify.go:144`), as do releases whose providers fail in the
enrichment's (`store/metadata.go:87`); a release that post-processing renames after
it was listed or looked up keeps the row of its provisional name, a miss for good
among them (`enrich.go:109`, `store/postprocess.go:351`; `MissIsDefinitive` leaves
out `renamed`); identifiers are lost for good when a pass is cut short after the
metadata row (`enrich.go:170`); a job whose outcome, or sweep, the database refused
looks queued or running until a restart sweeps it (`worker.go:947-971`,
`server.go:185`); a destination may get an event twice (`notify.go:298-319`); a pass over one named group,
which every scheduled backfill is, records no outcome, because `targetGroups` gives
it the id 0 (`worker.go:895`); documents of deleted releases stay in the index, a put
that timed out may land after a later one (`opensearch.go:203`; here none does later
than its rebuild's failure), and
two rebuilds at a time can leave an older name (`search.go:139`), and every document
says it is not obfuscated (`opensearch.go:70`); two overlapping changes of the servers
or of the schedule may leave the older one in force, and a failed ListServers puts the
start-up server in force (`server.go:462`, `admin.go:883`); an event whose delivery
failed suppresses its repetition, and Stop drops what is queued (`notify.go:266`); a
session outlives its user until the token expires (`auth/service.go:115`); a panic of
a maintenance task is not "contained" (`maintenance.go:106`), nothing recovers it;
"Give scanning the larger share" does not hold of every budget (`budget.go:161`: with
8 connections and a share of 4 the stages get 2 and 2), and a share of one is
exceeded by the two stages (line 156).

### Type invariants

Most modules have one, for the proofs that start from it (`TypeOK`, or the service's
own such as `AuthTypeOK`). The runs do not list them; all of them hold on the
instances above.

### Mutants

Beside an operator the modules keep wrong versions of it (marked "mutant"): a
dropped signal, a watermark saved for the whole pass, a circuit that forgets to
open. They belong to no specification; with one in the operator's place, the
property `PROJECT.json` names for it fails, so each property depends on the code it is about.

## 4. The proofs

TLAPS checks these for every value of the constants: any number of goroutines,
parts, posts, keys or servers, every limit and every bound on failures, edits and
restarts. The assumption named with a component is the only one its proofs use; TLC
evaluates it on the run. Each argument is one inductive invariant: the property
says nothing of a step that is half done, so the invariant adds what the steps in
between have established. Each was an invariant of a TLC run before it was proved.

*Semaphore* (assumes `SemAssumption`: finitely many goroutines, natural limits).

- `TypeCorrect`: in particular the limit is never below 1.
- `SlotsAccounted`: `inUse` counts the holders. `HoldersStep` says what a step may
  do to holders and count together; `ReturnSlot`'s guard on zero is harmless
  because the releasing goroutine is counted, and the rest is cardinality.
- `SectionSafe`: between test and grant nothing interferes. It needs only `MuFree`.
- `WakeupsKept`: `NoLostWakeup`. The counting of woken and granting goroutines
  makes it inductive: a release adds one free slot and wakes one, a goroutine that
  leaves the loop is still counted as granting, and only `Finish`'s error branch
  lowers the sum – and sets `gaveUp`.
- `SemImplementsLimiter`: refinement. `Finish` maps to `Grant` (its guard is
  `TestStillHolds` with `SlotAccounting`), `Release` to `GiveBack`, `Resize` to
  `SetLimit`, every other step to a stutter.

*Connection pool* (`PoolAssumption`, `LimiterAssumption`).

- `TypeCorrect`, `OpenCounted`, `SocketsOwnedOnce`, `SocketsWithinBudget`. `OpenCount`
  and `OwnedOnce` are inductive only with the accounts around them: a caller
  past `acquire` and before its release holds a slot (`SlotHeld`), the slots never
  exceed the largest limit so far (`SlotBudget`), and the idle stack together with
  the callers that have a connection or are about to have one fits below it
  (`Room`). `Room` is the reason why dialling outside the lock is safe: a caller takes the place of
  its connection with its slot, before it dials. An administrator that has
  returned has closed what it took (`AdminDone`). `MoveCounts` says how many callers
  are in a set of positions after one has moved; every step is an instance of it.

*Breaker* (`FailoverAssumption`).

- `HalfOpenDecided`. `HalfOpenIsDecided` is inductive beside the shape of breakers
  and requests: only `Admit` makes a circuit half-open, and its caller is the probe;
  an outcome of that caller, its cancellation included, leaves the state.

*Scanner* (assumes `ScannerAssumption`: a positive batch size, natural caps).

- `TypeCorrect`, `ForwardLosesNothing`, `BackfillLosesNothing`, `CompletionSound`,
  `ResumesCleanly`. The four invariants are not inductive: nothing in them says
  what a pass that is under way has done. `IInv` adds `ServerInv` (watermarks do
  not exceed the server's high), `PassBounds` (positions lie between what the pass
  read at its start and the watermark; the server's low only grows, so the low a
  pass read is a lower bound of the present one) and `PassCovers` (everything
  behind the pass's position, and after the insert its batch, is ingested). One
  lemma per action shows that `IInv` is kept; `Expire` only removes from `avail`,
  `Post` adds above every watermark, an edit moves no watermark.

*Jobs* (`WorkerAssumption`).

- `TypeCorrect`, `RunningReal`, `CancelReaches`, `OutcomesFinal`. A job is in one place:
  with its trigger, in a queue, or in one loop's hand (`OnePlace`). Its row agrees
  with that place (`StateMatches`), a loop in a pass is registered under its job
  (`PassReachable`), and a loop's fields fit its position (`LoopShape`). An outcome is
  then final because only the loop that has the job can write one, and each of the
  statements excludes rows that have one. A refused statement leaves the row as it
  is and the job in `unwritten` or `missed`.

*Pipeline* (`PipelineAssumption`).

- `TypeCorrect`, and `NzbIsWhole`: `NzbWhole`. The counts of a binary are the
  rows folded into it (`CountInv`), until it is released, after which retention may
  prune (`Untouched`); a release that has its segments has all of them
  (`ReleaseInv`); what the builder and the segment backfill listed is still so when
  they act (`BuildInv`, `RepairInv`), also between the read and the write of a snapshot
  (`SnapInv`): nothing deletes a part of a binary before its release is finished
  and has its segments. `SizeInv` bounds a binary's size by the inserts, which makes
  the types inductive.

*Post-processing* (`PostProcessAssumption`).

- `DoneStays`: `DoneSticks`. A claimed release is with the pass or with one worker
  (`OneHand`), it is not done and may fail once more (`HandMayFail`), and the
  failures of a release never exceed the attempts that were claimed
  (`FailuresClaimed`); a requeue and the one failure it overtakes are the exception
  the property names.

*Reassembly* (`ReassemblyAssumption`).

- `TypeCorrect`, `CursorSkipsNothing`: `NoPartSkipped`. The run works from the saved
  cursor (`AtCursor`), its batch is everything between cursor and last part
  (`BatchWhole`), and a batch whose cursor is about to be saved is planned
  (`BatchDone`). A deadlock, a failure or a restart goes back to the cursor.
- `TeardownIsWhole`, `FinishedSurvives`: `TornDownWhole`, `ProtectedSurvives`. Each
  statement leaves behind what the next one relies on: no part (`PartsTaken`), no
  release (`ReleasesTaken`), no binary (`BinariesTaken`) of what is torn down, except
  what is in `raced`; a repair that fetches knows all the parts of its binary
  (`RepairWhole`) except what is in `joined`. Proving `RepairWhole` showed the
  late joiner described in section 3, which the smaller instance the run
  had then did not contain.

*Services*. Each assumes the assumption of its module.

- `AnswersAreOwn`: a socket is one caller's (`OwnSocket`), no socket carries an
  unread body (`WireClean`), and who asks for an overview has its group selected
  (`GroupSelected`), because every error discards the socket.
- `MaintRowsReal`: a run in hand has a row of its own (`RunInHand`, `RunsApart`).
- `BudgetAlwaysHolds`: the arithmetic of `computeBudget`, case by case. TLC tries
  small pools, the theorem covers every configuration Validate accepts.
- `CadenceApplied`: a ticker is right, or a reset is on its way to it (`TickerRight`).
- `GroupOutcomesTrue`: a group is in the dispatcher's list or in one goroutine's hand
  (`TodoListed`, `HandsTrue`), with an id from before the pass; progress shows and
  counts those in hand (`ShownIsHeld`, `Counted`).
- `RetriesAreBounded`: of the dispatches that began within an event's window and
  still count, one is under way (`OneSender`); no POST was made to the destinations
  ahead of it, none acknowledged of those to the one it is at, and their number is
  its attempt's (`SendersKnow`).
- `StreamsComplete`: where entries are in the ring across a wrap (`RingHolds`); an
  entry a stream lacks is with the writer that logged it (`NoneMissed`), one it
  has is with nobody (`GotOnce`).
- `ServersLive`: the pool agrees with the table or one handler is about to make it
  so (`InLine`).
- `RebuildComplete`: a release that stays is in the index, on the page, or after it
  (`NoneLost`), under a name no older than the rebuild (`PageIsFresh`).
- `MissesAreFinal`: what the pass has learned of its item's name is true
  (`LearnedTrue`), and the names it holds are those of the releases that were not
  renamed since (`NamesKept`).

Only model-checked:

- liveness, which is out of the prover's reach together with ENABLED: `WaiterServed`,
  `ClosedPoolDrains`, `CatchesUp`, `BackfillCompletes`, `PreferredRecovers`,
  `EveryJobEnds`, `ForwardFollowsTick`, `CompleteIsReleased`, `BacklogDrains`,
  `Settles`, `RevocationTakesHold`, `PassReturns`;
- the type invariants of `Failover` and `PostProcess`: the ranges of cooldowns and
  backoffs need powers of two, which is induction over data. The proofs use the
  fields' shapes instead;
- the two counterexamples, which are behaviours of one instance.

## 5. What is not modelled, and the plan

Not modelled: the subject parser and the yEnc, PAR2, NFO, NZB and XML codecs (string
and byte processing), the decoding and encoding of HTTP handlers, queries that only
read, metrics, partitions (date arithmetic and DDL), the discovery cache, the
parsing of the configuration, and the web interface. The scanner sees one numbering
of articles; two servers number them differently, and the code shares one watermark
between them.

Next: an abstract specification of the pipeline (a file is posted, is whole, is
offered, and its offer stays whole) that `Pipeline` implements, with the refinement
proved; the safety half of `RevocationTakesHold` on `Auth` (what a cache entry that
outlived its key still needs in order to be accepted); and `NoOrphan` of `WorkerJobs`
for the configurations without backfill, to be checked before it is tried.
