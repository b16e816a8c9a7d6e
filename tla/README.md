# Glovebox: a TLA+ verification project

Glovebox stands between connectors that fetch external content and the
workspaces of agents: every item is scanned and then passed to an agent's inbox,
quarantined or rejected. Beside it a journal keeps structured records of the
same sources. This directory models the parts of the repository whose
correctness depends on order, failure and concurrency, checks them with TLC and
proves the central safety properties with TLAPS.

## 1. Inventory

| Part | State | Operations | Hard behaviour |
|---|---|---|---|
| Verdict routing and audit (`main.go` `deliverResult`, `internal/routing`, `internal/audit`) | directories of an item in `staging/`, `failed/`, the inbox, the quarantine; placeholders; audit logs; degraded flag | pass, quarantine, reject, to-failed, subject gate | every file operation can fail, a crash between any two, deliveries of one item that overlap |
| Scan pipeline (`internal/watcher`, `internal/pipeline`, goroutines of `main.go`) | `seen`, dispatch queue, pool channels, router's `pending` | discover, feed, scan, route, flush, rescan, shut down | five kinds of goroutines, bounded queues, timeouts whose work goes on, retries of whole batches |
| Ingest endpoint and connector framework (`internal/ingest`, `connector`) | `.ingest-tmp`, `staging/`, `queueDepth`; checkpoint in memory and in `state.json`, retry and fetch counters | `ServeHTTP`, `InitQueueDepth`; poll, commit, save | check and increment far apart, lost answers, retries of accepted posts, crash between commit and save |
| Archive delivery (`internal/ingest/archives`) | upload store, offsets, temporary and final files | create, patch, head, delete, finalize, cleanup | locks, resumed uploads, age-based cleanup racing a finalize |
| Journal (`internal/journal`) | rows, events, held snapshots, notes, erasures, verdicts, roster | apply, hold, confirm, note, erase, rescan, reload | transactions under advisory locks on several replicas, scanners of different versions |
| Records spool and sender (`connector/records`) | spool directory, rejected directory, backoff | put, prune, drain, reject, purge | a disk that loses what was not synced, requests that arrive late, order per scope |
| Login broker, refresher, vault (`internal/loginbroker`, `internal/loginvault`, `connectors/powerschool-auth-refresher`) | versioned record and session, intent marker, failure latch, callers in flight | refresh, gate, login, commit, save | account lockout under concurrent refreshes, lost answers and crashes |
| School connectors (`connectors/powerschool`, `connectors/schoology`) | session gate and its holds, learned student ids, fingerprints, carried days, seen ids, detail rows | poll, ask for a login, read a kid's turn, stage, trigger | a session others use too, a portal with one selected student, requests that may sign a person out |
| Source connectors (`connectors/*`) | bookmark, caps; open camera events | poll, watch, webhook | bookmarks under caps, failures and changing listings |
| Importers (`importer`, `importers/*`) | manifest, dedup set, in-flight set, pool; lock file | import, resume, watch | a producer ahead of its workers when the import is stopped or killed |
| Bearer auth, sanitize gate, configuration, engine, tools | see `PROJECT.json` | | stateless, pure, or only able to refuse |

The parts meet on disk and over HTTP: a connector posts an item to the ingest
endpoint, which renames it into `staging/`; the watcher finds it there; a worker
scans it; the result consumer delivers it, which moves it out of `staging/`.
`failed/` feeds back into the pool. Archives arrive by resumable upload and are
read by the importers. Records go from a connector's spool to the journal. The
school connectors get their sessions from the login broker or the refresher.
`PROJECT.json` lists every component with its status, and under `hazards` what
is hard to test in this code, with the properties that cover each.

## 2. Modules

| Module | Models | Runs |
|---|---|---|
| `Delivery` | one delivery as its sequence of file operations, several at a time, with failures and crashes | `routing` |
| `ItemFate` | what routing promises of an item; the abstract specification `Delivery` implements | `routing` |
| `ScanPipeline` | the goroutines and channels that lead to a delivery, and the shutdown | `routing`, `way_in_live`, `pipeline_wedge` |
| `Intake` | connector, checkpoint, HTTP backend and ingest endpoint | `ingest`, `way_in_live` |
| `Archives` | resumable uploads: store, PATCH, finalize, DELETE, age-based cleanup, crashes | `ingest`, `way_in_live` |
| `Journal` | snapshots, holds, notes, erasure, rescan, as transactions under locks | `journal` |
| `RecordSpool` | spool and sender against the journal's answers | `backlog` |
| `Login` | broker and refresher over one record and session in Vault | `login`, `login_beside` |
| `SessionGate` | when the PowerSchool connector polls and asks for a login | `portals` |
| `StudentTurn` | a kid's turn: select, read, check, confirm, stage | `portals` |
| `AttendanceCarry` | attendance days carried over the end of a term | `portals` |
| `SchoologyPoll` | polls, triggers, schedule and refused sessions of Schoology | `portals` |
| `DetailQueue` | Schoology's queue of assignment detail pages | `backlog` |
| `Feeds` | the 24 feeds of 22 polling connectors, by how they keep their bookmark | `sources`, `feeds_order` |
| `Push` | UniFi Protect's table of open events, the webhook handlers | `sources` |
| `Mbox` | the mbox import, its resume and its watcher | `sources`, `import_late` |
| `TreeImport` | the Apple and walhelm imports | `sources` |
| `MC*` | the constants of the runs | |
| `Delivery_proofs`, `Pipeline_proofs`, `Archives_proofs`, `Journal_proofs`, `Login_proofs`, `Backlog_proofs`, `Sources_proofs`, `Portals_proofs` | theorems and their proofs; `Pipeline_proofs` is about `ScanPipeline` and `Intake`, `Backlog_proofs` about `RecordSpool` and `DetailQueue`, `Sources_proofs` about `TreeImport`, `Push`, `Mbox` and `Feeds`, `Portals_proofs` about the four modules of the run `portals` | |

A run may check several modules side by side. The `MC` module then has a
variable `part` that is chosen at the start and never changes: a behaviour follows
the module it names (in `MCLive`, `run` and `stop` name the pipeline, before and
after a SIGTERM), and the variables of the others keep their initial values. The parts share no state, so this is the
disjoint union of the separate models. `Intake` ends where an item is renamed
into `staging/`, `ScanPipeline` begins there with `Arrive`, and `Delivery` opens
up the one step `ScanPipeline` takes for a delivery. `SessionGate` sees the
broker as its answers, `Login` has its inside; `SchoologyPoll` sees the details
as its last surface, `DetailQueue` has their plan; `RecordSpool` sees the journal
as its answers, `Journal` has its transactions.

Operators introduced by a comment that begins with "Mutant:" are not part of a
specification: each is a plausible wrong version of the definition that follows
it, and `PROJECT.json` says which property notices.

### Delivery and ItemFate

An item has attributes (`attr`: valid, ordered, tagged, subject, verdict,
escapes, hash) that are all deliverResult looks at. `dir[s][i]` is the set of
complete files in the item's directory under `staging/` or `failed/`, `inbox`,
`sanitized`, `qmeta` and `notice` are what the routes write, `audit` the
verdicts on record. A goroutine `t` runs one delivery: `pc[t]` names the next
file operation. `Deliver` is `deliverResult` up to its first file operation,
`Gate*` the rewrite of `metadata.json` by the subject gate, `Pass*`,
`Quarantine*`, `Reject*`, `Fail*` the steps of the four Route functions.
Each step has an outcome where it fails, and `Crash` may follow any step. Who
starts deliveries is open: any response for an item the process has read may be
delivered at any time, also twice at once, which is what timeouts, batch
retries and the rescan amount to.

`mishap` is a history variable. It records that two deliveries of an item
overlapped, that a failed removal or copy left part of it behind, or that
`copyDir` wrote over an existing copy; properties that do not survive one of
these say so.

`ItemFate` has no files: an item is known, kept, given to an agent, and has
verdicts on record. A verdict comes before the last whole copy goes, a record is
never taken back, an agent gets only what was cleared. `Delivery` instantiates it
(`Fate`) with kept copies computed from the directories and the log from the
audit files; `FateKept` is the refinement, checked in `routing`.

### ScanPipeline

One variable per channel or goroutine: `dispatch` and `feeder` (watcher),
`input`, `wpc`, `job`, `output` (pool), `consumer`, `pending`, `todo`, `cur`
(consumer and a flush under way), `rescan`, `orphans` (deliveries that timed
out), `alive` and `phase` (shutdown). Item names are numbers because the router
sorts by name. A delivery is one step: it succeeds when the directory the
response refers to is still there, and may fail or time out otherwise
(`deliveryFaults`). An empty `failed/<item>` that such an error can leave behind
is removed by the next rescan and not represented. `PlaceholderTracked` relates
`announced` to the copies of an item that have left the dispatch queue.

### Intake

A connector posts one entry at a time and saves its checkpoint after each;
`memory` and `onDisk` are the two copies of the checkpoint. A handler goroutine
is a slot with a request and a step. `waits` says whose answer a connector
still accepts: a client that gave up leaves its handler running. The poll is
the one of the RSS connector, the pattern the connector guide prescribes.

### Archives

A request goroutine is a handler `h`: `pc[h]` is its next step and `at[h]` its
upload. `uploads` and `perSrc` are the two maps of `Store`; `offset` and
`hashed` belong to `UploadState`; `tmps`, `file`, `fins` and `tree` are the
files in `.tmp-archives`, `archive` is `archives/`. `UploadState.Mu` is not a
variable: a handler holds it exactly at the steps of `Locking`. POST is
`Preflight`, then `Create` or `CreateRefuses` (the caps, under `Store.mu`), then
`CreateTmp`; PATCH is `Get`, `PatchLock` (`TryLock`), a `PatchCopy` per block
and one of `PatchEnd`, `PatchCut`, `PatchShort`; the PATCH that completes an
upload goes on with `Finalize`, one action per file operation, and `Respond`.
DELETE waits for the lock. Content is a sequence of blocks; a sha256 is the
sequence that was hashed, so two contents never collide.

Time appears as two sets, `old` and `oldFin`, of files past `TmpAge` (72 h) and
`FinalizeAge` (1 h). A file a running PATCH has written to does not get old,
because a PATCH ends after `PatchIdleTimeout`; a finalize directory gets old
when the process died under it or, if `SlowUntar`, while an `Untar` runs, for
which the code has no time limit. The cleanup goroutine picks an entry and
removes it in two steps, so that the entry may change in between. The
storage quota, HEAD, GET and OPTIONS are left out: they change none of this state.

### Journal

A writer takes the locks it needs one at a time in the order the code takes
them, computes its plan from what it then reads, takes the events lock, draws
sequence numbers and commits. The rescan reads rows without a lock, judges them
with its replica's scanner and writes the verdict if the row is unchanged. A
record has one text field; the diff of a snapshot, the removal guard and the
fold of the events into rows are operators. The database (atomic commit,
advisory locks released at the end of a transaction) is external.

Locks are taken authors first, then subjects, each group in the order of the
names (`NextLock`, `LockOrder`). The code ranges over a map when it numbers the
changes of a transaction and draws pseudonyms at random: `Numbered` allows every
numbering, an erase every unused pseudonym. `FoldAgrees` folds the events in
their order, as a reader of the history would; `RowsReplay` says the same event
by event, without recursion, and is the form that is proved.

### RecordSpool

A file operation under the spool's mutex is one step; `CrashImage` says what the
two directories may hold after a crash, given which of them was synced; a pass
sends the files in the order `Grouped` describes, scope by scope. A
snapshot is a number, in the order of `observed_at`; `Classify` is what the
sender makes of an answer. A request the sender gave up on may still be handled.

### Login and SessionGate

In `Login` a check-and-set version is whether the record is still as the
workload read it. A login writes its intent, submits, and commits; a crash in
between leaves a marker that is settled as a failed attempt once it is too old
to be alive. Time is a coarse clock; `TimingAssumption` is what the code's
constants guarantee (a workload gives up before its marker is taken for dead).
The operator and the account's owner act on the record and on the session. A
deployment (`dep`) says which of the two workloads run, how often, and what may
go wrong there: `lossy`, Vault's answers get lost; `rash`, the operator deletes
the record while a run is under way.
`SessionGate` follows one process of the PowerSchool connector through a day of
two poll windows in its three deployments, with what it keeps in the checkpoint
and what it forgets in a restart.

### StudentTurn, AttendanceCarry, SchoologyPoll, DetailQueue

`StudentTurn`: the portal has one selected student per session, and somebody
else may change it between any two reads. A fingerprint is a student and a
version, so that a page staged for the wrong kid is visible. `AttendanceCarry`
has a grid of days, a term end and teachers who enter codes late. `known` holds
the days that completed polls saw coded and none has judged otherwise since;
`NoDayLost` says of each of them that it is in the journal, carried, or given up
for its age.
`SchoologyPoll` has surfaces with seen ids, an attachment set per feed, a
one-slot trigger channel and sessions that are refused. `DetailQueue` counts
time in polls; a row is new, changed, overdue or due for a refresh, and the kids
take turns under the cap. A sorted plan is written as the function that inverts
the rows' ranks (`groupByKid`), which says the same as sorting them and can be
reasoned about.

### Feeds, Push, Mbox, TreeImport

In `Feeds` a poll of a connector is one definition whose disjuncts are the steps
of its loop; connectors that keep their bookmark in the same way share the
steps (`Connectors` names the 24 feeds of 22 connectors). Services publish, list newest or oldest
first, and delete: a listing is a set put in order (`Oldest`), of which the loop keeps what is beyond the bookmark (`After` by
position, `Newer` by timestamp). What a connector is known to lose is named (`missed`), see
section 4. `Push` follows camera events frame by frame through the table that
the frame reader and the sweep share (`OnTheWay` are the items that have left
the table, `FramesAccounted` that each frame is in one place), and a webhook whose sender repeats until
it gets 200. `Mbox` gives every message three positions, because the manifest's
offset can point into a message's tail. `TreeImport` is the bounded pool with its
result slots, and Apple's second pass over purchase tables.

## 3. Runs

| Run | Distinct states, time | Shows |
|---|---|---|
| `routing` | 920 000, 70 s | nothing lost silently, content kept, only cleared and resolved items in an inbox, placeholders backed by items, every step one that `ItemFate` allows; no item forgotten or dispatched twice, a flush keeps the order of what it holds |
| `ingest` | 880 000, 60 s | no entry skipped, duplicates only after failures, staging bounded by the threshold plus the requests under way; what is published is whole and stays, completed uploads are there, slots counted, nothing left behind, resume continues at the hash |
| `way_in_live` | 72 000, 160 s | every valid entry becomes an item; no temporary file or finalize directory stays for ever; every item that arrives is delivered; SIGTERM ends the process from every state |
| `journal` | 1.03 million, 140 s | history and rows agree, the newest observation wins, locks do not block one another, an erasure is complete and stays so, verdicts are of the text beside them, sequence numbers commit in order |
| `login` | 35 s | logins one at a time, outside blackouts, within budget and lockout limit, paced; no session lost that was paid for; every caller answered |
| `portals` | 2.7 million, 165 s | logins asked for as seldom as promised; every kid gets its own pages; no coded day lost at a term's end; no trigger or item lost |
| `sources` | 240 000, 155 s | bookmarks and resume points pass nothing; pushed events are whole or say they are not; imports tell the truth and end |
| `backlog` | 137 000, 90 s | snapshots are neither lost nor sent out of order; spool and detail queue move |
| `pipeline_wedge`, `import_late`, `feeds_order`, `login_beside` | violation | section 4 |

Bounds. In `routing`, `Delivery` has one item of each kind that `deliverResult`
distinguishes, two goroutines (an overlap needs two) and two failures (a
failure, and a failure or crash in what follows from it), or one where two
deliveries of the item overlap (`FaultBound`); `ScanPipeline` has
queues of length one, so that every queue is full at some point, two workers, so
that scans end out of order, one failure and one restart, two ordered items,
which is enough for order, and a third that is not. `ingest` has two connectors
and one failure for `Intake` (`way_in_live` two failures with one connector, a
lost answer followed by a crash; `NoGap` is proved for all), and for `Archives`
two handlers, two upload ids with one `archive_id` so that they compete for the
name, a source that is a registered scanner and one that is not, and a cap of
one upload per source so that it refuses. `journal` has two replicas, three
transactions, two scopes that share a key and one rescan or reload: a
transaction, its conflict, and a third that meets what they left. `login` has
four deployments (the broker with lost answers, with an owner who signs in,
beside the job, and the job alone), each with the failures that matter to it. In
`portals` the day has two windows, so that a hold must last from one to the next;
two kids, of which one may be unknown to the portal's ids; a term of three
days and one of four. `sources` has entries for more than one page,
caps of one, a rejected entry where there is no cap, one failure or
crash; imports of up to four messages with equal ids and excluded messages.
`backlog` has four snapshots for two files, and six assignments for a cap of one
or two. `MaxFaults` and the constants like it bound failures and crashes.

Deadlock is not checked where the system may come to rest: the pipeline has
nothing left to do, the process stops after SIGTERM, clients run out of ids, the
modelled day is over. That locks and full channels do not block one another is
stated as a property instead (`JournalConsistent`, `PipelineMoves`,
`NothingWaitsForever`).

Fairness. Goroutines are scheduled and tickers tick: weak fairness. A goroutine
blocked on a channel is served in turn, because the wait queues of Go channels
are first-in first-out, and `select` picks among ready cases at random, so steps
that others can disable again and again (a send to a full channel, one case of
the consumer's select) are strongly fair; taking and sending of a worker are
weakly fair, because the liveness run has one worker and nobody else can take
its turn. Without strong fairness the consumer could take the flush tick forever
and never notice that its input is closed. Arrivals, signals, failures and
restarts have no fairness. In `Intake` connectors poll again, handlers finish and
the pipeline takes items; a post is strongly fair because a slot may be taken by
others. In `Archives` the server's handlers are weakly fair (the idle timeout
ends a body that stalls), time passes and the cleanup ticks; no client is obliged
to send anything. In `RecordSpool` the sender's loop runs again (kick, backoff or
one-minute timer), requests are handled and a dead pod is restarted. In `Login`
only the broker's own steps are fair: `Answered` needs nothing of Vault, the
portal, the job or the callers, since every call the broker makes ends. `Feeds`, `Push`, `Mbox` and `TreeImport` poll,
sweep, work and are started again; nobody has to publish, push or stop.

## 4. What the violations say

Each is a statement of the documentation or a comment that the code does not
keep; `PROJECT.json` quotes it.

* `QueueContinues`: the rescan enqueues an ordered item more than once; the
  second delivery fails and stops every later flush at the same place, for all
  ordered items behind it. A delivery that timed out and completes later has
  the same effect.
* `CompleteMeansAll`: an mbox import stopped after its producer has reached the
  end of the archive is recorded as complete with messages still queued.
* `SoleLogin` in `login_beside`: with both login workloads on one record, one lost
  answer of Vault lets them log in at the same time. The broker's outcome is
  stored and the answer lost; the job reads a record without a marker and writes
  its own; the retry of the broker's `commit` meets a mismatch and applies its
  mutation to the job's record, which clears the job's marker
  (`broker.go:615-632`); the broker's next refresh finds no login in flight.
  `login` has the deployments where this cannot happen.
* `NoNewPaperSkipped`: Semantic Scholar lists newest first and the connector
  goes on behind the bookmarked paper.

Other disagreements are visible in the models without a run of their own.

Routing and pipeline (spec 04). An item in `failed/` whose rescan fails again is
copied onto itself and deleted (`failed.go:9`, `:18`; line 611): these are the
spoiled items of `ItemFate`. A flush does not wait for an earlier item whose scan
is still running (line 411), SIGTERM turns scans under way into quarantines
(line 621), and a failed pass leaves its item in `staging/`, where nothing picks
it up before a restart (line 612). Two quarantines of equal content within a
second share a name (`quarantine.go:51`). A crash leaves `metadata.json.tmp`
behind, on which the next attempt's exclusive create fails (`subject_gate.go:106`).
The feeder can write a placeholder after the shutdown removed them, and an inbox
directory is visible before it is complete.

Ingest (spec 08). Nothing but a test decrements the backpressure counter: the
endpoint answers 429 after `backpressure_threshold` items until it is restarted
(`handler.go:72-74`; line 203). Requests that pass the check together exceed the
threshold (section 3.7; `StagedBounded` is what holds).

Archives (spec 13). An extraction that outlasts `FinalizeAge` loses what it has
extracted to the cleanup, and the rest is published as the verified archive
(`cleanup.go:165`; lines 326 and 371): hence the assumption `~SlowUntar` of two
theorems. An upload whose file was reaped keeps its slot until a client deletes
it, although the comment at `store.go:72` says the cleanup finds stale uploads
there. `PatchIdleTimeout` limits a whole PATCH, not its idle time (line 201), and
a PATCH and a DELETE that both end an upload both decrement the
`upload_in_flight` gauge.

Logins. The refresher clears its marker before it stores the session
(`run.go:420`, `:431`; `DESIGN.md:145`), so a crash in between loses the interval;
`SameRecord` can take another workload's marker for its own; the refresher does
not look at the daily budget. An operator who deletes the record during a
rejected login undoes the latch (`rash`, off in the run). The gate probes a
session refused twice in one poll again. A deferral the broker has named is kept
for one session: when the process restarts onto an older session of the file and
finds that one dead too, the record of the deferral is overwritten and the broker
is asked before the time it named (`session_gate.go:464`, comment at `:63`); hence
"while the session stays in place" in `DeferralKept`.

School connectors. A wrong id learned because somebody switched away and back
within a turn wedges both kids. In `AttendanceCarry` a correction that leaves a
day unsettled is not judged, and the journal keeps the old day when the grid
rolls first. In Schoology an attachment is tried only right after its post is
staged; catch-up and triggered polls do not set `notBefore`; the lowest ids are
pruned from a full seen-set even if they are still listed. A detail page that
answers 5xx for good holds back its kid's later rows (`assignment_detail.go:268`;
`Poison` is empty in the run).

Connectors (spec 05). x, gdrive, onedrive, teams, youtube, gmail, hackernews and
Notion databases lose the entries a cap cut off; the bookmarks of imap, gmail,
hackernews, youtube, bluesky and gitlab pass entries that could not be read (lines
238 and 342). steam, outlook, gmail and hackernews return without saving at the
per-poll cap, so the entries are staged again. An entry rejected for good blocks
its feed; the deletion of a bookmarked entry stages its page again; Notion pages
can be starved by the shared cap. UniFi's `pollSurface` is not called, and imap's
`Idle` does not return on updates. `FeedSafe` names the connectors that lose or
repeat, and holds them to losing and repeating nothing else.

Importers (spec 09). `ByteOffset + Size` leaves out the From_ line and the last
newline (`importer.go:152-155`): a resumed import may stage a message's tail, or a
message without its headers. An import interrupted at offset 0 starts over and
forgets its ids. A crash leaves `.mbox-importer.lock`, and a failed manifest is
refused for ever in watch mode. Equal ids in flight together are both staged. The
manifest is marshalled outside its lock, a data race, which the model represents
as a write of the manifest at any moment between. A second run of an Apple or
walhelm import stages everything again.

## 5. Proofs

TLAPS proves the following for every value of the constants. The assumptions are
named in the modules (`DeliveryAssumption`, `PipelineAssumption`,
`IntakeAssumption`, `ArchivesAssumption`, `JournalAssumption`, `SpoolAssumption`,
`TreeAssumption`, `PushAssumption`, `TurnAssumption`, `CarryAssumption`,
`GateAssumption`, `SchoologyAssumption`, `ListedAssumption`, `TimingAssumption`,
`DeploymentAssumption`, `MboxAssumption`, `QueueAssumption`, `FeedsAssumption`): types of the constants, thresholds of at least one, an id that is
none, different kids in a configuration that has at least one, windows that end
after they start (`config.go` refuses others), names that are ordered, runs that end
before their marker is taken for dead. `IntakeFinite`, `PipelineFinite` and `JournalFinite` say that a process
has finitely many goroutines and a household finitely many members; the counting
arguments need them.

`Delivery_proofs`: `TypeCorrect`, `LossIsLogged` (`NoSilentLoss`),
`ContentKept` (`Custody`), `FailClosed` (`OnlyCleared`) and `AgentSeesEntity`
(`InboxResolved`). None of these is inductive alone: that a source is removed
only after the inbox and the audit hold the item depends on what a goroutine
has done before it reaches the removal. The inductive invariant `IndInv`
therefore says for every step `pc[t]` which files and records the steps before
it established, and that no other goroutine takes them away. `StepInd` shows
that a step which is stable in that sense preserves it; there is one lemma per
group of steps (`IdleStep`, `ReadStep`, `ReturnStep`, `CrashStep` and those of
the routes), and `NextInd` puts them together. `FateImplemented` (`FateKept`) is the
refinement: under `IndInv` every step of a file operation, a failure or a crash
maps to a step of `ItemFate` or to none. Most steps change one component of the
mapping; the lemmas say for each of keep, record, hand over and spoil which
steps can do it. `PlaceholdersBacked` (`PlaceholderBacked`) rests on `PlaceInv`: as
long as nothing has failed, a delivery from `staging/` began after the one read of
its item, so that two deliveries never share a placeholder.

`Pipeline_proofs`: `PipelineIsSafe` (`PipelineSafe`) and `FlushKeepsOrder`
(`HeldOrder`). `PipelineInv` accounts for every item by counting: an item in
`staging/` has at most one copy among the queues, the workers, the router and the
orphaned deliveries, and at least one while it is marked seen and its delivery has
not failed. The lemmas on counting say what happens to the number of positions
holding an item when a sequence grows at its end or loses its head, which is all
that channels do. `FromFailed` and `Flushed` rule out that a copy read from
`failed/` goes back to `staging/` and that a flush leaves a placeholder behind.

The same module has `Intake`: `IntakeTyped` and `CheckpointSafe` (`NoGap`). A checkpoint is
saved on the strength of an answer, so the invariant `Inv` connects the two
ends: the request a connector waits for is about the entry behind its
checkpoint (`Sending`, `Awaited`), and a handler about to answer 202, or a
connector about to save, refers to an entry that has become an item
(`Confirmed`). `ConnectorFrame` covers all steps a connector takes alone.
`BoundsKept` (`IntakeBounded`) adds the counters: `Budget` relates the items made
of an entry, the requests under way and the failures so far, and `LetIn` the
requests that passed the threshold check to the slots, which is why staging can
exceed the threshold by the requests under way and by no more.

`Archives_proofs`: `ArchivesTyped`, `SlotsCounted` (`SlotsMatch`), `NothingLeft`
(`NoLeftovers`), `OffsetHonest` (`Resumable`), `PublishedKept`
(`PublishedStable`), and, assuming `~SlowUntar`, `PublishedWhole`
(`PublishedIntact`) and `CompletionKept` (`Delivered`); section 4 says why this
assumption is needed. Two frame lemmas carry the argument: `LocalStep`, a step
of a handler changes nothing of the uploads others work on, and `OwnStep`, what
it does with its own request. On top of them are three invariants, each
inductive given the ones before it. `TypeInv` says who may know an id: an id not
given out has left no trace (`Fresh`), so that a POST starts clean. `StoreInv`
has mutual exclusion (`Exclusive`), which follows from `TryLock` and DELETE's
wait, and relates file, hash and offset of each upload (`Sound`): the file is at
least as long as what was hashed, and equal if it has the same length, which is
why `Finalize` needs the size check besides the sha256. `DataInv` says for each
step of a finalize which part of the claimed content is where (`Progress`, with
`Parts` for a half-extracted tar), that nothing else is in the finalize area
(`Unstaged`), and that the cleanup only takes finalize directories of uploads the
process died under (`Orphans`).

`Journal_proofs`: `JournalIsConsistent` (`JournalConsistent`), `ErasureIsComplete`
(`ErasureComplete`), `TextsAreJudged` (`TextsJudged`), and three facts without a
run property of that name: `SeqsAppearInOrder`, `NoDeadlock` and `GuardHolds`; the
first and the last are conjuncts of `JournalSteps`. `JournalInv` carries the
argument. A transaction computes its plan and commits later, so the invariant says
what such a plan may rely on (`InFlight`): its subject is not erased, because its
subject lock is held (`TxLocks`, `Exclusive`) and an erase needs that lock; its
sequence numbers are ahead of all visible ones, because the events lock is held.
`Ranked` says that a transaction asks only for a lock that ranks above those it
holds, which excludes a cycle of waits. `HistoryInv` adds what the tables owe to
the history: a plan still fits the rows it was computed from (`PlanOK`), and every
applied snapshot is reflected in rows at least as recent (`Seen`). `GuardInv` says
that what a plan removes is still what the guard counted.

`Login_proofs` has three theorems, each on an invariant that needs more of the
deployment than the one before. `LoginHonest` needs nothing: `OutsideBlackout`,
`SessionKept` and `RetryHonest` hold through crashes, lost answers and deleted
records. `BaseInv` says what a workload holds at each step (`Running`), and where a
confirmed session is until it is stored (`Kept`). `LoginIsSafe` (`LoginSafe`) adds
`SoleLogin`. `Locked` says of each step what the workload may believe of the record:
from its marker to its outcome a run that logs in holds the record as it is
stored, or is doomed to a mismatch, and the clock has not reached the end of its
timeout, so that nobody else finds its marker old enough to settle. The hypothesis
`WritersApart`, no `rash` deployment and no `lossy` one with both workloads, is what
`login_beside` shows to be needed. `LoginIsPermitted` (`LoginPermitted`) is about the
counts: `CountInv` says that the record's failures and the day's logins are never
less than what was submitted (`hist`), once the marker on record, or the outcome a
workload has still to store (`Owed`), is added. It needs `LimitsAgree`: a job whose
portal allows more unconfirmed logins than the broker does (`MaxUnconfirmed` above
`MaxFailures`, two settings the code does not compare) may submit beyond the
broker's limit without the broker latching.

`Backlog_proofs`: `SpoolIsSafe` (`SpoolSafe`) and `SentOldestFirst`
(`SentInOrder`). `SpoolInv` adds to the property that the answer the sender holds is
true of the journal (`AnswerTrue`), on the strength of which a file is removed, and
that a file is in one directory outside a crash. Order needs `OrderInv`: whatever
the sender has sent or has still to send, every older file of its scope that is
still there is settled or comes before it (`SentSettled`, `TodoSettled`).
`DetailIsSafe` (`DetailSafe`) is about the assignment pages: the cap on a poll, and
that a page is staged twice only after an outage. `OutagesOwed` is the account:
pages staged twice, and those staged whose checkpoint was lost (`Unsaved`), together
at most the outages. That `seen` never forgets a listed assignment follows from
`ShortLists`, as in `SchoologyPoll`. The cap needs that the plan is as long as it has
rows: `RankGrows` and `RankReaches` show that ranks in a total order are one to n.

`Sources_proofs`: `TreeIsSafe` (`TreeSafe`), `PushIsSafe` (`PushSafe`),
`MboxIsSafe` (`MboxSafe`) and `FeedIsSafe` (`FeedSafe`). `TreeInv` adds whose hands a file is in (`Hands`) and that a result slot tells the truth once
its worker is done (`SlotsTold`). `PushInv` follows each frame (`EachPlaced`): it is
in the table, counted as lost, or in exactly one item on its way, also between the
two halves of a sweep. `MboxInv` follows the messages from the scanner through the
queue, the workers and the results (`InOnePlace`): each below the scanner's
position is settled, or in one of these hands (`Passed`), so the low-water mark
computed from the in-flight set is behind all that are not settled (`LowWater`).
`Twins` keeps for each skipped message one of the same id that was staged, and
`Once` where its id is known: in `dedup` and in the manifest, or in a result the
driver has still to read.

`FeedIsSafe` is one theorem about 24 ways to poll, so its argument is in terms all
of them share. An entry is `Excused` when it was staged, is known as missed, or is
of the one kind its connector loses. `FeedInv` says that what no listing shows any
more is excused (`GoneTold`), and so is what either bookmark passes, the saved one or
the one remembered for the end of the poll, unless the listing under way still holds
it (`Bookmarks`). A crash may then forget the remembered bookmark, and an entry refused
for good leaves it behind. `Upwards` is needed of the connectors that save in order:
what is still to do goes up, from beyond the remembered bookmark. `Fresh` is the
part about duplicates: while nothing goes wrong, what was staged is behind one of the
bookmarks, and what is to do is ahead of the saved one. A poll begins with a listing that
`Fits`: it shows every recent entry beyond the bookmark or, from a service that
lists upwards, leaves none out between those it shows. For each connector a lemma
shows that what its service answers fits, from four facts about listings: `Oldest`
goes through a finite set once and upwards (there is such a listing, because the
entry with i - 1 older ones can be put in place i), `Newest` downwards, and `After` and
`Newer` keep of a listing what is beyond the bookmark.

`Portals_proofs`: `TurnIsKept` (`TurnKept`), `CarryIsKept` (`CarryKept`),
`GateIsKept` (`GateKept`), `SchoologyIsKept` (`SchoologyKept`) and `PortalStepsKept` (`PortalSteps`), the last put
together from one theorem per conjunct: `LearnedOnlyByMistake`, `DaysEnterSettled`,
`RequestsArePaced` and `SessionIsHeld`. `TurnInv` has four parts besides the types. `BindInv`: what a turn
has read is of its kid, or, on a scores page, of the student nobody else is bound
to, and a fingerprint is always of the student its entry is about; without the
last, learning an id could give old fingerprints to another student. `Debt`, in
`StagedInv`, is the set of entries delivered and not yet in the fingerprint: each
may be delivered once more and was paid for by a fault, so that
`dups + Cardinality(Debt) <= count.faults`. `CleanInv` says how far an undisturbed
poll has come: which kids are caught up, which pages are there, which entries are
handled; a refused scores page can then only mean a binding learned by mistake
(`RefusedOnlyMisled`). `AwayInv` counts the selections by others that a wrong id
on a scores page costs. For the carried days, `CarryInv` bounds what is counted as
followed by the school days between two dates (`Between`), over the term's end. In
finding it, `NoDayLost` turned out to hold only for one failed save: `known` kept a
day that a later poll had judged not to be coded. Now a poll takes it out of
`known`, and the property names no escape but the carry limit.

For the session gate, what a process may do depends on what earlier processes left
on disk, and a poll handles copies of the state (`Ensure` and `Renew` pass it on)
before a step ends. So `GateInv` is about a disk, a process and a past:
`Linked(d, m, h)` holds at every point of a poll, and the lemmas carry it from one
call to the next. Its parts are what the files must say for the promises to
survive a restart: the saved poll time covers the last window opened once it has
been polled; the deferral and the refused session the past knows are those on
record (with a broker in the hold, without one in the rejected-session file); the
logins wasted are at most the unanswered ones counted; the mailbox was written no
later than the recorded request. `Phase` adds what each state of the process
relies on, such as the request it was let through for, or that the schedule lies
beyond the window used. `GateIsKept` has one hypothesis, `WindowsApart`, and needs
it for `OnePollPerWindow` only: `config.go` asks that each window ends after it
starts and not that two are apart, and of two that overlap the second can be
polled after the first one's poll, though that poll was made with both open (TLC finds
it with the windows [1, 4) and [2, 5)). The other conjuncts, and
`PortalStepsKept`, hold for any schedule.

`SchoologyInv` pays for every exception with a mishap. `Unpaid` is the set of items
staged, still listed and not in the seen-set, so that
`again + Cardinality(Unpaid) <= tally.mishaps`; that a full seen-set never forgets
one of them is `OldBelow`: what was staged and is no longer listed is older than
everything listed, so the smallest id of a set larger than the list is one that is
gone. `ListedAssumption` and the guard of `Publish` say that a list is no longer
than the seen-set (5000 ids), which is what the comment on `maxSeenIDs` relies on.
`MissingPaid` leaves out the post in hand (`NextPost`), and `SessionsPaid` counts
each refused session once it is on record, or while the poll that found it refused
is still running (`DeadPoll`).

Only model-checked are liveness (`PipelineMoves`, `EntriesGetIn`, `FilesGo`,
`Answered`, `NothingWaitsForever`, `BacklogMoves`), which is out of the prover's
reach; and `JournalSteps` as a whole, because `FoldAgrees` is a fold over a sorted
sequence, an induction over data (its other two conjuncts are theorems, and
`RowsReplay` is proved).

## 6. Not modelled, and the plan

Not modelled: the text detectors of the engine, the parsers of pages, messages
and export files, the clients of third-party services and what they render, the
configuration loaders, the login pages of the portals, the Schoology refresher (a
browser driven by hand), the archive quota (a latch on the measured bytes that
can only refuse a POST), bearer authentication (it too can only refuse), the read
API of the journal, metrics, charts, tools and generated code. These are pure,
stateless, or without influence on the state the properties are about; they are
more than half of the implementation's lines. `copyDir` copies its files in one
step, so that a rescan which meets a half-written `failed/<item>` is not covered.

What remains open: `FoldAgrees` for histories of any length, which needs an
induction over the sorted history; and a `copyDir` that copies file by file, in
`Delivery`, with the rescan looking in between.
