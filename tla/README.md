# TLA+ models of lib-change-descent

This directory holds TLA+ models of the program in `src/src-mjs.dev/lib`, the
configurations that check them with TLC on small instances, and proofs, checked
by TLAPS, of what the models promise for every value of their constants. Paths
below are relative to `src/src-mjs.dev/lib` unless they start with `src/`.

- [1 The system](#1-the-system)
- [2 Modules](#2-modules)
- [3 How state and actions correspond to the code](#3-how-state-and-actions-correspond-to-the-code)
- [4 Runs, bounds and fairness](#4-runs-bounds-and-fairness)
- [5 Proofs](#5-proofs)
- [6 Findings and observations](#6-findings-and-observations)
- [7 What is not modelled, and the plan](#7-what-is-not-modelled-and-the-plan)
- [8 Running it](#8-running-it)

## 1 The system

lib-change-descent finds out what changed in large file trees over many sessions.
It discovers volumes, imprints them with an identity, walks them with one worker
per disk, keeps what it learns in buffers that survive a session, and records all
it does in an append-only log. It is JavaScript on one event loop, with worker
threads for the log and for disks and child processes for OS queries, so its
concurrency is of three kinds: async functions and generators that interleave at
their `await` and `yield`, threads that exchange messages, and children, timers
and signals that report as events. Nothing takes a lock.

| Component | State it keeps | Operations | Correct when |
|---|---|---|---|
| Disk scheduler `hardware/libcd_disk_scheduler.0.mjs` | the caller's queue array, worker count, a busy flag per bus | `next()`, `release()`, push by the caller | two HDD tasks never share a bus; no slot or bus is leaked or given twice; the loop ends, and only when drained |
| Immutable log `internal/imut_log/*` | in the main thread the worker reference, in the worker its queue and the log | `post`, `drain`, FLUSHED notifications | entries stay in order, none is lost while the worker lives, a crash costs fewer than a batch, a drain is a barrier |
| Lifecycle `libcd_lifecycle.mjs` | none | `stop`, `abort`, `house_keep`, background and foreground | stop leaves nothing unflushed; house keeping repairs and ends |
| Operation pipelines `internal/op/libcd_operation.mjs` | step, attempt and backoff of each call | run a pipeline of steps with retries and self checks | each step has its own full retry budget; a pipeline is done only when all its steps are; it ends |
| Self check `internal/self_check/libcd_self_check.mjs` | none | polls volumes and buffers | throws only on a real fault |
| Volume registries and imprint `storage/libcd_volume.mjs` | known ids, active volumes, masks and imprints | construct, register, remove, clear, set type, imprint | registries agree; a volume is busy exactly while it is written; a successful imprint is believed |
| Volume assertions `internal/self_check/libcd_assert_vol_id.mjs` | maintain bits of volumes | assert one, poll the active ones | volatile volumes work only when imprinted |
| Hardware controller `hardware/libcd_controller.mjs`, `libcd_identify_disk.mjs` | the registries of volumes | mount, unmount | a mount ends in one registered instance |
| OS executor `os/libcd_os_executor.mjs` | per call a promise, a timer, a child | `os_exec`, `os_exec_sync` | the caller is told the truth once, the log agrees, nothing is left over |
| Filesystem filter `os/libcd__os_filter.mjs` | rules in three precedence levels, skip counts | add, remove, reset, check | the highest level decides; counts agree |
| Filesystem gateway `os/libcd_os_fs.mjs` | the generators of walks in progress | stat, read, list, walk, mkdir, write, rm | nothing excluded is touched or yielded, nothing allowed is missed |
| Runtime, gate and profile `runtime/*`, `arg/libcd_arg.mjs` | options, a secret for pins | construct, `modify_args` | unless a call brings options of its own a gate stays, and only a valid pin changes what it guards |
| Context and change graph `internal/ctx/`, `render/` | created_ts, masks, buffers of a context, buckets of the graph | record, decay, flags, time maintenance | an expired graph shows nothing older than its last maintenance |
| Session headers `session/libcd_session.mjs` and `LibCdSession` | contexts, per context a session and its header | construct, init, checkpoint, validate, switch | a restore resumes what it is given; the header carries the last checkpoint; contexts do not alter each other |
| Host metadata `os/libcd__os_metadata.mjs`, `host/libcd_host.mjs` | known hosts, access history of volumes | register, audit, reset | an unknown host and a volume touched elsewhere are reported once |
| Blake3 hasher `src/src-mjs.dev/3p/hugging-face-blake3-wasm` | a chunk, a stack of chaining values | create, update, finalize | the digest depends on the bytes and not on the pieces they came in |
| Node buffer, string heap, disk worker, descent hash, journal reader and others | see section 7 | | |

How they interact: every component posts entries to the log (`post`), which
never answers. Volumes are imprinted by a pipeline, the pipeline ends with a self
check, and the self check polls the volume registries and touches the masks of
the volumes in them. The controller asks the OS executor for a disk's fingerprint
and fills the volume registries after that await. The lifecycle runs house
keeping as a pipeline whose step is the self check, and its `stop` is where the
log should be drained. The gateway asks the filter about every path. A session
starts with the fingerprint of its host, which audits the volumes in the registries.
The runtime parses its options into a profile, asks the gate before they change,
and hands its context to the session, whose header is a buffer of that context.

What is hard about it: releases and pushes between two turns of the scheduler; the
death of the log's worker between two messages and the end of a process that does
not wait for it; retries next to state that others change; masks on a volume that
an imprint, a second imprint and any self check set and clear around each other's
awaits; timers, aborts, errors, exits and closes of one child in any order; a walk
whose listing is old by the time it is used; a header that is a view into a buffer others
use, and a process that ends between a checkpoint and its save; options that carry
earlier options inside them; input that is cut at the boundary of a block or chunk. `PROJECT.json` lists each such
hazard at its line with the properties that cover it.

## 2 Modules

| Module | What it is |
|---|---|
| `DiskScheduler` | the scheduler's generator with its caller, consumer and workers |
| `ExclusivePool` | abstract: a pool that hands out each waiting task once, exclusive tasks of one bus one at a time, and ends when drained |
| `ImutLog` | client, channels, worker and manifest hook of the log, with the lifecycle's stop and the end of the process |
| `AppendLog` | abstract: a log that only grows, by entries in the order they were posted |
| `Operation` | pipelines with retries, backoff, pauses and self checks, and the lifecycle's house keeping |
| `PipelineOutcome` | abstract: steps are committed one after the other, done means all of them, and an outcome is final |
| `Volume` | volume registries, masks, imprints, mounts and assertions; composes `Operation` (`Op == INSTANCE Operation WITH ..., healthy <- PollPasses`): the imprints are its pipelines and the registries are their health |
| `VolumeDiscovery` | extends `Volume` with the activity mask and the discovery strategies that look at it |
| `OsExecutor` | asynchronous and synchronous commands on one AbortSignal |
| `OsFs` | filter and gateway, over a tree that others change too |
| `Runtime` | a runtime's options, the profile they are parsed into, the gate and its pins, the context with its time mask and change graph |
| `Session` | contexts, their sessions and headers, the files they are saved to, crashes |
| `HostAudit` | registry of hosts and histories of volumes, with the audit that compares them |
| `Blake3` | the incremental hasher, with the hash tree by definition beside it |
| `MC*` | small instances of the modules for TLC; `ImutLog` is instantiated by its configurations |
| `MCParts` | `MCRuntime`, `MCSession`, `MCHostAudit` and `Blake3` side by side: they share no state, and a behaviour is of the one chosen at its start |
| `MCKnownVolumes` | `MCHostAudit` with a history of the host names under which each volume was known |
| `*Proofs` | the theorems about each |

A definition `Bug_X` is a plausible mistake in the code that `X` models. The
modules do not use it: it is there to be put in the place of `X`, to see that the
property it is meant for then fails (`PROJECT.json`, "mutants"; there is one for
each property of each run).

## 3 How state and actions correspond to the code

In general: what the code does between two awaits, or in one callback, is one
action, because nothing else can run in between. A local that lives across an await is
part of the state. A history variable records what a property must compare with
and is never read by a guard. Messages, wording, durations and file contents
are left out.

**DiskScheduler.** `disk_queue`, `active_workers` and `bus_activity` are the
variables of those names. `gen` says where the generator is: before its start or at its
`yield` (`suspended`), in its 100 ms sleep (`sleeping`), or returned.
`pending_next` counts the `next()` calls not answered yet; async generators queue
them. One turn of the loop is `Dispatch`, `WaitForSlot` or `Finish`. A `for await`
consumer has one `next()` outstanding; others may have more (`MaxPending`). A
worker that never calls `release()` is in `Stuck`. A worker releases once: the
closure (lines 31-36) has no memory of earlier calls, and a second call would free
what another worker holds; this is a condition on callers that the module states
and does not check.

**ImutLog.** `worker`, `queue`, `channel`, `acks` are `_worker`, the worker's
queue and the two directions of its port. An entry is its number among all posts.
`Post` and `Drain` are the client's calls, `HandleEntry` and `HandleDrain` the worker's
message handler with the `flush` it calls, `ManifestHook` the client's listener.
`WorkerError` is the death of the worker thread: the client keeps the reference to it and
later posts go nowhere. `Stop` is `lifecycle_stop`, which awaits an empty
`lifecycle_abort`. `Exit` is the end of the process: the worker is unref'd. The
write itself is a stub in the code (a TODO in `flush`); the model takes the
splice and the FLUSHED message for the write.

**Operation.** Per pipeline `pc`, `step`, `attempt` are where it is; `completed`, `tries`
and `reason` are history. `Enter` is the start of a step's `call`, `Throw` the catch
block, `NextStep` the outer loop with its reset of the attempt counter, `Conclude`
the post-operation self check, which is outside the try. `healthy` is what
`run_self_check` would find; it may flip at any await (`Drift`). `max_retries` 0
becomes 3, by `||`.

**Volume.** `vol` holds the instances, `known` and `marked` are
`_known_volume_ids` and which of its records say `imprinted`, `active` is the
insertion-ordered Map `_active_volumes`. `Construct` is the constructor with its
registrations; `MountBegin` and `MountEnd` are the two halves of a mount around the
await of the fingerprint, in between which anything may happen. An empty fingerprint (`Unnamed`) is an
id that the constructor does not register; `MountUnnamed` is the rest of such a mount, under a made-up
id. `AddKnown` takes the caller's metadata, which may say `imprinted`. `ImprintBegin` is
`volume_imprint` up to the await of its write, `ImprintEnd` the `finally`, and the
pipeline's end with the self check of all active volumes: `Op!BodySucceeds` takes its
verdict from `PollPasses`, on the registries as they are before the masks are
cleared, which the verdict does not read. `Poll` and `AssertVolume` are self checks
of other operations; both clear `maintain` on what they looked at, whoever set it.

**OsExecutor.** Per call: `pc` is its promise, `timer` and `child` are what they say,
`audit` the entries it posted. `Start`, `SpawnThrows`, `SpawnFails` are the outcomes of
`spawn`; `TimeoutFires`, `Abort`, `Exit`, `Close` the events. `Exit` and `Abort` are
external, modelled from how the code uses `node:child_process`: `close` comes after
`exit` once nobody holds the pipes; a signal may not be deliverable and then gives
`error`; an abort kills the child and gives `error` at once. `ExecSync` is the whole of
`os_exec_sync`, which blocks the process; `SyncEnds` is how its child may end: by itself, or killed (`Killers`)
because its time was up or its output filled the buffer.

**OsFs.** `layers` is `_filter_layers`, a rule standing for the set of paths it matches;
`metrics` is `_skip_metrics`. `disk` says which paths exist. `pending` holds gateway
calls between their filter check and the OS acting on them. A walk is a stack of
generators; since each waits for the one it delegates to (`yield*`), the stack is
fully described by where the innermost stands (`at`), what the last listing said
(`entries`) and the entries still to be yielded at all levels (`todo`), the deepest
first. `WalkRead` is the OS listing the directory, `WalkListed` the rest of
`os_fs_readdir` after its await with the filter as it is by then, and the walk's
next yield; `WalkResume` the consumer's next request. `stable`, `existed` and `allowed`
are history: which paths existed and were allowed ever since the walk began, and
which existed, or were allowed, at some time since.

**VolumeDiscovery.** `activity_mask` is the mask of the code as a set of bits, computed from
the fields of `vol`: a constructed volume is `present`, an imprint adds `write` and `maintain`.
`sequential`, `staggered` and `random_sample` are the strategies, functions of index, count and
mask as in the code; `Scanned` are the entries that a caller sees who asks again until it is
told -1.

**Runtime.** `options` is what `arg_parse_profile` returns: the profile as the set of its
modifiers, the two sides, the limits, the pace, the gate, and `nested`, which stands for the options that the
returned object carries as its `options` and the gate looks through. A request may bring `options` of its own
(`nested`), which take the place of those, with the gate active in them or not, and name a secret file (`secret`).
`Boot` is the constructor, which throws when the gate refuses; `ModifyArgs` is `modify_args`, with the merge (`Merged`) before
the parse and the guard before any assignment. `SecretOf` is the secret a pin is checked with: the request's, or that of
the call before, or the default file. A pin is a secret and the number of the 30 second step it was made for, and
`ReadPin` is somebody reading one from the command line tool; secrets are files, so a pin
outlives the process. `Record`, `Decay` and `GraphInit` are the calls on the graph, `Maintenance` is
`ctx_run_time_maintenance`. Time masks are of three kinds: never, a span since `created_ts`, or a
date. A bucket is hot or cold; a negative or decayed amount may leave it either.

**Session.** A header is the time stamp in its bytes, or `Garbage` without the magic. `view` is
where the header of a context lies: in a buffer `Own` to it, or in a slot of Node's buffer pool (`pool`, the slots in
the order they were handed out), which is what `fs.readFile` returns for a small file. `session_header_validate` reads offset 0 of
the buffer below the view (line 60), `session_checkpoint` writes through the view: `Start` and
`HeaderBytes`. `from` and `given` are history: the view a session was given at its start and the bytes in it. `Construct`, `session_init`, `session_validate`, `session_checkpoint`, `SwitchBack` and
`SwitchNew` are the methods of `LibCdSession`. External: `Save` (the application writes the header),
`PoolUsed` (somebody else reads a file) and `Crash`, which may cut a save short.

**HostAudit.** `known_hosts` and `history` are the two maps of `_os_metadata_registry`, `known_ids` and
`active_ids` the keys of the two registries of volumes. `os_metadata_check_environment` is one action, the
function does not await. `new Set(known_volume_ids)` of a Map has fresh `[id, record]` pairs, which
are never found: an audit looks at the active ids only. What the pairs add to the history nobody
reads, and it is left out. `BecomeKey` renames the host or changes the user,
`Restart` ends the process: the registry is not persisted. `trail` is history, of what one registry was asked
and answered; it keeps of the first event only whether it was strict.

**Blake3.** `update` and `finalize` are the exported functions. A loop of the code is a function of
how many turns it has made (`turn`), and `TakeChunk`, `TakeBlock` and `Merge` are what one turn does;
a turn past the end changes nothing. `compress` is a free constructor, a record of
its arguments, so two digests are equal only if the whole trees are. `Subtree`, `Roots` and
`Digest` are the reference, written from the definition of the hash and used by properties only.

## 4 Runs, bounds and fairness

| Run | Configuration | Checks | Instance |
|---|---|---|---|
| `scheduler` | `DiskScheduler.cfg` | `BusExclusive`, `AccountingExact`, `FifoPerBus`, `EndsOnlyWhenDrained`, `ImplementsPool`, `HealthyTasksDispatched`, `GeneratorEnds` | three HDD tasks, two of one bus, and two SSD tasks on that bus; two slots; two requests outstanding; one task that may never release |
| `imut_log` | `ImutLog.cfg` | `NothingLostWhileLive`, `BoundedExposure`, `ManifestExact`, `DrainIsBarrier`, `ImplementsAppendLog`, `DrainFlushes` | threshold 3 (64 in the code), 7 posts, 2 drains, worker may die, process may exit |
| `imut_log_stop` | `ImutLogStop.cfg` | `StopFlushes` is violated | 2 posts below the threshold |
| `operation` | `Operation.cfg` | `RetryBudget`, `ImplementsOutcome`, `Terminates`, `HouseKeepingRecovers` | a pipeline of two steps, house keeping, a step without post check, an empty pipeline; retries 1, 2, default, 1 |
| `volume` | `Volume.cfg` | `RegistriesAgree`, `BusyExact`, `DiscoveryHonest`, `ImprintEffective` | a volatile and a fixed volume, an imprint of each, a mount, one hardware id beside the made-up ones; scans of 1, 4 and 9 entries with stride 4 |
| `volume_two_imprints` | `VolumeTwoImprints.cfg` | `BusyWhileWriting` is violated | two imprints of one volume |
| `os_executor` | `OsExecutor.cfg` | `VerdictHonest`, `AuditTrail`, `NothingOutstanding`, `ZeroExplained`, `TimeoutAnswers` | two calls with a timeout on one signal, one that rejects and one that does not, and a synchronous call |
| `os_fs` | `OsFs.cfg` | `MetricsAgree`, `WalkExact`, `WalkEnds` | a directory with a directory with a file, and one the OS does not list, with a file; two rules that overlap; a walk, one other call, two changes |
| `parts` | `Parts.cfg` | of the runtime `ExpiredGraphFresh`, `GateHolds`; of sessions `TypeOK`, `HeaderHonest`, `RestoredIsSaved`, `Isolated`; of the audit `ChangesExact`, `AlertsExact`; of the hasher `IncrementalExact`, `StackExact` | runtime: nine requests: sides named by profile and by option, alone and in contradiction, the gate asked for and taken back in each of the two ways, options of its own in which the gate is active or not, another secret; a mask of each kind; two secrets; three steps of the clock; restarts. Sessions: two contexts, a pool of two slots, three times, a crash at any moment. Audit: two hosts, two users of one of them, two volumes, three audits or registrations between resets. Hasher: blocks of 2 bytes, chunks of 6, inputs up to 55 bytes in pieces of any size, the empty one included |
| `opposites` | `RuntimeOpposites.cfg` | `OppositesResolved` is violated | the four profiles that name one modifier of one side |
| `session_restore` | `SessionRestore.cfg` | `RestoreEnsured` is violated | as in `parts` |
| `known_volumes` | `KnownVolumes.cfg` | `KnownCompared` is violated | as in `parts`, with a history of the hosts under which a volume was known |

The largest run has about 580,000 distinct states (`parts`); each ends within two minutes or so. In `parts` the
modules that were not chosen stay in their initial state: a product of modules that share nothing would multiply
states and show nothing more. Its `VIEW` leaves what stays the same out of the fingerprints.

What the properties say is written above each in its module. In short:

- *Scheduler.* No two HDD tasks on one bus; the count is the number of workers out
  and a bus is marked exactly while an HDD worker holds it; skipping a blocked task
  reorders only across buses; the generator returns only when nothing is queued or
  out; a stuck worker costs its own slot and bus and nothing else; a consumer's loop ends.
- *Log.* While the worker lives, log, queue and channel together are all the posts in
  order; with nothing on its way fewer than a batch is at stake; the manifest's count is
  exact; a drain leaves all that was posted before it in the log, and does so in time.
- *Operation.* Each step is called at most `max_retries + 1` times and given up after
  exactly that many; steps are committed in order; pipelines end; house keeping in its
  backoff succeeds if the fault is repaired for good.
- *Volume.* Active and imprinted ids are known, a key is registered once; a volume is
  busy exactly while an imprint writes it; an imprint that reports success leaves its
  volume accepted, whatever was cleared, mounted or constructed meanwhile. A scan of a busy volume
  is told that it is over; of an idle one the sequential scan sees every entry, whatever imprints and
  self checks came before.
- *Executor.* Success means exit code 0, in time, not killed by the library; the trail
  starts with RUN, then says what the caller was told, and ends with DONE; no timer outlives
  its call and an aborted call does not wait for a running child; a timeout answers. Code 0
  comes from a child that ended with it, or from a synchronous run that started none (section 6).
- *Filesystem.* The counts of skips agree; a walk yields nothing twice, nothing before
  its directory and nothing that was all along missing or excluded; a walk that
  ended yielded all that was there to see all along, readable on the way; walks end.
- *Runtime.* A gated runtime stays gated, whatever a call says that does not bring options of its own without the gate; and
  a call after which the gate is active needed a pin of a step next to the current one, of the default secret
  if neither it nor the call before named another. A compacted graph shows nothing
  from before its last maintenance.
- *Session.* A header that starts its buffer carries the last checkpoint and validates as
  that; a session that is given a complete header at the start of a buffer resumes it; only a context's own steps
  alter what its validation tells. A header further inside the pool carries the checkpoints made since it was
  restored. That it is resumed too is what the source says (`RestoreEnsured`), and not so.
- *Host audit.* A volume is reported exactly when the host name differs from that of the audit
  before in which it was mounted; a host and user are reported once, at their first audit. That volumes known and not
  mounted are compared too is what the source says (`KnownCompared`), and not so. All of it is about one registry:
  nothing is kept across a restart, and nothing is claimed across one.
- *Blake3.* A digest is that of the hash tree over all bytes so far, in whatever pieces they came; the stack
  holds one complete subtree per binary digit 1 of the number of closed chunks.

**Why the bounds are enough.** Each instance has the smallest number of actors with
which its hazards happen, and one more kind than that where kinds matter: two tasks on a bus
and one that is skipped in front of another; one slot less than the buses and types would allow;
more than two batches of posts and two drains; a step after a step that was
retried; a call that settled before an abort reached another. A walk needs two levels and
a sibling (so that an inner generator ends and an outer goes on), and two changes (exclude
and allow again, delete and create again). Scans are tried at one entry, at the stride and
at more than twice the stride. A runtime needs pins older than the window, so a clock that gets two steps
past a pin, a span that ends before the clock does, and a pin of another secret. A session needs a header that is not the
first in the pool, and a second context whose header is. An audit trail of three tells a move
back from no move. An input of ten chunks has a tree of four levels with every count of merges up to three, and
a last chunk of every length. Named bounds are `MaxPending`, `MaxPosts`,
`MaxDrains`, `MaxCalls`, `MaxChanges`, `MaxStep`, `MaxNow`, `MaxEvents` and `MaxLen`; what is proved
(section 5) is proved for every value of them. The configurations set `CHECK_DEADLOCK FALSE` where a system may
really stop: the log's process exits, commands are all over, and the filesystem has no calls left.

**Fairness.** It says only that timers fire, promises settle, threads and the OS handle
what reached them, and that consumers of a generator keep asking; nobody is obliged
to push a task, post, drain, stop or mount.

- Scheduler: `WF(Resume)` (timers of the loop), `WF(CallNext)` (`for await`), and
  `WF(Release(t))` for workers that are not stuck. `GeneratorEnds` assumes that no worker stays
  out for ever: with one the loop waits, as it should.
- Log: `WF(Handle)`, `WF(ManifestHook)`: both event loops turn while their threads live.
- Operation: weak fairness of each pipeline's own turn. A step that never settles is
  excluded here; the code has no timeout for it (section 6).
- Executor: timers fire, and a child in `Obedient` ends after SIGTERM and closes its
  pipes. No child is obliged to end by itself. `TimeoutAnswers` is about those only.
- Filesystem: `WF(WalkStep(w))`: the OS answers a listing and the consumer goes on.
- Runtime, session, host audit and hasher have no fairness: their code is synchronous calls, and
  nothing in it promises that a caller makes the next one.

## 5 Proofs

Every theorem below is about the specification of its module (`Spec`, or `AuditSpec`, `RuntimeSpec`,
`HasherSpec`, named apart because one module of proofs covers several modules), for every value of the constants
that satisfies the modules' assumptions (`SchedulerAssumption`, `ImutLogAssumption`,
`OperationAssumption`, `VolumeAssumption`, `OsExecutorAssumption`, `OsFsAssumption`,
`RuntimeAssumption`, `SessionAssumption`, `HostAuditAssumption`, `DiscoveryAssumption`, `Blake3Assumption`).
Those say of what kind the constants are; some say more. `FLUSH_THRESHOLD` is
positive. `Tasks` is finite, so that workers can be counted; there is no bound on them.
`OsFsAssumption` says that paths form a finite tree (`Parent`, and `Ancestors` and `Depth`
that fit it; parents are directories). `SessionAssumption` says that the pool has a slot and that the values that stand for
no header, no file and a header's own buffer are none of the stamps and slots. `Blake3Assumption` says that a chunk is a whole number of blocks.

| Module | Theorem | Property |
|---|---|---|
| `DiskSchedulerProofs` | `TypeCorrect`, `BusExclusion`, `SlotsAndFlagsExact`, `FifoKept`, `EndsDrained`, `SchedulerImplementsPool` | `TypeOK`, `BusExclusive`, `AccountingExact`, `FifoPerBus`, `EndsOnlyWhenDrained`, `ImplementsPool` |
| `ImutLogProofs` | `TypeCorrect`, `LogIsAPrefix`, `NothingLost`, `ExposureBounded`, `ManifestCounts`, `DrainBarrier`, `ImutLogImplementsAppendLog` | `TypeOK`, `LogIsPrefix`, `NothingLostWhileLive`, `BoundedExposure`, `ManifestExact`, `DrainIsBarrier`, `ImplementsAppendLog` |
| `OperationProofs` | `TypeCorrect`, `RetryBudgetKept`, `OperationImplementsOutcome` | `TypeOK`, `RetryBudget`, `ImplementsOutcome` |
| `OperationProofs`, of `Runtime` | `RuntimeTypeCorrect`, `ExpiredFresh`, `GateKeeps` | `RuntimeTypeOK`, `ExpiredGraphFresh`, `GateHolds` |
| `VolumeProofs` | `TypeCorrect`, `RegistriesStayAgreed`, `NoMaskLeftBehind`, `BusyThroughout`, `BusyExactly`, `ImprintTakesEffect` | `TypeOK`, `RegistriesAgree`, `NotBusyWhenIdle`, `BusyWhileWriting`, `BusyExact`, `ImprintEffective` |
| `VolumeProofs`, of `VolumeDiscovery` | `DiscoveryIsHonest` | `DiscoveryHonest` |
| `VolumeProofs`, of `HostAudit` | `ReportsAreExact`, `AlertsAreExact` | `ChangesExact`, `AlertsExact` |
| `OsExecutorProofs` | `TypeCorrect`, `VerdictsAreHonest`, `TrailsAreComplete`, `ZeroIsExplained`, `NothingIsLeftOver` | `TypeOK`, `VerdictHonest`, `AuditTrail`, `ZeroExplained`, `NothingOutstanding` |
| `OsFsProofs` | `TypeCorrect`, `CountsAgree`, `WalksAreSound`, `WalksAreComplete`, `WalksAreExact` | `TypeOK`, `MetricsAgree`, `WalkSound`, `WalkComplete`, `WalkExact` |
| `SessionProofs` | `TypeCorrect`, `HeadersAreHonest`, `RestoresAreExact`, `ContextsAreIsolated` | `TypeOK`, `HeaderHonest`, `RestoredIsSaved`, `Isolated` |
| `Blake3Proofs` | `HasherInduction`, `DigestIsOfTheWhole`, `StackIsExact` | `HasherInv`, `IncrementalExact`, `StackExact` |

Each rests on an inductive invariant of its module (`IInv` or the one named below), which TLC finds no
counterexample to on the instances of section 4. What it adds to the properties, and why:

- *Scheduler.* A sleeping generator owes an answer (so that yielding keeps
  `pending_next` in its range); the queue has no task twice, and what is queued was
  submitted and is in no worker's hands. Without the last, dispatching a task would not
  make one worker more, and the count would not be that of the workers out.
  Exclusion follows from the exactness of the flags, not from the guard alone: it is
  `BusFlagExact` that makes a clear flag mean an idle bus. For the refinement,
  a lemma says what removing one element of a sequence leaves. `FifoKept` rests on `OrderInv`: the queue keeps
  the order of the pushes, and what was pushed is queued or was yielded and not both. So the first eligible task that
  `findIndex` meets has none of its lane before it that is still to come.
- *Log.* Entries in log and queue are `1, 2, ...` in order, and the channel continues them:
  message by message, an entry's number is one more than that of what is before it
  and a drain's is equal to it, up to `posted`. That the log is a prefix of the posts also holds when the worker is dead. The converse,
  `ChannelComplete`, is what `NothingLost` adds: while the worker lives, each post it has not taken is in the
  channel. Filtering the channel for entries then gives the numbers from `received + 1` to `posted`, each once and in order:
  one lemma says that their positions grow, and a growing sequence onto an interval is the interval.
  `ManifestCounts` needs what a fold over a sequence adds up to (`TotalAppend`, `TotalTail`).
- *Operation.* In its body or backoff a pipeline has completed exactly the steps before
  the current one, the calls of the current step are `attempt` or `attempt + 1` by
  program counter, those of later steps are none. The reset of `attempt` is what ties
  the two together: without it the budget of a later step would be what the earlier ones left.
- *Volume.* Registered keys are unique and known; a maintain or write mask is set only
  on a volume with an imprint in flight, and an imprint in flight has an instance that
  exists and counts as imprinted, so that no constructor takes that from it.
  `BusyThroughout` adds that an imprint in flight holds its volume's write mask. That is
  an invariant, and with it `BusyExactly` a theorem, only if no two imprint calls are of one volume, an assumption of these
  two theorems (`OneImprintPerVolume`) and of no other; the run
  `volume_two_imprints` shows that it is needed. `maintain` alone would not do: a self check
  clears it in mid-write. `DiscoveryIsHonest` inherits the assumption: a mask says busy exactly while an
  imprint writes. What an idle scan visits is then a matter of its strategy, by induction over the entries, or
  over the multiples of the stride.
- *Host audit.* `AuditInv` is the two properties with the types. An audit is told apart from those before it
  by its place in the trail, so it leaves what was said of them (`AuditsUntouched`), and the last audit
  in which a volume was mounted is the one whose host its history ends with. The history has an entry for the first
  audit of a volume and one for each at which it had changed, which is a matter of cardinalities (`VolumeHistory`).
- *Executor.* `CallInv`, of one call: which entries its trail may have for each state of
  promise and child, a timer is armed only for a promise that is pending, a call that
  settled as a success has a closed child with code 0. Steps of one call leave
  the others alone; an abort is a step of all.
- *Filesystem.* `WalkInv`, of one walk: whatever it met has been reached through directories that it
  yielded (`Tree`); where it stands it has not met the children (`Stand`), which is why nothing is
  yielded twice; and everything it owes is ahead of it (`Covered`): on the way to each
  path that was visible all along there is an entry waiting, or just listed, or a directory it is
  about to list. Changes by others keep it because `stable` only shrinks and `existed` and
  `allowed` only grow.
- *Runtime.* The gate is active exactly when the options nested inside the options say so (`Remembered`). The merge
  keeps them unless a request brings its own, and the parser puts them back, so the gate is active again after
  such a change; without it, a "-gate" with a valid pin would lift the gate. Of a request that brings its own the
  theorem demands what holds of every change: where the gate is active afterwards there was a valid pin.
  `ExpiredGraphFresh` needs that masks expire for good: the clock grows, `created_ts` does not.
- *Session.* No two contexts view one slot of the pool (`Distinct`), and what is true of one context
  (`Good`: its slot was handed out and holds a stamp, its last one unless the view is inside the pool and was
  never stamped, and what it was given at the start of a buffer is what it resumed) is told by its session, its buffer and the
  pool. A start touches one context and at most adds a slot; a checkpoint writes one slot that is no other's view.
  A session that starts again with the buffer it has is given its last checkpoint: that is why the header must carry it.
- *Blake3.* `HasherInv`: chunk and stack are a function, `HasherAfter`, of how many bytes came in. That is what makes
  the pieces irrelevant, and it holds because each turn of the inner loop (`TakeBlockExact`), of the outer one (`TakeChunkExact`) and
  of the merges (`MergeExact`) takes the state for some bytes to the state for more of them. A full chunk that is not closed
  yet is the state for exactly so many bytes, and closing it when more follow is what keeps the function one.
  `RootsDouble` and `RootsOdd` tie the merges to the binary digits of the number of chunks, `FoldExact` ties the fold of
  `finalize` to the tree: the largest power of two below a number is its highest digit, or half of it if it has no other.
  Nodes of the tree that are complete stay what they are as the input grows (`ChunkNodeStable`, `SubtreeStable`, `RootsStable`).

Three things recur. The library's induction theorems take an operator as a parameter, which the provers cannot
instantiate; `SetInduction` says the same of a set of numbers and is proved from the least element of a set. A function that
is defined by recursion satisfies its defining equation only if such a function exists; `Recursion` in `Blake3Proofs` proves that
once for every definition that looks at smaller arguments only, and each of the hasher's loops cites it. And the folds of
the community modules get what they are used for proved on the spot, from their definitions.

Type invariants of modules with proofs are theorems and, but for `Session`'s, not repeated in the runs. TLC
finds no counterexample to them either.

**Only model-checked.** Every invariant and every safety property of a step that a run checks is also a theorem.
The liveness properties are not (`HealthyTasksDispatched`, `GeneratorEnds`, `DrainFlushes`, `Terminates`,
`HouseKeepingRecovers`, `TimeoutAnswers`, `WalkEnds`): liveness under fairness and whatever involves `ENABLED` are out of
this prover's reach, so they are known for the instances of section 4 only. The five runs that expect a violation
prove nothing and need not.

## 6 Findings and observations

Five runs show the code disagree with what its documentation says.

1. `imut_log_stop`: `drain()` says it is to be called from the lifecycle's abort and
   stop; neither calls it. Entries below the threshold are lost at the end of the process.
2. `volume_two_imprints`: the first of two imprints of one volume to end clears the masks
   that the second still needs; the volume is not busy while it is written.
3. `opposites`: `arg/libcd_arg.mjs:119` says that "-bg" puts the foreground on and "-fg" the background.
   `modify_args` parses over options in which both sides are set already, and the side
   that is not named keeps what it had: a runtime of the default profile told "-bg" has both off.
4. `session_restore`: `session/libcd_session.mjs:17` and `:77-78` say that a session restores the header it is given. The
   validation reads offset 0 of the buffer below its view (`:60`). Of a view further inside Node's pool a
   good header is discarded if the pool starts with other bytes, or resumed with another's time stamp if it
   starts with a header.
5. `known_volumes`: `os/libcd__os_metadata.mjs:8` and `:144` say that all known and active volumes are compared. The known ids
   are a Map, and `new Set` of it (`:148`) has pairs that nothing finds again: a volume that is known and not mounted is
   never compared. The history grows by a pair per known volume and audit, which nothing reads.

Seen while modelling, without a run of their own. Where a document says otherwise it is named.

- The scheduler serialises tasks of type `'HDD'`; volumes are of type `'hdd'`
  (`hardware/libcd_disk_scheduler.0.mjs:17`, `storage/libcd_volume.mjs:160`). Tasks typed as their
  volumes are share a bus.
- A second `release()` of one task frees what another worker holds.
- The post-operation self check throws outside the try (`internal/op/libcd_operation.mjs:86`): a
  pipeline all of whose steps succeeded rejects, with no retry, although `src/README.md:121` rules such
  throws out. A pipeline's step has no timeout: one that never settles holds its pipeline for ever.
- A synchronous command that could not be started has a null status, which reads as exit code 0
  (`os/libcd_os_executor.mjs:149`); `win_is_administrator` takes it for a yes. The
  asynchronous one reports 1. `ZeroExplained` allows exactly this case.
- After an abort, a command's DONE entry may say that it did not fail although its caller was
  rejected. After an error the timer is cleared, so a child that ignores SIGTERM is
  never signalled again. The EPIPE of a child that ends before it read its input has no listener.
- Any self check clears the maintain bit of a volume that an imprint is writing
  (`internal/self_check/libcd_assert_vol_id.mjs:39`); only the write bit keeps it busy.
- Mounting an imprinted disk again overwrites what is known of its id with
  `imprinted: false` (`storage/libcd_volume.mjs:347`). A volume counts as imprinted before it is
  written (`:286`), and still does if the pipeline fails.
- The id made up from the size of the registry (`:235`) may be that of a volume
  that is still active, and evict it. Imprinting or registering an instance under a new id leaves
  the old key (`:289`).
- The staggered discovery ends after its first stride (`:178`), and every strategy answers
  -1, "complete", for a volume that is merely busy (`:169`).
- `os_fs_readdir` answers an empty listing for a directory it could not read, so a walk
  cannot be told from a complete one; `WalkComplete` excludes such directories.
  `os_fs_write_file` does not ask the filter again after it awaited the parent directory.
- The self check of buffers reads `ctx.buffer`; contexts have `ctx.buffers`
  (`internal/self_check/libcd_self_check.mjs:39`).
- Options that a call brings of its own (`options.options`) take the place of those in which the gate was remembered
  (`runtime/libcd_LibChangeDescent.0.mjs:24`), so the gate is lifted without a pin although
  `runtime/libcd_gate.mjs:125` says that the guard throws without one; a call that brings none cannot lift it, not even with a valid
  pin. A secret file that a call names is remembered for the next call only.
- `nolimits` given as false switches the limits on again, in a profile both "+nolimits" and "-nolimits" switch them
  off (`arg/libcd_arg.mjs:156`).
- `arg_parse_profile` returns the caller's options as `options.options`; `ctx_create` looks for
  `header_buffer` and the like one level higher and does not find what the constructor was given.
- `created_ts` is never renewed (`internal/ctx/libcd_ctx.mjs:135`): once a time mask has run out, every
  maintenance wipes the graph.
- `context_switch` to a context that exists ignores the header it is given.
- The registry of hosts is never persisted, so the first host after each start is trusted.
- Two mounts of one disk that overlap construct two instances of it; the registry keeps the later one
  (`hardware/libcd_controller.mjs:22`).
- Nothing calls the blake3 hasher yet.

## 7 What is not modelled, and the plan

Order of the plan: first what runs concurrently and what others depend on
(scheduler, log, pipelines, volumes, executor, gateway), then state that outlives
a process (runtime and gate, session headers, host audit), then algorithms (discovery, blake3). All of
it is done, as are the proofs of section 5, of every safety property that a run checks. What could follow:

1. The safety half of the liveness properties: for each a measure that every helpful step lowers and no other step
   raises (a pipeline's remaining calls, a walk's remaining entries, what a drain still has before it). Each is an action property and
   can be proved; only the step from there to termination needs fairness.
2. A promise in the abstract for the executor, the gateway's walk and the session headers, with their
   modules shown to implement it, as the scheduler, the log and the pipelines are.
3. Access masks and volume histories, once something in the repository reads them.
4. The disk worker and the node buffer, once the scan that would use them is written.

Within the modelled components these are left out:

- pipelines and lifecycle: how long pauses last; the background and foreground switches, which only
  set `ctx.profile`;
- volumes: acl, read and speed masks, histories: set, and read by nothing;
- executor: the tokenizer of command strings, output collection and stdin;
- runtime and context: `ctx_buffer` for buffers other than the graph and the header, the wording of flags;
- gate: the secret file, taken as there and readable, and the comparison of the bundle's SHA-256 with a stored one;
- arguments: the tokenizer of command lines, the byte comparisons and the modifiers nothing depends on;
- change graph: amounts (a bucket is hot or cold), SVG and bitmap;
- host metadata: load metrics, runtime detection, and the inspection of a volume, which only reads;
- blake3: the words and rounds of `compress` and the hex form of a digest.

Not modelled at all:

- *Node buffer and string heap*: getters and setters over one byte layout, which only a scan would
  fill, and the scan is a TODO. Its self check is in the list of section 6.
- *Disk worker*: four commands that set two flags; the loop that would read them is a TODO.
- *Descent hash*: its claims are about the rounding of float64, which neither TLC nor TLAPS has.
- *OS journal helper*: the JavaScript side throws "not implemented", nothing reads its stream.
- *Windows isolation*: sequences of `netsh` commands, whose state is the firewall; the scripts for
  other systems are stubs.
- *Storage io, database drivers, virtual file system, stubs*: empty.
- *Signals, stamps and timing*: a byte nobody reads, and posts, which `ImutLog` has.
- *Diagnostics and metrics* (formatting), *release constants* (data), *maintainer tools* (scripts run
  by hand), *tests*, which were read for what they expect.

## 8 Running it

    tlc -workers 2 -config DiskScheduler.cfg MCDiskScheduler
    tlapm DiskSchedulerProofs.tla

and so for the others; `PROJECT.json` lists the runs with their modules, the mutants, the lines
each definition models, the hazards and the theorems.
