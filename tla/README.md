# Actordock: TLA+ models and proofs

Actordock multiplexes agent sandboxes onto a pool of Workers, one running
sandbox per Worker. This directory holds TLA+ modules that model its control
plane and its Workers, TLC configurations that check small instances of them,
and proofs that hold for every size of the system.

Line numbers refer to the Go source beside this directory
(`src/internal/...`, `src/cmd/...`).

## 1. The system

| component | state it keeps | operations | talks to |
|---|---|---|---|
| scheduler (`internal/scheduler`) | `knockMu`, `goldenMu`, `restoreReserve`, `resumeWaiters` | Create, Resume, Pause, Suspend, EnsureGolden, Delete, Exec | store, Workers (HTTP), policy, signals, metrics |
| control-plane API (`internal/controlplane`) | none | one route per scheduler operation; register Worker; push signals | scheduler, store, signals |
| store (`internal/store`: memory, Redis) | sandbox records, Worker registry, golden prefix | Put, Get, Delete, List, each atomic (Redis: a transaction) | — |
| Worker agent (`internal/workerserver`) | `alive`: the ids that hold its single slot | status, boot, checkpoint, restore, exec, delete, local-snapshot | runtime, snapshot store, activity |
| gVisor runtime (`internal/runtime/gvisor`) | containers, bundles, image directories | Boot, Checkpoint, Restore, Delete, Exec | `runsc` (external) |
| snapshot store (`internal/snapshotstore`) | objects under `<prefix>/`, manifest written last | UploadDir, DownloadDir; per-file codec (sparse + zstd) | S3/rustfs or a directory (external) |
| policies (`internal/policy`) | none (random: a generator) | Place, Resume, RequireBestWaiter | read registry, running set and signals |
| signals (`internal/signals`) | per-sandbox and per-Worker samples with a TTL, GreedyDual clock `L`, priorities `H`, service and wait intervals | ApplyPush, ApplySemantic, RecordCheckpoint, RecordRestore, OnEvict, MarkRunning, MarkSuspended | — |
| resource sampling (`internal/workerresource`) | last activity, in-flight checkpoints, previous CPU counters | MarkActive, SetCheckpointing, pushOnce | control plane |
| worker client (`internal/workerclient`) | none; 3-minute timeout | one method per Worker route | Workers |
| metrics (`internal/metrics`) | `runningAt`, `workerIdle` | MarkRunning, MarkSlotFreed, counters | — |
| processes (`cmd/controlplane`, `cmd/worker`) | — | start, golden warm-up loop, registration loop, wipe of runsc state at start | — |

How a sandbox lives: Create registers it *suspended* without a snapshot. Resume
finds it a Worker (its last one, an idle one, or one freed by suspending a
victim), reserves it, and restores it there from its local directory, its
uploaded snapshot, or the shared *golden* snapshot, which EnsureGolden builds
once by booting a throw-away sandbox. Pause checkpoints to the Worker's disk;
Suspend also uploads. Both free the Worker.

What makes it hard. Requests for different and for the same sandbox run at
once; the decision is taken under `knockMu` but the Restore that follows is not;
slots are probed over HTTP and reservations are read afterwards; Delete takes no
lock. Worker handlers use `context.WithoutCancel` and outlive their callers.
A checkpoint, its upload, the release of the slot and the store's new record are
four steps, and any of them may be the last one that happens. The local
directory of a sandbox survives on every Worker it ever stopped on. The list
`hazards` of `PROJECT.json` gives each of these at its line, with the properties
that watch it.

What makes each component correct:

* **Worker agent**: one holder per slot, whatever handlers interleave.
* **Scheduler**: checkpoints are serialised; reservations do not outlive their
  Restore; every exit path unlocks; every request returns; store, slots,
  containers and snapshots agree up to the request in progress.
* **Snapshots**: what a record names can be restored and is the newest one; a
  partial transfer is never taken for a checkpoint.
* **Policies**: sticky, then idle, then victim; never two sandboxes on a Worker;
  semantic-score: exactly one waiter may knock, and waiting outweighs any score in the end.
* **Signals**: a late push undoes a newer fact for a while only; service and wait
  never count one moment twice; a lock that an agent announced is respected; the
  GreedyDual clock advances (it does not, see `clock_reset`).

## 2. The modules

| module | contents |
|---|---|
| `Worker` | the Workers: slots, containers, image directories, the object store; one operator per critical section of a handler, success and failure apart |
| `Scheduler` | EXTENDS `Worker`: the control plane's request goroutines over the store, the locks and the reservations; the specification, the fairness and the properties |
| `Multiplex` | the abstract specification: phases and homes of sandboxes, `Create`, `Start`, `Stop` |
| `SchedulerRefinement` | the refinement mapping from `Scheduler` to `Multiplex` |
| `MCScheduler` | instances of `Scheduler` for TLC |
| `SchedulerClaims` | statements of docs and comments that the code does not keep |
| `SchedulerProofs` | the theorems about `Scheduler` that hold whatever clients and failures do |
| `OrderlyProofs` | EXTENDS `SchedulerProofs`: those that need orderly clients and lossless calls |
| `MultiplexProofs` | EXTENDS `OrderlyProofs`: `Scheduler` implements `Multiplex` |
| `Policies` | the decisions of the five policies, as sets of possible answers over a view of Workers, running sandboxes and signals |
| `SignalStore` | EXTENDS `Policies`: the signal cache, the pushes and heartbeats that write it, and the scheduler's calls that write or read it, step by step and with time |
| `MCSignalStore` | instances of `SignalStore` for TLC, and the claim about the GreedyDual clock |
| `SignalStoreProofs` | the theorems about `SignalStore` and `Policies` |
| `KeepScore` | keepScore and admitScore of semantic-score, as operators on whole numbers, their bounds, and the edge values at which TLC looks at them |
| `Lobby` | EXTENDS `Policies`, `KeepScore`: resumeWaiters, RequireBestWaiter and the way of a Resume through the lobby, with time and changing signals |
| `MCLobby` | its instance for TLC |
| `LobbyProofs` | the theorems about `KeepScore` and `Lobby` |
| `Codec` | the encoding of one snapshot file: extents of a sparse file, the plain format, both decoders, and what a round trip is |
| `CodecProofs` | both encodings are round trips |
| `Transfer` | EXTENDS `Codec`: UploadDir and DownloadDir file by file over one object prefix |
| `MCTransfer` | its instance for TLC |
| `TransferProofs` | EXTENDS `CodecProofs`: the theorems about `Transfer` |
| `NatLemmas` | what the proofs use about natural numbers: least elements, and `\div` |

How they fit: `Scheduler` is the centre. Each of the others takes one thing that
`Scheduler` leaves open or keeps coarse and looks at it closely: which waiter is next
(`Lobby`), who is evicted and what the signals say (`SignalStore`), what a *torn* or a
*stale* prefix is (`Transfer`).

### State

`alive[w]` is `Server.alive`; `container[w][i]` says which checkpoint the
container of `i` on `w` grew from; `image[w][i]` and `object[k]` are the contents
of a directory and of an object prefix. Contents are tags (*none, empty, partial,
torn, stale, current*), which is what a restore can tell apart: *current* is the
newest completed checkpoint of that sandbox, and a completed checkpoint turns every
other copy *stale*. `taken` is a history variable that decides when the golden
image is stale for a sandbox.

`store[s]` is the `types.Sandbox` record (state, WorkerID, the Worker whose
directory LocalSnapshotPath names, SnapshotSource), `golden` whether PutGolden
was done, `reserve` is `restoreReserve`, `knockMu`/`goldenMu` the owners of
the mutexes. `th[t]` holds the locals of one request: its operation, program
counter, its copy `sb` of the record, the chosen Worker `w`, the sandbox and Worker
`v`, `rw` of the Worker call in progress, the partial probe `left`/`up`/`free` of
healthyWorkers, the Worker `g` that EnsureGolden will boot on, and `gone`: the caller has
given up and only the Worker's handler is left.

### Steps

A step is the code between two points where something else can act: taking a
mutex, one Status probe, a store access, one critical section of a Worker handler.

* Resume: `CallResume` (GetSandbox and its check) → `Lobby` (re-read, wait for the
  turn) → `Knock` (knockMu, re-read; or `StepBack`) → `Probe` per Worker → `Decide`
  (reserves, candidates, policy) → for a victim `Begin`, `Ckpt`, `Upload`, `Save` →
  `Source` (which snapshot; perhaps EnsureGolden; reserve; unlock) → `Restore`
  (claim) → `Load` (download, runsc) → `PutRunning` → `ClearReserve`. Not admitted:
  back to `Lobby`, or `GiveUp` at the deadline.
* Pause, Suspend: `CallStop`, `LockStop`, `Begin`, `Ckpt`, `Upload`, `Save`.
* EnsureGolden: `CallGolden` or from `Source`; `LockGolden`, `Probe`,
  `DecideGolden`, `BootGolden`, `StartGolden`, `Ckpt`, `Upload`, `PutGolden`;
  `UndoGolden` after a failed checkpoint.
* Delete: `CallDelete`, `DeleteOnWorker`, `DeleteFromStore`.
* Failures, each enabled by a member of `Faults`: the call on the Worker fails
  (`boot`, `checkpoint`, `upload`, `download`, `restore`), a probe fails (`status`), a
  Put fails and may have been applied (`put`), a read of the store fails (`read`: the
  request returns its error, except that EnsureGolden takes a failed GetGolden for "no golden
  yet", the lobby keeps the record it has, and a Redis list may miss a record), a caller gives
  up while the handler goes on (`detach`), a Worker restarts (`restart`), the control plane
  restarts over Redis (`crash`).

`Decide` is one step although the code reads the reservations, the sandbox list
and one local-snapshot answer one after another. Reservations are only made under
`knockMu`, which the deciding request holds; others can only clear theirs, so reading
one earlier or later is the difference between deciding before or after that clearing.
The list is only used to pick a victim, whose state is read again in `Begin`.

In `Scheduler` the policy is left open: `Placements` is the set of answers the rules allow (sticky,
then idle, then victim), and `Eligible` lets signals disqualify any idle Worker. Every
policy picks from that set, so what is shown holds for all five.

### Signals and policies

`SignalStore` has what `Scheduler` leaves out: time, signals and the five policies.
`now` counts ticks from 1; 0 is Go's zero time, and a record with `updated = 0` is not
in the map. `rec[s]` is `sandboxRecord`, `clock` is `Store.L`, `pushes` the resource
pushes on their way, `lastActive` and `ckpting` the Worker's `Activity`. Of the scheduler
there are `Calls` API calls at once, each Resume, Pause, Suspend or Delete of any sandbox, two
Resumes of one sandbox included. `call[c]` holds the locals of a call, `knock` is the call that
holds `knockMu`, `view` what it has read so far for its decision, `box[s]` the record of the
store. The golden snapshot, timeouts and the contents of snapshots are not there.

* A push is sampled in `Push` and handled (`Deliver`) or lost (`Lose`) at any later
  moment, in any order.
* `Heartbeat` is the agent (tool loop entered or left) or a driver that sends a task
  profile with neither phase nor lock. It may come between any two steps of a call.
* Resume: `CallResume` → `Lock` (knockMu, re-read) → `Probe` per Worker → `ReadReserves` →
  `ReadRunning` → `Decide` (the signals are read here, and the policy answers) → for a victim
  `Evict` (OnEvict), `Fetch` (its record), `Checkpoint` (the call reaches the Worker),
  `Dumped` or `DumpFails`, `Save`, `MarkSuspended` → `Restored` → `PutRunning` → `MarkRunning`.
  What `Decide` is given was read at four moments; `StickyOnly` is the candidate set of
  resumeCandidates that holds one Worker only.
* Pause and Suspend are `CallStop` and then the steps of an eviction from `Fetch` on; Delete,
  without a lock, is `CallDelete`, `Kill`, `Drop`.
* The time stamp of MarkRunning and of MarkSuspended is taken before PutSandbox and the
  call comes after it: between `PutRunning` and `MarkRunning` anything may happen, up to
  `MaxLag` ticks later. RecordRestore or RecordCheckpoint and the PutSandbox that follows
  are one step: only signals and records change, and nobody reads one and then the other
  in a way that tells the order.

GreedyDual priorities are whole numbers: `Second` is a second in a unit that every
footprint in `Mem` divides. The footprint of a sandbox is constant, the least loaded idle
Worker and the lowest keepScore are any (keepScore is in `Lobby`), SEMANTIC_OVERRIDE is off,
and the per-Worker rows of the cache, which only order idle Workers, are left out.

### The lobby of semantic-score

`age[s]` counts ticks of `TickSec` seconds since `s` joined `resumeWaiters`; `NotListed`
means it is not there. A Resume goes `CallResume` → `Turn` (the poll of awaitKnockerTurn that
finds it the best) or `LobbyTimeout` or `HangUp` → `Knock` (knockMu, ranks again) → `Admitted`,
`Overtaken` or `NoVictimYet` (the decision, which ranks a third time) → `Evicted` or
`EvictFails` → `Restored` or `RestoreFails`. Before each of them `Tick`, `SignalsChange` and
the steps of other Resumes may come. Scores are those of the code with the default weights,
in thousandths; logarithms are in the input (`H` is what log1p gives). A Resume stays listed
until it returns, hence also during its Restore.

### Files of a checkpoint

In `Codec` a file is a sequence of blocks, each a hole, written zeros or data.
`Extents` is the SEEK_DATA/SEEK_HOLE loop; the decoders give a file again. In `Transfer`
a directory maps file names to such files, `blob` is what is stored under `<prefix>/`,
`manifest` the list in `manifest.json`. An upload is `Checkpoint`, one `PutFile` per file in
any order, `PutManifest`; a download is `BeginDownload`, `GetFile`s, `Downloaded`; each Put and
Get may fail, a failed Put may have been done. `saved`, `tried` and `down.clean` are history:
what the last successful upload read, what failed ones read since, and whether a download ran
without an upload beside it and without a body cut short. UploadOutcomes is the link to
`Worker`: it states for files what `UploadDir` and `UploadDirFails` there do to the tags.

## 3. What TLC checks

All passing runs check deadlock too.

| run | instance | shows |
|---|---|---|
| `chaos` | 1 sandbox, 1 Worker, 2 overlapping requests, every operation, ten of the eleven faults (not `checkpoint`), signals; 2,100,501 states | `TypeOK`, `SlotExclusive`, `ReservationOwned`, `QuiescentClean`, `EvictionSerialised`, `GoldenFirst` |
| `faulty` | 2 sandboxes, 2 Workers, no overlap, no Delete; `checkpoint`, `upload` and `restore` fail; 2,151,600 states | `RunningHoldsSlot`, `OccupantRecorded`, `SnapshotKept`, `PathFollowsWorker`, `GoldenUsable`, `ImplementsMultiplex` |
| `live` | 2 sandboxes, 1 Worker, every operation, no faults, fairness; 53,286 states | `RequestsReturn`, `RunningHasContainer`, `RunningHoldsSlot`, `OccupantRecorded` |
| `late_push` | signals of 1 sandbox on 1 Worker, 2 calls at once, Pause, Suspend and Delete, 1 push under way, marks up to 1 tick late, 2 ticks, fairness; 1,019,483 states | `TypeOK` of `SignalStore`, `NoTickCountedTwice`, `BusyClears` |
| `tool_loop` | signals of 2 sandboxes on 1 Worker under semantic-score, 2 Resumes at once, heartbeats of one agent, marks up to 1 tick late, TTL 2, 4 ticks; 1,478,523 states | `ToolLoopNotEvicted` |
| `lobby` | 3 sandboxes, 1 Worker, 4 signal records, ticks of 120 s, SEMANTIC_WAIT_SEC 300, signals change once, fairness; 95,280 states | `TypeOK` of `Lobby`, `OneKnocker`, `ScoreBounded`, `NotOvertaken`, `ResumesReturn` |
| `transfer` | 2 Workers, 2 file names, 2 contents, 2 checkpoints over an empty prefix or one in the plain format; 458,830 states | `ManifestComplete`, `CodecRoundTrip`, `DownloadFaithful`, `UploadOutcomes` |

Bounds. Two requests are the least that race; three would only add a third
holder of nothing, since each conflict in the code is between two requests (one with
`knockMu`, one past it). One Worker for two sandboxes forces eviction, two Workers
allow migration and stale directories. One golden id suffices: a second golden boot
happens only when the first id is gone from every Worker, because `BootGolden` draws an
id that is in no slot and no container. Threads, sandboxes, Workers and golden ids are
symmetric in `chaos` and `faulty` (ImplementsMultiplex is a safety property: its mapping
treats them alike); `live` and `lobby`, which check liveness, use no symmetry. `chaos` identifies
states that differ only in the directory of a golden sandbox no call is about (`WithoutGoldenDirs`):
the next boot of that id is followed by a checkpoint, which clears the directory, and no
property reads it.

A record of the signal cache is written by calls about its own sandbox and by pushes of its
own Worker, so one sandbox is enough for what `late_push` asks; two calls are the least in which
a late mark meets another call's. One push under way is enough because a second one that arrives
earlier is overwritten. Two values of the clock hold one interval, and a stamp that is a tick old;
no record is old enough there to be purged, which `tool_loop` and the theorem `TicksCountOnce` have.

`tool_loop` has the least that evicts under overlap: two sandboxes for one Worker, of which
the one that runs is in its tool loop, and two Resumes, so that one may be between its Put and its mark
while the other decides. Four ticks are a heartbeat, a TTL and the tick that exceeds it. It has no
resource pushes: `busy` only takes sandboxes away from the victims of semantic-score. The view
`WithoutAccounts` drops what no step of this instance depends on (activity, service and wait,
the time of a Put: they matter to pushes, to other policies' victims and to keepScore, which is
open here) and what the property does not read; the two calls are symmetric. `MaxClock` stops evictions
once the GreedyDual clock has reached it, which is after at least one eviction. The other four policies
run in `clock_reset` (resource-evict) and in the proofs, which hold for each of them.

Three sandboxes and one Worker make a lobby with a holder and two waiters, or three waiters:
the least in which a newcomer may overtake. The bound of `NotOvertaken` is MaxKeep / WQ = 4
minutes; with ticks of two minutes and a deadline of five (the code's default) waiters of age
3 and 0 compete, where it bites. The four signal records have the lowest score, the highest, a
score from a task profile, and none; `ScoreBounded` also goes through all 46,656
combinations of values at which a term of the score changes its course. One change of signals
is enough to turn the order of two waiters between any two of their steps.

Two file names let a checkpoint have more, fewer or other files than the one before it; the
two contents are those whose extents are not the whole file. `CodecRoundTrip` goes through
every file of at most four blocks, which has two extents with holes before, between and after
them. Two checkpoints and the one of `Init` make two overwrites.

What the properties need. The first group (`SlotExclusive`,
`EvictionSerialised`, `ReservationOwned`, `QuiescentClean`, `GoldenFirst`) holds
whatever clients and failures do (`EvictionSerialised` with the exception of section 5). The second (`RunningHoldsSlot`,
`OccupantRecorded`, `SnapshotKept`, `PathFollowsWorker`, `GoldenUsable`,
`ImplementsMultiplex`) needs clients that do not overlap requests for one sandbox and
replies that are not lost; the claims below show what happens otherwise.
`RunningHasContainer` also needs uploads to succeed: a failed upload leaves a sandbox
that is recorded running, holds its slot and has no container.

Fairness (`live`). A goroutine that is not waiting for a mutex runs on (weak fairness of
`Unblocked`). A waiter for a mutex that is freed again and again gets it (strong
fairness of `Acquire`): after a millisecond of waiting a Go mutex goes into starvation
mode and is handed to its longest waiter. A Resume that comes back to the lobby again and
again finally meets its deadline (strong fairness of `GiveUp`). Clients and faults are
under no fairness.

Fairness (`late_push`). The pusher's ticker never stops (weak fairness of `Push`), and pushes may
be lost, but not all of them (strong fairness of `DeliverFrom`). Nothing else needs to be fair: a
sandbox that a checkpoint freezes for ever is not falsely busy.

Fairness (`lobby`). A Resume's polls and calls go on (weak fairness of `Step`), a waiter for
knockMu gets it in the end (strong fairness of `Knock`, as above), and time passes (weak
fairness of `Tick`). That signals change finitely often is the bound `MaxSignals`: if they could
change for ever, a Resume could be overtaken between each two of its rankings until its
deadline, which is only looked at by a waiter that is not the best.

### Claims the code does not keep

Each of these runs states what a line of the repository says (in `SchedulerClaims`; the
last one in `MCSignalStore`) and TLC shows a behaviour in which it fails; `findings` in `PROJECT.json` quotes the line.

| run | claim | what happens |
|---|---|---|
| `stale_restore` | a sandbox put on another Worker is downloaded | that Worker hosted it before and restores its old directory |
| `twice_resumed` | a running sandbox occupies one Worker | two Resumes of it restore it on two |
| `lost_reply` | a suspended sandbox occupies no Worker | a Restore that outlives its caller keeps the slot |
| `lost_checkpoint` | suspended victims stay portable | upload fails, then a second Suspend clears the only copy |
| `clock_reset` | OnEvict advances the GreedyDual clock | a heartbeat re-creates a purged record with priority 0; its eviction sets the clock to 0 |

## 4. What is proved

Every safety property of the passing runs is also a theorem. The runs show it on a small
instance, the theorem for every value of the constants that satisfies the named assumptions
(`IdsAssumption`, `SchedulerAssumption`, `TransferAssumption`, `LobbyAssumption`,
`SignalAssumption`: types of the parameters, and ids of different kinds differ).

### Scheduler, whatever clients and failures do (`SchedulerProofs`)

For any Workers, sandboxes, goroutines, any set of faults and overlapping clients:
`TypeCorrect`, `SlotSafe`, `EvictionSafe`, `ReservationSafe`, `CleanWhenQuiet`,
`GoldenBeforeAll` state `Spec => []P` for `TypeOK`, `SlotExclusive`,
`EvictionSerialised`, `ReservationOwned`, `QuiescentClean`, `GoldenFirst`.

The argument is one inductive invariant,
`IInv == WorkerOK /\ StoreOK /\ RequestsOK /\ Fresh`:

* `WorkerOK`: types and `SlotExclusive`; the Worker's own lemmas (one per handler
  step) carry it, and need nothing of the scheduler.
* `StoreOK`: types of store and locks, and that a running or paused record names a
  Worker (needed because a checkpoint call is sent there).
* `RequestsOK`: for each request, which program counters may hold which lock, and
  what its locals are there: the call in progress has a sandbox and a Worker, a request
  past its decision owns its reservation or none, a request whose caller is gone owns no
  lock. This makes mutual exclusion and the ownership of reservations inductive.
* `Fresh`: while no golden prefix is recorded, every record and every copy of a record
  held by a request is still "no snapshot, never ran", and no request is checkpointing a
  sandbox or past `Source`. `GoldenFirst` is not inductive without the copies: a request
  could write an old copy back. Besides, a golden snapshot that is already recorded is built
  again only if reads of the store may fail.

`EvictionSerialised` rests on `Fresh`: EnsureGolden called without `knockMu` would
evict without the lock, but while there is no golden snapshot there is no running sandbox.
When reads may fail the snapshot may exist; that one case is excepted in the
statement of the property, and the theorem covers all others.

### Scheduler, with orderly clients (`OrderlyProofs`)

`Orderly` says that no two clients' requests for one sandbox overlap and that no reply is lost:
none of the faults `put`, `read`, `detach`, `restart`, `crash`. Boots, checkpoints, uploads,
downloads, restores and probes may fail at will; requests for different sandboxes, evictions
of a sandbox that has a request of its own, and Delete run at once. Such a hypothesis is
needed: the runs `twice_resumed` (an overlap) and `lost_reply` (`detach`) show what happens
without it. Under `Orderly`, `RunningKeepsSlot`, `OccupantIsRecorded`, `SnapshotIsKept`, `PathIsOwn`,
`GoldenIsUsable` prove `RunningHoldsSlot`, `OccupantRecorded`, `SnapshotKept`,
`PathFollowsWorker`, `GoldenUsable`; `RunningIsContained` proves `RunningHasContainer`
if, besides, uploads do not fail.

The inductive invariant `OInv` adds to `IInv`:

* `Records`: a record's path is on its own Worker, and its source fits its state;
* `RequestOrderly`: a Resume's copy of the record *is* the record until its Put (`CopyOK`; this
  is what an overlapping request would break), and what the Worker call in progress has left
  behind at each program counter (`CallOK`): a request that uploads has the newest image on its
  Worker, one that saves has the newest checkpoint where the new record will say it is;
* `Occupancy`: `OccupantRecorded`, with the calls that concern sandboxes and those that concern
  golden sandboxes told apart.

`SnapshotKept` is not inductive without `CallOK` at `save`: Put makes the record name a
checkpoint, and only the program counter knows that it was completed.

TLC checked `OInv` first, on three instances (92,321, 8,892,360 and 26,090 states).

### Refinement (`MultiplexProofs`)

`SchedulerImplementsMultiplex`: with orderly clients and without Delete, `Scheduler`
implements `Multiplex` under the mapping of `SchedulerRefinement`. A sandbox stops, as clients
see it, when its Worker's slot is released, one step before the record says so; hence `PhaseOf`
looks at a request at `save`. The proof goes action by action: `Create`
maps to Create, `PutRunning` to Start, the step to `save` to Stop, and every other step
leaves phases and homes alone. It uses `OInv` and `NeverDeleted` (whoever is checkpointed
is still recorded running). Delete is excluded because Multiplex has no such transition.

### Snapshot files (`CodecProofs`, `TransferProofs`)

`SparseRoundTrip` and `PlainRoundTrip`: for every set of blocks and every finite sequence of
them, with holes anywhere, what is stored decodes to the same bytes and length. `Extents` is a
recursive function; the library's induction theorems cannot be instantiated here, so
the proof looks at the *last* offset at which the loop could list the wrong extents
(`LeastNat` for the distance to the end) and derives a contradiction from the loop's body.

`ManifestIsComplete`, `CodecIsRoundTrip`, `DownloadIsFaithful`, `UploadHasOutcomes` are the
properties of `Transfer`, from `TInv` (TLC: 458,830 states): each stored object is the encoding
of a file of some checkpoint, the manifest lists only files of the last saved checkpoint or of
one tried since, and the upload in progress has stored what it no longer has to do while the
prefix still holds old or new content file by file. The last part is needed for the outcomes
of an upload that fails midway.

### Scores and the lobby (`LobbyProofs`)

`EverySignalBounded`: keepScore is within 0 and MaxKeep for every record of signals, values out
of range included. From it follow `ScoresBounded` and, for any number of sandboxes and
Workers, `NobodyOvertaken`: the age term alone outweighs every keepScore after MaxKeep / WQ
minutes. `ExactlyOneKnocker` shows that the ranking, ties broken by creation time, has exactly
one best among any finite set of waiters. The invariant is `LInv`: types, and a Resume is listed
exactly while it is under way.

### Signals and policies (`SignalStoreProofs`)

For any sandboxes, Workers, calls at once, policies, pushes under way, TTL, delays and memory sizes:
`SignalTypeCorrect`, `TicksCountOnce` and `ToolLoopIsProtected` prove `TypeOK`,
`NoTickCountedTwice` and `ToolLoopNotEvicted`. The inductive invariant is
`SInv == CacheOK /\ MachinesOK /\ CallsOK`:

* `CacheOK`: no stamp is ahead of the time; a record counts service or wait and not both, and what
  it has counted up to now fits into the ticks so far (`AccountOK`); a heartbeat of the tool loop
  can be read from the record for a TTL, less the age of a late mark (`LoopOK`).
* `MachinesOK`: a record that says running names a Worker.
* `CallsOK`: each call knows the sandbox and the Worker its next steps are about, and the stamp it
  will mark with is at most `MaxLag` old (`KnowsOK`); whoever reads for a decision or checkpoints
  holds `knockMu` (`Holds`), so that one decision at a time is under way and what it saw is its own.

`NoTickCountedTwice` needs no order of the marks: MarkRunning and MarkSuspended each close the
interval that is open, at a stamp which is not ahead of the time, and what they count is at most what
had been counted by now. So it survives two Resumes of one sandbox, whose marks the
signals cannot tell apart. (Attained service may then be negative for a while.)

`ToolLoopNotEvicted` is about the gap between what a decision reads and what it does. Under
`LoopOK` the answer of `Decide` is no sandbox that had announced its tool loop
(`UnlockedHasNotSaid`); from there to the end of the checkpoint nothing rereads the signals, and
the invariant carries the fact with the call. It says nothing about an agent that enters its loop
after the read: that one is evicted, in the code as in the model.

Each policy is unfolded once (`VictimsRun`, `PolicyAnswers`): its answer is an idle Worker, or a
running sandbox on its Worker. TLC checked `SInv` on the instances of `late_push` and `tool_loop`.

### Only model-checked

Liveness, which this prover does not do: `RequestsReturn`, `BusyClears`, `ResumesReturn`. The
claims of section 3 are refuted, not proved. That the answers of `Policies` are among the
scheduler's `Placements` is an argument on paper (section 2).

## 5. Observations, abstractions, and what is not modelled

Seen while modelling, and not the subject of a run:

* A failed read in GetGolden is taken for "no golden yet" (`scheduler.go:217`): EnsureGolden
  builds the golden snapshot again although its comment (`scheduler.go:215`) says once, and
  from POST /v1/golden it then evicts running sandboxes without `knockMu`, which suspendLocked's
  callers must hold. `EvictionSerialised` names this case as its only exception.
* A download that fails midway leaves files, and handleRestore counts files only
  (`workerserver/server.go:225`): the next Restore there takes them for a checkpoint.
* A body that is cut within the first bytes becomes an empty file, and a plain stream that ends
  early is taken as complete (`codec.go:118`); Get compares no length. `DownloadFaithful` holds
  for downloads without such a body (`down.clean`).
* An admitted Resume stays in `resumeWaiters` while its Restore runs, so that others with a
  lower score wait for it although a Worker may be free.
* The deadline of the lobby is looked at by waiters that are not the best, and by a best one
  that finds no victim; the default is 300 s in the code and 120 s in `semantic-score.md`, section 8.
* A second Resume of one sandbox shares the first one's entry in `resumeWaiters`; when the first
  returns, the second lists itself again with age 0. `Lobby` has one Resume per sandbox.
* A Delete that comes between a checkpoint and its PutSandbox is undone by that Put.
* A Resume can be admitted to a Worker that another Restore occupies: it probed before that
  Restore claimed the slot and read the reservations after that Resume had cleared its own.
  The Worker answers 409 and the Resume fails; `SlotExclusive` holds.
* While a sandbox is paused `attainedServiceSec` keeps growing, because Pause does not call
  MarkSuspended; after a MarkRunning that was overtaken by an eviction it grows while the
  sandbox is suspended. `NoTickCountedTwice` says only that no moment is counted twice.
* Overlapping Resumes of one sandbox mark it running twice, the second time perhaps with the older
  stamp: an interval may then end before it began, and attained service fall below zero until the next.
* Between the read of the signals (`scheduler.go:362`) and the checkpoint the victim's agent may
  enter its tool loop; it is evicted all the same. A Worker that is freed after its probe does not spare
  the victim either.
* A late mark may remove a heartbeat early: MarkRunning sets UpdatedAt back to its stamp
  (`signals/store.go:140`), so the record may be purged up to a Put's duration before its TTL.
* The metrics `runningAt` and `workerIdle` may be wrong: `metrics.MarkRunning` (`scheduler.go:507`)
  comes after the Put with an older stamp, so that it may follow the MarkSlotFreed of a later Suspend or
  a whole later Resume, and Delete's MarkSlotFreed (`scheduler.go:649`) takes no lock. Nothing reads
  them back and nothing claims otherwise, so they are not modelled.

Abstractions to know:

* The Worker registry is constant: no code removes a Worker, and what healthyWorkers writes back
  is what it has just probed.
* A Redis list is read in one step; the code reads the members one by one. The list
  is only used to pick a victim, see above.
* `runsc restore` refuses a partial image and does not refuse a stale one.
* Time is left out of `Scheduler`: timeouts and deadlines may happen at any moment.
* The order of waiters is open in `Scheduler`; `Lobby` has it, with records, snapshots and
  failures reduced to what the ranking needs: `slot` stands for the Worker's slot and its
  reservation together, and a Suspend is one step.
* `Transfer` has one upload and one download at a time, and a Put replaces an object at once, as
  S3 does. Two uploads to the golden prefix can overlap (a timed-out one, and the one of the next
  EnsureGolden); `Scheduler` has that at the grain of whole prefixes.
* The orphaned handler of a timed-out golden checkpoint takes the place of an idle goroutine while
  EnsureGolden goes on to Delete (`Detach`), so that it needs one: two requests are enough.
* A Worker that restarts leaves the checkpoint, download or upload it was serving cut short at any
  place (`DirLeft`, `ObjectsLeft`).
* `SignalStore` has no timeouts, no restarts and no failing store, and its golden snapshot exists
  (`Scheduler` has all of these); a checkpoint whose upload fails is `DumpFails` before the release.
* KeepScore's divisions are rounded down to thousandths.

Not modelled:

* Exec, Get, List and the GET routes: they change nothing (what Exec does to signals is in
  `SignalStore`).
* Registration of Workers and health write-backs; per-Worker load in the signals cache.
* Metrics (write-only), logs, flags, signal handling, template and bundle files.
* cgroup files: CPU utilisation is in no policy's score, and the code starts again when a
  counter is lower than before.
* `snapshotstore/fs.go`: only tests use it.
* Demos, evaluation scripts, the e2e harness: clients of the system.

## 6. Plan

Done: the Worker, the scheduler and its abstract specification, the signal cache and the five
policies, the lobby with its scores, the files of a checkpoint and their encoding, failed reads of
the store; proofs of every safety property that the runs check, and of the
refinement. Next, in this order:

1. Each answer of `Policies` is one of the scheduler's `Placements`, for all views.
2. `RunningHoldsSlot` and `OccupantRecorded` with failed reads of the store, which `Orderly`
   excludes as a whole.
3. The refinement with Delete, for a `Multiplex` that has such a transition.
