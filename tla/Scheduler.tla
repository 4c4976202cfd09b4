----------------------------- MODULE Scheduler -----------------------------
(***************************************************************************)
(* The control plane's Scheduler (internal/scheduler) over its store       *)
(* (internal/store), composed with the Workers it calls.  One thread is    *)
(* one HTTP request being served: its steps are the code between two       *)
(* points where another goroutine or another process can act (mutexes,     *)
(* store accesses, Worker calls).                                          *)
(*                                                                         *)
(* Decisions keep the policies' rules (sticky, then an idle Worker, then a *)
(* victim) and leave the policy's preference among equals open, so every   *)
(* policy of internal/policy is an implementation of Placements.           *)
(***************************************************************************)
EXTENDS Worker

CONSTANTS
    Threads,        \* request goroutines of the control plane
    Ops,            \* which operations clients call
    Overlap,        \* may two requests of clients name the same sandbox at once?
    Signals         \* are resource/semantic signals available to the policy?

OpKinds == {"resume", "pause", "suspend", "delete", "golden"}

ASSUME SchedulerAssumption ==
    /\ Ops \subseteq OpKinds
    /\ Overlap \in BOOLEAN
    /\ Signals \in BOOLEAN
    /\ None \notin Threads

VARIABLES
    store,          \* store[s]: the sandbox record, NoSandbox if there is none
    created,        \* history: the uuids handed out
    golden,         \* has PutGolden recorded the golden prefix?
    knockMu,        \* owner of Scheduler.knockMu
    goldenMu,       \* owner of Scheduler.goldenMu
    reserve,        \* Scheduler.restoreReserve, None for no entry
    th              \* th[t]: locals of the request that goroutine t serves

schedulerVars == <<store, created, golden, knockMu, goldenMu, reserve, th>>
vars == <<workerVars, schedulerVars>>

-----------------------------------------------------------------------------
(* Records                                                                 *)

States == {"absent", "suspended", "running", "paused"}
Sources == {"none", "local", "external"}
OrNone(S) == S \cup {None}

\* types.Sandbox.  `path' is the Worker whose directory LocalSnapshotPath names;
\* ObjectKey is ObjectKeyFor(id) exactly when it is used, that is when
\* source = "external".
SandboxRecords == [state: States, worker: OrNone(Workers), path: OrNone(Workers), source: Sources]

NoSandbox == [state |-> "absent", worker |-> None, path |-> None, source |-> "none"]

Pcs == {"idle",
        "lobby", "knock", "probe", "source", "restore", "load", "put", "clear",
        "lock", "begin", "ckpt", "upload", "save",
        "glock", "gprobe", "gboot", "gstart", "gundo", "gput",
        "dkill", "dremove"}

\* id, sb: the request's sandbox and its copy of the record.  w: the Worker that
\* the decision chose.  v, rw: sandbox and Worker of the Worker call in progress.
\* left, up, free: the probe of healthyWorkers.  g: the Worker that EnsureGolden
\* will boot on.  gone: the caller of the Worker call has given up; only the
\* Worker's handler is still running.
Requests ==
    [op: OpKinds \cup {"none"}, pc: Pcs, id: OrNone(Sandboxes), sb: SandboxRecords,
     w: OrNone(Workers), v: OrNone(Ids), rw: OrNone(Workers),
     left: SUBSET Workers, up: SUBSET Workers, free: SUBSET Workers,
     g: OrNone(Workers), gone: BOOLEAN]

NoRequest ==
    [op |-> "none", pc |-> "idle", id |-> None, sb |-> NoSandbox,
     w |-> None, v |-> None, rw |-> None,
     left |-> {}, up |-> {}, free |-> {}, g |-> None, gone |-> FALSE]

SchedulerTypeOK ==
    /\ store \in [Sandboxes -> SandboxRecords]
    /\ created \in SUBSET Sandboxes
    /\ golden \in BOOLEAN
    /\ knockMu \in OrNone(Threads)
    /\ goldenMu \in OrNone(Threads)
    /\ reserve \in [Workers -> OrNone(Sandboxes)]
    /\ th \in [Threads -> Requests]

\* Every variable holds a value of the type its Go counterpart can hold.
TypeOK == WorkerTypeOK /\ SchedulerTypeOK

Init ==
    /\ WorkerInit
    /\ store = [s \in Sandboxes |-> NoSandbox]
    /\ created = {}
    /\ golden = FALSE
    /\ knockMu = None
    /\ goldenMu = None
    /\ reserve = [w \in Workers |-> None]
    /\ th = [t \in Threads |-> NoRequest]

-----------------------------------------------------------------------------
(* How a request ends, well or badly: the deferred Unlocks run, and a      *)
(* Resume past its decision clears its reservation.                        *)

RestorePcs == {"restore", "load", "put", "clear"}

NeverUnlocked(mu, t) == mu
UnlockedBy(mu, t) == IF mu = t THEN None ELSE mu

ClearedReserveBy(t) == [reserve EXCEPT ![th[t].rw] = IF @ = th[t].id THEN None ELSE @]

ReserveKept(t) == reserve
ReserveWithout(t) == IF th[t].pc \in RestorePcs THEN ClearedReserveBy(t) ELSE reserve

\* The request of t becomes r; t holds nothing any more.
Leave(t, r) ==
    /\ th' = [th EXCEPT ![t] = r]
    /\ knockMu' = UnlockedBy(knockMu, t)
    /\ goldenMu' = UnlockedBy(goldenMu, t)
    /\ reserve' = ReserveWithout(t)

Return(t) == Leave(t, NoRequest)

\* t goes on at pc, keeping its locks.
Goto(t, pc) ==
    /\ th' = [th EXCEPT ![t].pc = pc]
    /\ UNCHANGED <<knockMu, goldenMu, reserve>>

\* A Worker call of t succeeded: t goes on at pc if its caller still waits.
Reply(t, pc) == IF th[t].gone THEN Return(t) ELSE Goto(t, pc)

\* A Worker call of t failed.  EnsureGolden deletes the golden sandbox whose
\* checkpoint failed; everyone else returns the error.
CallFails(t) ==
    IF th[t].v \in Goldens /\ th[t].pc \in {"ckpt", "upload"} /\ ~th[t].gone
    THEN Goto(t, "gundo")
    ELSE Return(t)

-----------------------------------------------------------------------------
(* Reads of the store.  With "read" a Get or a List may fail: most callers *)
(* return the error, and each of the others is an alternative below.       *)

ReadFails == "read" \in Faults

Running == {s \in Sandboxes : store[s].state = "running"}

\* running: ListSandboxes skips the records it cannot read.
Listed == IF ReadFails THEN SUBSET Running ELSE {Running}

\* The record again; a failed read or a deleted sandbox leaves the old copy.
Reread(t) ==
    (IF store[th[t].id].state = "absent" THEN {} ELSE {store[th[t].id]})
        \cup (IF store[th[t].id].state = "absent" \/ ReadFails THEN {th[t].sb} ELSE {})

-----------------------------------------------------------------------------
(* Create: a fresh uuid, registered suspended, or an error.                *)

Create ==
    /\ \E s \in Sandboxes \ created :
          /\ created' = created \cup {s}
          /\ \/ store' = [store EXCEPT ![s] = [NoSandbox EXCEPT !.state = "suspended"]]
             \/ "put" \in Faults /\ UNCHANGED store
    /\ UNCHANGED <<workerVars, golden, knockMu, goldenMu, reserve, th>>

\* A client sends operation op for sandbox s to an idle goroutine.
Calls(t, op, s) ==
    /\ op \in Ops
    /\ th[t].pc = "idle"
    /\ Overlap \/ s = None \/ \A u \in Threads : th[u].id # s
    /\ UNCHANGED <<workerVars, store, created, golden, knockMu, goldenMu, reserve>>

Started(op, pc, s) == [NoRequest EXCEPT !.op = op, !.pc = pc, !.id = s]

-----------------------------------------------------------------------------
(* Resume                                                                  *)

\* GetSandbox and the check of its state; a wrong state is an error and changes
\* nothing.
CallResume(t, s) ==
    /\ Calls(t, "resume", s)
    /\ store[s].state \in {"suspended", "paused"}
    /\ th' = [th EXCEPT ![t] = [Started("resume", "lobby", s) EXCEPT !.sb = store[s]]]

\* The head of Resume's loop, entered at first and after each sleep: read the
\* record and wait for this sandbox's turn to knock (at once, unless the policy is
\* semantic-score) ...
Lobby(t) ==
    /\ th[t].pc = "lobby"
    /\ \E sb \in Reread(t) : th' = [th EXCEPT ![t].pc = "knock", ![t].sb = sb]
    /\ UNCHANGED <<workerVars, store, created, golden, knockMu, goldenMu, reserve>>

GiveUpContinues(t) ==
    /\ th[t].pc = "lobby"
    /\ Goto(t, "lobby")
    /\ UNCHANGED <<workerVars, store, created, golden>>

\* ... or give up at the deadline, or when the client hangs up.
GiveUp(t) ==
    /\ th[t].pc = "lobby"
    /\ Return(t)
    /\ UNCHANGED <<workerVars, store, created, golden>>

\* knockMu.Lock, and the record once more.
Knock(t) ==
    /\ th[t].pc = "knock"
    /\ knockMu = None
    /\ knockMu' = t
    /\ \E sb \in Reread(t) :
          th' = [th EXCEPT ![t].pc = "probe", ![t].sb = sb, ![t].left = Workers]
    /\ UNCHANGED <<workerVars, store, created, golden, goldenMu, reserve>>

\* ensureKnockerTurn under knockMu: a better waiter has come, unlock and sleep.
StepBack(t) ==
    /\ Signals
    /\ th[t].pc = "knock"
    /\ knockMu = None
    /\ \E sb \in Reread(t) : th' = [th EXCEPT ![t].pc = "lobby", ![t].sb = sb]
    /\ UNCHANGED <<workerVars, store, created, golden, knockMu, goldenMu, reserve>>

\* healthyWorkers: one Status call per registered Worker; one that fails, or a row
\* of the registry that cannot be read, drops the Worker from the view.
Probe(t) ==
    /\ th[t].pc \in {"probe", "gprobe"}
    /\ \E w \in th[t].left :
          \/ th' = [th EXCEPT ![t].left = @ \ {w}, ![t].up = @ \cup {w},
                              ![t].free = IF HasFreeSlot(w) THEN @ \cup {w} ELSE @]
          \/ /\ "status" \in Faults \/ ReadFails
             /\ th' = [th EXCEPT ![t].left = @ \ {w}]
    /\ UNCHANGED <<workerVars, store, created, golden, knockMu, goldenMu, reserve>>

\* applyRestoreReserves: Workers held by another sandbox's Restore count as full.
WithoutReserves(id, ws) == {w \in ws : reserve[w] \in {None, id}}

\* resumeCandidates: [workers, free, running] as the policy will see them.  A failed
\* LocalSnapshotExists call counts as "no".
Everywhere(up, free, running) == [workers |-> up, free |-> up \cap free, running |-> running]

\* filterRunningOn
Only(w, free, running) ==
    [workers |-> {w}, free |-> {w} \cap free, running |-> {s \in running : store[s].worker = w}]

StickyLocal(sb, id, free) ==
    /\ sb.source # "none"
    /\ sb.worker \in free
    /\ LocalSnapshotExists(sb.worker, id, sb.path)

ResumeCandidates(sb, id, up, free, running) ==
    IF sb.state = "paused" THEN {Only(sb.worker, free, running)}
    ELSE IF ~StickyLocal(sb, id, free) THEN {Everywhere(up, free, running)}
    ELSE {Only(sb.worker, free, running)} \cup
            (IF "status" \in Faults THEN {Everywhere(up, free, running)} ELSE {})

\* policy.Place and policy.Resume: keep the last Worker if it is idle, else any
\* idle Worker, else evict a victim and take its Worker; {} is the error
\* "no capacity and nothing to suspend".  Signals may disqualify any idle Worker
\* (unhealthy, hosting a checkpoint).
Placements(home, free, running) ==
    IF home \in free THEN {[worker |-> home, victim |-> None]}
    ELSE IF free # {} THEN {[worker |-> w, victim |-> None] : w \in free}
    ELSE {[worker |-> store[s].worker, victim |-> s] : s \in running}

Eligible(free) == IF Signals THEN SUBSET free ELSE {free}

\* The retryable errors: nothing to suspend; with signals also "all candidates
\* locked" and "busy (checkpoint)"; random gives up when it sees no Worker.
MayWait(view, free, home) ==
    \/ Placements(home, free, view.running) = {}
    \/ free = {} /\ (Signals \/ view.workers = {})

\* The decision under knockMu: restore reservations, candidates, policy.  Not
\* admitted: sleep and start over.
Decide(t) ==
    LET r    == th[t]
        free == WithoutReserves(r.id, r.free)
        seen == [r EXCEPT !.up = {}, !.free = {}]
    IN
    /\ r.pc = "probe"
    /\ r.left = {}
    /\ UNCHANGED <<workerVars, store, created, golden>>
    /\ \/ /\ ReadFails \/ (r.sb.state = "paused" /\ r.sb.worker \notin r.up)
          /\ Return(t)
       \/ /\ r.sb.state = "paused" => r.sb.worker \in r.up
          /\ \E running \in Listed :
             \E view \in ResumeCandidates(r.sb, r.id, r.up, free, running) :
             \E ok \in Eligible(view.free) :
                \/ \E p \in Placements(r.sb.worker, ok, view.running) :
                      /\ th' = [th EXCEPT ![t] =
                                  [seen EXCEPT !.w = p.worker, !.v = p.victim,
                                     !.pc = IF p.victim = None THEN "source" ELSE "begin"]]
                      /\ UNCHANGED <<knockMu, goldenMu, reserve>>
                \/ /\ MayWait(view, ok, r.sb.worker)
                   /\ Leave(t, [seen EXCEPT !.pc = "lobby"])

\* Which snapshot to restore from.
LocalOnly(sb) == sb.state = "paused" \/ sb.source = "local"
NeedGolden(sb) == ~LocalOnly(sb) /\ sb.source = "none"

RestorePathKept(r) == IF r.sb.path # None THEN r.sb.path ELSE r.rw

RestorePath(r) ==
    IF r.sb.path # None /\ (LocalOnly(r.sb) \/ (r.sb.source = "external" /\ r.rw = r.sb.worker))
    THEN r.sb.path ELSE r.rw

RestoreKey(r) ==
    IF LocalOnly(r.sb) THEN None
    ELSE IF NeedGolden(r.sb) THEN GoldenPrefix ELSE r.v

\* reserveRestore, and the deferred Unlocks.
Admit(t) ==
    /\ reserve' = [reserve EXCEPT ![th[t].w] = th[t].id]
    /\ knockMu' = UnlockedBy(knockMu, t)
    /\ goldenMu' = UnlockedBy(goldenMu, t)
    /\ th' = [th EXCEPT ![t].pc = "restore", ![t].v = th[t].id,
                        ![t].rw = th[t].w, ![t].w = None, ![t].g = None]

SourceUnchecked(t) ==
    /\ th[t].pc = "source"
    /\ Admit(t)
    /\ UNCHANGED <<workerVars, store, created, golden>>

\* GetWorker, then pick the snapshot: EnsureGolden when none is recorded, or when
\* reading the golden prefix fails.
Source(t) ==
    /\ th[t].pc = "source"
    /\ \/ ReadFails /\ Return(t)
       \/ NeedGolden(th[t].sb) /\ (~golden \/ ReadFails) /\ Goto(t, "glock")
       \/ (NeedGolden(th[t].sb) => golden) /\ Admit(t)
    /\ UNCHANGED <<workerVars, store, created, golden>>

RestoreWhenBusy(t) ==
    /\ th[t].pc = "restore"
    /\ alive' = [alive EXCEPT ![th[t].rw] = @ \cup {th[t].v}]
    /\ Goto(t, "load")
    /\ UNCHANGED <<container, image, object, taken, store, created, golden>>

\* The Worker's handleRestore: claim (or 409 "worker busy", or no connection) ...
Restore(t) ==
    LET r == th[t] IN
    /\ r.pc = "restore"
    /\ \/ Claim(r.rw, r.v) /\ Goto(t, "load")
       \/ /\ ~CanClaim(r.rw, r.v) \/ "restore" \in Faults
          /\ Return(t)
          /\ UNCHANGED workerVars
    /\ UNCHANGED <<store, created, golden>>

\* ... then download if needed and run.
Load(t) ==
    LET r == th[t] IN
    /\ r.pc = "load"
    /\ \/ RtRestore(r.rw, r.v, RestorePath(r), RestoreKey(r)) /\ Reply(t, "put")
       \/ RestoreFails(r.rw, r.v, RestorePath(r), RestoreKey(r), r.gone) /\ Return(t)
    /\ UNCHANGED <<store, created, golden>>

\* PutSandbox of the copy read under knockMu, now running.  A failed Put may or
\* may not have been applied.
PutRunning(t) ==
    LET r   == th[t]
        put == [store EXCEPT ![r.id] = [state |-> "running", worker |-> r.rw,
                                        path |-> RestorePath(r), source |-> r.sb.source]]
    IN
    /\ r.pc = "put"
    /\ \/ store' = put /\ Goto(t, "clear")
       \/ "put" \in Faults /\ store' \in {store, put} /\ Return(t)
    /\ UNCHANGED <<workerVars, created, golden>>

ClearReserve(t) ==
    /\ th[t].pc = "clear"
    /\ Return(t)
    /\ UNCHANGED <<workerVars, store, created, golden>>

-----------------------------------------------------------------------------
(* Pause, Suspend and eviction: pauseOrSuspend                             *)

CallStop(t, s) ==
    \E op \in {"pause", "suspend"} :
       /\ Calls(t, op, s)
       /\ th' = [th EXCEPT ![t] = [Started(op, "lock", s) EXCEPT !.v = s]]

LockStopWithoutLock(t) ==
    /\ th[t].pc = "lock"
    /\ Goto(t, "begin")
    /\ UNCHANGED <<workerVars, store, created, golden>>

LockStop(t) ==
    /\ th[t].pc = "lock"
    /\ knockMu = None
    /\ knockMu' = t
    /\ th' = [th EXCEPT ![t].pc = "begin"]
    /\ UNCHANGED <<workerVars, store, created, golden, goldenMu, reserve>>

\* GetSandbox, its state, and GetWorker.
Begin(t) ==
    /\ th[t].pc = "begin"
    /\ \/ /\ store[th[t].v].state = "running"
          /\ th' = [th EXCEPT ![t].pc = "ckpt", ![t].rw = store[th[t].v].worker]
          /\ UNCHANGED <<knockMu, goldenMu, reserve>>
       \/ /\ store[th[t].v].state # "running" \/ ReadFails
          /\ Return(t)
    /\ UNCHANGED <<workerVars, store, created, golden>>

\* The Worker's handleCheckpoint: Runtime.Checkpoint ...
Ckpt(t) ==
    LET r == th[t] IN
    /\ r.pc = "ckpt"
    /\ \/ RtCheckpoint(r.rw, r.v) /\ Goto(t, "upload")
       \/ RtCheckpointFails(r.rw, r.v) /\ CallFails(t)
    /\ UNCHANGED <<store, created, golden>>

\* ... then the upload unless it is a Pause, and the release of the slot.
ObjectKeyFor(i) == IF i \in Goldens THEN GoldenPrefix ELSE i

UploadNever(t) ==
    /\ th[t].pc = "upload"
    /\ KeepLocal(th[t].rw, th[t].v)
    /\ Reply(t, IF th[t].v \in Goldens THEN "gput" ELSE "save")
    /\ UNCHANGED <<store, created, golden>>

Upload(t) ==
    LET r    == th[t]
        next == IF r.v \in Goldens THEN "gput" ELSE "save"
    IN
    /\ r.pc = "upload"
    /\ IF r.op = "pause"
       THEN KeepLocal(r.rw, r.v) /\ Reply(t, next)
       ELSE \/ UploadDir(r.rw, r.v, ObjectKeyFor(r.v)) /\ Reply(t, next)
            \/ UploadDirFails(r.rw, r.v, ObjectKeyFor(r.v), r.gone) /\ CallFails(t)
    /\ UNCHANGED <<store, created, golden>>

StoppedSandbox(op, w) ==
    [state  |-> IF op = "pause" THEN "paused" ELSE "suspended", worker |-> w, path |-> w,
     source |-> IF op = "pause" THEN "local" ELSE "external"]

SaveForgotten(t) ==
    /\ th[t].pc = "save"
    /\ IF th[t].op \in {"pause", "suspend"} THEN Return(t) ELSE Goto(t, "source")
    /\ UNCHANGED <<workerVars, store, created, golden>>

\* PutSandbox of the copy; the caller of pauseOrSuspend goes on.
Save(t) ==
    LET r    == th[t]
        put  == [store EXCEPT ![r.v] = StoppedSandbox(r.op, r.rw)]
    IN
    /\ r.pc = "save"
    /\ \/ store' = put /\ r.op \in {"pause", "suspend"} /\ Return(t)
       \/ store' = put /\ r.op = "resume" /\ r.g = None /\ Goto(t, "source")
       \/ /\ store' = put /\ r.g # None                      \* EnsureGolden's eviction
          /\ th' = [th EXCEPT ![t].pc = "gboot", ![t].rw = r.g]
          /\ UNCHANGED <<knockMu, goldenMu, reserve>>
       \/ "put" \in Faults /\ store' \in {store, put} /\ Return(t)
    /\ UNCHANGED <<workerVars, created, golden>>

-----------------------------------------------------------------------------
(* EnsureGolden, from POST /v1/golden or from a Resume that holds knockMu  *)

CallGolden(t) ==
    /\ Calls(t, "golden", None)
    /\ ~golden \/ ReadFails
    /\ th' = [th EXCEPT ![t] = Started("golden", "glock", None)]

\* EnsureGolden returned the prefix.
GoldenDone(t) == IF th[t].op = "golden" THEN Return(t) ELSE Admit(t)

\* goldenMu.Lock and GetGolden again: its error, like none recorded, builds one.
LockGolden(t) ==
    /\ th[t].pc = "glock"
    /\ goldenMu = None
    /\ \/ golden /\ GoldenDone(t)
       \/ /\ ~golden \/ ReadFails
          /\ goldenMu' = t
          /\ th' = [th EXCEPT ![t].pc = "gprobe", ![t].left = Workers]
          /\ UNCHANGED <<knockMu, reserve>>
    /\ UNCHANGED <<workerVars, store, created, golden>>

\* policy.Place for the golden sandbox: no reservations, no last Worker.  The
\* error "nothing to suspend" makes a Resume retry.
DecideGolden(t) ==
    LET r    == th[t]
        seen == [r EXCEPT !.up = {}, !.free = {}]
    IN
    /\ r.pc = "gprobe"
    /\ r.left = {}
    /\ \/ ReadFails /\ Return(t)
       \/ \E running \in Listed : \E ok \in Eligible(r.free) :
             \/ \E p \in Placements(None, ok, running) :
                   /\ th' = [th EXCEPT ![t] =
                               [seen EXCEPT !.g = p.worker, !.rw = p.worker, !.v = p.victim,
                                  !.pc = IF p.victim = None THEN "gboot" ELSE "begin"]]
                   /\ UNCHANGED <<knockMu, goldenMu, reserve>>
             \/ /\ MayWait(Everywhere(r.up, r.free, running), ok, None)
                /\ IF r.op = "resume" THEN Leave(t, [seen EXCEPT !.pc = "lobby", !.w = None])
                   ELSE Return(t)
    /\ UNCHANGED <<workerVars, store, created, golden>>

\* GetWorker, then Boot of a fresh golden-<uuid>: the Worker's claim (or 409) ...
BootGolden(t) ==
    LET w == th[t].rw IN
    /\ th[t].pc = "gboot"
    /\ \/ \E g \in Goldens :
             /\ \A x \in Workers : g \notin alive[x] /\ container[x][g] = "none"
             /\ \A u \in Threads : th[u].v # g
             /\ Claim(w, g)
             /\ th' = [th EXCEPT ![t].pc = "gstart", ![t].v = g]
             /\ UNCHANGED <<knockMu, goldenMu, reserve>>
       \/ /\ alive[w] # {} \/ "boot" \in Faults \/ ReadFails
          /\ Return(t)
          /\ UNCHANGED workerVars
    /\ UNCHANGED <<store, created, golden>>

\* ... then runsc; the error is returned.
StartGolden(t) ==
    LET r == th[t] IN
    /\ r.pc = "gstart"
    /\ \/ RtBoot(r.rw, r.v) /\ Reply(t, "ckpt")
       \/ RtBootFails(r.rw, r.v) /\ Return(t)
    /\ UNCHANGED <<store, created, golden>>

UndoGoldenNot(t) ==
    /\ th[t].pc = "gundo"
    /\ Return(t)
    /\ UNCHANGED <<workerVars, store, created, golden>>

\* The checkpoint failed: Delete on the Worker, which may fail too, silently.
UndoGolden(t) ==
    /\ th[t].pc = "gundo"
    /\ \/ HandleDelete(th[t].rw, th[t].v)
       \/ "detach" \in Faults /\ UNCHANGED workerVars
    /\ Return(t)
    /\ UNCHANGED <<store, created, golden>>

PutGolden(t) ==
    /\ th[t].pc = "gput"
    /\ \/ golden' = TRUE /\ GoldenDone(t)
       \/ "put" \in Faults /\ golden' \in {golden, TRUE} /\ Return(t)
    /\ UNCHANGED <<workerVars, store, created>>

-----------------------------------------------------------------------------
(* Delete takes no lock                                                    *)

CallDelete(t, s) ==
    /\ Calls(t, "delete", s)
    /\ store[s].state # "absent"
    /\ th' = [th EXCEPT ![t] =
                IF store[s].state = "running"
                THEN [Started("delete", "dkill", s) EXCEPT !.v = s, !.rw = store[s].worker]
                ELSE [Started("delete", "dremove", s) EXCEPT !.v = s]]

DeleteOnWorkerSkipped(t) ==
    /\ th[t].pc = "dkill"
    /\ Goto(t, "dremove")
    /\ UNCHANGED <<workerVars, store, created, golden>>

\* GetWorker and the Worker's Delete; an error of either is ignored.
DeleteOnWorker(t) ==
    /\ th[t].pc = "dkill"
    /\ \/ HandleDelete(th[t].rw, th[t].v)
       \/ ("detach" \in Faults \/ ReadFails) /\ UNCHANGED workerVars
    /\ Goto(t, "dremove")
    /\ UNCHANGED <<store, created, golden>>

DeleteFromStore(t) ==
    LET removed == [store EXCEPT ![th[t].v] = NoSandbox] IN
    /\ th[t].pc = "dremove"
    /\ store' \in (IF "put" \in Faults THEN {store, removed} ELSE {removed})
    /\ Return(t)
    /\ UNCHANGED <<workerVars, created, golden>>

-----------------------------------------------------------------------------
(* Failures                                                                *)

CallPcs == {"restore", "load", "ckpt", "upload", "gboot", "gstart"}

\* What is left of a request whose caller hung up: the Worker's handler.
Orphan(r) == [r EXCEPT !.gone = TRUE, !.id = None, !.w = None, !.g = None]

\* A Worker call times out or its context is cancelled: the request fails, the
\* handler goes on (the runtime uses context.WithoutCancel).  A golden sandbox
\* whose checkpoint call failed is deleted if the request's context still lives,
\* while the handler, in the place of an idle goroutine, goes on.
Detach(t) ==
    /\ "detach" \in Faults
    /\ th[t].pc \in CallPcs
    /\ ~th[t].gone
    /\ \/ Leave(t, Orphan(th[t]))
       \/ /\ th[t].v \in Goldens
          /\ th[t].pc \in {"ckpt", "upload"}
          /\ \E u \in Threads :
                /\ th[u].pc = "idle"
                /\ th' = [th EXCEPT ![t].pc = "gundo", ![u] = Orphan(th[t])]
          /\ UNCHANGED <<knockMu, goldenMu, reserve>>
    /\ UNCHANGED <<workerVars, store, created, golden>>

\* The agent of w restarts: calls being served there fail, each with its checkpoint,
\* download or upload cut short.
ServedBy(t, w) == th[t].pc \in {"load", "ckpt", "upload", "gstart"} /\ th[t].rw = w

ServedAt(pcs, i, w) == {t \in Threads : th[t].pc \in pcs /\ th[t].v = i /\ th[t].rw = w}

\* What the directory of i on w may then hold ...
DirLeft(w, i) ==
    LET loads == {t \in ServedAt({"load"}, i, w) :
                    /\ RestorePath(th[t]) = w
                    /\ NeedDownload(w, i, w)
                    /\ Fetched(i, RestoreKey(th[t])) # "none"}
    IN
    {image[w][i]}
        \cup (IF loads \cup ServedAt({"ckpt"}, i, w) = {} THEN {} ELSE {"none", "empty", "partial"})
        \cup {Fetched(i, RestoreKey(th[t])) : t \in loads}

\* ... and the objects under prefix k.
ObjectsLeft(w, k) ==
    {object[k]} \cup
        UNION {UploadLeft(k, image[w][i]) : i \in {i \in Ids :
                  /\ ObjectKeyFor(i) = k
                  /\ \E t \in ServedAt({"upload"}, i, w) : th[t].op # "pause"}}

WorkerRestart(w) ==
    /\ "restart" \in Faults
    /\ AgentRestart(w)
    /\ \E left \in [Ids -> UNION {DirLeft(w, i) : i \in Ids}] :
          /\ \A i \in Ids : left[i] \in DirLeft(w, i)
          /\ image' = [image EXCEPT ![w] = left]
    /\ \E left \in [Keys -> UNION {ObjectsLeft(w, k) : k \in Keys}] :
          /\ \A k \in Keys : left[k] \in ObjectsLeft(w, k)
          /\ object' = left
    /\ th' = [t \in Threads |-> IF ServedBy(t, w) THEN NoRequest ELSE th[t]]
    /\ knockMu' = IF \E t \in Threads : knockMu = t /\ ServedBy(t, w) THEN None ELSE knockMu
    /\ goldenMu' = IF \E t \in Threads : goldenMu = t /\ ServedBy(t, w) THEN None ELSE goldenMu
    /\ reserve' = [x \in Workers |->
                     IF x = w /\ \E t \in Threads : ServedBy(t, w) /\ th[t].pc = "load"
                                                    /\ th[t].id = reserve[w]
                     THEN None ELSE reserve[x]]
    /\ UNCHANGED <<store, created, golden>>

\* The control plane restarts over its Redis store: its memory is lost, the
\* handlers it was calling run on.
ControlPlaneRestart ==
    /\ "crash" \in Faults
    /\ th' = [t \in Threads |-> IF th[t].pc \in CallPcs THEN Orphan(th[t]) ELSE NoRequest]
    /\ knockMu' = None
    /\ goldenMu' = None
    /\ reserve' = [w \in Workers |-> None]
    /\ UNCHANGED <<workerVars, store, created, golden>>

-----------------------------------------------------------------------------
ResumeStep(t) ==
    Lobby(t) \/ GiveUp(t) \/ Knock(t) \/ StepBack(t) \/ Probe(t) \/ Decide(t) \/ Source(t)
    \/ Restore(t) \/ Load(t) \/ PutRunning(t) \/ ClearReserve(t)

StopStep(t) == LockStop(t) \/ Begin(t) \/ Ckpt(t) \/ Upload(t) \/ Save(t)

GoldenStep(t) ==
    \/ LockGolden(t) \/ DecideGolden(t) \/ BootGolden(t) \/ StartGolden(t)
    \/ UndoGolden(t) \/ PutGolden(t)

DeleteStep(t) == DeleteOnWorker(t) \/ DeleteFromStore(t)

ClientCall(t) ==
    \/ \E s \in Sandboxes : CallResume(t, s) \/ CallStop(t, s) \/ CallDelete(t, s)
    \/ CallGolden(t)

Next ==
    \/ Create
    \/ \E t \in Threads : \/ ClientCall(t)
                          \/ ResumeStep(t) \/ StopStep(t) \/ GoldenStep(t) \/ DeleteStep(t)
                          \/ Detach(t)
    \/ \E w \in Workers : WorkerRestart(w)
    \/ ControlPlaneRestart

Spec == Init /\ [][Next]_vars

(* Fairness.  A goroutine that is not blocked on a mutex runs on.  A Go    *)
(* mutex in starvation mode hands itself to its longest waiter, so a       *)
(* waiter for a mutex that keeps being freed gets it.  Resume's deadline   *)
(* ends its retries.                                                       *)

Unblocked(t) ==
    \/ Probe(t) \/ Decide(t) \/ Source(t) \/ Restore(t) \/ Load(t) \/ PutRunning(t)
    \/ ClearReserve(t) \/ Begin(t) \/ Ckpt(t) \/ Upload(t) \/ Save(t)
    \/ DecideGolden(t) \/ BootGolden(t) \/ StartGolden(t) \/ UndoGolden(t) \/ PutGolden(t)
    \/ DeleteStep(t)

Acquire(t) == Knock(t) \/ LockStop(t) \/ LockGolden(t)

Fairness ==
    \A t \in Threads : WF_vars(Unblocked(t)) /\ SF_vars(Acquire(t)) /\ SF_vars(GiveUp(t))

FairSpec == Spec /\ Fairness
-----------------------------------------------------------------------------
(* What holds whatever clients do and whatever fails                       *)

\* 1:1 while running (workerserver.claim): a Worker's slot never has two holders,
\* however many Boot, Restore, Checkpoint and Delete handlers interleave.
SlotExclusive == \A w \in Workers : \A i, j \in alive[w] : i = j

\* suspendLocked, "Caller must hold knockMu": whoever checkpoints a sandbox for a
\* request that is still served (voluntarily, as a Resume's eviction, or as
\* EnsureGolden's) holds knockMu from reading the record to writing it back, so
\* no two such checkpoints overlap.  One exception: POST /v1/golden, which holds
\* goldenMu only, evicts when a failed read of the store makes it build a golden
\* snapshot that is already recorded.
StopPcs == {"begin", "ckpt", "upload", "save"}
EvictionSerialised ==
    \A t \in Threads :
       th[t].pc \in StopPcs /\ th[t].v \in Sandboxes /\ ~th[t].gone =>
          knockMu = t \/ (ReadFails /\ golden /\ th[t].op = "golden" /\ goldenMu = t)

\* restoreReserve never outlives the Restore it was made for: each entry belongs to
\* a Resume of that sandbox that is between its decision and its return.
ReservationOwned ==
    \A w \in Workers :
       reserve[w] # None =>
          \E t \in Threads : /\ th[t].pc \in RestorePcs /\ ~th[t].gone
                             /\ th[t].rw = w /\ th[t].id = reserve[w]

\* Every early return unlocks: when no request is being served, no mutex is held
\* and no Worker is reserved.
QuiescentClean ==
    (\A t \in Threads : th[t].pc = "idle") =>
       knockMu = None /\ goldenMu = None /\ \A w \in Workers : reserve[w] = None

\* A record that has left its initial "suspended, no snapshot" proves that a golden
\* snapshot was recorded first: unless a read of the store fails, EnsureGolden never
\* meets a running sandbox and its eviction, which POST /v1/golden would run without
\* knockMu, is dead code.
GoldenFirst ==
    golden \/ \A s \in Sandboxes :
                 store[s].state \in {"absent", "suspended"} /\ store[s].source = "none"

-----------------------------------------------------------------------------
(* What holds when clients do not overlap requests for one sandbox and no  *)
(* reply is lost (no "put", "read", "detach", "restart" and "crash"),      *)
(* whatever else fails                                                     *)

\* A request is at one of pcs with sandbox i on Worker w.
InCall(i, w, pcs) == \E t \in Threads : th[t].pc \in pcs /\ th[t].v = i /\ th[t].rw = w

\* state-model.md, "A running sandbox occupies exactly one Worker": the slot of the
\* recorded Worker is its own until the request that stops or deletes it has
\* released it and is about to write the store.
RunningHoldsSlot ==
    \A s \in Running :
       \/ alive[store[s].worker] = {s}
       \/ InCall(s, store[s].worker, {"save", "dremove"})

\* state-model.md, "A suspended/paused sandbox occupies no Worker": a slot or a
\* container belongs to the sandbox that the store says runs there, or to the call
\* that is just starting or stopping it there.
OccupantRecorded ==
    \A w \in Workers : \A i \in Ids :
       i \in alive[w] \/ container[w][i] # "none" =>
          \/ i \in Running /\ store[i].worker = w
          \/ InCall(i, w, {"load", "put", "gstart", "ckpt", "upload", "gundo"})

\* What the store says a stopped sandbox can be resumed from is its newest
\* checkpoint: in the object store if suspended, on its own Worker's disk if paused,
\* and the golden image only if it never ran to a checkpoint.
SnapshotKept ==
    \A s \in Sandboxes :
       /\ store[s].state = "suspended" =>
             IF store[s].source = "external" THEN object[s] = "current" ELSE s \notin taken
       /\ store[s].state = "paused" => image[store[s].worker][s] = "current"

\* LocalSnapshotPath always names the directory of the sandbox's own WorkerID, so
\* the sticky checks of resumeCandidates ask the right Worker for the right path.
PathFollowsWorker == \A s \in Sandboxes : store[s].path = store[s].worker

-----------------------------------------------------------------------------
(* What holds when, besides, nothing fails                                 *)

\* A sandbox recorded as running really runs, except between its checkpoint and
\* the write of its new record (or its deletion).
RunningHasContainer ==
    \A s \in Running :
       \/ container[store[s].worker][s] # "none"
       \/ InCall(s, store[s].worker, {"upload", "save", "dremove"})

\* EnsureGolden's prefix, once recorded, can be restored from.
GoldenUsable == golden => object[GoldenPrefix] = "current"

\* Every request returns: no goroutine waits forever for knockMu or goldenMu (a
\* Resume takes goldenMu while it holds knockMu) or retries forever.
RequestsReturn == \A t \in Threads : th[t].pc # "idle" ~> th[t].pc = "idle"
=============================================================================
