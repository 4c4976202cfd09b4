-------------------------- MODULE SchedulerProofs --------------------------
(***************************************************************************)
(* Proofs about Scheduler, for any Workers, sandboxes, goroutines and      *)
(* faults, and for clients that may overlap their requests at will.        *)
(***************************************************************************)
EXTENDS Scheduler, TLAPS

-----------------------------------------------------------------------------
(* The Worker's steps keep its types and its slot.                         *)

WorkerOK == WorkerTypeOK /\ SlotExclusive

\* claim adds an id only to a slot that is empty or already that id's.
LEMMA ClaimOK ==
    ASSUME NEW w \in Workers, NEW i \in Ids, WorkerOK, Claim(w, i)
    PROVE  WorkerOK'
BY DEF WorkerOK, WorkerTypeOK, SlotExclusive, Claim, CanClaim

\* A checkpoint moves tags within their sets and leaves the slot alone.
LEMMA CheckpointOK ==
    ASSUME NEW w \in Workers, NEW i \in Ids, WorkerOK,
           RtCheckpoint(w, i) \/ RtCheckpointFails(w, i)
    PROVE  WorkerOK'
<1>1. CASE RtCheckpoint(w, i)
  <2>1. Superseded(container, i) \in [Workers -> [Ids -> ContainerTags]]
    BY DEF WorkerOK, WorkerTypeOK, Superseded, Older, ContainerTags
  <2>2. Superseded(image, i) \in [Workers -> [Ids -> ImageTags]]
    BY DEF WorkerOK, WorkerTypeOK, Superseded, Older, ImageTags
  <2>3. container' \in [Workers -> [Ids -> ContainerTags]]
    BY <1>1, <2>1 DEF RtCheckpoint, ContainerTags
  <2>4. image' \in [Workers -> [Ids -> ImageTags]]
    BY <1>1, <2>2 DEF RtCheckpoint, ImageTags
  <2>5. object' \in [Keys -> ObjectTags]
    BY <1>1 DEF WorkerOK, WorkerTypeOK, RtCheckpoint, Older, ObjectTags
  <2>6. QED
    BY <1>1, <2>3, <2>4, <2>5 DEF WorkerOK, WorkerTypeOK, SlotExclusive, RtCheckpoint
<1>2. CASE RtCheckpointFails(w, i)
  <2>1. PICK left \in ImageTags : image' = [image EXCEPT ![w][i] = left]
    BY <1>2 DEF RtCheckpointFails, ImageTags
  <2>2. image' \in [Workers -> [Ids -> ImageTags]]
    BY <2>1 DEF WorkerOK, WorkerTypeOK
  <2>3. QED
    BY <1>2, <2>2 DEF WorkerOK, WorkerTypeOK, SlotExclusive, RtCheckpointFails
<1>3. QED
  BY <1>1, <1>2

\* Releasing the slot cannot give it two holders.
LEMMA ReleasedOK ==
    ASSUME NEW w \in Workers, NEW i \in Ids, WorkerOK, alive' = Released(w, i)
    PROVE  alive' \in [Workers -> SUBSET Ids] /\ SlotExclusive'
BY DEF WorkerOK, WorkerTypeOK, SlotExclusive, Released

\* The end of handleBoot.
LEMMA BootOK ==
    ASSUME NEW w \in Workers, NEW i \in Ids, WorkerOK, RtBoot(w, i) \/ RtBootFails(w, i)
    PROVE  WorkerOK'
<1>1. CASE RtBoot(w, i)
  <2>1. container' \in [Workers -> [Ids -> ContainerTags]]
    BY <1>1 DEF WorkerOK, WorkerTypeOK, RtBoot, ContainerTags
  <2>2. QED
    BY <1>1, <2>1 DEF WorkerOK, WorkerTypeOK, SlotExclusive, RtBoot
<1>2. CASE RtBootFails(w, i)
  BY <1>2, ReleasedOK DEF WorkerOK, WorkerTypeOK, RtBootFails
<1>3. QED
  BY <1>1, <1>2

\* An upload that ends early leaves object tags.
LEMMA UploadLeftType ==
    ASSUME NEW key \in Keys, NEW dir \in ImageTags, WorkerOK
    PROVE  UploadLeft(key, dir) \subseteq ObjectTags
BY DEF WorkerOK, WorkerTypeOK, UploadLeft, Packed, ImageTags, ObjectTags

\* The end of handleCheckpoint, with or without an upload.
LEMMA UploadOK ==
    ASSUME NEW w \in Workers, NEW i \in Ids, NEW key \in Keys, NEW c \in BOOLEAN, WorkerOK,
           UploadDir(w, i, key) \/ UploadDirFails(w, i, key, c) \/ KeepLocal(w, i)
    PROVE  WorkerOK'
<1>1. CASE UploadDir(w, i, key)
  <2>1. object' \in [Keys -> ObjectTags]
    BY <1>1 DEF WorkerOK, WorkerTypeOK, UploadDir, Packed, ObjectTags, ImageTags
  <2>2. QED
    BY <1>1, <2>1, ReleasedOK DEF WorkerOK, WorkerTypeOK, UploadDir
<1>2. CASE UploadDirFails(w, i, key, c)
  <2>1. object' \in [Keys -> ObjectTags]
    BY <1>2, UploadLeftType DEF WorkerOK, WorkerTypeOK, UploadDirFails
  <2>2. QED
    BY <1>2, <2>1 DEF WorkerOK, WorkerTypeOK, SlotExclusive, UploadDirFails
<1>3. CASE KeepLocal(w, i)
  BY <1>3, ReleasedOK DEF WorkerOK, WorkerTypeOK, KeepLocal
<1>4. QED
  BY <1>1, <1>2, <1>3

\* What a restore loads is an image tag.
LEMMA LoadedType ==
    ASSUME NEW w \in Workers, NEW i \in Ids, NEW path, NEW key \in Keys \cup {None}, WorkerOK
    PROVE  Loaded(w, i, path, key) \in ImageTags
<1>1. Fetched(i, key) \in ImageTags
  BY DEF WorkerOK, WorkerTypeOK, Fetched, Keys, ObjectTags, ImageTags
<1>2. image[w][i] \in ImageTags
  BY DEF WorkerOK, WorkerTypeOK
<1>3. QED
  BY <1>1, <1>2 DEF Loaded

\* The end of handleRestore.
LEMMA RestoreOK ==
    ASSUME NEW w \in Workers, NEW i \in Ids, NEW path, NEW key \in Keys \cup {None},
           NEW c \in BOOLEAN, WorkerOK,
           RtRestore(w, i, path, key) \/ RestoreFails(w, i, path, key, c)
    PROVE  WorkerOK'
<1>1. \A tag \in ImageTags : Wrote(w, i, path, tag) \in [Workers -> [Ids -> ImageTags]]
  BY DEF WorkerOK, WorkerTypeOK, Wrote
<1>2. Loaded(w, i, path, key) \in ImageTags
  BY LoadedType
<1>3. CASE RtRestore(w, i, path, key)
  <2>1. image' \in [Workers -> [Ids -> ImageTags]]
    BY <1>1, <1>2, <1>3 DEF RtRestore
  <2>2. container' \in [Workers -> [Ids -> ContainerTags]]
    BY <1>3 DEF WorkerOK, WorkerTypeOK, RtRestore, ContainerTags
  <2>3. QED
    BY <1>3, <2>1, <2>2 DEF WorkerOK, WorkerTypeOK, SlotExclusive, RtRestore
<1>4. CASE RestoreFails(w, i, path, key, c)
  <2>1. image' \in [Workers -> [Ids -> ImageTags]]
    BY <1>1, <1>2, <1>4 DEF WorkerOK, WorkerTypeOK, RestoreFails, ImageTags
  <2>2. container' \in [Workers -> [Ids -> ContainerTags]]
    BY <1>4 DEF WorkerOK, WorkerTypeOK, RestoreFails, ContainerTags
  <2>3. QED
    BY <1>4, <2>1, <2>2, ReleasedOK DEF WorkerOK, WorkerTypeOK, RestoreFails
<1>5. QED
  BY <1>3, <1>4

\* Deleting a container and restarting the agent only empty things.
LEMMA DeleteOK ==
    ASSUME NEW w \in Workers, NEW i \in Ids, WorkerOK, HandleDelete(w, i)
    PROVE  WorkerOK'
<1>1. container' \in [Workers -> [Ids -> ContainerTags]]
  BY DEF WorkerOK, WorkerTypeOK, HandleDelete, ContainerTags
<1>2. QED
  BY <1>1, ReleasedOK DEF WorkerOK, WorkerTypeOK, HandleDelete

\* The agent restarts with an empty slot.
LEMMA RestartOK ==
    ASSUME NEW w \in Workers, WorkerOK, AgentRestart(w),
           image' \in [Workers -> [Ids -> ImageTags]], object' \in [Keys -> ObjectTags]
    PROVE  WorkerOK'
<1>1. container' \in [Workers -> [Ids -> ContainerTags]]
  BY DEF WorkerOK, WorkerTypeOK, AgentRestart, ContainerTags
<1>2. alive' \in [Workers -> SUBSET Ids] /\ SlotExclusive'
  BY DEF WorkerOK, WorkerTypeOK, AgentRestart, SlotExclusive
<1>3. QED
  BY <1>1, <1>2 DEF WorkerOK, WorkerTypeOK, AgentRestart

-----------------------------------------------------------------------------
(* The inductive invariant.  Its parts say, for each point of a request's  *)
(* life, what its locals hold, which mutexes it owns and whether it owns a *)
(* reservation.                                                            *)

\* A record that names a Worker by its state has one.
SbOK(sb) == sb.state \in {"running", "paused"} => sb.worker \in Workers

BuildPcs == {"gboot", "gstart", "gundo", "gput"}
GoldenPcs == {"gprobe"} \cup BuildPcs

Shape(r) ==
    /\ SbOK(r.sb)
    /\ r.gone => r.pc \in CallPcs /\ r.g = None
    /\ r.g # None => r.op \in {"resume", "golden"} /\ r.pc \in StopPcs \cup BuildPcs
    /\ ~r.gone /\ \/ r.pc \in BuildPcs
                  \/ r.pc \in StopPcs /\ (r.op = "golden" \/ r.v \in Goldens)
          => r.g \in Workers
    /\ r.op = "resume" /\ ~r.gone => r.id \in Sandboxes
    /\ r.pc \in {"lobby", "knock", "probe", "source"} => r.op = "resume"
    /\ r.pc = "glock" \/ r.pc \in GoldenPcs => r.op \in {"resume", "golden"}
    /\ r.op = "resume" /\ ~r.gone /\ r.pc \in {"source", "glock"} \cup StopPcs \cup GoldenPcs
          => r.w \in Workers
    /\ r.pc \in RestorePcs \cup {"ckpt", "upload", "save", "gboot", "gstart", "gundo", "dkill"}
          => r.rw \in Workers
    /\ r.pc \in RestorePcs \cup {"lock", "begin", "save", "dkill", "dremove"}
          => r.v \in Sandboxes
    /\ r.pc \in RestorePcs /\ ~r.gone => r.op = "resume" /\ r.id = r.v
    /\ r.pc = "lock" => r.op \in {"pause", "suspend"}
    /\ r.pc \in {"begin", "save"} => r.op \in {"pause", "suspend", "resume", "golden"}
    /\ r.pc \in {"ckpt", "upload"} =>
          /\ r.v \in Ids
          /\ r.op \in (IF r.v \in Goldens THEN {"resume", "golden"}
                       ELSE {"pause", "suspend", "resume", "golden"})
    /\ r.pc \in {"gstart", "gundo"} => r.v \in Goldens

HoldsKnock(r) ==
    /\ ~r.gone
    /\ \/ r.pc \in {"probe", "source"}
       \/ r.pc \in StopPcs /\ r.op # "golden"
       \/ r.op = "resume" /\ r.pc \in {"glock"} \cup GoldenPcs

HoldsGolden(r) == ~r.gone /\ (r.pc = "gprobe" \/ r.g # None)

Restoring(r) == r.pc \in RestorePcs /\ ~r.gone

Locks ==
    \A t \in Threads : /\ knockMu = t <=> HoldsKnock(th[t])
                       /\ goldenMu = t <=> HoldsGolden(th[t])

\* Before the golden snapshot is recorded nothing has ever run.
FreshSb(sb) == sb.state \in {"absent", "suspended"} /\ sb.source = "none"

FreshRequest(r) ==
    /\ FreshSb(r.sb)
    /\ r.pc \notin RestorePcs \cup {"save", "dkill"}
    /\ r.pc \in {"ckpt", "upload"} => r.v \in Goldens
    /\ r.pc = "begin" => r.op \in {"pause", "suspend"}

Fresh ==
    /\ golden \/ /\ \A s \in Sandboxes : FreshSb(store[s])
                 /\ \A t \in Threads : FreshRequest(th[t])
    /\ \A t \in Threads : HoldsGolden(th[t]) => ~golden \/ ReadFails

\* What IInv says of the store.
StoreOK ==
    /\ store \in [Sandboxes -> SandboxRecords]
    /\ created \in SUBSET Sandboxes
    /\ golden \in BOOLEAN
    /\ \A s \in Sandboxes : SbOK(store[s])

\* ... of the requests, the mutexes and the reservations.
RequestsOK ==
    /\ th \in [Threads -> Requests]
    /\ knockMu \in OrNone(Threads)
    /\ goldenMu \in OrNone(Threads)
    /\ reserve \in [Workers -> OrNone(Sandboxes)]
    /\ \A t \in Threads : Shape(th[t])
    /\ Locks
    /\ ReservationOwned

IInv == WorkerOK /\ StoreOK /\ RequestsOK /\ Fresh

-----------------------------------------------------------------------------
(* One request moves: what a step must show of the new request r of t.     *)

\* mu is a mutex before the step and mu2 after it; `holds': does r own it?
MutexStep(mu, mu2, t, holds) ==
    /\ mu2 = t <=> holds
    /\ mu2 # mu => mu \in {None, t} /\ mu2 \in {None, t}
    /\ mu2 \in OrNone(Threads)

\* An entry is dropped, or stays and t did not own it, or is r's.
ReserveStep(t, r) ==
    /\ reserve' \in [Workers -> OrNone(Sandboxes)]
    /\ \A w \in Workers :
          \/ reserve'[w] = None
          \/ /\ reserve'[w] = reserve[w]
             /\ ~(Restoring(th[t]) /\ th[t].rw = w /\ th[t].id = reserve[w])
          \/ Restoring(r) /\ r.rw = w /\ r.id = reserve'[w]

Becomes(t, r) ==
    /\ r \in Requests
    /\ Shape(r)
    /\ th' = [th EXCEPT ![t] = r]
    /\ MutexStep(knockMu, knockMu', t, HoldsKnock(r))
    /\ MutexStep(goldenMu, goldenMu', t, HoldsGolden(r))
    /\ ReserveStep(t, r)

\* The other requests keep what they own.
LEMMA BecomesOK ==
    ASSUME NEW t \in Threads, NEW r, RequestsOK, Becomes(t, r)
    PROVE  RequestsOK'
<1>1. th' \in [Threads -> Requests] /\ \A u \in Threads : th'[u] = IF u = t THEN r ELSE th[u]
  BY DEF RequestsOK, Becomes
<1>2. \A u \in Threads : Shape(th'[u])
  BY <1>1 DEF RequestsOK, Becomes
<1>3. ASSUME NEW u \in Threads
      PROVE  /\ knockMu' = u <=> HoldsKnock(th'[u])
             /\ goldenMu' = u <=> HoldsGolden(th'[u])
  <2>1. CASE u = t
    BY <1>1, <2>1 DEF Becomes, MutexStep
  <2>2. CASE u # t
    <3>1. th'[u] = th[u]
      BY <1>1, <2>2
    <3>2. /\ knockMu = u <=> HoldsKnock(th[u])
          /\ goldenMu = u <=> HoldsGolden(th[u])
      BY DEF RequestsOK, Locks
    <3>3. None # u
      BY SchedulerAssumption
    <3>4. (knockMu' = u <=> knockMu = u) /\ (goldenMu' = u <=> goldenMu = u)
      BY <2>2, <3>3 DEF Becomes, MutexStep
    <3>5. QED
      BY <3>1, <3>2, <3>4
  <2>3. QED
    BY <2>1, <2>2
<1>4. ASSUME NEW w \in Workers, reserve'[w] # None
      PROVE  \E u \in Threads : Restoring(th'[u]) /\ th'[u].rw = w /\ th'[u].id = reserve'[w]
  <2>1. CASE Restoring(r) /\ r.rw = w /\ r.id = reserve'[w]
    BY <1>1, <2>1
  <2>2. CASE /\ reserve'[w] = reserve[w]
             /\ ~(Restoring(th[t]) /\ th[t].rw = w /\ th[t].id = reserve[w])
    <3>1. PICK u \in Threads : Restoring(th[u]) /\ th[u].rw = w /\ th[u].id = reserve[w]
      BY <1>4, <2>2 DEF RequestsOK, ReservationOwned, Restoring
    <3>2. u # t
      BY <2>2, <3>1
    <3>3. QED
      BY <1>1, <2>2, <3>1, <3>2
  <2>3. QED
    BY <1>4, <2>1, <2>2 DEF Becomes, ReserveStep
<1>5. Locks'
  BY <1>3 DEF Locks
<1>6. ReservationOwned'
  BY <1>4 DEF ReservationOwned, Restoring
<1>7. QED
  BY <1>1, <1>2, <1>5, <1>6 DEF RequestsOK, Becomes, MutexStep, ReserveStep

\* A step that keeps the mutexes and the reservations.
LEMMA KeepBecomes ==
    ASSUME NEW t \in Threads, NEW r \in Requests, RequestsOK, Shape(r),
           th' = [th EXCEPT ![t] = r], UNCHANGED <<knockMu, goldenMu, reserve>>,
           HoldsKnock(r) <=> HoldsKnock(th[t]),
           HoldsGolden(r) <=> HoldsGolden(th[t]),
           Restoring(th[t]) => Restoring(r) /\ r.rw = th[t].rw /\ r.id = th[t].id
    PROVE  Becomes(t, r)
<1>1. MutexStep(knockMu, knockMu', t, HoldsKnock(r))
  BY DEF RequestsOK, Locks, MutexStep
<1>2. MutexStep(goldenMu, goldenMu', t, HoldsGolden(r))
  BY DEF RequestsOK, Locks, MutexStep
<1>3. ReserveStep(t, r)
  BY DEF RequestsOK, ReserveStep
<1>4. QED
  BY <1>1, <1>2, <1>3 DEF Becomes

\* A step that gives everything back.
LEMMA LeaveBecomes ==
    ASSUME NEW t \in Threads, NEW r \in Requests, RequestsOK, Shape(r), Leave(t, r),
           ~HoldsKnock(r), ~HoldsGolden(r)
    PROVE  Becomes(t, r)
<1>1. MutexStep(knockMu, knockMu', t, HoldsKnock(r))
  BY SchedulerAssumption DEF RequestsOK, Leave, UnlockedBy, MutexStep, OrNone
<1>2. MutexStep(goldenMu, goldenMu', t, HoldsGolden(r))
  BY SchedulerAssumption DEF RequestsOK, Leave, UnlockedBy, MutexStep, OrNone
<1>3. ReserveStep(t, r)
  <2>1. CASE th[t].pc \in RestorePcs
    <3>1. reserve' = ClearedReserveBy(t)
      BY <2>1 DEF Leave, ReserveWithout
    <3>2. \A w \in Workers : reserve'[w] = IF w = th[t].rw /\ reserve[w] = th[t].id THEN None
                                            ELSE reserve[w]
      BY <3>1 DEF ClearedReserveBy, RequestsOK
    <3>3. reserve' \in [Workers -> OrNone(Sandboxes)]
      BY <3>1 DEF ClearedReserveBy, RequestsOK, OrNone
    <3>4. QED
      BY <3>2, <3>3 DEF ReserveStep
  <2>2. CASE th[t].pc \notin RestorePcs
    BY <2>2 DEF RequestsOK, Leave, ReserveWithout, ReserveStep, Restoring
  <2>3. QED
    BY <2>1, <2>2
<1>4. QED
  BY <1>1, <1>2, <1>3 DEF Becomes, Leave

\* A goroutine without a request.
LEMMA NoRequestType == NoRequest \in Requests
BY DEF NoRequest, Requests, Pcs, SandboxRecords, NoSandbox, States, Sources, OrNone

\* Return is such a step.
LEMMA ReturnBecomes ==
    ASSUME NEW t \in Threads, RequestsOK, Return(t)
    PROVE  Becomes(t, NoRequest)
<1>1. Shape(NoRequest)
  BY DEF Shape, NoRequest, SbOK, NoSandbox, CallPcs, GoldenPcs, BuildPcs, StopPcs, RestorePcs
<1>2. ~HoldsKnock(NoRequest) /\ ~HoldsGolden(NoRequest)
  BY DEF HoldsKnock, HoldsGolden, NoRequest, GoldenPcs, BuildPcs, StopPcs
<1>3. QED
  BY <1>1, <1>2, NoRequestType, LeaveBecomes DEF Return

\* NoRequest is harmless.
LEMMA NoRequestFresh == FreshRequest(NoRequest) /\ ~HoldsGolden(NoRequest)
BY DEF FreshRequest, FreshSb, HoldsGolden, NoRequest, NoSandbox, GoldenPcs, BuildPcs, RestorePcs

\* A step of t, with what it writes to the Workers and to the store.
LEMMA StepOK ==
    ASSUME IInv, NEW t \in Threads, NEW r, Becomes(t, r), WorkerOK', StoreOK',
           golden => golden',
           golden' \/ (FreshRequest(r) /\ \A s \in Sandboxes : FreshSb(store'[s])),
           HoldsGolden(r) => ~golden' \/ ReadFails,
           golden' # golden => goldenMu = t
    PROVE  IInv'
<1>1. RequestsOK'
  BY BecomesOK DEF IInv
<1>2. \A u \in Threads : th'[u] = IF u = t THEN r ELSE th[u]
  BY DEF IInv, RequestsOK, Becomes
<1>3. golden \/ \A u \in Threads : FreshRequest(th[u])
  BY DEF IInv, Fresh
<1>4. golden' \/ \A u \in Threads : FreshRequest(th'[u])
  BY <1>2, <1>3
<1>5. ASSUME NEW u \in Threads, HoldsGolden(th'[u])
      PROVE  ~golden' \/ ReadFails
  <2>1. CASE u = t
    BY <1>2, <1>5, <2>1
  <2>2. CASE u # t
    <3>1. HoldsGolden(th[u])
      BY <1>2, <1>5, <2>2
    <3>2. ~golden \/ ReadFails
      BY <3>1 DEF IInv, Fresh
    <3>3. goldenMu = u
      BY <3>1 DEF IInv, RequestsOK, Locks
    <3>4. QED
      BY <2>2, <3>2, <3>3
  <2>3. QED
    BY <2>1, <2>2
<1>6. Fresh'
  BY <1>4, <1>5 DEF Fresh
<1>7. QED
  BY <1>1, <1>6 DEF IInv

\* A step of t that leaves the store alone.
LEMMA QuietStepOK ==
    ASSUME IInv, NEW t \in Threads, NEW r, Becomes(t, r), WorkerOK',
           UNCHANGED <<store, created, golden>>,
           ~golden => FreshRequest(r),
           HoldsGolden(r) => ~golden \/ ReadFails
    PROVE  IInv'
<1>1. StoreOK'
  BY DEF IInv, StoreOK
<1>2. golden \/ \A s \in Sandboxes : FreshSb(store[s])
  BY DEF IInv, Fresh
<1>3. QED
  BY <1>1, <1>2, StepOK

\* A request that returns and leaves the store alone.
LEMMA ReturnOK ==
    ASSUME IInv, NEW t \in Threads, Return(t), WorkerOK', UNCHANGED <<store, created, golden>>
    PROVE  IInv'
BY ReturnBecomes, NoRequestFresh, QuietStepOK DEF IInv

\* Nothing happens on the Workers.
LEMMA WorkersIdle ==
    ASSUME WorkerOK, UNCHANGED workerVars
    PROVE  WorkerOK'
BY DEF WorkerOK, WorkerTypeOK, SlotExclusive, workerVars

\* What IInv says of one request.
LEMMA RequestOK ==
    ASSUME IInv, NEW t \in Threads
    PROVE  /\ th[t] \in Requests
           /\ Shape(th[t])
           /\ knockMu = t <=> HoldsKnock(th[t])
           /\ goldenMu = t <=> HoldsGolden(th[t])
           /\ golden \/ FreshRequest(th[t])
           /\ HoldsGolden(th[t]) => ~golden \/ ReadFails
BY DEF IInv, RequestsOK, Locks, Fresh

\* EnsureGolden has chosen its Worker before it boots anything.
LEMMA Building ==
    ASSUME NEW r, Shape(r), r.pc \in BuildPcs, ~r.gone
    PROVE  r.g \in Workers
BY DEF Shape

\* Only a request inside EnsureGolden has chosen a Worker for the golden sandbox.
LEMMA NotBuilding ==
    ASSUME IInv, NEW t \in Threads,
           th[t].pc \notin StopPcs \cup BuildPcs \/ th[t].op \in {"pause", "suspend"}
    PROVE  th[t].g = None
BY RequestOK DEF Shape

-----------------------------------------------------------------------------
(* Clients' calls                                                          *)

\* A new request holds nothing yet; what it copied from the store is well formed.
LEMMA ClientCallOK ==
    ASSUME IInv, NEW t \in Threads, ClientCall(t)
    PROVE  IInv'
<1>1. ASSUME NEW op \in OpKinds, NEW s \in OrNone(Sandboxes), Calls(t, op, s),
             NEW r \in Requests, Shape(r), th' = [th EXCEPT ![t] = r],
             ~HoldsKnock(r), ~HoldsGolden(r), ~golden => FreshRequest(r)
      PROVE  IInv'
  <2>1. ~HoldsKnock(th[t]) /\ ~HoldsGolden(th[t]) /\ ~Restoring(th[t])
    BY <1>1, NotBuilding DEF Calls, HoldsKnock, HoldsGolden, Restoring, GoldenPcs, BuildPcs, StopPcs, RestorePcs
  <2>2. UNCHANGED <<workerVars, store, created, golden, knockMu, goldenMu, reserve>>
    BY <1>1 DEF Calls
  <2>3. Becomes(t, r)
    BY <1>1, <2>1, <2>2, KeepBecomes DEF IInv
  <2>4. QED
    BY <1>1, <2>2, <2>3, QuietStepOK, WorkersIdle DEF IInv
<1>2. ASSUME NEW op \in OpKinds, NEW pc \in Pcs, NEW s \in OrNone(Sandboxes)
      PROVE  /\ Started(op, pc, s) \in Requests
             /\ Started(op, pc, s).op = op /\ Started(op, pc, s).pc = pc
             /\ Started(op, pc, s).id = s /\ Started(op, pc, s).sb = NoSandbox
             /\ ~Started(op, pc, s).gone /\ Started(op, pc, s).g = None
  <2>1. Started(op, pc, s) \in Requests
    BY NoRequestType DEF Started, Requests
  <2>2. QED
    BY <2>1, NoRequestType DEF Started, Requests, NoRequest
<1>3. ASSUME NEW s \in Sandboxes, CallResume(t, s)
      PROVE  IInv'
  <2> DEFINE r == [Started("resume", "lobby", s) EXCEPT !.sb = store[s]]
  <2>1. r \in Requests /\ th' = [th EXCEPT ![t] = r]
    BY <1>2, <1>3 DEF CallResume, IInv, StoreOK, OpKinds, Pcs, OrNone, Requests
  <2>2. /\ r.op = "resume" /\ r.pc = "lobby" /\ r.id = s /\ r.sb = store[s] /\ ~r.gone /\ r.g = None
    BY <1>2 DEF OpKinds, Pcs, OrNone
  <2>3. Shape(r)
    BY <2>2 DEF IInv, StoreOK, Shape, GoldenPcs, BuildPcs, StopPcs, RestorePcs, CallPcs
  <2>4. ~HoldsKnock(r) /\ ~HoldsGolden(r)
    BY <2>2 DEF HoldsKnock, HoldsGolden, GoldenPcs, BuildPcs, StopPcs
  <2>5. ~golden => FreshRequest(r)
    BY <2>2 DEF IInv, Fresh, FreshRequest, RestorePcs
  <2>6. QED
    BY <1>1, <1>3, <2>1, <2>3, <2>4, <2>5 DEF CallResume, OpKinds, OrNone
<1>4. ASSUME NEW s \in Sandboxes, CallStop(t, s)
      PROVE  IInv'
  <2>1. PICK op \in {"pause", "suspend"} :
           Calls(t, op, s) /\ th' = [th EXCEPT ![t] = [Started(op, "lock", s) EXCEPT !.v = s]]
    BY <1>4 DEF CallStop
  <2> DEFINE r == [Started(op, "lock", s) EXCEPT !.v = s]
  <2>2. r \in Requests
    BY <1>2 DEF OpKinds, Pcs, OrNone, Requests, Ids
  <2>3. r.op = op /\ r.pc = "lock" /\ r.id = s /\ r.v = s /\ r.sb = NoSandbox /\ ~r.gone /\ r.g = None
    BY <1>2 DEF OpKinds, Pcs, OrNone
  <2>4. Shape(r)
    BY <2>3 DEF Shape, SbOK, NoSandbox, GoldenPcs, BuildPcs, StopPcs, RestorePcs, CallPcs
  <2>5. ~HoldsKnock(r) /\ ~HoldsGolden(r) /\ FreshRequest(r)
    BY <2>3 DEF HoldsKnock, HoldsGolden, FreshRequest, FreshSb, NoSandbox,
                GoldenPcs, BuildPcs, StopPcs, RestorePcs
  <2>6. QED
    BY <1>1, <2>1, <2>2, <2>4, <2>5 DEF OpKinds, OrNone
<1>5. ASSUME NEW s \in Sandboxes, CallDelete(t, s)
      PROVE  IInv'
  <2> DEFINE kill == store[s].state = "running"
             r == IF kill THEN [Started("delete", "dkill", s) EXCEPT !.v = s, !.rw = store[s].worker]
                  ELSE [Started("delete", "dremove", s) EXCEPT !.v = s]
  <2>1. th' = [th EXCEPT ![t] = r]
    BY <1>5 DEF CallDelete
  <2>2. /\ r.op = "delete" /\ r.id = s /\ r.v = s /\ r.sb = NoSandbox /\ ~r.gone /\ r.g = None
        /\ r.pc = IF kill THEN "dkill" ELSE "dremove"
        /\ kill => r.rw = store[s].worker
    BY <1>2 DEF OpKinds, Pcs, OrNone
  <2>3. Shape(r)
    BY <2>2 DEF IInv, StoreOK, Shape, SbOK, NoSandbox, GoldenPcs, BuildPcs, StopPcs, RestorePcs, CallPcs
  <2>4. ~HoldsKnock(r) /\ ~HoldsGolden(r)
    BY <2>2 DEF HoldsKnock, HoldsGolden, GoldenPcs, BuildPcs, StopPcs
  <2>5. ~golden => FreshRequest(r)
    BY <2>2 DEF IInv, Fresh, FreshRequest, FreshSb, NoSandbox, RestorePcs
  <2>6. r \in Requests
    <3>1. store[s].worker \in OrNone(Workers) /\ s \in OrNone(Ids) /\ s \in OrNone(Sandboxes)
      BY DEF IInv, StoreOK, SandboxRecords, OrNone, Ids
    <3>2. \A pc \in {"dkill", "dremove"} : Started("delete", pc, s) \in Requests
      BY <1>2, <3>1 DEF OpKinds, Pcs
    <3>3. QED
      BY <3>1, <3>2 DEF Requests
  <2>7. QED
    BY <1>1, <1>5, <2>1, <2>3, <2>4, <2>5, <2>6 DEF CallDelete, OpKinds, OrNone
<1>6. CASE CallGolden(t)
  <2> DEFINE r == Started("golden", "glock", None)
  <2>1. /\ r \in Requests
        /\ r.op = "golden" /\ r.pc = "glock" /\ r.sb = NoSandbox /\ ~r.gone /\ r.g = None
    BY <1>2 DEF OpKinds, Pcs, OrNone
  <2>2. Shape(r)
    BY <2>1 DEF Shape, SbOK, NoSandbox, GoldenPcs, BuildPcs, StopPcs, RestorePcs, CallPcs
  <2>3. ~HoldsKnock(r) /\ ~HoldsGolden(r) /\ FreshRequest(r)
    BY <2>1 DEF HoldsKnock, HoldsGolden, FreshRequest, FreshSb, NoSandbox,
                GoldenPcs, BuildPcs, StopPcs, RestorePcs
  <2>4. QED
    BY <1>1, <1>6, <2>1, <2>2, <2>3 DEF CallGolden, OpKinds, OrNone
<1>7. QED
  BY <1>3, <1>4, <1>5, <1>6 DEF ClientCall

-----------------------------------------------------------------------------
(* Resume                                                                  *)

\* A policy places on an eligible Worker or on the Worker of a running victim.
LEMMA PlacementOK ==
    ASSUME IInv, NEW home, NEW ok \in SUBSET Workers, NEW running \in SUBSET Running,
           NEW p \in Placements(home, ok, running)
    PROVE  /\ p.worker \in Workers
           /\ p.victim # None => p.victim \in Sandboxes /\ golden
<1>1. \A s \in running : s \in Sandboxes /\ store[s].state = "running"
  BY DEF Running
<1>2. \A s \in running : store[s].worker \in Workers /\ golden
  BY <1>1 DEF IInv, StoreOK, SbOK, Fresh, FreshSb
<1>3. QED
  BY <1>1, <1>2 DEF Placements

\* The policy sees Workers that were probed and sandboxes that run.
LEMMA CandidatesOK ==
    ASSUME NEW sb, NEW id, NEW up \in SUBSET Workers, NEW free \in SUBSET Workers,
           NEW running \in Listed, NEW view \in ResumeCandidates(sb, id, up, free, running)
    PROVE  view.free \in SUBSET Workers /\ view.running \in SUBSET Running
BY DEF ResumeCandidates, Only, Everywhere, Listed

\* Signals only disqualify.
LEMMA EligibleOK ==
    ASSUME NEW free \in SUBSET Workers, NEW ok \in Eligible(free)
    PROVE  ok \in SUBSET Workers
BY DEF Eligible

\* The record is read again, without a lock.
LEMMA RereadOK ==
    ASSUME IInv, NEW t \in Threads, th[t].pc \in {"lobby", "knock"}, NEW sb \in Reread(t)
    PROVE  /\ sb \in SandboxRecords /\ SbOK(sb)
           /\ golden \/ FreshSb(sb)
           /\ th[t].g = None /\ th[t].op = "resume" /\ ~th[t].gone /\ th[t].id \in Sandboxes
<1>1. /\ th[t] \in Requests /\ Shape(th[t])
      /\ golden \/ FreshRequest(th[t])
  BY RequestOK
<1>2. th[t].op = "resume" /\ ~th[t].gone /\ th[t].id \in Sandboxes /\ th[t].g = None
  BY <1>1 DEF Shape, CallPcs, StopPcs, BuildPcs
<1>3. QED
  BY <1>1, <1>2 DEF Reread, IInv, StoreOK, Requests, Shape, Fresh, FreshRequest

\* Entering and re-entering the lobby takes nothing.
LEMMA LobbyOK ==
    ASSUME IInv, NEW t \in Threads, Lobby(t) \/ StepBack(t)
    PROVE  IInv'
<1>1. PICK pc \in {"lobby", "knock"}, sb \in Reread(t) :
         th' = [th EXCEPT ![t] = [th[t] EXCEPT !.pc = pc, !.sb = sb]]
  <2>1. CASE Lobby(t)
    BY <2>1 DEF Lobby, IInv, RequestsOK
  <2>2. CASE StepBack(t)
    BY <2>2 DEF StepBack, IInv, RequestsOK
  <2>3. QED
    BY <2>1, <2>2
<1> DEFINE r == [th[t] EXCEPT !.pc = pc, !.sb = sb]
<1>2. /\ th[t] \in Requests /\ th[t].pc \in {"lobby", "knock"}
      /\ UNCHANGED <<workerVars, store, created, golden, knockMu, goldenMu, reserve>>
  BY RequestOK DEF Lobby, StepBack
<1>3. /\ sb \in SandboxRecords /\ SbOK(sb) /\ (golden \/ FreshSb(sb))
      /\ th[t].g = None /\ th[t].op = "resume" /\ ~th[t].gone /\ th[t].id \in Sandboxes
  BY <1>2, RereadOK
<1>4. /\ r \in Requests
      /\ r.op = "resume" /\ ~r.gone /\ r.g = None /\ r.id \in Sandboxes /\ r.pc = pc /\ r.sb = sb
  BY <1>2, <1>3 DEF Requests, Pcs
<1>5. Shape(r) /\ (~golden => FreshRequest(r))
  BY <1>3, <1>4 DEF Shape, FreshRequest, GoldenPcs, BuildPcs, StopPcs, RestorePcs, CallPcs
<1>6. /\ ~HoldsKnock(r) /\ ~HoldsGolden(r)
      /\ ~HoldsKnock(th[t]) /\ ~HoldsGolden(th[t]) /\ ~Restoring(th[t])
  BY <1>2, <1>3, <1>4 DEF HoldsKnock, HoldsGolden, Restoring, GoldenPcs, BuildPcs, StopPcs, RestorePcs
<1>7. Becomes(t, r)
  BY <1>1, <1>2, <1>4, <1>5, <1>6, KeepBecomes DEF IInv
<1>8. QED
  BY <1>2, <1>5, <1>6, <1>7, WorkersIdle, QuietStepOK DEF IInv

\* knockMu is taken and the record read again.
LEMMA KnockOK ==
    ASSUME IInv, NEW t \in Threads, Knock(t)
    PROVE  IInv'
<1>1. th[t] \in Requests
  BY RequestOK
<1>11. PICK sb \in Reread(t) :
         th' = [th EXCEPT ![t].pc = "probe", ![t].sb = sb, ![t].left = Workers]
  BY DEF Knock
<1> DEFINE r == [th[t] EXCEPT !.pc = "probe", !.sb = sb, !.left = Workers]
<1>2. th' = [th EXCEPT ![t] = r] /\ th[t].pc = "knock" /\ knockMu = None /\ knockMu' = t
  BY <1>11 DEF Knock, IInv, RequestsOK
<1>3. th[t].op = "resume" /\ ~th[t].gone /\ th[t].id \in Sandboxes /\ th[t].g = None
  BY <1>2, RereadOK
<1>4. sb \in SandboxRecords /\ SbOK(sb) /\ (golden \/ FreshSb(sb))
  BY <1>2, RereadOK
<1>5. r \in Requests
  BY <1>1, <1>4 DEF Requests, Pcs
<1>6. r.op = "resume" /\ ~r.gone /\ r.g = None /\ r.id \in Sandboxes /\ r.pc = "probe" /\ r.sb = sb
  BY <1>1, <1>3 DEF Requests
<1>7. Shape(r) /\ HoldsKnock(r) /\ ~HoldsGolden(r) /\ ~Restoring(r) /\ (~golden => FreshRequest(r))
  BY <1>4, <1>6 DEF Shape, HoldsKnock, HoldsGolden, Restoring, FreshRequest,
                    GoldenPcs, BuildPcs, StopPcs, RestorePcs, CallPcs
<1>8. ~Restoring(th[t]) /\ ~HoldsGolden(th[t])
  BY <1>2, <1>3 DEF Restoring, RestorePcs, HoldsGolden, GoldenPcs, BuildPcs
<1>9. Becomes(t, r)
  <2>1. MutexStep(knockMu, knockMu', t, HoldsKnock(r))
    BY <1>2, <1>7 DEF MutexStep, OrNone
  <2>2. MutexStep(goldenMu, goldenMu', t, HoldsGolden(r))
    BY <1>7, <1>8, RequestOK DEF MutexStep, Knock, IInv, RequestsOK
  <2>3. ReserveStep(t, r)
    BY <1>8 DEF ReserveStep, Knock, IInv, RequestsOK
  <2>4. QED
    BY <1>2, <1>5, <1>7, <2>1, <2>2, <2>3 DEF Becomes
<1>10. QED
  BY <1>7, <1>9, WorkersIdle, QuietStepOK DEF Knock, IInv

\* Probing changes only the view.
LEMMA ProbeOK ==
    ASSUME IInv, NEW t \in Threads, Probe(t)
    PROVE  IInv'
<1>1. /\ th[t] \in Requests /\ Shape(th[t])
      /\ golden \/ FreshRequest(th[t])
      /\ HoldsGolden(th[t]) => ~golden \/ ReadFails
  BY RequestOK
<1>2. PICK l \in SUBSET Workers, u \in SUBSET Workers, f \in SUBSET Workers :
         th' = [th EXCEPT ![t] = [th[t] EXCEPT !.left = l, !.up = u, !.free = f]]
  <2>1. PICK w \in th[t].left :
          \/ th' = [th EXCEPT ![t].left = @ \ {w}, ![t].up = @ \cup {w},
                              ![t].free = IF HasFreeSlot(w) THEN @ \cup {w} ELSE @]
          \/ th' = [th EXCEPT ![t].left = @ \ {w}]
    BY DEF Probe
  <2>2. w \in Workers /\ th[t].left \in SUBSET Workers
        /\ th[t].up \in SUBSET Workers /\ th[t].free \in SUBSET Workers
    BY <1>1 DEF Requests
  <2>3. CASE th' = [th EXCEPT ![t].left = @ \ {w}, ![t].up = @ \cup {w},
                              ![t].free = IF HasFreeSlot(w) THEN @ \cup {w} ELSE @]
    <3>1. th' = [th EXCEPT ![t] = [th[t] EXCEPT !.left = th[t].left \ {w}, !.up = th[t].up \cup {w},
                     !.free = IF HasFreeSlot(w) THEN th[t].free \cup {w} ELSE th[t].free]]
      BY <1>1, <2>3 DEF IInv, RequestsOK
    <3>2. QED
      BY <2>2, <3>1
  <2>4. CASE th' = [th EXCEPT ![t].left = @ \ {w}]
    <3>1. [th[t] EXCEPT !.left = th[t].left \ {w}]
            = [th[t] EXCEPT !.left = th[t].left \ {w}, !.up = th[t].up, !.free = th[t].free]
      BY <1>1 DEF Requests
    <3>2. th' = [th EXCEPT ![t] = [th[t] EXCEPT !.left = th[t].left \ {w}, !.up = th[t].up,
                                                !.free = th[t].free]]
      BY <2>4, <3>1 DEF IInv, RequestsOK
    <3>3. QED
      BY <2>2, <3>2
  <2>5. QED
    BY <2>1, <2>3, <2>4
<1> DEFINE r == [th[t] EXCEPT !.left = l, !.up = u, !.free = f]
<1>3. r \in Requests
  BY <1>1 DEF Requests
<1>4. /\ r.op = th[t].op /\ r.pc = th[t].pc /\ r.id = th[t].id /\ r.sb = th[t].sb
      /\ r.w = th[t].w /\ r.v = th[t].v /\ r.rw = th[t].rw /\ r.gone = th[t].gone /\ r.g = th[t].g
  BY <1>1 DEF Requests
<1>5. Shape(r) /\ (~golden => FreshRequest(r))
  BY <1>1, <1>4 DEF Shape, FreshRequest
<1>6. (HoldsKnock(r) <=> HoldsKnock(th[t])) /\ (HoldsGolden(r) <=> HoldsGolden(th[t]))
      /\ (Restoring(r) <=> Restoring(th[t]))
  BY <1>4 DEF HoldsKnock, HoldsGolden, Restoring
<1>7. Becomes(t, r)
  BY <1>2, <1>3, <1>4, <1>5, <1>6, KeepBecomes DEF Probe, IInv
<1>8. QED
  BY <1>1, <1>5, <1>6, <1>7, WorkersIdle, QuietStepOK DEF Probe, IInv

\* A request whose program counter alone moves.
LEMMA MovedRequest ==
    ASSUME IInv, NEW t \in Threads, NEW pc \in Pcs
    PROVE  /\ [th[t] EXCEPT !.pc = pc] \in Requests
           /\ [th[t] EXCEPT !.pc = pc].pc = pc
           /\ [th[t] EXCEPT !.pc = pc].op = th[t].op
           /\ [th[t] EXCEPT !.pc = pc].id = th[t].id
           /\ [th[t] EXCEPT !.pc = pc].sb = th[t].sb
           /\ [th[t] EXCEPT !.pc = pc].w = th[t].w
           /\ [th[t] EXCEPT !.pc = pc].v = th[t].v
           /\ [th[t] EXCEPT !.pc = pc].rw = th[t].rw
           /\ [th[t] EXCEPT !.pc = pc].g = th[t].g
           /\ [th[t] EXCEPT !.pc = pc].gone = th[t].gone
<1>1. th[t] \in Requests
  BY RequestOK
<1>2. QED
  BY <1>1 DEF Requests

\* A step that moves only the program counter and keeps what the request owns.
LEMMA GotoOK ==
    ASSUME IInv, NEW t \in Threads, NEW pc \in Pcs, Goto(t, pc), WorkerOK',
           UNCHANGED <<store, created, golden>>,
           Shape([th[t] EXCEPT !.pc = pc]),
           ~golden => FreshRequest([th[t] EXCEPT !.pc = pc]),
           HoldsKnock([th[t] EXCEPT !.pc = pc]) <=> HoldsKnock(th[t]),
           HoldsGolden([th[t] EXCEPT !.pc = pc]) <=> HoldsGolden(th[t]),
           th[t].pc \in RestorePcs => pc \in RestorePcs
    PROVE  IInv'
<1> DEFINE r == [th[t] EXCEPT !.pc = pc]
<1>1. r \in Requests /\ r.pc = pc /\ r.id = th[t].id /\ r.rw = th[t].rw /\ r.gone = th[t].gone /\ r.g = th[t].g
  BY MovedRequest
<1>2. th' = [th EXCEPT ![t] = r] /\ UNCHANGED <<knockMu, goldenMu, reserve>>
  BY DEF Goto
<1>3. Becomes(t, r)
  BY <1>1, <1>2, KeepBecomes DEF IInv, Restoring
<1>4. HoldsGolden(r) => ~golden \/ ReadFails
  BY RequestOK
<1>5. QED
  BY <1>3, <1>4, QuietStepOK

\* The decision under knockMu: fail, wait without locks, or go on with a Worker.
LEMMA DecideOK ==
    ASSUME IInv, NEW t \in Threads, Decide(t)
    PROVE  IInv'
<1> DEFINE q == th[t]
           free == WithoutReserves(q.id, q.free)
           views(running) == ResumeCandidates(q.sb, q.id, q.up, free, running)
           seen == [q EXCEPT !.up = {}, !.free = {}]
<1>1. q \in Requests /\ Shape(q) /\ (golden \/ FreshRequest(q)) /\ q.pc = "probe"
  BY RequestOK DEF Decide
<1>2. q.op = "resume" /\ ~q.gone /\ q.id \in Sandboxes /\ q.g = None
  BY <1>1 DEF Shape, CallPcs, StopPcs, BuildPcs
<1>3. WorkerOK' /\ UNCHANGED <<store, created, golden>>
  BY WorkersIdle DEF Decide, IInv
<1>4. HoldsKnock(q) /\ ~HoldsGolden(q) /\ ~Restoring(q)
  BY <1>1, <1>2 DEF HoldsKnock, HoldsGolden, Restoring, GoldenPcs, BuildPcs, RestorePcs
<1>5. \A running \in Listed : \A view \in views(running) :
         view.free \in SUBSET Workers /\ view.running \in SUBSET Running
  <2>1. q.up \in SUBSET Workers /\ free \in SUBSET Workers
    BY <1>1 DEF Requests, WithoutReserves
  <2>2. QED
    BY <2>1, CandidatesOK
<1>6. CASE Return(t)
  BY <1>3, <1>6, ReturnOK
<1>7. ASSUME NEW running \in Listed, NEW view \in views(running), NEW ok \in Eligible(view.free),
             NEW p \in Placements(q.sb.worker, ok, view.running),
             th' = [th EXCEPT ![t] = [seen EXCEPT !.w = p.worker, !.v = p.victim,
                                        !.pc = IF p.victim = None THEN "source" ELSE "begin"]],
             UNCHANGED <<knockMu, goldenMu, reserve>>
      PROVE  IInv'
  <2> DEFINE pc == IF p.victim = None THEN "source" ELSE "begin"
             r == [seen EXCEPT !.w = p.worker, !.v = p.victim, !.pc = pc]
  <2>1. p.worker \in Workers /\ (p.victim # None => p.victim \in Sandboxes /\ golden)
    BY <1>5, <1>7, PlacementOK, EligibleOK
  <2>2. r \in Requests
    <3>1. pc \in Pcs /\ p.worker \in OrNone(Workers) /\ p.victim \in OrNone(Ids)
      BY <2>1 DEF Pcs, OrNone, Ids
    <3> HIDE DEF pc
    <3>2. QED
      BY <1>1, <3>1 DEF Requests
  <2>3. /\ r.op = "resume" /\ ~r.gone /\ r.g = None /\ r.id = q.id /\ r.sb = q.sb
        /\ r.pc = pc /\ r.w = p.worker /\ r.v = p.victim
    BY <1>1, <1>2 DEF Requests
  <2>4. Shape(r)
    <3>1. r.pc \in {"source", "begin"} /\ (r.pc = "begin" => r.v \in Sandboxes)
      BY <2>1, <2>3
    <3>2. r.v \notin Goldens
      BY <2>1, <2>3, IdsAssumption
    <3> HIDE DEF r
    <3>3. QED
      BY <1>1, <1>2, <2>1, <2>3, <3>1, <3>2
         DEF Shape, GoldenPcs, BuildPcs, StopPcs, RestorePcs, CallPcs
  <2>5. HoldsKnock(r) /\ ~HoldsGolden(r)
    BY <2>1, <2>3 DEF HoldsKnock, HoldsGolden, GoldenPcs, BuildPcs, StopPcs
  <2>6. ~golden => FreshRequest(r)
    BY <1>1, <2>1, <2>3 DEF FreshRequest, RestorePcs
  <2>7. Becomes(t, r)
    BY <1>4, <1>7, <2>2, <2>4, <2>5, KeepBecomes DEF IInv
  <2>8. QED
    BY <1>3, <2>5, <2>6, <2>7, QuietStepOK
<1>8. CASE Leave(t, [seen EXCEPT !.pc = "lobby"])
  <2> DEFINE r == [seen EXCEPT !.pc = "lobby"]
  <2>1. /\ r \in Requests /\ r.op = "resume" /\ ~r.gone /\ r.g = None /\ r.id = q.id /\ r.sb = q.sb
        /\ r.pc = "lobby"
    BY <1>1, <1>2 DEF Requests, Pcs
  <2>2. Shape(r) /\ ~HoldsKnock(r) /\ ~HoldsGolden(r)
    BY <1>1, <1>2, <2>1 DEF Shape, HoldsKnock, HoldsGolden,
                            GoldenPcs, BuildPcs, StopPcs, RestorePcs, CallPcs
  <2>3. ~golden => FreshRequest(r)
    BY <1>1, <2>1 DEF FreshRequest, RestorePcs
  <2>4. Becomes(t, r)
    BY <1>8, <2>1, <2>2, LeaveBecomes DEF IInv
  <2>5. QED
    BY <1>3, <2>2, <2>3, <2>4, QuietStepOK
<1>9. QED
  <2>1. \/ Return(t)
        \/ \E running \in Listed : \E view \in views(running) : \E ok \in Eligible(view.free) :
              \/ \E p \in Placements(q.sb.worker, ok, view.running) :
                    /\ th' = [th EXCEPT ![t] =
                                [seen EXCEPT !.w = p.worker, !.v = p.victim,
                                   !.pc = IF p.victim = None THEN "source" ELSE "begin"]]
                    /\ UNCHANGED <<knockMu, goldenMu, reserve>>
              \/ Leave(t, [seen EXCEPT !.pc = "lobby"])
    BY DEF Decide
  <2>2. QED
    BY <1>6, <1>7, <1>8, <2>1

\* The reservation is made while knockMu is still held, and the mutexes then given back.
LEMMA AdmitOK ==
    ASSUME IInv, NEW t \in Threads, Admit(t), WorkerOK', StoreOK', store' = store,
           golden', golden' # golden => goldenMu = t,
           th[t].op = "resume", ~th[t].gone, th[t].w \in Workers, ~Restoring(th[t])
    PROVE  IInv'
<1> DEFINE q == th[t]
           r == [th[t] EXCEPT !.pc = "restore", !.v = th[t].id, !.rw = th[t].w,
                              !.w = None, !.g = None]
<1>1. q \in Requests /\ Shape(q) /\ q.id \in Sandboxes
  BY RequestOK DEF Shape
<1>2. /\ th' = [th EXCEPT ![t] = r]
      /\ reserve' = [reserve EXCEPT ![q.w] = q.id]
      /\ knockMu' = UnlockedBy(knockMu, t) /\ goldenMu' = UnlockedBy(goldenMu, t)
  BY DEF Admit, IInv, RequestsOK
<1>3. r \in Requests
  BY <1>1 DEF Requests, Pcs, OrNone, Ids
<1>4. /\ r.op = "resume" /\ ~r.gone /\ r.g = None /\ r.id = q.id /\ r.sb = q.sb /\ r.v = q.id
      /\ r.rw = q.w /\ r.pc = "restore"
  BY <1>1 DEF Requests
<1>5. Shape(r)
  BY <1>1, <1>4 DEF Shape, GoldenPcs, BuildPcs, StopPcs, RestorePcs, CallPcs
<1>6. ~HoldsKnock(r) /\ ~HoldsGolden(r) /\ Restoring(r)
  BY <1>4 DEF HoldsKnock, HoldsGolden, Restoring, GoldenPcs, BuildPcs, StopPcs, RestorePcs
<1>7. MutexStep(knockMu, knockMu', t, HoldsKnock(r))
  BY <1>2, <1>6, SchedulerAssumption DEF MutexStep, IInv, RequestsOK, UnlockedBy, OrNone
<1>8. MutexStep(goldenMu, goldenMu', t, HoldsGolden(r))
  BY <1>2, <1>6, SchedulerAssumption DEF MutexStep, IInv, RequestsOK, UnlockedBy, OrNone
<1>9. ReserveStep(t, r)
  <2>1. reserve' \in [Workers -> OrNone(Sandboxes)]
    BY <1>1, <1>2 DEF IInv, RequestsOK, OrNone
  <2>2. \A w \in Workers : reserve'[w] = IF w = q.w THEN q.id ELSE reserve[w]
    BY <1>2 DEF IInv, RequestsOK
  <2>3. QED
    BY <1>4, <1>6, <2>1, <2>2 DEF ReserveStep
<1>10. Becomes(t, r)
  BY <1>2, <1>3, <1>5, <1>7, <1>8, <1>9 DEF Becomes
<1>11. QED
  BY <1>6, <1>10, StepOK

\* A Resume has its Worker and picks its snapshot.
LEMMA SourceOK ==
    ASSUME IInv, NEW t \in Threads, Source(t)
    PROVE  IInv'
<1> DEFINE q == th[t]
<1>1. /\ q \in Requests /\ Shape(q) /\ (golden \/ FreshRequest(q)) /\ q.pc = "source"
      /\ (knockMu = t <=> HoldsKnock(q)) /\ (goldenMu = t <=> HoldsGolden(q))
  BY RequestOK DEF Source
<1>2. q.op = "resume" /\ ~q.gone /\ q.id \in Sandboxes /\ q.w \in Workers /\ q.g = None
  BY <1>1 DEF Shape, CallPcs, StopPcs, BuildPcs
<1>3. WorkerOK' /\ StoreOK' /\ UNCHANGED <<store, created, golden>>
  BY WorkersIdle DEF Source, IInv, StoreOK
<1>4. HoldsKnock(q) /\ ~HoldsGolden(q) /\ ~Restoring(q)
  BY <1>1, <1>2 DEF HoldsKnock, HoldsGolden, Restoring, GoldenPcs, BuildPcs, RestorePcs
<1>5. CASE Return(t)
  BY <1>3, <1>5, ReturnOK
<1>6. CASE Goto(t, "glock")
  <2> DEFINE r == [th[t] EXCEPT !.pc = "glock"]
  <2>1. /\ r.op = "resume" /\ ~r.gone /\ r.g = None /\ r.id = q.id /\ r.sb = q.sb /\ r.w = q.w
        /\ r.pc = "glock"
    BY <1>2, MovedRequest DEF Pcs
  <2>2. Shape(r)
    BY <1>1, <1>2, <2>1 DEF Shape, GoldenPcs, BuildPcs, StopPcs, RestorePcs, CallPcs
  <2>3. HoldsKnock(r) /\ ~HoldsGolden(r)
    BY <2>1 DEF HoldsKnock, HoldsGolden, GoldenPcs, BuildPcs
  <2>4. ~golden => FreshRequest(r)
    BY <1>1, <2>1 DEF FreshRequest, RestorePcs
  <2>5. QED
    BY <1>1, <1>3, <1>4, <1>6, <2>2, <2>3, <2>4, GotoOK DEF Pcs, RestorePcs
<1>7. CASE (NeedGolden(q.sb) => golden) /\ Admit(t)
  <2>1. golden
    BY <1>1, <1>7 DEF NeedGolden, LocalOnly, FreshRequest, FreshSb
  <2>2. QED
    BY <1>2, <1>3, <1>4, <1>7, <2>1, AdmitOK
<1>8. QED
  BY <1>5, <1>6, <1>7 DEF Source

\* The Worker's part of a Restore, answered to a caller that may have hung up.
LEMMA RestoreStepOK ==
    ASSUME IInv, NEW t \in Threads, Restore(t) \/ Load(t)
    PROVE  IInv'
<1> DEFINE q == th[t]
<1>1. /\ q \in Requests /\ Shape(q) /\ (golden \/ FreshRequest(q)) /\ q.pc \in {"restore", "load"}
      /\ UNCHANGED <<store, created, golden>>
  BY RequestOK DEF Restore, Load
<1>2. q.v \in Sandboxes /\ q.rw \in Workers /\ golden
  BY <1>1 DEF Shape, RestorePcs, FreshRequest
<1>3. q.v \in Ids /\ WorkerOK
  BY <1>2 DEF Ids, IInv
<1>4. ASSUME NEW pc \in {"load", "put"}, Goto(t, pc), WorkerOK', ~q.gone \/ pc = "load"
      PROVE  IInv'
  <2> DEFINE r == [th[t] EXCEPT !.pc = pc]
  <2>1. /\ r.op = q.op /\ r.gone = q.gone /\ r.g = q.g /\ r.id = q.id /\ r.sb = q.sb /\ r.v = q.v
        /\ r.rw = q.rw /\ r.pc = pc
    BY MovedRequest DEF Pcs
  <2>2. Shape(r)
    BY <1>1, <1>2, <1>4, <2>1 DEF Shape, GoldenPcs, BuildPcs, StopPcs, RestorePcs, CallPcs
  <2>3. ~HoldsKnock(r) /\ ~HoldsGolden(r) /\ ~HoldsKnock(q) /\ ~HoldsGolden(q)
    BY <1>1, <1>4, <2>1, NotBuilding DEF HoldsKnock, HoldsGolden, GoldenPcs, BuildPcs, StopPcs
  <2>4. pc \in Pcs /\ pc \in RestorePcs
    BY DEF Pcs, RestorePcs
  <2>5. QED
    BY <1>1, <1>2, <1>4, <2>2, <2>3, <2>4, GotoOK
<1>5. CASE Restore(t)
  <2>1. CASE Claim(q.rw, q.v) /\ Goto(t, "load")
    BY <1>2, <1>3, <1>4, <2>1, ClaimOK
  <2>2. CASE Return(t) /\ UNCHANGED workerVars
    BY <1>1, <1>3, <2>2, WorkersIdle, ReturnOK
  <2>3. QED
    BY <1>5, <2>1, <2>2 DEF Restore
<1>6. CASE Load(t)
  <2> DEFINE path == RestorePath(q)
             key == RestoreKey(q)
  <2>1. key \in Keys \cup {None}
    BY <1>2 DEF RestoreKey, Keys
  <2>2. q.gone \in BOOLEAN
    BY <1>1 DEF Requests
  <2>3. CASE RtRestore(q.rw, q.v, path, key) /\ Reply(t, "put")
    <3>1. WorkerOK'
      BY <1>2, <1>3, <2>1, <2>2, <2>3, RestoreOK
    <3>2. CASE q.gone
      BY <1>1, <2>3, <3>1, <3>2, ReturnOK DEF Reply
    <3>3. CASE ~q.gone
      BY <1>4, <2>3, <3>1, <3>3 DEF Reply
    <3>4. QED
      BY <3>2, <3>3
  <2>4. CASE RestoreFails(q.rw, q.v, path, key, q.gone) /\ Return(t)
    <3>1. WorkerOK'
      BY <1>2, <1>3, <2>1, <2>2, <2>4, RestoreOK
    <3>2. QED
      BY <1>1, <2>4, <3>1, ReturnOK
  <2>5. QED
    BY <1>6, <2>3, <2>4 DEF Load
<1>7. QED
  BY <1>5, <1>6

\* The record a Resume writes names a Worker; it can only exist once golden does.
LEMMA PutRunningOK ==
    ASSUME IInv, NEW t \in Threads, PutRunning(t)
    PROVE  IInv'
<1> DEFINE q == th[t]
           rec == [state |-> "running", worker |-> q.rw, path |-> RestorePath(q),
                   source |-> q.sb.source]
           put == [store EXCEPT ![q.id] = rec]
           r == [th[t] EXCEPT !.pc = "clear"]
<1>1. q \in Requests /\ Shape(q) /\ (golden \/ FreshRequest(q)) /\ q.pc = "put"
  BY RequestOK DEF PutRunning
<1>2. /\ q.op = "resume" /\ ~q.gone /\ q.id \in Sandboxes /\ q.id = q.v /\ q.rw \in Workers
      /\ golden
  BY <1>1 DEF Shape, FreshRequest, CallPcs, RestorePcs
<1>3. WorkerOK' /\ created' = created /\ golden' = golden
  BY WorkersIdle DEF PutRunning, IInv
<1>4. rec \in SandboxRecords /\ SbOK(rec)
  BY <1>1, <1>2 DEF SandboxRecords, RestorePath, Requests, States, OrNone, SbOK
<1>5. store' \in {store, put}
  BY DEF PutRunning
<1>6. StoreOK'
  BY <1>2, <1>3, <1>4, <1>5 DEF StoreOK, IInv
<1>7. CASE Return(t)
  BY <1>2, <1>3, <1>6, <1>7, ReturnBecomes, NoRequestFresh, StepOK DEF IInv
<1>8. CASE Goto(t, "clear")
  <2>1. /\ r \in Requests /\ r.op = q.op /\ r.gone = q.gone /\ r.g = q.g /\ r.id = q.id /\ r.sb = q.sb
        /\ r.v = q.v /\ r.rw = q.rw /\ r.pc = "clear"
    BY <1>1 DEF Requests, Pcs
  <2>2. Shape(r)
    BY <1>1, <1>2, <2>1 DEF Shape, GoldenPcs, BuildPcs, StopPcs, RestorePcs, CallPcs
  <2>3. ~HoldsKnock(r) /\ ~HoldsGolden(r) /\ ~HoldsKnock(q) /\ ~HoldsGolden(q)
        /\ Restoring(r)
    BY <1>1, <1>2, <2>1, NotBuilding DEF HoldsKnock, HoldsGolden, Restoring, GoldenPcs, BuildPcs, StopPcs, RestorePcs
  <2>4. Becomes(t, r)
    BY <1>8, <2>1, <2>2, <2>3, KeepBecomes DEF Goto, IInv
  <2>5. QED
    BY <1>2, <1>3, <1>6, <2>3, <2>4, StepOK
<1>9. QED
  BY <1>7, <1>8 DEF PutRunning

\* Every step of a Resume.
LEMMA ResumeStepOK ==
    ASSUME IInv, NEW t \in Threads, ResumeStep(t)
    PROVE  IInv'
<1>1. CASE GiveUp(t) \/ ClearReserve(t)
  BY <1>1, WorkersIdle, ReturnOK DEF GiveUp, ClearReserve, IInv
<1>2. QED
  BY <1>1, LobbyOK, KnockOK, ProbeOK, DecideOK, SourceOK, RestoreStepOK, PutRunningOK DEF ResumeStep

-----------------------------------------------------------------------------
(* Pause, Suspend and eviction                                             *)

\* Pause and Suspend take knockMu before they read the record.
LEMMA LockStopOK ==
    ASSUME IInv, NEW t \in Threads, LockStop(t)
    PROVE  IInv'
<1> DEFINE q == th[t]
           r == [th[t] EXCEPT !.pc = "begin"]
<1>1. /\ q \in Requests /\ Shape(q) /\ (golden \/ FreshRequest(q)) /\ q.pc = "lock"
      /\ (goldenMu = t <=> HoldsGolden(q))
  BY RequestOK DEF LockStop
<1>2. /\ th' = [th EXCEPT ![t] = r] /\ knockMu = None /\ knockMu' = t
      /\ UNCHANGED <<goldenMu, reserve>>
  BY DEF LockStop
<1>3. ~q.gone /\ q.v \in Sandboxes /\ q.op \in {"pause", "suspend"} /\ q.v \notin Goldens
  BY <1>1, IdsAssumption DEF Shape, CallPcs
<1>4. /\ r \in Requests /\ r.pc = "begin" /\ r.op = q.op /\ r.v = q.v /\ r.sb = q.sb
      /\ r.gone = q.gone /\ r.g = q.g /\ r.g = None
  BY <1>1, <1>3, NotBuilding DEF Requests, Pcs
<1>5. Shape(r) /\ (~golden => FreshRequest(r))
  BY <1>1, <1>3, <1>4 DEF Shape, FreshRequest, GoldenPcs, BuildPcs, StopPcs, RestorePcs, CallPcs
<1>6. HoldsKnock(r) /\ ~HoldsGolden(r) /\ ~HoldsGolden(q) /\ ~Restoring(q)
  BY <1>1, <1>3, <1>4 DEF HoldsKnock, HoldsGolden, Restoring, GoldenPcs, BuildPcs, StopPcs, RestorePcs
<1>7. Becomes(t, r)
  <2>1. MutexStep(knockMu, knockMu', t, HoldsKnock(r))
    BY <1>2, <1>6 DEF MutexStep, OrNone
  <2>2. MutexStep(goldenMu, goldenMu', t, HoldsGolden(r))
    BY <1>1, <1>2, <1>6 DEF MutexStep, IInv, RequestsOK
  <2>3. ReserveStep(t, r)
    BY <1>2, <1>6 DEF ReserveStep, IInv, RequestsOK
  <2>4. QED
    BY <1>2, <1>4, <1>5, <2>1, <2>2, <2>3 DEF Becomes
<1>8. QED
  BY <1>5, <1>6, <1>7, WorkersIdle, QuietStepOK DEF LockStop, IInv

\* Only a sandbox that is still running is checkpointed.
LEMMA BeginOK ==
    ASSUME IInv, NEW t \in Threads, Begin(t)
    PROVE  IInv'
<1> DEFINE q == th[t]
           w == store[th[t].v].worker
           r == [th[t] EXCEPT !.pc = "ckpt", !.rw = w]
<1>1. q \in Requests /\ Shape(q) /\ (golden \/ FreshRequest(q)) /\ q.pc = "begin"
  BY RequestOK DEF Begin
<1>2. ~q.gone /\ q.v \in Sandboxes /\ q.op \in {"pause", "suspend", "resume", "golden"}
  BY <1>1 DEF Shape, CallPcs
<1>3. WorkerOK' /\ UNCHANGED <<store, created, golden>>
  BY WorkersIdle DEF Begin, IInv
<1>4. CASE Return(t)
  BY <1>3, <1>4, ReturnOK
<1>5. CASE /\ store[q.v].state = "running"
           /\ th' = [th EXCEPT ![t].pc = "ckpt", ![t].rw = w]
           /\ UNCHANGED <<knockMu, goldenMu, reserve>>
  <2>1. w \in Workers /\ golden
    BY <1>2, <1>5 DEF IInv, StoreOK, SbOK, Fresh, FreshSb
  <2>2. th' = [th EXCEPT ![t] = r]
    BY <1>5 DEF IInv, RequestsOK
  <2>3. /\ r \in Requests /\ r.pc = "ckpt" /\ r.op = q.op /\ r.id = q.id /\ r.sb = q.sb
        /\ r.w = q.w /\ r.v = q.v /\ r.rw = w /\ r.gone = q.gone /\ r.g = q.g
    BY <1>1, <2>1 DEF Requests, Pcs, OrNone
  <2>4. q.v \notin Goldens /\ q.v \in Ids
    BY <1>2, IdsAssumption DEF Ids
  <2>5. Shape(r)
    BY <1>1, <1>2, <2>1, <2>3, <2>4 DEF Shape, GoldenPcs, BuildPcs, StopPcs, RestorePcs, CallPcs
  <2>6. /\ HoldsKnock(r) <=> HoldsKnock(q)
        /\ HoldsGolden(r) <=> HoldsGolden(q)
        /\ ~Restoring(q)
    BY <1>1, <1>2, <2>3, <2>4 DEF HoldsKnock, HoldsGolden, Restoring, GoldenPcs, BuildPcs, StopPcs, RestorePcs
  <2>7. Becomes(t, r)
    BY <1>5, <2>2, <2>3, <2>5, <2>6, KeepBecomes DEF IInv
  <2>8. HoldsGolden(r) => ~golden \/ ReadFails
    BY <2>6, RequestOK
  <2>9. QED
    BY <1>3, <2>1, <2>7, <2>8, QuietStepOK
<1>6. QED
  BY <1>4, <1>5 DEF Begin

\* What becomes of a request that goes on from a checkpoint call.
LEMMA CheckpointedRequest ==
    ASSUME IInv, NEW t \in Threads, th[t].pc \in {"ckpt", "upload"},
           NEW pc,
           \/ pc = "upload"
           \/ pc = "save" /\ th[t].v \notin Goldens /\ ~th[t].gone
           \/ pc \in {"gput", "gundo"} /\ th[t].v \in Goldens /\ ~th[t].gone,
           NEW r, r = [th[t] EXCEPT !.pc = pc]
    PROVE  /\ r \in Requests /\ pc \in Pcs
           /\ Shape(r)
           /\ ~golden => FreshRequest(r)
           /\ HoldsKnock(r) <=> HoldsKnock(th[t])
           /\ HoldsGolden(r) <=> HoldsGolden(th[t])
           /\ ~Restoring(r) /\ ~Restoring(th[t])
<1> DEFINE q == th[t]
<1>1. q \in Requests /\ Shape(q) /\ (golden \/ FreshRequest(q))
  BY RequestOK
<1>2. pc \in {"upload", "save", "gput", "gundo"} /\ pc \in Pcs
  BY DEF Pcs
<1>3. /\ r \in Requests
      /\ r.op = q.op /\ r.gone = q.gone /\ r.g = q.g /\ r.id = q.id /\ r.sb = q.sb /\ r.w = q.w
      /\ r.v = q.v /\ r.rw = q.rw /\ r.pc = pc
  BY <1>1, <1>2 DEF Requests
<1>4. q.v \in Ids /\ q.rw \in Workers
  BY <1>1 DEF Shape
<1>5. q.v \in Sandboxes <=> q.v \notin Goldens
  BY <1>4, IdsAssumption DEF Ids
<1>6. Shape(r)
  BY <1>1, <1>2, <1>3, <1>4, <1>5 DEF Shape, GoldenPcs, BuildPcs, StopPcs, RestorePcs, CallPcs
<1>7. ~golden => FreshRequest(r)
  BY <1>1, <1>2, <1>3 DEF FreshRequest, RestorePcs
<1>8. HoldsKnock(r) <=> HoldsKnock(q)
  BY <1>1, <1>2, <1>3, <1>5 DEF Shape, HoldsKnock, StopPcs, GoldenPcs, BuildPcs
<1>9. HoldsGolden(r) <=> HoldsGolden(q)
  BY <1>2, <1>3, <1>5 DEF HoldsGolden, GoldenPcs, BuildPcs
<1>10. ~Restoring(r) /\ ~Restoring(q)
  BY <1>2, <1>3 DEF Restoring, RestorePcs
<1>11. QED
  BY <1>2, <1>3, <1>6, <1>7, <1>8, <1>9, <1>10

\* From a checkpoint call a request goes on or, for golden, cleans up, with its locks.
LEMMA CheckpointGoesOn ==
    ASSUME IInv, NEW t \in Threads, th[t].pc \in {"ckpt", "upload"}, WorkerOK',
           UNCHANGED <<store, created, golden>>,
           NEW pc, Goto(t, pc),
           \/ pc = "upload"
           \/ pc = "save" /\ th[t].v \notin Goldens /\ ~th[t].gone
           \/ pc \in {"gput", "gundo"} /\ th[t].v \in Goldens /\ ~th[t].gone
    PROVE  IInv'
<1> DEFINE r == [th[t] EXCEPT !.pc = pc]
<1>1. /\ r \in Requests /\ pc \in Pcs /\ Shape(r) /\ (~golden => FreshRequest(r))
      /\ HoldsKnock(r) <=> HoldsKnock(th[t])
      /\ HoldsGolden(r) <=> HoldsGolden(th[t])
  BY CheckpointedRequest
<1>2. th[t].pc \notin RestorePcs
  BY DEF RestorePcs
<1>3. QED
  BY <1>1, <1>2, GotoOK

\* The Worker's part of a checkpoint call, and what its caller does with the answer.
LEMMA CheckpointStepOK ==
    ASSUME IInv, NEW t \in Threads, Ckpt(t) \/ Upload(t)
    PROVE  IInv'
<1> DEFINE q == th[t]
           key == ObjectKeyFor(q.v)
           next == IF q.v \in Goldens THEN "gput" ELSE "save"
<1>1. /\ q \in Requests /\ Shape(q) /\ q.pc \in {"ckpt", "upload"}
      /\ UNCHANGED <<store, created, golden>> /\ WorkerOK
  BY RequestOK DEF Ckpt, Upload, IInv
<1>2. q.v \in Ids /\ q.rw \in Workers
  BY <1>1 DEF Shape
<1>3. key \in Keys /\ q.gone \in BOOLEAN
  BY <1>1, <1>2 DEF ObjectKeyFor, Keys, Ids, Requests
<1>4. ASSUME CallFails(t), WorkerOK'
      PROVE  IInv'
  <2>1. CASE Return(t)
    BY <1>1, <1>4, <2>1, ReturnOK
  <2>2. CASE q.v \in Goldens /\ ~q.gone /\ Goto(t, "gundo")
    BY <1>1, <1>4, <2>2, CheckpointGoesOn
  <2>3. QED
    BY <1>4, <2>1, <2>2 DEF CallFails
<1>5. ASSUME Reply(t, next), WorkerOK'
      PROVE  IInv'
  <2>1. CASE q.gone
    BY <1>1, <1>5, <2>1, ReturnOK DEF Reply
  <2>2. CASE ~q.gone
    <3>1. Goto(t, next)
      BY <1>5, <2>2 DEF Reply
    <3>2. QED
      BY <1>1, <1>5, <2>2, <3>1, CheckpointGoesOn
  <2>3. QED
    BY <2>1, <2>2
<1>6. CASE Ckpt(t)
  <2>1. WorkerOK'
    BY <1>1, <1>2, <1>6, CheckpointOK DEF Ckpt
  <2>2. CASE Goto(t, "upload")
    BY <1>1, <2>1, <2>2, CheckpointGoesOn
  <2>3. QED
    BY <1>4, <1>6, <2>1, <2>2 DEF Ckpt
<1>7. CASE Upload(t)
  <2>1. \/ KeepLocal(q.rw, q.v) /\ Reply(t, next)
        \/ UploadDir(q.rw, q.v, key) /\ Reply(t, next)
        \/ UploadDirFails(q.rw, q.v, key, q.gone) /\ CallFails(t)
    BY <1>7 DEF Upload
  <2>2. WorkerOK'
    BY <1>1, <1>2, <1>3, <2>1, UploadOK
  <2>3. QED
    BY <1>4, <1>5, <2>1, <2>2
<1>8. QED
  BY <1>6, <1>7

\* A stopped sandbox remembers the Worker it stopped on.
LEMMA SaveOK ==
    ASSUME IInv, NEW t \in Threads, Save(t)
    PROVE  IInv'
<1> DEFINE q == th[t]
           rec == StoppedSandbox(q.op, q.rw)
           put == [store EXCEPT ![q.v] = rec]
           r == [th[t] EXCEPT !.pc = "source"]
           b == [th[t] EXCEPT !.pc = "gboot", !.rw = th[t].g]
<1>1. q \in Requests /\ Shape(q) /\ (golden \/ FreshRequest(q)) /\ q.pc = "save"
  BY RequestOK DEF Save
<1>2. /\ ~q.gone /\ q.v \in Sandboxes /\ q.rw \in Workers /\ golden
      /\ q.op \in {"pause", "suspend", "resume", "golden"}
  BY <1>1 DEF Shape, FreshRequest, CallPcs
<1>3. WorkerOK' /\ created' = created /\ golden' = golden
  BY WorkersIdle DEF Save, IInv
<1>4. rec \in SandboxRecords /\ SbOK(rec)
  BY <1>2 DEF StoppedSandbox, SandboxRecords, States, Sources, OrNone, SbOK
<1>5. store' \in {store, put}
  BY DEF Save
<1>6. StoreOK'
  BY <1>2, <1>3, <1>4, <1>5 DEF StoreOK, IInv
<1>7. ~Restoring(q) /\ (HoldsGolden(q) => ~golden \/ ReadFails)
  BY <1>1, RequestOK DEF Restoring, RestorePcs
<1>8. CASE Return(t)
  BY <1>2, <1>3, <1>6, <1>8, ReturnBecomes, NoRequestFresh, StepOK DEF IInv
<1>9. CASE q.op = "resume" /\ q.g = None /\ Goto(t, "source")
  <2>1. /\ r \in Requests /\ r.op = q.op /\ r.gone = q.gone /\ r.g = None /\ r.id = q.id
        /\ r.sb = q.sb /\ r.w = q.w /\ r.pc = "source"
    BY <1>1, <1>9 DEF Requests, Pcs
  <2>2. Shape(r)
    BY <1>1, <1>2, <1>9, <2>1 DEF Shape, GoldenPcs, BuildPcs, StopPcs, RestorePcs, CallPcs
  <2>3. HoldsKnock(r) /\ HoldsKnock(q) /\ ~HoldsGolden(r) /\ ~HoldsGolden(q)
    BY <1>1, <1>2, <1>9, <2>1 DEF HoldsKnock, HoldsGolden, StopPcs
  <2>4. Becomes(t, r)
    BY <1>7, <1>9, <2>1, <2>2, <2>3, KeepBecomes DEF Goto, IInv
  <2>5. QED
    BY <1>2, <1>3, <1>6, <2>3, <2>4, StepOK
<1>10. CASE /\ q.g # None
            /\ th' = [th EXCEPT ![t].pc = "gboot", ![t].rw = q.g]
            /\ UNCHANGED <<knockMu, goldenMu, reserve>>
  <2>1. q.op \in {"resume", "golden"} /\ q.g \in Workers
    BY <1>1, <1>10 DEF Shape, Requests, OrNone
  <2>2. th' = [th EXCEPT ![t] = b]
    BY <1>10 DEF IInv, RequestsOK
  <2>3. /\ b \in Requests /\ b.op = q.op /\ b.gone = q.gone /\ b.g = q.g /\ b.id = q.id
        /\ b.sb = q.sb /\ b.w = q.w /\ b.rw = q.g /\ b.pc = "gboot"
    BY <1>1, <2>1 DEF Requests, Pcs, OrNone
  <2>4. Shape(b)
    BY <1>1, <1>2, <2>1, <2>3 DEF Shape, GoldenPcs, BuildPcs, StopPcs, RestorePcs, CallPcs
  <2>5. (HoldsKnock(b) <=> HoldsKnock(q)) /\ (HoldsGolden(b) <=> HoldsGolden(q))
    BY <1>1, <1>2, <2>1, <2>3 DEF HoldsKnock, HoldsGolden, GoldenPcs, BuildPcs, StopPcs
  <2>6. Becomes(t, b)
    BY <1>7, <1>10, <2>2, <2>3, <2>4, <2>5, KeepBecomes DEF IInv
  <2>7. QED
    BY <1>2, <1>3, <1>6, <1>7, <2>5, <2>6, StepOK
<1>11. QED
  BY <1>8, <1>9, <1>10 DEF Save

\* Every step of pauseOrSuspend.
LEMMA StopStepOK ==
    ASSUME IInv, NEW t \in Threads, StopStep(t)
    PROVE  IInv'
BY LockStopOK, BeginOK, CheckpointStepOK, SaveOK DEF StopStep

-----------------------------------------------------------------------------
(* EnsureGolden                                                            *)

\* The prefix is known: POST /v1/golden returns, a Resume is admitted.
LEMMA GoldenDoneOK ==
    ASSUME IInv, NEW t \in Threads, th[t].pc \in {"glock", "gput"}, GoldenDone(t),
           WorkerOK', StoreOK', store' = store, golden',
           golden' # golden => goldenMu = t
    PROVE  IInv'
<1>1. Shape(th[t])
  BY RequestOK
<1>2. ~th[t].gone /\ th[t].op \in {"resume", "golden"} /\ ~Restoring(th[t])
  BY <1>1 DEF Shape, CallPcs, GoldenPcs, BuildPcs, Restoring, RestorePcs
<1>3. CASE th[t].op = "golden"
  BY <1>3, ReturnBecomes, NoRequestFresh, StepOK DEF GoldenDone, IInv
<1>4. CASE th[t].op = "resume"
  <2>1. th[t].w \in Workers
    BY <1>1, <1>2, <1>4 DEF Shape, GoldenPcs, BuildPcs
  <2>2. QED
    BY <1>2, <1>4, <2>1, AdmitOK DEF GoldenDone
<1>5. QED
  BY <1>2, <1>3, <1>4

\* goldenMu is taken only when no golden snapshot is recorded, or the read fails.
LEMMA LockGoldenOK ==
    ASSUME IInv, NEW t \in Threads, LockGolden(t)
    PROVE  IInv'
<1> DEFINE q == th[t]
           r == [th[t] EXCEPT !.pc = "gprobe", !.left = Workers]
<1>1. /\ q \in Requests /\ Shape(q) /\ (golden \/ FreshRequest(q)) /\ q.pc = "glock"
      /\ (knockMu = t <=> HoldsKnock(q)) /\ goldenMu = None
  BY RequestOK DEF LockGolden
<1>2. ~q.gone /\ q.op \in {"resume", "golden"}
  BY <1>1 DEF Shape, CallPcs
<1>3. WorkerOK' /\ UNCHANGED <<store, created, golden>> /\ StoreOK'
  BY WorkersIdle DEF LockGolden, IInv, StoreOK
<1>4. CASE golden /\ GoldenDone(t)
  BY <1>1, <1>3, <1>4, GoldenDoneOK
<1>5. CASE /\ ~golden \/ ReadFails
           /\ goldenMu' = t /\ UNCHANGED <<knockMu, reserve>>
           /\ th' = [th EXCEPT ![t].pc = "gprobe", ![t].left = Workers]
  <2>1. goldenMu' = t /\ UNCHANGED <<knockMu, reserve>>
    BY <1>5
  <2>2. th' = [th EXCEPT ![t] = r]
    BY <1>5 DEF IInv, RequestsOK
  <2>3. /\ r \in Requests /\ r.op = q.op /\ r.gone = q.gone /\ r.g = q.g /\ r.id = q.id /\ r.sb = q.sb
        /\ r.w = q.w /\ r.pc = "gprobe"
    BY <1>1 DEF Requests, Pcs
  <2>4. Shape(r) /\ (~golden => FreshRequest(r))
    BY <1>1, <1>2, <2>3 DEF Shape, FreshRequest, GoldenPcs, BuildPcs, StopPcs, RestorePcs, CallPcs
  <2>5. (HoldsKnock(r) <=> HoldsKnock(q)) /\ HoldsGolden(r) /\ ~Restoring(q)
    BY <1>1, <1>2, <2>3 DEF HoldsKnock, HoldsGolden, Restoring, GoldenPcs, BuildPcs, StopPcs, RestorePcs
  <2>6. MutexStep(knockMu, knockMu', t, HoldsKnock(r))
    BY <1>1, <2>1, <2>5 DEF MutexStep, IInv, RequestsOK
  <2>7. MutexStep(goldenMu, goldenMu', t, HoldsGolden(r))
    BY <1>1, <2>1, <2>5 DEF MutexStep, OrNone
  <2>8. ReserveStep(t, r)
    BY <2>1, <2>5 DEF ReserveStep, IInv, RequestsOK
  <2>9. Becomes(t, r)
    BY <2>2, <2>3, <2>4, <2>6, <2>7, <2>8 DEF Becomes
  <2>10. QED
    BY <1>3, <1>5, <2>4, <2>9, QuietStepOK
<1>6. QED
  BY <1>4, <1>5 DEF LockGolden

\* EnsureGolden takes an idle Worker, or a victim's, which means that a golden snapshot
\* is recorded and could not be read.
LEMMA DecideGoldenOK ==
    ASSUME IInv, NEW t \in Threads, DecideGolden(t)
    PROVE  IInv'
<1> DEFINE q == th[t]
           seen == [q EXCEPT !.up = {}, !.free = {}]
<1>1. /\ q \in Requests /\ Shape(q) /\ (golden \/ FreshRequest(q)) /\ q.pc = "gprobe"
      /\ HoldsGolden(q) => ~golden \/ ReadFails
  BY RequestOK DEF DecideGolden
<1>2. ~q.gone /\ q.op \in {"resume", "golden"} /\ q.g = None
  BY <1>1 DEF Shape, CallPcs, GoldenPcs, BuildPcs, StopPcs
<1>3. HoldsGolden(q) /\ (~golden \/ ReadFails) /\ ~Restoring(q)
  BY <1>1, <1>2 DEF HoldsGolden, Restoring, RestorePcs
<1>4. WorkerOK' /\ UNCHANGED <<store, created, golden>>
  BY WorkersIdle DEF DecideGolden, IInv
<1>5. CASE Return(t)
  BY <1>4, <1>5, ReturnOK
<1>6. CASE q.op = "resume" /\ Leave(t, [seen EXCEPT !.pc = "lobby", !.w = None])
  <2> DEFINE r == [seen EXCEPT !.pc = "lobby", !.w = None]
  <2>1. /\ r \in Requests /\ r.op = "resume" /\ ~r.gone /\ r.g = None /\ r.id = q.id /\ r.sb = q.sb
        /\ r.pc = "lobby"
    <3>1. /\ seen \in Requests /\ seen.op = q.op /\ seen.gone = q.gone /\ seen.g = q.g
          /\ seen.id = q.id /\ seen.sb = q.sb
      BY <1>1 DEF Requests
    <3> HIDE DEF seen
    <3>2. r \in Requests
      BY <3>1 DEF Requests, Pcs, OrNone
    <3>3. QED
      BY <1>2, <1>6, <3>1, <3>2 DEF Requests
  <2>2. Shape(r) /\ ~HoldsKnock(r) /\ ~HoldsGolden(r)
    BY <1>1, <1>2, <1>6, <2>1 DEF Shape, HoldsKnock, HoldsGolden,
                                  GoldenPcs, BuildPcs, StopPcs, RestorePcs, CallPcs
  <2>3. ~golden => FreshRequest(r)
    BY <1>1, <2>1 DEF FreshRequest, RestorePcs
  <2>4. Becomes(t, r)
    BY <1>6, <2>1, <2>2, LeaveBecomes DEF IInv
  <2>5. QED
    BY <1>4, <2>2, <2>3, <2>4, QuietStepOK
<1>7. ASSUME NEW running \in Listed, NEW ok \in Eligible(q.free),
             NEW p \in Placements(None, ok, running),
             th' = [th EXCEPT ![t] = [seen EXCEPT !.g = p.worker, !.rw = p.worker, !.v = p.victim,
                                        !.pc = IF p.victim = None THEN "gboot" ELSE "begin"]],
             UNCHANGED <<knockMu, goldenMu, reserve>>
      PROVE  IInv'
  <2> DEFINE pc == IF p.victim = None THEN "gboot" ELSE "begin"
             r == [seen EXCEPT !.g = p.worker, !.rw = p.worker, !.v = p.victim, !.pc = pc]
  <2>1. ok \in SUBSET Workers /\ running \in SUBSET Running
    <3>1. q.free \in SUBSET Workers
      BY <1>1 DEF Requests
    <3>2. QED
      BY <1>7, <3>1, EligibleOK DEF Listed
  <2>2. p.worker \in Workers /\ (p.victim # None => p.victim \in Sandboxes /\ golden)
    BY <1>7, <2>1, PlacementOK
  <2>3. /\ r \in Requests /\ r.op = q.op /\ r.gone = q.gone /\ r.id = q.id /\ r.sb = q.sb
        /\ r.w = q.w /\ r.rw = p.worker /\ r.g = p.worker /\ r.v = p.victim /\ r.pc = pc
    <3>1. /\ seen \in Requests /\ seen.op = q.op /\ seen.gone = q.gone /\ seen.id = q.id
          /\ seen.sb = q.sb /\ seen.w = q.w
      BY <1>1 DEF Requests
    <3>2. pc \in Pcs /\ p.worker \in OrNone(Workers) /\ p.victim \in OrNone(Ids)
      BY <2>2 DEF Pcs, OrNone, Ids
    <3> HIDE DEF seen, pc
    <3>3. r \in Requests
      BY <3>1, <3>2 DEF Requests
    <3>4. QED
      BY <3>1, <3>2, <3>3 DEF Requests
  <2>4. p.worker # None
    BY <2>2, IdsAssumption
  <2>5. Shape(r)
    BY <1>1, <1>2, <2>2, <2>3, <2>4
       DEF Shape, GoldenPcs, BuildPcs, StopPcs, RestorePcs, CallPcs
  <2>6. ~golden => FreshRequest(r)
    BY <1>1, <2>2, <2>3 DEF FreshRequest, RestorePcs
  <2>7. (HoldsKnock(r) <=> HoldsKnock(q)) /\ HoldsGolden(r)
    BY <1>1, <1>2, <2>2, <2>3, <2>4 DEF HoldsKnock, HoldsGolden, GoldenPcs, BuildPcs, StopPcs
  <2>8. Becomes(t, r)
    BY <1>3, <1>7, <2>3, <2>5, <2>7, KeepBecomes DEF IInv
  <2>9. QED
    BY <1>3, <1>4, <2>6, <2>8, QuietStepOK
<1>8. QED
  <2>1. \/ Return(t)
        \/ \E running \in Listed : \E ok \in Eligible(q.free) :
              \/ \E p \in Placements(None, ok, running) :
                    /\ th' = [th EXCEPT ![t] =
                                [seen EXCEPT !.g = p.worker, !.rw = p.worker, !.v = p.victim,
                                   !.pc = IF p.victim = None THEN "gboot" ELSE "begin"]]
                    /\ UNCHANGED <<knockMu, goldenMu, reserve>>
              \/ IF q.op = "resume" THEN Leave(t, [seen EXCEPT !.pc = "lobby", !.w = None])
                 ELSE Return(t)
    BY DEF DecideGolden
  <2>2. QED
    BY <1>5, <1>6, <1>7, <2>1

\* The golden sandbox is booted under goldenMu (and knockMu, from a Resume): the claim.
LEMMA BootGoldenOK ==
    ASSUME IInv, NEW t \in Threads, BootGolden(t)
    PROVE  IInv'
<1> DEFINE q == th[t]
<1>1. /\ q \in Requests /\ Shape(q) /\ (golden \/ FreshRequest(q)) /\ q.pc = "gboot"
      /\ HoldsGolden(q) => ~golden \/ ReadFails
      /\ UNCHANGED <<store, created, golden>> /\ WorkerOK
  BY RequestOK DEF BootGolden, IInv
<1>2. q.rw \in Workers /\ q.op \in {"resume", "golden"}
  BY <1>1 DEF Shape, GoldenPcs, BuildPcs
<1>3. CASE Return(t) /\ UNCHANGED workerVars
  BY <1>1, <1>3, WorkersIdle, ReturnOK
<1>4. ASSUME NEW g \in Goldens, Claim(q.rw, g),
             th' = [th EXCEPT ![t].pc = "gstart", ![t].v = g],
             UNCHANGED <<knockMu, goldenMu, reserve>>
      PROVE  IInv'
  <2> DEFINE r == [th[t] EXCEPT !.pc = "gstart", !.v = g]
  <2>1. g \in Ids
    BY DEF Ids
  <2>2. WorkerOK'
    BY <1>1, <1>2, <1>4, <2>1, ClaimOK
  <2>3. th' = [th EXCEPT ![t] = r]
    BY <1>4 DEF IInv, RequestsOK
  <2>4. /\ r \in Requests /\ r.op = q.op /\ r.gone = q.gone /\ r.g = q.g /\ r.id = q.id /\ r.sb = q.sb
        /\ r.w = q.w /\ r.rw = q.rw /\ r.v = g /\ r.pc = "gstart"
    BY <1>1, <2>1 DEF Requests, Pcs, OrNone
  <2>5. Shape(r)
    <3> HIDE DEF r
    <3>1. CASE ~q.gone
      <4>1. q.g \in Workers
        BY <1>1, <3>1, Building DEF BuildPcs
      <4>2. QED
        BY <1>1, <1>2, <2>4, <3>1, <4>1
           DEF Shape, GoldenPcs, BuildPcs, StopPcs, RestorePcs, CallPcs
    <3>2. CASE q.gone
      BY <1>1, <1>2, <2>4, <3>2 DEF Shape, GoldenPcs, BuildPcs, StopPcs, RestorePcs, CallPcs
    <3>3. QED
      BY <3>1, <3>2
  <2>6. ~golden => FreshRequest(r)
    BY <1>1, <2>4 DEF FreshRequest, RestorePcs
  <2>7. /\ HoldsKnock(r) <=> HoldsKnock(q)
        /\ HoldsGolden(r) <=> HoldsGolden(q)
        /\ ~Restoring(q)
    BY <1>1, <1>2, <2>4 DEF HoldsKnock, HoldsGolden, Restoring, GoldenPcs, BuildPcs, StopPcs, RestorePcs
  <2>8. Becomes(t, r)
    BY <1>4, <2>3, <2>4, <2>5, <2>7, KeepBecomes DEF IInv
  <2>9. QED
    BY <1>1, <2>2, <2>6, <2>7, <2>8, QuietStepOK
<1>5. QED
  BY <1>3, <1>4 DEF BootGolden

\* ... and the boot itself.
LEMMA StartGoldenOK ==
    ASSUME IInv, NEW t \in Threads, StartGolden(t)
    PROVE  IInv'
<1> DEFINE q == th[t]
           r == [th[t] EXCEPT !.pc = "ckpt"]
<1>1. /\ q \in Requests /\ Shape(q) /\ (golden \/ FreshRequest(q)) /\ q.pc = "gstart"
      /\ UNCHANGED <<store, created, golden>>
  BY RequestOK DEF StartGolden
<1>2. /\ q.rw \in Workers /\ q.op \in {"resume", "golden"}
      /\ q.v \in Goldens /\ q.v \in Ids /\ q.v \notin Sandboxes
  BY <1>1, IdsAssumption DEF Shape, GoldenPcs, BuildPcs, Ids
<1>3. WorkerOK'
  BY <1>2, BootOK DEF StartGolden, IInv
<1>4. CASE Return(t)
  BY <1>1, <1>3, <1>4, ReturnOK
<1>5. CASE ~q.gone /\ Goto(t, "ckpt")
  <2>1. /\ r.op = q.op /\ r.gone = q.gone /\ r.g = q.g /\ r.id = q.id /\ r.sb = q.sb /\ r.w = q.w
        /\ r.v = q.v /\ r.rw = q.rw /\ r.pc = "ckpt"
    BY <1>1 DEF Requests
  <2>2. Shape(r)
    BY <1>1, <1>2, <1>5, <2>1 DEF Shape, GoldenPcs, BuildPcs, StopPcs, RestorePcs, CallPcs
  <2>3. ~golden => FreshRequest(r)
    BY <1>1, <1>2, <2>1 DEF FreshRequest, RestorePcs
  <2>4. (HoldsKnock(r) <=> HoldsKnock(q)) /\ HoldsGolden(r) /\ HoldsGolden(q)
    <3>1. q.g # None
      BY <1>1, <1>5, IdsAssumption DEF Shape, BuildPcs
    <3>2. QED
      BY <1>1, <1>2, <1>5, <2>1, <3>1 DEF HoldsKnock, HoldsGolden, GoldenPcs, BuildPcs, StopPcs
  <2>5. QED
    BY <1>1, <1>3, <1>5, <2>2, <2>3, <2>4, GotoOK DEF Pcs, RestorePcs
<1>6. QED
  BY <1>4, <1>5 DEF StartGolden, Reply

\* Every step of EnsureGolden.
LEMMA GoldenStepOK ==
    ASSUME IInv, NEW t \in Threads, GoldenStep(t)
    PROVE  IInv'
<1>1. Shape(th[t]) /\ (goldenMu = t <=> HoldsGolden(th[t]))
  BY RequestOK
<1>2. CASE UndoGolden(t)
  <2>1. th[t].rw \in Workers /\ th[t].v \in Ids
    BY <1>1, <1>2 DEF UndoGolden, Shape, Ids
  <2>2. WorkerOK'
    BY <1>2, <2>1, DeleteOK, WorkersIdle DEF UndoGolden, IInv
  <2>3. QED
    BY <1>2, <2>2, ReturnOK DEF UndoGolden
<1>3. CASE PutGolden(t)
  <2>1. WorkerOK' /\ StoreOK' /\ store' = store /\ (golden => golden') /\ th[t].pc = "gput"
    BY <1>3, WorkersIdle DEF PutGolden, IInv, StoreOK
  <2>2. goldenMu = t
    <3>1. ~th[t].gone
      BY <1>1, <2>1 DEF Shape, CallPcs
    <3>2. th[t].g \in Workers
      BY <1>1, <2>1, <3>1, Building DEF BuildPcs
    <3>3. QED
      BY <1>1, <3>1, <3>2, IdsAssumption DEF HoldsGolden
  <2>3. CASE golden' = TRUE /\ GoldenDone(t)
    BY <2>1, <2>2, <2>3, GoldenDoneOK
  <2>4. CASE Return(t)
    <3>1. golden \/ \A s \in Sandboxes : FreshSb(store[s])
      BY DEF IInv, Fresh
    <3>2. QED
      BY <2>1, <2>2, <2>4, <3>1, ReturnBecomes, NoRequestFresh, StepOK DEF IInv
  <2>5. QED
    BY <1>3, <2>3, <2>4 DEF PutGolden
<1>4. QED
  BY <1>2, <1>3, LockGoldenOK, DecideGoldenOK, BootGoldenOK, StartGoldenOK DEF GoldenStep

-----------------------------------------------------------------------------
(* Delete and Create                                                       *)

\* Delete touches the Worker, then the store, without a lock.
LEMMA DeleteStepOK ==
    ASSUME IInv, NEW t \in Threads, DeleteStep(t)
    PROVE  IInv'
<1> DEFINE q == th[t]
<1>1. q \in Requests /\ Shape(q) /\ (golden \/ FreshRequest(q))
  BY RequestOK
<1>2. CASE DeleteOnWorker(t)
  <2> DEFINE r == [th[t] EXCEPT !.pc = "dremove"]
  <2>1. q.pc = "dkill" /\ q.rw \in Workers /\ q.v \in Sandboxes /\ q.v \in Ids /\ ~q.gone /\ golden
    BY <1>1, <1>2 DEF DeleteOnWorker, Shape, Ids, CallPcs, FreshRequest
  <2>2. WorkerOK' /\ UNCHANGED <<store, created, golden>> /\ Goto(t, "dremove")
    BY <1>2, <2>1, DeleteOK, WorkersIdle DEF DeleteOnWorker, IInv
  <2>3. /\ r.op = q.op /\ r.gone = q.gone /\ r.g = q.g /\ r.id = q.id /\ r.sb = q.sb /\ r.v = q.v
        /\ r.pc = "dremove"
    BY <1>1 DEF Requests
  <2>4. Shape(r)
    BY <1>1, <2>1, <2>3 DEF Shape, GoldenPcs, BuildPcs, StopPcs, RestorePcs, CallPcs
  <2>5. ~HoldsKnock(r) /\ ~HoldsGolden(r) /\ ~HoldsKnock(q) /\ ~HoldsGolden(q)
    BY <2>1, <2>3, NotBuilding DEF HoldsKnock, HoldsGolden, GoldenPcs, BuildPcs, StopPcs
  <2>6. QED
    BY <2>1, <2>2, <2>4, <2>5, GotoOK DEF Pcs, RestorePcs
<1>3. CASE DeleteFromStore(t)
  <2> DEFINE removed == [store EXCEPT ![q.v] = NoSandbox]
  <2>1. q.v \in Sandboxes
    BY <1>1, <1>3 DEF DeleteFromStore, Shape
  <2>2. WorkerOK' /\ created' = created /\ golden' = golden /\ store' \in {store, removed}
    BY <1>3, WorkersIdle DEF DeleteFromStore, IInv
  <2>3. NoSandbox \in SandboxRecords /\ SbOK(NoSandbox) /\ FreshSb(NoSandbox)
    BY DEF NoSandbox, SandboxRecords, SbOK, FreshSb, States, Sources, OrNone
  <2>4. StoreOK'
    BY <2>1, <2>2, <2>3 DEF StoreOK, IInv
  <2>5. golden \/ \A s \in Sandboxes : FreshSb(store'[s])
    BY <2>1, <2>2, <2>3 DEF IInv, StoreOK, Fresh
  <2>6. QED
    BY <1>3, <2>2, <2>4, <2>5, ReturnBecomes, NoRequestFresh, StepOK DEF DeleteFromStore, IInv
<1>4. QED
  BY <1>2, <1>3 DEF DeleteStep

\* A new record is fresh.
LEMMA CreateOK ==
    ASSUME IInv, Create
    PROVE  IInv'
<1> DEFINE new == [NoSandbox EXCEPT !.state = "suspended"]
<1>1. PICK s \in Sandboxes : /\ store' \in {[store EXCEPT ![s] = new], store}
                              /\ created' = created \cup {s}
  BY DEF Create
<1>2. new \in SandboxRecords /\ SbOK(new) /\ FreshSb(new)
  BY DEF NoSandbox, SandboxRecords, SbOK, FreshSb, States, Sources, OrNone
<1>3. /\ WorkerOK' /\ UNCHANGED <<golden, knockMu, goldenMu, reserve, th>>
  BY WorkersIdle DEF Create, IInv
<1>4. StoreOK'
  BY <1>1, <1>2, <1>3 DEF StoreOK, IInv
<1>5. RequestsOK'
  BY <1>3 DEF RequestsOK, Locks, ReservationOwned, IInv
<1>6. golden \/ \A x \in Sandboxes : FreshSb(store'[x])
  BY <1>1, <1>2 DEF IInv, StoreOK, Fresh
<1>7. Fresh'
  BY <1>3, <1>6 DEF Fresh, IInv
<1>8. QED
  BY <1>3, <1>4, <1>5, <1>7 DEF IInv

-----------------------------------------------------------------------------
(* Failures                                                                *)

\* An abandoned handler holds nothing of the control plane's.
LEMMA OrphanOK ==
    ASSUME NEW q \in Requests, Shape(q), q.pc \in CallPcs
    PROVE  /\ Orphan(q) \in Requests
           /\ Shape(Orphan(q))
           /\ ~HoldsKnock(Orphan(q)) /\ ~HoldsGolden(Orphan(q)) /\ ~Restoring(Orphan(q))
           /\ FreshRequest(q) => FreshRequest(Orphan(q))
<1> DEFINE r == Orphan(q)
<1>1. /\ r \in Requests /\ r.gone = TRUE /\ r.op = q.op /\ r.pc = q.pc /\ r.sb = q.sb
      /\ r.v = q.v /\ r.rw = q.rw /\ r.g = None
  BY DEF Orphan, Requests, OrNone
<1>2. Shape(r)
  <2> HIDE DEF r
  <2>1. r.pc \in CallPcs /\ r.gone /\ r.pc \notin {"lobby", "knock", "probe", "source", "lock"}
    BY <1>1 DEF CallPcs
  <2>2. QED
    BY <1>1, <2>1 DEF Shape
<1>3. ~HoldsKnock(r) /\ ~HoldsGolden(r) /\ ~Restoring(r)
  BY <1>1 DEF HoldsKnock, HoldsGolden, Restoring
<1>4. FreshRequest(q) => FreshRequest(r)
  BY <1>1 DEF FreshRequest
<1>5. QED
  BY <1>1, <1>2, <1>3, <1>4

\* A caller that hangs up gives everything back.
LEMMA DetachOK ==
    ASSUME IInv, NEW t \in Threads, Detach(t)
    PROVE  IInv'
<1>1. /\ th[t] \in Requests /\ Shape(th[t]) /\ (golden \/ FreshRequest(th[t]))
      /\ th[t].pc \in CallPcs /\ ~th[t].gone
  BY RequestOK DEF Detach
<1>2. WorkerOK' /\ UNCHANGED <<store, created, golden>>
  BY WorkersIdle DEF Detach, IInv
<1>3. CASE Leave(t, Orphan(th[t]))
  <2>1. Becomes(t, Orphan(th[t]))
    BY <1>1, <1>3, OrphanOK, LeaveBecomes DEF IInv
  <2>2. QED
    BY <1>1, <1>2, <2>1, OrphanOK, QuietStepOK
<1>4. ASSUME th[t].v \in Goldens, th[t].pc \in {"ckpt", "upload"},
             NEW u \in Threads, th[u].pc = "idle",
             th' = [th EXCEPT ![t].pc = "gundo", ![u] = Orphan(th[t])],
             UNCHANGED <<knockMu, goldenMu, reserve>>
      PROVE  IInv'
  <2>1. PICK r : r = [th[t] EXCEPT !.pc = "gundo"]
    OBVIOUS
  <2>2. /\ r \in Requests /\ Shape(r) /\ (~golden => FreshRequest(r))
        /\ HoldsKnock(r) <=> HoldsKnock(th[t])
        /\ HoldsGolden(r) <=> HoldsGolden(th[t])
        /\ ~Restoring(r) /\ ~Restoring(th[t])
    BY <1>1, <1>4, <2>1, CheckpointedRequest
  <2>3. /\ Orphan(th[t]) \in Requests /\ Shape(Orphan(th[t]))
        /\ ~golden => FreshRequest(Orphan(th[t]))
        /\ ~HoldsKnock(Orphan(th[t])) /\ ~HoldsGolden(Orphan(th[t])) /\ ~Restoring(Orphan(th[t]))
    BY <1>1, OrphanOK
  <2>4. ~HoldsKnock(th[u]) /\ ~HoldsGolden(th[u]) /\ ~Restoring(th[u])
    <3>1. th[u] \in Requests /\ Shape(th[u])
      BY RequestOK
    <3>2. QED
      BY <1>4, <3>1 DEF HoldsKnock, HoldsGolden, Restoring, Shape, StopPcs, GoldenPcs, BuildPcs,
                        RestorePcs
  <2>5. \A x \in Threads : th'[x] = IF x = u THEN Orphan(th[t]) ELSE IF x = t THEN r ELSE th[x]
    BY <1>4, <2>1 DEF IInv, RequestsOK
  <2>6. ASSUME NEW x \in Threads
        PROVE  /\ th'[x] \in Requests /\ Shape(th'[x]) /\ (golden \/ FreshRequest(th'[x]))
               /\ HoldsKnock(th'[x]) <=> HoldsKnock(th[x])
               /\ HoldsGolden(th'[x]) <=> HoldsGolden(th[x])
               /\ Restoring(th[x]) => th'[x] = th[x]
    <3>1. /\ th[x] \in Requests /\ Shape(th[x]) /\ (golden \/ FreshRequest(th[x]))
      BY RequestOK
    <3>2. CASE x = u
      BY <2>3, <2>4, <2>5, <3>2
    <3>3. CASE x # u /\ x = t
      BY <2>2, <2>5, <3>3
    <3>4. CASE x # u /\ x # t
      BY <2>5, <3>1, <3>4
    <3>5. QED
      BY <3>2, <3>3, <3>4
  <2>7. th' \in [Threads -> Requests]
    <3>1. th' = [x \in Threads |-> th'[x]]
      BY <1>4 DEF IInv, RequestsOK
    <3>2. QED
      BY <2>6, <3>1
  <2>8. Locks'
    BY <1>4, <2>6 DEF IInv, RequestsOK, Locks
  <2>9. ReservationOwned'
    <3>1. \A w \in Workers : reserve[w] # None =>
             \E x \in Threads : Restoring(th[x]) /\ th[x].rw = w /\ th[x].id = reserve[w]
      BY DEF IInv, RequestsOK, ReservationOwned, Restoring
    <3>2. \A w \in Workers : reserve[w] # None =>
             \E x \in Threads : Restoring(th'[x]) /\ th'[x].rw = w /\ th'[x].id = reserve[w]
      BY <2>6, <3>1
    <3>3. SUFFICES ASSUME NEW w \in Workers, reserve'[w] # None
                   PROVE  \E x \in Threads : Restoring(th'[x]) /\ th'[x].rw = w
                                                               /\ th'[x].id = reserve'[w]
      BY DEF ReservationOwned, Restoring
    <3>4. reserve' = reserve
      BY <1>4
    <3>5. QED
      BY <3>2, <3>3, <3>4
  <2>10. RequestsOK'
    BY <1>4, <2>6, <2>7, <2>8, <2>9 DEF IInv, RequestsOK
  <2>11. Fresh'
    BY <1>2, <2>6 DEF IInv, Fresh
  <2>12. QED
    BY <1>2, <2>10, <2>11 DEF IInv, StoreOK
<1>5. QED
  BY <1>3, <1>4 DEF Detach

\* What NoRequest satisfies.
LEMMA NoRequestOK ==
    /\ NoRequest \in Requests /\ Shape(NoRequest) /\ FreshRequest(NoRequest)
    /\ ~HoldsKnock(NoRequest) /\ ~HoldsGolden(NoRequest) /\ ~Restoring(NoRequest)
BY NoRequestType, NoRequestFresh
   DEF Shape, HoldsKnock, Restoring, NoRequest, SbOK, NoSandbox,
       CallPcs, GoldenPcs, BuildPcs, StopPcs, RestorePcs

\* What a restart cuts short leaves tags.
LEMMA CutShortType ==
    ASSUME IInv, NEW w \in Workers, WorkerRestart(w)
    PROVE  image' \in [Workers -> [Ids -> ImageTags]] /\ object' \in [Keys -> ObjectTags]
<1>1. \A i \in Ids : DirLeft(w, i) \subseteq ImageTags
  <2>1. SUFFICES ASSUME NEW i \in Ids PROVE DirLeft(w, i) \subseteq ImageTags
    OBVIOUS
  <2>2. image[w][i] \in ImageTags
    BY DEF IInv, WorkerOK, WorkerTypeOK
  <2>3. ASSUME NEW t \in ServedAt({"load"}, i, w)
        PROVE  Fetched(i, RestoreKey(th[t])) \in ImageTags
    <3>1. t \in Threads /\ th[t].pc = "load" /\ th[t].v = i /\ Shape(th[t])
      BY <2>3, RequestOK DEF ServedAt
    <3>2. RestoreKey(th[t]) \in Keys \cup {None}
      BY <3>1 DEF RestoreKey, Keys, Shape, RestorePcs
    <3>3. QED
      BY <3>2 DEF IInv, WorkerOK, WorkerTypeOK, Fetched, ObjectTags, ImageTags
  <2>4. QED
    BY <2>2, <2>3 DEF DirLeft, ImageTags
<1>2. \A k \in Keys : ObjectsLeft(w, k) \subseteq ObjectTags
  <2>1. SUFFICES ASSUME NEW k \in Keys PROVE ObjectsLeft(w, k) \subseteq ObjectTags
    OBVIOUS
  <2>2. object[k] \in ObjectTags /\ \A i \in Ids : image[w][i] \in ImageTags
    BY DEF IInv, WorkerOK, WorkerTypeOK
  <2>3. \A i \in Ids : UploadLeft(k, image[w][i]) \subseteq ObjectTags
    BY <2>2, UploadLeftType DEF IInv
  <2>4. QED
    BY <2>2, <2>3 DEF ObjectsLeft
<1>3. PICK left : /\ left \in [Ids -> UNION {DirLeft(w, i) : i \in Ids}]
                  /\ image' = [image EXCEPT ![w] = left]
  BY DEF WorkerRestart
<1>4. PICK kept : /\ kept \in [Keys -> UNION {ObjectsLeft(w, k) : k \in Keys}]
                  /\ object' = kept
  BY DEF WorkerRestart
<1>5. UNION {DirLeft(w, i) : i \in Ids} \subseteq ImageTags
  BY <1>1
<1>6. UNION {ObjectsLeft(w, k) : k \in Keys} \subseteq ObjectTags
  BY <1>2
<1>7. left \in [Ids -> ImageTags] /\ kept \in [Keys -> ObjectTags]
  BY <1>3, <1>4, <1>5, <1>6
<1>8. QED
  BY <1>3, <1>4, <1>7 DEF IInv, WorkerOK, WorkerTypeOK

\* A restarted agent fails the calls it was serving, whose callers give everything back.
LEMMA WorkerRestartOK ==
    ASSUME IInv, NEW w \in Workers, WorkerRestart(w)
    PROVE  IInv'
<1>1. WorkerOK' /\ UNCHANGED <<store, created, golden>> /\ StoreOK'
  <2>1. image' \in [Workers -> [Ids -> ImageTags]] /\ object' \in [Keys -> ObjectTags]
    BY CutShortType
  <2>2. QED
    BY <2>1, RestartOK DEF WorkerRestart, IInv, StoreOK
<1>2. \A t \in Threads : th'[t] = IF ServedBy(t, w) THEN NoRequest ELSE th[t]
  BY DEF WorkerRestart
<1>3. th' \in [Threads -> Requests] /\ \A t \in Threads : Shape(th'[t])
  BY <1>2, NoRequestOK DEF WorkerRestart, IInv, RequestsOK
<1>4. /\ knockMu' = IF \E t \in Threads : knockMu = t /\ ServedBy(t, w) THEN None ELSE knockMu
      /\ goldenMu' = IF \E t \in Threads : goldenMu = t /\ ServedBy(t, w) THEN None ELSE goldenMu
  BY DEF WorkerRestart
<1>5. Locks'
  <2>1. SUFFICES ASSUME NEW t \in Threads
                 PROVE  /\ knockMu' = t <=> HoldsKnock(th'[t])
                        /\ goldenMu' = t <=> HoldsGolden(th'[t])
    BY DEF Locks
  <2>2. /\ knockMu = t <=> HoldsKnock(th[t])
        /\ goldenMu = t <=> HoldsGolden(th[t])
    BY RequestOK
  <2>3. t # None
    BY SchedulerAssumption
  <2>4. QED
    BY <1>2, <1>4, <2>2, <2>3, NoRequestOK
<1>6. ReservationOwned'
  <2>1. SUFFICES ASSUME NEW x \in Workers, reserve'[x] # None
                 PROVE  \E t \in Threads : Restoring(th'[t]) /\ th'[t].rw = x
                                                               /\ th'[t].id = reserve'[x]
    BY DEF ReservationOwned, Restoring
  <2>2. reserve'[x] = reserve[x] /\ (x = w => ~\E t \in Threads :
            ServedBy(t, w) /\ th[t].pc = "load" /\ th[t].id = reserve[w])
    BY <2>1 DEF WorkerRestart
  <2>3. PICK t \in Threads : Restoring(th[t]) /\ th[t].rw = x /\ th[t].id = reserve[x]
    BY <2>1, <2>2 DEF IInv, RequestsOK, ReservationOwned, Restoring
  <2>4. ~ServedBy(t, w)
    BY <2>2, <2>3 DEF ServedBy, Restoring, RestorePcs
  <2>5. QED
    BY <1>2, <2>2, <2>3, <2>4
<1>7. RequestsOK'
  <2>1. reserve' \in [Workers -> OrNone(Sandboxes)]
    BY DEF WorkerRestart, IInv, RequestsOK, OrNone
  <2>2. knockMu' \in OrNone(Threads) /\ goldenMu' \in OrNone(Threads)
    BY <1>4 DEF IInv, RequestsOK, OrNone
  <2>3. QED
    BY <1>3, <1>5, <1>6, <2>1, <2>2 DEF RequestsOK
<1>8. Fresh'
  BY <1>1, <1>2, NoRequestOK DEF IInv, Fresh
<1>9. QED
  BY <1>1, <1>7, <1>8 DEF IInv

\* A restarted control plane holds no mutex and no reservation.
LEMMA ControlPlaneRestartOK ==
    ASSUME IInv, ControlPlaneRestart
    PROVE  IInv'
<1>1. WorkerOK' /\ UNCHANGED <<store, created, golden>> /\ StoreOK'
  BY WorkersIdle DEF ControlPlaneRestart, IInv, StoreOK
<1>2. \A t \in Threads : th'[t] = IF th[t].pc \in CallPcs THEN Orphan(th[t]) ELSE NoRequest
  BY DEF ControlPlaneRestart
<1>3. ASSUME NEW t \in Threads
      PROVE  /\ th'[t] \in Requests /\ Shape(th'[t]) /\ (golden \/ FreshRequest(th'[t]))
             /\ ~HoldsKnock(th'[t]) /\ ~HoldsGolden(th'[t])
  BY <1>2, RequestOK, OrphanOK, NoRequestOK
<1>4. th' \in [Threads -> Requests]
  BY <1>3 DEF ControlPlaneRestart
<1>5. RequestsOK'
  BY <1>3, <1>4, SchedulerAssumption
     DEF ControlPlaneRestart, RequestsOK, Locks, ReservationOwned, OrNone
<1>6. Fresh'
  BY <1>1, <1>3 DEF IInv, Fresh
<1>7. QED
  BY <1>1, <1>5, <1>6 DEF IInv

-----------------------------------------------------------------------------
(* The theorems                                                            *)

\* Nothing is held and nothing has run when the control plane and its Workers start.
LEMMA InitOK == Init => IInv
<1> SUFFICES ASSUME Init PROVE IInv
  OBVIOUS
<1>1. WorkerOK
  BY DEF Init, WorkerInit, WorkerOK, WorkerTypeOK, SlotExclusive,
         ContainerTags, ImageTags, ObjectTags
<1>2. NoSandbox \in SandboxRecords /\ SbOK(NoSandbox) /\ FreshSb(NoSandbox)
  BY DEF NoSandbox, SandboxRecords, SbOK, FreshSb, States, Sources, OrNone
<1>3. StoreOK
  BY <1>2 DEF Init, StoreOK
<1>4. RequestsOK
  BY NoRequestOK, SchedulerAssumption DEF Init, RequestsOK, Locks, ReservationOwned, OrNone
<1>5. Fresh
  BY <1>2, NoRequestOK DEF Init, Fresh
<1>6. QED
  BY <1>1, <1>3, <1>4, <1>5 DEF IInv

\* IInv is inductive.
LEMMA NextOK == IInv /\ [Next]_vars => IInv'
<1> SUFFICES ASSUME IInv, [Next]_vars PROVE IInv'
  OBVIOUS
<1>1. ASSUME NEW t \in Threads,
             \/ ClientCall(t)
             \/ ResumeStep(t) \/ StopStep(t) \/ GoldenStep(t) \/ DeleteStep(t)
             \/ Detach(t)
      PROVE  IInv'
  BY <1>1, ClientCallOK, ResumeStepOK, StopStepOK, GoldenStepOK, DeleteStepOK, DetachOK
<1>2. CASE UNCHANGED vars
  <2>1. WorkerOK'
    BY <1>2, WorkersIdle DEF vars, IInv
  <2>2. UNCHANGED schedulerVars
    BY <1>2 DEF vars
  <2>3. StoreOK' /\ Fresh'
    BY <2>2 DEF schedulerVars, IInv, StoreOK, Fresh
  <2>4. RequestsOK'
    BY <2>2 DEF schedulerVars, IInv, RequestsOK, Locks, ReservationOwned
  <2>5. QED
    BY <2>1, <2>3, <2>4 DEF IInv
<1>3. QED
  BY <1>1, <1>2, CreateOK, WorkerRestartOK, ControlPlaneRestartOK DEF Next

\* The inductive invariant holds throughout.
THEOREM Invariance == Spec => []IInv
BY InitOK, NextOK, PTL DEF Spec

\* Every variable keeps its type: no sequence of calls and failures writes a record,
\* a reservation or a snapshot that the code cannot represent.
THEOREM TypeCorrect == Spec => []TypeOK
<1>1. IInv => TypeOK
  BY DEF IInv, WorkerOK, StoreOK, RequestsOK, TypeOK, SchedulerTypeOK
<1>2. QED
  BY <1>1, Invariance, PTL

\* workerserver.claim keeps a Worker's slot 1:1, whatever is called, lost, repeated or
\* restarted.
THEOREM SlotSafe == Spec => []SlotExclusive
<1>1. IInv => SlotExclusive
  BY DEF IInv, WorkerOK
<1>2. QED
  BY <1>1, Invariance, PTL

\* suspendLocked's "Caller must hold knockMu" is met by all its callers, but for a
\* POST /v1/golden that could not read the recorded prefix.
THEOREM EvictionSafe == Spec => []EvictionSerialised
<1>1. IInv => EvictionSerialised
  <2>1. SUFFICES ASSUME IInv, NEW t \in Threads, th[t].pc \in StopPcs, th[t].v \in Sandboxes,
                        ~th[t].gone, knockMu # t
                 PROVE  ReadFails /\ golden /\ th[t].op = "golden" /\ goldenMu = t
    BY DEF EvictionSerialised
  <2>2. th[t].op = "golden"
    BY <2>1, RequestOK DEF HoldsKnock
  <2>3. goldenMu = t /\ HoldsGolden(th[t])
    BY <2>1, <2>2, RequestOK, IdsAssumption DEF Shape, HoldsGolden
  <2>4. golden
    BY <2>1, <2>2, RequestOK, IdsAssumption DEF FreshRequest, StopPcs
  <2>5. QED
    BY <2>1, <2>2, <2>3, <2>4, RequestOK
<1>2. QED
  BY <1>1, Invariance, PTL

\* No restoreReserve entry outlives the Resume that made it.
THEOREM ReservationSafe == Spec => []ReservationOwned
<1>1. IInv => ReservationOwned
  BY DEF IInv, RequestsOK
<1>2. QED
  BY <1>1, Invariance, PTL

\* Whatever way requests end, they leave no mutex locked and no Worker reserved.
THEOREM CleanWhenQuiet == Spec => []QuiescentClean
<1>1. IInv => QuiescentClean
  <2>1. SUFFICES ASSUME IInv, \A t \in Threads : th[t].pc = "idle"
                 PROVE  knockMu = None /\ goldenMu = None /\ \A w \in Workers : reserve[w] = None
    BY DEF QuiescentClean
  <2>2. \A t \in Threads : knockMu # t /\ goldenMu # t
    BY <2>1, NotBuilding DEF IInv, RequestsOK, Locks, HoldsKnock, HoldsGolden, StopPcs, GoldenPcs, BuildPcs
  <2>3. \A w \in Workers : reserve[w] = None
    BY <2>1 DEF IInv, RequestsOK, ReservationOwned, RestorePcs
  <2>4. QED
    BY <2>1, <2>2, <2>3 DEF IInv, RequestsOK, OrNone
<1>2. QED
  BY <1>1, Invariance, PTL

\* Before a golden snapshot is recorded nothing has run: an EnsureGolden that reads
\* truly that none is recorded has nothing to evict.
THEOREM GoldenBeforeAll == Spec => []GoldenFirst
<1>1. IInv => GoldenFirst
  BY DEF IInv, Fresh, FreshSb, GoldenFirst
<1>2. QED
  BY <1>1, Invariance, PTL
=============================================================================
