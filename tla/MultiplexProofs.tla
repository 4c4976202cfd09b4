-------------------------- MODULE MultiplexProofs --------------------------
(***************************************************************************)
(* The proof that Scheduler implements Multiplex, for orderly clients that *)
(* do not delete sandboxes, on top of OInv.                                *)
(***************************************************************************)
EXTENDS OrderlyProofs, SchedulerRefinement

\* Without deletion a record, once made, stays, so whatever is checkpointed is still
\* recorded as running when its checkpoint is saved.
NeverDeleted ==
    /\ \A t \in Threads :
          /\ th[t].pc \notin {"dkill", "dremove"}
          /\ th[t].pc \in {"ckpt", "upload", "save"} /\ th[t].v \in Sandboxes =>
                store[th[t].v].state = "running"
    /\ \A s \in Sandboxes : store[s].state = "absent" => store[s].worker = None

RInv == IInv /\ OInv /\ NeverDeleted

-----------------------------------------------------------------------------
(* The steps that Multiplex does not see                                   *)

\* What is seen of a sandbox that nobody is saving.
LEMMA PhaseAtRest ==
    ASSUME NEW s, Stopping(s) = {}
    PROVE  PhaseOf(s) = store[s].state
BY DEF PhaseOf

\* What is seen of a sandbox that one request is saving.
LEMMA PhaseSaved ==
    ASSUME NEW s, NEW t, Stopping(s) = {t}
    PROVE  PhaseOf(s) = IF th[t].op = "pause" THEN "paused" ELSE "suspended"
<1>1. (CHOOSE u \in Stopping(s) : TRUE) = t
  OBVIOUS
<1>2. QED
  BY <1>1 DEF PhaseOf, StoppedSandbox

\* What is seen of s depends only on its record and on the requests that save it.
LEMMA PhaseKept ==
    ASSUME NEW s, store'[s] = store[s],
           Stopping(s)' = Stopping(s), \A t \in Stopping(s) : th'[t] = th[t]
    PROVE  PhaseOf(s)' = PhaseOf(s)
<1>1. CASE Stopping(s) = {}
  BY <1>1 DEF PhaseOf
<1>2. CASE Stopping(s) # {}
  <2>1. (CHOOSE t \in Stopping(s) : TRUE) \in Stopping(s)
    BY <1>2
  <2>2. QED
    BY <1>2, <2>1 DEF PhaseOf
<1>3. QED
  BY <1>1, <1>2

\* A step of t that is about s0 at most leaves all other sandboxes as they were seen.
LEMMA OthersSeen ==
    ASSUME NEW t, NEW s0, \A u \in Threads \ {t} : th'[u] = th[u],
           th[t].pc = "save" => th[t].v = s0,
           th'[t].pc = "save" => th'[t].v = s0,
           NEW s, s # s0, store'[s] = store[s]
    PROVE  PhaseOf(s)' = PhaseOf(s) /\ store'[s].worker = store[s].worker
<1>1. Stopping(s)' = Stopping(s) /\ \A u \in Stopping(s) : th'[u] = th[u]
  BY DEF Stopping
<1>2. QED
  BY <1>1, PhaseKept

\* Nothing that Multiplex sees has changed.
LEMMA SeenUnchanged ==
    ASSUME \A s \in Sandboxes : PhaseOf(s)' = PhaseOf(s) /\ store'[s].worker = store[s].worker
    PROVE  UNCHANGED Abstract!vars
BY DEF Abstract!vars

\* A step of t outside Save that leaves the store alone.
LEMMA QuietSeen ==
    ASSUME RInv, NEW t \in Threads, \A u \in Threads \ {t} : th'[u] = th[u], UNCHANGED store,
           th[t].pc # "save", th'[t].pc \notin {"save", "dkill", "dremove"},
           th'[t].pc \in {"ckpt", "upload"} /\ th'[t].v \in Sandboxes =>
              store[th'[t].v].state = "running"
    PROVE  NeverDeleted' /\ UNCHANGED Abstract!vars
<1>1. ASSUME NEW s \in Sandboxes
      PROVE  PhaseOf(s)' = PhaseOf(s) /\ store'[s].worker = store[s].worker
  <2>1. s # None
    BY IdsAssumption
  <2>2. QED
    BY <2>1, OthersSeen
<1>2. NeverDeleted'
  BY DEF RInv, NeverDeleted
<1>3. QED
  BY <1>1, <1>2, SeenUnchanged

\* A request that returns outside Save.
LEMMA ReturnSeen ==
    ASSUME RInv, NEW t \in Threads, Return(t), UNCHANGED store, th[t].pc # "save"
    PROVE  NeverDeleted' /\ UNCHANGED Abstract!vars
<1>1. th'[t] = NoRequest /\ \A u \in Threads \ {t} : th'[u] = th[u]
  BY DEF Return, Leave, RInv, IInv, RequestsOK
<1>2. QED
  BY <1>1, QuietSeen DEF NoRequest

\* A request that goes on at another point than those of a stop.
LEMMA MovesSeen ==
    ASSUME RInv, NEW t \in Threads, NEW r, th' = [th EXCEPT ![t] = r], UNCHANGED store,
           th[t].pc # "save", r.pc \notin {"ckpt", "upload", "save", "dkill", "dremove"}
    PROVE  NeverDeleted' /\ UNCHANGED Abstract!vars
<1>1. th'[t] = r /\ \A u \in Threads \ {t} : th'[u] = th[u]
  BY DEF RInv, IInv, RequestsOK
<1>2. QED
  BY <1>1, QuietSeen

\* A request whose program counter alone moves to such a point.
LEMMA GotoSeen ==
    ASSUME RInv, NEW t \in Threads, NEW pc, Goto(t, pc), UNCHANGED store,
           th[t].pc # "save", pc \notin {"ckpt", "upload", "save", "dkill", "dremove"}
    PROVE  NeverDeleted' /\ UNCHANGED Abstract!vars
<1>1. /\ \A u \in Threads \ {t} : th'[u] = th[u]
      /\ th'[t].pc = pc
  BY RequestOK DEF Goto, RInv, IInv, RequestsOK, Requests
<1>2. QED
  BY <1>1, QuietSeen

\* Client calls, while no client deletes.
LEMMA ClientCallSeen ==
    ASSUME "delete" \notin Ops, RInv, NEW t \in Threads, ClientCall(t)
    PROVE  NeverDeleted' /\ UNCHANGED Abstract!vars
<1>1. ASSUME NEW s \in Sandboxes PROVE ~CallDelete(t, s)
  BY DEF CallDelete, Calls
<1>2. UNCHANGED store /\ th[t].pc = "idle"
  BY <1>1 DEF ClientCall, CallResume, CallStop, CallGolden, Calls
<1>3. /\ \A u \in Threads \ {t} : th'[u] = th[u]
      /\ th'[t].pc \in {"lobby", "lock", "glock"}
  BY <1>1 DEF ClientCall, CallResume, CallStop, CallGolden, Started, NoRequest,
              RInv, IInv, RequestsOK
<1>4. QED
  BY <1>2, <1>3, QuietSeen

\* Waiting, deciding and restoring.
LEMMA ResumeSeen ==
    ASSUME RInv, NEW t \in Threads, ResumeStep(t), ~PutRunning(t)
    PROVE  NeverDeleted' /\ UNCHANGED Abstract!vars
<1> DEFINE r == th[t]
           seen == [r EXCEPT !.up = {}, !.free = {}]
<1>1. th \in [Threads -> Requests] /\ r \in Requests /\ ~r.gone
  BY RequestOK, OneRequest DEF RInv, IInv, RequestsOK, Local
<1>2. UNCHANGED store /\ r.pc # "save"
  BY DEF ResumeStep, Lobby, GiveUp, Knock, StepBack, Probe, Decide, Source, Restore, Load, ClearReserve
<1>3. CASE Lobby(t) \/ Knock(t) \/ StepBack(t) \/ Probe(t)
  <2>1. th'[t].pc \in {"lobby", "knock", "probe", "gprobe"} /\ \A u \in Threads \ {t} : th'[u] = th[u]
    <3>1. CASE Lobby(t)
      BY <1>1, <3>1 DEF Lobby, Requests
    <3>2. CASE Knock(t)
      BY <1>1, <3>2 DEF Knock, Requests
    <3>3. CASE StepBack(t)
      BY <1>1, <3>3 DEF StepBack, Requests
    <3>4. CASE Probe(t)
      <4>1. PICK w \in r.left :
              \/ th' = [th EXCEPT ![t].left = @ \ {w}, ![t].up = @ \cup {w},
                                  ![t].free = IF HasFreeSlot(w) THEN @ \cup {w} ELSE @]
              \/ th' = [th EXCEPT ![t].left = @ \ {w}]
        BY <3>4 DEF Probe
      <4>2. QED
        BY <1>1, <3>4, <4>1 DEF Probe, Requests
    <3>5. QED
      BY <1>3, <3>1, <3>2, <3>3, <3>4
  <2>2. QED
    BY <1>2, <2>1, QuietSeen
<1>4. CASE Return(t)
  BY <1>2, <1>4, ReturnSeen
<1>5. CASE Decide(t)
  <2>1. CASE Leave(t, [seen EXCEPT !.pc = "lobby"])
    <3>1. th' = [th EXCEPT ![t] = [seen EXCEPT !.pc = "lobby"]]
      BY <2>1 DEF Leave
    <3>2. [seen EXCEPT !.pc = "lobby"].pc = "lobby"
      BY <1>1 DEF Requests
    <3>3. QED
      BY <1>2, <3>1, <3>2, MovesSeen
  <2>2. ASSUME NEW p,
               th' = [th EXCEPT ![t] =
                        [seen EXCEPT !.w = p.worker, !.v = p.victim,
                                     !.pc = IF p.victim = None THEN "source" ELSE "begin"]]
        PROVE  NeverDeleted' /\ UNCHANGED Abstract!vars
    <3>1. [seen EXCEPT !.w = p.worker, !.v = p.victim,
                       !.pc = IF p.victim = None THEN "source" ELSE "begin"].pc
             \in {"source", "begin"}
      BY <1>1 DEF Requests
    <3>2. QED
      BY <1>2, <2>2, <3>1, MovesSeen
  <2>3. QED
    BY <1>4, <1>5, <2>1, <2>2 DEF Decide
<1>6. CASE Source(t)
  <2>1. CASE Goto(t, "glock")
    BY <1>2, <2>1, GotoSeen
  <2>2. CASE Admit(t)
    <3>1. \A u \in Threads \ {t} : th'[u] = th[u]
      BY <1>1, <2>2 DEF Admit
    <3>2. th'[t].pc = "restore"
      BY <1>1, <2>2 DEF Admit, Requests
    <3>3. QED
      BY <1>2, <3>1, <3>2, QuietSeen
  <2>3. QED
    BY <1>4, <1>6, <2>1, <2>2 DEF Source
<1>7. CASE Restore(t) \/ Load(t)
  <2>1. Goto(t, "load") \/ Goto(t, "put") \/ Return(t)
    BY <1>1, <1>7 DEF Restore, Load, Reply
  <2>2. QED
    BY <1>2, <1>4, <2>1, GotoSeen
<1>8. QED
  BY <1>3, <1>4, <1>5, <1>6, <1>7 DEF ResumeStep, GiveUp, ClearReserve

\* Pause, Suspend and eviction up to the release of the slot, failures included.
LEMMA StopSeen ==
    ASSUME RInv, NEW t \in Threads, LockStop(t) \/ Begin(t) \/ Ckpt(t)
    PROVE  NeverDeleted' /\ UNCHANGED Abstract!vars
<1>1. th \in [Threads -> Requests] /\ th[t] \in Requests
  BY RequestOK DEF RInv, IInv, RequestsOK
<1>2. UNCHANGED store /\ th[t].pc \in {"lock", "begin", "ckpt"}
  BY DEF LockStop, Begin, Ckpt
<1>3. CASE Return(t)
  BY <1>2, <1>3, ReturnSeen
<1>4. CASE LockStop(t)
  <2>1. th'[t].pc = "begin" /\ \A u \in Threads \ {t} : th'[u] = th[u]
    BY <1>1, <1>4 DEF LockStop, Requests
  <2>2. QED
    BY <1>2, <2>1, QuietSeen
<1>5. CASE /\ th[t].pc = "begin" /\ store[th[t].v].state = "running"
           /\ th' = [th EXCEPT ![t].pc = "ckpt", ![t].rw = store[th[t].v].worker]
  <2>1. /\ th'[t].pc = "ckpt" /\ th'[t].v = th[t].v
        /\ \A u \in Threads \ {t} : th'[u] = th[u]
    BY <1>1, <1>5 DEF Requests
  <2>2. QED
    BY <1>2, <1>5, <2>1, QuietSeen
<1>6. CASE th[t].pc = "ckpt" /\ Goto(t, "upload")
  <2>1. /\ th'[t].pc = "upload" /\ th'[t].v = th[t].v
        /\ \A u \in Threads \ {t} : th'[u] = th[u]
    BY <1>1, <1>6 DEF Goto, Requests
  <2>2. QED
    BY <1>2, <1>6, <2>1, QuietSeen DEF RInv, NeverDeleted
<1>7. CASE CallFails(t)
  BY <1>2, <1>3, <1>7, GotoSeen DEF CallFails
<1>8. QED
  BY <1>3, <1>4, <1>5, <1>6, <1>7 DEF Begin, Ckpt

\* EnsureGolden.
LEMMA GoldenSeen ==
    ASSUME RInv, NEW t \in Threads, GoldenStep(t)
    PROVE  NeverDeleted' /\ UNCHANGED Abstract!vars
<1> DEFINE r == th[t]
           seen == [r EXCEPT !.up = {}, !.free = {}]
<1>1. th \in [Threads -> Requests] /\ r \in Requests
  BY RequestOK DEF RInv, IInv, RequestsOK
<1>2. UNCHANGED store /\ r.pc # "save"
  BY DEF GoldenStep, LockGolden, DecideGolden, BootGolden, StartGolden, UndoGolden, PutGolden
<1>3. CASE Return(t)
  BY <1>2, <1>3, ReturnSeen
<1>4. CASE GoldenDone(t)
  <2>1. CASE Admit(t)
    <3>1. \A u \in Threads \ {t} : th'[u] = th[u]
      BY <1>1, <2>1 DEF Admit
    <3>2. th'[t].pc = "restore"
      BY <1>1, <2>1 DEF Admit, Requests
    <3>3. QED
      BY <1>2, <3>1, <3>2, QuietSeen
  <2>2. QED
    BY <1>3, <1>4, <2>1 DEF GoldenDone
<1>5. CASE th' = [th EXCEPT ![t].pc = "gprobe", ![t].left = Workers]
  <2>1. th'[t].pc = "gprobe" /\ \A u \in Threads \ {t} : th'[u] = th[u]
    BY <1>1, <1>5 DEF Requests
  <2>2. QED
    BY <1>2, <2>1, QuietSeen
<1>6. CASE DecideGolden(t)
  <2>1. CASE Leave(t, [seen EXCEPT !.pc = "lobby", !.w = None])
    <3>1. th' = [th EXCEPT ![t] = [seen EXCEPT !.pc = "lobby", !.w = None]]
      BY <2>1 DEF Leave
    <3>2. [seen EXCEPT !.pc = "lobby", !.w = None].pc = "lobby"
      BY <1>1 DEF Requests
    <3>3. QED
      BY <1>2, <3>1, <3>2, MovesSeen
  <2>2. ASSUME NEW p,
               th' = [th EXCEPT ![t] =
                        [seen EXCEPT !.g = p.worker, !.rw = p.worker, !.v = p.victim,
                                     !.pc = IF p.victim = None THEN "gboot" ELSE "begin"]]
        PROVE  NeverDeleted' /\ UNCHANGED Abstract!vars
    <3>1. [seen EXCEPT !.g = p.worker, !.rw = p.worker, !.v = p.victim,
                       !.pc = IF p.victim = None THEN "gboot" ELSE "begin"].pc
             \in {"gboot", "begin"}
      BY <1>1 DEF Requests
    <3>2. QED
      BY <1>2, <2>2, <3>1, MovesSeen
  <2>3. QED
    BY <1>3, <1>6, <2>1, <2>2 DEF DecideGolden
<1>7. ASSUME NEW g, th' = [th EXCEPT ![t].pc = "gstart", ![t].v = g]
      PROVE  NeverDeleted' /\ UNCHANGED Abstract!vars
  <2>1. th'[t].pc = "gstart" /\ \A u \in Threads \ {t} : th'[u] = th[u]
    BY <1>1, <1>7 DEF Requests
  <2>2. QED
    BY <1>2, <2>1, QuietSeen
<1>8. CASE r.pc = "gstart" /\ Reply(t, "ckpt")
  <2>1. CASE Goto(t, "ckpt")
    <3>1. /\ th'[t].pc = "ckpt" /\ th'[t].v = r.v
          /\ \A u \in Threads \ {t} : th'[u] = th[u]
      BY <1>1, <2>1 DEF Goto, Requests
    <3>2. r.v \notin Sandboxes
      BY <1>8, RequestOK, IdsAssumption DEF RInv, Shape
    <3>3. QED
      BY <1>2, <3>1, <3>2, QuietSeen
  <2>2. QED
    BY <1>3, <1>8, <2>1 DEF Reply
<1>9. QED
  BY <1>3, <1>4, <1>5, <1>6, <1>7, <1>8
     DEF GoldenStep, LockGolden, BootGolden, StartGolden, UndoGolden, PutGolden

-----------------------------------------------------------------------------
(* The steps that Multiplex does see                                       *)

\* Nobody is saving a sandbox that has no record yet or is being resumed.
LEMMA NotStopping ==
    ASSUME RInv, NEW s \in Sandboxes, store[s].state # "running"
    PROVE  Stopping(s) = {}
BY DEF Stopping, RInv, NeverDeleted

\* Create is Multiplex's.
LEMMA CreateSeen ==
    ASSUME Orderly, RInv, Create
    PROVE  NeverDeleted' /\ \E s \in Sandboxes : Abstract!Create(s)
<1>1. PICK s \in Sandboxes \ created :
         store' = [store EXCEPT ![s] = [NoSandbox EXCEPT !.state = "suspended"]]
  BY NothingLost DEF Create
<1>2. th' = th
  BY DEF Create
<1>3. store[s].state = "absent" /\ store[s].worker = None
  BY <1>1 DEF RInv, OInv, Records, RecordOK, NeverDeleted
<1>4. /\ \A i \in Sandboxes \ {s} : store'[i] = store[i]
      /\ store'[s].state = "suspended" /\ store'[s].worker = None
  BY <1>1 DEF RInv, IInv, StoreOK, NoSandbox
<1>5. NeverDeleted'
  BY <1>2, <1>3, <1>4 DEF RInv, NeverDeleted
<1>6. Stopping(s) = {} /\ Stopping(s)' = {}
  BY <1>1, <1>2, <1>3, NotStopping DEF Stopping
<1>7. PhaseOf(s) = "absent" /\ PhaseOf(s)' = "suspended"
  BY <1>3, <1>4, <1>6 DEF PhaseOf
<1>8. ASSUME NEW i \in Sandboxes \ {s}
      PROVE  PhaseOf(i)' = PhaseOf(i) /\ store'[i].worker = store[i].worker
  <2>1. Stopping(i)' = Stopping(i)
    BY <1>2 DEF Stopping
  <2>2. QED
    BY <1>2, <1>4, <2>1, PhaseKept
<1>9. Abstract!Create(s)
  BY <1>3, <1>4, <1>7, <1>8 DEF Abstract!Create
<1>10. QED
  BY <1>5, <1>9

\* PutRunning is Start: the slot that Restore claimed is nobody else's.
LEMMA PutRunningSeen ==
    ASSUME Orderly, RInv, NEW t \in Threads, PutRunning(t)
    PROVE  NeverDeleted' /\ \E s \in Sandboxes, w \in Workers : Abstract!Start(s, w)
<1>a. PICK s, w : s = th[t].v /\ w = th[t].rw
  OBVIOUS
<1> USE <1>a
<1>1. IInv /\ OInv /\ NeverDeleted /\ th[t].pc = "put"
  BY DEF RInv, PutRunning
<1>2. /\ th[t] \in Requests /\ th[t].id = s /\ s \in Sandboxes /\ w \in Workers
      /\ th[t].sb = store[s] /\ store[s].state \in {"suspended", "paused"}
      /\ store[s].state = "paused" => w = store[s].worker
  BY <1>1, Resuming
<1>3. /\ store' = [store EXCEPT ![s] = [state |-> "running", worker |-> w,
                                        path |-> RestorePath(th[t]), source |-> th[t].sb.source]]
      /\ Goto(t, "clear")
  BY <1>2, NothingLost DEF PutRunning
<1>4. /\ \A i \in Sandboxes \ {s} : store'[i] = store[i]
      /\ store'[s].state = "running" /\ store'[s].worker = w
  BY <1>1, <1>2, <1>3 DEF IInv, StoreOK
<1>5. th'[t].pc = "clear" /\ \A u \in Threads \ {t} : th'[u] = th[u]
  BY <1>1, <1>2, <1>3 DEF Goto, IInv, RequestsOK, Requests
<1>6. NeverDeleted'
  BY <1>1, <1>2, <1>4, <1>5 DEF NeverDeleted
<1>7. Stopping(s) = {} /\ Stopping(s)' = {}
  <2>1. Stopping(s) = {}
    BY <1>2, NotStopping
  <2>2. QED
    BY <1>5, <2>1 DEF Stopping
<1>8. PhaseOf(s) = store[s].state /\ PhaseOf(s)' = "running"
  BY <1>4, <1>7 DEF PhaseOf
<1>9. ASSUME NEW i \in Sandboxes \ {s}
      PROVE  PhaseOf(i)' = PhaseOf(i) /\ store'[i].worker = store[i].worker
  <2>1. store'[i] = store[i] /\ i # s
    BY <1>4
  <2>2. th[t].pc # "save" /\ th'[t].pc # "save"
    BY <1>1, <1>5
  <2>3. Stopping(i)' = Stopping(i) /\ \A u \in Stopping(i) : th'[u] = th[u]
    BY <1>5, <2>2 DEF Stopping
  <2>4. QED
    BY <2>1, <2>3, PhaseKept
<1>10. ASSUME NEW i \in Sandboxes, PhaseOf(i) = "running", store[i].worker = w PROVE FALSE
  <2>1. Stopping(i) = {}
    BY <1>10 DEF PhaseOf, StoppedSandbox
  <2>2. store[i].state = "running" /\ i \in Running /\ i # s
    BY <1>2, <1>10, <2>1 DEF PhaseOf, Running
  <2>3. ~InCall(i, w, {"save", "dremove"})
    BY <1>1, <2>1 DEF InCall, Stopping, NeverDeleted
  <2>4. alive[w] = {i}
    BY <1>1, <1>10, <2>2, <2>3 DEF OInv, RunningHoldsSlot
  <2>5. s \in alive[w]
    BY <1>1, OneRequest DEF CallOK
  <2>6. QED
    BY <2>2, <2>4, <2>5
<1>11. Abstract!Start(s, w)
  <2>1. ~Abstract!Occupied(w)
    BY <1>10 DEF Abstract!Occupied
  <2>2. QED
    BY <1>2, <1>4, <1>8, <1>9, <2>1 DEF Abstract!Start
<1>12. QED
  BY <1>2, <1>6, <1>11

\* The release of the slot is Stop.
LEMMA UploadSeen ==
    ASSUME Orderly, RInv, NEW t \in Threads, Upload(t)
    PROVE  /\ NeverDeleted'
           /\ UNCHANGED Abstract!vars \/ \E s \in Sandboxes : Abstract!Stop(s)
<1>a. PICK s : s = th[t].v
  OBVIOUS
<1> USE <1>a
<1>1. IInv /\ OInv /\ NeverDeleted /\ th[t].pc = "upload" /\ UNCHANGED store
  BY DEF RInv, Upload
<1>2. th[t] \in Requests /\ ~th[t].gone /\ s \in Ids
  BY <1>1, Checkpointing
<1>3. CASE CallFails(t)
  BY <1>1, <1>3, ReturnSeen, GotoSeen DEF CallFails
<1>4. CASE s \in Goldens /\ Reply(t, "gput")
  BY <1>1, <1>2, <1>4, GotoSeen DEF Reply
<1>5. CASE s \notin Goldens /\ Reply(t, "save")
  <2>1. /\ th'[t].pc = "save" /\ th'[t].v = s /\ th'[t].op = th[t].op
        /\ \A u \in Threads \ {t} : th'[u] = th[u]
    BY <1>1, <1>2, <1>5 DEF Reply, Goto, IInv, RequestsOK, Requests
  <2>2. s \in Sandboxes /\ store[s].state = "running"
    BY <1>1, <1>2, <1>5 DEF NeverDeleted, Ids
  <2>3. Stopping(s) = {}
    <3>1. \A u \in Threads \ {t} : ~(th[u].pc = "save" /\ th[u].v = s)
      BY <1>1, <1>2, Checkpointing DEF Works, LoudPcs
    <3>2. QED
      BY <1>1, <3>1 DEF Stopping
  <2>4. Stopping(s)' = {t}
    BY <2>1, <2>3 DEF Stopping
  <2>5. PhaseOf(s) = "running"
    BY <2>2, <2>3 DEF PhaseOf
  <2>6. PhaseOf(s)' \in {"suspended", "paused"}
    BY <2>4 DEF PhaseOf, StoppedSandbox
  <2>7. ASSUME NEW i \in Sandboxes \ {s}
        PROVE  PhaseOf(i)' = PhaseOf(i) /\ store'[i].worker = store[i].worker
    <3>1. store'[i] = store[i] /\ i # s
      BY <1>1
    <3>2. QED
      BY <1>1, <2>1, <3>1, OthersSeen
  <2>8. Abstract!Stop(s)
    BY <1>1, <2>2, <2>5, <2>6, <2>7 DEF Abstract!Stop
  <2>9. NeverDeleted'
    BY <1>1, <2>1, <2>2 DEF NeverDeleted
  <2>10. QED
    BY <2>2, <2>8, <2>9
<1>6. QED
  BY <1>3, <1>4, <1>5 DEF Upload

\* The write of the stopped record shows nothing new.
LEMMA SaveSeen ==
    ASSUME Orderly, RInv, NEW t \in Threads, Save(t)
    PROVE  NeverDeleted' /\ UNCHANGED Abstract!vars
<1>a. PICK s : s = th[t].v
  OBVIOUS
<1> USE <1>a
<1>1. /\ IInv /\ OInv /\ NeverDeleted /\ th[t].pc = "save"
      /\ store' = [store EXCEPT ![s] = StoppedSandbox(th[t].op, th[t].rw)]
  BY NothingLost DEF RInv, Save
<1>2. /\ th[t] \in Requests /\ s \in Sandboxes /\ th[t].rw \in Workers
      /\ store[s].state = "running" /\ store[s].worker = th[t].rw
  <2>1. s \in Sandboxes
    BY <1>1, RequestOK DEF Shape
  <2>2. QED
    BY <1>1, <2>1, Checkpointing DEF NeverDeleted
<1>3. \A u \in Threads \ {t} : th[u].v = s => th[u].pc \notin {"ckpt", "upload", "save"}
  BY <1>1, <1>2, Checkpointing DEF Works, LoudPcs, Ids
<1>4. /\ \A u \in Threads \ {t} : th'[u] = th[u]
      /\ th'[t].pc \in {"idle", "source", "gboot"}
  <2>1. CASE Return(t)
    BY <1>1, <2>1 DEF Return, Leave, NoRequest, IInv, RequestsOK
  <2>2. CASE Goto(t, "source")
    BY <1>1, <1>2, <2>2 DEF Goto, IInv, RequestsOK, Requests
  <2>3. CASE th' = [th EXCEPT ![t].pc = "gboot", ![t].rw = th[t].g]
    BY <1>1, <1>2, <2>3 DEF IInv, RequestsOK, Requests
  <2>4. QED
    BY <2>1, <2>2, <2>3, NothingLost DEF Save
<1>5. /\ \A i \in Sandboxes \ {s} : store'[i] = store[i]
      /\ store'[s].state = IF th[t].op = "pause" THEN "paused" ELSE "suspended"
      /\ store'[s].worker = th[t].rw
  BY <1>1, <1>2 DEF IInv, StoreOK, StoppedSandbox
<1>6. NeverDeleted'
  BY <1>1, <1>2, <1>3, <1>4, <1>5 DEF NeverDeleted
<1>7. Stopping(s) = {t} /\ Stopping(s)' = {}
  BY <1>1, <1>3, <1>4 DEF Stopping
<1>8. PhaseOf(s)' = PhaseOf(s)
  <2>1. PhaseOf(s) = IF th[t].op = "pause" THEN "paused" ELSE "suspended"
    BY <1>7, PhaseSaved
  <2>2. PhaseOf(s)' = store'[s].state
    BY <1>7 DEF PhaseOf
  <2>3. QED
    BY <1>5, <2>1, <2>2
<1>9. ASSUME NEW i \in Sandboxes \ {s}
      PROVE  PhaseOf(i)' = PhaseOf(i) /\ store'[i].worker = store[i].worker
  <2>1. store'[i] = store[i] /\ i # s
    BY <1>5
  <2>2. QED
    BY <1>1, <1>4, <2>1, OthersSeen
<1>10. \A i \in Sandboxes : PhaseOf(i)' = PhaseOf(i) /\ store'[i].worker = store[i].worker
  BY <1>2, <1>5, <1>8, <1>9
<1>11. QED
  BY <1>6, <1>10, SeenUnchanged

-----------------------------------------------------------------------------
(* Theorem                                                                 *)

\* No sandbox exists at first.
LEMMA InitSeen == Init => NeverDeleted /\ Abstract!Init
<1>1. SUFFICES ASSUME Init PROVE NeverDeleted /\ Abstract!Init
  OBVIOUS
<1>2. /\ \A s \in Sandboxes : store[s] = NoSandbox
      /\ \A t \in Threads : th[t] = NoRequest
  BY <1>1 DEF Init
<1>3. NeverDeleted
  BY <1>2 DEF NeverDeleted, NoRequest, NoSandbox
<1>4. \A s \in Sandboxes : PhaseOf(s) = "absent" /\ store[s].worker = None
  BY <1>2 DEF PhaseOf, Stopping, NoRequest, NoSandbox
<1>5. Abstract!Init
  BY <1>4 DEF Abstract!Init
<1>6. QED
  BY <1>3, <1>5

\* Every step is a step of Multiplex or shows nothing.
LEMMA NextSeen ==
    ASSUME Orderly, "delete" \notin Ops
    PROVE  RInv /\ [Next]_vars => NeverDeleted' /\ [Abstract!Next]_(Abstract!vars)
<1>1. SUFFICES ASSUME RInv, [Next]_vars
               PROVE  NeverDeleted' /\ [Abstract!Next]_(Abstract!vars)
  OBVIOUS
<1>2. CASE UNCHANGED vars
  <2>1. UNCHANGED <<store, th>>
    BY <1>2 DEF vars, schedulerVars
  <2>2. NeverDeleted'
    BY <1>1, <2>1 DEF RInv, NeverDeleted
  <2>3. \A s \in Sandboxes : PhaseOf(s)' = PhaseOf(s) /\ store'[s].worker = store[s].worker
    BY <2>1 DEF PhaseOf, Stopping
  <2>4. QED
    BY <2>2, <2>3, SeenUnchanged
<1>3. CASE Create
  BY <1>1, <1>3, CreateSeen DEF Abstract!Next
<1>4. ASSUME NEW t \in Threads, ClientCall(t) PROVE NeverDeleted' /\ [Abstract!Next]_(Abstract!vars)
  BY <1>1, <1>4, ClientCallSeen
<1>5. ASSUME NEW t \in Threads, ResumeStep(t) PROVE NeverDeleted' /\ [Abstract!Next]_(Abstract!vars)
  BY <1>1, <1>5, ResumeSeen, PutRunningSeen DEF Abstract!Next
<1>6. ASSUME NEW t \in Threads, StopStep(t) PROVE NeverDeleted' /\ [Abstract!Next]_(Abstract!vars)
  BY <1>1, <1>6, StopSeen, UploadSeen, SaveSeen DEF StopStep, Abstract!Next
<1>7. ASSUME NEW t \in Threads, GoldenStep(t) PROVE NeverDeleted' /\ [Abstract!Next]_(Abstract!vars)
  BY <1>1, <1>7, GoldenSeen
<1>8. \A t \in Threads : ~DeleteStep(t)
  BY <1>1 DEF RInv, NeverDeleted, DeleteStep, DeleteOnWorker, DeleteFromStore
<1>9. /\ \A t \in Threads : ~Detach(t)
      /\ \A w \in Workers : ~WorkerRestart(w)
      /\ ~ControlPlaneRestart
  BY NothingLost DEF Detach, WorkerRestart, ControlPlaneRestart
<1>10. QED
  BY <1>1, <1>2, <1>3, <1>4, <1>5, <1>6, <1>7, <1>8, <1>9 DEF Next

\* Scheduler implements Multiplex: what clients see is sandboxes that take turns on
\* Workers, one at a time on each, paused ones in place.
THEOREM SchedulerImplementsMultiplex ==
    ASSUME Orderly, "delete" \notin Ops
    PROVE  Spec => ImplementsMultiplex
<1>1. Spec => []IInv
  BY Invariance
<1>2. Spec => []OInv
  BY OrderlyInvariance
<1>3. Init => NeverDeleted /\ Abstract!Init
  BY InitSeen
<1>4. IInv /\ OInv /\ NeverDeleted /\ [Next]_vars => NeverDeleted' /\ [Abstract!Next]_(Abstract!vars)
  BY NextSeen DEF RInv
<1>5. QED
  BY <1>1, <1>2, <1>3, <1>4, PTL DEF Spec, ImplementsMultiplex, Abstract!Spec
=============================================================================
