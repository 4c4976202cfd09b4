-------------------------- MODULE OrderlyProofs ----------------------------
(***************************************************************************)
(* Proofs about Scheduler for orderly clients and lossless calls: no two   *)
(* requests name the same sandbox at once, and no reply of the store or of *)
(* a Worker is lost.  Boots, checkpoints, uploads, downloads, restores and *)
(* Status calls may still fail at will, and a Resume may evict any sandbox *)
(* while other requests (its deletion, say) are served for it.             *)
(***************************************************************************)
EXTENDS SchedulerProofs

\* The assumption of every theorem of this module.
Orderly ==
    /\ ~Overlap
    /\ Faults \cap {"put", "read", "detach", "restart", "crash"} = {}

-----------------------------------------------------------------------------
(* The inductive invariant, on top of IInv                                 *)

\* A stopped record says where its snapshot is, and only ids that were handed out
\* have a record or a checkpoint.
RecordOK(s) ==
    /\ store[s].path = store[s].worker
    /\ store[s].state = "suspended" => store[s].source \in {"none", "external"}
    /\ store[s].state = "paused" => store[s].source = "local"
    /\ store[s].state # "absent" \/ s \in taken => s \in created

Records == \A s \in Sandboxes : RecordOK(s)

\* What a request's locals say by themselves.
Local(r) ==
    /\ ~r.gone
    /\ r.op \in {"pause", "suspend"} /\ r.pc \in {"lock"} \cup StopPcs => r.v = r.id
    /\ r.pc \in {"dkill", "dremove"} => r.v = r.id
    /\ r.op = "resume" /\ r.sb.state = "paused" =>
          /\ r.w # None => r.w = r.sb.worker
          /\ r.pc \in RestorePcs => r.rw = r.sb.worker

\* Until it has been put, the copy of a Resume is the record itself.
CopyOK(r) ==
    r.op = "resume" /\ r.pc # "clear" =>
       r.sb = store[r.id] /\ r.sb.state \in {"suspended", "paused"}

Vacant(i) == \A w \in Workers : i \notin alive[w] /\ container[w][i] = "none"

\* What the Worker call that r is in, or has just made, left behind.
CallOK(r) ==
    /\ r.pc \in {"load", "put"} => r.v \in alive[r.rw]
    /\ r.pc = "load" => container[r.rw][r.v] = "none"
    /\ r.pc = "put" => container[r.rw][r.v] # "none"
    /\ r.pc \in {"ckpt", "upload", "save"} /\ r.v \in Sandboxes =>
          /\ r.v \in created
          /\ store[r.v].state \in {"running", "absent"}
          /\ store[r.v].state = "running" => store[r.v].worker = r.rw
    /\ r.pc = "upload" => container[r.rw][r.v] = "none" /\ image[r.rw][r.v] = "current"
    /\ r.pc = "save" =>
          /\ r.v \notin alive[r.rw]
          /\ container[r.rw][r.v] = "none"
          /\ IF r.op = "pause" THEN image[r.rw][r.v] = "current" ELSE object[r.v] = "current"
    /\ r.pc \in {"dkill", "dremove"} /\ store[r.v].state = "running" =>
          store[r.v].worker = r.rw
    /\ r.pc = "dremove" => Vacant(r.v)
    /\ r.pc = "gstart" => container[r.rw][r.v] = "none"
    /\ r.pc = "gput" => object[GoldenPrefix] = "current"

RequestOrderly ==
    /\ \A t \in Threads : Local(th[t]) /\ CopyOK(th[t]) /\ CallOK(th[t])
    /\ \A t, u \in Threads : th[t].id # None /\ th[t].id = th[u].id => t = u

\* A sandbox is on a Worker because it is recorded there or a Resume is starting it
\* there, a golden sandbox because EnsureGolden is at work on it.
Occupancy ==
    \A w \in Workers : \A i \in Ids :
       i \in alive[w] \/ container[w][i] # "none" =>
          \/ i \in Running /\ store[i].worker = w
          \/ i \in Sandboxes /\ InCall(i, w, {"load", "put"})
          \/ i \in Goldens /\ InCall(i, w, {"gstart", "ckpt", "upload", "gundo"})

\* RunningHasContainer, which needs uploads that do not fail.
Contained == "upload" \notin Faults => RunningHasContainer

OInv ==
    /\ Records
    /\ RequestOrderly
    /\ Occupancy
    /\ RunningHoldsSlot
    /\ SnapshotKept
    /\ GoldenUsable
    /\ Contained

\* Every point where a request is inside a Worker call that Occupancy,
\* RunningHoldsSlot or RunningHasContainer mention.
LoudPcs == {"load", "put", "gstart", "ckpt", "upload", "gundo", "save", "dremove"}

Held(s) ==
    \/ alive[store[s].worker] = {s}
    \/ InCall(s, store[s].worker, {"save", "dremove"})

Kept(s) ==
    /\ store[s].state = "suspended" =>
          IF store[s].source = "external" THEN object[s] = "current" ELSE s \notin taken
    /\ store[s].state = "paused" => image[store[s].worker][s] = "current"

HasContainer(s) ==
    \/ container[store[s].worker][s] # "none"
    \/ InCall(s, store[s].worker, {"upload", "save", "dremove"})

Occupies(w, i) ==
    i \in alive[w] \/ container[w][i] # "none" =>
       \/ i \in Running /\ store[i].worker = w
       \/ i \in Sandboxes /\ InCall(i, w, {"load", "put"})
       \/ i \in Goldens /\ InCall(i, w, {"gstart", "ckpt", "upload", "gundo"})

\* All of OInv that is about the one id i, requests aside.
IdOK(i) ==
    /\ \A w \in Workers : Occupies(w, i)
    /\ i \in Sandboxes =>
          /\ RecordOK(i)
          /\ Kept(i)
          /\ store[i].state = "running" =>
                Held(i) /\ ("upload" \notin Faults => HasContainer(i))

\* OInv id by id and request by request.
LEMMA OInvParts ==
    OInv <=> RequestOrderly /\ GoldenUsable /\ \A i \in Ids : IdOK(i)
<1>1. Occupancy <=> \A i \in Ids : \A w \in Workers : Occupies(w, i)
  BY DEF Occupancy, Occupies
<1>2. RunningHoldsSlot <=> \A s \in Sandboxes : store[s].state = "running" => Held(s)
  BY DEF RunningHoldsSlot, Held, Running
<1>3. SnapshotKept <=> \A s \in Sandboxes : Kept(s)
  BY DEF SnapshotKept, Kept
<1>4. Contained <=> ("upload" \notin Faults =>
                       \A s \in Sandboxes : store[s].state = "running" => HasContainer(s))
  BY DEF Contained, RunningHasContainer, HasContainer, Running
<1>5. Records <=> \A s \in Sandboxes : RecordOK(s)
  BY DEF Records
<1>6. Sandboxes \subseteq Ids
  BY DEF Ids
<1>7. QED
  BY <1>1, <1>2, <1>3, <1>4, <1>5, <1>6 DEF OInv, IdOK

\* The same in the next state.
LEMMA OInvPartsNext ==
    ASSUME RequestOrderly', GoldenUsable', \A i \in Ids : IdOK(i)'
    PROVE  OInv'
<1>1. (\A i \in Ids : IdOK(i))'
  OBVIOUS
<1>2. QED
  BY <1>1, OInvParts, PTL

-----------------------------------------------------------------------------
(* A step is about one id: what it leaves alone                            *)

\* The step changes nothing about any id but s.
Frame(s) ==
    /\ \A i \in Ids \ {s} : \A w \in Workers :
          /\ i \in alive'[w] <=> i \in alive[w]
          /\ container'[w][i] = container[w][i]
          /\ image'[w][i] = image[w][i]
    /\ \A i \in Sandboxes \ {s} :
          /\ object'[i] = object[i]
          /\ store'[i] = store[i]
          /\ i \in created' <=> i \in created
          /\ i \in taken' <=> i \in taken

\* Only t's request moves, and if it was in a Worker call, that was about s.
Moves(t, s) ==
    /\ \A u \in Threads \ {t} : th'[u] = th[u]
    /\ t \in Threads /\ th[t].pc \in LoudPcs => th[t].v = s

\* Requests in Worker calls about another id stay where they are.
LEMMA InCallKept ==
    ASSUME NEW t, NEW s, Moves(t, s), NEW i, i # s, NEW w,
           NEW pcs \in SUBSET LoudPcs
    PROVE  InCall(i, w, pcs) => \E u \in Threads : /\ th'[u].pc \in pcs
                                                   /\ th'[u].v = i /\ th'[u].rw = w
<1>1. SUFFICES ASSUME NEW u \in Threads, th[u].pc \in pcs, th[u].v = i, th[u].rw = w
               PROVE  th'[u] = th[u]
  BY DEF InCall
<1>2. u # t
  BY <1>1 DEF Moves
<1>3. QED
  BY <1>2 DEF Moves

\* What is said of another id stays true.
LEMMA OtherId ==
    ASSUME IInv, IInv', NEW t, NEW s, Moves(t, s), Frame(s),
           NEW i \in Ids, i # s, IdOK(i)
    PROVE  IdOK(i)'
<1> DEFINE
      Here(w, pcs) == \E u \in Threads : th'[u].pc \in pcs /\ th'[u].v = i /\ th'[u].rw = w
<1>1. /\ \A w : InCall(i, w, {"load", "put"}) => Here(w, {"load", "put"})
      /\ \A w : InCall(i, w, {"gstart", "ckpt", "upload", "gundo"})
                   => Here(w, {"gstart", "ckpt", "upload", "gundo"})
      /\ \A w : InCall(i, w, {"save", "dremove"}) => Here(w, {"save", "dremove"})
      /\ \A w : InCall(i, w, {"upload", "save", "dremove"}) => Here(w, {"upload", "save", "dremove"})
  <2>1. /\ {"load", "put"} \in SUBSET LoudPcs
        /\ {"gstart", "ckpt", "upload", "gundo"} \in SUBSET LoudPcs
        /\ {"save", "dremove"} \in SUBSET LoudPcs
        /\ {"upload", "save", "dremove"} \in SUBSET LoudPcs
    BY DEF LoudPcs
  <2>2. QED
    BY <2>1, InCallKept
<1>2. i \in Sandboxes =>
         /\ object'[i] = object[i] /\ store'[i] = store[i]
         /\ (i \in created' <=> i \in created) /\ (i \in taken' <=> i \in taken)
  BY DEF Frame
<1>3. \A w \in Workers : /\ i \in alive'[w] <=> i \in alive[w]
                         /\ container'[w][i] = container[w][i]
                         /\ image'[w][i] = image[w][i]
  BY DEF Frame
<1>4. ASSUME NEW w \in Workers PROVE Occupies(w, i)'
  <2>1. Occupies(w, i)
    BY DEF IdOK
  <2>2. CASE i \in Sandboxes
    <3>1. i \notin Goldens
      BY <2>2, IdsAssumption
    <3>2. QED
      BY <1>1, <1>2, <1>3, <2>1, <2>2, <3>1 DEF Occupies, InCall, Running
  <2>3. CASE i \notin Sandboxes
    BY <1>1, <1>3, <2>1, <2>3 DEF Occupies, InCall, Running
  <2>4. QED
    BY <2>2, <2>3
<1>5. ASSUME i \in Sandboxes
      PROVE  RecordOK(i)' /\ Kept(i)' /\ (store'[i].state = "running" =>
                Held(i)' /\ ("upload" \notin Faults => HasContainer(i)'))
  <2>1. RecordOK(i)'
    BY <1>2, <1>5 DEF IdOK, RecordOK
  <2>2. store[i].state \in {"running", "paused"} => store[i].worker \in Workers
    BY <1>5 DEF IInv, StoreOK, SbOK
  <2>3. Kept(i)'
    BY <1>2, <1>3, <1>5, <2>2 DEF IdOK, Kept
  <2>4. ASSUME store'[i].state = "running" PROVE Held(i)'
    <3>1. Held(i) /\ store[i].worker \in Workers /\ store'[i] = store[i]
      BY <1>2, <1>5, <2>2, <2>4 DEF IdOK
    <3>2. CASE InCall(i, store[i].worker, {"save", "dremove"})
      BY <1>1, <3>1, <3>2 DEF Held, InCall
    <3>3. CASE alive[store[i].worker] = {i}
      <4>1. i \in alive'[store[i].worker]
        BY <1>3, <3>1, <3>3
      <4>2. alive'[store[i].worker] = {i}
        BY <3>1, <4>1 DEF IInv, WorkerOK, SlotExclusive
      <4>3. QED
        BY <3>1, <4>2 DEF Held
    <3>4. QED
      BY <3>1, <3>2, <3>3 DEF Held
  <2>5. ASSUME store'[i].state = "running", "upload" \notin Faults PROVE HasContainer(i)'
    <3>1. HasContainer(i) /\ store[i].worker \in Workers /\ store'[i] = store[i]
      BY <1>2, <1>5, <2>2, <2>5 DEF IdOK
    <3>2. CASE InCall(i, store[i].worker, {"upload", "save", "dremove"})
      BY <1>1, <3>1, <3>2 DEF HasContainer, InCall
    <3>3. CASE container[store[i].worker][i] # "none"
      BY <1>3, <3>1, <3>3 DEF HasContainer
    <3>4. QED
      BY <3>1, <3>2, <3>3 DEF HasContainer
  <2>6. QED
    BY <2>1, <2>3, <2>4, <2>5
<1>6. QED
  BY <1>4, <1>5 DEF IdOK

\* What is said of the copy of another sandbox's record stays true.
LEMMA OtherCopy ==
    ASSUME IInv, NEW s, Frame(s), NEW u \in Threads, th'[u] = th[u], Local(th[u]),
           CopyOK(th[u]), s \in Ids => th[u].id # s
    PROVE  CopyOK(th[u])'
<1>1. th[u].op = "resume" => th[u].id \in Sandboxes
  BY RequestOK DEF Shape, Local
<1>2. QED
  BY <1>1 DEF CopyOK, Frame, Ids

\* The Worker call that r is in, or is about to finish with, is for s.
Works(r, s) == s \in Ids /\ r.v = s /\ r.pc \in LoudPcs \cup {"dkill"}

\* What is said of a Worker call for another id stays true.
LEMMA OtherCall ==
    ASSUME IInv, NEW s, Frame(s), NEW u \in Threads, th'[u] = th[u], Local(th[u]),
           CallOK(th[u]), ~Works(th[u], s),
           th[u].pc = "gput" => object'[GoldenPrefix] = object[GoldenPrefix]
    PROVE  CallOK(th[u])'
<1> DEFINE r == th[u]
<1>1. /\ r.v \in Ids /\ r.pc \in LoudPcs \cup {"dkill"} => r.v # s
      /\ ~r.gone /\ Shape(r)
  BY RequestOK DEF Works, Local
<1>2. r.pc \in {"load", "put", "ckpt", "upload", "save", "gstart", "dkill"} => r.rw \in Workers
  BY <1>1 DEF Shape, RestorePcs
<1>3. /\ r.pc \in {"load", "put", "save", "dkill", "dremove"} => r.v \in Sandboxes
      /\ r.pc \in {"ckpt", "upload", "gstart"} => r.v \in Ids
  BY <1>1 DEF Shape, RestorePcs, Ids
<1>4. r.v \in Ids /\ r.pc \in LoudPcs \cup {"dkill"} =>
         \A w \in Workers : /\ r.v \in alive'[w] <=> r.v \in alive[w]
                            /\ container'[w][r.v] = container[w][r.v]
                            /\ image'[w][r.v] = image[w][r.v]
  BY <1>1 DEF Frame
<1>5. r.v \in Sandboxes /\ r.pc \in LoudPcs \cup {"dkill"} =>
         /\ object'[r.v] = object[r.v] /\ store'[r.v] = store[r.v]
         /\ r.v \in created' <=> r.v \in created
  BY <1>1 DEF Frame, Ids
<1>6. Sandboxes \subseteq Ids
  BY DEF Ids
<1>7. r.pc = "dremove" => Vacant(r.v)'
  BY <1>3, <1>4, <1>6 DEF CallOK, Vacant, LoudPcs
<1>8. QED
  BY <1>2, <1>3, <1>4, <1>5, <1>6, <1>7 DEF CallOK, LoudPcs

\* The step of t keeps OInv if it keeps what is said of s, of its own request and of
\* the other requests for s.
LEMMA OrderlyStep ==
    ASSUME IInv, IInv', OInv, NEW t, NEW s, Moves(t, s), Frame(s),
           \A u \in Threads \ {t} : s \in Ids /\ th[u].id = s => CopyOK(th[u])',
           \A u \in Threads \ {t} : Works(th[u], s) => CallOK(th[u])',
           \A u \in Threads \ {t} : th[u].pc = "gput" =>
                                       object'[GoldenPrefix] = object[GoldenPrefix],
           t \in Threads =>
              /\ (Local(th[t]) /\ CopyOK(th[t]) /\ CallOK(th[t]))'
              /\ th'[t].id # None => \A u \in Threads \ {t} : th[u].id # th'[t].id,
           s \in Ids => IdOK(s)',
           GoldenUsable'
    PROVE  OInv'
<1>1. RequestOrderly /\ \A i \in Ids : IdOK(i)
  BY OInvParts
<1>2. ASSUME NEW u \in Threads PROVE (Local(th[u]) /\ CopyOK(th[u]) /\ CallOK(th[u]))'
  <2>1. CASE u = t
    BY <2>1
  <2>2. CASE u # t
    <3>1. th'[u] = th[u] /\ Local(th[u]) /\ CopyOK(th[u]) /\ CallOK(th[u])
      BY <1>1, <2>2 DEF Moves, RequestOrderly
    <3>2. Local(th[u])'
      BY <3>1 DEF Local
    <3>3. CopyOK(th[u])'
      BY <2>2, <3>1, OtherCopy
    <3>4. CallOK(th[u])'
      BY <2>2, <3>1, OtherCall
    <3>5. QED
      BY <3>2, <3>3, <3>4
  <2>3. QED
    BY <2>1, <2>2
<1>3. ASSUME NEW u \in Threads, NEW x \in Threads, th'[u].id # None, th'[u].id = th'[x].id
      PROVE  u = x
  <2>1. \A y \in Threads \ {t} : th'[y] = th[y]
    BY DEF Moves
  <2>2. \A y, z \in Threads : th[y].id # None /\ th[y].id = th[z].id => y = z
    BY <1>1 DEF RequestOrderly
  <2>3. QED
    BY <1>3, <2>1, <2>2
<1>4. RequestOrderly'
  BY <1>2, <1>3 DEF RequestOrderly
<1>5. ASSUME NEW i \in Ids PROVE IdOK(i)'
  BY <1>1, OtherId
<1>6. QED
  BY <1>4, <1>5, OInvPartsNext

\* A step that changes only t's request, which is in no Worker call.
LEMMA QuietOrderly ==
    ASSUME IInv, IInv', OInv, NEW t \in Threads,
           \A u \in Threads \ {t} : th'[u] = th[u],
           th[t].pc \notin LoudPcs,
           UNCHANGED <<workerVars, store, created, golden>>,
           (Local(th[t]) /\ CopyOK(th[t]) /\ CallOK(th[t]))',
           \A u \in Threads \ {t} : th'[t].id # None => th[u].id # th'[t].id
    PROVE  OInv'
<1>1. None \notin Ids /\ Moves(t, None) /\ Frame(None)
  BY IdsAssumption DEF Moves, Frame, workerVars, Ids
<1>2. GoldenUsable' /\ object'[GoldenPrefix] = object[GoldenPrefix]
  BY DEF OInv, GoldenUsable, workerVars
<1>3. QED
  BY <1>1, <1>2, OrderlyStep DEF Works

\* A request keeps its sandbox to itself.
LEMMA OwnId ==
    ASSUME OInv, NEW t \in Threads, NEW u \in Threads \ {t}, th[t].id # None
    PROVE  th[u].id # th[t].id
BY DEF OInv, RequestOrderly

\* What OInv says of one request.
LEMMA OneRequest ==
    ASSUME OInv, NEW t \in Threads
    PROVE  Local(th[t]) /\ CopyOK(th[t]) /\ CallOK(th[t])
BY DEF OInv, RequestOrderly

\* Nobody else is at work on a sandbox that is being resumed.
LEMMA ResumesAlone ==
    ASSUME IInv, OInv, NEW t \in Threads, th[t].pc \in {"restore", "load", "put"},
           NEW u \in Threads \ {t}
    PROVE  th[u].id # th[t].v /\ ~Works(th[u], th[t].v)
<1>1. /\ Shape(th[t]) /\ Local(th[t]) /\ CopyOK(th[t])
      /\ Shape(th[u]) /\ Local(th[u]) /\ CallOK(th[u])
  BY RequestOK, OneRequest
<1>2. /\ th[t].op = "resume" /\ th[t].id = th[t].v /\ th[t].v \in Sandboxes
      /\ store[th[t].v].state \in {"suspended", "paused"}
  BY <1>1 DEF Shape, Local, CopyOK, RestorePcs
<1>3. th[u].id # th[t].v
  BY <1>2, OwnId, IdsAssumption
<1>4. ASSUME Works(th[u], th[t].v) PROVE FALSE
  <2>1. th[u].pc \notin {"load", "put", "dkill", "dremove"}
    BY <1>1, <1>3, <1>4 DEF Shape, Local, RestorePcs, Works
  <2>2. th[u].pc \notin {"ckpt", "upload", "save"}
    BY <1>1, <1>2, <1>4 DEF CallOK, Works
  <2>3. th[u].pc \notin {"gstart", "gundo"}
    BY <1>1, <1>2, <1>4, IdsAssumption DEF Shape, Works
  <2>4. QED
    BY <1>4, <2>1, <2>2, <2>3 DEF LoudPcs, Works
<1>5. QED
  BY <1>3, <1>4

\* Nobody else is at work on a sandbox that is being stopped, except to delete it.
LEMMA StopsAlone ==
    ASSUME Orderly, IInv, OInv, NEW t \in Threads, th[t].pc \in {"ckpt", "upload", "save"},
           th[t].v \in Sandboxes, NEW u \in Threads \ {t}
    PROVE  /\ th[u].id = th[t].v /\ th[u].op = "resume" => th[u].pc = "clear"
           /\ Works(th[u], th[t].v) => th[u].pc \in {"dkill", "dremove"}
<1>1. /\ Shape(th[t]) /\ Local(th[t]) /\ CallOK(th[t])
      /\ Shape(th[u]) /\ Local(th[u]) /\ CopyOK(th[u])
  BY RequestOK, OneRequest
<1>2. store[th[t].v].state \in {"running", "absent"}
  BY <1>1 DEF CallOK
<1>3. th[u].id = th[t].v /\ th[u].op = "resume" => th[u].pc = "clear"
  BY <1>1, <1>2 DEF CopyOK
<1>4. ASSUME th[u].v = th[t].v, th[u].pc \in LoudPcs \cup {"dkill"}
      PROVE  th[u].pc \in {"dkill", "dremove"}
  <2>1. th[u].pc \notin {"load", "put"}
    BY <1>1, <1>3, <1>4 DEF Shape, Local, RestorePcs
  <2>2. th[u].pc \notin {"gstart", "gundo"}
    BY <1>1, <1>4, IdsAssumption DEF Shape
  <2>3. \A x \in {t, u} : th[x].pc \in {"ckpt", "upload", "save"} => HoldsKnock(th[x])
    <3>1. ~ReadFails
      BY DEF Orderly, ReadFails
    <3>2. \A x \in {t, u} : th[x].pc \in {"ckpt", "upload", "save"} => th[x].op # "golden"
      <4>1. SUFFICES ASSUME NEW x \in {t, u}, th[x].pc \in {"ckpt", "upload", "save"},
                            th[x].op = "golden"
                     PROVE  FALSE
        OBVIOUS
      <4>2. x \in Threads /\ ~th[x].gone /\ th[x].v \in Sandboxes /\ Shape(th[x])
        BY <1>1, <1>4, <4>1 DEF Local
      <4>3. HoldsGolden(th[x])
        BY <4>1, <4>2, SchedulerAssumption, IdsAssumption DEF Shape, HoldsGolden, StopPcs
      <4>4. ~golden
        BY <3>1, <4>2, <4>3, RequestOK
      <4>5. th[x].v \in Goldens
        BY <4>1, <4>2, <4>4, RequestOK DEF FreshRequest
      <4>6. QED
        BY <4>2, <4>5, IdsAssumption
    <3>3. QED
      BY <1>1, <3>2 DEF Local, HoldsKnock, StopPcs
  <2>4. ~(HoldsKnock(th[t]) /\ HoldsKnock(th[u]))
    BY DEF IInv, RequestsOK, Locks
  <2>5. QED
    BY <1>4, <2>1, <2>2, <2>3, <2>4 DEF LoudPcs
<1>5. QED
  BY <1>3, <1>4 DEF Works

\* Only an eviction can be at work on a sandbox that is being deleted.
LEMMA DeletesAlone ==
    ASSUME IInv, OInv, NEW t \in Threads, th[t].pc \in {"dkill", "dremove"},
           NEW u \in Threads \ {t}
    PROVE  /\ th[u].id # th[t].v
           /\ Works(th[u], th[t].v) => th[u].pc \in {"ckpt", "upload", "save"}
<1>1. /\ Shape(th[t]) /\ Local(th[t])
      /\ Shape(th[u]) /\ Local(th[u])
  BY RequestOK, OneRequest
<1>2. th[t].id = th[t].v /\ th[t].v \in Sandboxes
  BY <1>1 DEF Shape, Local
<1>3. th[u].id # th[t].v
  BY <1>2, OwnId, IdsAssumption
<1>4. QED
  BY <1>1, <1>2, <1>3, IdsAssumption DEF Shape, Local, RestorePcs, Works, LoudPcs

\* EnsureGolden builds one golden sandbox at a time.
LEMMA BuildsAlone ==
    ASSUME Orderly, IInv, OInv, NEW t \in Threads, HoldsGolden(th[t]), NEW u \in Threads \ {t}
    PROVE  ~golden /\ th[u].pc # "gput" /\ \A g \in Goldens : ~Works(th[u], g)
<1>1. ~golden
  BY RequestOK DEF Orderly, ReadFails
<1>2. ~HoldsGolden(th[u])
  BY DEF IInv, RequestsOK, Locks
<1>3. Shape(th[u]) /\ Local(th[u])
  BY RequestOK, OneRequest
<1>4. th[u].g = None
  BY <1>2, <1>3 DEF HoldsGolden, Local
<1>5. /\ th[u].pc \notin {"gstart", "gundo", "gput"}
      /\ th[u].pc \in {"ckpt", "upload"} => th[u].v \notin Goldens
  BY <1>3, <1>4, IdsAssumption DEF Shape, Local, BuildPcs, StopPcs
<1>6. th[u].pc \in {"load", "put", "save", "dkill", "dremove"} => th[u].v \notin Goldens
  BY <1>3, IdsAssumption DEF Shape, RestorePcs
<1>7. QED
  BY <1>1, <1>5, <1>6 DEF Works, LoudPcs

-----------------------------------------------------------------------------
(* Steps that are in no Worker call and write nothing                      *)

\* No reply is lost.
LEMMA NothingLost ==
    ASSUME Orderly
    PROVE  /\ ~Overlap /\ ~ReadFails
           /\ "put" \notin Faults /\ "detach" \notin Faults
           /\ "restart" \notin Faults /\ "crash" \notin Faults
BY DEF Orderly, ReadFails

\* A request outside Worker calls.
LEMMA QuietCall ==
    ASSUME NEW t \in Threads, th'[t].pc \notin LoudPcs \cup {"dkill", "gput"}
    PROVE  CallOK(th[t])'
BY DEF CallOK, LoudPcs

\* t's request goes on outside Worker calls, for the same sandbox.
LEMMA QuietGoesOn ==
    ASSUME IInv, IInv', OInv, NEW t \in Threads,
           \A u \in Threads \ {t} : th'[u] = th[u],
           th[t].pc \notin LoudPcs, th'[t].pc \notin LoudPcs \cup {"dkill", "gput"},
           UNCHANGED <<workerVars, store, created, golden>>,
           (Local(th[t]) /\ CopyOK(th[t]))',
           th'[t].id = th[t].id
    PROVE  OInv'
BY QuietCall, OwnId, QuietOrderly

\* t's request returns, outside Worker calls.
LEMMA QuietReturn ==
    ASSUME IInv, IInv', OInv, NEW t \in Threads, Return(t), th[t].pc \notin LoudPcs,
           UNCHANGED <<workerVars, store, created, golden>>
    PROVE  OInv'
<1>1. th'[t] = NoRequest /\ \A u \in Threads \ {t} : th'[u] = th[u]
  BY DEF Return, Leave, IInv, RequestsOK
<1>2. (Local(th[t]) /\ CopyOK(th[t]))'
  BY <1>1 DEF NoRequest, NoSandbox, Local, CopyOK
<1>3. CallOK(th[t])' /\ th'[t].id = None
  BY <1>1, QuietCall DEF NoRequest, LoudPcs
<1>4. QED
  BY <1>1, <1>2, <1>3, QuietOrderly

\* Nobody else is being served for the sandbox that a client names.
LEMMA CallsAlone ==
    ASSUME Orderly, IInv, NEW t \in Threads, NEW op, NEW s \in Sandboxes, Calls(t, op, s)
    PROVE  /\ \A u \in Threads : th[u].id # s
           /\ th[t].pc \notin LoudPcs
           /\ UNCHANGED <<workerVars, store, created, golden>>
BY NothingLost, IdsAssumption DEF Calls, LoudPcs

\* A sandbox is on a Worker only if it is recorded or being resumed there.
LEMMA NotThere ==
    ASSUME IInv, OInv, NEW s \in Sandboxes, NEW w \in Workers,
           store[s].state = "running" => store[s].worker # w,
           \A u \in Threads : th[u].id = s /\ th[u].pc \in {"load", "put"} => th[u].rw # w
    PROVE  s \notin alive[w] /\ container[w][s] = "none"
<1>1. SUFFICES ASSUME s \in alive[w] \/ container[w][s] # "none" PROVE FALSE
  OBVIOUS
<1>2. s \in Ids /\ s \notin Goldens /\ ~(s \in Running /\ store[s].worker = w)
  BY IdsAssumption DEF Ids, Running
<1>3. InCall(s, w, {"load", "put"})
  BY <1>1, <1>2 DEF OInv, Occupancy
<1>4. PICK u \in Threads : th[u].pc \in {"load", "put"} /\ th[u].v = s /\ th[u].rw = w
  BY <1>3 DEF InCall
<1>5. th[u].id = s
  BY <1>4, RequestOK, OneRequest DEF Shape, Local, RestorePcs
<1>6. QED
  BY <1>4, <1>5

\* Clients' calls.
LEMMA ClientCallOrderly ==
    ASSUME Orderly, IInv, IInv', OInv, NEW t \in Threads, ClientCall(t)
    PROVE  OInv'
<1> USE DEF IInv, RequestsOK
<1>1. ASSUME NEW s \in Sandboxes, CallResume(t, s) PROVE OInv'
  <2>1. /\ th'[t] = [Started("resume", "lobby", s) EXCEPT !.sb = store[s]]
        /\ \A u \in Threads \ {t} : th'[u] = th[u]
        /\ store[s].state \in {"suspended", "paused"}
    BY <1>1 DEF CallResume
  <2>2. /\ \A u \in Threads : th[u].id # s
        /\ th[t].pc \notin LoudPcs
        /\ UNCHANGED <<workerVars, store, created, golden>>
    BY <1>1, CallsAlone DEF CallResume
  <2>3. /\ th'[t].op = "resume" /\ th'[t].pc = "lobby" /\ th'[t].id = s /\ th'[t].sb = store[s]
        /\ th'[t].w = None /\ ~th'[t].gone
    BY <2>1 DEF Started, NoRequest
  <2>4. (Local(th[t]) /\ CopyOK(th[t]))'
    BY <2>1, <2>2, <2>3 DEF Local, CopyOK, StopPcs, RestorePcs
  <2>5. CallOK(th[t])'
    BY <2>3, QuietCall DEF LoudPcs
  <2>6. QED
    BY <2>1, <2>2, <2>3, <2>4, <2>5, QuietOrderly
<1>2. ASSUME NEW s \in Sandboxes, CallStop(t, s) PROVE OInv'
  <2>1. PICK op \in {"pause", "suspend"} :
          /\ Calls(t, op, s)
          /\ th' = [th EXCEPT ![t] = [Started(op, "lock", s) EXCEPT !.v = s]]
    BY <1>2 DEF CallStop
  <2>2. /\ \A u \in Threads : th[u].id # s
        /\ th[t].pc \notin LoudPcs
        /\ UNCHANGED <<workerVars, store, created, golden>>
    BY <2>1, CallsAlone
  <2>3. /\ th'[t].op = op /\ th'[t].pc = "lock" /\ th'[t].id = s /\ th'[t].v = s /\ ~th'[t].gone
        /\ \A u \in Threads \ {t} : th'[u] = th[u]
    BY <2>1 DEF Started, NoRequest
  <2>4. (Local(th[t]) /\ CopyOK(th[t]))'
    BY <2>3 DEF Local, CopyOK
  <2>5. CallOK(th[t])'
    BY <2>3, QuietCall DEF LoudPcs
  <2>6. QED
    BY <2>2, <2>3, <2>4, <2>5, QuietOrderly
<1>3. ASSUME NEW s \in Sandboxes, CallDelete(t, s) PROVE OInv'
  <2>1. /\ \A u \in Threads : th[u].id # s
        /\ th[t].pc \notin LoudPcs
        /\ UNCHANGED <<workerVars, store, created, golden>>
    BY <1>3, CallsAlone DEF CallDelete
  <2>2. /\ th'[t].op = "delete" /\ th'[t].id = s /\ th'[t].v = s /\ ~th'[t].gone
        /\ IF store[s].state = "running"
           THEN th'[t].pc = "dkill" /\ th'[t].rw = store[s].worker
           ELSE th'[t].pc = "dremove"
        /\ \A u \in Threads \ {t} : th'[u] = th[u]
    BY <1>3 DEF CallDelete, Started, NoRequest
  <2>3. (Local(th[t]) /\ CopyOK(th[t]))'
    BY <2>2 DEF Local, CopyOK, StopPcs
  <2>4. store[s].state # "running" => Vacant(s)
    BY <2>1, NotThere DEF Vacant
  <2>5. store[s].state # "running" => Vacant(s)'
    BY <2>1, <2>4 DEF Vacant, workerVars
  <2>6. CallOK(th[t])'
    BY <2>1, <2>2, <2>5 DEF CallOK
  <2>7. QED
    BY <2>1, <2>2, <2>3, <2>6, QuietOrderly
<1>4. ASSUME CallGolden(t) PROVE OInv'
  <2>1. /\ th'[t] = Started("golden", "glock", None) /\ \A u \in Threads \ {t} : th'[u] = th[u]
        /\ th[t].pc = "idle"
        /\ UNCHANGED <<workerVars, store, created, golden>>
    BY <1>4 DEF CallGolden, Calls
  <2>2. th'[t].op = "golden" /\ th'[t].pc = "glock" /\ th'[t].id = None /\ ~th'[t].gone
    BY <2>1 DEF Started, NoRequest
  <2>3. (Local(th[t]) /\ CopyOK(th[t]))'
    BY <2>2 DEF Local, CopyOK
  <2>4. CallOK(th[t])'
    BY <2>2, QuietCall DEF LoudPcs
  <2>5. QED
    BY <2>1, <2>2, <2>3, <2>4, QuietOrderly DEF LoudPcs
<1>5. QED
  BY <1>1, <1>2, <1>3, <1>4 DEF ClientCall

\* The record that a Resume reads again is the one it has.
LEMMA RereadSame ==
    ASSUME Orderly, IInv, OInv, NEW t \in Threads, th[t].pc \in {"lobby", "knock"},
           NEW sb \in Reread(t)
    PROVE  sb = th[t].sb
<1>1. th[t].op = "resume"
  BY RequestOK DEF Shape
<1>2. store[th[t].id] = th[t].sb /\ th[t].sb.state # "absent"
  BY <1>1, OneRequest DEF CopyOK
<1>3. QED
  BY <1>2, NothingLost DEF Reread

\* Waiting, knocking and probing keep the copy and the placement.
LEMMA WaitOrderly ==
    ASSUME Orderly, IInv, IInv', OInv, NEW t \in Threads,
           Lobby(t) \/ StepBack(t) \/ Knock(t) \/ Probe(t)
    PROVE  OInv'
<1>1. th \in [Threads -> Requests] /\ th[t] \in Requests /\ Local(th[t]) /\ CopyOK(th[t]) /\ Shape(th[t])
  BY RequestOK, OneRequest DEF IInv, RequestsOK
<1>2. /\ UNCHANGED <<workerVars, store, created, golden>>
      /\ th[t].pc \in {"lobby", "knock", "probe", "gprobe"}
  BY DEF Lobby, StepBack, Knock, Probe
<1>3. /\ \A u \in Threads \ {t} : th'[u] = th[u]
      /\ th'[t].op = th[t].op /\ th'[t].id = th[t].id /\ th'[t].sb = th[t].sb
      /\ th'[t].w = th[t].w /\ th'[t].gone = th[t].gone /\ th'[t].v = th[t].v
      /\ th'[t].pc \in {"lobby", "knock", "probe", "gprobe"}
  <2>1. CASE Lobby(t)
    <3>1. th' = [th EXCEPT ![t].pc = "knock", ![t].sb = th[t].sb]
      BY <2>1, RereadSame DEF Lobby
    <3>2. QED
      BY <1>1, <3>1 DEF Requests
  <2>2. CASE StepBack(t)
    <3>1. th' = [th EXCEPT ![t].pc = "lobby", ![t].sb = th[t].sb]
      BY <2>2, RereadSame DEF StepBack
    <3>2. QED
      BY <1>1, <3>1 DEF Requests
  <2>3. CASE Knock(t)
    <3>1. th' = [th EXCEPT ![t].pc = "probe", ![t].sb = th[t].sb, ![t].left = Workers]
      BY <2>3, RereadSame DEF Knock
    <3>2. QED
      BY <1>1, <3>1 DEF Requests
  <2>4. CASE Probe(t)
    <3>1. PICK w \in th[t].left :
            \/ th' = [th EXCEPT ![t].left = @ \ {w}, ![t].up = @ \cup {w},
                                ![t].free = IF HasFreeSlot(w) THEN @ \cup {w} ELSE @]
            \/ th' = [th EXCEPT ![t].left = @ \ {w}]
      BY <2>4 DEF Probe
    <3>2. QED
      BY <1>1, <1>2, <3>1 DEF Requests
  <2>5. QED
    BY <2>1, <2>2, <2>3, <2>4
<1>4. (Local(th[t]) /\ CopyOK(th[t]))'
  BY <1>1, <1>2, <1>3 DEF Local, CopyOK, StopPcs, RestorePcs
<1>5. QED
  BY <1>2, <1>3, <1>4, QuietGoesOn DEF LoudPcs

\* A paused sandbox is placed on its own Worker, a victim's if need be.
LEMMA PausedStays ==
    ASSUME NEW sb, sb.state = "paused", NEW id, NEW up, NEW free, NEW running,
           NEW view \in ResumeCandidates(sb, id, up, free, running),
           NEW ok \in Eligible(view.free), NEW p \in Placements(sb.worker, ok, view.running)
    PROVE  p.worker = sb.worker
<1>1. view = Only(sb.worker, free, running)
  BY DEF ResumeCandidates
<1>2. view.free \subseteq {sb.worker} /\ \A s \in view.running : store[s].worker = sb.worker
  BY <1>1 DEF Only
<1>3. ok \subseteq {sb.worker}
  BY <1>2 DEF Eligible
<1>4. QED
  BY <1>2, <1>3 DEF Placements

\* The decision under knockMu.
LEMMA DecideOrderly ==
    ASSUME Orderly, IInv, IInv', OInv, NEW t \in Threads, Decide(t)
    PROVE  OInv'
<1> DEFINE r == th[t]
           seen == [r EXCEPT !.up = {}, !.free = {}]
<1>1. /\ th \in [Threads -> Requests] /\ r \in Requests
      /\ Local(r) /\ CopyOK(r) /\ Shape(r)
  BY RequestOK, OneRequest DEF IInv, RequestsOK
<1>2. UNCHANGED <<workerVars, store, created, golden>> /\ r.pc = "probe" /\ r.op = "resume"
  BY <1>1 DEF Decide, Shape
<1>3. CASE Return(t)
  BY <1>2, <1>3, QuietReturn DEF LoudPcs
<1>4. CASE Leave(t, [seen EXCEPT !.pc = "lobby"])
  <2>1. /\ \A u \in Threads \ {t} : th'[u] = th[u]
        /\ th'[t].op = r.op /\ th'[t].id = r.id /\ th'[t].sb = r.sb
        /\ th'[t].w = r.w /\ th'[t].gone = r.gone /\ th'[t].pc = "lobby"
    BY <1>1, <1>4 DEF Leave, Requests
  <2>2. (Local(th[t]) /\ CopyOK(th[t]))'
    BY <1>1, <1>2, <2>1 DEF Local, CopyOK, StopPcs, RestorePcs
  <2>3. QED
    BY <1>2, <2>1, <2>2, QuietGoesOn DEF LoudPcs
<1>5. ASSUME NEW running \in Listed,
             NEW view \in ResumeCandidates(r.sb, r.id, r.up, WithoutReserves(r.id, r.free), running),
             NEW ok \in Eligible(view.free),
             NEW p \in Placements(r.sb.worker, ok, view.running),
             th' = [th EXCEPT ![t] =
                      [seen EXCEPT !.w = p.worker, !.v = p.victim,
                                   !.pc = IF p.victim = None THEN "source" ELSE "begin"]]
      PROVE  OInv'
  <2>1. /\ \A u \in Threads \ {t} : th'[u] = th[u]
        /\ th'[t].op = r.op /\ th'[t].id = r.id /\ th'[t].sb = r.sb
        /\ th'[t].w = p.worker /\ th'[t].gone = r.gone /\ th'[t].pc \in {"source", "begin"}
    BY <1>1, <1>5 DEF Requests
  <2>2. r.sb.state = "paused" => p.worker = r.sb.worker
    BY <1>5, PausedStays
  <2>3. (Local(th[t]) /\ CopyOK(th[t]))'
    BY <1>1, <1>2, <2>1, <2>2 DEF Local, CopyOK, StopPcs, RestorePcs
  <2>4. QED
    BY <1>2, <2>1, <2>3, QuietGoesOn DEF LoudPcs
<1>6. QED
  BY <1>3, <1>4, <1>5 DEF Decide

\* A Resume that is admitted restores where it was placed.
LEMMA AdmitRequest ==
    ASSUME IInv, OInv, NEW t \in Threads, th[t].op = "resume", th[t].pc # "clear", th[t].w # None,
           Admit(t), UNCHANGED store
    PROVE  /\ \A u \in Threads \ {t} : th'[u] = th[u]
           /\ th'[t].id = th[t].id /\ th'[t].pc = "restore"
           /\ (Local(th[t]) /\ CopyOK(th[t]))'
<1>1. th \in [Threads -> Requests] /\ th[t] \in Requests /\ Local(th[t]) /\ CopyOK(th[t])
  BY RequestOK, OneRequest DEF IInv, RequestsOK
<1>2. /\ \A u \in Threads \ {t} : th'[u] = th[u]
      /\ th'[t].op = th[t].op /\ th'[t].id = th[t].id /\ th'[t].sb = th[t].sb
      /\ th'[t].w = None /\ th'[t].rw = th[t].w /\ th'[t].gone = th[t].gone
      /\ th'[t].pc = "restore"
  BY <1>1 DEF Admit, Requests
<1>3. (Local(th[t]) /\ CopyOK(th[t]))'
  BY <1>1, <1>2 DEF Local, CopyOK, StopPcs, RestorePcs
<1>4. QED
  BY <1>2, <1>3

\* Picking the snapshot, and giving up.
LEMMA SourceOrderly ==
    ASSUME Orderly, IInv, IInv', OInv, NEW t \in Threads, Source(t) \/ GiveUp(t) \/ ClearReserve(t)
    PROVE  OInv'
<1>1. /\ th \in [Threads -> Requests] /\ th[t] \in Requests
      /\ Local(th[t]) /\ CopyOK(th[t]) /\ Shape(th[t])
  BY RequestOK, OneRequest DEF IInv, RequestsOK
<1>2. UNCHANGED <<workerVars, store, created, golden>> /\ th[t].pc \in {"source", "lobby", "clear"}
  BY DEF Source, GiveUp, ClearReserve
<1>3. CASE Return(t)
  BY <1>2, <1>3, QuietReturn DEF LoudPcs
<1>4. CASE th[t].pc = "source" /\ Goto(t, "glock")
  <2>1. /\ \A u \in Threads \ {t} : th'[u] = th[u]
        /\ th'[t].op = th[t].op /\ th'[t].id = th[t].id /\ th'[t].sb = th[t].sb
        /\ th'[t].w = th[t].w /\ th'[t].gone = th[t].gone /\ th'[t].pc = "glock"
    BY <1>1, <1>4 DEF Goto, Requests
  <2>2. (Local(th[t]) /\ CopyOK(th[t]))'
    BY <1>1, <1>2, <1>4, <2>1 DEF Local, CopyOK, StopPcs, RestorePcs
  <2>3. QED
    BY <1>2, <1>4, <2>1, <2>2, QuietGoesOn DEF LoudPcs
<1>5. CASE th[t].pc = "source" /\ Admit(t)
  <2>1. th[t].op = "resume" /\ th[t].w # None
    BY <1>1, <1>5, IdsAssumption DEF Shape, Local
  <2>2. QED
    BY <1>2, <1>5, <2>1, AdmitRequest, QuietGoesOn DEF LoudPcs
<1>6. QED
  BY <1>2, <1>3, <1>4, <1>5 DEF Source, GiveUp, ClearReserve

\* Pause and Suspend take knockMu and look at the record.
LEMMA BeginOrderly ==
    ASSUME Orderly, IInv, IInv', OInv, NEW t \in Threads, LockStop(t) \/ Begin(t)
    PROVE  OInv'
<1>1. /\ th \in [Threads -> Requests] /\ th[t] \in Requests
      /\ Local(th[t]) /\ CopyOK(th[t]) /\ Shape(th[t])
  BY RequestOK, OneRequest DEF IInv, RequestsOK
<1>2. UNCHANGED <<workerVars, store, created, golden>> /\ th[t].pc \in {"lock", "begin"}
  BY DEF LockStop, Begin
<1>3. CASE Return(t)
  BY <1>2, <1>3, QuietReturn DEF LoudPcs
<1>4. CASE LockStop(t)
  <2>1. /\ \A u \in Threads \ {t} : th'[u] = th[u]
        /\ th'[t].op = th[t].op /\ th'[t].id = th[t].id /\ th'[t].v = th[t].v
        /\ th'[t].gone = th[t].gone /\ th'[t].pc = "begin" /\ th[t].pc = "lock"
    BY <1>1, <1>4 DEF LockStop, Requests
  <2>2. (Local(th[t]) /\ CopyOK(th[t]))'
    BY <1>1, <2>1 DEF Local, CopyOK, Shape, StopPcs, RestorePcs
  <2>3. QED
    BY <1>2, <2>1, <2>2, QuietGoesOn DEF LoudPcs
<1>5. CASE /\ th[t].pc = "begin"
           /\ store[th[t].v].state = "running"
           /\ th' = [th EXCEPT ![t].pc = "ckpt", ![t].rw = store[th[t].v].worker]
  <2>1. /\ \A u \in Threads \ {t} : th'[u] = th[u]
        /\ th'[t].op = th[t].op /\ th'[t].id = th[t].id /\ th'[t].sb = th[t].sb
        /\ th'[t].w = th[t].w /\ th'[t].v = th[t].v /\ th'[t].gone = th[t].gone
        /\ th'[t].pc = "ckpt" /\ th'[t].rw = store[th[t].v].worker
    BY <1>1, <1>5 DEF Requests
  <2>2. (Local(th[t]) /\ CopyOK(th[t]))'
    BY <1>1, <1>2, <1>5, <2>1 DEF Local, CopyOK, StopPcs, RestorePcs
  <2>3. th[t].v \in Sandboxes /\ th[t].v \in created
    BY <1>1, <1>5 DEF Shape, OInv, Records, RecordOK
  <2>4. CallOK(th[t])'
    BY <1>2, <1>5, <2>1, <2>3 DEF CallOK
  <2>5. QED
    BY <1>2, <1>5, <2>1, <2>2, <2>4, OwnId, QuietOrderly DEF LoudPcs
<1>6. QED
  BY <1>3, <1>4, <1>5 DEF Begin

\* EnsureGolden before it boots anything.
LEMMA ChooseGoldenOrderly ==
    ASSUME Orderly, IInv, IInv', OInv, NEW t \in Threads, LockGolden(t) \/ DecideGolden(t)
    PROVE  OInv'
<1> DEFINE r == th[t]
           seen == [r EXCEPT !.up = {}, !.free = {}]
<1>1. /\ th \in [Threads -> Requests] /\ r \in Requests
      /\ Local(r) /\ CopyOK(r) /\ Shape(r)
  BY RequestOK, OneRequest DEF IInv, RequestsOK
<1>2. /\ UNCHANGED <<workerVars, store, created, golden>> /\ r.pc \in {"glock", "gprobe"}
      /\ r.op \in {"resume", "golden"} /\ ~r.gone
      /\ r.op = "resume" => r.w \in Workers
  BY <1>1 DEF LockGolden, DecideGolden, Shape, GoldenPcs, Local
<1>3. CASE Return(t)
  BY <1>2, <1>3, QuietReturn DEF LoudPcs
<1>4. CASE GoldenDone(t)
  <2>1. CASE r.op = "golden"
    BY <1>3, <1>4, <2>1 DEF GoldenDone
  <2>2. CASE r.op # "golden"
    <3>1. Admit(t) /\ r.op = "resume" /\ r.w # None
      BY <1>2, <1>4, <2>2, IdsAssumption DEF GoldenDone
    <3>2. QED
      BY <1>2, <3>1, AdmitRequest, QuietGoesOn DEF LoudPcs
  <2>3. QED
    BY <2>1, <2>2
<1>5. ASSUME \A u \in Threads \ {t} : th'[u] = th[u],
             th'[t].op = r.op, th'[t].id = r.id, th'[t].sb = r.sb, th'[t].gone = r.gone,
             th'[t].w \in {r.w, None},
             th'[t].pc \in {"gprobe", "gboot", "begin", "lobby"}
      PROVE  OInv'
  <2>1. (Local(th[t]) /\ CopyOK(th[t]))'
    BY <1>1, <1>2, <1>5 DEF Local, CopyOK, StopPcs, RestorePcs
  <2>2. QED
    BY <1>2, <1>5, <2>1, QuietGoesOn DEF LoudPcs
<1>6. CASE th' = [th EXCEPT ![t].pc = "gprobe", ![t].left = Workers]
  BY <1>1, <1>5, <1>6 DEF Requests
<1>7. CASE Leave(t, [seen EXCEPT !.pc = "lobby", !.w = None])
  <2>1. th' = [th EXCEPT ![t] = [seen EXCEPT !.pc = "lobby", !.w = None]]
    BY <1>7 DEF Leave
  <2>2. QED
    BY <1>1, <1>5, <2>1 DEF Requests
<1>8. ASSUME NEW p,
             th' = [th EXCEPT ![t] =
                      [seen EXCEPT !.g = p.worker, !.rw = p.worker, !.v = p.victim,
                                   !.pc = IF p.victim = None THEN "gboot" ELSE "begin"]]
      PROVE  OInv'
  BY <1>1, <1>5, <1>8 DEF Requests
<1>9. CASE LockGolden(t)
  BY <1>4, <1>6, <1>9 DEF LockGolden
<1>10. CASE DecideGolden(t)
  BY <1>3, <1>7, <1>8, <1>10 DEF DecideGolden
<1>11. QED
  BY <1>9, <1>10

-----------------------------------------------------------------------------
(* Resume's Worker call and its Put                                        *)

\* What a Resume knows while it restores.
LEMMA Resuming ==
    ASSUME IInv, OInv, NEW t \in Threads, th[t].pc \in {"restore", "load", "put"}
    PROVE  /\ th[t] \in Requests /\ ~th[t].gone
           /\ th[t].op = "resume" /\ th[t].id = th[t].v
           /\ th[t].v \in Sandboxes /\ th[t].v \in Ids /\ th[t].v \notin Goldens
           /\ th[t].rw \in Workers
           /\ th[t].sb = store[th[t].v] /\ th[t].sb.state \in {"suspended", "paused"}
           /\ th[t].v \in created
           /\ RestorePath(th[t]) = th[t].rw
           /\ th[t].sb.state = "paused" => th[t].rw = th[t].sb.worker
<1>1. Shape(th[t]) /\ Local(th[t]) /\ CopyOK(th[t]) /\ th[t] \in Requests
  BY RequestOK, OneRequest
<1>2. /\ th[t].op = "resume" /\ th[t].id = th[t].v /\ ~th[t].gone
      /\ th[t].v \in Sandboxes /\ th[t].rw \in Workers
      /\ th[t].sb = store[th[t].v] /\ th[t].sb.state \in {"suspended", "paused"}
      /\ th[t].sb.state = "paused" => th[t].rw = th[t].sb.worker
  BY <1>1 DEF Shape, Local, CopyOK, RestorePcs
<1>3. RecordOK(th[t].v)
  BY <1>2 DEF OInv, Records
<1>4. RestorePath(th[t]) = th[t].rw
  BY <1>2, <1>3 DEF RecordOK, RestorePath, LocalOnly
<1>5. QED
  BY <1>1, <1>2, <1>3, <1>4, IdsAssumption DEF RecordOK, Ids

\* Wherever it is not restoring it, a sandbox that is being resumed is not.
LEMMA ResumedElsewhere ==
    ASSUME IInv, OInv, NEW t \in Threads, th[t].pc \in {"restore", "load", "put"},
           NEW w \in Workers, w # th[t].rw \/ th[t].pc = "restore"
    PROVE  th[t].v \notin alive[w] /\ container[w][th[t].v] = "none"
<1>1. /\ th[t].id = th[t].v /\ th[t].v \in Sandboxes /\ store[th[t].v].state # "running"
  BY Resuming
<1>2. \A u \in Threads : th[u].id = th[t].v => u = t
  BY ResumesAlone
<1>3. QED
  BY <1>1, <1>2, NotThere

\* handleRestore claims the slot.
LEMMA RestoreOrderly ==
    ASSUME Orderly, IInv, IInv', OInv, NEW t \in Threads, Restore(t)
    PROVE  OInv'
<1> DEFINE r == th[t]
<1>a. PICK s : s = th[t].v
  OBVIOUS
<1> USE <1>a
<1>1. r.pc = "restore" /\ UNCHANGED <<store, created, golden>>
  BY DEF Restore
<1>2. CASE Return(t) /\ UNCHANGED workerVars
  BY <1>1, <1>2, QuietReturn DEF LoudPcs
<1>3. CASE Claim(r.rw, s) /\ Goto(t, "load")
  <2>1. /\ r \in Requests /\ ~r.gone /\ r.op = "resume" /\ r.id = s
        /\ s \in Sandboxes /\ s \in Ids /\ s \notin Goldens /\ r.rw \in Workers
        /\ store[s].state \in {"suspended", "paused"}
    BY <1>1, Resuming
  <2>2. /\ alive' = [alive EXCEPT ![r.rw] = @ \cup {s}]
        /\ UNCHANGED <<container, image, object, taken>>
        /\ alive \in [Workers -> SUBSET Ids]
    BY <1>3 DEF Claim, IInv, WorkerOK, WorkerTypeOK
  <2>3. /\ \A u \in Threads \ {t} : th'[u] = th[u]
        /\ th'[t].op = r.op /\ th'[t].pc = "load" /\ th'[t].id = r.id /\ th'[t].sb = r.sb
        /\ th'[t].w = r.w /\ th'[t].v = s /\ th'[t].rw = r.rw /\ th'[t].gone = r.gone
    BY <1>3, <2>1 DEF Goto, IInv, RequestsOK, Requests
  <2>4. Moves(t, s) /\ Frame(s)
    BY <1>1, <2>2, <2>3 DEF Moves, Frame, LoudPcs
  <2>5. \A w \in Workers : s \notin alive[w] /\ container[w][s] = "none"
    BY <1>1, ResumedElsewhere
  <2>6. (Local(th[t]) /\ CopyOK(th[t]) /\ CallOK(th[t]))'
    <3>1. Local(r) /\ CopyOK(r)
      BY OneRequest
    <3>2. (Local(th[t]) /\ CopyOK(th[t]))'
      BY <1>1, <2>1, <2>3, <3>1 DEF Local, CopyOK, RestorePcs
    <3>3. CallOK(th[t])'
      BY <2>1, <2>2, <2>3, <2>5 DEF CallOK
    <3>4. QED
      BY <3>2, <3>3
  <2>7. IdOK(s)'
    <3>1. RecordOK(s) /\ Kept(s)
      BY <2>1, OInvParts DEF IdOK
    <3>2. RecordOK(s)' /\ Kept(s)'
      BY <1>1, <2>2, <3>1 DEF RecordOK, Kept
    <3>3. \A w \in Workers : Occupies(w, s)'
      BY <2>1, <2>2, <2>3, <2>5 DEF Occupies, InCall
    <3>4. QED
      BY <1>1, <2>1, <3>2, <3>3 DEF IdOK
  <2>8. GoldenUsable' /\ object'[GoldenPrefix] = object[GoldenPrefix]
    BY <1>1, <2>2 DEF OInv, GoldenUsable
  <2>9. \A u \in Threads \ {t} : th[u].id # s /\ ~Works(th[u], s)
    BY <1>1, ResumesAlone
  <2>10. QED
    BY <2>3, <2>4, <2>1, <2>6, <2>7, <2>8, <2>9, OrderlyStep
<1>4. QED
  BY <1>2, <1>3 DEF Restore

\* What a paused sandbox is restored from is on its Worker's disk, and stays there.
LEMMA PausedLoads ==
    ASSUME IInv, OInv, NEW t \in Threads, th[t].pc = "load", th[t].sb.state = "paused"
    PROVE  /\ ~NeedDownload(th[t].rw, th[t].v, th[t].rw)
           /\ Loaded(th[t].rw, th[t].v, th[t].rw, RestoreKey(th[t])) = "current"
<1>1. image[th[t].rw][th[t].v] = "current"
  BY Resuming DEF OInv, SnapshotKept
<1>2. QED
  BY <1>1 DEF NeedDownload, Loaded

\* handleRestore runs the sandbox, or gives the slot back.
LEMMA LoadOrderly ==
    ASSUME Orderly, IInv, IInv', OInv, NEW t \in Threads, Load(t)
    PROVE  OInv'
<1> DEFINE r == th[t]
           key == RestoreKey(th[t])
<1>a. PICK s : s = th[t].v
  OBVIOUS
<1> USE <1>a
<1>1. r.pc = "load" /\ UNCHANGED <<store, created, golden>>
  BY DEF Load
<1>2. /\ r \in Requests /\ ~r.gone /\ r.op = "resume" /\ r.id = s
      /\ s \in Sandboxes /\ s \in Ids /\ s \notin Goldens /\ r.rw \in Workers
      /\ store[s].state \in {"suspended", "paused"} /\ r.sb = store[s]
      /\ RestorePath(r) = r.rw /\ (r.sb.state = "paused" => r.rw = r.sb.worker)
  BY <1>1, Resuming
<1>3. /\ alive \in [Workers -> SUBSET Ids]
      /\ container \in [Workers -> [Ids -> ContainerTags]]
      /\ image \in [Workers -> [Ids -> ImageTags]]
  BY DEF IInv, WorkerOK, WorkerTypeOK
<1>4. s \in alive[r.rw] /\ container[r.rw][s] = "none"
  BY <1>1, OneRequest DEF CallOK
<1>5. \A w \in Workers \ {r.rw} : s \notin alive[w] /\ container[w][s] = "none"
  BY <1>1, ResumedElsewhere
<1>6. UNCHANGED <<object, taken>> /\ GoldenUsable' /\ object'[GoldenPrefix] = object[GoldenPrefix]
  BY <1>1 DEF Load, RtRestore, RestoreFails, OInv, GoldenUsable
<1>7. \A u \in Threads \ {t} : th[u].id # s /\ ~Works(th[u], s)
  BY <1>1, ResumesAlone
<1>8. RecordOK(s)' /\ Kept(s)'
  <2>1. RecordOK(s) /\ Kept(s)
    BY <1>2, OInvParts DEF IdOK
  <2>2. RecordOK(s)'
    BY <1>1, <1>6, <2>1 DEF RecordOK
  <2>3. ASSUME r.sb.state = "paused" PROVE image'[r.rw][s] = "current"
    <3>1. ~NeedDownload(r.rw, s, r.rw) /\ Loaded(r.rw, s, r.rw, key) = "current"
      BY <1>1, <2>3, PausedLoads
    <3>2. image' = [image EXCEPT ![r.rw][s] = "current"]
      BY <1>2, <3>1 DEF Load, RtRestore, RestoreFails, Wrote
    <3>3. QED
      BY <1>2, <1>3, <3>2
  <2>4. Kept(s)'
    BY <1>1, <1>2, <1>6, <2>1, <2>3 DEF Kept
  <2>5. QED
    BY <2>2, <2>4
<1>9. ASSUME NEW tag, image' = Wrote(r.rw, s, r.rw, tag) \/ image' = image
      PROVE  \A w \in Workers : \A i \in Ids \ {s} : image'[w][i] = image[w][i]
  BY <1>2, <1>3, <1>9 DEF Wrote
<1>10. \A w \in Workers : \A i \in Ids \ {s} : image'[w][i] = image[w][i]
  <2>1. \E tag : image' = Wrote(r.rw, s, r.rw, tag) \/ image' = image
    BY <1>2 DEF Load, RtRestore, RestoreFails
  <2>2. QED
    BY <1>9, <2>1
<1>11. CASE RtRestore(r.rw, s, r.rw, key) /\ Reply(t, "put")
  <2>1. PICK tag \in {"stale", "current"} :
          container' = [container EXCEPT ![r.rw][s] = tag] /\ UNCHANGED alive
    BY <1>11 DEF RtRestore
  <2>2. /\ \A u \in Threads \ {t} : th'[u] = th[u]
        /\ th'[t].op = r.op /\ th'[t].pc = "put" /\ th'[t].id = r.id /\ th'[t].sb = r.sb
        /\ th'[t].w = r.w /\ th'[t].v = s /\ th'[t].rw = r.rw /\ th'[t].gone = r.gone
    BY <1>2, <1>11 DEF Reply, Goto, IInv, RequestsOK, Requests
  <2>3. /\ container'[r.rw][s] # "none"
        /\ \A w \in Workers \ {r.rw} : container'[w][s] = container[w][s]
        /\ \A w \in Workers : \A i \in Ids \ {s} : container'[w][i] = container[w][i]
    BY <1>2, <1>3, <2>1
  <2>4. Moves(t, s) /\ Frame(s)
    BY <1>1, <1>6, <1>10, <2>1, <2>2, <2>3 DEF Moves, Frame
  <2>5. (Local(th[t]) /\ CopyOK(th[t]) /\ CallOK(th[t]))'
    <3>1. Local(r) /\ CopyOK(r)
      BY OneRequest
    <3>2. (Local(th[t]) /\ CopyOK(th[t]))'
      BY <1>1, <1>2, <2>2, <3>1 DEF Local, CopyOK, RestorePcs
    <3>3. CallOK(th[t])'
      BY <1>2, <1>4, <2>1, <2>2, <2>3 DEF CallOK
    <3>4. QED
      BY <3>2, <3>3
  <2>6. \A w \in Workers : Occupies(w, s)'
    BY <1>2, <1>5, <2>1, <2>2, <2>3 DEF Occupies, InCall
  <2>7. IdOK(s)'
    BY <1>1, <1>2, <1>8, <2>6 DEF IdOK
  <2>8. QED
    BY <1>2, <1>6, <1>7, <2>2, <2>4, <2>5, <2>7, OrderlyStep
<1>12. CASE RestoreFails(r.rw, s, r.rw, key, r.gone) /\ Return(t)
  <2>1. /\ alive' = Released(r.rw, s)
        /\ container' = container \/ container' = [container EXCEPT ![r.rw][s] = "none"]
    BY <1>12 DEF RestoreFails
  <2>2. \A u \in Threads \ {t} : th'[u] = th[u]
    BY <1>12 DEF Return, Leave, IInv, RequestsOK
  <2>3. th'[t] = NoRequest
    BY <1>12 DEF Return, Leave, IInv, RequestsOK
  <2>4. /\ \A w \in Workers : \A i \in Ids \ {s} : container'[w][i] = container[w][i]
        /\ \A w \in Workers : \A i \in Ids \ {s} : i \in alive'[w] <=> i \in alive[w]
    BY <1>2, <1>3, <2>1 DEF Released
  <2>5. \A w \in Workers : s \notin alive'[w] /\ container'[w][s] = "none"
    BY <1>2, <1>3, <1>4, <1>5, <2>1 DEF Released
  <2>6. Moves(t, s) /\ Frame(s)
    BY <1>1, <1>6, <1>10, <2>2, <2>4 DEF Moves, Frame
  <2>7. IdOK(s)'
    BY <1>1, <1>2, <1>8, <2>5 DEF IdOK, Occupies
  <2>8. (Local(th[t]) /\ CopyOK(th[t]) /\ CallOK(th[t]))' /\ th'[t].id = None
    BY <2>3 DEF NoRequest, NoSandbox, Local, CopyOK, CallOK
  <2>9. QED
    BY <1>6, <1>7, <2>6, <2>7, <2>8, OrderlyStep
<1>13. QED
  BY <1>2, <1>11, <1>12 DEF Load

\* PutSandbox: running where it was restored.
LEMMA PutRunningOrderly ==
    ASSUME Orderly, IInv, IInv', OInv, NEW t \in Threads, PutRunning(t)
    PROVE  OInv'
<1> DEFINE r == th[t]
<1>a. PICK s : s = th[t].v
  OBVIOUS
<1> USE <1>a
<1>1. r.pc = "put" /\ UNCHANGED <<workerVars, created, golden>>
  BY DEF PutRunning
<1>2. /\ r \in Requests /\ ~r.gone /\ r.op = "resume" /\ r.id = s
      /\ s \in Sandboxes /\ s \in Ids /\ s \notin Goldens /\ r.rw \in Workers
      /\ store[s].state \in {"suspended", "paused"} /\ r.sb = store[s] /\ s \in created
      /\ RestorePath(r) = r.rw
  BY <1>1, Resuming
<1>3. /\ store' = [store EXCEPT ![s] = [state |-> "running", worker |-> r.rw,
                                        path |-> r.rw, source |-> r.sb.source]]
      /\ Goto(t, "clear")
      /\ store \in [Sandboxes -> SandboxRecords]
  BY <1>2, NothingLost DEF PutRunning, IInv, StoreOK
<1>4. /\ \A u \in Threads \ {t} : th'[u] = th[u]
      /\ th'[t].op = r.op /\ th'[t].pc = "clear" /\ th'[t].id = r.id /\ th'[t].sb = r.sb
      /\ th'[t].w = r.w /\ th'[t].v = s /\ th'[t].rw = r.rw /\ th'[t].gone = r.gone
  BY <1>2, <1>3 DEF Goto, IInv, RequestsOK, Requests
<1>5. Moves(t, s) /\ Frame(s)
  BY <1>1, <1>3, <1>4 DEF Moves, Frame, workerVars
<1>6. (Local(th[t]) /\ CopyOK(th[t]) /\ CallOK(th[t]))'
  <2>1. Local(r)
    BY OneRequest
  <2>2. QED
    BY <1>1, <1>2, <1>4, <2>1 DEF Local, CopyOK, CallOK, RestorePcs
<1>7. \A u \in Threads \ {t} : th[u].id # s /\ ~Works(th[u], s)
  BY <1>1, ResumesAlone
<1>8. GoldenUsable' /\ object'[GoldenPrefix] = object[GoldenPrefix]
  BY <1>1 DEF OInv, GoldenUsable, workerVars
<1>9. IdOK(s)'
  <2>1. /\ store'[s].state = "running" /\ store'[s].worker = r.rw /\ store'[s].path = r.rw
        /\ UNCHANGED <<alive, container, created>>
    BY <1>1, <1>2, <1>3 DEF workerVars
  <2>2. s \in alive[r.rw] /\ container[r.rw][s] # "none"
    BY <1>1, OneRequest DEF CallOK
  <2>3. alive[r.rw] = {s}
    BY <1>2, <2>2 DEF IInv, WorkerOK, SlotExclusive
  <2>4. RecordOK(s)' /\ Kept(s)'
    BY <1>2, <2>1 DEF RecordOK, Kept
  <2>5. Held(s)' /\ HasContainer(s)'
    BY <2>1, <2>2, <2>3 DEF Held, HasContainer
  <2>6. \A w \in Workers : Occupies(w, s)'
    <3>1. \A w \in Workers \ {r.rw} : s \notin alive[w] /\ container[w][s] = "none"
      BY <1>1, ResumedElsewhere
    <3>2. QED
      BY <1>2, <2>1, <3>1 DEF Occupies, Running
  <2>7. QED
    BY <2>4, <2>5, <2>6 DEF IdOK
<1>10. QED
  BY <1>2, <1>4, <1>5, <1>6, <1>7, <1>8, <1>9, OrderlyStep

-----------------------------------------------------------------------------
(* Checkpoints: Pause, Suspend, eviction and the golden sandbox            *)

\* What a request knows while its checkpoint call runs, and of the others.
LEMMA Checkpointing ==
    ASSUME Orderly, IInv, OInv, NEW t \in Threads, th[t].pc \in {"ckpt", "upload", "save"}
    PROVE  /\ th[t] \in Requests /\ ~th[t].gone
           /\ th[t].v \in Ids /\ th[t].rw \in Workers
           /\ th[t].v \in Goldens => ~golden /\ th[t].op \in {"resume", "golden"}
           /\ th[t].v \in Sandboxes =>
                 /\ th[t].v \notin Goldens /\ th[t].v \in created
                 /\ store[th[t].v].state \in {"running", "absent"}
                 /\ store[th[t].v].state = "running" => store[th[t].v].worker = th[t].rw
           /\ \A u \in Threads \ {t} :
                 /\ Works(th[u], th[t].v) => th[u].pc \in {"dkill", "dremove"}
                 /\ th[u].id = th[t].v /\ th[u].op = "resume" => th[u].pc = "clear"
                 /\ th[t].v \in Goldens => ~Works(th[u], th[t].v) /\ th[u].pc # "gput"
<1>1. Shape(th[t]) /\ Local(th[t]) /\ CallOK(th[t]) /\ th[t] \in Requests
  BY RequestOK, OneRequest
<1>2. /\ ~th[t].gone /\ th[t].v \in Ids /\ th[t].rw \in Workers
      /\ th[t].v \in Goldens => th[t].g \in Workers /\ th[t].op \in {"resume", "golden"}
  BY <1>1, IdsAssumption DEF Shape, Local, Ids, StopPcs
<1>3. th[t].v \in Goldens => HoldsGolden(th[t])
  BY <1>2, IdsAssumption DEF HoldsGolden
<1>4. th[t].v \in Sandboxes =>
         /\ th[t].v \notin Goldens /\ th[t].v \in created
         /\ store[th[t].v].state \in {"running", "absent"}
         /\ store[th[t].v].state = "running" => store[th[t].v].worker = th[t].rw
  BY <1>1, IdsAssumption DEF CallOK
<1>5. th[t].v \in Goldens => ~golden
  BY <1>3, RequestOK, NothingLost
<1>6. ASSUME NEW u \in Threads \ {t}
      PROVE  /\ Works(th[u], th[t].v) => th[u].pc \in {"dkill", "dremove"}
             /\ th[u].id = th[t].v /\ th[u].op = "resume" => th[u].pc = "clear"
             /\ th[t].v \in Goldens => ~Works(th[u], th[t].v) /\ th[u].pc # "gput"
  <2>1. CASE th[t].v \in Goldens
    <3>1. ~Works(th[u], th[t].v) /\ th[u].pc # "gput"
      BY <1>3, <2>1, BuildsAlone
    <3>2. th[u].op = "resume" => th[u].id \in Sandboxes
      BY RequestOK, OneRequest DEF Shape, Local
    <3>3. QED
      BY <2>1, <3>1, <3>2, IdsAssumption
  <2>2. CASE th[t].v \in Sandboxes
    BY <1>4, <2>2, StopsAlone
  <2>3. QED
    BY <1>2, <2>1, <2>2 DEF Ids
<1>7. QED
  BY <1>1, <1>2, <1>4, <1>5, <1>6

\* A deletion does not mind that its sandbox is stopped meanwhile.
LEMMA DeletionKept ==
    ASSUME NEW s, NEW u \in Threads, th'[u] = th[u], th[u].v = s, th[u].pc \in {"dkill", "dremove"},
           CallOK(th[u]),
           store'[s].state = "running" => store'[s] = store[s],
           \A w \in Workers : /\ s \in alive'[w] => s \in alive[w]
                              /\ container[w][s] = "none" => container'[w][s] = "none"
    PROVE  CallOK(th[u])'
<1>1. th[u].pc = "dremove" => Vacant(s)'
  BY DEF CallOK, Vacant
<1>2. QED
  BY <1>1 DEF CallOK

\* Occupies when t's call for s frees it or leaves it where it is.
LEMMA OccupiesKept ==
    ASSUME NEW t \in Threads, NEW s \in Ids, NEW w \in Workers, Occupies(w, s),
           \A u \in Threads \ {t} : th'[u] = th[u],
           s \in Sandboxes => s \notin Goldens /\ store'[s] = store[s],
           s \in alive'[w] => s \in alive[w],
           container[w][s] = "none" => container'[w][s] = "none",
           s \in Sandboxes => th[t].pc \notin {"load", "put"},
           s \in Goldens /\ th[t].rw = w =>
              \/ s \notin alive'[w] /\ container'[w][s] = "none"
              \/ /\ th'[t].pc \in {"gstart", "ckpt", "upload", "gundo"}
                 /\ th'[t].v = s /\ th'[t].rw = w
    PROVE  Occupies(w, s)'
<1>1. SUFFICES ASSUME s \in alive'[w] \/ container'[w][s] # "none"
               PROVE  \/ (s \in Running)' /\ store'[s].worker = w
                      \/ s \in Sandboxes /\ InCall(s, w, {"load", "put"})'
                      \/ s \in Goldens /\ InCall(s, w, {"gstart", "ckpt", "upload", "gundo"})'
  BY DEF Occupies
<1>2. s \in alive[w] \/ container[w][s] # "none"
  BY <1>1
<1>3. CASE s \in Running /\ store[s].worker = w
  BY <1>3 DEF Running
<1>4. CASE s \in Sandboxes /\ InCall(s, w, {"load", "put"})
  BY <1>4 DEF InCall
<1>5. CASE s \in Goldens /\ InCall(s, w, {"gstart", "ckpt", "upload", "gundo"})
  <2>1. PICK u \in Threads : /\ th[u].pc \in {"gstart", "ckpt", "upload", "gundo"}
                             /\ th[u].v = s /\ th[u].rw = w
    BY <1>5 DEF InCall
  <2>2. CASE u = t
    BY <1>1, <1>5, <2>1, <2>2 DEF InCall
  <2>3. CASE u # t
    BY <1>5, <2>1, <2>3 DEF InCall
  <2>4. QED
    BY <2>2, <2>3
<1>6. QED
  BY <1>2, <1>3, <1>4, <1>5 DEF Occupies

\* Where a failed checkpoint or upload leads.
LEMMA CallFailsRequest ==
    ASSUME IInv, OInv, NEW t \in Threads, th[t].pc \in {"ckpt", "upload"}, CallFails(t),
           UNCHANGED store
    PROVE  /\ \A u \in Threads \ {t} : th'[u] = th[u]
           /\ (Local(th[t]) /\ CopyOK(th[t]) /\ CallOK(th[t]))'
           /\ th'[t].id \in {None, th[t].id}
           /\ th[t].v \in Goldens =>
                 th'[t].pc = "gundo" /\ th'[t].v = th[t].v /\ th'[t].rw = th[t].rw
<1>1. th \in [Threads -> Requests] /\ th[t] \in Requests /\ Local(th[t]) /\ CopyOK(th[t])
  BY RequestOK, OneRequest DEF IInv, RequestsOK
<1>2. CASE th[t].v \in Goldens
  <2>1. /\ \A u \in Threads \ {t} : th'[u] = th[u]
        /\ th'[t].op = th[t].op /\ th'[t].pc = "gundo" /\ th'[t].id = th[t].id
        /\ th'[t].sb = th[t].sb /\ th'[t].w = th[t].w /\ th'[t].v = th[t].v
        /\ th'[t].rw = th[t].rw /\ th'[t].gone = th[t].gone
    BY <1>1, <1>2 DEF CallFails, Goto, Requests, Local
  <2>2. (Local(th[t]) /\ CopyOK(th[t]) /\ CallOK(th[t]))'
    BY <1>1, <2>1 DEF Local, CopyOK, CallOK, StopPcs, RestorePcs
  <2>3. QED
    BY <2>1, <2>2
<1>3. CASE th[t].v \notin Goldens
  <2>1. th'[t] = NoRequest /\ \A u \in Threads \ {t} : th'[u] = th[u]
    BY <1>1, <1>3 DEF CallFails, Return, Leave
  <2>2. (Local(th[t]) /\ CopyOK(th[t]) /\ CallOK(th[t]))' /\ th'[t].id = None
    BY <2>1 DEF NoRequest, NoSandbox, Local, CopyOK, CallOK
  <2>3. QED
    BY <1>3, <2>1, <2>2
<1>4. QED
  BY <1>2, <1>3

\* Runtime.Checkpoint.
LEMMA CkptOrderly ==
    ASSUME Orderly, IInv, IInv', OInv, NEW t \in Threads, Ckpt(t)
    PROVE  OInv'
<1> DEFINE r == th[t]
<1>a. PICK s : s = th[t].v
  OBVIOUS
<1> USE <1>a
<1>1. r.pc = "ckpt" /\ UNCHANGED <<store, created, golden>>
  BY DEF Ckpt
<1>2. /\ r \in Requests /\ ~r.gone /\ s \in Ids /\ r.rw \in Workers
      /\ s \in Sandboxes => /\ s \notin Goldens /\ s \in created
                            /\ store[s].state \in {"running", "absent"}
                            /\ store[s].state = "running" => store[s].worker = r.rw
  BY <1>1, Checkpointing
<1>3. \A u \in Threads \ {t} :
         /\ Works(th[u], s) => th[u].pc \in {"dkill", "dremove"}
         /\ th[u].id = s /\ th[u].op = "resume" => th[u].pc = "clear"
  BY <1>1, Checkpointing
<1>4. /\ alive \in [Workers -> SUBSET Ids]
      /\ container \in [Workers -> [Ids -> ContainerTags]]
      /\ image \in [Workers -> [Ids -> ImageTags]]
      /\ object \in [Keys -> ObjectTags]
  BY DEF IInv, WorkerOK, WorkerTypeOK
<1>5. Local(r) /\ CopyOK(r) /\ IdOK(s) /\ GoldenUsable
  BY <1>2, OneRequest, OInvParts
<1>6. CASE RtCheckpoint(r.rw, s) /\ Goto(t, "upload")
  <2>1. /\ UNCHANGED alive /\ container[r.rw][s] # "none"
        /\ container' = [Superseded(container, s) EXCEPT ![r.rw][s] = "none"]
        /\ image' = [Superseded(image, s) EXCEPT ![r.rw][s] = "current"]
        /\ object' = [k \in Keys |-> IF k = s THEN Older(object[k]) ELSE object[k]]
        /\ taken' = taken \cup ({s} \cap Sandboxes)
    BY <1>6 DEF RtCheckpoint
  <2>2. /\ \A u \in Threads \ {t} : th'[u] = th[u]
        /\ th'[t].op = r.op /\ th'[t].pc = "upload" /\ th'[t].id = r.id /\ th'[t].sb = r.sb
        /\ th'[t].w = r.w /\ th'[t].v = s /\ th'[t].rw = r.rw /\ th'[t].gone = r.gone
    BY <1>2, <1>6 DEF Goto, IInv, RequestsOK, Requests
  <2>3. /\ \A w \in Workers : \A i \in Ids \ {s} : container'[w][i] = container[w][i]
        /\ \A w \in Workers : container[w][s] = "none" => container'[w][s] = "none"
        /\ container'[r.rw][s] = "none"
    BY <1>2, <1>4, <2>1 DEF Superseded, Older
  <2>4. /\ \A w \in Workers : \A i \in Ids \ {s} : image'[w][i] = image[w][i]
        /\ image'[r.rw][s] = "current"
    BY <1>2, <1>4, <2>1 DEF Superseded, Older
  <2>5. /\ \A i \in Sandboxes \ {s} : object'[i] = object[i] /\ (i \in taken' <=> i \in taken)
        /\ object'[GoldenPrefix] = object[GoldenPrefix]
    <3>1. GoldenPrefix # s
      BY <1>2, IdsAssumption DEF Ids
    <3>2. QED
      BY <2>1, <3>1 DEF Keys
  <2>6. Moves(t, s) /\ Frame(s)
    BY <1>1, <2>1, <2>2, <2>3, <2>4, <2>5 DEF Moves, Frame
  <2>7. (Local(th[t]) /\ CopyOK(th[t]) /\ CallOK(th[t]))'
    <3>1. (Local(th[t]) /\ CopyOK(th[t]))'
      BY <1>1, <1>5, <2>2 DEF Local, CopyOK, StopPcs, RestorePcs
    <3>2. CallOK(th[t])'
      BY <1>1, <1>2, <2>2, <2>3, <2>4 DEF CallOK
    <3>3. QED
      BY <3>1, <3>2
  <2>8. ASSUME NEW u \in Threads \ {t}
        PROVE  /\ th[u].id = s => CopyOK(th[u])'
               /\ Works(th[u], s) => CallOK(th[u])'
    <3>1. CopyOK(th[u]) /\ CallOK(th[u]) /\ th'[u] = th[u]
      BY <2>2, OneRequest
    <3>2. CopyOK(th[u])'
      BY <1>1, <3>1 DEF CopyOK
    <3>3. Works(th[u], s) => CallOK(th[u])'
      BY <1>1, <1>3, <2>1, <2>3, <3>1, DeletionKept DEF Works
    <3>4. QED
      BY <3>2, <3>3
  <2>9. IdOK(s)'
    <3>1. ASSUME NEW w \in Workers PROVE Occupies(w, s)'
      <4>1. Occupies(w, s)
        BY <1>5 DEF IdOK
      <4>2. QED
        BY <1>1, <1>2, <2>1, <2>2, <2>3, <4>1, OccupiesKept
    <3>2. ASSUME s \in Sandboxes
          PROVE  RecordOK(s)' /\ Kept(s)' /\ (store'[s].state = "running" => Held(s)' /\ HasContainer(s)')
      <4>1. RecordOK(s)' /\ Kept(s)'
        BY <1>1, <1>2, <1>5, <3>2 DEF IdOK, RecordOK, Kept
      <4>2. ASSUME store'[s].state = "running" PROVE Held(s)' /\ HasContainer(s)'
        <5>1. Held(s) /\ store'[s] = store[s] /\ store[s].worker = r.rw
          BY <1>1, <1>2, <1>5, <3>2, <4>2 DEF IdOK
        <5>2. Held(s)'
          BY <1>1, <2>1, <2>2, <5>1 DEF Held, InCall
        <5>3. HasContainer(s)'
          BY <2>2, <5>1 DEF HasContainer, InCall
        <5>4. QED
          BY <5>2, <5>3
      <4>3. QED
        BY <4>1, <4>2
    <3>3. QED
      BY <3>1, <3>2 DEF IdOK
  <2>10. GoldenUsable'
    BY <1>1, <1>5, <2>5 DEF GoldenUsable
  <2>11. QED
    BY <2>2, <2>5, <2>6, <2>7, <2>8, <2>9, <2>10, OwnId, OrderlyStep
<1>7. CASE RtCheckpointFails(r.rw, s) /\ CallFails(t)
  <2>1. UNCHANGED <<alive, container, object, taken>>
    BY <1>7 DEF RtCheckpointFails
  <2>2. \A w \in Workers : \A i \in Ids \ {s} : image'[w][i] = image[w][i]
    <3>1. PICK left : image' = [image EXCEPT ![r.rw][s] = left]
      BY <1>7 DEF RtCheckpointFails
    <3>2. QED
      BY <1>2, <1>4, <3>1
  <2>3. /\ \A u \in Threads \ {t} : th'[u] = th[u]
        /\ (Local(th[t]) /\ CopyOK(th[t]) /\ CallOK(th[t]))'
        /\ th'[t].id \in {None, r.id}
        /\ s \in Goldens => th'[t].pc = "gundo" /\ th'[t].v = s /\ th'[t].rw = r.rw
    BY <1>1, <1>7, CallFailsRequest
  <2>4. Moves(t, s) /\ Frame(s)
    BY <1>1, <2>1, <2>2, <2>3 DEF Moves, Frame
  <2>5. ASSUME NEW u \in Threads \ {t}
        PROVE  /\ th[u].id = s => CopyOK(th[u])'
               /\ Works(th[u], s) => CallOK(th[u])'
    <3>1. CopyOK(th[u]) /\ CallOK(th[u]) /\ th'[u] = th[u]
      BY <2>3, OneRequest
    <3>2. CopyOK(th[u])'
      BY <1>1, <3>1 DEF CopyOK
    <3>3. Works(th[u], s) => CallOK(th[u])'
      BY <1>1, <1>3, <2>1, <3>1, DeletionKept DEF Works
    <3>4. QED
      BY <3>2, <3>3
  <2>6. IdOK(s)'
    <3>1. ASSUME NEW w \in Workers PROVE Occupies(w, s)'
      <4>1. Occupies(w, s)
        BY <1>5 DEF IdOK
      <4>2. QED
        BY <1>1, <1>2, <2>1, <2>3, <4>1, OccupiesKept
    <3>2. ASSUME s \in Sandboxes
          PROVE  /\ RecordOK(s)' /\ Kept(s)'
                 /\ store'[s].state = "running" =>
                       Held(s)' /\ ("upload" \notin Faults => HasContainer(s)')
      <4>1. RecordOK(s)' /\ Kept(s)'
        BY <1>1, <1>2, <1>5, <2>1, <3>2 DEF IdOK, RecordOK, Kept
      <4>2. ASSUME store'[s].state = "running"
            PROVE  Held(s)' /\ ("upload" \notin Faults => HasContainer(s)')
        <5>1. /\ Held(s) /\ store'[s] = store[s]
              /\ "upload" \notin Faults => HasContainer(s)
          BY <1>1, <1>5, <3>2, <4>2 DEF IdOK
        <5>2. Held(s)'
          BY <1>1, <2>1, <2>3, <5>1 DEF Held, InCall
        <5>3. "upload" \notin Faults => HasContainer(s)'
          BY <1>1, <2>1, <2>3, <5>1 DEF HasContainer, InCall
        <5>4. QED
          BY <5>2, <5>3
      <4>3. QED
        BY <4>1, <4>2
    <3>3. QED
      BY <3>1, <3>2 DEF IdOK
  <2>7. GoldenUsable' /\ object'[GoldenPrefix] = object[GoldenPrefix]
    BY <1>1, <1>5, <2>1 DEF GoldenUsable
  <2>8. QED
    BY <2>3, <2>4, <2>5, <2>6, <2>7, OwnId, OrderlyStep
<1>8. QED
  BY <1>6, <1>7 DEF Ckpt

\* The upload, if any, and the release of the slot.
LEMMA UploadOrderly ==
    ASSUME Orderly, IInv, IInv', OInv, NEW t \in Threads, Upload(t)
    PROVE  OInv'
<1> DEFINE r == th[t]
           key == ObjectKeyFor(th[t].v)
           next == IF th[t].v \in Goldens THEN "gput" ELSE "save"
<1>a. PICK s : s = th[t].v
  OBVIOUS
<1> USE <1>a
<1>1. r.pc = "upload" /\ UNCHANGED <<store, created, golden>>
  BY DEF Upload
<1>2. /\ r \in Requests /\ ~r.gone /\ s \in Ids /\ r.rw \in Workers
      /\ s \in Goldens => ~golden /\ r.op \in {"resume", "golden"}
      /\ s \in Sandboxes => /\ s \notin Goldens /\ s \in created
                            /\ store[s].state \in {"running", "absent"}
                            /\ store[s].state = "running" => store[s].worker = r.rw
  BY <1>1, Checkpointing
<1>3. \A u \in Threads \ {t} :
         /\ Works(th[u], s) => th[u].pc \in {"dkill", "dremove"}
         /\ th[u].id = s /\ th[u].op = "resume" => th[u].pc = "clear"
         /\ s \in Goldens => th[u].pc # "gput"
  BY <1>1, Checkpointing
<1>4. /\ alive \in [Workers -> SUBSET Ids]
      /\ object \in [Keys -> ObjectTags]
  BY DEF IInv, WorkerOK, WorkerTypeOK
<1>5. Local(r) /\ CopyOK(r) /\ CallOK(r) /\ IdOK(s) /\ GoldenUsable
  BY <1>2, OneRequest, OInvParts
<1>6. container[r.rw][s] = "none" /\ image[r.rw][s] = "current"
  BY <1>1, <1>5 DEF CallOK
<1>7. /\ s \in Sandboxes => key = s
      /\ s \in Goldens => key = GoldenPrefix
      /\ s \in Sandboxes => key # GoldenPrefix
      /\ key \in Keys /\ GoldenPrefix \in Keys /\ GoldenPrefix \notin Sandboxes
  BY <1>2, IdsAssumption DEF ObjectKeyFor, Keys, Ids
<1>8. UNCHANGED <<container, image, taken>> /\ \E x : object' = [object EXCEPT ![key] = x]
  <2>1. object = [object EXCEPT ![key] = object[key]]
    BY <1>4, <1>7
  <2>2. QED
    BY <2>1 DEF Upload, KeepLocal, UploadDir, UploadDirFails
<1>9. /\ \A i \in Sandboxes \ {s} : object'[i] = object[i]
      /\ s \in Sandboxes => object'[GoldenPrefix] = object[GoldenPrefix]
  BY <1>2, <1>4, <1>7, <1>8 DEF Keys, Ids
<1>10. GoldenUsable' /\ \A u \in Threads \ {t} : th[u].pc = "gput" =>
                                       object'[GoldenPrefix] = object[GoldenPrefix]
  BY <1>1, <1>2, <1>3, <1>5, <1>9 DEF GoldenUsable, Ids
<1>11. ASSUME NEW u \in Threads \ {t}, th'[u] = th[u],
              \A w \in Workers : s \in alive'[w] => s \in alive[w]
       PROVE  /\ th[u].id = s => CopyOK(th[u])'
              /\ Works(th[u], s) => CallOK(th[u])'
  <2>1. CopyOK(th[u]) /\ CallOK(th[u])
    BY OneRequest
  <2>2. CopyOK(th[u])'
    BY <1>1, <1>11, <2>1 DEF CopyOK
  <2>3. Works(th[u], s) => CallOK(th[u])'
    BY <1>1, <1>3, <1>8, <1>11, <2>1, DeletionKept DEF Works
  <2>4. QED
    BY <2>2, <2>3
<1>12. s \in Sandboxes => RecordOK(s)' /\ Kept(s)'
  BY <1>1, <1>2, <1>5, <1>8 DEF IdOK, RecordOK, Kept
<1>13. ASSUME alive' = Released(r.rw, s), Reply(t, next),
              IF r.op = "pause" THEN object' = object ELSE object'[key] = "current"
       PROVE  OInv'
  <2>1. /\ \A w \in Workers : s \in alive'[w] => s \in alive[w]
        /\ \A w \in Workers : \A i \in Ids \ {s} : i \in alive'[w] <=> i \in alive[w]
        /\ s \notin alive'[r.rw]
    BY <1>2, <1>4, <1>13 DEF Released
  <2>2. /\ \A u \in Threads \ {t} : th'[u] = th[u]
        /\ th'[t].op = r.op /\ th'[t].id = r.id /\ th'[t].sb = r.sb
        /\ th'[t].w = r.w /\ th'[t].v = s /\ th'[t].rw = r.rw /\ th'[t].gone = r.gone
        /\ th'[t].pc = next
    BY <1>2, <1>13 DEF Reply, Goto, IInv, RequestsOK, Requests
  <2>3. Moves(t, s) /\ Frame(s)
    BY <1>1, <1>8, <1>9, <2>1, <2>2 DEF Moves, Frame
  <2>4. (Local(th[t]) /\ CopyOK(th[t]))'
    BY <1>1, <1>5, <2>2 DEF Local, CopyOK, StopPcs, RestorePcs
  <2>5. CallOK(th[t])'
    <3>1. CASE s \in Goldens
      <4>1. th'[t].pc = "gput" /\ object'[GoldenPrefix] = "current"
        BY <1>2, <1>7, <1>13, <2>2, <3>1
      <4>2. QED
        BY <4>1 DEF CallOK
    <3>2. CASE s \notin Goldens
      <4>1. th'[t].pc = "save" /\ s \in Sandboxes /\ (r.op # "pause" => object'[s] = "current")
        BY <1>2, <1>7, <1>13, <2>2, <3>2 DEF Ids
      <4>2. QED
        BY <1>1, <1>2, <1>6, <1>8, <2>1, <2>2, <4>1 DEF CallOK
    <3>3. QED
      BY <3>1, <3>2
  <2>6. IdOK(s)'
    <3>1. ASSUME NEW w \in Workers PROVE Occupies(w, s)'
      <4>1. Occupies(w, s)
        BY <1>5 DEF IdOK
      <4>2. QED
        BY <1>1, <1>2, <1>6, <1>8, <2>1, <2>2, <4>1, OccupiesKept
    <3>2. ASSUME s \in Sandboxes, store'[s].state = "running" PROVE Held(s)' /\ HasContainer(s)'
      <4>1. store'[s].worker = r.rw /\ th'[t].pc = "save"
        BY <1>1, <1>2, <2>2, <3>2
      <4>2. QED
        BY <2>2, <4>1 DEF Held, HasContainer, InCall
    <3>3. QED
      BY <1>12, <3>1, <3>2 DEF IdOK
  <2>7. QED
    BY <1>10, <1>11, <2>1, <2>2, <2>3, <2>4, <2>5, <2>6, OwnId, OrderlyStep
<1>14. ASSUME UploadDirFails(r.rw, s, key, r.gone), CallFails(t) PROVE OInv'
  <2>1. UNCHANGED alive /\ "upload" \in Faults
    BY <1>2, <1>6, <1>14 DEF UploadDirFails
  <2>2. /\ \A u \in Threads \ {t} : th'[u] = th[u]
        /\ (Local(th[t]) /\ CopyOK(th[t]) /\ CallOK(th[t]))'
        /\ th'[t].id \in {None, r.id}
        /\ s \in Goldens => th'[t].pc = "gundo" /\ th'[t].v = s /\ th'[t].rw = r.rw
    BY <1>1, <1>14, CallFailsRequest
  <2>3. Moves(t, s) /\ Frame(s)
    BY <1>1, <1>8, <1>9, <2>1, <2>2 DEF Moves, Frame
  <2>4. IdOK(s)'
    <3>1. ASSUME NEW w \in Workers PROVE Occupies(w, s)'
      <4>1. Occupies(w, s)
        BY <1>5 DEF IdOK
      <4>2. QED
        BY <1>1, <1>2, <1>8, <2>1, <2>2, <4>1, OccupiesKept
    <3>2. ASSUME s \in Sandboxes, store'[s].state = "running" PROVE Held(s)'
      <4>1. Held(s) /\ store'[s] = store[s]
        BY <1>1, <1>5, <3>2 DEF IdOK
      <4>2. QED
        BY <1>1, <2>1, <2>2, <4>1 DEF Held, InCall
    <3>3. QED
      BY <1>12, <2>1, <3>1, <3>2 DEF IdOK
  <2>5. QED
    BY <1>10, <1>11, <2>1, <2>2, <2>3, <2>4, OwnId, OrderlyStep
<1>15. CASE r.op = "pause"
  <2>1. KeepLocal(r.rw, s) /\ Reply(t, next)
    BY <1>15 DEF Upload
  <2>2. alive' = Released(r.rw, s) /\ object' = object
    BY <2>1 DEF KeepLocal
  <2>3. QED
    BY <1>13, <1>15, <2>1, <2>2
<1>16. CASE r.op # "pause"
  <2>1. CASE UploadDir(r.rw, s, key) /\ Reply(t, next)
    <3>1. alive' = Released(r.rw, s) /\ object' = [object EXCEPT ![key] = "current"]
      BY <1>6, <2>1 DEF UploadDir, Packed
    <3>2. object'[key] = "current"
      BY <1>4, <1>7, <3>1
    <3>3. QED
      BY <1>13, <1>16, <2>1, <3>1, <3>2
  <2>2. QED
    BY <1>14, <1>16, <2>1 DEF Upload
<1>17. QED
  BY <1>15, <1>16

\* PutSandbox: stopped, with its newest checkpoint where the record says.
LEMMA SaveOrderly ==
    ASSUME Orderly, IInv, IInv', OInv, NEW t \in Threads, Save(t)
    PROVE  OInv'
<1> DEFINE r == th[t]
<1>a. PICK s : s = th[t].v
  OBVIOUS
<1> USE <1>a
<1>1. /\ r.pc = "save" /\ UNCHANGED <<workerVars, created, golden>>
      /\ store' = [store EXCEPT ![s] = StoppedSandbox(r.op, r.rw)]
  BY NothingLost DEF Save
<1>2. /\ r \in Requests /\ ~r.gone /\ r.rw \in Workers /\ s \in created
      /\ s \in Sandboxes /\ s \in Ids /\ s \notin Goldens
      /\ store[s].state \in {"running", "absent"}
      /\ store[s].state = "running" => store[s].worker = r.rw
  <2>1. s \in Sandboxes
    BY <1>1, RequestOK DEF Shape
  <2>2. QED
    BY <1>1, <2>1, Checkpointing
<1>3. \A u \in Threads \ {t} :
         /\ Works(th[u], s) => th[u].pc \in {"dkill", "dremove"}
         /\ th[u].id = s /\ th[u].op = "resume" => th[u].pc = "clear"
  BY <1>1, Checkpointing
<1>4. Local(r) /\ CopyOK(r) /\ CallOK(r) /\ GoldenUsable
  BY OneRequest, OInvParts
<1>5. /\ \A i \in Sandboxes \ {s} : store'[i] = store[i]
      /\ store'[s] = StoppedSandbox(r.op, r.rw)
      /\ UNCHANGED <<alive, container, image, object, taken>>
  BY <1>1, <1>2 DEF IInv, StoreOK, workerVars
<1>6. /\ store'[s].state \in {"paused", "suspended"}
      /\ store'[s].worker = r.rw /\ store'[s].path = r.rw
      /\ store'[s].state = "paused" <=> r.op = "pause"
      /\ store'[s].source = IF r.op = "pause" THEN "local" ELSE "external"
  BY <1>5 DEF StoppedSandbox
<1>7. /\ s \notin alive[r.rw] /\ container[r.rw][s] = "none"
      /\ IF r.op = "pause" THEN image[r.rw][s] = "current" ELSE object[s] = "current"
  BY <1>1, <1>4 DEF CallOK
<1>8. /\ \A u \in Threads \ {t} : th'[u] = th[u]
      /\ (Local(th[t]) /\ CopyOK(th[t]) /\ CallOK(th[t]))'
      /\ th'[t].id \in {None, r.id}
  <2>1. CASE Return(t)
    <3>1. th'[t] = NoRequest /\ \A u \in Threads \ {t} : th'[u] = th[u]
      BY <2>1 DEF Return, Leave, IInv, RequestsOK
    <3>2. QED
      BY <3>1 DEF NoRequest, NoSandbox, Local, CopyOK, CallOK
  <2>2. ASSUME \A u \in Threads \ {t} : th'[u] = th[u], r.op \in {"resume", "golden"},
               th'[t].pc \in {"source", "gboot"},
               th'[t].op = r.op, th'[t].id = r.id, th'[t].sb = r.sb,
               th'[t].w = r.w, th'[t].gone = r.gone
        PROVE  (Local(th[t]) /\ CopyOK(th[t]) /\ CallOK(th[t]))'
    <3>1. r.op = "resume" => r.id \in Sandboxes /\ r.id # s
      BY <1>1, <1>2, <1>4, RequestOK DEF Shape, CopyOK
    <3>2. QED
      BY <1>1, <1>2, <1>4, <1>5, <2>2, <3>1 DEF Local, CopyOK, CallOK, StopPcs, RestorePcs
  <2>3. CASE r.op = "resume" /\ Goto(t, "source")
    <3>1. /\ \A u \in Threads \ {t} : th'[u] = th[u]
          /\ th'[t].op = r.op /\ th'[t].pc = "source" /\ th'[t].id = r.id /\ th'[t].sb = r.sb
          /\ th'[t].w = r.w /\ th'[t].gone = r.gone
      BY <1>2, <2>3 DEF Goto, IInv, RequestsOK, Requests
    <3>2. QED
      BY <2>2, <2>3, <3>1
  <2>4. CASE r.g # None /\ th' = [th EXCEPT ![t].pc = "gboot", ![t].rw = r.g]
    <3>1. /\ \A u \in Threads \ {t} : th'[u] = th[u]
          /\ th'[t].op = r.op /\ th'[t].pc = "gboot" /\ th'[t].id = r.id /\ th'[t].sb = r.sb
          /\ th'[t].w = r.w /\ th'[t].gone = r.gone
      BY <1>2, <2>4 DEF IInv, RequestsOK, Requests
    <3>2. r.op \in {"resume", "golden"}
      BY <2>4, RequestOK DEF Shape
    <3>3. QED
      BY <2>2, <3>1, <3>2
  <2>5. QED
    BY <2>1, <2>3, <2>4, NothingLost DEF Save
<1>9. Moves(t, s) /\ Frame(s)
  BY <1>1, <1>5, <1>8 DEF Moves, Frame
<1>10. ASSUME NEW u \in Threads \ {t}
       PROVE  /\ th[u].id = s => CopyOK(th[u])'
              /\ Works(th[u], s) => CallOK(th[u])'
  <2>1. CallOK(th[u]) /\ th'[u] = th[u]
    BY <1>8, OneRequest
  <2>2. th[u].id = s => CopyOK(th[u])'
    BY <1>3, <2>1 DEF CopyOK
  <2>3. Works(th[u], s) => CallOK(th[u])'
    BY <1>3, <1>5, <1>6, <2>1, DeletionKept DEF Works
  <2>4. QED
    BY <2>2, <2>3
<1>11. IdOK(s)'
  <2>1. RecordOK(s)'
    BY <1>1, <1>2, <1>6 DEF RecordOK
  <2>2. Kept(s)'
    BY <1>5, <1>6, <1>7 DEF Kept
  <2>3. ASSUME NEW w \in Workers PROVE s \notin alive[w] /\ container[w][s] = "none"
    <3>1. \A u \in Threads : th[u].id = s => th[u].pc \notin {"load", "put"}
      <4>1. SUFFICES ASSUME NEW u \in Threads, th[u].id = s, th[u].pc \in {"load", "put"}
                     PROVE  FALSE
        OBVIOUS
      <4>2. th[u].op = "resume" /\ u # t
        BY <1>1, <4>1, RequestOK, OneRequest DEF Shape, Local, RestorePcs
      <4>3. QED
        BY <1>3, <4>1, <4>2
    <3>2. QED
      BY <1>2, <1>7, <3>1, NotThere
  <2>4. \A w \in Workers : Occupies(w, s)'
    BY <1>5, <2>3 DEF Occupies
  <2>5. QED
    BY <1>6, <2>1, <2>2, <2>4 DEF IdOK
<1>12. GoldenUsable' /\ object'[GoldenPrefix] = object[GoldenPrefix]
  BY <1>1, <1>4, <1>5 DEF GoldenUsable
<1>13. QED
  BY <1>8, <1>9, <1>10, <1>11, <1>12, OwnId, OrderlyStep

-----------------------------------------------------------------------------
(* The golden sandbox                                                      *)

\* What EnsureGolden knows while it builds, and of the others.
LEMMA BuildingGolden ==
    ASSUME Orderly, IInv, OInv, NEW t \in Threads, th[t].pc \in BuildPcs
    PROVE  /\ th[t] \in Requests /\ ~th[t].gone /\ ~golden
           /\ th[t].pc # "gput" => th[t].rw \in Workers
           /\ th[t].pc \in {"gstart", "gundo"} =>
                 th[t].v \in Goldens /\ th[t].v \in Ids /\ th[t].v \notin Sandboxes
           /\ th[t].op \in {"resume", "golden"}
           /\ th[t].op = "resume" => th[t].w # None
           /\ \A u \in Threads \ {t} :
                 th[u].pc # "gput" /\ \A g \in Goldens : ~Works(th[u], g)
<1>1. Shape(th[t]) /\ Local(th[t]) /\ th[t] \in Requests
  BY RequestOK, OneRequest
<1>2. HoldsGolden(th[t])
  BY <1>1, IdsAssumption DEF Shape, Local, HoldsGolden
<1>3. ~golden
  BY <1>2, RequestOK, NothingLost
<1>4. \A u \in Threads \ {t} : th[u].pc # "gput" /\ \A g \in Goldens : ~Works(th[u], g)
  BY <1>2, BuildsAlone
<1>5. QED
  BY <1>1, <1>3, <1>4, IdsAssumption DEF Shape, Local, BuildPcs, GoldenPcs, Ids

\* A step of t that changes only the slot and the container of golden sandbox g.
LEMMA GoldenStepOrderly ==
    ASSUME Orderly, IInv, IInv', OInv, NEW t \in Threads, NEW g \in Goldens,
           th[t].pc \in {"gboot", "gstart", "gundo"}, th[t].pc # "gboot" => th[t].v = g,
           UNCHANGED <<image, object, taken, store, created, golden>>,
           \A w \in Workers : \A i \in Ids \ {g} : /\ i \in alive'[w] <=> i \in alive[w]
                                                   /\ container'[w][i] = container[w][i],
           \A u \in Threads \ {t} : th'[u] = th[u],
           (Local(th[t]) /\ CopyOK(th[t]) /\ CallOK(th[t]))',
           th'[t].id \in {None, th[t].id},
           \A w \in Workers : Occupies(w, g)'
    PROVE  OInv'
<1>1. /\ g \in Ids /\ g \notin Sandboxes
      /\ \A u \in Threads \ {t} : ~Works(th[u], g)
  BY BuildingGolden, IdsAssumption DEF Ids, BuildPcs
<1>2. Moves(t, g) /\ Frame(g)
  BY DEF Moves, Frame, LoudPcs
<1>3. IdOK(g)'
  BY <1>1 DEF IdOK
<1>4. GoldenUsable' /\ object'[GoldenPrefix] = object[GoldenPrefix]
  BY DEF OInv, GoldenUsable
<1>5. \A u \in Threads \ {t} : g \in Ids /\ th[u].id = g => CopyOK(th[u])'
  <2>1. SUFFICES ASSUME NEW u \in Threads \ {t} PROVE CopyOK(th[u])'
    OBVIOUS
  <2>2. CopyOK(th[u]) /\ th'[u] = th[u]
    BY OneRequest
  <2>3. QED
    BY <2>2 DEF CopyOK
<1>6. QED
  BY <1>1, <1>2, <1>3, <1>4, <1>5, OwnId, OrderlyStep

\* handleBoot claims the slot for a fresh id.
LEMMA BootGoldenOrderly ==
    ASSUME Orderly, IInv, IInv', OInv, NEW t \in Threads, BootGolden(t)
    PROVE  OInv'
<1> DEFINE r == th[t]
<1>1. r.pc = "gboot" /\ UNCHANGED <<store, created, golden>>
  BY DEF BootGolden
<1>2. r \in Requests /\ r.rw \in Workers /\ Local(r) /\ CopyOK(r)
  BY <1>1, BuildingGolden, OneRequest DEF BuildPcs
<1>3. CASE Return(t) /\ UNCHANGED workerVars
  BY <1>1, <1>3, QuietReturn DEF LoudPcs
<1>4. ASSUME NEW g \in Goldens,
             \A x \in Workers : g \notin alive[x] /\ container[x][g] = "none",
             Claim(r.rw, g),
             th' = [th EXCEPT ![t].pc = "gstart", ![t].v = g]
      PROVE  OInv'
  <2>1. /\ \A u \in Threads \ {t} : th'[u] = th[u]
        /\ th'[t].op = r.op /\ th'[t].pc = "gstart" /\ th'[t].id = r.id /\ th'[t].sb = r.sb
        /\ th'[t].w = r.w /\ th'[t].v = g /\ th'[t].rw = r.rw /\ th'[t].gone = r.gone
    BY <1>2, <1>4 DEF IInv, RequestsOK, Requests
  <2>2. /\ alive' = [alive EXCEPT ![r.rw] = @ \cup {g}]
        /\ UNCHANGED <<container, image, object, taken>>
        /\ alive \in [Workers -> SUBSET Ids]
    BY <1>4 DEF Claim, IInv, WorkerOK, WorkerTypeOK
  <2>3. (Local(th[t]) /\ CopyOK(th[t]) /\ CallOK(th[t]))'
    BY <1>1, <1>2, <1>4, <2>1, <2>2 DEF Local, CopyOK, CallOK, StopPcs, RestorePcs
  <2>4. \A w \in Workers : Occupies(w, g)'
    BY <1>2, <1>4, <2>1, <2>2 DEF Occupies, InCall
  <2>5. QED
    BY <1>1, <2>1, <2>2, <2>3, <2>4, GoldenStepOrderly
<1>5. QED
  BY <1>3, <1>4 DEF BootGolden

\* The end of handleBoot, and the deletion after a failed checkpoint.
LEMMA RunGoldenOrderly ==
    ASSUME Orderly, IInv, IInv', OInv, NEW t \in Threads, StartGolden(t) \/ UndoGolden(t)
    PROVE  OInv'
<1> DEFINE r == th[t]
<1>a. PICK g : g = th[t].v
  OBVIOUS
<1> USE <1>a
<1>1. r.pc \in {"gstart", "gundo"} /\ UNCHANGED <<store, created, golden>>
  BY DEF StartGolden, UndoGolden
<1>2. /\ r \in Requests /\ ~r.gone /\ r.rw \in Workers
      /\ g \in Goldens /\ g \in Ids /\ g \notin Sandboxes
      /\ Local(r) /\ CopyOK(r) /\ CallOK(r) /\ IdOK(g)
  BY <1>1, BuildingGolden, OneRequest, OInvParts DEF BuildPcs
<1>3. /\ alive \in [Workers -> SUBSET Ids]
      /\ container \in [Workers -> [Ids -> ContainerTags]]
  BY DEF IInv, WorkerOK, WorkerTypeOK
<1>4. CASE r.pc = "gstart" /\ RtBoot(r.rw, g) /\ Reply(t, "ckpt")
  <2>1. /\ container' = [container EXCEPT ![r.rw][g] = "current"]
        /\ UNCHANGED <<alive, image, object, taken>>
    BY <1>4 DEF RtBoot
  <2>2. /\ \A u \in Threads \ {t} : th'[u] = th[u]
        /\ th'[t].op = r.op /\ th'[t].pc = "ckpt" /\ th'[t].id = r.id /\ th'[t].sb = r.sb
        /\ th'[t].w = r.w /\ th'[t].v = g /\ th'[t].rw = r.rw /\ th'[t].gone = r.gone
    BY <1>2, <1>4 DEF Reply, Goto, IInv, RequestsOK, Requests
  <2>3. /\ \A w \in Workers : \A i \in Ids \ {g} : container'[w][i] = container[w][i]
        /\ \A w \in Workers \ {r.rw} : container'[w][g] = container[w][g]
    BY <1>2, <1>3, <2>1
  <2>4. r.op \in {"resume", "golden"}
    BY <1>1, BuildingGolden DEF BuildPcs
  <2>5. (Local(th[t]) /\ CopyOK(th[t]) /\ CallOK(th[t]))'
    BY <1>1, <1>2, <2>1, <2>2, <2>4 DEF Local, CopyOK, CallOK, StopPcs, RestorePcs
  <2>6. ASSUME NEW w \in Workers PROVE Occupies(w, g)'
    <3>1. CASE w = r.rw
      BY <1>2, <2>2, <3>1 DEF Occupies, InCall
    <3>2. CASE w # r.rw
      <4>1. Occupies(w, g)
        BY <1>2 DEF IdOK
      <4>2. QED
        BY <1>2, <2>1, <2>2, <2>3, <3>2, <4>1, OccupiesKept
    <3>3. QED
      BY <3>1, <3>2
  <2>7. QED
    BY <1>1, <1>2, <2>1, <2>2, <2>3, <2>5, <2>6, GoldenStepOrderly
<1>5. ASSUME alive' = Released(r.rw, g), UNCHANGED <<image, object, taken>>, Return(t),
             \/ r.pc = "gstart" /\ UNCHANGED container
             \/ container' = [container EXCEPT ![r.rw][g] = "none"]
      PROVE  OInv'
  <2>1. th'[t] = NoRequest /\ \A u \in Threads \ {t} : th'[u] = th[u]
    BY <1>5 DEF Return, Leave, IInv, RequestsOK
  <2>2. (Local(th[t]) /\ CopyOK(th[t]) /\ CallOK(th[t]))' /\ th'[t].id = None
    BY <2>1 DEF NoRequest, NoSandbox, Local, CopyOK, CallOK
  <2>3. \A w \in Workers : \A i \in Ids \ {g} : /\ i \in alive'[w] <=> i \in alive[w]
                                                /\ container'[w][i] = container[w][i]
    BY <1>2, <1>3, <1>5 DEF Released
  <2>4. /\ g \notin alive'[r.rw] /\ container'[r.rw][g] = "none"
        /\ \A w \in Workers : /\ g \in alive'[w] => g \in alive[w]
                              /\ container[w][g] = "none" => container'[w][g] = "none"
    <3>1. r.pc = "gstart" => container[r.rw][g] = "none"
      BY <1>2 DEF CallOK
    <3>2. QED
      BY <1>2, <1>3, <1>5, <3>1 DEF Released
  <2>5. ASSUME NEW w \in Workers PROVE Occupies(w, g)'
    <3>1. Occupies(w, g)
      BY <1>2 DEF IdOK
    <3>2. QED
      BY <1>2, <2>1, <2>4, <3>1, OccupiesKept
  <2>6. QED
    BY <1>1, <1>2, <1>5, <2>1, <2>2, <2>3, <2>5, GoldenStepOrderly
<1>6. CASE StartGolden(t)
  BY <1>4, <1>5, <1>6 DEF StartGolden, RtBootFails
<1>7. CASE UndoGolden(t)
  BY <1>5, <1>7, NothingLost DEF UndoGolden, HandleDelete
<1>8. QED
  BY <1>6, <1>7

\* PutGolden: the prefix that is recorded holds a complete snapshot.
LEMMA PutGoldenOrderly ==
    ASSUME Orderly, IInv, IInv', OInv, NEW t \in Threads, PutGolden(t)
    PROVE  OInv'
<1> DEFINE r == th[t]
<1>1. r.pc = "gput" /\ UNCHANGED <<workerVars, store, created>> /\ GoldenDone(t)
  BY NothingLost DEF PutGolden
<1>2. /\ r.op \in {"resume", "golden"} /\ (r.op = "resume" => r.w # None)
      /\ CallOK(r)
  BY <1>1, BuildingGolden, OneRequest DEF BuildPcs
<1>3. GoldenUsable' /\ object'[GoldenPrefix] = object[GoldenPrefix]
  BY <1>1, <1>2 DEF CallOK, GoldenUsable, workerVars
<1>4. /\ \A u \in Threads \ {t} : th'[u] = th[u]
      /\ (Local(th[t]) /\ CopyOK(th[t]) /\ CallOK(th[t]))'
      /\ th'[t].id \in {None, r.id}
  <2>1. CASE r.op = "golden"
    <3>1. th'[t] = NoRequest /\ \A u \in Threads \ {t} : th'[u] = th[u]
      BY <1>1, <2>1 DEF GoldenDone, Return, Leave, IInv, RequestsOK
    <3>2. QED
      BY <3>1 DEF NoRequest, NoSandbox, Local, CopyOK, CallOK
  <2>2. CASE r.op = "resume"
    <3>1. Admit(t) /\ UNCHANGED store
      BY <1>1, <2>2 DEF GoldenDone
    <3>2. /\ \A u \in Threads \ {t} : th'[u] = th[u]
          /\ th'[t].id = th[t].id /\ th'[t].pc = "restore"
          /\ (Local(th[t]) /\ CopyOK(th[t]))'
      BY <1>1, <1>2, <2>2, <3>1, AdmitRequest
    <3>3. CallOK(th[t])'
      BY <3>2, QuietCall DEF LoudPcs
    <3>4. QED
      BY <3>2, <3>3
  <2>3. QED
    BY <1>2, <2>1, <2>2
<1>5. None \notin Ids /\ Moves(t, None) /\ Frame(None)
  BY <1>1, <1>4, IdsAssumption DEF Moves, Frame, workerVars, Ids, LoudPcs
<1>6. QED
  BY <1>3, <1>4, <1>5, OwnId, OrderlyStep DEF Works

-----------------------------------------------------------------------------
(* Delete and Create                                                       *)

\* The Worker's Delete leaves the sandbox nowhere.
LEMMA DeleteOnWorkerOrderly ==
    ASSUME Orderly, IInv, IInv', OInv, NEW t \in Threads, DeleteOnWorker(t)
    PROVE  OInv'
<1> DEFINE r == th[t]
<1>a. PICK s : s = th[t].v
  OBVIOUS
<1> USE <1>a
<1>1. /\ r.pc = "dkill" /\ UNCHANGED <<store, created, golden>>
      /\ HandleDelete(r.rw, s) /\ Goto(t, "dremove")
  BY NothingLost DEF DeleteOnWorker
<1>2. /\ r \in Requests /\ r.rw \in Workers /\ Local(r) /\ CopyOK(r) /\ CallOK(r) /\ r.id = s
      /\ s \in Sandboxes /\ s \in Ids /\ s \notin Goldens
      /\ store[s].state = "running" => store[s].worker = r.rw
  BY <1>1, RequestOK, OneRequest, IdsAssumption DEF Shape, Local, CallOK, Ids
<1>3. IdOK(s) /\ GoldenUsable
  BY <1>2, OInvParts
<1>4. /\ alive \in [Workers -> SUBSET Ids]
      /\ container \in [Workers -> [Ids -> ContainerTags]]
  BY DEF IInv, WorkerOK, WorkerTypeOK
<1>5. /\ container' = [container EXCEPT ![r.rw][s] = "none"]
      /\ alive' = Released(r.rw, s)
      /\ UNCHANGED <<image, object, taken>>
  BY <1>1 DEF HandleDelete
<1>6. \A u \in Threads \ {t} : /\ th[u].id # s
                               /\ Works(th[u], s) => th[u].pc \in {"ckpt", "upload", "save"}
  BY <1>1, DeletesAlone
<1>7. \A w \in Workers \ {r.rw} : s \notin alive[w] /\ container[w][s] = "none"
  <2>1. \A u \in Threads : th[u].id = s => th[u].pc \notin {"load", "put"}
    BY <1>1, <1>6
  <2>2. QED
    BY <1>2, <2>1, NotThere
<1>8. /\ \A w \in Workers : s \notin alive'[w] /\ container'[w][s] = "none"
      /\ \A w \in Workers : \A i \in Ids \ {s} : /\ i \in alive'[w] <=> i \in alive[w]
                                                 /\ container'[w][i] = container[w][i]
  BY <1>2, <1>4, <1>5, <1>7 DEF Released
<1>9. /\ \A u \in Threads \ {t} : th'[u] = th[u]
      /\ th'[t].op = r.op /\ th'[t].pc = "dremove" /\ th'[t].id = r.id /\ th'[t].sb = r.sb
      /\ th'[t].w = r.w /\ th'[t].v = s /\ th'[t].rw = r.rw /\ th'[t].gone = r.gone
  BY <1>1, <1>2 DEF Goto, IInv, RequestsOK, Requests
<1>10. Moves(t, s) /\ Frame(s)
  BY <1>1, <1>5, <1>8, <1>9 DEF Moves, Frame
<1>11. Vacant(s)'
  BY <1>8 DEF Vacant
<1>12. (Local(th[t]) /\ CopyOK(th[t]) /\ CallOK(th[t]))'
  <2>1. (Local(th[t]) /\ CopyOK(th[t]))'
    BY <1>1, <1>2, <1>9 DEF Local, CopyOK, StopPcs, RestorePcs
  <2>2. CallOK(th[t])'
    BY <1>1, <1>2, <1>9, <1>11 DEF CallOK
  <2>3. QED
    BY <2>1, <2>2
<1>13. ASSUME NEW u \in Threads \ {t}, Works(th[u], s) PROVE CallOK(th[u])'
  <2>1. /\ CallOK(th[u]) /\ th'[u] = th[u] /\ th[u].v = s
        /\ th[u].pc \in {"ckpt", "upload", "save"} /\ th[u].rw \in Workers
    BY <1>6, <1>9, <1>13, OneRequest, Checkpointing DEF Works
  <2>2. QED
    BY <1>1, <1>5, <1>8, <2>1 DEF CallOK
<1>14. IdOK(s)'
  <2>1. RecordOK(s)' /\ Kept(s)'
    BY <1>1, <1>2, <1>3, <1>5 DEF IdOK, RecordOK, Kept
  <2>2. ASSUME store'[s].state = "running" PROVE Held(s)' /\ HasContainer(s)'
    <3>1. store'[s].worker = r.rw
      BY <1>1, <1>2, <2>2
    <3>2. QED
      BY <1>9, <3>1 DEF Held, HasContainer, InCall
  <2>3. \A w \in Workers : Occupies(w, s)'
    BY <1>8 DEF Occupies
  <2>4. QED
    BY <2>1, <2>2, <2>3 DEF IdOK
<1>15. GoldenUsable' /\ object'[GoldenPrefix] = object[GoldenPrefix]
  BY <1>1, <1>3, <1>5 DEF GoldenUsable
<1>16. QED
  BY <1>6, <1>9, <1>10, <1>12, <1>13, <1>14, <1>15, OwnId, OrderlyStep

\* DeleteSandbox, of a sandbox that is nowhere.
LEMMA DeleteFromStoreOrderly ==
    ASSUME Orderly, IInv, IInv', OInv, NEW t \in Threads, DeleteFromStore(t)
    PROVE  OInv'
<1> DEFINE r == th[t]
<1>a. PICK s : s = th[t].v
  OBVIOUS
<1> USE <1>a
<1>1. /\ r.pc = "dremove" /\ UNCHANGED <<workerVars, created, golden>>
      /\ store' = [store EXCEPT ![s] = NoSandbox] /\ Return(t)
  BY NothingLost DEF DeleteFromStore
<1>2. s \in Sandboxes /\ s \in Ids /\ IdOK(s) /\ GoldenUsable /\ Vacant(s)
  <2>1. s \in Sandboxes /\ CallOK(r)
    BY <1>1, RequestOK, OneRequest DEF Shape
  <2>2. QED
    BY <1>1, <2>1, OInvParts DEF Ids, CallOK
<1>3. /\ \A i \in Sandboxes \ {s} : store'[i] = store[i]
      /\ store'[s] = NoSandbox
      /\ UNCHANGED <<alive, container, image, object, taken>>
  BY <1>1, <1>2 DEF IInv, StoreOK, workerVars
<1>4. th'[t] = NoRequest /\ \A u \in Threads \ {t} : th'[u] = th[u]
  BY <1>1 DEF Return, Leave, IInv, RequestsOK
<1>5. (Local(th[t]) /\ CopyOK(th[t]) /\ CallOK(th[t]))' /\ th'[t].id = None
  BY <1>4 DEF NoRequest, NoSandbox, Local, CopyOK, CallOK
<1>6. Moves(t, s) /\ Frame(s)
  BY <1>1, <1>3, <1>4 DEF Moves, Frame
<1>7. \A u \in Threads \ {t} : /\ th[u].id # s
                               /\ Works(th[u], s) => th[u].pc \in {"ckpt", "upload", "save"}
  BY <1>1, DeletesAlone
<1>8. ASSUME NEW u \in Threads \ {t}, Works(th[u], s) PROVE CallOK(th[u])'
  <2>1. /\ CallOK(th[u]) /\ th'[u] = th[u] /\ th[u].v = s
        /\ th[u].pc \in {"ckpt", "upload", "save"}
    BY <1>4, <1>7, <1>8, OneRequest DEF Works
  <2>2. store'[s].state = "absent" /\ UNCHANGED created
    BY <1>1, <1>3 DEF NoSandbox
  <2>3. QED
    BY <1>3, <2>1, <2>2 DEF CallOK
<1>9. IdOK(s)'
  <2>1. RecordOK(s)' /\ Kept(s)' /\ store'[s].state # "running"
    BY <1>1, <1>2, <1>3 DEF IdOK, RecordOK, Kept, NoSandbox
  <2>2. \A w \in Workers : Occupies(w, s)'
    BY <1>2, <1>3 DEF Occupies, Vacant
  <2>3. QED
    BY <2>1, <2>2 DEF IdOK
<1>10. GoldenUsable' /\ object'[GoldenPrefix] = object[GoldenPrefix]
  BY <1>1, <1>2, <1>3 DEF GoldenUsable
<1>11. QED
  BY <1>5, <1>6, <1>7, <1>8, <1>9, <1>10, OrderlyStep

\* Create hands out an id that nothing is about.
LEMMA CreateOrderly ==
    ASSUME Orderly, IInv, IInv', OInv, Create
    PROVE  OInv'
<1>1. PICK s \in Sandboxes \ created :
         /\ created' = created \cup {s}
         /\ store' = [store EXCEPT ![s] = [NoSandbox EXCEPT !.state = "suspended"]]
  BY NothingLost DEF Create
<1>2. UNCHANGED <<alive, container, image, object, taken, golden, th>>
  BY DEF Create, workerVars
<1>3. s \in Ids /\ IdOK(s) /\ RecordOK(s) /\ GoldenUsable /\ store[s].state = "absent" /\ s \notin taken
  BY OInvParts DEF Ids, IdOK, RecordOK
<1>4. /\ \A i \in Sandboxes \ {s} : store'[i] = store[i] /\ (i \in created' <=> i \in created)
      /\ store'[s] = [NoSandbox EXCEPT !.state = "suspended"]
  BY <1>1 DEF IInv, StoreOK
<1>5. /\ store'[s].state = "suspended" /\ store'[s].source = "none" /\ s \in created'
      /\ store'[s].path = store'[s].worker
  BY <1>1, <1>4 DEF NoSandbox
<1>6. Moves(None, s) /\ Frame(s) /\ None \notin Threads
  BY <1>2, <1>4, SchedulerAssumption DEF Moves, Frame
<1>7. ASSUME NEW u \in Threads
      PROVE  /\ th[u].id = s => CopyOK(th[u])'
             /\ Works(th[u], s) => CallOK(th[u])'
  <2>1. CopyOK(th[u]) /\ CallOK(th[u]) /\ Local(th[u]) /\ Shape(th[u])
    BY RequestOK, OneRequest
  <2>2. th[u].id = s => th[u].op # "resume" \/ th[u].pc = "clear"
    BY <1>3, <2>1 DEF CopyOK
  <2>3. th[u].id = s => CopyOK(th[u])'
    BY <1>2, <2>2 DEF CopyOK
  <2>4. ASSUME Works(th[u], s) PROVE CallOK(th[u])'
    <3>1. th[u].pc \notin {"load", "put"}
      BY <2>1, <2>2, <2>4 DEF Works, Shape, Local, RestorePcs
    <3>2. th[u].pc \notin {"ckpt", "upload", "save"}
      BY <1>1, <2>1, <2>4 DEF Works, CallOK
    <3>3. th[u].pc \notin {"gstart", "gundo"}
      BY <1>1, <2>1, <2>4, IdsAssumption DEF Works, Shape
    <3>4. th[u].pc \in {"dkill", "dremove"}
      BY <2>4, <3>1, <3>2, <3>3 DEF Works, LoudPcs
    <3>5. QED
      BY <1>2, <1>5, <2>1, <2>4, <3>4, DeletionKept DEF Works
  <2>5. QED
    BY <2>3, <2>4
<1>8. IdOK(s)'
  <2>1. RecordOK(s)' /\ Kept(s)'
    BY <1>2, <1>3, <1>5 DEF RecordOK, Kept
  <2>2. ASSUME NEW w \in Workers PROVE Occupies(w, s)'
    <3>1. Occupies(w, s) /\ s \notin Goldens /\ s \notin Running
      BY <1>3, IdsAssumption DEF IdOK, Running
    <3>2. QED
      BY <1>2, <3>1 DEF Occupies, InCall
  <2>3. QED
    BY <1>5, <2>1, <2>2 DEF IdOK
<1>9. GoldenUsable' /\ object'[GoldenPrefix] = object[GoldenPrefix]
  BY <1>2, <1>3 DEF GoldenUsable
<1>10. QED
  BY <1>6, <1>7, <1>8, <1>9, <1>2, OrderlyStep

-----------------------------------------------------------------------------
(* Theorems                                                                *)

\* Nothing runs and nothing is served at first.
LEMMA InitOrderly == Init => OInv
<1>1. SUFFICES ASSUME Init PROVE OInv
  OBVIOUS
<1>2. /\ \A s \in Sandboxes : store[s] = NoSandbox
      /\ \A t \in Threads : th[t] = NoRequest
      /\ \A w \in Workers : alive[w] = {} /\ \A i \in Ids : container[w][i] = "none"
      /\ taken = {} /\ golden = FALSE
  BY <1>1 DEF Init, WorkerInit
<1>3. Records /\ RunningHoldsSlot /\ SnapshotKept /\ Contained
  BY <1>2 DEF Records, RecordOK, RunningHoldsSlot, SnapshotKept, Contained, RunningHasContainer,
              Running, NoSandbox
<1>4. Occupancy /\ GoldenUsable
  BY <1>2 DEF Occupancy, GoldenUsable
<1>5. RequestOrderly
  BY <1>2 DEF RequestOrderly, Local, CopyOK, CallOK, NoRequest, NoSandbox
<1>6. QED
  BY <1>3, <1>4, <1>5 DEF OInv

\* Every step keeps OInv; the steps that lose a reply are not taken.
LEMMA NextOrderly == ASSUME Orderly PROVE IInv /\ OInv /\ [Next]_vars => OInv'
<1>1. SUFFICES ASSUME IInv, OInv, [Next]_vars PROVE OInv'
  OBVIOUS
<1>2. IInv'
  BY <1>1, NextOK
<1>3. CASE UNCHANGED vars
  BY <1>1, <1>3 DEF vars, workerVars, schedulerVars, OInv, Records, RecordOK, RequestOrderly,
       Local, CopyOK, CallOK, Vacant, Occupancy, RunningHoldsSlot, SnapshotKept, GoldenUsable,
       Contained, RunningHasContainer, InCall, Running
<1>4. CASE Create
  BY <1>1, <1>2, <1>4, CreateOrderly
<1>5. ASSUME NEW t \in Threads, ClientCall(t) PROVE OInv'
  BY <1>1, <1>2, <1>5, ClientCallOrderly
<1>6. ASSUME NEW t \in Threads, ResumeStep(t) PROVE OInv'
  BY <1>1, <1>2, <1>6, WaitOrderly, DecideOrderly, SourceOrderly, RestoreOrderly, LoadOrderly,
     PutRunningOrderly DEF ResumeStep
<1>7. ASSUME NEW t \in Threads, StopStep(t) PROVE OInv'
  BY <1>1, <1>2, <1>7, BeginOrderly, CkptOrderly, UploadOrderly, SaveOrderly DEF StopStep
<1>8. ASSUME NEW t \in Threads, GoldenStep(t) PROVE OInv'
  BY <1>1, <1>2, <1>8, ChooseGoldenOrderly, BootGoldenOrderly, RunGoldenOrderly,
     PutGoldenOrderly DEF GoldenStep
<1>9. ASSUME NEW t \in Threads, DeleteStep(t) PROVE OInv'
  BY <1>1, <1>2, <1>9, DeleteOnWorkerOrderly, DeleteFromStoreOrderly DEF DeleteStep
<1>10. /\ \A t \in Threads : ~Detach(t)
       /\ \A w \in Workers : ~WorkerRestart(w)
       /\ ~ControlPlaneRestart
  BY NothingLost DEF Detach, WorkerRestart, ControlPlaneRestart
<1>11. QED
  BY <1>1, <1>3, <1>4, <1>5, <1>6, <1>7, <1>8, <1>9, <1>10 DEF Next

\* OInv is an invariant: the copies, records, slots, containers and snapshots agree at
\* every point of every request.
THEOREM OrderlyInvariance == ASSUME Orderly PROVE Spec => []OInv
<1>1. Spec => []IInv
  BY Invariance
<1>2. Init => OInv
  BY InitOrderly
<1>3. IInv /\ OInv /\ [Next]_vars => OInv'
  BY NextOrderly
<1>4. QED
  BY <1>1, <1>2, <1>3, PTL DEF Spec

\* A sandbox that the store says is running holds the slot of its Worker until the
\* request that stops or deletes it is about to write the store.
THEOREM RunningKeepsSlot == ASSUME Orderly PROVE Spec => []RunningHoldsSlot
<1>1. OInv => RunningHoldsSlot
  BY DEF OInv
<1>2. Spec => []OInv
  BY OrderlyInvariance
<1>3. QED
  BY <1>1, <1>2, PTL

\* A slot or a container belongs to a sandbox recorded there or to the call at work on
\* it: a suspended or paused sandbox occupies no Worker.
THEOREM OccupantIsRecorded == ASSUME Orderly PROVE Spec => []OccupantRecorded
<1>1. OInv => OccupantRecorded
  <2>1. \A i, w : InCall(i, w, {"load", "put"}) \/ InCall(i, w, {"gstart", "ckpt", "upload", "gundo"})
           => InCall(i, w, {"load", "put", "gstart", "ckpt", "upload", "gundo"})
    BY DEF InCall
  <2>2. QED
    BY <2>1 DEF OInv, Occupancy, OccupantRecorded
<1>2. Spec => []OInv
  BY OrderlyInvariance
<1>3. QED
  BY <1>1, <1>2, PTL

\* What the store says a stopped sandbox is resumed from is its newest checkpoint.
THEOREM SnapshotIsKept == ASSUME Orderly PROVE Spec => []SnapshotKept
<1>1. OInv => SnapshotKept
  BY DEF OInv
<1>2. Spec => []OInv
  BY OrderlyInvariance
<1>3. QED
  BY <1>1, <1>2, PTL

\* LocalSnapshotPath names the directory of the record's own Worker.
THEOREM PathIsOwn == ASSUME Orderly PROVE Spec => []PathFollowsWorker
<1>1. OInv => PathFollowsWorker
  BY DEF OInv, Records, RecordOK, PathFollowsWorker
<1>2. Spec => []OInv
  BY OrderlyInvariance
<1>3. QED
  BY <1>1, <1>2, PTL

\* The golden prefix, once recorded, holds a complete snapshot, however many builds of
\* it failed half-way before.
THEOREM GoldenIsUsable == ASSUME Orderly PROVE Spec => []GoldenUsable
<1>1. OInv => GoldenUsable
  BY DEF OInv
<1>2. Spec => []OInv
  BY OrderlyInvariance
<1>3. QED
  BY <1>1, <1>2, PTL

\* If uploads do not fail, a sandbox that the store says is running has a container
\* until its checkpoint or its deletion.
THEOREM RunningIsContained ==
    ASSUME Orderly, "upload" \notin Faults PROVE Spec => []RunningHasContainer
<1>1. OInv => RunningHasContainer
  BY DEF OInv, Contained
<1>2. Spec => []OInv
  BY OrderlyInvariance
<1>3. QED
  BY <1>1, <1>2, PTL
=============================================================================
