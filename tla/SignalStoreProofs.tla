------------------------- MODULE SignalStoreProofs --------------------------
(***************************************************************************)
(* Proofs about SignalStore: the accounts of service and wait, and what an *)
(* eviction may rely on, for any number of sandboxes, Workers, calls,      *)
(* pushes and ticks.                                                       *)
(***************************************************************************)
EXTENDS SignalStore, NatLemmas

-----------------------------------------------------------------------------
(* The inductive invariant                                                 *)

\* Stamps are of the past.
Past(t) == 0 .. t

Records(t) ==
    [H : Nat, busy : BOOLEAN, active : Past(t), size : Nat, preempt : Nat, restore : Nat,
     updated : Past(t), phase : {"", "tool_loop", "idle"}, lock : BOOLEAN, semantic : Past(t),
     attained : Int, wait : Int, running : Past(t), suspended : Past(t)]

Pushes(t) == [id : OrNone(Sandboxes), from : Workers, busy : BOOLEAN, active : Past(t)]

States == {"suspended", "paused", "running", "gone"}

\* A running sandbox has a Worker.
Boxes ==
    {b \in [state : States, host : OrNone(Workers), snap : BOOLEAN, updated : Nat] :
        b.state = "running" => b.host \in Workers}

Views ==
    [left : SUBSET Workers, up : SUBSET Workers, free : SUBSET Workers,
     box : [Sandboxes -> Boxes]]

Sightings == [at : Nat, said : Nat]

Steps ==
    {"none", "wait", "probe", "list", "decide", "evict", "restore", "put", "mark",
     "fetch", "ckpt", "dump", "save", "stopped", "kill", "drop"}

Copies == [state : States, host : OrNone(Workers), snap : BOOLEAN]

CallRecords ==
    [pc : Steps, s : OrNone(Sandboxes), sb : Copies, w : OrNone(Workers),
     v : OrNone(Sandboxes), h : OrNone(Workers), upload : BOOLEAN, at : Nat]

\* A call r knows the sandboxes and the Workers its next steps are about, and its stamp
\* is not older than a Put may take.
KnowsOK(r, t) ==
    /\ r.pc \in {"wait", "probe", "list", "decide", "restore", "put", "mark"} => r.s # None
    /\ r.pc \in {"restore", "put"} => r.w # None
    /\ r.pc \in {"evict", "fetch", "ckpt", "dump", "save", "stopped"} =>
          r.v # None /\ (r.s # None => r.w # None)
    /\ r.pc \in {"kill", "drop"} => r.v # None
    /\ r.pc \in {"ckpt", "dump", "save", "stopped", "kill"} => r.h # None
    /\ r.pc \in {"mark", "stopped"} => r.at \in 1 .. t /\ t - r.at <= MaxLag

\* The steps taken under knockMu.
Holds(r) ==
    r.pc \in {"probe", "list", "decide", "evict", "fetch", "ckpt", "dump", "save", "stopped"}

\* What a record r has counted up to the time t.
Counted(r, t) ==
    r.attained + (IF r.running = 0 THEN 0 ELSE t - r.running)
        + r.wait + (IF r.suspended = 0 THEN 0 ELSE t - r.suspended)

\* A record counts service or wait, not both; it counts neither before its first mark.
AccountOK(r, t) ==
    /\ r.running = 0 \/ r.suspended = 0
    /\ r.running = 0 /\ r.suspended = 0 => r.attained = 0 /\ r.wait = 0
    /\ Counted(r, t) <= t - 1

\* What a heartbeat of the tool loop leaves is there for a TTL, less the age of a late mark.
LoopOK(s) ==
    tool[s] # 0 /\ now - tool[s] <= TTL - MaxLag =>
       /\ rec[s].phase = "tool_loop"
       /\ rec[s].updated # 0 /\ rec[s].updated >= tool[s] - MaxLag
       /\ rec[s].semantic >= tool[s]

\* The cache.
CacheOK ==
    /\ now \in 1 .. MaxTime
    /\ clock \in Nat
    /\ rec \in [Sandboxes -> Records(now)]
    /\ pushes \subseteq Pushes(now)
    /\ tool \in [Sandboxes -> Past(now)]
    /\ \A s \in Sandboxes : AccountOK(rec[s], now) /\ LoopOK(s)

\* The Workers and the store.
MachinesOK ==
    /\ slot \in [Workers -> OrNone(Sandboxes)]
    /\ lastActive \in [Workers -> Past(now)]
    /\ ckpting \subseteq Workers \X Sandboxes
    /\ box \in [Sandboxes -> Boxes]
    /\ reserve \in [Workers -> OrNone(Sandboxes)]

\* The calls: one at a time holds knockMu, so that seen is of the one that evicts.
CallsOK ==
    /\ policy \in PoliciesUsed
    /\ knock \in OrNone(Calls)
    /\ view \in Views
    /\ seen \in Sightings
    /\ call \in [Calls -> CallRecords]
    /\ \A c \in Calls : KnowsOK(call[c], now) /\ (Holds(call[c]) => knock = c)
    /\ ToolLoopNotEvicted

SInv == CacheOK /\ MachinesOK /\ CallsOK

-----------------------------------------------------------------------------
(* The operations on a record                                              *)

SameAccount(r, q) ==
    /\ q.attained = r.attained /\ q.wait = r.wait
    /\ q.running = r.running /\ q.suspended = r.suspended

LEMMA PastFacts ==
    \A t \in Nat : 0 \in Past(t) /\ t \in Past(t) /\ \A x \in Past(t) : x \in Nat /\ x <= t
BY DEF Past

\* The counters of a record, and its stamps.
LEMMA RecordFacts ==
    ASSUME NEW t \in Nat, NEW r \in Records(t)
    PROVE  /\ r.attained \in Int /\ r.wait \in Int
           /\ r.running \in Nat /\ r.running <= t /\ r.suspended \in Nat /\ r.suspended <= t
           /\ r.updated \in Nat /\ r.updated <= t /\ r.semantic \in Nat /\ r.semantic <= t
<1>1. /\ r.attained \in Int /\ r.wait \in Int /\ r.running \in Past(t)
      /\ r.suspended \in Past(t) /\ r.updated \in Past(t) /\ r.semantic \in Past(t)
  BY DEF Records
<1>2. QED
  BY <1>1, PastFacts

LEMMA NoRecordOK ==
    /\ \A t \in Nat : NoRecord \in Records(t)
    /\ \A t \in Nat \ {0} : AccountOK(NoRecord, t)
<1>1. ASSUME NEW t \in Nat PROVE NoRecord \in Records(t)
  <2>1. 0 \in Past(t)
    BY PastFacts
  <2>2. QED
    BY <2>1 DEF NoRecord, Records
<1>2. /\ NoRecord.attained = 0 /\ NoRecord.wait = 0 /\ NoRecord.running = 0
      /\ NoRecord.suspended = 0
  BY DEF NoRecord
<1>3. QED
  BY <1>1, <1>2 DEF AccountOK, Counted

\* A priority is the clock and a share of the cost.
LEMMA PriorityNat ==
    ASSUME NEW t \in Nat, NEW l \in Nat, NEW r \in Records(t)
    PROVE  GDSPriority(l, r) \in Nat
<1>1. r.size \in Nat /\ r.preempt \in Nat /\ r.restore \in Nat /\ Second \in Nat
  BY SignalAssumption DEF Records
<1>2. GDSCost(r) \in Nat /\ GDSSize(r) \in Nat \ {0}
  BY <1>1 DEF GDSCost, GDSSize, DefaultCost, DefaultSize
<1>3. GDSCost(r) \div GDSSize(r) \in Nat
  BY <1>2, DivAtMost
<1>4. QED
  BY <1>3 DEF GDSPriority

LEMMA WithPriorityOK ==
    ASSUME clock \in Nat, NEW t \in Nat, NEW r \in Records(t)
    PROVE  /\ WithPriority(r) \in Records(t) /\ SameAccount(r, WithPriority(r))
           /\ WithPriority(r).updated = r.updated /\ WithPriority(r).phase = r.phase
           /\ WithPriority(r).semantic = r.semantic
<1>1. GDSPriority(clock, r) \in Nat
  BY PriorityNat
<1>2. QED
  BY <1>1 DEF WithPriority, Records, SameAccount

LEMMA AppliedOK ==
    ASSUME now \in Nat, NEW r \in Records(now), NEW p \in Pushes(now), p.id \in Sandboxes
    PROVE  /\ Applied(r, p) \in Records(now) /\ SameAccount(r, Applied(r, p))
           /\ Applied(r, p).updated = now /\ Applied(r, p).phase = r.phase
           /\ Applied(r, p).semantic = r.semantic
<1>1. Mem[p.id] \in Nat /\ now \in Past(now)
  BY SignalAssumption, PastFacts
<1>2. QED
  BY <1>1 DEF Applied, Touched, Records, SameAccount, Pushes

\* A mark at a time that has passed keeps the account, and adds at most what has passed.
LEMMA MarkedRunningOK ==
    ASSUME NEW t \in Nat \ {0}, NEW r \in Records(t), NEW at \in 1 .. t, AccountOK(r, t)
    PROVE  /\ MarkedRunning(r, at) \in Records(t)
           /\ AccountOK(MarkedRunning(r, at), t)
           /\ MarkedRunning(r, at).updated = at /\ MarkedRunning(r, at).phase = r.phase
           /\ MarkedRunning(r, at).semantic = r.semantic
<1> DEFINE q == MarkedRunning(r, at)
<1>1. r.attained \in Int /\ r.wait \in Int /\ r.running \in Nat /\ r.suspended \in Nat
  BY RecordFacts
<1>2. /\ 0 \in Past(t) /\ at \in Past(t)
      /\ r.wait + (at - r.suspended) \in Int
  BY <1>1 DEF Past
<1>3. q \in Records(t)
  BY <1>2 DEF MarkedRunning, Records
<1>4. /\ q.attained = r.attained
      /\ q.wait = (IF r.suspended = 0 THEN r.wait ELSE r.wait + (at - r.suspended))
      /\ q.suspended = 0
      /\ q.running = (IF r.running = 0 THEN at ELSE r.running)
      /\ q.updated = at /\ q.phase = r.phase /\ q.semantic = r.semantic
  BY DEF MarkedRunning, Records
<1> HIDE DEF q
<1>5. AccountOK(q, t)
  BY <1>1, <1>4 DEF AccountOK, Counted
<1>6. QED
  BY <1>3, <1>4, <1>5 DEF q

LEMMA MarkedSuspendedOK ==
    ASSUME NEW t \in Nat \ {0}, NEW r \in Records(t), NEW at \in 1 .. t, AccountOK(r, t)
    PROVE  /\ MarkedSuspended(r, at) \in Records(t)
           /\ AccountOK(MarkedSuspended(r, at), t)
           /\ MarkedSuspended(r, at).updated = at /\ MarkedSuspended(r, at).phase = r.phase
           /\ MarkedSuspended(r, at).semantic = r.semantic
<1> DEFINE q == MarkedSuspended(r, at)
<1>1. r.attained \in Int /\ r.wait \in Int /\ r.running \in Nat /\ r.suspended \in Nat
  BY RecordFacts
<1>2. /\ 0 \in Past(t) /\ at \in Past(t)
      /\ r.attained + (at - r.running) \in Int
  BY <1>1 DEF Past
<1>3. q \in Records(t)
  BY <1>2 DEF MarkedSuspended, Records
<1>4. /\ q.attained = (IF r.running = 0 THEN r.attained ELSE r.attained + (at - r.running))
      /\ q.wait = r.wait
      /\ q.running = 0
      /\ q.suspended = (IF r.suspended = 0 THEN at ELSE r.suspended)
      /\ q.updated = at /\ q.phase = r.phase /\ q.semantic = r.semantic
  BY DEF MarkedSuspended, Records
<1> HIDE DEF q
<1>5. AccountOK(q, t)
  BY <1>1, <1>4 DEF AccountOK, Counted
<1>6. QED
  BY <1>3, <1>4, <1>5 DEF q

LEMMA SameAccountOK ==
    ASSUME NEW r, NEW q, NEW t, SameAccount(r, q), AccountOK(r, t)
    PROVE  AccountOK(q, t)
BY DEF SameAccount, AccountOK, Counted

\* Time passes for a record.
LEMMA RecordAges ==
    ASSUME NEW t \in Nat, NEW r \in Records(t), AccountOK(r, t)
    PROVE  r \in Records(t + 1) /\ AccountOK(r, t + 1)
<1>1. r.attained \in Int /\ r.wait \in Int /\ r.running \in Nat /\ r.suspended \in Nat
  BY RecordFacts
<1>2. Past(t) \subseteq Past(t + 1)
  BY DEF Past
<1>3. r \in Records(t + 1)
  BY <1>2 DEF Records
<1>4. AccountOK(r, t + 1)
  BY <1>1 DEF AccountOK, Counted
<1>5. QED
  BY <1>3, <1>4

-----------------------------------------------------------------------------
(* Steps of the cache                                                      *)

\* q replaces the record of s; the others stay, or have not been touched for a TTL.
Touches(s, q) ==
    /\ q \in Records(now) /\ SameAccount(rec[s], q) /\ q.updated = now
    /\ rec' = Purged([rec EXCEPT ![s] = q])

\* The cache's numbers.
LEMMA TimeFacts ==
    ASSUME CacheOK
    PROVE  /\ now \in Nat \ {0} /\ TTL \in Nat /\ MaxLag \in Nat
           /\ 0 \in Past(now) /\ now \in Past(now)
BY SignalAssumption DEF CacheOK, Past

LEMMA TouchLeaves ==
    ASSUME CacheOK, NEW s \in Sandboxes, NEW q, Touches(s, q)
    PROVE  /\ rec'[s] = q
           /\ \A x \in Sandboxes \ {s} :
                 rec'[x] = rec[x] \/ (rec'[x] = NoRecord /\ now - rec[x].updated > TTL)
           /\ rec' \in [Sandboxes -> Records(now)]
<1> DEFINE f == [rec EXCEPT ![s] = q]
<1>1. now - now = 0 /\ ~(0 > TTL) /\ now \in Nat
  BY TimeFacts
<1>2. f[s] = q /\ \A x \in Sandboxes \ {s} : f[x] = rec[x]
  BY DEF CacheOK
<1>3. rec' = [x \in Sandboxes |-> IF now - f[x].updated > TTL THEN NoRecord ELSE f[x]]
  BY DEF Touches, Purged
<1> HIDE DEF f
<1>4. rec'[s] = q
  BY <1>1, <1>2, <1>3 DEF Touches
<1>5. ASSUME NEW x \in Sandboxes \ {s}
      PROVE  rec'[x] = rec[x] \/ (rec'[x] = NoRecord /\ now - rec[x].updated > TTL)
  BY <1>2, <1>3
<1>6. \A x \in Sandboxes : rec'[x] \in Records(now)
  BY <1>1, <1>4, <1>5, NoRecordOK DEF CacheOK, Touches
<1>7. QED
  BY <1>3, <1>4, <1>5, <1>6

\* Such a step keeps the accounts.
LEMMA TouchAccounts ==
    ASSUME CacheOK, NEW s \in Sandboxes, NEW q, Touches(s, q)
    PROVE  \A x \in Sandboxes : AccountOK(rec'[x], now)
<1>1. now \in Nat \ {0}
  BY TimeFacts
<1>2. /\ rec'[s] = q
      /\ \A x \in Sandboxes \ {s} : rec'[x] = rec[x] \/ rec'[x] = NoRecord
  BY TouchLeaves
<1>3. ASSUME NEW x \in Sandboxes PROVE AccountOK(rec'[x], now)
  <2>1. AccountOK(rec[x], now)
    BY DEF CacheOK
  <2>2. CASE x = s
    BY <1>2, <2>1, <2>2, SameAccountOK DEF Touches
  <2>3. CASE x # s
    BY <1>1, <1>2, <2>1, <2>3, NoRecordOK
  <2>4. QED
    BY <2>2, <2>3
<1>4. QED
  BY <1>3

\* It leaves what a heartbeat of the tool loop said, of s too if q has kept the phase.
LEMMA TouchLoops ==
    ASSUME CacheOK, NEW s \in Sandboxes, NEW q, Touches(s, q), now' = now,
           NEW x \in Sandboxes, tool'[x] = tool[x],
           x # s \/ (q.phase = rec[s].phase /\ q.semantic \in {rec[s].semantic, now})
    PROVE  LoopOK(x)'
<1>1. /\ LoopOK(x) /\ now \in Nat \ {0} /\ TTL \in Nat /\ MaxLag \in Nat
      /\ tool[x] \in Past(now) /\ rec[x] \in Records(now)
  BY TimeFacts DEF CacheOK
<1>2. /\ tool[x] \in Nat /\ tool[x] <= now
      /\ rec[x].updated \in Nat /\ rec[x].semantic \in Nat
  BY <1>1, PastFacts, RecordFacts
<1>3. CASE x = s
  <2>1. rec'[x] = q /\ q.updated = now
    BY <1>3, TouchLeaves DEF Touches
  <2>2. QED
    BY <1>1, <1>2, <1>3, <2>1 DEF LoopOK
<1>4. CASE x # s
  <2>1. rec'[x] = rec[x] \/ now - rec[x].updated > TTL
    BY <1>4, TouchLeaves
  <2>2. CASE rec'[x] = rec[x]
    BY <1>1, <2>2 DEF LoopOK
  <2>3. CASE now - rec[x].updated > TTL
    <3>1. ~(tool[x] # 0 /\ now - tool[x] <= TTL - MaxLag)
      BY <1>1, <1>2, <2>3 DEF LoopOK
    <3>2. QED
      BY <1>1, <3>1 DEF LoopOK
  <2>4. QED
    BY <2>1, <2>2, <2>3
<1>5. QED
  BY <1>3, <1>4

\* A step that touches one record, and says nothing of a phase.
LEMMA TouchCache ==
    ASSUME CacheOK, NEW s \in Sandboxes, NEW q, Touches(s, q),
           q.phase = rec[s].phase, q.semantic = rec[s].semantic,
           UNCHANGED <<now, clock, tool>>, pushes' \subseteq pushes
    PROVE  CacheOK'
<1>1. ASSUME NEW x \in Sandboxes PROVE AccountOK(rec'[x], now') /\ LoopOK(x)'
  BY TouchLoops, TouchAccounts
<1>2. rec' \in [Sandboxes -> Records(now')]
  BY TouchLeaves
<1>3. QED
  BY <1>1, <1>2 DEF CacheOK

LEMMA CacheFrame ==
    ASSUME CacheOK, UNCHANGED <<now, clock, rec, tool>>, pushes' \subseteq pushes
    PROVE  CacheOK'
BY DEF CacheOK, LoopOK

\* A mark replaces one record.
LEMMA MarkCache ==
    ASSUME CacheOK, NEW s \in Sandboxes, NEW at \in 1 .. now, now - at <= MaxLag,
           NEW q \in {MarkedRunning(rec[s], at), MarkedSuspended(rec[s], at)},
           rec' = [rec EXCEPT ![s] = q], UNCHANGED <<now, clock, tool, pushes>>
    PROVE  CacheOK'
<1>1. /\ LoopOK(s) /\ now \in Nat \ {0} /\ TTL \in Nat /\ MaxLag \in Nat
      /\ tool[s] \in Past(now) /\ rec[s] \in Records(now) /\ AccountOK(rec[s], now)
  BY TimeFacts DEF CacheOK
<1>2. /\ q \in Records(now) /\ AccountOK(q, now)
      /\ q.updated = at /\ q.phase = rec[s].phase /\ q.semantic = rec[s].semantic
  <2>1. PICK r : r = rec[s]
    OBVIOUS
  <2>2. CASE q = MarkedRunning(r, at)
    BY <1>1, <2>1, <2>2, MarkedRunningOK
  <2>3. CASE q = MarkedSuspended(r, at)
    BY <1>1, <2>1, <2>3, MarkedSuspendedOK
  <2>4. QED
    BY <2>1, <2>2, <2>3
<1>3. rec'[s] = q /\ \A x \in Sandboxes \ {s} : rec'[x] = rec[x]
  BY DEF CacheOK
<1>4. rec' \in [Sandboxes -> Records(now')]
  BY <1>2 DEF CacheOK
<1>5. LoopOK(s)'
  <2>1. tool[s] \in Nat /\ tool[s] <= now
    BY <1>1 DEF Past
  <2>2. QED
    BY <1>1, <1>2, <1>3, <2>1 DEF LoopOK
<1>6. ASSUME NEW x \in Sandboxes PROVE AccountOK(rec'[x], now') /\ LoopOK(x)'
  <2>1. CASE x = s
    BY <1>2, <1>3, <1>5, <2>1
  <2>2. CASE x # s
    <3>1. AccountOK(rec[x], now) /\ LoopOK(x)
      BY DEF CacheOK
    <3>2. QED
      BY <1>3, <2>2, <3>1 DEF LoopOK
  <2>3. QED
    BY <2>1, <2>2
<1>7. QED
  BY <1>4, <1>6 DEF CacheOK

-----------------------------------------------------------------------------
(* What a step leaves alone                                                *)

LEMMA MachinesFrame ==
    ASSUME MachinesOK, UNCHANGED <<now, workerVars, box, reserve>>
    PROVE  MachinesOK'
BY DEF MachinesOK, workerVars

LEMMA CallsFrame ==
    ASSUME CallsOK, UNCHANGED <<policy, now, knock, view, call, seen>>
    PROVE  CallsOK'
BY DEF CallsOK, ToolLoopNotEvicted, Evicting

LEMMA StutterSInv == ASSUME SInv, UNCHANGED vars PROVE SInv'
<1>1. UNCHANGED <<policy, now, clock, rec, pushes, workerVars, box, reserve, knock, view, call,
                  tool, seen>>
  BY DEF vars, signalVars, schedVars
<1>2. QED
  BY <1>1, CacheFrame, MachinesFrame, CallsFrame DEF SInv

-----------------------------------------------------------------------------
(* Time, the pushers and the heartbeats                                    *)

LEMMA InitSInv == ASSUME Init PROVE SInv
<1>1. 0 \in Past(1) /\ 1 \in Nat \ {0} /\ 1 \in 1 .. MaxTime
  BY SignalAssumption, PastFacts
<1>2. NoRecord \in Records(1) /\ AccountOK(NoRecord, 1)
  BY <1>1, NoRecordOK
<1>3. Created \in Boxes /\ Deleted \in Boxes
  BY DEF Created, Deleted, Boxes, States, OrNone
<1>4. CacheOK
  BY <1>1, <1>2 DEF Init, CacheOK, LoopOK
<1>5. MachinesOK
  BY <1>1, <1>3 DEF Init, MachinesOK, OrNone
<1>6. NoView \in Views
  BY <1>3 DEF NoView, Views
<1>7. NoCall \in CallRecords /\ KnowsOK(NoCall, 1) /\ ~Holds(NoCall)
  <2>1. NoCopy \in Copies
    BY DEF NoCopy, Copies, OrNone, States
  <2>2. NoCall \in CallRecords
    BY <2>1 DEF NoCall, CallRecords, Steps, OrNone
  <2>3. NoCall.pc = "none"
    BY DEF NoCall
  <2>4. QED
    BY <2>2, <2>3 DEF KnowsOK, Holds
<1>8. NothingSeen \in Sightings /\ seen.said = 0
  BY DEF Init, NothingSeen, Sightings
<1>9. CallsOK
  BY <1>6, <1>7, <1>8 DEF Init, CallsOK, ToolLoopNotEvicted, OrNone
<1>10. QED
  BY <1>4, <1>5, <1>9 DEF SInv

LEMMA TickSInv == ASSUME SInv, Tick PROVE SInv'
<1>1. /\ now < MaxTime /\ now' = now + 1
      /\ UNCHANGED <<policy, clock, rec, pushes, workerVars, box, reserve, knock, view, call,
                     tool, seen>>
      /\ \A c \in Calls : call[c].pc \in {"mark", "stopped"} => now - call[c].at < MaxLag
  BY DEF Tick, signalVars, schedVars
<1>2. /\ CacheOK /\ now \in Nat \ {0} /\ TTL \in Nat /\ MaxLag \in Nat
      /\ now \in 1 .. MaxTime /\ MaxTime \in Nat
  BY TimeFacts, SignalAssumption DEF SInv, CacheOK
<1>3. Past(now) \subseteq Past(now + 1) /\ now + 1 \in 1 .. MaxTime
  BY <1>1, <1>2 DEF Past
<1>4. ASSUME NEW s \in Sandboxes
      PROVE  rec[s] \in Records(now + 1) /\ AccountOK(rec'[s], now') /\ LoopOK(s)'
  <2>1. AccountOK(rec[s], now) /\ LoopOK(s) /\ rec[s] \in Records(now) /\ tool[s] \in Past(now)
    BY <1>2 DEF CacheOK
  <2>2. rec[s] \in Records(now + 1) /\ AccountOK(rec[s], now + 1)
    BY <1>2, <2>1, RecordAges
  <2>3. tool[s] \in Nat
    BY <1>2, <2>1, PastFacts
  <2>4. LoopOK(s)'
    BY <1>1, <1>2, <2>1, <2>3 DEF LoopOK
  <2>5. QED
    BY <1>1, <2>2, <2>4
<1>5. pushes \subseteq Pushes(now + 1)
  BY <1>2, <1>3 DEF CacheOK, Pushes
<1>6. CacheOK'
  BY <1>1, <1>2, <1>3, <1>4, <1>5 DEF CacheOK
<1>7. MachinesOK'
  BY <1>1, <1>3 DEF SInv, MachinesOK, workerVars
<1>8. ASSUME NEW c \in Calls PROVE KnowsOK(call'[c], now')
  <2>1. KnowsOK(call[c], now) /\ call[c].at \in Nat
    BY DEF SInv, CallsOK, CallRecords
  <2>2. QED
    BY <1>1, <1>2, <2>1 DEF KnowsOK
<1>9. CallsOK'
  BY <1>1, <1>8 DEF SInv, CallsOK, ToolLoopNotEvicted, Evicting
<1>10. QED
  BY <1>6, <1>7, <1>9 DEF SInv

LEMMA PushSInv == ASSUME SInv, NEW w \in Workers, Push(w) PROVE SInv'
<1>1. /\ pushes' = pushes \cup {BuildSample(slot[w], w)}
      /\ UNCHANGED <<policy, now, clock, rec, workerVars, box, reserve, knock, view, call,
                     tool, seen>>
  BY DEF Push, schedVars
<1>2. BuildSample(slot[w], w) \in Pushes(now)
  <2>1. /\ slot[w] \in OrNone(Sandboxes) /\ lastActive[w] \in Past(now)
        /\ 0 \in Past(now) /\ now \in Past(now)
    BY TimeFacts DEF SInv, MachinesOK
  <2>2. QED
    BY <2>1 DEF BuildSample, Pushes
<1>3. CacheOK'
  BY <1>1, <1>2 DEF SInv, CacheOK, LoopOK
<1>4. QED
  BY <1>1, <1>3, MachinesFrame, CallsFrame DEF SInv

LEMMA LoseSInv == ASSUME SInv, NEW p, Lose(p) PROVE SInv'
<1>1. /\ pushes' \subseteq pushes
      /\ UNCHANGED <<policy, now, clock, rec, workerVars, box, reserve, knock, view, call,
                     tool, seen>>
  BY DEF Lose, schedVars
<1>2. QED
  BY <1>1, CacheFrame, MachinesFrame, CallsFrame DEF SInv

LEMMA ExecSInv == ASSUME SInv, NEW s \in Sandboxes, NEW w \in Workers, Exec(s, w) PROVE SInv'
<1>1. /\ lastActive' = [lastActive EXCEPT ![w] = now]
      /\ UNCHANGED <<policy, now, clock, rec, pushes, slot, ckpting, box, reserve, knock, view,
                     call, tool, seen>>
  BY DEF Exec, signalVars, schedVars
<1>2. now \in Past(now)
  BY TimeFacts DEF SInv
<1>3. MachinesOK'
  BY <1>1, <1>2 DEF SInv, MachinesOK
<1>4. QED
  BY <1>1, <1>3, CacheFrame, CallsFrame DEF SInv

\* Records are purged, and nothing else.
LEMMA PurgeCache ==
    ASSUME CacheOK, rec' = Purged(rec), UNCHANGED <<now, clock, tool>>, pushes' \subseteq pushes
    PROVE  CacheOK'
<1>1. /\ now \in Nat \ {0} /\ TTL \in Nat /\ MaxLag \in Nat
      /\ rec' = [x \in Sandboxes |-> IF now - rec[x].updated > TTL THEN NoRecord ELSE rec[x]]
  BY TimeFacts DEF Purged
<1>2. ASSUME NEW x \in Sandboxes
      PROVE  rec'[x] \in Records(now) /\ AccountOK(rec'[x], now') /\ LoopOK(x)'
  <2>1. /\ AccountOK(rec[x], now) /\ LoopOK(x) /\ rec[x] \in Records(now)
        /\ tool[x] \in Past(now)
    BY DEF CacheOK
  <2>2. CASE ~(now - rec[x].updated > TTL)
    <3>1. rec'[x] = rec[x]
      BY <1>1, <2>2
    <3>2. QED
      BY <2>1, <3>1 DEF LoopOK
  <2>3. CASE now - rec[x].updated > TTL
    <3>1. rec'[x] = NoRecord
      BY <1>1, <2>3
    <3>2. tool[x] \in Nat /\ rec[x].updated \in Nat
      BY <1>1, <2>1, PastFacts, RecordFacts
    <3>3. ~(tool[x] # 0 /\ now - tool[x] <= TTL - MaxLag)
      BY <1>1, <2>1, <2>3, <3>2 DEF LoopOK
    <3>4. LoopOK(x)'
      BY <3>3 DEF LoopOK
    <3>5. QED
      BY <1>1, <3>1, <3>4, NoRecordOK
  <2>4. QED
    BY <2>2, <2>3
<1>3. QED
  BY <1>1, <1>2 DEF CacheOK

LEMMA DeliverSInv == ASSUME SInv, NEW p \in pushes, Deliver(p) PROVE SInv'
<1>1. /\ pushes' \subseteq pushes /\ ApplyPush(p)
      /\ UNCHANGED <<policy, now, clock, workerVars, box, reserve, knock, view, call, tool, seen>>
  BY DEF Deliver, schedVars
<1>2. /\ CacheOK /\ p \in Pushes(now) /\ now \in Nat /\ clock \in Nat
      /\ \A x \in Sandboxes : rec[x] \in Records(now)
  BY TimeFacts DEF SInv, CacheOK
<1>3. CacheOK'
  <2>1. CASE p.id = None
    <3>1. rec' = Purged(rec)
      BY <1>1, <2>1 DEF ApplyPush
    <3>2. QED
      BY <1>1, <1>2, <3>1, PurgeCache
  <2>2. CASE p.id # None
    <3>1. p.id \in Sandboxes
      BY <1>2, <2>2 DEF Pushes, OrNone
    <3> DEFINE s == p.id
               r == Applied(rec[s], p)
               accessed == ~Exists(s) \/ p.active > rec[s].active
               q == IF accessed THEN WithPriority(r) ELSE r
    <3>2. /\ r \in Records(now) /\ SameAccount(rec[s], r)
          /\ r.updated = now /\ r.phase = rec[s].phase /\ r.semantic = rec[s].semantic
      BY <1>2, <3>1, AppliedOK
    <3>3. rec' = Purged([rec EXCEPT ![s] = q])
      BY <1>1, <2>2 DEF ApplyPush
    <3> HIDE DEF r, accessed
    <3>4. /\ WithPriority(r) \in Records(now) /\ SameAccount(r, WithPriority(r))
          /\ WithPriority(r).updated = r.updated /\ WithPriority(r).phase = r.phase
          /\ WithPriority(r).semantic = r.semantic
      BY <1>2, <3>2, WithPriorityOK
    <3>5. /\ q \in Records(now) /\ SameAccount(rec[s], q) /\ q.updated = now
          /\ q.phase = rec[s].phase /\ q.semantic = rec[s].semantic
      BY <3>2, <3>4 DEF SameAccount
    <3> HIDE DEF q, s
    <3>6. Touches(s, q) /\ s \in Sandboxes
      BY <3>1, <3>3, <3>5 DEF Touches, s
    <3>7. QED
      BY <1>1, <1>2, <3>5, <3>6, TouchCache
  <2>3. QED
    BY <2>1, <2>2
<1>4. QED
  BY <1>1, <1>3, MachinesFrame, CallsFrame DEF SInv

\* The record after a heartbeat.
Beaten(r, phase, lock) ==
    [Touched(r) EXCEPT !.phase = IF phase = "" THEN r.phase ELSE phase, !.lock = lock, !.semantic = now]

LEMMA BeatenTouches ==
    ASSUME CacheOK, NEW s \in Sandboxes, NEW phase \in {"", "tool_loop", "idle"},
           NEW lock \in BOOLEAN, ApplySemantic(s, phase, lock)
    PROVE  /\ Touches(s, Beaten(rec[s], phase, lock))
           /\ Beaten(rec[s], phase, lock).phase = IF phase = "" THEN rec[s].phase ELSE phase
           /\ Beaten(rec[s], phase, lock).semantic = now
<1> DEFINE q == Beaten(rec[s], phase, lock)
<1>1. rec[s] \in Records(now) /\ now \in Past(now) /\ DOMAIN rec = Sandboxes
  BY TimeFacts DEF CacheOK
<1>2. /\ q \in Records(now) /\ SameAccount(rec[s], q) /\ q.updated = now
      /\ q.phase = (IF phase = "" THEN rec[s].phase ELSE phase) /\ q.semantic = now
  BY <1>1 DEF Beaten, Touched, Records, SameAccount
<1>3. rec' = Purged([rec EXCEPT ![s] = q])
  BY <1>1 DEF ApplySemantic, Beaten
<1>4. QED
  BY <1>2, <1>3 DEF Touches

LEMMA HeartbeatSInv == ASSUME SInv, NEW s \in Sandboxes, Heartbeat(s) PROVE SInv'
<1>1. UNCHANGED <<policy, now, clock, pushes, workerVars, box, reserve, knock, view, call, seen>>
  BY DEF Heartbeat, schedVars
<1>2. PICK phase \in {"", "tool_loop", "idle"}, lock \in BOOLEAN :
         /\ ApplySemantic(s, phase, lock)
         /\ \/ phase = "tool_loop" /\ tool' = [tool EXCEPT ![s] = now]
            \/ phase = "idle" /\ tool' = [tool EXCEPT ![s] = 0]
            \/ phase = "" /\ UNCHANGED tool
  BY DEF Heartbeat
<1>3. /\ CacheOK /\ now \in Nat \ {0} /\ TTL \in Nat /\ MaxLag \in Nat
      /\ 0 \in Past(now) /\ now \in Past(now)
  BY TimeFacts DEF SInv
<1> DEFINE q == Beaten(rec[s], phase, lock)
<1>4. /\ Touches(s, q) /\ q.semantic = now
      /\ q.phase = IF phase = "" THEN rec[s].phase ELSE phase
  BY <1>2, <1>3, BeatenTouches
<1> HIDE DEF q
<1>5. rec' \in [Sandboxes -> Records(now)] /\ rec'[s] = q /\ q.updated = now
  BY <1>3, <1>4, TouchLeaves DEF Touches
<1>6. \A x \in Sandboxes : AccountOK(rec'[x], now)
  BY <1>3, <1>4, TouchAccounts
<1>7. ASSUME NEW x \in Sandboxes PROVE LoopOK(x)'
  <2>1. CASE x # s
    <3>1. tool'[x] = tool[x]
      BY <1>2, <1>3, <2>1 DEF CacheOK
    <3>2. QED
      BY <1>1, <1>3, <1>4, <2>1, <3>1, TouchLoops
  <2>2. CASE x = s /\ phase = ""
    <3>1. q.phase = rec[s].phase /\ tool'[x] = tool[x]
      BY <1>2, <1>4, <2>2
    <3>2. QED
      BY <1>1, <1>3, <1>4, <2>2, <3>1, TouchLoops
  <2>3. CASE x = s /\ phase = "tool_loop"
    <3>1. tool'[s] = now /\ q.phase = "tool_loop"
      BY <1>2, <1>3, <1>4, <2>3 DEF CacheOK
    <3>2. QED
      BY <1>1, <1>3, <1>4, <1>5, <2>3, <3>1 DEF LoopOK
  <2>4. CASE x = s /\ phase = "idle"
    <3>1. tool'[s] = 0
      BY <1>2, <1>3, <2>4 DEF CacheOK
    <3>2. QED
      BY <2>4, <3>1 DEF LoopOK
  <2>5. QED
    BY <1>2, <2>1, <2>2, <2>3, <2>4
<1>8. tool' \in [Sandboxes -> Past(now)]
  BY <1>2, <1>3 DEF CacheOK
<1>9. CacheOK'
  BY <1>1, <1>3, <1>5, <1>6, <1>7, <1>8 DEF CacheOK
<1>10. QED
  BY <1>1, <1>9, MachinesFrame, CallsFrame DEF SInv

-----------------------------------------------------------------------------
(* What the steps of a call have in common                                 *)

\* A call r is evicting; what knockMu's holder has seen allows it.
Evicts(r) == r.s # None /\ r.pc \in {"evict", "fetch", "ckpt", "dump", "save"}

SeenOK == policy = "semantic-score" => seen.said = 0 \/ seen.at - seen.said > TTL - MaxLag

\* One call goes on to q; another's hold on knockMu is left alone.
LEMMA CallMoves ==
    ASSUME CallsOK, NEW c \in Calls, NEW q \in CallRecords, KnowsOK(q, now),
           call' = [call EXCEPT ![c] = q], UNCHANGED <<policy, now>>,
           knock' \in OrNone(Calls), view' \in Views, seen' \in Sightings,
           knock \in {None, c} \/ UNCHANGED <<knock, seen>>,
           Holds(q) => knock' = c, Evicts(q) => SeenOK'
    PROVE  CallsOK'
<1>1. /\ call'[c] = q /\ call' \in [Calls -> CallRecords]
      /\ \A d \in Calls \ {c} : call'[d] = call[d]
  BY DEF CallsOK
<1>2. None \notin Calls
  BY SignalAssumption
<1>3. \A d \in Calls : KnowsOK(call'[d], now')
  BY <1>1 DEF CallsOK
<1>4. \A d \in Calls : Holds(call'[d]) => knock' = d
  BY <1>1, <1>2 DEF CallsOK
<1>5. ASSUME NEW d \in Calls, Evicting(d)', policy' = "semantic-score"
      PROVE  seen'.said = 0 \/ seen'.at - seen'.said > TTL - MaxLag
  <2>1. CASE d = c
    <3>1. Evicts(q)
      BY <1>1, <1>5, <2>1 DEF Evicting, Evicts
    <3>2. QED
      BY <1>5, <3>1 DEF SeenOK
  <2>2. CASE d # c
    <3>1. Evicting(d)
      BY <1>1, <1>5, <2>2 DEF Evicting
    <3>2. Holds(call[d])
      BY <3>1 DEF Evicting, Holds
    <3>3. seen' = seen
      BY <1>2, <2>2, <3>2 DEF CallsOK
    <3>4. QED
      BY <1>5, <3>1, <3>3 DEF CallsOK, ToolLoopNotEvicted
  <2>3. QED
    BY <2>1, <2>2
<1>6. QED
  BY <1>1, <1>3, <1>4, <1>5 DEF CallsOK, ToolLoopNotEvicted

LEMMA CallFacts ==
    ASSUME CallsOK, NEW c \in Calls
    PROVE  /\ call[c] \in CallRecords /\ KnowsOK(call[c], now)
           /\ Holds(call[c]) => knock = c
           /\ Evicts(call[c]) => SeenOK
BY DEF CallsOK, ToolLoopNotEvicted, Evicting, Evicts, SeenOK

\* It neither takes knockMu nor lets it go.
LEMMA CallGoesOn ==
    ASSUME CallsOK, NEW c \in Calls, NEW q \in CallRecords, KnowsOK(q, now),
           call' = [call EXCEPT ![c] = q], UNCHANGED <<policy, now, knock, seen>>,
           view' \in Views, Holds(q) => Holds(call[c]), Evicts(q) => Evicts(call[c])
    PROVE  CallsOK'
<1>1. knock \in OrNone(Calls) /\ seen \in Sightings
  BY DEF CallsOK
<1>2. Evicts(q) => SeenOK'
  BY CallFacts DEF SeenOK
<1>3. QED
  BY <1>1, <1>2, CallFacts, CallMoves

LEMMA NothingHeld ==
    /\ NoCall \in CallRecords /\ NoView \in Views /\ NothingSeen \in Sightings
    /\ \A t : KnowsOK(NoCall, t)
    /\ ~Holds(NoCall) /\ ~Evicts(NoCall)
<1>1. Deleted \in Boxes
  BY DEF Deleted, Boxes, States, OrNone
<1>2. NoCopy \in Copies
  BY DEF NoCopy, Copies, OrNone, States
<1>3. NoCall \in CallRecords
  BY <1>2 DEF NoCall, CallRecords, Steps, OrNone
<1>4. NoCall.pc = "none"
  BY DEF NoCall
<1>5. NoView \in Views /\ NothingSeen \in Sightings
  BY <1>1 DEF NoView, Views, NothingSeen, Sightings
<1>6. QED
  BY <1>3, <1>4, <1>5 DEF KnowsOK, Holds, Evicts

\* It lets knockMu go, if it holds it.
LEMMA CallUnlocks ==
    ASSUME CallsOK, NEW c \in Calls, NEW q \in CallRecords, KnowsOK(q, now), ~Holds(q),
           call' = [call EXCEPT ![c] = q], UNCHANGED <<policy, now>>, Unlock(c)
    PROVE  CallsOK'
<1>1. knock \in OrNone(Calls) /\ seen \in Sightings /\ view \in Views
  BY DEF CallsOK
<1>2. /\ knock' \in OrNone(Calls) /\ seen' \in Sightings /\ view' \in Views
      /\ knock \in {None, c} \/ UNCHANGED <<knock, seen>>
  BY <1>1, NothingHeld DEF Unlock, OrNone
<1>3. ~Evicts(q)
  BY DEF Holds, Evicts
<1>4. QED
  BY <1>2, <1>3, CallMoves

LEMMA CallReturns ==
    ASSUME CallsOK, NEW c \in Calls, Return(c), UNCHANGED <<policy, now>>
    PROVE  CallsOK'
BY NothingHeld, CallUnlocks DEF Return

\* It takes the next step pc.
LEMMA CallSteps ==
    ASSUME CallsOK, NEW c \in Calls, NEW pc \in Steps, Goto(c, pc),
           UNCHANGED <<policy, now, knock, seen>>, view' \in Views,
           KnowsOK([call[c] EXCEPT !.pc = pc], now),
           Holds([call[c] EXCEPT !.pc = pc]) => Holds(call[c]),
           Evicts([call[c] EXCEPT !.pc = pc]) => Evicts(call[c])
    PROVE  CallsOK'
<1>1. PICK q : q = [call[c] EXCEPT !.pc = pc]
  OBVIOUS
<1>2. call' = [call EXCEPT ![c] = q]
  BY <1>1 DEF Goto
<1>3. q \in CallRecords
  BY <1>1, CallFacts DEF CallRecords
<1>4. QED
  BY <1>1, <1>2, <1>3, CallGoesOn

LEMMA CopyOK == ASSUME MachinesOK, NEW s \in Sandboxes PROVE Copy(s) \in Copies
<1>1. box[s] \in Boxes
  BY DEF MachinesOK
<1>2. box[s].state \in States /\ box[s].host \in OrNone(Workers) /\ box[s].snap \in BOOLEAN
  BY <1>1 DEF Boxes
<1>3. QED
  BY <1>2 DEF Copy, Copies

LEMMA ClearedOK ==
    ASSUME MachinesOK, NEW w, NEW s
    PROVE  Cleared(w, s) \in [Workers -> OrNone(Sandboxes)]
BY DEF MachinesOK, Cleared, OrNone

-----------------------------------------------------------------------------
(* Resume: what it reads under knockMu                                     *)

LEMMA CallResumeSInv ==
    ASSUME SInv, NEW c \in Calls, NEW s \in Sandboxes, CallResume(c, s) PROVE SInv'
<1>1. UNCHANGED <<policy, now, clock, rec, pushes, workerVars, box, reserve, knock, view, tool, seen>>
  BY DEF CallResume, signalVars
<1>2. PICK q : q = [NoCall EXCEPT !.pc = "wait", !.s = s, !.sb = Copy(s)]
  OBVIOUS
<1>3. call' = [call EXCEPT ![c] = q]
  BY <1>2 DEF CallResume
<1>4. Copy(s) \in Copies /\ s # None
  BY CopyOK, SignalAssumption DEF SInv
<1>5. q \in CallRecords
  BY <1>2, <1>4, NothingHeld DEF CallRecords, Steps, OrNone
<1>6. q.pc = "wait" /\ q.s = s
  BY <1>2 DEF NoCall
<1>7. KnowsOK(q, now) /\ ~Holds(q) /\ ~Evicts(q)
  BY <1>4, <1>6 DEF KnowsOK, Holds, Evicts
<1>8. view' \in Views
  BY <1>1 DEF SInv, CallsOK
<1>9. CallsOK'
  BY <1>1, <1>3, <1>5, <1>7, <1>8, CallGoesOn DEF SInv
<1>10. QED
  BY <1>1, <1>9, CacheFrame, MachinesFrame DEF SInv

LEMMA GiveUpSInv == ASSUME SInv, NEW c \in Calls, GiveUp(c) PROVE SInv'
<1>1. /\ UNCHANGED <<policy, now, clock, rec, pushes, workerVars, box, reserve, knock, view, tool, seen>>
      /\ call' = [call EXCEPT ![c] = NoCall]
  BY DEF GiveUp, signalVars
<1>2. view' \in Views
  BY <1>1 DEF SInv, CallsOK
<1>3. CallsOK'
  BY <1>1, <1>2, NothingHeld, CallGoesOn DEF SInv
<1>4. QED
  BY <1>1, <1>3, CacheFrame, MachinesFrame DEF SInv

LEMMA LockSInv == ASSUME SInv, NEW c \in Calls, Lock(c) PROVE SInv'
<1>1. /\ UNCHANGED <<policy, now, clock, rec, pushes, workerVars, box, reserve, tool, seen>>
      /\ call[c].pc = "wait" /\ knock = None /\ knock' = c
      /\ view' = [NoView EXCEPT !.left = Workers]
  BY DEF Lock, signalVars
<1>2. PICK r, s : r = call[c] /\ s = call[c].s
  OBVIOUS
<1>3. r \in CallRecords /\ KnowsOK(r, now) /\ s \in Sandboxes
  <2>1. r \in CallRecords /\ KnowsOK(r, now)
    BY <1>2, CallFacts DEF SInv
  <2>2. r.s # None /\ r.s \in OrNone(Sandboxes)
    BY <1>1, <1>2, <2>1 DEF KnowsOK, CallRecords
  <2>3. QED
    BY <1>2, <2>1, <2>2 DEF OrNone
<1>4. PICK b : b = IF box[s].state = "gone" THEN r.sb ELSE Copy(s)
  OBVIOUS
<1>5. b \in Copies
  BY <1>3, <1>4, CopyOK DEF SInv, CallRecords
<1>6. PICK q : q = [r EXCEPT !.pc = "probe", !.sb = b]
  OBVIOUS
<1>7. call' = [call EXCEPT ![c] = q]
  <2>1. call' = [call EXCEPT ![c].pc = "probe", ![c].sb = b]
    BY <1>2, <1>4 DEF Lock
  <2>2. DOMAIN call = Calls
    BY DEF SInv, CallsOK
  <2>3. QED
    BY <1>2, <1>6, <2>1, <2>2
<1>8. q \in CallRecords /\ q.pc = "probe" /\ q.s = s
  BY <1>2, <1>3, <1>5, <1>6 DEF CallRecords, Steps
<1>9. KnowsOK(q, now) /\ ~Evicts(q)
  BY <1>3, <1>8, SignalAssumption DEF KnowsOK, Evicts
<1>10. view' \in Views /\ knock' \in OrNone(Calls) /\ seen' \in Sightings
  BY <1>1, NothingHeld DEF Views, OrNone, SInv, CallsOK
<1>11. CallsOK'
  BY <1>1, <1>7, <1>8, <1>9, <1>10, CallMoves DEF SInv
<1>12. QED
  BY <1>1, <1>11, CacheFrame, MachinesFrame DEF SInv

LEMMA ProbeSInv == ASSUME SInv, NEW c \in Calls, NEW w \in Workers, Probe(c, w) PROVE SInv'
<1>1. UNCHANGED <<policy, now, clock, rec, pushes, workerVars, box, reserve, knock, call, tool, seen>>
  BY DEF Probe, signalVars
<1>2. view' \in Views
  <2>1. view \in Views
    BY DEF SInv, CallsOK
  <2>2. CASE view' = [view EXCEPT !.left = view.left \ {w}]
    BY <2>1, <2>2 DEF Views
  <2>3. CASE view' = [view EXCEPT !.left = view.left \ {w}, !.up = view.up \cup {w},
                                  !.free = view.free \cup {x \in {w} : slot[x] = None}]
    BY <2>1, <2>3 DEF Views
  <2>4. QED
    BY <2>2, <2>3 DEF Probe
<1>3. CallsOK'
  BY <1>1, <1>2 DEF SInv, CallsOK, ToolLoopNotEvicted, Evicting
<1>4. QED
  BY <1>1, <1>3, CacheFrame, MachinesFrame DEF SInv

LEMMA ReadReservesSInv == ASSUME SInv, NEW c \in Calls, ReadReserves(c) PROVE SInv'
<1>1. /\ UNCHANGED <<policy, now, clock, rec, pushes, workerVars, box, reserve, knock, tool, seen>>
      /\ call[c].pc = "probe" /\ Goto(c, "list")
      /\ view' = [view EXCEPT !.free = {w \in view.free : reserve[w] \in {None, call[c].s}}]
  BY DEF ReadReserves, signalVars
<1>2. call[c] \in CallRecords /\ KnowsOK(call[c], now) /\ Holds(call[c])
  BY <1>1, CallFacts DEF SInv, Holds
<1>3. PICK q : q = [call[c] EXCEPT !.pc = "list"]
  OBVIOUS
<1>4. q.pc = "list" /\ q.s = call[c].s
  BY <1>2, <1>3 DEF CallRecords
<1>5. KnowsOK(q, now) /\ ~Evicts(q)
  BY <1>1, <1>2, <1>4 DEF KnowsOK, Evicts
<1>6. view' \in Views
  BY <1>1 DEF SInv, CallsOK, Views
<1>7. CallsOK'
  BY <1>1, <1>2, <1>3, <1>5, <1>6, CallSteps DEF SInv, Steps
<1>8. QED
  BY <1>1, <1>7, CacheFrame, MachinesFrame DEF SInv

LEMMA ReadRunningSInv == ASSUME SInv, NEW c \in Calls, ReadRunning(c) PROVE SInv'
<1>1. /\ UNCHANGED <<policy, now, clock, rec, pushes, workerVars, box, reserve, knock, tool, seen>>
      /\ call[c].pc = "list" /\ Goto(c, "decide")
      /\ view' = [view EXCEPT !.box = box]
  BY DEF ReadRunning, signalVars
<1>2. call[c] \in CallRecords /\ KnowsOK(call[c], now) /\ Holds(call[c])
  BY <1>1, CallFacts DEF SInv, Holds
<1>3. PICK q : q = [call[c] EXCEPT !.pc = "decide"]
  OBVIOUS
<1>4. q.pc = "decide" /\ q.s = call[c].s
  BY <1>2, <1>3 DEF CallRecords
<1>5. KnowsOK(q, now) /\ ~Evicts(q)
  BY <1>1, <1>2, <1>4 DEF KnowsOK, Evicts
<1>6. view' \in Views
  BY <1>1 DEF SInv, CallsOK, MachinesOK, Views
<1>7. CallsOK'
  BY <1>1, <1>2, <1>3, <1>5, <1>6, CallSteps DEF SInv, Steps
<1>8. QED
  BY <1>1, <1>7, CacheFrame, MachinesFrame DEF SInv

-----------------------------------------------------------------------------
(* The decision                                                            *)

\* Every policy picks a running sandbox; semantic-score one that is not locked.
LEMMA VictimsRun ==
    ASSUME NEW pol \in PolicyNames, NEW v
    PROVE  /\ PickVictim(pol, v) \subseteq v.running
           /\ pol = "semantic-score" => PickVictim(pol, v) \cap v.locked = {}
<1>1. PickOldest(v) \subseteq v.running
  BY DEF PickOldest, Leading
<1>2. PickLRUVictim(v) \subseteq v.running
  BY DEF PickLRUVictim, Leading
<1>3. PickGDSVictim(v) \subseteq v.running
  BY DEF PickGDSVictim, Leading
<1>4. PickSemanticVictim(v) \subseteq v.running /\ PickSemanticVictim(v) \cap v.locked = {}
  BY DEF PickSemanticVictim
<1>5. CASE pol = "random"
  BY <1>5 DEF PickVictim
<1>6. CASE pol = "fifo"
  BY <1>1, <1>6 DEF PickVictim
<1>7. CASE pol = "lru-idle"
  BY <1>2, <1>7 DEF PickVictim
<1>8. CASE pol = "resource-evict"
  BY <1>3, <1>8 DEF PickVictim
<1>9. CASE pol = "semantic-score"
  BY <1>4, <1>9 DEF PickVictim
<1>10. QED
  BY <1>5, <1>6, <1>7, <1>8, <1>9 DEF PolicyNames

\* A policy answers an idle Worker, or a victim and its Worker when none is idle.
LEMMA PolicyAnswers ==
    ASSUME NEW pol \in PolicyNames, NEW v, NEW home, NEW p \in Resume(pol, v, home)
    PROVE  \/ p.victim = NoVictim /\ p.worker \in IdleWorkers(v)
           \/ /\ IdleWorkers(v) = {} /\ p.victim \in PickVictim(pol, v)
              /\ p.worker = v.host[p.victim]
<1>1. CASE TryStickyResume(v, home) # {}
  <2>1. home \in IdleWorkers(v)
    BY <1>1 DEF TryStickyResume
  <2>2. QED
    BY <1>1, <2>1 DEF Resume
<1>2. CASE TryStickyResume(v, home) = {} /\ IdleWorkers(v) # {}
  BY <1>2 DEF Resume, Place
<1>3. CASE TryStickyResume(v, home) = {} /\ IdleWorkers(v) = {}
  BY <1>3 DEF Resume, Place
<1>4. QED
  BY <1>1, <1>2, <1>3

\* A decision gives a Worker that was free, or a sandbox that was running and, under
\* semantic-score, is not locked now.
LEMMA AnswerFacts ==
    ASSUME CallsOK, NEW c \in Calls, NEW p \in Answers(c)
    PROVE  /\ p.worker \in Workers
           /\ p.victim # NoVictim =>
                 /\ p.victim \in Sandboxes
                 /\ policy = "semantic-score" => ~SemanticLocked(p.victim)
<1>1. policy \in PolicyNames /\ view \in Views
  BY SignalAssumption DEF CallsOK
<1>2. PICK exists \in BOOLEAN, first \in Firsts :
         p \in Resume(policy, ViewFor(call[c].sb, exists, first), call[c].sb.host)
  BY DEF Answers
<1>3. PICK v : v = ViewFor(call[c].sb, exists, first)
  OBVIOUS
<1>4. /\ v.free \subseteq view.free
      /\ v.running \subseteq {x \in Sandboxes : view.box[x].state = "running"}
      /\ \A x \in Sandboxes : v.host[x] = view.box[x].host
      /\ v.locked = {x \in v.running : SemanticLocked(x)}
  BY <1>3 DEF ViewFor
<1>5. view.free \subseteq Workers /\ view.box \in [Sandboxes -> Boxes]
  BY <1>1 DEF Views
<1>6. \/ p.victim = NoVictim /\ p.worker \in IdleWorkers(v)
      \/ p.victim \in PickVictim(policy, v) /\ p.worker = v.host[p.victim]
  BY <1>1, <1>2, <1>3, PolicyAnswers
<1>7. CASE p.victim = NoVictim /\ p.worker \in IdleWorkers(v)
  BY <1>4, <1>5, <1>7 DEF IdleWorkers, WorkerEligibleForPlace
<1>8. CASE p.victim \in PickVictim(policy, v) /\ p.worker = v.host[p.victim]
  <2>1. /\ p.victim \in v.running
        /\ policy = "semantic-score" => ~SemanticLocked(p.victim)
    BY <1>1, <1>4, <1>8, VictimsRun
  <2>2. view.box[p.victim] \in Boxes /\ view.box[p.victim].state = "running"
    BY <1>4, <1>5, <2>1
  <2>3. p.worker \in Workers
    BY <1>4, <1>8, <2>1, <2>2 DEF Boxes
  <2>4. QED
    BY <1>4, <2>1, <2>3
<1>9. QED
  BY <1>6, <1>7, <1>8

\* What is not locked has not said for a TTL, less the age of a late mark, that it is in
\* its tool loop.
LEMMA UnlockedHasNotSaid ==
    ASSUME CacheOK, NEW s \in Sandboxes, ~SemanticLocked(s)
    PROVE  tool[s] = 0 \/ now - tool[s] > TTL - MaxLag
<1>1. /\ now \in Nat \ {0} /\ TTL \in Nat /\ MaxLag \in Nat
      /\ LoopOK(s) /\ rec[s] \in Records(now) /\ tool[s] \in Past(now)
  BY TimeFacts DEF CacheOK
<1>2. tool[s] \in Nat /\ rec[s].updated \in Nat /\ rec[s].semantic \in Nat
  BY <1>1, PastFacts, RecordFacts
<1>3. SUFFICES ASSUME tool[s] # 0, now - tool[s] <= TTL - MaxLag PROVE FALSE
  BY <1>1, <1>2
<1>4. /\ rec[s].phase = "tool_loop" /\ rec[s].updated # 0
      /\ rec[s].updated >= tool[s] - MaxLag /\ rec[s].semantic >= tool[s]
  BY <1>1, <1>3 DEF LoopOK
<1>5. now - rec[s].updated <= TTL /\ now - rec[s].semantic <= TTL
  BY <1>1, <1>2, <1>3, <1>4
<1>6. QED
  BY <1>4, <1>5 DEF SemanticLocked, SemanticFresh, Fresh, Exists

LEMMA KeptOK == ASSUME NEW b \in Copies PROVE Kept(b) \in Copies
BY DEF Kept, NoCopy, Copies, OrNone, States

\* A call is admitted to a Worker.
LEMMA AdmitOK ==
    ASSUME CallsOK, MachinesOK, NEW c \in Calls, NEW w \in Workers, Admit(c, w),
           call[c].s \in Sandboxes, UNCHANGED <<policy, now, workerVars, box>>
    PROVE  CallsOK' /\ MachinesOK'
<1>1. PICK s, b : s = call[c].s /\ b = Kept(call[c].sb)
  OBVIOUS
<1>2. b \in Copies
  BY <1>1, CallFacts, KeptOK DEF CallRecords
<1>3. PICK q : q = [NoCall EXCEPT !.pc = "restore", !.s = s, !.sb = b, !.w = w]
  OBVIOUS
<1>4. call' = [call EXCEPT ![c] = q] /\ Unlock(c) /\ reserve' = [reserve EXCEPT ![w] = s]
  BY <1>1, <1>3 DEF Admit
<1>5. q \in CallRecords
  BY <1>1, <1>2, <1>3, NothingHeld DEF CallRecords, Steps, OrNone
<1>6. q.pc = "restore" /\ q.s = s /\ q.w = w
  BY <1>3 DEF NoCall
<1>7. KnowsOK(q, now) /\ ~Holds(q)
  BY <1>1, <1>6, SignalAssumption DEF KnowsOK, Holds
<1>8. CallsOK'
  BY <1>4, <1>5, <1>7, CallUnlocks
<1>9. MachinesOK'
  BY <1>1, <1>4 DEF MachinesOK, OrNone, workerVars
<1>10. QED
  BY <1>8, <1>9

LEMMA DecideSInv == ASSUME SInv, NEW c \in Calls, Decide(c) PROVE SInv'
<1>1. /\ UNCHANGED <<policy, now, clock, rec, pushes, workerVars, box, tool>>
      /\ call[c].pc = "decide"
  BY DEF Decide, signalVars
<1>2. PICK r : r = call[c]
  OBVIOUS
<1>3. /\ r \in CallRecords /\ KnowsOK(r, now) /\ knock = c /\ r.s \in Sandboxes
  <2>1. r \in CallRecords /\ KnowsOK(r, now) /\ (Holds(r) => knock = c)
    BY <1>2, CallFacts DEF SInv
  <2>2. Holds(r) /\ r.s # None
    BY <1>1, <1>2, <2>1 DEF KnowsOK, Holds
  <2>3. QED
    BY <2>1, <2>2 DEF CallRecords, OrNone
<1>4. ASSUME Return(c), UNCHANGED reserve PROVE CallsOK' /\ MachinesOK'
  BY <1>1, <1>4, CallReturns, MachinesFrame DEF SInv
<1>5. ASSUME NEW p \in Answers(c), p.victim = NoVictim, Admit(c, p.worker)
      PROVE  CallsOK' /\ MachinesOK'
  BY <1>1, <1>2, <1>3, <1>5, AnswerFacts, AdmitOK DEF SInv
<1>6. ASSUME NEW p \in Answers(c), p.victim # NoVictim,
             call' = [call EXCEPT ![c].pc = "evict", ![c].w = p.worker, ![c].v = p.victim,
                                  ![c].upload = TRUE, ![c].sb = Kept(@)],
             view' = NoView, seen' = [at |-> now, said |-> tool[p.victim]],
             UNCHANGED <<reserve, knock>>
      PROVE  CallsOK' /\ MachinesOK'
  <2>1. PICK w, v, b : w = p.worker /\ v = p.victim /\ b = Kept(r.sb)
    OBVIOUS
  <2>2. /\ w \in Workers /\ v \in Sandboxes
        /\ policy = "semantic-score" => ~SemanticLocked(v)
    BY <1>6, <2>1, AnswerFacts DEF SInv
  <2>3. b \in Copies
    BY <1>3, <2>1, KeptOK DEF CallRecords
  <2>4. PICK q : q = [r EXCEPT !.pc = "evict", !.w = w, !.v = v, !.upload = TRUE, !.sb = b]
    OBVIOUS
  <2>5. call' = [call EXCEPT ![c] = q]
    <3>1. DOMAIN call = Calls
      BY DEF SInv, CallsOK
    <3>2. QED
      BY <1>2, <1>6, <2>1, <2>4, <3>1
  <2>6. q \in CallRecords
    BY <1>3, <2>2, <2>3, <2>4 DEF CallRecords, Steps, OrNone
  <2>7. q.pc = "evict" /\ q.w = w /\ q.v = v
    BY <1>3, <2>4 DEF CallRecords
  <2>8. KnowsOK(q, now)
    BY <2>2, <2>7, SignalAssumption DEF KnowsOK
  <2>9. now \in Nat /\ tool[v] \in Nat
    <3>1. CacheOK /\ tool[v] \in Past(now)
      BY <2>2 DEF SInv, CacheOK
    <3>2. QED
      BY <3>1, TimeFacts, PastFacts
  <2>10. /\ seen' \in Sightings /\ view' \in Views /\ knock' \in OrNone(Calls)
         /\ seen'.at = now /\ seen'.said = tool[v]
    BY <1>3, <1>6, <2>1, <2>9, NothingHeld DEF Sightings, OrNone
  <2>11. SeenOK'
    <3>1. policy = "semantic-score" => tool[v] = 0 \/ now - tool[v] > TTL - MaxLag
      BY <2>2, UnlockedHasNotSaid DEF SInv
    <3>2. QED
      BY <1>1, <2>10, <3>1 DEF SeenOK
  <2>12. CallsOK'
    BY <1>1, <1>3, <1>6, <2>5, <2>6, <2>8, <2>10, <2>11, CallMoves DEF SInv
  <2>13. QED
    BY <1>1, <1>6, <2>12, MachinesFrame DEF SInv
<1>7. ASSUME Goto(c, "wait"), Unlock(c), UNCHANGED reserve PROVE CallsOK' /\ MachinesOK'
  <2>1. PICK q : q = [r EXCEPT !.pc = "wait"]
    OBVIOUS
  <2>2. call' = [call EXCEPT ![c] = q]
    BY <1>2, <1>7, <2>1 DEF Goto
  <2>3. q \in CallRecords /\ q.pc = "wait" /\ q.s = r.s
    BY <1>3, <2>1 DEF CallRecords, Steps
  <2>4. KnowsOK(q, now) /\ ~Holds(q)
    BY <1>3, <2>3, SignalAssumption DEF KnowsOK, Holds
  <2>5. CallsOK'
    BY <1>1, <1>7, <2>2, <2>3, <2>4, CallUnlocks DEF SInv
  <2>6. QED
    BY <1>1, <1>7, <2>5, MachinesFrame DEF SInv
<1>8. CallsOK' /\ MachinesOK'
  <2>1. \/ Return(c) /\ UNCHANGED reserve
        \/ \E p \in Answers(c) : p.victim = NoVictim /\ Admit(c, p.worker)
        \/ \E p \in Answers(c) :
              /\ p.victim # NoVictim
              /\ call' = [call EXCEPT ![c].pc = "evict", ![c].w = p.worker, ![c].v = p.victim,
                                      ![c].upload = TRUE, ![c].sb = Kept(@)]
              /\ view' = NoView /\ seen' = [at |-> now, said |-> tool[p.victim]]
              /\ UNCHANGED <<reserve, knock>>
        \/ Goto(c, "wait") /\ Unlock(c) /\ UNCHANGED reserve
    BY DEF Decide
  <2>2. QED
    BY <1>4, <1>5, <1>6, <1>7, <2>1
<1>9. QED
  BY <1>1, <1>8, CacheFrame DEF SInv

LEMMA EvictSInv == ASSUME SInv, NEW c \in Calls, Evict(c) PROVE SInv'
<1>1. /\ UNCHANGED <<policy, now, rec, pushes, workerVars, box, reserve, knock, view, tool, seen>>
      /\ call[c].pc = "evict" /\ Goto(c, "fetch") /\ OnEvict(call[c].v)
  BY DEF Evict
<1>2. call[c] \in CallRecords /\ KnowsOK(call[c], now) /\ Holds(call[c])
  BY <1>1, CallFacts DEF SInv, Holds
<1>3. call[c].v \in Sandboxes
  BY <1>1, <1>2 DEF KnowsOK, CallRecords, OrNone
<1>4. clock' \in Nat
  <2>1. rec[call[c].v] \in Records(now) /\ clock \in Nat
    BY <1>3 DEF SInv, CacheOK
  <2>2. rec[call[c].v].H \in Nat
    BY <2>1 DEF Records
  <2>3. QED
    BY <1>1, <2>1, <2>2 DEF OnEvict
<1>5. CacheOK'
  BY <1>1, <1>4 DEF SInv, CacheOK, LoopOK
<1>6. PICK q : q = [call[c] EXCEPT !.pc = "fetch"]
  OBVIOUS
<1>7. q.pc = "fetch" /\ q.s = call[c].s /\ q.v = call[c].v /\ q.w = call[c].w
  BY <1>2, <1>6 DEF CallRecords
<1>8. KnowsOK(q, now) /\ (Evicts(q) => Evicts(call[c]))
  BY <1>1, <1>2, <1>7 DEF KnowsOK, Evicts
<1>9. view' \in Views
  BY <1>1 DEF SInv, CallsOK
<1>10. CallsOK'
  BY <1>1, <1>2, <1>6, <1>8, <1>9, CallSteps DEF SInv, Steps
<1>11. QED
  BY <1>1, <1>5, <1>10, MachinesFrame DEF SInv

-----------------------------------------------------------------------------
(* Resume: the Restore                                                     *)

\* What a call at each of these steps knows.
LEMMA RestoreKnows ==
    ASSUME CallsOK, NEW c \in Calls, call[c].pc \in {"restore", "put", "mark"}
    PROVE  /\ call[c] \in CallRecords /\ call[c].s \in Sandboxes /\ ~Holds(call[c])
           /\ call[c].pc # "mark" => call[c].w \in Workers
           /\ call[c].pc = "mark" => call[c].at \in 1 .. now /\ now - call[c].at <= MaxLag
<1>1. call[c] \in CallRecords /\ KnowsOK(call[c], now)
  BY CallFacts
<1>2. call[c].s \in OrNone(Sandboxes) /\ call[c].w \in OrNone(Workers)
  BY <1>1 DEF CallRecords
<1>3. QED
  BY <1>1, <1>2 DEF KnowsOK, Holds, OrNone

LEMMA RestoredSInv == ASSUME SInv, NEW c \in Calls, Restored(c) PROVE SInv'
<1>1. UNCHANGED <<policy, now, clock, rec, pushes, box, tool>> /\ call[c].pc = "restore"
  BY DEF Restored, signalVars
<1>2. PICK w, s : w = call[c].w /\ s = call[c].s
  OBVIOUS
<1>3. call[c] \in CallRecords /\ s \in Sandboxes /\ w \in Workers /\ ~Holds(call[c])
  BY <1>1, <1>2, RestoreKnows DEF SInv
<1>4. now \in Past(now) /\ 0 \in Past(now)
  BY TimeFacts DEF SInv
<1>5. /\ Cleared(w, s) \in [Workers -> OrNone(Sandboxes)]
      /\ ckpting \ {<<w, s>>} \subseteq Workers \X Sandboxes
  BY ClearedOK DEF SInv, MachinesOK
<1>6. ASSUME slot' = [slot EXCEPT ![w] = s], lastActive' = [lastActive EXCEPT ![w] = now],
             Goto(c, "put"), UNCHANGED <<ckpting, reserve, knock, view, seen>>
      PROVE  CallsOK' /\ MachinesOK'
  <2>1. PICK q : q = [call[c] EXCEPT !.pc = "put"]
    OBVIOUS
  <2>2. q.pc = "put" /\ q.s = s /\ q.w = w
    BY <1>2, <1>3, <2>1 DEF CallRecords
  <2>3. KnowsOK(q, now) /\ ~Holds(q) /\ ~Evicts(q)
    BY <1>3, <2>2, SignalAssumption DEF KnowsOK, Holds, Evicts
  <2>4. view' \in Views
    BY <1>6 DEF SInv, CallsOK
  <2>5. CallsOK'
    BY <1>1, <1>6, <2>1, <2>3, <2>4, CallSteps DEF SInv, Steps
  <2>6. MachinesOK'
    BY <1>1, <1>3, <1>4, <1>6 DEF SInv, MachinesOK, OrNone
  <2>7. QED
    BY <2>5, <2>6
<1>7. ASSUME \/ /\ slot' = [slot EXCEPT ![w] = None]
                /\ lastActive' = [lastActive EXCEPT ![w] = 0]
                /\ ckpting' = ckpting \ {<<w, s>>}
             \/ UNCHANGED workerVars,
             reserve' = Cleared(w, s), Return(c)
      PROVE  CallsOK' /\ MachinesOK'
  <2>1. CallsOK'
    BY <1>1, <1>7, CallReturns DEF SInv
  <2>2. MachinesOK'
    BY <1>1, <1>4, <1>5, <1>7 DEF SInv, MachinesOK, OrNone, workerVars
  <2>3. QED
    BY <2>1, <2>2
<1>8. CallsOK' /\ MachinesOK'
  BY <1>2, <1>6, <1>7 DEF Restored
<1>9. QED
  BY <1>1, <1>8, CacheFrame DEF SInv

LEMMA RecordRestoreCache ==
    ASSUME CacheOK, NEW s \in Sandboxes, NEW d \in Durations, RecordRestore(s, d),
           UNCHANGED <<now, clock, pushes, tool>>
    PROVE  CacheOK'
<1>1. /\ rec[s] \in Records(now) /\ clock \in Nat /\ now \in Nat /\ now \in Past(now)
      /\ DOMAIN rec = Sandboxes /\ d \in Nat
  BY TimeFacts, SignalAssumption DEF CacheOK
<1>2. PICK r : r = [Touched(rec[s]) EXCEPT !.restore = d]
  OBVIOUS
<1>3. /\ r \in Records(now) /\ SameAccount(rec[s], r) /\ r.updated = now
      /\ r.phase = rec[s].phase /\ r.semantic = rec[s].semantic
  BY <1>1, <1>2 DEF Touched, Records, SameAccount
<1>4. PICK q : q = WithPriority(r)
  OBVIOUS
<1>5. /\ q \in Records(now) /\ SameAccount(rec[s], q) /\ q.updated = now
      /\ q.phase = rec[s].phase /\ q.semantic = rec[s].semantic
  BY <1>1, <1>3, <1>4, WithPriorityOK DEF SameAccount
<1>6. rec' = Purged([rec EXCEPT ![s] = q])
  BY <1>1, <1>2, <1>4 DEF RecordRestore
<1>7. QED
  BY <1>5, <1>6, TouchCache DEF Touches

LEMMA PutRunningSInv == ASSUME SInv, NEW c \in Calls, PutRunning(c) PROVE SInv'
<1>1. /\ UNCHANGED <<policy, now, clock, pushes, workerVars, knock, view, tool, seen>>
      /\ call[c].pc = "put"
  BY DEF PutRunning
<1>2. PICK w, s, n : w = call[c].w /\ s = call[c].s /\ n = call[c].sb.snap
  OBVIOUS
<1>3. /\ call[c] \in CallRecords /\ s \in Sandboxes /\ w \in Workers /\ n \in BOOLEAN
      /\ now \in Nat \ {0} /\ MaxLag \in Nat
  <2>1. call[c] \in CallRecords /\ s \in Sandboxes /\ w \in Workers
    BY <1>1, <1>2, RestoreKnows DEF SInv
  <2>2. call[c].sb \in Copies
    BY <2>1 DEF CallRecords
  <2>3. QED
    BY <1>2, <2>1, <2>2, TimeFacts DEF Copies, SInv
<1>4. CacheOK'
  <2>1. PICK d \in Durations : RecordRestore(s, d)
    BY <1>2 DEF PutRunning
  <2>2. QED
    BY <1>1, <1>3, <2>1, RecordRestoreCache DEF SInv
<1>5. MachinesOK'
  <2>1. PICK b : b = [state |-> "running", host |-> w, snap |-> n, updated |-> now]
    OBVIOUS
  <2>2. b \in Boxes
    BY <1>3, <2>1 DEF Boxes, States, OrNone
  <2>3. box' = [box EXCEPT ![s] = b] /\ reserve' = Cleared(w, s)
    BY <1>2, <2>1 DEF PutRunning
  <2>4. Cleared(w, s) \in [Workers -> OrNone(Sandboxes)]
    BY ClearedOK DEF SInv
  <2>5. QED
    BY <1>1, <2>2, <2>3, <2>4 DEF SInv, MachinesOK, workerVars
<1>6. CallsOK'
  <2>1. PICK q : q = [NoCall EXCEPT !.pc = "mark", !.s = s, !.at = now]
    OBVIOUS
  <2>2. call' = [call EXCEPT ![c] = q]
    BY <1>2, <2>1 DEF PutRunning
  <2>3. q \in CallRecords
    BY <1>3, <2>1, NothingHeld DEF CallRecords, Steps, OrNone
  <2>4. q.pc = "mark" /\ q.s = s /\ q.at = now
    BY <2>1 DEF NoCall
  <2>5. KnowsOK(q, now) /\ ~Holds(q) /\ ~Evicts(q)
    BY <1>3, <2>4, SignalAssumption DEF KnowsOK, Holds, Evicts
  <2>6. view' \in Views
    BY <1>1 DEF SInv, CallsOK
  <2>7. QED
    BY <1>1, <2>2, <2>3, <2>5, <2>6, CallGoesOn DEF SInv
<1>7. QED
  BY <1>4, <1>5, <1>6 DEF SInv

LEMMA MarkRunningSInv == ASSUME SInv, NEW c \in Calls, MarkRunning(c) PROVE SInv'
<1>1. /\ UNCHANGED <<policy, now, clock, pushes, workerVars, box, reserve, tool>>
      /\ call[c].pc = "mark" /\ Return(c)
  BY DEF MarkRunning
<1>2. PICK s, at : s = call[c].s /\ at = call[c].at
  OBVIOUS
<1>3. s \in Sandboxes /\ at \in 1 .. now /\ now - at <= MaxLag
  BY <1>1, <1>2, RestoreKnows DEF SInv
<1>4. PICK q : q = MarkedRunning(rec[s], at)
  OBVIOUS
<1>5. rec' = [rec EXCEPT ![s] = q]
  BY <1>2, <1>4 DEF MarkRunning
<1>6. CacheOK'
  BY <1>1, <1>3, <1>4, <1>5, MarkCache DEF SInv
<1>7. CallsOK'
  BY <1>1, CallReturns DEF SInv
<1>8. QED
  BY <1>1, <1>6, <1>7, MachinesFrame DEF SInv

-----------------------------------------------------------------------------
(* Pause, Suspend and eviction                                             *)

\* What a call that stops or deletes a sandbox knows.
LEMMA StopKnows ==
    ASSUME CallsOK, NEW c \in Calls,
           call[c].pc \in {"fetch", "ckpt", "dump", "save", "stopped", "kill", "drop"}
    PROVE  /\ call[c] \in CallRecords /\ KnowsOK(call[c], now) /\ call[c].v \in Sandboxes
           /\ call[c].pc \notin {"fetch", "drop"} => call[c].h \in Workers
           /\ call[c].pc \notin {"kill", "drop"} => Holds(call[c]) /\ knock = c
<1>1. call[c] \in CallRecords /\ KnowsOK(call[c], now) /\ (Holds(call[c]) => knock = c)
  BY CallFacts
<1>2. call[c].v \in OrNone(Sandboxes) /\ call[c].h \in OrNone(Workers)
  BY <1>1 DEF CallRecords
<1>3. QED
  BY <1>1, <1>2 DEF KnowsOK, Holds, OrNone

LEMMA CallStopSInv ==
    ASSUME SInv, NEW c \in Calls, NEW s \in Sandboxes, CallStop(c, s) PROVE SInv'
<1>1. /\ UNCHANGED <<policy, now, clock, rec, pushes, workerVars, box, reserve, view, tool, seen>>
      /\ knock = None /\ knock' = c
  BY DEF CallStop, signalVars
<1>2. PICK u \in BOOLEAN :
         call' = [call EXCEPT ![c] = [NoCall EXCEPT !.pc = "fetch", !.v = s, !.upload = u]]
  BY DEF CallStop
<1>3. PICK q : q = [NoCall EXCEPT !.pc = "fetch", !.v = s, !.upload = u]
  OBVIOUS
<1>4. q \in CallRecords
  BY <1>3, NothingHeld DEF CallRecords, Steps, OrNone
<1>5. q.pc = "fetch" /\ q.v = s /\ q.s = None
  BY <1>3 DEF NoCall
<1>6. KnowsOK(q, now) /\ ~Evicts(q)
  BY <1>5, SignalAssumption DEF KnowsOK, Evicts
<1>7. view' \in Views /\ seen' \in Sightings /\ knock' \in OrNone(Calls)
  BY <1>1 DEF SInv, CallsOK, OrNone
<1>8. CallsOK'
  BY <1>1, <1>2, <1>3, <1>4, <1>6, <1>7, CallMoves DEF SInv
<1>9. QED
  BY <1>1, <1>8, CacheFrame, MachinesFrame DEF SInv

LEMMA FetchSInv == ASSUME SInv, NEW c \in Calls, Fetch(c) PROVE SInv'
<1>1. /\ UNCHANGED <<policy, now, clock, rec, pushes, workerVars, box, reserve, tool>>
      /\ call[c].pc = "fetch"
  BY DEF Fetch, signalVars
<1>2. PICK r, v, h : r = call[c] /\ v = call[c].v /\ h = box[v].host
  OBVIOUS
<1>3. r \in CallRecords /\ KnowsOK(r, now) /\ v \in Sandboxes /\ Holds(r)
  BY <1>1, <1>2, StopKnows DEF SInv
<1>4. CASE box[v].state = "running"
  <2>1. h \in Workers
    BY <1>2, <1>3, <1>4 DEF SInv, MachinesOK, Boxes
  <2>2. PICK q : q = [r EXCEPT !.pc = "ckpt", !.h = h]
    OBVIOUS
  <2>3. call' = [call EXCEPT ![c] = q] /\ UNCHANGED <<knock, view, seen>>
    <3>1. DOMAIN call = Calls
      BY DEF SInv, CallsOK
    <3>2. call' = [call EXCEPT ![c].pc = "ckpt", ![c].h = h] /\ UNCHANGED <<knock, view, seen>>
      BY <1>2, <1>4 DEF Fetch
    <3>3. QED
      BY <1>2, <2>2, <3>1, <3>2
  <2>4. q \in CallRecords /\ q.pc = "ckpt" /\ q.h = h /\ q.v = r.v /\ q.s = r.s /\ q.w = r.w
    BY <1>3, <2>1, <2>2 DEF CallRecords, Steps, OrNone
  <2>5. KnowsOK(q, now) /\ (Evicts(q) => Evicts(r))
    BY <1>1, <1>2, <1>3, <2>1, <2>4, SignalAssumption DEF KnowsOK, Evicts
  <2>6. view' \in Views
    BY <2>3 DEF SInv, CallsOK
  <2>7. CallsOK'
    BY <1>1, <1>2, <1>3, <2>3, <2>4, <2>5, <2>6, CallGoesOn DEF SInv
  <2>8. QED
    BY <1>1, <2>7, CacheFrame, MachinesFrame DEF SInv
<1>5. CASE box[v].state # "running"
  <2>1. Return(c)
    BY <1>2, <1>5 DEF Fetch
  <2>2. CallsOK'
    BY <1>1, <2>1, CallReturns DEF SInv
  <2>3. QED
    BY <1>1, <2>2, CacheFrame, MachinesFrame DEF SInv
<1>6. QED
  BY <1>4, <1>5

LEMMA CheckpointSInv == ASSUME SInv, NEW c \in Calls, Checkpoint(c) PROVE SInv'
<1>1. /\ UNCHANGED <<policy, now, clock, rec, pushes, slot, lastActive, box, reserve, knock, view,
                     tool, seen>>
      /\ call[c].pc = "ckpt" /\ Goto(c, "dump")
      /\ ckpting' = ckpting \cup {<<call[c].h, call[c].v>>}
  BY DEF Checkpoint, signalVars
<1>2. /\ call[c] \in CallRecords /\ KnowsOK(call[c], now) /\ Holds(call[c])
      /\ call[c].v \in Sandboxes /\ call[c].h \in Workers
  BY <1>1, StopKnows DEF SInv
<1>3. MachinesOK'
  BY <1>1, <1>2 DEF SInv, MachinesOK
<1>4. PICK q : q = [call[c] EXCEPT !.pc = "dump"]
  OBVIOUS
<1>5. /\ q.pc = "dump" /\ q.s = call[c].s /\ q.v = call[c].v /\ q.w = call[c].w
      /\ q.h = call[c].h
  BY <1>2, <1>4 DEF CallRecords
<1>6. KnowsOK(q, now) /\ (Evicts(q) => Evicts(call[c]))
  BY <1>1, <1>2, <1>5 DEF KnowsOK, Evicts
<1>7. view' \in Views
  BY <1>1 DEF SInv, CallsOK
<1>8. CallsOK'
  BY <1>1, <1>2, <1>4, <1>6, <1>7, CallSteps DEF SInv, Steps
<1>9. QED
  BY <1>1, <1>3, <1>8, CacheFrame DEF SInv

LEMMA DumpedSInv == ASSUME SInv, NEW c \in Calls, Dumped(c) PROVE SInv'
<1>1. /\ UNCHANGED <<policy, now, clock, rec, pushes, box, reserve, knock, view, tool, seen>>
      /\ call[c].pc = "dump" /\ Goto(c, "save")
      /\ slot' = [slot EXCEPT ![call[c].h] = None]
      /\ lastActive' = [lastActive EXCEPT ![call[c].h] = 0]
      /\ ckpting' \subseteq ckpting
  BY DEF Dumped, signalVars
<1>2. call[c] \in CallRecords /\ KnowsOK(call[c], now) /\ Holds(call[c])
  BY <1>1, StopKnows DEF SInv
<1>3. MachinesOK'
  <2>1. 0 \in Past(now)
    BY TimeFacts DEF SInv
  <2>2. QED
    BY <1>1, <2>1 DEF SInv, MachinesOK, OrNone
<1>4. PICK q : q = [call[c] EXCEPT !.pc = "save"]
  OBVIOUS
<1>5. /\ q.pc = "save" /\ q.s = call[c].s /\ q.v = call[c].v /\ q.w = call[c].w
      /\ q.h = call[c].h
  BY <1>2, <1>4 DEF CallRecords
<1>6. KnowsOK(q, now) /\ (Evicts(q) => Evicts(call[c]))
  BY <1>1, <1>2, <1>5 DEF KnowsOK, Evicts
<1>7. view' \in Views
  BY <1>1 DEF SInv, CallsOK
<1>8. CallsOK'
  BY <1>1, <1>2, <1>4, <1>6, <1>7, CallSteps DEF SInv, Steps
<1>9. QED
  BY <1>1, <1>3, <1>8, CacheFrame DEF SInv

LEMMA DumpFailsSInv == ASSUME SInv, NEW c \in Calls, DumpFails(c) PROVE SInv'
<1>1. /\ UNCHANGED <<policy, now, clock, rec, pushes, slot, lastActive, box, reserve, tool>>
      /\ Return(c) /\ ckpting' \subseteq ckpting
  BY DEF DumpFails, signalVars
<1>2. MachinesOK'
  BY <1>1 DEF SInv, MachinesOK
<1>3. CallsOK'
  BY <1>1, CallReturns DEF SInv
<1>4. QED
  BY <1>1, <1>2, <1>3, CacheFrame DEF SInv

LEMMA RecordCheckpointCache ==
    ASSUME CacheOK, NEW s \in Sandboxes, NEW d \in Durations, RecordCheckpoint(s, d),
           UNCHANGED <<now, clock, pushes, tool>>
    PROVE  CacheOK'
<1>1. /\ rec[s] \in Records(now) /\ clock \in Nat /\ now \in Nat /\ now \in Past(now)
      /\ DOMAIN rec = Sandboxes /\ d \in Nat /\ Mem[s] \in Nat
  BY TimeFacts, SignalAssumption DEF CacheOK
<1>2. PICK e : e = IF d # 0 THEN d ELSE rec[s].preempt
  OBVIOUS
<1>3. e \in Nat
  BY <1>1, <1>2 DEF Records
<1>4. PICK r : r = [Touched(rec[s]) EXCEPT !.busy = FALSE, !.size = Mem[s], !.preempt = e]
  OBVIOUS
<1>5. /\ r \in Records(now) /\ SameAccount(rec[s], r) /\ r.updated = now
      /\ r.phase = rec[s].phase /\ r.semantic = rec[s].semantic
  BY <1>1, <1>3, <1>4 DEF Touched, Records, SameAccount
<1>6. PICK q : q = WithPriority(r)
  OBVIOUS
<1>7. /\ q \in Records(now) /\ SameAccount(rec[s], q) /\ q.updated = now
      /\ q.phase = rec[s].phase /\ q.semantic = rec[s].semantic
  BY <1>1, <1>5, <1>6, WithPriorityOK DEF SameAccount
<1>8. rec' = Purged([rec EXCEPT ![s] = q])
  BY <1>1, <1>2, <1>4, <1>6 DEF RecordCheckpoint
<1>9. QED
  BY <1>7, <1>8, TouchCache DEF Touches

LEMMA SaveSInv == ASSUME SInv, NEW c \in Calls, Save(c) PROVE SInv'
<1>1. /\ UNCHANGED <<policy, now, clock, pushes, workerVars, reserve, knock, view, tool, seen>>
      /\ call[c].pc = "save"
  BY DEF Save
<1>2. PICK r, v, h : r = call[c] /\ v = call[c].v /\ h = call[c].h
  OBVIOUS
<1>3. /\ r \in CallRecords /\ KnowsOK(r, now) /\ v \in Sandboxes /\ h \in Workers /\ Holds(r)
      /\ now \in Nat \ {0} /\ MaxLag \in Nat
  BY <1>1, <1>2, StopKnows, TimeFacts DEF SInv
<1>4. CacheOK'
  <2>1. PICK d \in Durations : RecordCheckpoint(v, d)
    BY <1>2 DEF Save
  <2>2. QED
    BY <1>1, <1>3, <2>1, RecordCheckpointCache DEF SInv
<1>5. MachinesOK'
  <2>1. PICK st \in {"suspended", "paused"} :
           box' = [box EXCEPT ![v] = [state |-> st, host |-> h, snap |-> TRUE, updated |-> now]]
    BY <1>2 DEF Save
  <2>2. PICK b : b = [state |-> st, host |-> h, snap |-> TRUE, updated |-> now]
    OBVIOUS
  <2>3. b \in Boxes
    BY <1>3, <2>2 DEF Boxes, States, OrNone
  <2>4. QED
    BY <1>1, <2>1, <2>2, <2>3 DEF SInv, MachinesOK, workerVars
<1>6. CallsOK'
  <2>1. PICK q : q = [r EXCEPT !.pc = "stopped", !.at = now]
    OBVIOUS
  <2>2. call' = [call EXCEPT ![c] = q]
    <3>1. DOMAIN call = Calls
      BY DEF SInv, CallsOK
    <3>2. call' = [call EXCEPT ![c].pc = "stopped", ![c].at = now]
      BY DEF Save
    <3>3. QED
      BY <1>2, <2>1, <3>1, <3>2
  <2>3. /\ q \in CallRecords /\ q.pc = "stopped" /\ q.at = now /\ q.h = r.h
        /\ q.v = r.v /\ q.s = r.s /\ q.w = r.w
    BY <1>3, <2>1 DEF CallRecords, Steps
  <2>4. KnowsOK(q, now) /\ ~Evicts(q)
    BY <1>1, <1>2, <1>3, <2>3 DEF KnowsOK, Evicts
  <2>5. view' \in Views
    BY <1>1 DEF SInv, CallsOK
  <2>6. QED
    BY <1>1, <1>2, <1>3, <2>2, <2>3, <2>4, <2>5, CallGoesOn DEF SInv
<1>7. QED
  BY <1>4, <1>5, <1>6 DEF SInv

LEMMA MarkSuspendedSInv == ASSUME SInv, NEW c \in Calls, MarkSuspended(c) PROVE SInv'
<1>1. /\ UNCHANGED <<policy, now, clock, pushes, workerVars, box, tool>>
      /\ call[c].pc = "stopped"
  BY DEF MarkSuspended
<1>2. PICK r, v, at : r = call[c] /\ v = call[c].v /\ at = call[c].at
  OBVIOUS
<1>3. /\ r \in CallRecords /\ v \in Sandboxes /\ KnowsOK(r, now)
      /\ at \in 1 .. now /\ now - at <= MaxLag
  <2>1. r \in CallRecords /\ v \in Sandboxes /\ KnowsOK(r, now)
    BY <1>1, <1>2, StopKnows DEF SInv
  <2>2. QED
    BY <1>1, <1>2, <2>1 DEF KnowsOK
<1>4. CacheOK'
  <2>1. CASE rec' = rec
    BY <1>1, <2>1, CacheFrame DEF SInv
  <2>2. CASE rec' = [rec EXCEPT ![v] = MarkedSuspended(@, at)]
    <3>1. PICK q : q = MarkedSuspended(rec[v], at)
      OBVIOUS
    <3>2. rec' = [rec EXCEPT ![v] = q]
      BY <2>2, <3>1
    <3>3. QED
      BY <1>1, <1>3, <3>1, <3>2, MarkCache DEF SInv
  <2>3. QED
    BY <1>2, <2>1, <2>2 DEF MarkSuspended
<1>5. CASE r.s = None
  <2>1. Return(c) /\ UNCHANGED reserve
    BY <1>2, <1>5 DEF MarkSuspended
  <2>2. CallsOK'
    BY <1>1, <2>1, CallReturns DEF SInv
  <2>3. QED
    BY <1>1, <1>4, <2>1, <2>2, MachinesFrame DEF SInv
<1>6. CASE r.s # None
  <2>1. r.s \in Sandboxes /\ r.w \in Workers
    BY <1>1, <1>2, <1>3, <1>6 DEF KnowsOK, CallRecords, OrNone
  <2>2. Admit(c, r.w)
    BY <1>2, <1>6 DEF MarkSuspended
  <2>3. CallsOK' /\ MachinesOK'
    BY <1>1, <1>2, <2>1, <2>2, AdmitOK DEF SInv
  <2>4. QED
    BY <1>4, <2>3 DEF SInv
<1>7. QED
  BY <1>5, <1>6

-----------------------------------------------------------------------------
(* Delete                                                                  *)

LEMMA CallDeleteSInv ==
    ASSUME SInv, NEW c \in Calls, NEW s \in Sandboxes, CallDelete(c, s) PROVE SInv'
<1>1. UNCHANGED <<policy, now, clock, rec, pushes, workerVars, box, reserve, knock, view, tool, seen>>
  BY DEF CallDelete, signalVars
<1>2. PICK q : /\ call' = [call EXCEPT ![c] = q]
               /\ q = IF box[s].state = "running"
                      THEN [NoCall EXCEPT !.pc = "kill", !.v = s, !.h = box[s].host]
                      ELSE [NoCall EXCEPT !.pc = "drop", !.v = s]
  BY DEF CallDelete
<1>3. box[s].state = "running" => box[s].host \in Workers
  BY DEF SInv, MachinesOK, Boxes
<1>4. q \in CallRecords
  BY <1>2, <1>3, NothingHeld DEF CallRecords, Steps, OrNone
<1>5. q.pc \in {"kill", "drop"} /\ q.v = s /\ (q.pc = "kill" => q.h \in Workers)
  BY <1>2, <1>3 DEF NoCall
<1>6. KnowsOK(q, now) /\ ~Holds(q) /\ ~Evicts(q)
  BY <1>5, SignalAssumption DEF KnowsOK, Holds, Evicts
<1>7. view' \in Views
  BY <1>1 DEF SInv, CallsOK
<1>8. CallsOK'
  BY <1>1, <1>2, <1>4, <1>6, <1>7, CallGoesOn DEF SInv
<1>9. QED
  BY <1>1, <1>8, CacheFrame, MachinesFrame DEF SInv

LEMMA KillSInv == ASSUME SInv, NEW c \in Calls, Kill(c) PROVE SInv'
<1>1. /\ UNCHANGED <<policy, now, clock, rec, pushes, box, reserve, knock, view, tool, seen>>
      /\ call[c].pc = "kill" /\ Goto(c, "drop")
      /\ ckpting' \subseteq ckpting
      /\ \/ /\ slot' = [slot EXCEPT ![call[c].h] = None]
            /\ lastActive' = [lastActive EXCEPT ![call[c].h] = 0]
         \/ UNCHANGED <<slot, lastActive>>
  BY DEF Kill, signalVars
<1>2. call[c] \in CallRecords /\ call[c].v \in Sandboxes
  BY <1>1, StopKnows DEF SInv
<1>3. MachinesOK'
  <2>1. 0 \in Past(now)
    BY TimeFacts DEF SInv
  <2>2. QED
    BY <1>1, <2>1 DEF SInv, MachinesOK, OrNone
<1>4. PICK q : q = [call[c] EXCEPT !.pc = "drop"]
  OBVIOUS
<1>5. q.pc = "drop" /\ q.v = call[c].v
  BY <1>2, <1>4 DEF CallRecords
<1>6. KnowsOK(q, now) /\ ~Holds(q) /\ ~Evicts(q)
  BY <1>2, <1>5, SignalAssumption DEF KnowsOK, Holds, Evicts
<1>7. view' \in Views
  BY <1>1 DEF SInv, CallsOK
<1>8. CallsOK'
  BY <1>1, <1>4, <1>6, <1>7, CallSteps DEF SInv, Steps
<1>9. QED
  BY <1>1, <1>3, <1>8, CacheFrame DEF SInv

LEMMA DropSInv == ASSUME SInv, NEW c \in Calls, Drop(c) PROVE SInv'
<1>1. /\ UNCHANGED <<policy, now, clock, rec, pushes, workerVars, reserve, knock, view, tool, seen>>
      /\ box' = [box EXCEPT ![call[c].v] = Deleted]
      /\ call' = [call EXCEPT ![c] = NoCall]
  BY DEF Drop, signalVars
<1>2. Deleted \in Boxes
  BY DEF Deleted, Boxes, States, OrNone
<1>3. MachinesOK'
  BY <1>1, <1>2 DEF SInv, MachinesOK, workerVars
<1>4. view' \in Views
  BY <1>1 DEF SInv, CallsOK
<1>5. CallsOK'
  BY <1>1, <1>4, NothingHeld, CallGoesOn DEF SInv
<1>6. QED
  BY <1>1, <1>3, <1>5, CacheFrame DEF SInv

-----------------------------------------------------------------------------
(* Theorems                                                                *)

LEMMA NextSInv == ASSUME SInv, Next PROVE SInv'
<1>1. CASE Tick
  BY <1>1, TickSInv
<1>2. CASE \E w \in Workers : Push(w)
  BY <1>2, PushSInv
<1>3. CASE \E p \in pushes : Deliver(p) \/ Lose(p)
  BY <1>3, DeliverSInv, LoseSInv
<1>4. CASE \E s \in Sandboxes : Heartbeat(s)
  BY <1>4, HeartbeatSInv
<1>5. CASE \E s \in Sandboxes : \E w \in Workers : Exec(s, w)
  BY <1>5, ExecSInv
<1>6. ASSUME NEW c \in Calls, NEW s \in Sandboxes,
             CallResume(c, s) \/ CallStop(c, s) \/ CallDelete(c, s)
      PROVE  SInv'
  BY <1>6, CallResumeSInv, CallStopSInv, CallDeleteSInv
<1>7. CASE \E c \in Calls : \E w \in Workers : Probe(c, w)
  BY <1>7, ProbeSInv
<1>8. ASSUME NEW c \in Calls,
             \/ GiveUp(c) \/ Lock(c) \/ ReadReserves(c) \/ ReadRunning(c)
             \/ Decide(c) \/ Evict(c)
             \/ Restored(c) \/ PutRunning(c) \/ MarkRunning(c)
             \/ Fetch(c) \/ Checkpoint(c) \/ Dumped(c) \/ DumpFails(c)
             \/ Save(c) \/ MarkSuspended(c)
             \/ Kill(c) \/ Drop(c)
      PROVE  SInv'
  BY <1>8, GiveUpSInv, LockSInv, ReadReservesSInv, ReadRunningSInv, DecideSInv, EvictSInv,
     RestoredSInv, PutRunningSInv, MarkRunningSInv, FetchSInv, CheckpointSInv, DumpedSInv,
     DumpFailsSInv, SaveSInv, MarkSuspendedSInv, KillSInv, DropSInv
<1>9. QED
  BY <1>1, <1>2, <1>3, <1>4, <1>5, <1>6, <1>7, <1>8 DEF Next

\* The signal records, the calls' stamps, knockMu and what its holder has seen agree with
\* one another in every reachable state: SInv is an inductive invariant.
THEOREM SignalInvariance == Spec => []SInv
<1>1. Init => SInv
  BY InitSInv
<1>2. SInv /\ [Next]_vars => SInv'
  BY NextSInv, StutterSInv
<1>3. QED
  BY <1>1, <1>2, PTL DEF Spec

\* Every signal, stamp and counter of the cache holds a value of its Go type, and no stamp
\* is ahead of the time.
THEOREM SignalTypeCorrect == Spec => []TypeOK
<1>1. SInv => TypeOK
  <2>1. SUFFICES ASSUME SInv PROVE TypeOK
    OBVIOUS
  <2>2. /\ CacheOK /\ MachinesOK /\ CallsOK /\ now \in 0 .. MaxTime /\ now \in Nat
        /\ Past(now) \subseteq Times
    <3>1. CacheOK /\ MachinesOK /\ CallsOK
      BY <2>1 DEF SInv
    <3>2. now \in 1 .. MaxTime /\ MaxTime \in Nat
      BY <3>1, SignalAssumption DEF CacheOK
    <3>3. QED
      BY <3>1, <3>2 DEF Past, Times
  <2>3. ASSUME NEW s \in Sandboxes
        PROVE  /\ DOMAIN rec[s] = DOMAIN NoRecord
               /\ {rec[s].H, rec[s].size, rec[s].preempt, rec[s].restore} \subseteq Nat
               /\ {rec[s].active, rec[s].updated, rec[s].semantic,
                   rec[s].running, rec[s].suspended} \subseteq 0 .. now
               /\ {rec[s].attained, rec[s].wait} \subseteq Int
               /\ {rec[s].busy, rec[s].lock} \subseteq BOOLEAN
    <3>1. rec[s] \in Records(now) /\ NoRecord \in Records(now)
      BY <2>2, NoRecordOK DEF CacheOK
    <3>2. DOMAIN rec[s] = DOMAIN NoRecord
      BY <3>1 DEF Records
    <3>3. {rec[s].H, rec[s].size, rec[s].preempt, rec[s].restore} \subseteq Nat
      BY <3>1 DEF Records
    <3>4. {rec[s].active, rec[s].updated, rec[s].semantic,
           rec[s].running, rec[s].suspended} \subseteq Past(now)
      BY <3>1 DEF Records
    <3>5. {rec[s].attained, rec[s].wait} \subseteq Int
      BY <3>1 DEF Records
    <3>6. {rec[s].busy, rec[s].lock} \subseteq BOOLEAN
      BY <3>1 DEF Records
    <3>7. QED
      BY <3>2, <3>3, <3>4, <3>5, <3>6 DEF Past
  <2>4. /\ policy \in PoliciesUsed /\ now \in Times /\ clock \in Nat
        /\ knock \in OrNone(Calls)
    BY <2>2 DEF CacheOK, CallsOK, Times
  <2>5. /\ slot \in [Workers -> OrNone(Sandboxes)] /\ lastActive \in [Workers -> Times]
        /\ ckpting \subseteq Workers \X Sandboxes /\ reserve \in [Workers -> OrNone(Sandboxes)]
    BY <2>2 DEF MachinesOK
  <2>6. QED
    BY <2>3, <2>4, <2>5 DEF TypeOK
<1>2. QED
  BY <1>1, SignalInvariance, PTL

\* Whatever the order and the age of the marks, however many Resumes of a sandbox overlap
\* and whichever records are purged in between, attained service and wait of a sandbox
\* never count one tick twice.
THEOREM TicksCountOnce == Spec => []NoTickCountedTwice
<1>1. ASSUME SInv, NEW s \in Sandboxes PROVE AttainedServiceSec(s) + WaitSec(s) <= now - 1
  <2>1. /\ rec[s] \in Records(now) /\ AccountOK(rec[s], now) /\ now \in Nat
    BY <1>1, TimeFacts DEF SInv, CacheOK
  <2>2. /\ rec[s].attained \in Int /\ rec[s].wait \in Int
        /\ rec[s].running \in Nat /\ rec[s].suspended \in Nat
    BY <2>1, RecordFacts
  <2>3. Counted(rec[s], now) <= now - 1
    BY <2>1 DEF AccountOK
  <2>4. QED
    BY <2>1, <2>2, <2>3 DEF Counted, AttainedServiceSec, WaitSec
<1>2. SInv => NoTickCountedTwice
  BY <1>1 DEF NoTickCountedTwice
<1>3. QED
  BY <1>2, SignalInvariance, PTL

\* semantic-score evicts no sandbox whose agent had said, less than a TTL before the
\* decision read the signals, that it is in its tool loop, but for the age of a late mark:
\* whatever else was pushed for it, said of it and purged since, and whoever moves between
\* the probes, that read and the end of the checkpoint.
THEOREM ToolLoopIsProtected == Spec => []ToolLoopNotEvicted
<1>1. SInv => ToolLoopNotEvicted
  BY DEF SInv, CallsOK
<1>2. QED
  BY <1>1, SignalInvariance, PTL
=============================================================================
