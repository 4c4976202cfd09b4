---------------------------- MODULE SignalStore ----------------------------
(***************************************************************************)
(* The control plane's signal cache (internal/signals) with everyone who   *)
(* writes it: the Workers' pushers, the agents' heartbeats, and the        *)
(* scheduler at each checkpoint, restore and eviction; and the policies    *)
(* that read it.  Of the scheduler this module has Resume, Pause, Suspend  *)
(* and Delete of sandboxes that have been created, with the golden         *)
(* snapshot built, and of their failures those of the Workers; Scheduler   *)
(* has the rest.                                                           *)
(*                                                                         *)
(* Time is counted in ticks from 1; 0 is Go's zero time, also "no record". *)
(***************************************************************************)
EXTENDS Policies, FiniteSets

CONSTANTS
    Sandboxes,      \* numbered in the order they were created
    Workers,
    Calls,          \* the API calls served at once
    PoliciesUsed,   \* the values of POLICY to look at
    Agents,         \* the sandboxes whose agents send heartbeats
    Called,         \* the sandboxes that commands are run in
    Ops,            \* what clients do besides Resume: "pause", "suspend", "delete"
    TTL,            \* SIGNAL_TTL in ticks
    Second,         \* a second in the unit of costs: every footprint divides it
    Durations,      \* what a checkpoint or a restore may cost
    Mem,            \* Mem[s]: memory footprint of a sandbox, in MiB
    MaxTime,        \* bound on the clock
    MaxLag,         \* bound on the ticks a PutSandbox takes
    MaxClock,       \* bound on the GreedyDual clock
    MaxPushes,      \* bound on the pushes under way
    None

ASSUME SignalAssumption ==
    /\ Sandboxes \subseteq Nat \ {NoVictim}
    /\ PoliciesUsed \subseteq PolicyNames
    /\ Agents \cup Called \subseteq Sandboxes
    /\ Ops \subseteq {"pause", "suspend", "delete"}
    /\ {TTL, MaxLag, MaxClock, MaxPushes} \subseteq Nat
    /\ {MaxTime, Second} \subseteq Nat \ {0}
    /\ Durations \subseteq Nat
    /\ Mem \in [Sandboxes -> Nat \ {0}]
    /\ \A s \in Sandboxes : \A c \in Durations \cup {Second} : c % Mem[s] = 0
    /\ None \notin Sandboxes \cup Workers \cup Calls

VARIABLES
    policy,         \* Scheduler.policy
    now,            \* the time
    clock,          \* Store.L
    rec,            \* Store.bySandbox
    pushes,         \* resource pushes sent and not yet handled
    slot,           \* slot[w]: the sandbox alive on Worker w
    lastActive,     \* lastActive[w]: Activity.lastActive of that sandbox
    ckpting,        \* the Workers' Activity.checkpointing, as pairs
    box,            \* the sandbox records of the scheduler's store
    reserve,        \* Scheduler.restoreReserve
    knock,          \* the call that holds knockMu
    view,           \* what that call has read for its decision
    call,           \* the calls and how far they are
    tool,           \* history: when the agent in s last said that it is in its tool loop
    seen            \* history: when knock read the signals, what the victim had said by then

signalVars == <<clock, rec, pushes>>
workerVars == <<slot, lastActive, ckpting>>
schedVars == <<box, reserve, knock, view, call>>
vars == <<policy, now, signalVars, workerVars, schedVars, tool, seen>>

-----------------------------------------------------------------------------
(* Records                                                                 *)

Times == 0 .. MaxTime
OrNone(S) == S \cup {None}

\* sandboxRecord.  preempt, restore: LastPreemptCostSec, LastRestoreDur.  size: live
\* RSS or checkpoint bytes.  running, suspended: RunningSince, SuspendedSince.
NoRecord ==
    [H |-> 0, busy |-> FALSE, active |-> 0, size |-> 0, preempt |-> 0, restore |-> 0,
     updated |-> 0, phase |-> "", lock |-> FALSE, semantic |-> 0,
     attained |-> 0, wait |-> 0, running |-> 0, suspended |-> 0]

\* types.Sandbox; snap: SnapshotSource is set.
Created == [state |-> "suspended", host |-> None, snap |-> FALSE, updated |-> 1]
Deleted == [state |-> "gone", host |-> None, snap |-> FALSE, updated |-> 0]

\* A Resume of s, admitted to w, holds its copy of the record of s.  v is the sandbox to
\* be stopped or deleted on its Worker h, for the Resume or for a client.
NoCopy == [state |-> "gone", host |-> None, snap |-> FALSE]
NoCall == [pc |-> "none", s |-> None, sb |-> NoCopy, w |-> None,
           v |-> None, h |-> None, upload |-> FALSE, at |-> 0]

\* left: Workers still to be probed.  up: those that answered.  free: those with a slot.
\* box: the listed sandboxes.
NoView == [left |-> {}, up |-> {}, free |-> {}, box |-> [s \in Sandboxes |-> Deleted]]
NothingSeen == [at |-> 0, said |-> 0]

\* Every signal, stamp and counter holds a value of its Go type, and every stamp is of
\* the past.  A late mark may make attained service and wait negative.
TypeOK ==
    /\ policy \in PoliciesUsed
    /\ now \in Times
    /\ clock \in Nat
    /\ \A s \in Sandboxes :
          /\ DOMAIN rec[s] = DOMAIN NoRecord
          /\ {rec[s].H, rec[s].size, rec[s].preempt, rec[s].restore} \subseteq Nat
          /\ {rec[s].active, rec[s].updated, rec[s].semantic,
              rec[s].running, rec[s].suspended} \subseteq 0 .. now
          /\ {rec[s].attained, rec[s].wait} \subseteq Int
          /\ {rec[s].busy, rec[s].lock} \subseteq BOOLEAN
    /\ slot \in [Workers -> OrNone(Sandboxes)]
    /\ lastActive \in [Workers -> Times]
    /\ ckpting \subseteq Workers \X Sandboxes
    /\ reserve \in [Workers -> OrNone(Sandboxes)]
    /\ knock \in OrNone(Calls)

Init ==
    /\ policy \in PoliciesUsed
    /\ now = 1
    /\ clock = 0
    /\ rec = [s \in Sandboxes |-> NoRecord]
    /\ pushes = {}
    /\ slot = [w \in Workers |-> None]
    /\ lastActive = [w \in Workers |-> 0]
    /\ ckpting = {}
    /\ box = [s \in Sandboxes |-> Created]
    /\ reserve = [w \in Workers |-> None]
    /\ knock = None
    /\ view = NoView
    /\ call = [c \in Calls |-> NoCall]
    /\ tool = [s \in Sandboxes |-> 0]
    /\ seen = NothingSeen

\* Time passes, but a PutSandbox does not take longer than MaxLag.
Tick ==
    /\ now < MaxTime
    /\ \A c \in Calls : call[c].pc \in {"mark", "stopped"} => now - call[c].at < MaxLag
    /\ now' = now + 1
    /\ UNCHANGED <<policy, signalVars, workerVars, schedVars, tool, seen>>

-----------------------------------------------------------------------------
(* GreedyDual-Size                                                         *)

DefaultCost == Second
DefaultSize == 1

\* The fallback to LastCheckpointDur never differs: it is recorded with the
\* preemption cost, from the same start.
GDSCost(r) == IF r.preempt + r.restore > 0 THEN r.preempt + r.restore ELSE DefaultCost

GDSSize(r) == IF r.size > DefaultSize THEN r.size ELSE DefaultSize

GDSPriority(l, r) == l + GDSCost(r) \div GDSSize(r)

WithPriority(r) == [r EXCEPT !.H = GDSPriority(clock, r)]

-----------------------------------------------------------------------------
(* The Store: each operation as the record it leaves                       *)

Purged(f) == [s \in Sandboxes |-> IF now - f[s].updated > TTL THEN NoRecord ELSE f[s]]

Exists(s) == rec[s].updated # 0
TouchedUntil(r) == [r EXCEPT !.updated = now + TTL]
Touched(r) == [r EXCEPT !.updated = now]

AppliedBusySticky(r, p) == [Touched(r) EXCEPT !.active = p.active, !.size = Mem[p.id],
                                              !.busy = @ \/ p.busy]
Applied(r, p) == [Touched(r) EXCEPT !.active = p.active, !.size = Mem[p.id], !.busy = p.busy]

\* ApplyPush: H is new on the first sample and on an access.  A Worker without a
\* sandbox sends no sample; its push still purges.
ApplyPush(p) ==
    LET r == Applied(rec[p.id], p)
        accessed == ~Exists(p.id) \/ p.active > rec[p.id].active
    IN
    rec' = Purged(IF p.id = None THEN rec
                  ELSE [rec EXCEPT ![p.id] = IF accessed THEN WithPriority(r) ELSE r])

\* ApplySemantic: an empty phase leaves the old one; lock is always overwritten.
ApplySemantic(s, phase, lock) ==
    rec' = Purged([rec EXCEPT ![s] =
              [Touched(@) EXCEPT !.phase = IF phase = "" THEN rec[s].phase ELSE phase,
                                 !.lock = lock, !.semantic = now]])

MarkedRunningStillWaiting(r, at) ==
    [r EXCEPT !.wait = IF r.suspended = 0 THEN @ ELSE @ + (at - r.suspended),
              !.running = IF @ = 0 THEN at ELSE @,
              !.updated = at]

\* MarkRunning and MarkSuspended, with the time at which the caller looked.
MarkedRunning(r, at) ==
    [r EXCEPT !.wait = IF r.suspended = 0 THEN @ ELSE @ + (at - r.suspended),
              !.suspended = 0,
              !.running = IF @ = 0 THEN at ELSE @,
              !.updated = at]

MarkedSuspended(r, at) ==
    [r EXCEPT !.attained = IF r.running = 0 THEN @ ELSE @ + (at - r.running),
              !.running = 0,
              !.suspended = IF @ = 0 THEN at ELSE @,
              !.updated = at]

RecordCheckpoint(s, d) ==
    rec' = Purged([rec EXCEPT ![s] =
              WithPriority([Touched(@) EXCEPT !.busy = FALSE, !.size = Mem[s],
                                              !.preempt = IF d # 0 THEN d ELSE rec[s].preempt])])

RecordRestore(s, d) ==
    rec' = Purged([rec EXCEPT ![s] = WithPriority([Touched(@) EXCEPT !.restore = d])])

OnEvict(s) == clock' = IF Exists(s) THEN rec[s].H ELSE clock

\* ListSandboxes and toSandboxSignals: what a decision sees.
Fresh(s) == Exists(s) /\ now - rec[s].updated <= TTL
SemanticFresh(s) == Fresh(s) /\ now - rec[s].semantic <= TTL

SemanticLockedByLock(s) == SemanticFresh(s) /\ rec[s].lock
SemanticLocked(s) == SemanticFresh(s) /\ (rec[s].lock \/ rec[s].phase = "tool_loop")

AttainedServiceSec(s) ==
    rec[s].attained + (IF rec[s].running = 0 THEN 0 ELSE now - rec[s].running)
WaitSec(s) ==
    rec[s].wait + (IF rec[s].suspended = 0 THEN 0 ELSE now - rec[s].suspended)

-----------------------------------------------------------------------------
(* The Worker's pusher and the heartbeats                                  *)

\* BuildSamples: nothing known of its activity yet counts as active now.
BuildSample(s, w) ==
    [id |-> s, from |-> w, busy |-> <<w, s>> \in ckpting,
     active |-> IF s = None THEN 0 ELSE IF lastActive[w] = 0 THEN now ELSE lastActive[w]]

\* pushOnce: sample the sandbox alive on w and send it.  An earlier push may still
\* be under way after the client's timeout.
Push(w) ==
    /\ Cardinality(pushes) < MaxPushes
    /\ pushes' = pushes \cup {BuildSample(slot[w], w)}
    /\ UNCHANGED <<policy, now, clock, rec, workerVars, schedVars, tool, seen>>

\* postResourceSignals.
Deliver(p) ==
    /\ p \in pushes
    /\ pushes' = pushes \ {p}
    /\ ApplyPush(p)
    /\ UNCHANGED <<policy, now, clock, workerVars, schedVars, tool, seen>>

Lose(p) ==
    /\ p \in pushes
    /\ pushes' = pushes \ {p}
    /\ UNCHANGED <<policy, now, clock, rec, workerVars, schedVars, tool, seen>>

\* Alive on w and not frozen by a checkpoint.
Awake(s, w) == slot[w] = s /\ <<w, s>> \notin ckpting

\* The agent in s enters or leaves its tool loop, or a driver sends a task profile,
\* with neither phase nor lock.
Heartbeat(s) ==
    /\ s \in Agents
    /\ \/ /\ \E w \in Workers : Awake(s, w)
          /\ \/ ApplySemantic(s, "tool_loop", TRUE) /\ tool' = [tool EXCEPT ![s] = now]
             \/ ApplySemantic(s, "idle", FALSE) /\ tool' = [tool EXCEPT ![s] = 0]
       \/ ApplySemantic(s, "", FALSE) /\ UNCHANGED tool
    /\ UNCHANGED <<policy, now, clock, pushes, workerVars, schedVars, seen>>

\* handleExec.
Exec(s, w) ==
    /\ s \in Called
    /\ box[s].state = "running"
    /\ box[s].host = w
    /\ Awake(s, w)
    /\ lastActive' = [lastActive EXCEPT ![w] = now]
    /\ UNCHANGED <<policy, now, signalVars, slot, ckpting, schedVars, tool, seen>>

-----------------------------------------------------------------------------
(* Resume: what it reads under knockMu                                     *)

\* A call returns, and unlocks knockMu if it holds it.
Unlock(c) ==
    /\ knock' = IF knock = c THEN None ELSE knock
    /\ view' = IF knock = c THEN NoView ELSE view
    /\ seen' = IF knock = c THEN NothingSeen ELSE seen

Return(c) == call' = [call EXCEPT ![c] = NoCall] /\ Unlock(c)

Goto(c, pc) == call' = [call EXCEPT ![c].pc = pc]

\* clearRestoreReserve.
Cleared(w, s) == IF reserve[w] = s THEN [reserve EXCEPT ![w] = None] ELSE reserve

Copy(s) == [state |-> box[s].state, host |-> box[s].host, snap |-> box[s].snap]

CallResume(c, s) ==
    /\ call[c] = NoCall
    /\ box[s].state \in {"suspended", "paused"}
    /\ call' = [call EXCEPT ![c] = [NoCall EXCEPT !.pc = "wait", !.s = s, !.sb = Copy(s)]]
    /\ UNCHANGED <<policy, now, signalVars, workerVars, box, reserve, knock, view, tool, seen>>

\* Lobby has the order of those who wait; a deadline or a cancelled context ends it.
GiveUp(c) ==
    /\ call[c].pc = "wait"
    /\ call' = [call EXCEPT ![c] = NoCall]
    /\ UNCHANGED <<policy, now, signalVars, workerVars, box, reserve, knock, view, tool, seen>>

\* knockMu.Lock; the record is read again, unless it is gone.
Lock(c) ==
    LET s == call[c].s IN
    /\ call[c].pc = "wait"
    /\ knock = None
    /\ knock' = c
    /\ view' = [NoView EXCEPT !.left = Workers]
    /\ call' = [call EXCEPT ![c].pc = "probe",
                            ![c].sb = IF box[s].state = "gone" THEN @ ELSE Copy(s)]
    /\ UNCHANGED <<policy, now, signalVars, workerVars, box, reserve, tool, seen>>

\* healthyWorkers: one Worker after the other is asked for its slots, or does not answer.
Probe(c, w) ==
    /\ call[c].pc = "probe"
    /\ w \in view.left
    /\ \/ view' = [view EXCEPT !.left = @ \ {w}]
       \/ view' = [view EXCEPT !.left = @ \ {w}, !.up = @ \cup {w},
                               !.free = @ \cup {x \in {w} : slot[x] = None}]
    /\ UNCHANGED <<policy, now, signalVars, workerVars, box, reserve, knock, call, tool, seen>>

\* applyRestoreReserves: what another sandbox has reserved counts as full.
ReadReserves(c) ==
    /\ call[c].pc = "probe"
    /\ view.left = {}
    /\ view' = [view EXCEPT !.free = {w \in @ : reserve[w] \in {None, call[c].s}}]
    /\ Goto(c, "list")
    /\ UNCHANGED <<policy, now, signalVars, workerVars, box, reserve, knock, tool, seen>>

\* running: ListSandboxes.
ReadRunning(c) ==
    /\ call[c].pc = "list"
    /\ view' = [view EXCEPT !.box = box]
    /\ Goto(c, "decide")
    /\ UNCHANGED <<policy, now, signalVars, workerVars, box, reserve, knock, tool, seen>>

-----------------------------------------------------------------------------
(* Resume: the decision                                                    *)

Infinity == 1000000

KeepAliveH(s) ==
    IF ~Fresh(s) THEN GDSPriority(0, NoRecord)
    ELSE IF rec[s].busy THEN Infinity
    ELSE IF rec[s].H # 0 THEN rec[s].H
    ELSE GDSPriority(0, rec[s])

RuntimeIdle(s) ==
    IF Fresh(s) /\ rec[s].active # 0 THEN now - rec[s].active ELSE now - view.box[s].updated

\* resumeCandidates: only its own Worker for a paused sandbox, and for one whose Worker
\* is free and still has the directory; then only what runs there counts.
StickyOnly(sb, exists) == sb.state = "paused" \/ (sb.snap /\ sb.host \in view.free /\ exists)

\* What the policy is given.  Slots, reservations and sandboxes were read before; the
\* signals are read now.
ViewFor(sb, exists, first) ==
    LET ws  == IF StickyOnly(sb, exists) THEN {sb.host} ELSE view.up
        run == {x \in Sandboxes : /\ view.box[x].state = "running"
                                  /\ StickyOnly(sb, exists) => view.box[x].host = sb.host}
    IN
    [workers |-> ws,
     free    |-> view.free \cap ws,
     running |-> run,
     host    |-> [x \in Sandboxes |-> view.box[x].host],
     first   |-> first,
     busy    |-> {x \in run : Fresh(x) /\ rec[x].busy},
     locked  |-> {x \in run : SemanticLocked(x)},
     idle    |-> [x \in Sandboxes |-> RuntimeIdle(x)],
     keepH   |-> [x \in Sandboxes |-> KeepAliveH(x)]]

\* The order of the list is open: any of the running sandboxes of a Worker may be first.
Firsts ==
    LET on(w) == {x \in Sandboxes : view.box[x].state = "running" /\ view.box[x].host = w}
    IN {f \in [Workers -> Sandboxes \cup {NoVictim}] :
          \A w \in Workers : f[w] \in IF on(w) = {} THEN {NoVictim} ELSE on(w)}

Answers(c) ==
    UNION {Resume(policy, ViewFor(call[c].sb, exists, first), call[c].sb.host) :
             exists \in BOOLEAN, first \in Firsts}

\* What the rest of the Resume needs of its copy.
Kept(sb) == [NoCopy EXCEPT !.snap = sb.snap]

\* Admitted: the Worker is reserved before knockMu is released.
Admit(c, w) ==
    /\ reserve' = [reserve EXCEPT ![w] = call[c].s]
    /\ call' = [call EXCEPT ![c] = [NoCall EXCEPT !.pc = "restore", !.s = call[c].s,
                                                  !.sb = Kept(call[c].sb), !.w = w]]
    /\ Unlock(c)

\* An error sends the Resume back to the lobby, as does another waiter who is better by
\* now; a paused sandbox whose Worker does not answer makes it fail.
Decide(c) ==
    LET r == call[c] IN
    /\ r.pc = "decide"
    /\ IF r.sb.state = "paused" /\ r.sb.host \notin view.up
       THEN Return(c) /\ UNCHANGED reserve
       ELSE \/ \E p \in Answers(c) :
                  \/ p.victim = NoVictim /\ Admit(c, p.worker)
                  \/ /\ p.victim # NoVictim /\ clock < MaxClock
                     /\ call' = [call EXCEPT ![c].pc = "evict", ![c].w = p.worker,
                                             ![c].v = p.victim, ![c].upload = TRUE,
                                             ![c].sb = Kept(@)]
                     /\ view' = NoView
                     /\ seen' = [at |-> now, said |-> tool[p.victim]]
                     /\ UNCHANGED <<reserve, knock>>
            \/ /\ Answers(c) = {} \/ policy = "semantic-score"
               /\ Goto(c, "wait") /\ Unlock(c) /\ UNCHANGED reserve
    /\ UNCHANGED <<policy, now, signalVars, workerVars, box, tool>>

\* OnEvict comes before the checkpoint.
Evict(c) ==
    /\ call[c].pc = "evict"
    /\ OnEvict(call[c].v)
    /\ Goto(c, "fetch")
    /\ UNCHANGED <<policy, now, rec, pushes, workerVars, box, reserve, knock, view, tool, seen>>

-----------------------------------------------------------------------------
(* Resume: the Restore, outside knockMu                                    *)

\* The Worker's handleRestore; a restore that fails releases the slot, whoever claimed it.
\* Or the call does not get so far: another sandbox has the slot, or no connection.
Restored(c) ==
    LET w == call[c].w
        s == call[c].s
    IN
    /\ call[c].pc = "restore"
    /\ \/ /\ slot[w] \in {None, s}
          /\ slot' = [slot EXCEPT ![w] = s]
          /\ lastActive' = [lastActive EXCEPT ![w] = now]
          /\ Goto(c, "put")
          /\ UNCHANGED <<ckpting, reserve, knock, view, seen>>
       \/ /\ slot[w] \in {None, s}
          /\ slot' = [slot EXCEPT ![w] = None]
          /\ lastActive' = [lastActive EXCEPT ![w] = 0]
          /\ ckpting' = ckpting \ {<<w, s>>}
          /\ reserve' = Cleared(w, s)
          /\ Return(c)
       \/ /\ reserve' = Cleared(w, s)
          /\ Return(c)
          /\ UNCHANGED workerVars
    /\ UNCHANGED <<policy, now, signalVars, box, tool>>

\* RecordRestore, then PutSandbox of the copy, stamped with the time in between, and
\* clearRestoreReserve.
PutRunning(c) ==
    LET w == call[c].w
        s == call[c].s
    IN
    /\ call[c].pc = "put"
    /\ \E d \in Durations : RecordRestore(s, d)
    /\ box' = [box EXCEPT ![s] = [state |-> "running", host |-> w, snap |-> call[c].sb.snap,
                                  updated |-> now]]
    /\ reserve' = Cleared(w, s)
    /\ call' = [call EXCEPT ![c] = [NoCall EXCEPT !.pc = "mark", !.s = s, !.at = now]]
    /\ UNCHANGED <<policy, now, clock, pushes, workerVars, knock, view, tool, seen>>

\* signals.MarkRunning, with that stamp; whoever saw the record running may have come first.
MarkRunning(c) ==
    /\ call[c].pc = "mark"
    /\ rec' = [rec EXCEPT ![call[c].s] = MarkedRunning(@, call[c].at)]
    /\ Return(c)
    /\ UNCHANGED <<policy, now, clock, pushes, workerVars, box, reserve, tool>>

-----------------------------------------------------------------------------
(* Pause, Suspend and eviction: pauseOrSuspend                             *)

\* A client's Pause or Suspend, once it has knockMu.
CallStop(c, s) ==
    /\ call[c] = NoCall
    /\ knock = None
    /\ knock' = c
    /\ \E op \in Ops \ {"delete"} :
          call' = [call EXCEPT ![c] = [NoCall EXCEPT !.pc = "fetch", !.v = s,
                                                    !.upload = (op = "suspend")]]
    /\ UNCHANGED <<policy, now, signalVars, workerVars, box, reserve, view, tool, seen>>

\* GetSandbox: it must be running.
Fetch(c) ==
    LET v == call[c].v IN
    /\ call[c].pc = "fetch"
    /\ IF box[v].state = "running"
       THEN /\ call' = [call EXCEPT ![c].pc = "ckpt", ![c].h = box[v].host]
            /\ UNCHANGED <<knock, view, seen>>
       ELSE Return(c)
    /\ UNCHANGED <<policy, now, signalVars, workerVars, box, reserve, tool>>

\* The call reaches the Worker: handleCheckpoint begins ...
Checkpoint(c) ==
    /\ call[c].pc = "ckpt"
    /\ ckpting' = ckpting \cup {<<call[c].h, call[c].v>>}
    /\ Goto(c, "dump")
    /\ UNCHANGED <<policy, now, signalVars, slot, lastActive, box, reserve, knock, view, tool, seen>>

\* ... succeeds and releases the slot ...
Dumped(c) ==
    LET h == call[c].h
        v == call[c].v
    IN
    /\ call[c].pc = "dump"
    /\ slot[h] = v
    /\ slot' = [slot EXCEPT ![h] = None]
    /\ lastActive' = [lastActive EXCEPT ![h] = 0]
    /\ ckpting' = ckpting \ {<<h, v>>}
    /\ Goto(c, "save")
    /\ UNCHANGED <<policy, now, signalVars, box, reserve, knock, view, tool, seen>>

\* ... or fails, as it does when the sandbox is not there.  An eviction's Resume fails too.
DumpFails(c) ==
    /\ call[c].pc = "dump"
    /\ ckpting' = ckpting \ {<<call[c].h, call[c].v>>}
    /\ Return(c)
    /\ UNCHANGED <<policy, now, signalVars, slot, lastActive, box, reserve, tool>>

\* RecordCheckpoint and PutSandbox, stamped in between.
Save(c) ==
    LET v == call[c].v IN
    /\ call[c].pc = "save"
    /\ \E d \in Durations : RecordCheckpoint(v, d)
    /\ box' = [box EXCEPT ![v] = [state |-> IF call[c].upload THEN "suspended" ELSE "paused",
                                  host |-> call[c].h, snap |-> TRUE, updated |-> now]]
    /\ call' = [call EXCEPT ![c].pc = "stopped", ![c].at = now]
    /\ UNCHANGED <<policy, now, clock, pushes, workerVars, reserve, knock, view, tool, seen>>

\* MarkSuspended unless it was a Pause; then the eviction's Resume is admitted.
MarkSuspended(c) ==
    LET r == call[c] IN
    /\ r.pc = "stopped"
    /\ rec' = IF r.upload THEN [rec EXCEPT ![r.v] = MarkedSuspended(@, r.at)] ELSE rec
    /\ IF r.s = None THEN Return(c) /\ UNCHANGED reserve ELSE Admit(c, r.w)
    /\ UNCHANGED <<policy, now, clock, pushes, workerVars, box, tool>>

-----------------------------------------------------------------------------
(* Delete takes no lock                                                    *)

CallDelete(c, s) ==
    /\ call[c] = NoCall
    /\ "delete" \in Ops
    /\ box[s].state # "gone"
    /\ call' = [call EXCEPT ![c] =
                  IF box[s].state = "running"
                  THEN [NoCall EXCEPT !.pc = "kill", !.v = s, !.h = box[s].host]
                  ELSE [NoCall EXCEPT !.pc = "drop", !.v = s]]
    /\ UNCHANGED <<policy, now, signalVars, workerVars, box, reserve, knock, view, tool, seen>>

\* The Worker's handleDelete.
Kill(c) ==
    LET h == call[c].h
        v == call[c].v
    IN
    /\ call[c].pc = "kill"
    /\ IF slot[h] = v
       THEN slot' = [slot EXCEPT ![h] = None] /\ lastActive' = [lastActive EXCEPT ![h] = 0]
       ELSE UNCHANGED <<slot, lastActive>>
    /\ ckpting' = ckpting \ {<<h, v>>}
    /\ Goto(c, "drop")
    /\ UNCHANGED <<policy, now, signalVars, box, reserve, knock, view, tool, seen>>

\* DeleteSandbox; what the signals say of it stays until it is purged.
Drop(c) ==
    /\ call[c].pc = "drop"
    /\ box' = [box EXCEPT ![call[c].v] = Deleted]
    /\ call' = [call EXCEPT ![c] = NoCall]
    /\ UNCHANGED <<policy, now, signalVars, workerVars, reserve, knock, view, tool, seen>>

-----------------------------------------------------------------------------
Next ==
    \/ Tick
    \/ \E w \in Workers : Push(w)
    \/ \E p \in pushes : Deliver(p) \/ Lose(p)
    \/ \E s \in Sandboxes : Heartbeat(s)
    \/ \E s \in Sandboxes : \E w \in Workers : Exec(s, w)
    \/ \E c \in Calls : \E s \in Sandboxes :
          CallResume(c, s) \/ CallStop(c, s) \/ CallDelete(c, s)
    \/ \E c \in Calls : \E w \in Workers : Probe(c, w)
    \/ \E c \in Calls :
          \/ GiveUp(c) \/ Lock(c) \/ ReadReserves(c) \/ ReadRunning(c)
          \/ Decide(c) \/ Evict(c)
          \/ Restored(c) \/ PutRunning(c) \/ MarkRunning(c)
          \/ Fetch(c) \/ Checkpoint(c) \/ Dumped(c) \/ DumpFails(c)
          \/ Save(c) \/ MarkSuspended(c)
          \/ Kill(c) \/ Drop(c)

Spec == Init /\ [][Next]_vars

\* The pusher ticks for ever and not all of its pushes are lost.
DeliverFrom(w) == \E p \in pushes : p.from = w /\ Deliver(p)

Fairness == \A w \in Workers : WF_vars(Push(w)) /\ SF_vars(DeliverFrom(w))

FairSpec == Spec /\ Fairness

-----------------------------------------------------------------------------
(* Properties                                                              *)

\* MarkRunning and MarkSuspended arrive in any order with stamps of any age, two Resumes
\* of one sandbox may both mark it, and records are purged in between: attained service
\* and wait never count one tick twice.
NoTickCountedTwice ==
    \A s \in Sandboxes : Exists(s) => AttainedServiceSec(s) + WaitSec(s) <= now - 1

\* semantic-score evicts no sandbox whose agent had said, less than a TTL before the
\* decision read the signals, that it is in its tool loop, whatever else was said of that
\* sandbox since (ApplySemantic overwrites lock, purgeLocked deletes records) and however
\* much happens between the probes, that read and the checkpoint.  A late MarkRunning sets
\* UpdatedAt back to its stamp, so that the record may be purged up to MaxLag early.  An
\* agent that enters its loop after the read is evicted: nothing looks again.
Evicting(c) == call[c].s # None /\ call[c].pc \in {"evict", "fetch", "ckpt", "dump", "save"}

ToolLoopNotEvicted ==
    policy = "semantic-score" =>
       \A c \in Calls : Evicting(c) => seen.said = 0 \/ seen.at - seen.said > TTL - MaxLag

\* A push sampled during a checkpoint and handled after it marks a sandbox busy that
\* runs again: no policy that looks would evict it or use its Worker.  It does not
\* stay so.
FalselyBusy(s) ==
    /\ box[s].state = "running"
    /\ rec[s].busy
    /\ box[s].host \in Workers /\ Awake(s, box[s].host)

BusyClears == \A s \in Sandboxes : FalselyBusy(s) ~> ~FalselyBusy(s)
=============================================================================
