------------------------------- MODULE Lobby -------------------------------
(***************************************************************************)
(* Resume under semantic-score when Workers are scarce: every Resume is    *)
(* listed in resumeWaiters until it returns, only the one with the highest *)
(* admitScore may knock, and the lock knockMu, the decision, the eviction  *)
(* and the restore follow.  Time passes and signals change at any moment   *)
(* between these steps.  Scheduler has the same Resume with the order of   *)
(* waiters open and with failures, snapshots and records in detail.        *)
(***************************************************************************)
EXTENDS Policies, KeepScore, FiniteSets

CONSTANTS
    Sandboxes,      \* numbered in the order they were created
    Workers,
    Signals,        \* the signal records a sandbox may have
    AtStart,        \* the one every sandbox starts with
    TickSec,        \* seconds in a tick
    WaitSec,        \* SEMANTIC_WAIT_SEC
    MaxSignals,     \* bound on how often signals change
    None

ASSUME LobbyAssumption ==
    /\ Sandboxes \subseteq Nat \ {NoVictim}
    /\ AtStart \in Signals
    /\ \A m \in Signals : IsSignal(m) /\ m.busy \in BOOLEAN
    /\ {TickSec, WaitSec, MaxSignals} \subseteq Nat
    /\ TickSec > 0
    /\ None \notin Sandboxes \cup Workers

VARIABLES
    age,            \* ticks since a sandbox joined resumeWaiters, or NotListed
    pc,             \* where the Resume of a sandbox is
    sig,            \* the signals of a sandbox
    box,            \* the state and the Worker in its record
    slot,           \* the sandbox that occupies a Worker or has reserved it
    knockMu,        \* the sandbox whose Resume holds knockMu
    victim,         \* the sandbox that Resume is suspending
    changes         \* how often signals have changed

vars == <<age, pc, sig, box, slot, knockMu, victim, changes>>

NotListed == -1

\* The tick past which a Resume has missed its deadline, and a Resume acts on that.
MaxAge == 1 + WaitSec \div TickSec

\* Ages, records, slots and the lock have the types of resumeWaiters, Sandbox,
\* restoreReserve and knockMu.
TypeOK ==
    /\ age \in [Sandboxes -> NotListed .. MaxAge]
    /\ pc \in [Sandboxes -> {"none", "lobby", "knock", "decide", "evict", "restore"}]
    /\ sig \in [Sandboxes -> Signals]
    /\ box \in [Sandboxes -> [state : {"suspended", "running"}, host : Workers \cup {None}]]
    /\ slot \in [Workers -> Sandboxes \cup {None}]
    /\ knockMu \in Sandboxes \cup {None}
    /\ victim \in Sandboxes \cup {NoVictim}
    /\ changes \in 0 .. MaxSignals

Init ==
    /\ age = [s \in Sandboxes |-> NotListed]
    /\ pc = [s \in Sandboxes |-> "none"]
    /\ sig = [s \in Sandboxes |-> AtStart]
    /\ box = [s \in Sandboxes |-> [state |-> "suspended", host |-> None]]
    /\ slot = [w \in Workers |-> None]
    /\ knockMu = None
    /\ victim = NoVictim
    /\ changes = 0

-----------------------------------------------------------------------------
(* Ranking                                                                 *)

Waiting == {s \in Sandboxes : age[s] # NotListed}

\* keepScore of every signal record, and admitScore after every time in the lobby.
Keep == [m \in Signals |-> keepScore(m)]
AdmitAfter == [m \in Signals |-> [n \in 0 .. MaxAge |-> admitScore(m, TickSec * n)]]

Admit(s) == AdmitAfter[sig[s]][age[s]]

BestOrEqual(s) == \A x \in Waiting \ {s} : Admit(x) <= Admit(s)

\* RequireBestWaiter
Best(s) ==
    \A x \in Waiting \ {s} : Admit(x) < Admit(s) \/ (Admit(x) = Admit(s) /\ s < x)

PastDeadline(s) == TickSec * age[s] > WaitSec

-----------------------------------------------------------------------------
(* The policy's decision                                                   *)

\* One sandbox at most runs on a Worker here: the first one listed.
FirstOn(w) ==
    LET on == {x \in Sandboxes : box[x].state = "running" /\ box[x].host = w}
    IN  IF on = {} THEN NoVictim ELSE CHOOSE x \in on : TRUE

View ==
    [workers |-> Workers,
     free    |-> {w \in Workers : slot[w] = None},
     running |-> {x \in Sandboxes : box[x].state = "running"},
     host    |-> [x \in Sandboxes |-> box[x].host],
     first   |-> [w \in Workers |-> FirstOn(w)],
     busy    |-> {x \in Sandboxes : sig[x].busy},
     locked  |-> {x \in Sandboxes : semanticLocked(sig[x])}]

\* The unlocked sandbox of the lowest keepScore, the oldest of equals.
LowestKeep(v) ==
    Leading(PickSemanticVictim(v), LAMBDA s, x : Keep[sig[s]] < Keep[sig[x]])

Answers(s) ==
    LET v == View
        sticky == TryStickyResume(v, box[s].host)
        idle == IF sticky # {} THEN sticky ELSE IdleWorkers(v)
    IN  IF idle # {} THEN {[worker |-> w, victim |-> NoVictim] : w \in idle}
        ELSE {[worker |-> v.host[x], victim |-> x] : x \in LowestKeep(v)}

-----------------------------------------------------------------------------
(* Steps of a Resume                                                       *)

Goto(s, to) == pc' = [pc EXCEPT ![s] = to]

\* Resume returns: its deferred removeResumeWaiter runs.
Return(s) ==
    /\ Goto(s, "none")
    /\ age' = [age EXCEPT ![s] = NotListed]

CallResume(s) ==
    /\ pc[s] = "none"
    /\ box[s].state = "suspended"
    /\ Goto(s, "lobby")
    /\ age' = [age EXCEPT ![s] = 0]
    /\ UNCHANGED <<sig, box, slot, knockMu, victim, changes>>

\* One round of awaitKnockerTurn that ends the waiting.
Turn(s) ==
    /\ pc[s] = "lobby"
    /\ Best(s)
    /\ Goto(s, "knock")
    /\ UNCHANGED <<age, sig, box, slot, knockMu, victim, changes>>

LobbyTimeout(s) ==
    /\ pc[s] = "lobby"
    /\ ~Best(s)
    /\ PastDeadline(s)
    /\ Return(s)
    /\ UNCHANGED <<sig, box, slot, knockMu, victim, changes>>

\* ctx.Done between two rounds of the lobby.
HangUp(s) ==
    /\ pc[s] = "lobby"
    /\ Return(s)
    /\ UNCHANGED <<sig, box, slot, knockMu, victim, changes>>

\* Takes knockMu and ranks again; one that is no longer the best goes back.
Knock(s) ==
    /\ pc[s] = "knock"
    /\ knockMu = None
    /\ IF Best(s) THEN Goto(s, "decide") /\ knockMu' = s
                  ELSE Goto(s, "lobby") /\ UNCHANGED knockMu
    /\ UNCHANGED <<age, sig, box, slot, victim, changes>>

\* reserveRestore with its arguments swapped.
AdmittedSwapped(s) ==
    /\ pc[s] = "decide"
    /\ \E a \in Answers(s) : slot' = [slot EXCEPT ![a.worker] = a.worker]
    /\ Goto(s, "restore")
    /\ knockMu' = None
    /\ UNCHANGED <<age, sig, box, victim, changes>>

\* SemanticScore.Resume after the Workers were probed: ranks once more, then decides.
Admitted(s) ==
    /\ pc[s] = "decide"
    /\ Best(s)
    /\ \E a \in Answers(s) :
          IF a.victim = NoVictim
          THEN /\ Goto(s, "restore")
               /\ slot' = [slot EXCEPT ![a.worker] = s]
               /\ knockMu' = None
               /\ UNCHANGED victim
          ELSE /\ Goto(s, "evict")
               /\ victim' = a.victim
               /\ UNCHANGED <<slot, knockMu>>
    /\ UNCHANGED <<age, sig, box, changes>>

Overtaken(s) ==
    /\ pc[s] = "decide"
    /\ ~Best(s)
    /\ Goto(s, "lobby")
    /\ knockMu' = None
    /\ UNCHANGED <<age, sig, box, slot, victim, changes>>

NoVictimForEver(s) ==
    /\ pc[s] = "decide"
    /\ Best(s)
    /\ Answers(s) = {}
    /\ Goto(s, "lobby")
    /\ knockMu' = None
    /\ UNCHANGED <<age, sig, box, slot, victim, changes>>

\* Nothing to suspend, all of it busy, or all of it locked: retried until the deadline, if
\* there is one.
NoVictimYet(s) ==
    /\ pc[s] = "decide"
    /\ Best(s)
    /\ Answers(s) = {}
    /\ IF WaitSec = 0 \/ PastDeadline(s) THEN Return(s) ELSE Goto(s, "lobby") /\ UNCHANGED age
    /\ knockMu' = None
    /\ UNCHANGED <<sig, box, slot, victim, changes>>

\* suspendLocked of the victim returns; its Worker is reserved for s.
Evicted(s) ==
    /\ pc[s] = "evict"
    /\ Goto(s, "restore")
    /\ box' = [box EXCEPT ![victim].state = "suspended"]
    /\ slot' = [slot EXCEPT ![box[victim].host] = s]
    /\ knockMu' = None
    /\ victim' = NoVictim
    /\ UNCHANGED <<age, sig, changes>>

EvictFails(s) ==
    /\ pc[s] = "evict"
    /\ Return(s)
    /\ knockMu' = None
    /\ victim' = NoVictim
    /\ UNCHANGED <<sig, box, slot, changes>>

\* The Worker's Restore and the Put; s stays in resumeWaiters until then.
Restored(s) ==
    /\ pc[s] = "restore"
    /\ Return(s)
    /\ \E w \in Workers :
          /\ slot[w] = s
          /\ box' = [box EXCEPT ![s] = [state |-> "running", host |-> w]]
    /\ UNCHANGED <<sig, slot, knockMu, victim, changes>>

RestoreFails(s) ==
    /\ pc[s] = "restore"
    /\ Return(s)
    /\ slot' = [w \in Workers |-> IF slot[w] = s THEN None ELSE slot[w]]
    /\ UNCHANGED <<sig, box, knockMu, victim, changes>>

-----------------------------------------------------------------------------
(* What happens around them                                                *)

\* A client's Suspend, from taking knockMu to releasing it.
Suspend(s) ==
    /\ box[s].state = "running"
    /\ knockMu = None
    /\ box' = [box EXCEPT ![s].state = "suspended"]
    /\ slot' = [slot EXCEPT ![box[s].host] = None]
    /\ UNCHANGED <<age, pc, sig, knockMu, victim, changes>>

\* A heartbeat, a resource push, or what service, wait and deadline have become.
SignalsChange(s) ==
    /\ changes < MaxSignals
    /\ \E m \in Signals \ {sig[s]} : sig' = [sig EXCEPT ![s] = m]
    /\ changes' = changes + 1
    /\ UNCHANGED <<age, pc, box, slot, knockMu, victim>>

\* Time waits for a Resume past its deadline to act.
Tick ==
    /\ Waiting # {}
    /\ \A s \in Waiting : age[s] < MaxAge
    /\ age' = [s \in Sandboxes |-> IF s \in Waiting THEN age[s] + 1 ELSE NotListed]
    /\ UNCHANGED <<pc, sig, box, slot, knockMu, victim, changes>>

-----------------------------------------------------------------------------
(* Specification                                                           *)

Step(s) ==
    \/ Turn(s) \/ LobbyTimeout(s) \/ Knock(s)
    \/ Admitted(s) \/ Overtaken(s) \/ NoVictimYet(s)
    \/ Evicted(s) \/ EvictFails(s) \/ Restored(s) \/ RestoreFails(s)

Next ==
    \/ \E s \in Sandboxes :
          \/ CallResume(s) \/ Step(s) \/ HangUp(s)
          \/ Suspend(s) \/ SignalsChange(s)
    \/ Tick

Spec == Init /\ [][Next]_vars

\* A Resume's polling and calls go on, a waiter for knockMu gets it in the end (a Go
\* mutex that is waited for is handed over), and time passes.
Fairness ==
    /\ \A s \in Sandboxes : WF_vars(Step(s)) /\ SF_vars(Knock(s))
    /\ WF_vars(Tick)

FairSpec == Spec /\ Fairness

-----------------------------------------------------------------------------
(* Properties                                                              *)

\* RequireBestWaiter lets exactly one of the listed waiters through, whatever their
\* scores and however they tie: never two knockers, and never none while some wait.
OneKnocker == Waiting # {} => Cardinality({s \in Waiting : Best(s)}) = 1

\* clamp01 and the soft maps keep every term of keepScore within 0 and 1, so that no signal,
\* not even one out of its range, outweighs the others, and urgency lies between what the
\* deadline and the task profile say: for all of AllSignals, and for those in use.
ScoreBounded == AllBounded /\ \A s \in Sandboxes : Bounded(sig[s])

\* The queue-age boost of admitScore outweighs every keepScore: a Resume is not
\* admitted while another has been listed MaxKeep / WQ minutes longer.
NotOvertaken ==
    [][\A s, x \in Sandboxes :
         pc[s] = "decide" /\ pc'[s] \in {"evict", "restore"} /\ x \in Waiting \ {s}
         => WQ * Unit * TickSec * (age[x] - age[s]) < MaxKeep * 60]_vars

\* Every Resume returns, admitted or not: no order of polls, deadlines, lock holders and
\* restores leaves one in the lobby for ever, once signals stop changing.
ResumesReturn == \A s \in Sandboxes : pc[s] # "none" ~> pc[s] = "none"
=============================================================================
