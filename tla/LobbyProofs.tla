----------------------------- MODULE LobbyProofs -----------------------------
(***************************************************************************)
(* Proofs about Lobby: the scores are bounded whatever the signals, so     *)
(* that exactly one waiter may knock and none is overtaken by one that has *)
(* waited less by more than MaxKeep / WQ minutes.                          *)
(***************************************************************************)
EXTENDS Lobby, NatLemmas, FiniteSetTheorems

-----------------------------------------------------------------------------
(* The terms of keepScore                                                  *)

LEMMA ClampBounds == ASSUME NEW x \in Int PROVE clamp01(x) \in 0 .. Unit
BY DEF clamp01, Unit

LEMMA AtLeast0Bounds == ASSUME NEW x \in Int PROVE AtLeast0(x) \in Nat
BY DEF AtLeast0

LEMMA PhaseBounds == ASSUME NEW m, IsSignal(m) PROVE phaseProtect(m) \in 0 .. Unit
<1>1. Unit \div 5 = 200 /\ Unit \div 2 = 500
  BY DEF Unit
<1>2. QED
  BY <1>1 DEF phaseProtect, Unit

LEMMA OnlineBounds == ASSUME NEW m, IsSignal(m) PROVE urgencyOnline(m) \in 0 .. Unit
<1>1. 1 + AtLeast0(m.left) \in Nat \ {0} /\ Unit \in Nat
  BY AtLeast0Bounds DEF IsSignal, Unit
<1>2. Unit \div (1 + AtLeast0(m.left)) \in 0 .. Unit
  BY <1>1, DivAtMost
<1>3. QED
  BY <1>2 DEF urgencyOnline, Unit

LEMMA PriorBounds == ASSUME NEW m, IsSignal(m) PROVE urgencyPrior(m) \in 0 .. Unit
<1> DEFINE complexity == IF m.rated THEN clamp01(Unit \div 2 + m.complexity) ELSE 0
           similar == (EmbedAlpha * clamp01(m.sim)) \div Unit
<1>1. Unit \div 2 + m.complexity \in Int /\ m.sim \in Int
  BY DEF IsSignal, Unit
<1>2. complexity \in Int
  <2>1. clamp01(Unit \div 2 + m.complexity) \in 0 .. Unit
    BY <1>1, ClampBounds
  <2>2. QED
    BY <2>1
<1>3. clamp01(m.sim) \in 0 .. Unit
  BY <1>1, ClampBounds
<1>4. similar \in Int
  BY <1>3 DEF EmbedAlpha, Unit
<1> HIDE DEF complexity, similar
<1>5. clamp01(complexity + similar) \in 0 .. Unit
  BY <1>2, <1>4, ClampBounds
<1>6. QED
  BY <1>5 DEF urgencyPrior, complexity, similar

\* The mixture of deadline and task profile lies between the two.
LEMMA UrgencyBounds ==
    ASSUME NEW m, IsSignal(m)
    PROVE  /\ urgency(m) \in 0 .. Unit
           /\ \/ urgency(m) \in urgencyOnline(m) .. urgencyPrior(m)
              \/ urgency(m) \in urgencyPrior(m) .. urgencyOnline(m)
<1> DEFINE online == urgencyOnline(m)
           prior == urgencyPrior(m)
           mixed == ((Unit - PriorMix) * online + PriorMix * prior) \div Unit
<1>1. online \in 0 .. Unit /\ prior \in 0 .. Unit
  BY OnlineBounds, PriorBounds
<1>2. urgency(m) = IF prior <= 0 \/ m.confidence < MinConfidence THEN online
                   ELSE IF online <= 0 THEN prior ELSE mixed
  BY DEF urgency
<1> HIDE DEF online, prior
<1>3. CASE prior <= 0 \/ m.confidence < MinConfidence
  <2>1. urgency(m) = online
    BY <1>2, <1>3
  <2>2. online \in online .. prior \/ online \in prior .. online
    BY <1>1 DEF Unit
  <2>3. QED
    BY <1>1, <2>1, <2>2 DEF online, prior
<1>4. CASE ~(prior <= 0 \/ m.confidence < MinConfidence) /\ online <= 0
  <2>1. urgency(m) = prior
    BY <1>2, <1>4
  <2>2. prior \in online .. prior
    BY <1>1, <1>4 DEF Unit
  <2>3. QED
    BY <1>1, <2>1, <2>2 DEF online, prior
<1>5. CASE ~(prior <= 0 \/ m.confidence < MinConfidence) /\ ~(online <= 0)
  <2>1. urgency(m) = mixed
    BY <1>2, <1>5
  <2>2. mixed = (700 * online + 300 * prior) \div 1000
    BY DEF Unit, PriorMix
  <2>3. mixed \in 0 .. Unit /\ (mixed \in online .. prior \/ mixed \in prior .. online)
    BY <1>1, <2>2 DEF Unit
  <2>4. QED
    BY <2>1, <2>3 DEF online, prior
<1>6. QED
  BY <1>3, <1>4, <1>5

\* Never quite 1: the floor of a fraction whose denominator is the larger by at least one.
LEMMA FairnessBounds == ASSUME NEW m, IsSignal(m) PROVE fairness(m) \in 0 .. Unit - 1
<1> DEFINE attained == AtLeast0(m.attained)
           wait == AtLeast0(m.wait)
<1>1. attained \in Nat /\ wait \in Nat
  BY AtLeast0Bounds DEF IsSignal
<1> HIDE DEF attained, wait
<1>2. /\ Unit * wait \in Nat /\ 1 + attained + wait \in Nat \ {0} /\ Unit \in Nat
      /\ Unit * wait < Unit * (1 + attained + wait)
  BY <1>1 DEF Unit
<1>3. (Unit * wait) \div (1 + attained + wait) \in 0 .. Unit - 1
  BY <1>2, DivBelow
<1>4. QED
  BY <1>3 DEF fairness, attained, wait

\* keepScore stays below MaxKeep by the weight of fairness.
LEMMA KeepBounds ==
    ASSUME NEW m, IsSignal(m)
    PROVE  keepScore(m) \in 0 .. MaxKeep - WF
<1>1. m.H \in Int
  BY DEF IsSignal
<1>2. /\ phaseProtect(m) \in 0 .. Unit /\ urgency(m) \in 0 .. Unit
      /\ fairness(m) \in 0 .. Unit - 1 /\ normalizePreempt(m) \in 0 .. Unit
  BY <1>1, PhaseBounds, UrgencyBounds, FairnessBounds, ClampBounds DEF normalizePreempt
<1>3. ASSUME NEW p \in 0 .. Unit, NEW u \in 0 .. Unit, NEW f \in 0 .. Unit - 1,
             NEW h \in 0 .. Unit
      PROVE  WL * p + WU * u + WF * f + WC * h \in 0 .. MaxKeep - WF
  BY DEF MaxKeep, WL, WU, WF, WC, Unit
<1>4. QED
  BY <1>2, <1>3 DEF keepScore

\* policy/semantic_score.go: whatever the signals say, even out of their ranges, keepScore
\* lies between 0 and the sum of its weights, and urgency between its two sources.
THEOREM EverySignalBounded == ASSUME NEW m, IsSignal(m) PROVE Bounded(m)
<1>1. keepScore(m) \in 0 .. MaxKeep
  BY KeepBounds DEF MaxKeep, WL, WU, WF, WC, Unit
<1>2. QED
  BY <1>1, UrgencyBounds DEF Bounded

-----------------------------------------------------------------------------
(* Type correctness                                                        *)

LEMMA MaxAgeNat == MaxAge \in Nat \ {0}
BY LobbyAssumption DEF MaxAge

\* A victim runs, and is neither busy nor locked.
LEMMA VictimRuns ==
    ASSUME NEW s, NEW a \in Answers(s)
    PROVE  \/ a.victim = NoVictim /\ a.worker \in Workers
           \/ a.victim \in Sandboxes /\ a.worker = box[a.victim].host
<1> DEFINE v == View
           sticky == TryStickyResume(v, box[s].host)
           idle == IF sticky # {} THEN sticky ELSE IdleWorkers(v)
<1>1. idle \subseteq Workers
  BY DEF TryStickyResume, IdleWorkers, View
<1>2. LowestKeep(v) \subseteq PickSemanticVictim(v)
  BY DEF LowestKeep, Leading
<1>3. PickSemanticVictim(v) \subseteq Sandboxes
  BY DEF PickSemanticVictim, View
<1>4. v.host = [x \in Sandboxes |-> box[x].host]
  BY DEF View
<1>5. a \in IF idle # {} THEN {[worker |-> w, victim |-> NoVictim] : w \in idle}
            ELSE {[worker |-> v.host[x], victim |-> x] : x \in LowestKeep(v)}
  BY DEF Answers
<1> HIDE DEF v, idle
<1>6. CASE a \in {[worker |-> w, victim |-> NoVictim] : w \in idle}
  BY <1>1, <1>6
<1>7. CASE a \in {[worker |-> v.host[x], victim |-> x] : x \in LowestKeep(v)}
  BY <1>2, <1>3, <1>4, <1>7
<1>8. QED
  BY <1>5, <1>6, <1>7

LEMMA TypeInit == ASSUME Init PROVE TypeOK
BY LobbyAssumption, MaxAgeNat DEF Init, TypeOK, NotListed

LEMMA ReturnTypes ==
    ASSUME TypeOK, NEW s \in Sandboxes, Return(s)
    PROVE  /\ age' \in [Sandboxes -> NotListed .. MaxAge]
           /\ pc' \in [Sandboxes -> {"none", "lobby", "knock", "decide", "evict", "restore"}]
BY MaxAgeNat DEF TypeOK, Return, Goto, NotListed

LEMMA GotoTypes ==
    ASSUME TypeOK, NEW s \in Sandboxes,
           NEW to \in {"none", "lobby", "knock", "decide", "evict", "restore"}, Goto(s, to)
    PROVE  pc' \in [Sandboxes -> {"none", "lobby", "knock", "decide", "evict", "restore"}]
BY DEF TypeOK, Goto

LEMMA TypeNext == ASSUME TypeOK, [Next]_vars PROVE TypeOK'
<1>1. ASSUME NEW s \in Sandboxes, CallResume(s) PROVE TypeOK'
  BY <1>1, GotoTypes, MaxAgeNat DEF CallResume, TypeOK, NotListed
<1>2. ASSUME NEW s \in Sandboxes, Turn(s) PROVE TypeOK'
  BY <1>2, GotoTypes DEF Turn, TypeOK
<1>3. ASSUME NEW s \in Sandboxes, LobbyTimeout(s) \/ HangUp(s) PROVE TypeOK'
  BY <1>3, ReturnTypes DEF LobbyTimeout, HangUp, TypeOK
<1>4. ASSUME NEW s \in Sandboxes, Knock(s) PROVE TypeOK'
  BY <1>4, GotoTypes DEF Knock, TypeOK
<1>5. ASSUME NEW s \in Sandboxes, Admitted(s) PROVE TypeOK'
  <2>1. PICK a \in Answers(s) :
           IF a.victim = NoVictim
           THEN /\ Goto(s, "restore")
                /\ slot' = [slot EXCEPT ![a.worker] = s]
                /\ knockMu' = None
                /\ UNCHANGED victim
           ELSE /\ Goto(s, "evict")
                /\ victim' = a.victim
                /\ UNCHANGED <<slot, knockMu>>
    BY <1>5 DEF Admitted
  <2>2. UNCHANGED <<age, sig, box, changes>>
    BY <1>5 DEF Admitted
  <2>3. CASE a.victim = NoVictim
    BY <2>1, <2>2, <2>3, GotoTypes DEF TypeOK
  <2>4. CASE a.victim # NoVictim
    <3>1. a.victim \in Sandboxes
      BY <2>4, VictimRuns
    <3>2. QED
      BY <2>1, <2>2, <2>4, <3>1, GotoTypes DEF TypeOK
  <2>5. QED
    BY <2>3, <2>4
<1>6. ASSUME NEW s \in Sandboxes, Overtaken(s) PROVE TypeOK'
  BY <1>6, GotoTypes DEF Overtaken, TypeOK
<1>7. ASSUME NEW s \in Sandboxes, NoVictimYet(s) PROVE TypeOK'
  <2>1. CASE WaitSec = 0 \/ PastDeadline(s)
    BY <1>7, <2>1, ReturnTypes DEF NoVictimYet, TypeOK
  <2>2. CASE ~(WaitSec = 0 \/ PastDeadline(s))
    BY <1>7, <2>2, GotoTypes DEF NoVictimYet, TypeOK
  <2>3. QED
    BY <2>1, <2>2
<1>8. ASSUME NEW s \in Sandboxes, Evicted(s) PROVE TypeOK'
  <2>1. box' \in [Sandboxes -> [state : {"suspended", "running"}, host : Workers \cup {None}]]
    BY <1>8 DEF Evicted, TypeOK
  <2>2. QED
    BY <1>8, <2>1, GotoTypes DEF Evicted, TypeOK
<1>9. ASSUME NEW s \in Sandboxes, EvictFails(s) PROVE TypeOK'
  BY <1>9, ReturnTypes DEF EvictFails, TypeOK
<1>10. ASSUME NEW s \in Sandboxes, Restored(s) PROVE TypeOK'
  BY <1>10, ReturnTypes DEF Restored, TypeOK
<1>11. ASSUME NEW s \in Sandboxes, RestoreFails(s) PROVE TypeOK'
  BY <1>11, ReturnTypes DEF RestoreFails, TypeOK
<1>12. ASSUME NEW s \in Sandboxes, Suspend(s) PROVE TypeOK'
  <2>1. box' \in [Sandboxes -> [state : {"suspended", "running"}, host : Workers \cup {None}]]
    BY <1>12 DEF Suspend, TypeOK
  <2>2. QED
    BY <1>12, <2>1 DEF Suspend, TypeOK
<1>13. ASSUME NEW s \in Sandboxes, SignalsChange(s) PROVE TypeOK'
  BY <1>13, LobbyAssumption DEF SignalsChange, TypeOK
<1>14. ASSUME Tick PROVE TypeOK'
  <2>1. age' \in [Sandboxes -> NotListed .. MaxAge]
    BY <1>14, MaxAgeNat DEF Tick, TypeOK, NotListed, Waiting
  <2>2. QED
    BY <1>14, <2>1 DEF Tick, TypeOK
<1>15. ASSUME UNCHANGED vars PROVE TypeOK'
  BY <1>15 DEF vars, TypeOK
<1>16. QED
  BY <1>1, <1>2, <1>3, <1>4, <1>5, <1>6, <1>7, <1>8, <1>9, <1>10, <1>11, <1>12, <1>13, <1>14,
     <1>15 DEF Next, Step

\* Ages, records, slots and the lock keep the types of the scheduler's fields.
THEOREM TypeCorrect == Spec => []TypeOK
<1>1. Init => TypeOK
  BY TypeInit
<1>2. TypeOK /\ [Next]_vars => TypeOK'
  BY TypeNext
<1>3. QED
  BY <1>1, <1>2, PTL DEF Spec

\* clamp01 and the soft maps bound every term of keepScore: for the combinations in
\* AllSignals and for the signals of every sandbox.
THEOREM ScoresBounded == Spec => []ScoreBounded
<1>1. AllBounded
  <2> DEFINE Ph == {"", "idle", "llm_wait", "tool_loop"}
             Le == {-5, 0, 4}
             Co == {-700, 0, 700}
             Si == {-100, 500, 2000}
             Cf == {0, 300}
             At == {-1, 0, 600}
             Wa == {-5, 0, 3600}
             Hs == {0, 50, 1400}
  <2>1. AllSignals =
           [phase : Ph, lock : BOOLEAN, deadline : BOOLEAN, left : Le, rated : BOOLEAN,
            complexity : Co, sim : Si, confidence : Cf, attained : At, wait : Wa, H : Hs]
    BY Zenon DEF AllSignals
  <2>2. /\ Le \subseteq Int /\ Co \subseteq Int /\ Si \subseteq Int /\ Cf \subseteq Int
        /\ At \subseteq Int /\ Wa \subseteq Int /\ Hs \subseteq Int
    OBVIOUS
  <2> HIDE DEF Ph, Le, Co, Si, Cf, At, Wa, Hs
  <2>3. ASSUME NEW m \in AllSignals PROVE IsSignal(m)
    BY <2>1, <2>2 DEF IsSignal
  <2>4. QED
    BY <2>3, EverySignalBounded DEF AllBounded
<1>2. ASSUME TypeOK PROVE ScoreBounded
  <2>1. ASSUME NEW s \in Sandboxes PROVE IsSignal(sig[s])
    BY <1>2, LobbyAssumption DEF TypeOK
  <2>2. QED
    BY <1>1, <2>1, EverySignalBounded DEF ScoreBounded
<1>3. QED
  BY <1>2, TypeCorrect, PTL

-----------------------------------------------------------------------------
(* Ranking                                                                 *)

\* The score of a waiter is its keepScore and a boost that grows with its age.
LEMMA AdmitIs ==
    ASSUME TypeOK, NEW s \in Waiting
    PROVE  /\ s \in Sandboxes /\ IsSignal(sig[s])
           /\ age[s] \in 0 .. MaxAge
           /\ TickSec * age[s] \in Nat
           /\ Admit(s) = keepScore(sig[s]) + WQ * ((Unit * (TickSec * age[s])) \div 60)
<1>1. s \in Sandboxes /\ sig[s] \in Signals
  BY DEF TypeOK, Waiting
<1>2. IsSignal(sig[s])
  BY <1>1, LobbyAssumption
<1>3. age[s] \in 0 .. MaxAge
  BY <1>1, MaxAgeNat DEF TypeOK, Waiting, NotListed
<1>4. TickSec * age[s] \in Nat
  BY <1>3, LobbyAssumption, MaxAgeNat
<1>5. Admit(s) = admitScore(sig[s], TickSec * age[s])
  BY <1>1, <1>3 DEF Admit, AdmitAfter
<1>6. AtLeast0(TickSec * age[s]) = TickSec * age[s]
  BY <1>4 DEF AtLeast0
<1>7. QED
  BY <1>1, <1>2, <1>3, <1>4, <1>5, <1>6 DEF admitScore, queueAging

\* All scores lie below one bound.
LEMMA AdmitBounded ==
    ASSUME TypeOK
    PROVE  \E n \in Nat : \A s \in Waiting : Admit(s) \in 0 .. n
<1> DEFINE n == MaxKeep + WQ * ((Unit * (TickSec * MaxAge)) \div 60)
<1>1. TickSec * MaxAge \in Nat
  BY LobbyAssumption, MaxAgeNat
<1>2. n \in Nat
  BY <1>1 DEF MaxKeep, WL, WU, WF, WC, WQ, Unit
<1>3. ASSUME NEW s \in Waiting PROVE Admit(s) \in 0 .. n
  <2>1. /\ IsSignal(sig[s]) /\ age[s] \in 0 .. MaxAge /\ TickSec * age[s] \in Nat
        /\ Admit(s) = keepScore(sig[s]) + WQ * ((Unit * (TickSec * age[s])) \div 60)
    BY AdmitIs
  <2>2. TickSec * age[s] <= TickSec * MaxAge
    BY <2>1, LobbyAssumption, MaxAgeNat
  <2>3. keepScore(sig[s]) \in 0 .. MaxKeep - WF
    BY <2>1, KeepBounds
  <2>4. ASSUME NEW k \in 0 .. MaxKeep - WF, NEW x \in Nat, NEW y \in Nat, x <= y
        PROVE  k + WQ * ((Unit * x) \div 60) \in 0 .. MaxKeep + WQ * ((Unit * y) \div 60)
    BY <2>4 DEF MaxKeep, WL, WU, WF, WC, WQ, Unit
  <2>5. QED
    BY <1>1, <2>1, <2>2, <2>3, <2>4
<1>4. QED
  BY <1>2, <1>3

\* There is a best waiter: one of the highest score, and of those the oldest.
LEMMA SomeBest ==
    ASSUME TypeOK, Waiting # {}
    PROVE  \E s \in Waiting : Best(s)
<1>1. PICK n \in Nat : \A s \in Waiting : Admit(s) \in 0 .. n
  BY AdmitBounded
<1> DEFINE Gaps == {n - Admit(s) : s \in Waiting}
<1>2. PICK g \in Gaps : \A h \in Gaps : g <= h
  <2>1. Gaps \subseteq Nat /\ Gaps # {}
    BY <1>1
  <2>2. QED
    BY <2>1, LeastNat
<1>3. PICK top \in Waiting : g = n - Admit(top)
  BY <1>2
<1>4. ASSUME NEW x \in Waiting PROVE Admit(x) <= Admit(top)
  <2>1. n - Admit(top) <= n - Admit(x)
    BY <1>2, <1>3
  <2>2. Admit(x) \in 0 .. n /\ Admit(top) \in 0 .. n
    BY <1>1
  <2>3. QED
    BY <2>1, <2>2
<1> DEFINE Tops == {s \in Waiting : Admit(s) = Admit(top)}
<1>5. PICK s \in Tops : \A x \in Tops : s <= x
  <2>1. Tops \subseteq Nat /\ Tops # {}
    BY LobbyAssumption DEF Waiting
  <2>2. QED
    BY <2>1, LeastNat
<1>6. ASSUME NEW x \in Waiting \ {s}
      PROVE  Admit(x) < Admit(s) \/ (Admit(x) = Admit(s) /\ s < x)
  <2>1. Admit(s) = Admit(top) /\ Admit(x) <= Admit(s)
    BY <1>4, <1>5
  <2>2. Admit(x) \in Int /\ Admit(s) \in Int /\ x \in Nat /\ s \in Nat /\ s # x
    BY <1>1, LobbyAssumption DEF Waiting
  <2>3. Admit(x) = Admit(s) => s <= x
    BY <1>5, <2>1
  <2>4. QED
    BY <2>1, <2>2, <2>3
<1>7. QED
  BY <1>6 DEF Best

\* No two waiters are the best.
LEMMA OneBest ==
    ASSUME TypeOK, NEW s \in Waiting, NEW x \in Waiting, Best(s), Best(x)
    PROVE  s = x
<1>1. PICK n \in Nat : \A y \in Waiting : Admit(y) \in 0 .. n
  BY AdmitBounded
<1>2. Admit(s) \in Int /\ Admit(x) \in Int /\ s \in Nat /\ x \in Nat
  BY <1>1, LobbyAssumption DEF Waiting
<1>3. SUFFICES ASSUME s # x PROVE FALSE
  OBVIOUS
<1>4. /\ Admit(x) < Admit(s) \/ (Admit(x) = Admit(s) /\ s < x)
      /\ Admit(s) < Admit(x) \/ (Admit(s) = Admit(x) /\ x < s)
  BY <1>3 DEF Best
<1>5. QED
  BY <1>2, <1>4

\* RequireBestWaiter lets exactly one of the listed waiters through, whatever their number,
\* their signals and their ages: never two knockers, never none.
THEOREM ExactlyOneKnocker == Spec => []OneKnocker
<1>1. ASSUME TypeOK PROVE OneKnocker
  <2>1. SUFFICES ASSUME Waiting # {} PROVE Cardinality({s \in Waiting : Best(s)}) = 1
    BY DEF OneKnocker
  <2>2. PICK s \in Waiting : Best(s)
    BY <1>1, <2>1, SomeBest
  <2>3. {x \in Waiting : Best(x)} = {s}
    BY <1>1, <2>2, OneBest
  <2>4. QED
    BY <2>3, FS_Singleton
<1>2. QED
  BY <1>1, TypeCorrect, PTL

-----------------------------------------------------------------------------
(* Nobody is overtaken for long                                            *)

\* A Resume goes on past its decision only if it is the best.
LEMMA AdmittedIsBest ==
    ASSUME TypeOK, [Next]_vars, NEW s \in Sandboxes, pc[s] = "decide",
           pc'[s] \in {"evict", "restore"}
    PROVE  Best(s)
<1>1. ASSUME NEW t \in Sandboxes, NEW to, Goto(t, to), t # s PROVE FALSE
  BY <1>1 DEF Goto, TypeOK
<1>2. ASSUME NEW to, to \in {"none", "lobby", "knock", "decide"}, Goto(s, to) PROVE FALSE
  BY <1>2 DEF Goto, TypeOK
<1>3. ASSUME UNCHANGED pc PROVE FALSE
  BY <1>3
<1>4. ASSUME NEW t \in Sandboxes, Admitted(t) PROVE Best(s)
  <2>1. Goto(t, "restore") \/ Goto(t, "evict")
    BY <1>4 DEF Admitted
  <2>2. QED
    BY <1>1, <1>4, <2>1 DEF Admitted
<1>5. ASSUME NEW t \in Sandboxes, CallResume(t) \/ Turn(t) \/ LobbyTimeout(t) \/ Knock(t)
             \/ Overtaken(t) \/ NoVictimYet(t) \/ EvictFails(t) \/ Restored(t)
             \/ RestoreFails(t) \/ HangUp(t)
      PROVE  FALSE
  <2>1. \E to \in {"none", "lobby", "knock", "decide"} : Goto(t, to)
    BY <1>5 DEF CallResume, Turn, LobbyTimeout, Knock, Overtaken, NoVictimYet, EvictFails,
                Restored, RestoreFails, HangUp, Return
  <2>2. QED
    BY <1>1, <1>2, <2>1
<1>6. ASSUME NEW t \in Sandboxes, Evicted(t) PROVE FALSE
  <2>1. pc[t] = "evict" /\ Goto(t, "restore")
    BY <1>6 DEF Evicted
  <2>2. QED
    BY <1>1, <2>1
<1>7. ASSUME NEW t \in Sandboxes, Suspend(t) \/ SignalsChange(t) PROVE FALSE
  BY <1>3, <1>7 DEF Suspend, SignalsChange
<1>8. ASSUME Tick \/ UNCHANGED vars PROVE FALSE
  BY <1>3, <1>8 DEF Tick, vars
<1>9. QED
  BY <1>4, <1>5, <1>6, <1>7, <1>8 DEF Next, Step

\* A Resume is in resumeWaiters from its call until it returns.
ListedWhileIn == \A s \in Sandboxes : pc[s] = "none" <=> age[s] = NotListed

LInv == TypeOK /\ ListedWhileIn

LEMMA LInvNext == ASSUME LInv, [Next]_vars PROVE LInv'
<1>1. TypeOK /\ TypeOK'
  BY TypeNext DEF LInv
<1>2. ASSUME NEW s \in Sandboxes, Return(s) PROVE ListedWhileIn'
  BY <1>1, <1>2 DEF LInv, ListedWhileIn, TypeOK, Return, Goto
<1>3. ASSUME NEW s \in Sandboxes, NEW to, to # "none", pc[s] # "none", Goto(s, to), UNCHANGED age
      PROVE  ListedWhileIn'
  BY <1>1, <1>3 DEF LInv, ListedWhileIn, TypeOK, Goto
<1>4. ASSUME UNCHANGED <<age, pc>> PROVE ListedWhileIn'
  BY <1>4 DEF LInv, ListedWhileIn
<1>5. ASSUME NEW s \in Sandboxes, CallResume(s) PROVE ListedWhileIn'
  BY <1>1, <1>5 DEF LInv, ListedWhileIn, TypeOK, CallResume, Goto, NotListed
<1>6. ASSUME NEW s \in Sandboxes, Step(s) \/ HangUp(s) PROVE ListedWhileIn'
  <2>1. \/ Return(s)
        \/ /\ pc[s] # "none" /\ UNCHANGED age
           /\ \E to \in {"lobby", "knock", "decide", "evict", "restore"} : Goto(s, to)
    BY <1>6 DEF Step, HangUp, Turn, LobbyTimeout, Knock, Admitted, Overtaken, NoVictimYet,
                Evicted, EvictFails, Restored, RestoreFails
  <2>2. QED
    BY <1>2, <1>3, <2>1
<1>7. ASSUME NEW s \in Sandboxes, Suspend(s) \/ SignalsChange(s) PROVE ListedWhileIn'
  BY <1>4, <1>7 DEF Suspend, SignalsChange
<1>8. ASSUME Tick PROVE ListedWhileIn'
  <2>1. ASSUME NEW s \in Sandboxes PROVE age'[s] = NotListed <=> age[s] = NotListed
    <3>1. age'[s] = IF s \in Waiting THEN age[s] + 1 ELSE NotListed
      BY <1>8 DEF Tick
    <3>2. s \in Waiting => age[s] \in 0 .. MaxAge
      BY <1>1, AdmitIs
    <3>3. QED
      BY <3>1, <3>2, MaxAgeNat DEF Waiting, NotListed
  <2>2. QED
    BY <1>8, <2>1 DEF LInv, ListedWhileIn, Tick
<1>9. ASSUME UNCHANGED vars PROVE ListedWhileIn'
  BY <1>4, <1>9 DEF vars
<1>10. QED
  BY <1>1, <1>5, <1>6, <1>7, <1>8, <1>9 DEF LInv, Next

LEMMA LInvariance == Spec => []LInv
<1>1. Init => LInv
  BY TypeInit DEF Init, LInv, ListedWhileIn
<1>2. LInv /\ [Next]_vars => LInv'
  BY LInvNext
<1>3. QED
  BY <1>1, <1>2, PTL DEF Spec

\* What the scores of a best waiter s and another one x say of their ages: x keeps less than
\* MaxKeep, and the boosts round down.
LEMMA BoostOutweighs ==
    ASSUME NEW ks \in 0 .. MaxKeep - WF, NEW kx \in 0 .. MaxKeep - WF,
           NEW ts \in Nat, NEW tx \in Nat,
           kx + WQ * ((Unit * tx) \div 60) <= ks + WQ * ((Unit * ts) \div 60)
    PROVE  WQ * Unit * (tx - ts) < MaxKeep * 60
<1>1. ks \in 0 .. 7998 /\ kx \in 0 .. 7998
  BY DEF MaxKeep, WL, WU, WF, WC, Unit
<1>2. PICK qs \in Nat, qx \in Nat :
         /\ qs = (1000 * ts) \div 60 /\ qx = (1000 * tx) \div 60
         /\ 60 * qs <= 1000 * ts /\ 1000 * tx <= 60 * qx + 59
  OBVIOUS
<1>3. 2 * qx <= 7998 + 2 * qs
  BY <1>1, <1>2 DEF WQ, Unit
<1>4. 2 * 1000 * (tx - ts) < 8000 * 60
  BY <1>2, <1>3
<1>5. QED
  BY <1>4 DEF MaxKeep, WL, WU, WF, WC, WQ, Unit

\* The queue-age boost of admitScore outweighs every keepScore: no order of signals, polls and
\* lock holders admits a Resume while another has been listed MaxKeep / WQ minutes longer.
THEOREM NobodyOvertaken == Spec => NotOvertaken
<1>1. ASSUME LInv, [Next]_vars, NEW s \in Sandboxes, NEW x \in Sandboxes, pc[s] = "decide",
             pc'[s] \in {"evict", "restore"}, x \in Waiting \ {s}
      PROVE  WQ * Unit * TickSec * (age[x] - age[s]) < MaxKeep * 60
  <2>1. TypeOK /\ s \in Waiting
    BY <1>1 DEF LInv, ListedWhileIn, Waiting
  <2>2. Best(s)
    BY <1>1, <2>1, AdmittedIsBest
  <2>3. /\ IsSignal(sig[s]) /\ TickSec * age[s] \in Nat /\ age[s] \in 0 .. MaxAge
        /\ Admit(s) = keepScore(sig[s]) + WQ * ((Unit * (TickSec * age[s])) \div 60)
    BY <2>1, AdmitIs
  <2>4. /\ IsSignal(sig[x]) /\ TickSec * age[x] \in Nat /\ age[x] \in 0 .. MaxAge
        /\ Admit(x) = keepScore(sig[x]) + WQ * ((Unit * (TickSec * age[x])) \div 60)
    BY <1>1, <2>1, AdmitIs
  <2>5. Admit(x) <= Admit(s)
    <3>1. PICK n \in Nat : \A y \in Waiting : Admit(y) \in 0 .. n
      BY <2>1, AdmitBounded
    <3>2. Admit(x) \in Int /\ Admit(s) \in Int
      BY <1>1, <2>1, <3>1
    <3>3. QED
      BY <1>1, <2>2, <3>2 DEF Best
  <2>6. keepScore(sig[s]) \in 0 .. MaxKeep - WF /\ keepScore(sig[x]) \in 0 .. MaxKeep - WF
    BY <2>3, <2>4, KeepBounds
  <2>7. WQ * Unit * (TickSec * age[x] - TickSec * age[s]) < MaxKeep * 60
    BY <2>3, <2>4, <2>5, <2>6, BoostOutweighs
  <2>8. WQ * Unit * TickSec * (age[x] - age[s]) =
           WQ * Unit * (TickSec * age[x] - TickSec * age[s])
    <3>1. TickSec \in Nat /\ age[x] \in Int /\ age[s] \in Int
      BY <2>3, <2>4, LobbyAssumption
    <3>2. QED
      BY <3>1 DEF WQ, Unit
  <2>9. QED
    BY <2>7, <2>8
<1>2. LInv /\ [Next]_vars =>
        [\A s, x \in Sandboxes :
           pc[s] = "decide" /\ pc'[s] \in {"evict", "restore"} /\ x \in Waiting \ {s}
           => WQ * Unit * TickSec * (age[x] - age[s]) < MaxKeep * 60]_vars
  BY <1>1
<1>3. QED
  BY <1>2, LInvariance, PTL DEF Spec, NotOvertaken
=============================================================================
