----------------------------- MODULE KeepScore -----------------------------
(***************************************************************************)
(* keepScore and admitScore of the semantic-score policy, with the default *)
(* weights and a fixed precision: a term of the score is a whole number of *)
(* 1/Unit.  A signal record m has                                          *)
(*   m.phase, m.lock      Semantic.Phase and Lock                          *)
(*   m.deadline, m.left   has it a Deadline, and the seconds until then    *)
(*   m.rated, m.complexity, m.sim, m.confidence                            *)
(*                        has TaskProfile a ComplexitySignal; that signal, *)
(*                        EmbeddingSim and Confidence, in 1/Unit           *)
(*   m.attained, m.wait   AttainedServiceSec and WaitSec                   *)
(*   m.H                  log1p(KeepAliveH), log1p(preemptHRef) being Unit *)
(***************************************************************************)
EXTENDS Integers

\* A number may have any value, also one that no sampler should send.
IsSignal(m) ==
    /\ {m.left, m.complexity, m.sim, m.confidence, m.attained, m.wait, m.H} \subseteq Int
    /\ {m.lock, m.deadline, m.rated} \subseteq BOOLEAN

Unit == 1000

WL == 3
WU == 2
WF == 2
WC == 1
WQ == 2                     \* per minute in the lobby

PriorMix == 300
EmbedAlpha == 200
MinConfidence == 300

clamp01(x) == IF x < 0 THEN 0 ELSE IF x > Unit THEN Unit ELSE x

AtLeast0(x) == IF x < 0 THEN 0 ELSE x

semanticLocked(m) == m.lock \/ m.phase = "tool_loop"

phaseProtect(m) ==
    IF semanticLocked(m) THEN Unit
    ELSE CASE m.phase = "llm_wait" -> Unit \div 5
           [] m.phase = "idle"     -> 0
           [] OTHER                -> Unit \div 2

urgencyOnline(m) == IF m.deadline THEN Unit \div (1 + AtLeast0(m.left)) ELSE 0

\* A missing TaskProfile is one with nothing in it: both give 0.
urgencyPrior(m) ==
    LET complexity == IF m.rated THEN clamp01(Unit \div 2 + m.complexity) ELSE 0
    IN  clamp01(complexity + (EmbedAlpha * clamp01(m.sim)) \div Unit)

urgency(m) ==
    LET online == urgencyOnline(m)
        prior == urgencyPrior(m)
    IN  IF prior <= 0 \/ m.confidence < MinConfidence THEN online
        ELSE IF online <= 0 THEN prior
        ELSE ((Unit - PriorMix) * online + PriorMix * prior) \div Unit

fairnessUnclamped(m) == (Unit * m.wait) \div (1 + AtLeast0(m.attained) + AtLeast0(m.wait))

\* 1 - 1/(1 + wait/(1 + attained))
fairness(m) ==
    LET attained == AtLeast0(m.attained)
        wait == AtLeast0(m.wait)
    IN  (Unit * wait) \div (1 + attained + wait)

\* An unset H is replaced by a GreedyDual-Size priority or 1, never 0.
normalizePreempt(m) == clamp01(m.H)

keepScore(m) ==
    WL * phaseProtect(m) + WU * urgency(m) + WF * fairness(m) + WC * normalizePreempt(m)

queueAging(sec) == (Unit * sec) \div 60

admitScoreWithoutAge(m, sec) == keepScore(m)

\* sec is the time in the lobby.
admitScore(m, sec) == keepScore(m) + WQ * queueAging(AtLeast0(sec))

MaxKeep == (WL + WU + WF + WC) * Unit

-----------------------------------------------------------------------------
(* Bounds                                                                  *)

Bounded(m) ==
    LET online == urgencyOnline(m)
        prior == urgencyPrior(m)
    IN  /\ keepScore(m) \in 0 .. MaxKeep
        /\ urgency(m) \in online .. prior \/ urgency(m) \in prior .. online

\* Every combination of values at which a term of keepScore changes its course.
AllSignals ==
    [phase : {"", "idle", "llm_wait", "tool_loop"}, lock : BOOLEAN,
     deadline : BOOLEAN, left : {-5, 0, 4}, rated : BOOLEAN,
     complexity : {-700, 0, 700}, sim : {-100, 500, 2000}, confidence : {0, 300},
     attained : {-1, 0, 600}, wait : {-5, 0, 3600}, H : {0, 50, 1400}]

AllBounded == \A m \in AllSignals : Bounded(m)
=============================================================================
