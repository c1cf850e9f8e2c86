----------------------------- MODULE TokenScore -----------------------------
(***************************************************************************)
(* How the scores of one analysis become a confidence and a class          *)
(* (Confidence::from_scores, src/src/signals/mod.rs).                      *)
(*                                                                         *)
(* A score is [layer, type, score] with score in 0..100; an analysis       *)
(* yields a sequence of them.  The f64 products of the source are written  *)
(* as integer quotients: they agree on every momentum and distribution     *)
(* from 0 to 100.                                                          *)
(***************************************************************************)
EXTENDS Integers, Sequences, FiniteSets, Functions

PatternClasses == {"STAIRCASE", "GRINDER", "SPRING"}
VetoSignals    == {"permanent_delegate", "default_frozen", "non_transferable"}
Classes == PatternClasses \cup
    {"SURGE", "DEAD", "ACTIVE_TRAP", "DEVELOPING", "CRASHING", "UNSAFE"}

Scores == Seq([layer : STRING, type : STRING, score : 0 .. 100])

(***************************************************************************)
(* The sum and the number of the scores of a layer.                        *)
(***************************************************************************)
OfLayer(scores, layer) == {i \in DOMAIN scores : scores[i].layer = layer}
LayerSum(scores, layer) ==
    LET I == OfLayer(scores, layer)
    IN  SumFunctionOnSet([i \in I |-> scores[i].score], I)

(***************************************************************************)
(* The mean of two layer means, the second weighted by num / den; a layer  *)
(* without a score does not count.                                         *)
(***************************************************************************)
MeanOfMeans(scores, first, second, num, den) ==
    LET n == Cardinality(OfLayer(scores, first))
        k == Cardinality(OfLayer(scores, second))
        a == LayerSum(scores, first)
        b == num * LayerSum(scores, second)
    IN  IF n = 0 /\ k = 0 THEN 0
        ELSE IF k = 0 THEN a \div n
        ELSE IF n = 0 THEN b \div (den * k)
        ELSE (a * den * k + b * n) \div (2 * n * den * k)

MomentumOf(scores)     == MeanOfMeans(scores, "Microstructure", "SmartMoney", 1, 1)
DistributionOf(scores) == MeanOfMeans(scores, "Safety", "OnChain", 1, 2)

(***************************************************************************)
(* Well distributed and quiet is a loaded spring, concentrated is a trap.  *)
(***************************************************************************)
SpringOf(m, d) ==
    IF d > 50 /\ m < 40      THEN (8 * d + 200) \div 10
    ELSE IF d > 50 /\ m > 60 THEN (d + m) \div 2
    ELSE IF d < 30           THEN (3 * d) \div 10
    ELSE d \div 2

(***************************************************************************)
(* The first score of a type, or the value the source assumes without it.  *)
(***************************************************************************)
ScoreOf(scores, type, absent) ==
    LET I == {i \in DOMAIN scores : scores[i].type = type}
    IN  IF I = {} THEN absent
        ELSE scores[CHOOSE i \in I : \A j \in I : i <= j].score

HasScore(scores, type) == \E i \in DOMAIN scores : scores[i].type = type

LastScoreOf(scores, type, absent) ==
    LET I == {i \in DOMAIN scores : scores[i].type = type}
    IN  IF I = {} THEN absent
        ELSE scores[CHOOSE i \in I : \A j \in I : i >= j].score

Vetoed(scores) == \E i \in DOMAIN scores :
                      scores[i].score = 0 /\ scores[i].type \in VetoSignals

Crashing(scores) ==
    /\ ScoreOf(scores, "tx_rate", 0) >= 30
    /\ ScoreOf(scores, "tx_success_rate", 100) < 30
    /\ \/ ScoreOf(scores, "velocity", 100) < 30
       \/ HasScore(scores, "velocity_exit_warning")

Congested(scores, d) ==
    /\ d > 50
    /\ HasScore(scores, "demand_congestion")
    /\ ScoreOf(scores, "demand_congestion", 0) > 70
    /\ ScoreOf(scores, "recency", 0) >= 60
    /\ ScoreOf(scores, "tx_rate", 0) >= 30

(***************************************************************************)
(* The class, the first that fits.                                         *)
(***************************************************************************)
ShapeOf(m, d) ==
    IF m > 70 /\ d > 50      THEN "STAIRCASE"
    ELSE IF m > 70 /\ d < 30 THEN "SURGE"
    ELSE IF m < 30 /\ d > 50 THEN "SPRING"
    ELSE IF m < 20 /\ d < 30 THEN "DEAD"
    ELSE IF m > 50 /\ d < 40 THEN "ACTIVE_TRAP"
    ELSE "DEVELOPING"

ClassOf(scores) ==
    IF Vetoed(scores)        THEN "UNSAFE"
    ELSE IF Crashing(scores) THEN "CRASHING"
    ELSE IF Congested(scores, DistributionOf(scores)) THEN "GRINDER"
    ELSE ShapeOf(MomentumOf(scores), DistributionOf(scores))

(***************************************************************************)
(* The weighted total: half momentum, two fifths distribution, one tenth   *)
(* spring; a tenth more, then a twentieth more, for a spread-out holder    *)
(* base; eight more for a pattern; nothing at all for an unsafe mint.      *)
(***************************************************************************)
BaseTotal(m, d) == (5 * m + 4 * d + SpringOf(m, d)) \div 10

WithBonus(total, topHolder) ==
    LET wide == IF topHolder >= 75 THEN (total * 11) \div 10 ELSE total
    IN  IF topHolder >= 90 THEN (wide * 105) \div 100 ELSE wide

PatternBonus(class) == IF class \in PatternClasses THEN 8 ELSE 0

TotalOf(m, d, topHolder, class) ==
    LET total == WithBonus(BaseTotal(m, d), topHolder) + PatternBonus(class)
    IN  IF class = "UNSAFE" THEN 0 ELSE IF total > 100 THEN 100 ELSE total

FromScores(scores) ==
    LET class == ClassOf(scores)
    IN  [class |-> class,
         total |-> TotalOf(MomentumOf(scores), DistributionOf(scores),
                           LastScoreOf(scores, "top_holder", 5), class)]
=============================================================================
