---------------------------- MODULE TuneEvidence ----------------------------
(***************************************************************************)
(* The arithmetic behind a tune of the signal gates (src/src/mcp.rs): the  *)
(* closed calls are split by a candidate threshold, the two sides and the  *)
(* newest slice are averaged, and the averages must clear fixed floors     *)
(* twice: in rank_tune_candidates, which offers the candidate, and in      *)
(* propose_tune, which takes the evidence back from the agent.             *)
(*                                                                         *)
(* A closed call is [mark, pnl]: the value the field gates on and the      *)
(* result in whole percent, either of which may be None.  The tape is the  *)
(* sequence of closed calls by called_at.  A mean is kept in hundredths of *)
(* a percent, as round2 leaves it in the evidence.                         *)
(***************************************************************************)
EXTENDS Integers, Sequences, FiniteSets, Functions

CONSTANTS None,
          EvidenceFloor, \* calls, EVIDENCE_FLOOR
          EffectFloor,   \* hundredths of a percent, EFFECT_FLOOR_PCT
          SpreadFloor,   \* hundredths of a percent, SPREAD_FLOOR_PCT
          HoldoutPart    \* the holdout is one call in HoldoutPart

ASSUME EvidenceAssumption ==
    /\ EvidenceFloor \in Nat \ {0} /\ HoldoutPart \in Nat \ {0, 1}
    /\ EffectFloor \in Nat /\ SpreadFloor \in Nat
    /\ None \notin Int

(***************************************************************************)
(* a / n for n > 0, rounded half away from zero as f64::round does.        *)
(***************************************************************************)
RoundDiv(a, n) == IF a >= 0 THEN (2 * a + n) \div (2 * n)
                            ELSE -((n - 2 * a) \div (2 * n))

PnlSum(tape, I) == SumFunctionOnSet([i \in I |-> tape[i].pnl], I)
Priced(tape, I) == {i \in I : tape[i].pnl # None}

(***************************************************************************)
(* round2 of the mean result over the calls I that have one.               *)
(***************************************************************************)
MeanOf(tape, I) ==
    LET P == Priced(tape, I)
    IN  IF P = {} THEN None
        ELSE RoundDiv(100 * PnlSum(tape, P), Cardinality(P))

(***************************************************************************)
(* A max_* gate lets a call through when its mark is not above the         *)
(* candidate; a call without the mark passes (call_passes).  A min_* gate  *)
(* is the mirror image.                                                    *)
(***************************************************************************)
CallPasses(call, cand) == call.mark = None \/ call.mark <= cand

(***************************************************************************)
(* The newest calls kept out as holdout: at least one, never all.          *)
(***************************************************************************)
HoldoutSize(n) ==
    LET part == RoundDiv(n, HoldoutPart)
        some == IF part < 1 THEN 1 ELSE part
    IN  IF some > n - 1 THEN n - 1 ELSE some

Holdout(tape) == Len(tape) - HoldoutSize(Len(tape)) + 1 .. Len(tape)

(***************************************************************************)
(* One row of the sweep: the evidence propose_tune is given, and the two   *)
(* figures only the ranker looks at.  The effect is rounded once from the  *)
(* unrounded mean, the evidence carries the rounded mean.                  *)
(***************************************************************************)
EvaluateCandidate(tape, cand) ==
    LET all      == DOMAIN tape
        passing  == {i \in all : CallPasses(tape[i], cand)}
        held     == passing \cap Holdout(tape)
        current  == IF MeanOf(tape, all) = None THEN 0 ELSE MeanOf(tape, all)
        priced   == Priced(tape, passing)
    IN  [currentN  |-> Len(tape),
         current   |-> MeanOf(tape, all),
         passing   |-> Cardinality(passing),
         proposed  |-> MeanOf(tape, passing),
         rejected  |-> MeanOf(tape, all \ passing),
         holdoutN  |-> Cardinality(held),
         holdout   |-> MeanOf(tape, held),
         effect    |-> IF priced = {} THEN 0
                       ELSE RoundDiv(100 * PnlSum(tape, priced)
                                       - current * Cardinality(priced),
                                     Cardinality(priced))]

(***************************************************************************)
(* The floors of propose_tune, in its order: current, proposed, effect,    *)
(* holdout and, when the evidence has a rejected mean, the spread.         *)
(***************************************************************************)
FloorsAccept(ev) ==
    /\ ev.currentN >= EvidenceFloor
    /\ ev.current # None /\ ev.proposed # None
    /\ ev.proposed - ev.current >= EffectFloor
    /\ ev.holdoutN >= 1
    /\ ev.holdout # None => ev.holdout >= 0
    /\ ev.rejected # None => ev.proposed - ev.rejected >= SpreadFloor

(***************************************************************************)
(* The floors of rank_tune_candidates.  A tape below the evidence floor is *)
(* not ranked at all.                                                      *)
(***************************************************************************)
RankOffers(tape, cand) ==
    LET row == EvaluateCandidate(tape, cand)
    IN  /\ Len(tape) >= EvidenceFloor
        /\ row.passing >= EvidenceFloor
        /\ row.effect >= EffectFloor
        /\ row.holdoutN >= 1
        /\ row.holdout # None /\ row.holdout >= 0
        /\ row.proposed # None /\ row.rejected # None
        /\ row.proposed - row.rejected >= SpreadFloor
=============================================================================
