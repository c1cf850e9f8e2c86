--------------------------- MODULE MCSignalTunes ---------------------------
(***************************************************************************)
(* Two handlers, two knobs besides the prompt, and evidence that just      *)
(* meets every floor. Few is a bound: the last proposal is made, and       *)
(* whatever is done once it is made, by one handler at a time.             *)
(***************************************************************************)
EXTENDS SignalTunes, TLC

CONSTANTS h1, h2, k1, k2

MCHandlers == {h1, h2}
MCKnobs == {k1, k2}
MCEvidence ==
    {[currentN |-> 10, current |-> 0, proposed |-> 500, rejected |-> None,
      holdoutN |-> 1, holdout |-> 0]}
Few ==
    LET busy   == {h \in Handlers : handler[h].pc # "idle"}
        coming == {h \in busy : handler[h].pc = "insert"}
        made   == Len(proposals) + Cardinality(coming)
    IN  /\ made <= MaxProposals
        /\ made = MaxProposals => Cardinality(busy) <= 1
Symmetric == Permutations(MCHandlers) \cup Permutations(MCKnobs)
=============================================================================
