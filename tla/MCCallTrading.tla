---------------------------- MODULE MCCallTrading ----------------------------
(* Instances of CallTrading for TLC.                                        *)
EXTENDS CallTrading, TLC

Symmetry == Permutations(Mints)
=============================================================================
