----------------------------- MODULE CallClaims ------------------------------
(***************************************************************************)
(* Statements the repository makes about calls and positions, as formulas  *)
(* over CallTrading. The code does not keep them: each has a run of its    *)
(* own, and the README retells the behaviour TLC finds.                    *)
(***************************************************************************)
EXTENDS CallTrading

\* docs/ARCHITECTURE.md, "Call lifecycle", draws "voided" from "active" only,
\* and src/src/db.rs calls a row a commitment that cannot be edited out.
VerdictsAreFinal ==
    [][\A c \in Ids : status[c] \in Terminal => status'[c] = status[c]]_vars

\* src/src/config.rs: "Max calls with an open position at one time".
PositionsCapped == Cardinality(OpenPositions) <= MaxPositions

\* src/src/scanner.rs: "Sells fire BEFORE the call row's status flips".
SellBeforeFlip ==
    [][\A c \in Ids : status[c] = "active" /\ status'[c] \in Outcomes
                      /\ buySig[c] = "filled"
                      => sellSig[c] \/ sellFails[c] >= SellRetryMax]_vars
=============================================================================
