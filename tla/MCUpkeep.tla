------------------------------ MODULE MCUpkeep ------------------------------
(***************************************************************************)
(* What runs beside the calls: the smart wallets, the digest of the hour   *)
(* and the anchor.  They share no state, so a behaviour runs one of them.  *)
(***************************************************************************)
EXTENDS SmartWallets, HourDigest, AnchorBump

VARIABLE part

vars == <<walletVars, digestVars, anchorVars, part>>

Init ==
    /\ part \in {"wallets", "digest", "anchor"}
    /\ WalletInit /\ DigestInit /\ AnchorInit
    /\ part # "anchor" => dest = Lounge /\ anchor = NoForward

WalletPart == part = "wallets" /\ WalletNext /\ UNCHANGED <<digestVars, anchorVars, part>>
DigestPart == part = "digest" /\ DigestNext /\ UNCHANGED <<walletVars, anchorVars, part>>
AnchorPart == part = "anchor" /\ AnchorNext /\ UNCHANGED <<walletVars, digestVars, part>>

Next == WalletPart \/ DigestPart \/ AnchorPart

(***************************************************************************)
(* The parts keep the fairness they have alone.                            *)
(***************************************************************************)
Spec ==
    /\ Init /\ [][Next]_vars
    /\ WF_vars(part = "wallets" /\ SmartScan /\ UNCHANGED <<digestVars, anchorVars, part>>)
    /\ WF_vars(part = "digest" /\ DigestTick /\ UNCHANGED <<walletVars, anchorVars, part>>)
=============================================================================
