---------------------------- MODULE MCSettleWatch ----------------------------
(* Instances of SettleWatch for TLC: readings on both sides of the thresholds *)
(* the properties tell apart, and instants on both sides of the 15 s, the     *)
(* two-minute, the half-hour and the window boundaries.                       *)
EXTENDS SettleWatch

FewPrices == {-60, -42, -30, 3, 16, 60}
FewFlags  == {{}, {"dry", "terminal"}}
NoFlags   == {{}}
Ages      == {0, 120, 135, 360 * Minute}
=============================================================================
