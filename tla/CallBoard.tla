------------------------------ MODULE CallBoard ------------------------------
(***************************************************************************)
(* What the calls channel promises about a mint, without tasks, reads,     *)
(* watchlist or stored tiers: an automatic call stands on a card, a row is *)
(* inserted once and never taken back, a verdict is drawn on a row and not *)
(* before a call has closed, a milestone of a call is told once and once   *)
(* more at most for each fault.                                            *)
(***************************************************************************)
EXTENDS Integers

CONSTANTS MaxCalls, MaxTier, MaxFaults

VARIABLES rows, call, auto, row, shown, replies, faults

vars == <<rows, call, auto, row, shown, replies, faults>>

Ids   == 1..MaxCalls
Tiers == 1..MaxTier

Init ==
    /\ rows = 0 /\ call = "none" /\ auto = FALSE
    /\ row = "none" /\ shown = "none"
    /\ replies = [c \in Ids |-> [k \in Tiers |-> 0]]
    /\ faults = 0

Open ==
    /\ rows < MaxCalls /\ call # "active"
    /\ rows' = rows + 1 /\ call' = "active"
    /\ auto' \in {auto, TRUE} /\ (auto' => row # "none")
    /\ UNCHANGED <<row, shown, replies, faults>>

Close ==
    /\ call = "active" /\ call' = "closed"
    /\ UNCHANGED <<rows, auto, row, shown, replies, faults>>

\* The message is sent before its row is inserted.
Post ==
    /\ shown' = "open"
    /\ UNCHANGED <<rows, call, auto, row, replies, faults>>

Insert ==
    /\ row = "none" /\ row' = "active"
    /\ UNCHANGED <<rows, call, auto, shown, replies, faults>>

Edit ==
    /\ row # "none" /\ row' = "active" /\ shown' = "open"
    /\ UNCHANGED <<rows, call, auto, replies, faults>>

Rank ==
    /\ row # "none" /\ row' \in {"active", "demoted"}
    /\ UNCHANGED <<rows, call, auto, shown, replies, faults>>

FirstCallOpen == rows = 0 \/ (rows = 1 /\ call = "active")

Verdict ==
    /\ row # "none" /\ ~FirstCallOpen
    /\ row' \in {row, "closed", "demoted"} /\ shown' = "verdict"
    /\ UNCHANGED <<rows, call, auto, replies, faults>>

Tell(c, k) ==
    /\ row # "none" /\ c <= rows
    /\ replies[c][k] <= faults
    /\ replies' = [replies EXCEPT ![c][k] = @ + 1]
    /\ UNCHANGED <<rows, call, auto, row, shown, faults>>

\* A message that is told and counts as lost.
TellLost(c, k) ==
    /\ row # "none" /\ c <= rows
    /\ replies[c][k] <= faults
    /\ replies' = [replies EXCEPT ![c][k] = @ + 1]
    /\ faults < MaxFaults /\ faults' = faults + 1
    /\ UNCHANGED <<rows, call, auto, row, shown>>

Fault ==
    /\ faults < MaxFaults /\ faults' = faults + 1
    /\ UNCHANGED <<rows, call, auto, row, shown, replies>>

Next ==
    \/ Open \/ Close \/ Post \/ Insert \/ Edit \/ Rank \/ Verdict \/ Fault
    \/ \E c \in Ids, k \in Tiers : Tell(c, k) \/ TellLost(c, k)

Spec == Init /\ [][Next]_vars
=============================================================================
