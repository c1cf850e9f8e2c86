----------------------------- MODULE CallLedger ------------------------------
(***************************************************************************)
(* What the public ledger of calls promises, without tasks, time or chain: *)
(* a row is opened when its mint has no active row, is closed once with an *)
(* outcome, and can be voided unless money is recorded against it; money   *)
(* goes into a mint at most once, and comes out at most once.              *)
(***************************************************************************)
EXTENDS Integers

CONSTANTS Mints, NoMint, MaxCalls

VARIABLES rows, mintOf, status, held

vars == <<rows, mintOf, status, held>>

Ids == 1..MaxCalls
Outcomes == {"withdrew", "failed", "expired"}

Init ==
    /\ rows = 0
    /\ mintOf = [c \in Ids |-> NoMint]
    /\ status = [c \in Ids |-> "none"]
    /\ held = [c \in Ids |-> "no"]

Open(m) ==
    /\ rows < MaxCalls
    /\ \A c \in Ids : status[c] = "active" => mintOf[c] # m
    /\ rows' = rows + 1
    /\ mintOf' = [mintOf EXCEPT ![rows + 1] = m]
    /\ status' = [status EXCEPT ![rows + 1] = "active"]
    /\ UNCHANGED held

\* One statement may close several rows: the publisher expires all due ones.
Close(S, outcome) ==
    /\ \A c \in S : status[c] = "active"
    /\ status' = [c \in Ids |-> IF c \in S THEN outcome ELSE status[c]]
    /\ UNCHANGED <<rows, mintOf, held>>

Void(c) ==
    /\ status[c] # "none" /\ held[c] = "no"
    /\ status' = [status EXCEPT ![c] = "voided"]
    /\ UNCHANGED <<rows, mintOf, held>>

Buy(c) ==
    /\ held[c] = "no"
    /\ \A d \in Ids : mintOf[d] = mintOf[c] => held[d] = "no"
    /\ held' = [held EXCEPT ![c] = "yes"]
    /\ UNCHANGED <<rows, mintOf, status>>

Sell(c) ==
    /\ held[c] = "yes"
    /\ held' = [held EXCEPT ![c] = "sold"]
    /\ UNCHANGED <<rows, mintOf, status>>

Next ==
    \/ \E m \in Mints : Open(m)
    \/ \E S \in SUBSET Ids, outcome \in Outcomes : Close(S, outcome)
    \/ \E c \in Ids : Void(c) \/ Buy(c) \/ Sell(c)

Spec == Init /\ [][Next]_vars
=============================================================================
