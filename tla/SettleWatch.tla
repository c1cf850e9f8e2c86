----------------------------- MODULE SettleWatch -----------------------------
(***************************************************************************)
(* One auto-call while it is watched: analysis cycles write snapshots of   *)
(* the token, settle passes read them next to a market price and apply     *)
(* SettleLadder, the publisher expires the call at expires_at.             *)
(*                                                                         *)
(* The clock is the call's age in seconds. A settle pass is one step here: *)
(* it reads its snapshots between two awaits and only its own task writes  *)
(* them. Selling before the verdict is CallTrading's part.                 *)
(***************************************************************************)
EXTENDS SettleLadder, Sequences, FiniteSets

CONSTANTS
    Calls,        \* horizons of the calls watched
    Prices,       \* prices against entry, in percent, that a reading can give
    EntryPrices,  \* the same for the snapshot that led to the call
    Confs,        \* confidence scores of snapshots
    Flags,        \* sets of {"terminal", "dry"} a snapshot can carry
    Instants,     \* ages of the call, in seconds, at which something happens
    MaxSnaps      \* bound on the snapshots

ASSUME CallsAssumption == Calls \subseteq Horizons
ASSUME PricesAssumption == Prices \subseteq Int /\ EntryPrices \subseteq Int
ASSUME InstantsAssumption == Instants \subseteq Nat /\ 0 \in Instants

VARIABLES
    horizon, age,
    snaps,     \* token_snapshots of the mint, oldest first
    devAt,     \* age at the last severe dev_selling alert, or NoAlert
    status,
    exit       \* the reading and the rule of the settle pass that closed it

vars == <<horizon, age, snaps, devAt, status, exit>>

NoAlert == -1
Before == -1      \* a snapshot older than called_at, by some seconds
NoExit == [rule |-> "none", pct |-> 0, peak |-> 0, age |-> 0]

TypeOK ==
    /\ horizon \in Calls
    /\ age \in Instants
    /\ snaps \in Seq([at : Instants \cup {Before}, pct : Prices \cup EntryPrices,
                      conf : Confs, flags : Flags \cup {{}}])
    /\ devAt \in {NoAlert} \cup Instants
    /\ status \in {"active", "withdrew", "failed", "expired"}
    /\ exit.rule \in Rules \cup {"none", "publisher"}

-----------------------------------------------------------------------------
(* What a settle pass reads.                                               *)

\* Queries that look for an earlier snapshot stop 15 seconds before now.
SettledByNow == {i \in DOMAIN snaps : snaps[i].at <= age - 15}

\* get_latest_snapshot
Latest == snaps[Len(snaps)]

\* timestamp >= called_at
SinceCall == {i \in DOMAIN snaps : snaps[i].at >= 0}

\* peak_ts, by get_peak_snapshot: ORDER BY confidence DESC, timestamp DESC, and
\* called_at when the call has no snapshot yet.
PeakAt ==
    LET top == {i \in SinceCall : \A j \in SinceCall :
                                     snaps[j].conf <= snaps[i].conf}
    IN  IF top = {} THEN 0
        ELSE snaps[CHOOSE i \in top : \A j \in top : j <= i].at

\* take_pct
Take(pct) == IF Latest.pct > pct THEN Latest.pct ELSE pct

\* peak_observed; get_peak_pct_since of no snapshot is 0.
PeakObserved(pct) ==
    LET seen == {Take(pct)} \cup (IF SinceCall = {} THEN {0}
                                  ELSE {snaps[i].pct : i \in SinceCall})
    IN  CHOOSE p \in seen : \A q \in seen : q <= p

\* Slip: the grace of a young call is given to every call.
BreachConfirmedAlways(pct) == pct <= Floor(horizon, PeakObserved(pct))

\* breach_confirmed, with count_snapshots_below_since
BreachConfirmed(pct) ==
    LET floor == Floor(horizon, PeakObserved(pct))
    IN  /\ pct <= floor
        /\ \/ age < 120
           \/ \E i \in SettledByNow : /\ snaps[i].at > PeakAt
                                      /\ snaps[i].pct <= floor

\* terminal_class and count_recent_terminal_class over five minutes.
TerminalConfirmed ==
    /\ "terminal" \in Latest.flags
    /\ \E i \in SettledByNow : /\ snaps[i].at >= age - 300
                               /\ "terminal" \in snaps[i].flags

\* detect_volume_collapse: the last two snapshots.
VolumeCollapse ==
    /\ Len(snaps) >= 2
    /\ "dry" \in Latest.flags
    /\ "dry" \in snaps[Len(snaps) - 1].flags

Reading(pct) ==
    [horizon  |-> horizon, age |-> age, pct |-> pct, take |-> Take(pct),
     peak     |-> PeakObserved(pct), breached |-> BreachConfirmed(pct),
     dev      |-> devAt # NoAlert /\ devAt >= age - 30 * Minute,
     terminal |-> TerminalConfirmed, dry |-> VolumeCollapse]

-----------------------------------------------------------------------------
\* The analysis that led to the call has left its snapshot. process_token takes
\* called_at after it fetched the entry price, so the snapshot is as old as the
\* call or older, and its price need not be the entry price.
Init ==
    /\ horizon \in Calls
    /\ age = 0
    /\ \E at \in {Before, 0}, p \in EntryPrices, c \in Confs :
          snaps = <<[at |-> at, pct |-> p, conf |-> c, flags |-> {}]>>
    /\ devAt = NoAlert
    /\ status = "active"
    /\ exit = NoExit

\* An analysis of the token: one row of token_snapshots, one per second.
Analyse(pct, conf, flags) ==
    /\ status = "active"
    /\ Len(snaps) < MaxSnaps
    /\ Latest.at < age
    /\ snaps' = Append(snaps, [at |-> age, pct |-> pct, conf |-> conf,
                               flags |-> flags])
    /\ UNCHANGED <<horizon, age, devAt, status, exit>>

DevAlert ==
    /\ status = "active"
    /\ devAt' = age
    /\ UNCHANGED <<horizon, age, snaps, status, exit>>

Pass(t) ==
    /\ status = "active"
    /\ t > age
    /\ age' = t
    /\ UNCHANGED <<horizon, snaps, devAt, status, exit>>

\* One iteration of settle_calls for a call with a market price.
Settle(pct) ==
    /\ status = "active"
    /\ LET rule == Rule(Reading(pct))
       IN  IF rule = "none"
           THEN UNCHANGED <<status, exit>>
           ELSE /\ status' = Verdict(rule)
                /\ exit' = [rule |-> rule, pct |-> pct, peak |-> PeakObserved(pct),
                            age |-> age]
    /\ UNCHANGED <<horizon, age, snaps, devAt>>

\* expire_stale_calls; process_token set expires_at to the window below.
ExpireStale ==
    /\ status = "active"
    /\ age >= FlatWindow(horizon)
    /\ status' = "expired"
    /\ exit' = [rule |-> "publisher", pct |-> 0, peak |-> 0, age |-> age]
    /\ UNCHANGED <<horizon, age, snaps, devAt>>

Next ==
    \/ \E p \in Prices, c \in Confs, f \in Flags : Analyse(p, c, f)
    \/ DevAlert
    \/ \E t \in Instants : Pass(t)
    \/ \E p \in Prices : Settle(p)
    \/ ExpireStale

Spec == Init /\ [][Next]_vars

-----------------------------------------------------------------------------
(* Safety.                                                                 *)

\* The trailing stop never books a loss: its lowest floor is not below the
\* slip it tolerates, so a "withdrew" by the trail left the call at entry or
\* above, whatever the horizon and however the price got there.
TrailExitNotAtALoss == exit.rule = "trailing stop" => exit.pct >= 0

\* A single wick stops no call: after the first two minutes every stop was
\* seen twice, by the settle pass and by a snapshot at least 15 seconds older.
StopsSeenTwice ==
    exit.rule \in Stops /\ exit.age >= 120 =>
        \E i \in DOMAIN snaps :
            /\ snaps[i].at <= exit.age - 15
            /\ snaps[i].pct <= Floor(horizon, exit.peak)

\* Dead inventory does not outlive its window: the next settle pass with a
\* price closes every call that never ran, on every path through the ladder.
FlatCallsClose ==
    status = "active" /\ age >= FlatWindow(horizon) =>
        \A p \in Prices : PeakObserved(p) < 20 => Rule(Reading(p)) # "none"

\* A call withdrawn below entry lost its flow, or the chain had shown it at a
\* take while the market did not: no other path books a loss as a win.
LossyWithdrawals ==
    status = "withdrew" /\ exit.pct < 0 =>
        \/ exit.rule = "energy gone" /\ horizon = "SHORT"
        \/ exit.peak >= 30 /\ Latest.pct >= 30
=============================================================================
