---------------------------- MODULE SettleLadder -----------------------------
(***************************************************************************)
(* The rules settle_calls applies to one active call that has a price: the *)
(* event exits, the severe-collapse exit, the trailing stop and the ladder *)
(* of the call's horizon, in the order the code tries them.                *)
(*                                                                         *)
(* A reading r of the call is a record:                                    *)
(*   horizon    the tag parsed from the note; Unknown is read as SHORT     *)
(*   age        seconds since called_at                                    *)
(*   pct        market price against entry, in percent                     *)
(*   take       the higher of pct and the latest snapshot's percent        *)
(*   peak       highest percent of take and of the snapshots since entry   *)
(*   breached   pct is at or below the floor and the breach is confirmed   *)
(*   dev        a severe dev_selling alert in the last 30 minutes          *)
(*   terminal   a confirmed terminal classification                        *)
(*   dry        volume collapse against the entry rate                     *)
(* Percentages are whole: every threshold of the code is.                  *)
(***************************************************************************)
EXTENDS Integers

Horizons == {"SCALP", "SHORT", "LONG", "MOONSHOT"}

Minute == 60

\* trailing_stop_floor
TrailingStopFloor(peak, stop) ==
    IF peak >= 400 THEN 200
    ELSE IF peak >= 200 THEN 100
    ELSE IF peak >= 100 THEN 50
    ELSE IF peak >= 50 THEN 25
    ELSE IF peak >= 30 THEN 15
    ELSE IF peak >= 15 THEN 5
    ELSE stop

\* default_stop_for_horizon
DefaultStop(horizon) ==
    CASE horizon = "MOONSHOT" -> -20
      [] horizon = "SCALP"    -> -25
      [] horizon = "LONG"     -> -50
      [] horizon = "SHORT"    -> -40

Floor(horizon, peak) == TrailingStopFloor(peak, DefaultStop(horizon))

\* LONG and MOONSHOT calls are only closed by an event that the price confirms.
EventExit(r) ==
    LET patient == r.horizon \in {"LONG", "MOONSHOT"}
        deep    == IF r.horizon = "SCALP" THEN TRUE
                   ELSE IF patient THEN r.pct <= -20 ELSE r.pct <= -10
    IN  IF r.dev /\ (patient => r.pct <= -20) THEN "severe dev exit"
        ELSE IF r.terminal /\ deep THEN "structural collapse"
        ELSE "none"

SevereCollapseExit(r) ==
    IF r.pct <= -45 /\ r.age >= Minute THEN "severe collapse" ELSE "none"

TrailSlipTolerance == 5

\* Slip: the tolerance is not looked at, so a missed trail counts as a win.
TrailExitAnySlip(r) ==
    IF r.breached /\ Floor(r.horizon, r.peak) >= 0
    THEN "trailing stop" ELSE "none"

\* The floors of TrailingStopFloor are never 0 and the default stops are
\* negative, so the branch for a breakeven floor is the one for a positive one.
TrailExit(r) ==
    LET floor == Floor(r.horizon, r.peak)
    IN  IF r.breached /\ floor >= 0 /\ r.pct >= floor - TrailSlipTolerance
        THEN "trailing stop" ELSE "none"

ScalpExit(r) ==
    IF r.take >= 50 THEN "scalp 1.5x"
    ELSE IF r.take >= 30 THEN "scalp +30 done"
    ELSE IF r.breached THEN "scalp stop"
    ELSE IF r.age >= 30 * Minute /\ r.pct < 0 /\ r.peak <= 15 THEN "scalp no-pump"
    ELSE IF r.age >= 90 * Minute /\ r.peak < 20 THEN "scalp timeout"
    ELSE "none"

MoonshotExit(r) ==
    IF r.breached THEN "moonshot stop"
    ELSE IF r.take >= 250 THEN "moonshot 3.5x"
    ELSE IF r.age >= 90 * Minute /\ r.peak < 20 THEN "moonshot timeout"
    ELSE "none"

\* Slip: the long hold times out at any peak below the first take.
LongExitThirtyDays(r) ==
    IF r.breached THEN "thesis broke"
    ELSE IF r.take >= 150 THEN "2.5x done"
    ELSE IF r.take >= 80 THEN "long second take"
    ELSE IF r.take >= 40 THEN "long first take"
    ELSE IF r.age >= 30 * 1440 * Minute /\ r.peak < 20 THEN "long hold timeout"
    ELSE "none"

LongExit(r) ==
    IF r.breached THEN "thesis broke"
    ELSE IF r.take >= 150 THEN "2.5x done"
    ELSE IF r.take >= 80 THEN "long second take"
    ELSE IF r.take >= 40 THEN "long first take"
    ELSE IF r.age >= 360 * Minute /\ r.peak < 20 THEN "long hold timeout"
    ELSE "none"

ShortExit(r) ==
    IF r.take >= 100 THEN "2x done"
    ELSE IF r.take >= 50 THEN "took the win"
    ELSE IF r.age <= 30 * Minute /\ r.pct <= -25 /\ r.breached
         THEN "early collapse"
    ELSE IF r.breached THEN "thesis broke"
    ELSE IF r.dry THEN "energy gone"
    ELSE IF r.age >= 90 * Minute /\ r.peak < 20 THEN "no follow-through"
    ELSE "none"

HorizonExit(r) ==
    CASE r.horizon = "SCALP"    -> ScalpExit(r)
      [] r.horizon = "MOONSHOT" -> MoonshotExit(r)
      [] r.horizon = "LONG"     -> LongExit(r)
      [] r.horizon = "SHORT"    -> ShortExit(r)

\* The first of the four that has something to say; "none" keeps the call open.
Rule(r) ==
    IF EventExit(r) # "none" THEN EventExit(r)
    ELSE IF SevereCollapseExit(r) # "none" THEN SevereCollapseExit(r)
    ELSE IF TrailExit(r) # "none" THEN TrailExit(r)
    ELSE HorizonExit(r)

Takes == {"trailing stop", "scalp 1.5x", "scalp +30 done", "moonshot 3.5x",
          "2.5x done", "long second take", "long first take", "2x done",
          "took the win", "energy gone"}

Timeouts == {"scalp timeout", "moonshot timeout", "long hold timeout",
             "no follow-through"}

\* Rules that fire only when the floor is breached and the breach confirmed.
Stops == {"trailing stop", "scalp stop", "moonshot stop", "thesis broke",
          "early collapse"}

Fails == {"severe dev exit", "structural collapse", "severe collapse",
          "scalp no-pump"} \cup (Stops \ {"trailing stop"})

Rules == Takes \cup Timeouts \cup Fails

\* The status the row is flipped to.
Verdict(rule) ==
    CASE rule \in Takes    -> "withdrew"
      [] rule \in Timeouts -> "expired"
      [] rule \in Fails    -> "failed"

\* When a call that never ran is closed for good.
FlatWindow(horizon) == IF horizon = "LONG" THEN 360 * Minute ELSE 90 * Minute
=============================================================================
