-------------------------- MODULE SettleWatchProofs --------------------------
(***************************************************************************)
(* Theorems about the settling rules, for every reading, and about a       *)
(* watched call, for every set of prices, scores and instants. TLC samples *)
(* a few prices on both sides of the thresholds, these hold for all.       *)
(***************************************************************************)
EXTENDS SettleWatch, TLAPS

Readings ==
    [horizon : Horizons, age : Nat, pct : Int, take : Int, peak : Int,
     breached : BOOLEAN, dev : BOOLEAN, terminal : BOOLEAN, dry : BOOLEAN]

\* The floor rises with the peak, for any stop below the lowest tier.
THEOREM FloorMonotone ==
    ASSUME NEW p \in Int, NEW q \in Int, p <= q, NEW stop \in Int, stop <= 5
    PROVE  TrailingStopFloor(p, stop) <= TrailingStopFloor(q, stop)
  BY DEF TrailingStopFloor

\* The floor lies below a peak that is not negative, so a call whose market
\* price is its peak is never stopped.
THEOREM FloorBelowPeak ==
    ASSUME NEW h \in Horizons, NEW p \in Nat
    PROVE  Floor(h, p) < p
  BY DEF Floor, TrailingStopFloor, DefaultStop, Horizons

\* What the floors are, for any peak.
LEMMA Floors ==
    ASSUME NEW h \in Horizons, NEW peak
    PROVE  Floor(h, peak) \in {200, 100, 50, 25, 15, 5, -20, -25, -40, -50}
<1> DEFINE stop == DefaultStop(h)
<1>1. stop \in {-20, -25, -40, -50} BY DEF DefaultStop, Horizons
<1> HIDE DEF stop
<1>2. TrailingStopFloor(peak, stop) \in {200, 100, 50, 25, 15, 5, stop}
  <2> USE DEF TrailingStopFloor
  <2>1. CASE peak >= 400 BY <2>1
  <2>2. CASE ~(peak >= 400) /\ peak >= 200 BY <2>2
  <2>3. CASE ~(peak >= 400) /\ ~(peak >= 200) /\ peak >= 100 BY <2>3
  <2>4. CASE /\ ~(peak >= 400) /\ ~(peak >= 200) /\ ~(peak >= 100)
             /\ peak >= 50
    BY <2>4
  <2>5. CASE /\ ~(peak >= 400) /\ ~(peak >= 200) /\ ~(peak >= 100)
             /\ ~(peak >= 50) /\ peak >= 30
    BY <2>5
  <2>6. CASE /\ ~(peak >= 400) /\ ~(peak >= 200) /\ ~(peak >= 100)
             /\ ~(peak >= 50) /\ ~(peak >= 30) /\ peak >= 15
    BY <2>6
  <2>7. CASE /\ ~(peak >= 400) /\ ~(peak >= 200) /\ ~(peak >= 100)
             /\ ~(peak >= 50) /\ ~(peak >= 30) /\ ~(peak >= 15)
    BY <2>7
  <2> HIDE DEF TrailingStopFloor
  <2> QED BY <2>1, <2>2, <2>3, <2>4, <2>5, <2>6, <2>7
<1> QED BY <1>1, <1>2 DEF Floor, stop

\* A price within the slip of a floor that is not negative is not a loss.
LEMMA SlipOfPositiveFloor ==
    ASSUME NEW pct \in Int,
           NEW floor \in {200, 100, 50, 25, 15, 5, -20, -25, -40, -50},
           floor >= 0, pct >= floor - 5
    PROVE  pct >= 0
  OBVIOUS

\* The trailing stop never books a loss, at any floor and any slip it allows.
THEOREM TrailInProfit ==
    ASSUME NEW r, r.horizon \in Horizons, r.pct \in Int,
           TrailExit(r) = "trailing stop"
    PROVE  r.pct >= 0
<1>1. Floor(r.horizon, r.peak) >= 0 /\ r.pct >= Floor(r.horizon, r.peak) - 5
  BY Zenon DEF TrailExit, TrailSlipTolerance
<1>2. Floor(r.horizon, r.peak)
         \in {200, 100, 50, 25, 15, 5, -20, -25, -40, -50}
  BY Floors
<1> QED BY <1>1, <1>2, SlipOfPositiveFloor, Zenon

\* No path through any ladder keeps a call open that never ran and whose window
\* has passed.
THEOREM FlatIsClosed ==
    ASSUME NEW r, r.horizon \in Horizons, r.age >= FlatWindow(r.horizon),
           r.peak < 20
    PROVE  Rule(r) # "none"
<1>1. HorizonExit(r) # "none"
  <2> USE DEF HorizonExit, FlatWindow, Minute
  <2>1. CASE r.horizon = "SCALP" BY <2>1 DEF ScalpExit
  <2>2. CASE r.horizon = "MOONSHOT" BY <2>2 DEF MoonshotExit
  <2>3. CASE r.horizon = "LONG" BY <2>3 DEF LongExit
  <2>4. CASE r.horizon = "SHORT" BY <2>4 DEF ShortExit
  <2> QED BY <2>1, <2>2, <2>3, <2>4 DEF Horizons
<1> QED BY <1>1 DEF Rule

\* Whatever was read, the rule is one of the named ones ...
LEMMA RuleNames ==
    ASSUME NEW r, r.horizon \in Horizons
    PROVE  Rule(r) \in Rules \cup {"none"}
<1>1. HorizonExit(r) \in Rules \cup {"none"}
  <2> USE DEF HorizonExit, Rules, Takes, Timeouts, Fails, Stops
  <2>1. CASE r.horizon = "SCALP" BY <2>1 DEF ScalpExit
  <2>2. CASE r.horizon = "MOONSHOT" BY <2>2 DEF MoonshotExit
  <2>3. CASE r.horizon = "LONG" BY <2>3 DEF LongExit
  <2>4. CASE r.horizon = "SHORT" BY <2>4 DEF ShortExit
  <2> QED BY <2>1, <2>2, <2>3, <2>4 DEF Horizons
<1> QED
  BY <1>1 DEF Rule, EventExit, SevereCollapseExit, TrailExit, Rules, Takes, Timeouts, Fails,
              Stops

\* ... and closes the call.
LEMMA VerdictNames ==
    ASSUME NEW rule \in Rules
    PROVE  Verdict(rule) \in {"withdrew", "expired", "failed"}
  BY DEF Verdict, Rules

\* Every rule that can fire has exactly one status to flip the row to.
THEOREM RulesHaveVerdicts ==
    ASSUME NEW r \in Readings
    PROVE  /\ Rule(r) \in Rules \cup {"none"}
           /\ \A rule \in Rules : Verdict(rule) \in {"withdrew", "expired", "failed"}
<1>1. r.horizon \in Horizons BY DEF Readings
<1> QED BY <1>1, RuleNames, VerdictNames

-----------------------------------------------------------------------------
(* A watched call.                                                         *)

\* Only the trail rule is named "trailing stop".
LEMMA TrailRule ==
    ASSUME NEW r, r.horizon \in Horizons, Rule(r) = "trailing stop"
    PROVE  TrailExit(r) = "trailing stop"
<1>1. HorizonExit(r) # "trailing stop"
  <2> USE DEF HorizonExit
  <2>1. CASE r.horizon = "SCALP" BY <2>1 DEF ScalpExit
  <2>2. CASE r.horizon = "MOONSHOT" BY <2>2 DEF MoonshotExit
  <2>3. CASE r.horizon = "LONG" BY <2>3 DEF LongExit
  <2>4. CASE r.horizon = "SHORT" BY <2>4 DEF ShortExit
  <2> QED BY <2>1, <2>2, <2>3, <2>4 DEF Horizons
<1> QED BY <1>1 DEF Rule, EventExit, SevereCollapseExit

TrailIInv == horizon \in Horizons /\ TrailExitNotAtALoss

\* A trailing stop that closed the call left it at entry or above.
THEOREM TrailNotAtALoss == Spec => []TrailExitNotAtALoss
<1>1. Init => TrailIInv
  BY CallsAssumption DEF Init, NoExit, TrailIInv, TrailExitNotAtALoss
<1>2. TrailIInv /\ [Next]_vars => TrailIInv'
  <2> SUFFICES ASSUME TrailIInv, [Next]_vars PROVE TrailIInv'
    OBVIOUS
  <2> USE DEF TrailIInv, TrailExitNotAtALoss
  <2>1. ASSUME NEW p \in Prices, Settle(p) PROVE TrailIInv'
    <3> DEFINE r == Reading(p)
    <3>1. r.horizon = horizon /\ r.pct = p /\ p \in Int
      BY PricesAssumption DEF Reading
    <3>2. CASE Rule(r) = "none" BY <2>1, <3>2 DEF Settle
    <3>3. CASE Rule(r) # "none"
      <4>1. /\ exit' = [rule |-> Rule(r), pct |-> p, peak |-> PeakObserved(p),
                        age |-> age]
            /\ horizon' = horizon
        BY <2>1, <3>3, Zenon DEF Settle
      <4>2. Rule(r) = "trailing stop" => p >= 0
        BY <3>1, TrailRule, TrailInProfit
      <4> HIDE DEF r
      <4>3. exit'.rule = Rule(r) /\ exit'.pct = p BY <4>1
      <4> QED BY <4>1, <4>2, <4>3
    <3> QED BY <3>2, <3>3
  <2>2. CASE ExpireStale BY <2>2 DEF ExpireStale
  <2>3. CASE UNCHANGED <<horizon, exit>> BY <2>3
  <2> QED
    BY <2>1, <2>2, <2>3 DEF Next, vars, Analyse, DevAlert, Pass
<1>3. TrailIInv => TrailExitNotAtALoss BY DEF TrailIInv
<1> QED BY <1>1, <1>2, <1>3, PTL DEF Spec

\* Whatever prices and snapshots came before, a call that never ran is closed
\* by the first priced settle pass after its window.
THEOREM FlatCallsAreClosed == Spec => []FlatCallsClose
<1>1. horizon \in Horizons => FlatCallsClose
  <2> SUFFICES ASSUME horizon \in Horizons, age >= FlatWindow(horizon),
                      NEW p \in Prices, PeakObserved(p) < 20
               PROVE  Rule(Reading(p)) # "none"
    BY DEF FlatCallsClose
  <2>1. /\ Reading(p).horizon = horizon
        /\ Reading(p).age = age
        /\ Reading(p).peak = PeakObserved(p)
    BY DEF Reading
  <2> QED BY <2>1, FlatIsClosed
<1>2. Init => horizon \in Horizons BY CallsAssumption DEF Init
<1>3. horizon \in Horizons /\ [Next]_vars => (horizon \in Horizons)'
  BY DEF Next, vars, Analyse, DevAlert, Pass, Settle, ExpireStale
<1> QED BY <1>1, <1>2, <1>3, PTL DEF Spec

\* A rule of Stops fires on a breach alone, on every path through the ladders.
LEMMA StopsBreached ==
    ASSUME NEW r, r.horizon \in Horizons, Rule(r) \in Stops
    PROVE  r.breached
<1>1. EventExit(r) \notin Stops BY DEF EventExit, Stops
<1>2. SevereCollapseExit(r) \notin Stops BY DEF SevereCollapseExit, Stops
<1>3. TrailExit(r) \in Stops => r.breached BY DEF TrailExit, Stops
<1>4. HorizonExit(r) \in Stops => r.breached
  <2> USE DEF HorizonExit, Stops
  <2>1. CASE r.horizon = "SCALP" BY <2>1 DEF ScalpExit
  <2>2. CASE r.horizon = "MOONSHOT" BY <2>2 DEF MoonshotExit
  <2>3. CASE r.horizon = "LONG"
    <3>1. HorizonExit(r) = LongExit(r) BY <2>3
    <3>2. LongExit(r) \in Stops => r.breached
      <4>1. ASSUME ~r.breached
            PROVE  LongExit(r) \in {"2.5x done", "long second take", "long first take",
                                    "long hold timeout", "none"}
        BY <4>1, Zenon DEF LongExit
      <4> QED BY <4>1
    <3> QED BY <3>1, <3>2
  <2>4. CASE r.horizon = "SHORT" BY <2>4 DEF ShortExit
  <2> QED BY <2>1, <2>2, <2>3, <2>4 DEF Horizons
<1> QED BY <1>1, <1>2, <1>3, <1>4 DEF Rule

StopsIInv ==
    /\ horizon \in Horizons /\ age \in Nat
    /\ status = "active" => exit = NoExit
    /\ StopsSeenTwice

\* Whatever snapshots the analyses left, a stop after the first two minutes has
\* one of them, at least 15 seconds old, that had seen the same floor broken.
THEOREM StopsAreSeenTwice == Spec => []StopsSeenTwice
<1>1. Init => StopsIInv
  BY CallsAssumption, InstantsAssumption DEF Init, NoExit, StopsIInv, StopsSeenTwice, Stops
<1>2. StopsIInv /\ [Next]_vars => StopsIInv'
  <2> SUFFICES ASSUME StopsIInv, [Next]_vars PROVE StopsIInv'
    OBVIOUS
  <2> USE DEF StopsIInv
  <2>1. ASSUME NEW p \in Prices, Settle(p) PROVE StopsIInv'
    <3> DEFINE r == Reading(p)
    <3>1. UNCHANGED <<horizon, age, snaps>> BY <2>1 DEF Settle
    <3>2. CASE Rule(r) = "none"
      BY <2>1, <3>1, <3>2, Zenon DEF Settle, StopsSeenTwice
    <3>3. CASE Rule(r) # "none"
      <4>1. /\ exit' = [rule |-> Rule(r), pct |-> p, peak |-> PeakObserved(p), age |-> age]
            /\ status' = Verdict(Rule(r))
        BY <2>1, <3>3, Zenon DEF Settle
      <4>2. Rule(r) \in Stops /\ age >= 120 =>
              \E i \in DOMAIN snaps : /\ snaps[i].at <= age - 15
                                      /\ snaps[i].pct <= Floor(horizon, PeakObserved(p))
        <5>1. r.horizon = horizon /\ r.breached = BreachConfirmed(p) BY DEF Reading
        <5>2. Rule(r) \in Stops => BreachConfirmed(p)
          <6> HIDE DEF r
          <6> QED BY <5>1, StopsBreached
        <5> HIDE DEF r
        <5>3. ASSUME BreachConfirmed(p), age >= 120
              PROVE \E i \in SettledByNow : snaps[i].pct <= Floor(horizon, PeakObserved(p))
          <6>1. \/ age < 120
                \/ \E i \in SettledByNow : snaps[i].pct <= Floor(horizon, PeakObserved(p))
            BY <5>3, Zenon DEF BreachConfirmed
          <6>2. ~(age < 120) BY <5>3
          <6> QED BY <6>1, <6>2
        <5> QED BY <5>2, <5>3 DEF SettledByNow
      <4> HIDE DEF r
      <4>3. exit'.rule = Rule(r) /\ exit'.peak = PeakObserved(p) /\ exit'.age = age
        BY <4>1
      <4>4. status' # "active"
        <5>1. r.horizon = horizon BY DEF r, Reading
        <5>2. Rule(r) \in Rules BY <3>3, <5>1, RuleNames
        <5> QED BY <4>1, <5>2, VerdictNames
      <4>5. StopsSeenTwice' BY <3>1, <4>2, <4>3 DEF StopsSeenTwice
      <4> QED BY <3>1, <4>4, <4>5
    <3> QED BY <3>2, <3>3
  <2>2. CASE ExpireStale
    BY <2>2 DEF ExpireStale, StopsSeenTwice, Stops
  <2>3. ASSUME NEW p \in Prices, NEW c \in Confs, NEW f \in Flags, Analyse(p, c, f)
        PROVE  StopsIInv'
    <3>1. exit = NoExit /\ UNCHANGED <<horizon, age, status, exit>>
      BY <2>3 DEF Analyse
    <3>2. exit'.rule \notin Stops BY <3>1 DEF NoExit, Stops
    <3> QED BY <3>1, <3>2 DEF StopsSeenTwice
  <2>4. ASSUME NEW t \in Instants, Pass(t) PROVE StopsIInv'
    BY <2>4, InstantsAssumption DEF Pass, StopsSeenTwice
  <2>5. CASE DevAlert \/ UNCHANGED vars
    BY <2>5 DEF DevAlert, vars, StopsSeenTwice
  <2> QED BY <2>1, <2>2, <2>3, <2>4, <2>5 DEF Next
<1>3. StopsIInv => StopsSeenTwice BY DEF StopsIInv
<1> QED BY <1>1, <1>2, <1>3, PTL DEF Spec

-----------------------------------------------------------------------------
(* What is booked as a win.                                                *)

Snapshots == [at : Instants \cup {Before}, pct : Prices \cup EntryPrices,
              conf : Confs, flags : Flags \cup {{}}]

LEMMA SettleType ==
    ASSUME TypeOK, NEW p \in Prices, Settle(p)
    PROVE  TypeOK'
<1> DEFINE r == Reading(p)
<1>1. UNCHANGED <<horizon, age, snaps, devAt>> BY DEF Settle
<1>2. CASE Rule(r) = "none" BY <1>1, <1>2, Zenon DEF Settle, TypeOK
<1>3. CASE Rule(r) # "none"
  <2>1. /\ exit' = [rule |-> Rule(r), pct |-> p, peak |-> PeakObserved(p), age |-> age]
        /\ status' = Verdict(Rule(r))
    BY <1>3, Zenon DEF Settle
  <2>2. r.horizon \in Horizons BY CallsAssumption DEF Reading, TypeOK
  <2> HIDE DEF r
  <2>3. Rule(r) \in Rules BY <1>3, <2>2, RuleNames
  <2>4. exit'.rule = Rule(r) BY <2>1
  <2>5. status' \in {"withdrew", "expired", "failed"} BY <2>1, <2>3, VerdictNames
  <2> QED BY <1>1, <2>3, <2>4, <2>5 DEF TypeOK
<1> QED BY <1>2, <1>3

\* Every reachable state of a watched call is well-typed.
THEOREM SettleTypes == Spec => []TypeOK
<1>1. Init => TypeOK
  <2> SUFFICES ASSUME Init PROVE TypeOK OBVIOUS
  <2>1. PICK at \in {Before, 0}, p \in EntryPrices, c \in Confs :
           snaps = <<[at |-> at, pct |-> p, conf |-> c, flags |-> {}]>>
    BY DEF Init
  <2>2. [at |-> at, pct |-> p, conf |-> c, flags |-> {}] \in Snapshots
    BY InstantsAssumption DEF Snapshots
  <2>3. snaps \in Seq(Snapshots) BY <2>1, <2>2
  <2>4. exit.rule = "none" BY DEF Init, NoExit
  <2> QED BY <2>3, <2>4, InstantsAssumption DEF Init, TypeOK, Snapshots
<1>2. TypeOK /\ [Next]_vars => TypeOK'
  <2> SUFFICES ASSUME TypeOK, [Next]_vars PROVE TypeOK' OBVIOUS
  <2>1. ASSUME NEW p \in Prices, NEW c \in Confs, NEW f \in Flags, Analyse(p, c, f)
        PROVE  TypeOK'
    <3>1. [at |-> age, pct |-> p, conf |-> c, flags |-> f] \in Snapshots
      BY DEF TypeOK, Snapshots
    <3>2. snaps' \in Seq(Snapshots) BY <2>1, <3>1 DEF Analyse, TypeOK, Snapshots
    <3> QED BY <2>1, <3>2 DEF Analyse, TypeOK, Snapshots
  <2>2. CASE DevAlert BY <2>2 DEF DevAlert, TypeOK
  <2>3. ASSUME NEW t \in Instants, Pass(t) PROVE TypeOK' BY <2>3 DEF Pass, TypeOK
  <2>4. ASSUME NEW p \in Prices, Settle(p) PROVE TypeOK' BY <2>4, SettleType
  <2>5. CASE ExpireStale BY <2>5 DEF ExpireStale, TypeOK
  <2>6. CASE UNCHANGED vars BY <2>6 DEF vars, TypeOK
  <2> QED BY <2>1, <2>2, <2>3, <2>4, <2>5, <2>6 DEF Next
<1> QED BY <1>1, <1>2, PTL DEF Spec

\* A rule that books a win is the trail, a take the chain or the market
\* showed, or the lost flow of a SHORT call.
LEMMA WinningRules ==
    ASSUME NEW r, r.horizon \in Horizons, r.take \in Int, Rule(r) \in Takes
    PROVE  \/ TrailExit(r) = "trailing stop"
           \/ r.take >= 30
           \/ Rule(r) = "energy gone" /\ r.horizon = "SHORT"
<1>1. EventExit(r) \notin Takes /\ SevereCollapseExit(r) \notin Takes
  BY DEF EventExit, SevereCollapseExit, Takes
<1>2. TrailExit(r) \in {"trailing stop", "none"} BY DEF TrailExit
<1>3. ASSUME ~(r.take >= 30)
      PROVE  HorizonExit(r) \in Takes => HorizonExit(r) = "energy gone" /\ r.horizon = "SHORT"
  <2>1. /\ ~(r.take >= 40) /\ ~(r.take >= 50) /\ ~(r.take >= 80) /\ ~(r.take >= 100)
        /\ ~(r.take >= 150) /\ ~(r.take >= 250)
    BY <1>3
  <2>2. CASE r.horizon = "SCALP"
    <3>1. HorizonExit(r) = ScalpExit(r) BY <2>2 DEF HorizonExit
    <3>2. ScalpExit(r) \in {"scalp stop", "scalp no-pump", "scalp timeout", "none"}
      BY <1>3, <2>1, Zenon DEF ScalpExit
    <3> QED BY <3>1, <3>2 DEF Takes
  <2>3. CASE r.horizon = "MOONSHOT"
    <3>1. HorizonExit(r) = MoonshotExit(r) BY <2>3 DEF HorizonExit
    <3>2. MoonshotExit(r) \in {"moonshot stop", "moonshot timeout", "none"}
      BY <2>1, Zenon DEF MoonshotExit
    <3> QED BY <3>1, <3>2 DEF Takes
  <2>4. CASE r.horizon = "LONG"
    <3>1. HorizonExit(r) = LongExit(r) BY <2>4 DEF HorizonExit
    <3>2. LongExit(r) \in {"thesis broke", "long hold timeout", "none"}
      BY <2>1, Zenon DEF LongExit
    <3> QED BY <3>1, <3>2 DEF Takes
  <2>5. CASE r.horizon = "SHORT"
    <3>1. HorizonExit(r) = ShortExit(r) BY <2>5 DEF HorizonExit
    <3>2. ShortExit(r) \in {"early collapse", "thesis broke", "energy gone",
                            "no follow-through", "none"}
      BY <2>1, Zenon DEF ShortExit
    <3> QED BY <2>5, <3>1, <3>2 DEF Takes
  <2> QED BY <2>2, <2>3, <2>4, <2>5 DEF Horizons
<1> QED BY <1>1, <1>2, <1>3 DEF Rule

LEMMA WinsAreTakes ==
    ASSUME NEW rule \in Rules, Verdict(rule) = "withdrew"
    PROVE  rule \in Takes
<1>1. CASE rule \in Timeouts
  BY <1>1, Zenon DEF Verdict, Takes, Timeouts, Fails, Stops
<1>2. CASE rule \in Fails
  BY <1>2, Zenon DEF Verdict, Takes, Timeouts, Fails, Stops
<1> QED BY <1>1, <1>2 DEF Rules

\* Among the snapshots since the call, if there are any, one has the highest
\* price: what MAX(price_usd) returns.
HighestSeen ==
    SinceCall = {} \/ \E i \in SinceCall : \A j \in SinceCall :
                                              snaps[j].pct <= snaps[i].pct

LEMMA SnapPrices ==
    ASSUME TypeOK
    PROVE  \A i \in DOMAIN snaps : snaps[i].pct \in Int
<1>1. ASSUME NEW i \in DOMAIN snaps PROVE snaps[i].pct \in Prices \cup EntryPrices
  <2>1. snaps \in Seq(Snapshots) BY DEF TypeOK, Snapshots
  <2> HIDE DEF Snapshots
  <2>2. snaps[i] \in Snapshots BY <2>1
  <2> QED BY <2>2 DEF Snapshots
<1> QED BY <1>1, PricesAssumption

LEMMA HighestAfterAnalysis ==
    ASSUME TypeOK, HighestSeen,
           NEW p \in Prices, NEW c \in Confs, NEW f \in Flags, Analyse(p, c, f)
    PROVE  HighestSeen'
<1> DEFINE new == [at |-> age, pct |-> p, conf |-> c, flags |-> f]
           n   == Len(snaps) + 1
<1>1. /\ snaps' = Append(snaps, new) /\ snaps \in Seq(Snapshots)
      /\ new \in Snapshots /\ p \in Int
  BY PricesAssumption DEF Analyse, TypeOK, Snapshots
<1>2. /\ DOMAIN snaps' = DOMAIN snaps \cup {n} /\ n \notin DOMAIN snaps
      /\ snaps'[n] = new
      /\ \A i \in DOMAIN snaps : snaps'[i] = snaps[i]
  BY <1>1
<1>3. new.pct = p /\ new.at >= 0
  BY InstantsAssumption DEF TypeOK
<1> HIDE DEF new, n
<1>4. SinceCall' = SinceCall \cup {n}
  BY <1>2, <1>3 DEF SinceCall
<1>5. \A i \in SinceCall : i \in DOMAIN snaps /\ snaps[i].pct \in Int
  BY SnapPrices DEF SinceCall
<1>6. CASE SinceCall = {}
  BY <1>1, <1>2, <1>3, <1>4, <1>6 DEF HighestSeen
<1>7. ASSUME NEW i \in SinceCall, \A j \in SinceCall : snaps[j].pct <= snaps[i].pct
      PROVE  HighestSeen'
  <2>1. i \in SinceCall' /\ n \in SinceCall' BY <1>4
  <2>2. CASE p <= snaps[i].pct
    <3>1. \A j \in SinceCall' : snaps'[j].pct <= snaps'[i].pct
      BY <1>2, <1>3, <1>4, <1>5, <1>7, <2>2
    <3> QED BY <2>1, <3>1 DEF HighestSeen
  <2>3. CASE ~(p <= snaps[i].pct)
    <3>1. \A j \in SinceCall : snaps[j].pct <= p
      BY <1>1, <1>5, <1>7, <2>3
    <3>2. \A j \in SinceCall' : snaps'[j].pct <= snaps'[n].pct
      BY <1>1, <1>2, <1>3, <1>4, <1>5, <3>1
    <3> QED BY <2>1, <3>2 DEF HighestSeen
  <2> QED BY <2>2, <2>3
<1> QED BY <1>6, <1>7 DEF HighestSeen

\* The peak a settle pass computes is not below the take it compares.
LEMMA PeakCoversTake ==
    ASSUME TypeOK, HighestSeen, snaps # <<>>, NEW p \in Prices
    PROVE  /\ Take(p) \in Int /\ PeakObserved(p) \in Int
           /\ Take(p) <= PeakObserved(p)
<1>1. p \in Int /\ Latest.pct \in Int
  BY PricesAssumption, SnapPrices DEF Latest, TypeOK
<1>2. Take(p) \in Int BY <1>1 DEF Take
<1> DEFINE old  == IF SinceCall = {} THEN {0} ELSE {snaps[i].pct : i \in SinceCall}
           seen == {Take(p)} \cup old
<1>3. \E m \in old : old \subseteq Int /\ \A q \in old : q <= m
  <2>1. CASE SinceCall = {} BY <2>1
  <2>2. ASSUME NEW i \in SinceCall, \A j \in SinceCall : snaps[j].pct <= snaps[i].pct
        PROVE  \E m \in old : old \subseteq Int /\ \A q \in old : q <= m
    <3>1. snaps[i].pct \in old /\ \A q \in old : q <= snaps[i].pct BY <2>2
    <3>2. old \subseteq Int BY SnapPrices, <2>2 DEF SinceCall
    <3> QED BY <3>1, <3>2
  <2> QED BY <2>1, <2>2 DEF HighestSeen
<1>4. \E m \in seen : \A q \in seen : q <= m
  <2> HIDE DEF old
  <2>1. PICK m \in old : old \subseteq Int /\ \A q \in old : q <= m BY <1>3
  <2>2. CASE Take(p) <= m BY <2>1, <2>2
  <2>3. CASE ~(Take(p) <= m)
    <3>1. \A q \in old : q <= Take(p) BY <1>2, <2>1, <2>3
    <3> QED BY <1>2, <3>1
  <2> QED BY <2>2, <2>3
<1>5. PeakObserved(p) = CHOOSE m \in seen : \A q \in seen : q <= m
  BY DEF PeakObserved
<1>6. PeakObserved(p) \in seen /\ \A q \in seen : q <= PeakObserved(p)
  <2> HIDE DEF seen
  <2> QED BY <1>4, <1>5
<1>7. seen \subseteq Int BY <1>2, <1>3
<1> QED BY <1>2, <1>6, <1>7

WinsIInv ==
    /\ TypeOK /\ snaps # <<>> /\ HighestSeen
    /\ LossyWithdrawals

\* For any prices and snapshots: a call withdrawn below entry is a SHORT call
\* that lost its flow, or the chain had shown it at a take the market did not.
THEOREM WinsAreExplained == Spec => []LossyWithdrawals
<1>1. Init /\ TypeOK => WinsIInv
  <2> SUFFICES ASSUME Init, TypeOK PROVE WinsIInv OBVIOUS
  <2>1. Len(snaps) = 1 /\ snaps # <<>> /\ DOMAIN snaps = {1} BY DEF Init
  <2>2. snaps[1].pct \in Int BY <2>1, SnapPrices
  <2>3. HighestSeen BY <2>1, <2>2 DEF HighestSeen, SinceCall
  <2>4. LossyWithdrawals BY DEF Init, LossyWithdrawals
  <2> QED BY <2>1, <2>3, <2>4 DEF WinsIInv
<1>2. WinsIInv /\ TypeOK' /\ [Next]_vars => WinsIInv'
  <2> SUFFICES ASSUME WinsIInv, TypeOK', [Next]_vars PROVE WinsIInv' OBVIOUS
  <2> USE DEF WinsIInv
  <2>1. ASSUME NEW p \in Prices, NEW c \in Confs, NEW f \in Flags, Analyse(p, c, f)
        PROVE  WinsIInv'
    <3>1. HighestSeen' BY <2>1, HighestAfterAnalysis
    <3>2. snaps' # <<>> BY <2>1 DEF Analyse, TypeOK
    <3>3. LossyWithdrawals' BY <2>1 DEF Analyse, LossyWithdrawals
    <3> QED BY <3>1, <3>2, <3>3
  <2>2. ASSUME NEW p \in Prices, Settle(p) PROVE WinsIInv'
    <3> DEFINE r == Reading(p)
    <3>1. UNCHANGED <<horizon, age, snaps>> BY <2>2 DEF Settle
    <3>2. HighestSeen' BY <3>1 DEF HighestSeen, SinceCall
    <3>3. CASE Rule(r) = "none"
      <4>1. UNCHANGED <<status, exit>> BY <2>2, <3>3, Zenon DEF Settle
      <4> QED BY <3>1, <3>2, <4>1 DEF LossyWithdrawals, Latest
    <3>4. CASE Rule(r) # "none"
      <4>1. /\ exit' = [rule |-> Rule(r), pct |-> p, peak |-> PeakObserved(p), age |-> age]
            /\ status' = Verdict(Rule(r))
        BY <2>2, <3>4, Zenon DEF Settle
      <4>2. /\ r.horizon = horizon /\ r.pct = p /\ r.take = Take(p)
            /\ horizon \in Horizons /\ p \in Int
        BY CallsAssumption, PricesAssumption DEF Reading, TypeOK
      <4>3. Take(p) \in Int /\ PeakObserved(p) \in Int /\ Take(p) <= PeakObserved(p)
        BY PeakCoversTake
      <4> HIDE DEF r
      <4>4. exit'.rule = Rule(r) /\ exit'.pct = p /\ exit'.peak = PeakObserved(p)
        BY <4>1
      <4>5. ASSUME status' = "withdrew", p < 0
            PROVE  \/ Rule(r) = "energy gone" /\ horizon = "SHORT"
                   \/ PeakObserved(p) >= 30 /\ Latest.pct >= 30
        <5>1. Rule(r) \in Rules BY <3>4, <4>2, RuleNames
        <5>2. Verdict(Rule(r)) = "withdrew" BY <4>1, <4>5
        <5>6. Rule(r) \in Takes BY <5>1, <5>2, WinsAreTakes
        <5>3. ASSUME TrailExit(r) = "trailing stop" PROVE FALSE
          <6>1. r.pct >= 0 BY <4>2, <5>3, TrailInProfit
          <6> QED BY <4>2, <4>5, <6>1
        <5>4. \/ Take(p) >= 30
              \/ Rule(r) = "energy gone" /\ horizon = "SHORT"
          BY <4>2, <4>3, <5>6, <5>3, WinningRules
        <5>5. ASSUME Take(p) >= 30 PROVE Latest.pct >= 30 /\ PeakObserved(p) >= 30
          <6>1. Latest.pct = Take(p) BY <4>2, <4>5, <5>5 DEF Take
          <6> QED BY <4>3, <5>5, <6>1
        <5> QED BY <5>4, <5>5
      <4>6. LossyWithdrawals' BY <3>1, <4>4, <4>5 DEF LossyWithdrawals, Latest
      <4> QED BY <3>1, <3>2, <4>6
    <3> QED BY <3>3, <3>4
  <2>3. CASE DevAlert
    BY <2>3 DEF DevAlert, LossyWithdrawals, HighestSeen, SinceCall
  <2>4. ASSUME NEW t \in Instants, Pass(t) PROVE WinsIInv'
    BY <2>4 DEF Pass, LossyWithdrawals, HighestSeen, SinceCall
  <2>5. CASE ExpireStale
    BY <2>5 DEF ExpireStale, LossyWithdrawals, HighestSeen, SinceCall
  <2>6. CASE UNCHANGED vars
    BY <2>6 DEF vars, LossyWithdrawals, HighestSeen, SinceCall, Latest
  <2> QED BY <2>1, <2>2, <2>3, <2>4, <2>5, <2>6 DEF Next
<1>3. WinsIInv => LossyWithdrawals BY DEF WinsIInv
<1> QED BY <1>1, <1>2, <1>3, SettleTypes, PTL DEF Spec
=============================================================================
