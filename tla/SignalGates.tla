---------------------------- MODULE SignalGates ----------------------------
(***************************************************************************)
(* The gates that decide whether a scanned token opens a call              *)
(* (src/src/notifier.rs), the knobs that move them (the bot's /halt and    *)
(* /threshold, the committed rows of signal_overrides), and the replay by  *)
(* which src/src/mcp.rs predicts what a move would have done.              *)
(*                                                                         *)
(* A token carries what one analysis measured: percentages are whole,      *)
(* dollars are thousands, ages are seconds, an absent measure is None.     *)
(* delta is None without an earlier snapshot, else [mom, holders,          *)
(* elapsed]; deployer is None or [prior, rugs].                            *)
(***************************************************************************)
EXTENDS TokenScore, TuneEvidence

CONSTANTS Inputs,   \* families of [token, scores, tape, turns] to review
          Values,   \* [field -> values an agent tries]
          Thresholds, Candidates

RequiredClasses == PatternClasses
PerClass   == {"conf", "topHolder", "h1Max", "h1Min", "peak"}
GlobalOnly == {"liq", "vol", "age"}
Fields     == PerClass \cup GlobalOnly
Sweepable  == PerClass \cup {"liq"}
ScopesOf(field) == {"global"} \cup (IF field \in PerClass THEN RequiredClasses ELSE {})
GateKnobs  == {k \in Fields \X ({"global"} \cup RequiredClasses) : k[2] \in ScopesOf(k[1])}

(***************************************************************************)
(* The values a field may be given: validate_field_value.                  *)
(***************************************************************************)
Validated(field) ==
    CASE field \in {"conf", "topHolder"}    -> 0 .. 100
      [] field \in {"liq", "vol", "age"}    -> Nat
      [] field \in {"h1Max", "h1Min"}       -> -100 .. 10000
      [] field = "peak"                     -> 0 .. 10000

(***************************************************************************)
(* What an analysis can measure.                                           *)
(***************************************************************************)
Measure  == Int \cup {None}
Analysis == [class : Classes, conf : 0 .. 100, topHolder : Int, top10 : Int,
    txRate : Int, bundle : Int, sniper : Int, insider : Int, buys : Nat,
    sells : Nat, delta : {None} \cup [mom : Int, holders : Int, elapsed : Int],
    liq : Measure, vol : Measure, mcap : Measure, h1 : Measure, peak : Measure,
    holders : Int, age : Measure, preRise : Measure,
    deployer : {None} \cup [prior : Nat, rugs : Nat]]

(* The closed calls a candidate is tried on. *)
Tapes == Seq([mark : Measure, pnl : Measure])

GateNames == {"conf", "top_holder", "top10", "tx_rate", "bundle", "sniper",
    "insider", "buy_sell_low", "buy_sell_high", "momentum_delta", "history",
    "liquidity", "volume24", "mcap", "mcap_high", "age", "holder_growth"}

ASSUME GatesAssumption ==
    /\ \A family \in Inputs : \A i \in family :
           i.token \in Analysis /\ i.scores \in Scores /\ i.tape \in Tapes
    /\ Thresholds \subseteq 0 .. 100
    /\ None \notin GateNames

VARIABLES token,     \* the analysis under review
          scores,    \* its scores, before the confidence is computed
          tape,      \* the closed calls a tune is argued from
          turns,     \* knob turns left, a bound
          overrides, \* signal_overrides: [knob -> value]
          threshold, \* signal_threshold_override, 0 when unset
          halted,
          opened,    \* None, or the horizon the token opened with, or "none"
          nearMiss,  \* the gate logged for a token that opened nothing
          offered    \* the candidates rank_tune_candidates returns

gateVars == <<token, scores, tape, turns, overrides, threshold, halted, opened,
          nearMiss, offered>>

NoOverrides == <<>>
Default(field) == [conf |-> 0, topHolder |-> 25, h1Max |-> 10000, h1Min |-> -100,
                   peak |-> 10000, liq |-> 25, vol |-> 50, age |-> 900][field]
ClassFloor(class) == IF class = "STAIRCASE" THEN 70
                     ELSE IF class = "GRINDER" THEN 65
                     ELSE IF class = "DEVELOPING" THEN 60 ELSE 0

(***************************************************************************)
(* What a gate compares with: the class's row, the global row, the         *)
(* constant.  The confidence floor never looks at the global row.          *)
(***************************************************************************)
InForce(rows, field, class) ==
    IF <<field, class>> \in DOMAIN rows THEN rows[<<field, class>>]
    ELSE IF field = "conf" THEN ClassFloor(class)
    ELSE IF <<field, "global">> \in DOMAIN rows THEN rows[<<field, "global">>]
    ELSE Default(field)

SignalThreshold(n) == IF n > 0 THEN n ELSE 65

AtLeast(x, floor) == x # None => x >= floor
AtMost(x, ceiling) == x # None => x <= ceiling
Within(x, lo, hi) == IF x = None THEN FALSE ELSE lo <= x /\ x <= hi

(***************************************************************************)
(* Buys over sells of the last hour, gated from a hundred trades on; no    *)
(* sells count as 1.2.                                                     *)
(***************************************************************************)
PressureLow(tk)  == tk.buys + tk.sells >= 100 /\ tk.sells > 0
                    /\ 10 * tk.buys < 11 * tk.sells
PressureHigh(tk) == tk.buys + tk.sells >= 100 /\ tk.sells > 0
                    /\ tk.buys > 3 * tk.sells

TradesSteadily(tk) ==
    /\ tk.delta # None
    /\ tk.delta.mom >= 0 /\ tk.delta.elapsed > 0 /\ tk.delta.holders >= 0
    /\ tk.txRate >= 5
    /\ ~PressureLow(tk) /\ ~PressureHigh(tk)

(***************************************************************************)
(* bundle, sniper and insider shares; an unmeasured share is 0 and passes. *)
(***************************************************************************)
LaunchClean(tk) ==
    /\ tk.bundle < 30 /\ tk.insider < 25 /\ tk.sniper < 95
    /\ tk.sniper < 40 \/ tk.conf >= 75

DeepEnough(rows, tk) ==
    LET inForce(field) == InForce(rows, field, tk.class)
    IN  /\ tk.liq # None /\ AtLeast(tk.liq, inForce("liq"))
        /\ tk.vol # None /\ AtLeast(tk.vol, inForce("vol"))
        /\ Within(tk.mcap, 15, 5000)
        /\ AtMost(tk.h1, inForce("h1Max")) /\ AtLeast(tk.h1, inForce("h1Min"))
        /\ inForce("peak") < 9999 => AtMost(tk.peak, inForce("peak"))

ShouldSignal(rows, limit, tk) ==
    /\ tk.class \in RequiredClasses
    /\ tk.conf >= SignalThreshold(limit)
    /\ tk.conf >= InForce(rows, "conf", tk.class)
    /\ tk.topHolder < InForce(rows, "topHolder", tk.class) /\ tk.top10 < 50
    /\ TradesSteadily(tk)
    /\ DeepEnough(rows, tk)
    /\ tk.age # None /\ AtLeast(tk.age, InForce(rows, "age", tk.class))
    /\ LaunchClean(tk)

(***************************************************************************)
(* The shallow zone: a pattern that ran in the last hour.                  *)
(***************************************************************************)
ShouldScalp(tk) ==
    /\ tk.class \in RequiredClasses
    /\ Within(tk.mcap, 87, 499)
    /\ Within(tk.h1, 100, 300)
    /\ tk.txRate >= 25 /\ tk.holders >= 15
    /\ tk.age # None /\ AtMost(tk.age, 4 * 3600)
    /\ tk.liq # None /\ AtLeast(tk.liq, 25)
    /\ tk.topHolder < 14 /\ tk.top10 < 40
    /\ LaunchClean(tk)
    /\ ~PressureLow(tk) /\ ~PressureHigh(tk)

RugDeployer(tk) == tk.deployer # None
                   /\ tk.deployer.prior >= 3
                   /\ 2 * tk.deployer.rugs >= tk.deployer.prior

ShouldMoonshot(tk) ==
    /\ tk.class = "DEVELOPING"
    /\ Within(tk.mcap, 5, 80)
    /\ tk.holders \in 30 .. 1000
    /\ tk.topHolder < 18 /\ tk.txRate >= 100
    /\ tk.bundle < 50 /\ tk.sniper < 95 /\ tk.insider < 40
    /\ tk.age # None /\ AtLeast(tk.age, 180)
    /\ AtLeast(tk.preRise, 0)
    /\ ~RugDeployer(tk)

(***************************************************************************)
(* The horizon a token opens with: the standard gate, then the two others. *)
(***************************************************************************)
RouteOf(rows, limit, stop, tk) ==
    IF stop THEN "none"
    ELSE IF ShouldSignal(rows, limit, tk) THEN "SIGNAL"
    ELSE IF ShouldScalp(tk) THEN "SCALP"
    ELSE IF ShouldMoonshot(tk) THEN "MOONSHOT"
    ELSE "none"

(* Mutant: a market cap above the window goes unnamed. *)
MarketMissesNoCeiling(tk) ==
    << <<"liquidity", tk.liq = None \/ ~AtLeast(tk.liq, 25)>>,
       <<"volume24",  tk.vol = None \/ ~AtLeast(tk.vol, 50)>>,
       <<"mcap",      tk.mcap = None \/ ~AtLeast(tk.mcap, 15)>>,
       <<"age",       tk.age = None \/ ~AtLeast(tk.age, 900)>>,
       <<"holder_growth", /\ tk.delta # None
                          /\ tk.delta.elapsed > 0 /\ tk.delta.holders < 0>> >>

(***************************************************************************)
(* The gates that need market data, in the order they are named.           *)
(***************************************************************************)
MarketMisses(tk) ==
    << <<"liquidity", tk.liq = None \/ ~AtLeast(tk.liq, 25)>>,
       <<"volume24",  tk.vol = None \/ ~AtLeast(tk.vol, 50)>>,
       <<"mcap",      tk.mcap = None \/ ~AtLeast(tk.mcap, 15)>>,
       <<"mcap_high", tk.mcap # None /\ ~AtMost(tk.mcap, 5000)>>,
       <<"age",       tk.age = None \/ ~AtLeast(tk.age, 900)>>,
       <<"holder_growth", /\ tk.delta # None
                          /\ tk.delta.elapsed > 0 /\ tk.delta.holders < 0>> >>

HolderMisses(tk) ==
    << <<"top_holder", tk.topHolder >= 25>>, <<"top10", tk.top10 >= 50>>,
       <<"tx_rate", tk.txRate < 5>>, <<"bundle", tk.bundle >= 30>>,
       <<"sniper", tk.sniper >= 95>>, <<"insider", tk.insider >= 25>>,
       <<"buy_sell_low", PressureLow(tk)>>, <<"buy_sell_high", PressureHigh(tk)>>,
       <<"momentum_delta", tk.delta # None /\ tk.delta.mom < 0>>,
       <<"history", tk.delta = None>> >>

GateMisses(tk) == HolderMisses(tk) \o MarketMisses(tk)

(***************************************************************************)
(* classify_near_miss: the first failing gate, by the constants alone.     *)
(***************************************************************************)
NearMissOf(tk) ==
    LET bites == {i \in DOMAIN GateMisses(tk) : GateMisses(tk)[i][2]}
    IN  IF tk.class \notin RequiredClasses \/ tk.conf < 60 THEN None
        ELSE IF tk.conf < 65 THEN "conf"
        ELSE IF bites = {} THEN None
        ELSE GateMisses(tk)[CHOOSE i \in bites : \A j \in bites : i <= j][1]

(* Mutant: a call without the measure fails the replay. *)
FieldPassesOnlyMeasured(field, tk, v) ==
    CASE field = "conf"      -> tk.conf >= v
      [] field = "topHolder" -> tk.topHolder <= v
      [] field = "liq"       -> AtLeast(tk.liq, v)
      [] field = "h1Max"     -> tk.h1 # None /\ AtMost(tk.h1, v)
      [] field = "h1Min"     -> tk.h1 # None /\ AtLeast(tk.h1, v)
      [] field = "peak"      -> tk.peak # None /\ AtMost(tk.peak, v)

(***************************************************************************)
(* call_passes: whether a closed call would have passed the candidate.     *)
(***************************************************************************)
FieldPasses(field, tk, v) ==
    CASE field = "conf"      -> tk.conf >= v
      [] field = "topHolder" -> tk.topHolder <= v
      [] field = "liq"       -> AtLeast(tk.liq, v)
      [] field = "h1Max"     -> AtMost(tk.h1, v)
      [] field = "h1Min"     -> AtLeast(tk.h1, v)
      [] field = "peak"      -> AtMost(tk.peak, v)

(***************************************************************************)
(* simulate_overrides: every row whose scope is the call's must pass.      *)
(***************************************************************************)
ReplayKeeps(rows, tk) ==
    \A k \in DOMAIN rows :
        k[2] \in {"global", tk.class} => FieldPasses(k[1], tk, rows[k])

(***************************************************************************)
(* What the agent is told a knob stands at (resolve_current_value).        *)
(***************************************************************************)
CurrentValue(rows, field, scope) ==
    IF <<field, scope>> \in DOMAIN rows THEN rows[<<field, scope>>]
    ELSE IF <<field, "global">> \in DOMAIN rows THEN rows[<<field, "global">>]
    ELSE IF field = "conf" THEN ClassFloor(scope)
    ELSE Default(field)

-----------------------------------------------------------------------------
GatesInit ==
    /\ \E family \in Inputs : \E i \in family :
           token = i.token /\ scores = i.scores /\ tape = i.tape /\ turns = i.turns
    /\ overrides = NoOverrides /\ threshold = 0 /\ halted = FALSE
    /\ opened = None /\ nearMiss = None /\ offered = {}

Turned == turns > 0 /\ opened = None /\ turns' = turns - 1

(***************************************************************************)
(* A committed tune: the field, the scope and the value are validated.     *)
(***************************************************************************)
CommitTune(k, v) ==
    /\ Turned
    /\ v \in Validated(k[1])
    /\ overrides' = [x \in DOMAIN overrides \cup {k} |->
                        IF x = k THEN v ELSE overrides[x]]
    /\ UNCHANGED <<token, scores, tape, threshold, halted, opened, nearMiss, offered>>

SetThreshold(n) ==
    /\ Turned
    /\ threshold' = n
    /\ UNCHANGED <<token, scores, tape, overrides, halted, opened, nearMiss, offered>>

SetHalted(b) ==
    /\ Turned
    /\ halted' = b
    /\ UNCHANGED <<token, scores, tape, overrides, threshold, opened, nearMiss, offered>>

(***************************************************************************)
(* The analysis ends: the scores become a class and a confidence.          *)
(***************************************************************************)
Analyze ==
    /\ scores # <<>>
    /\ token' = [token EXCEPT !.class = FromScores(scores).class,
                              !.conf = FromScores(scores).total]
    /\ scores' = <<>>
    /\ UNCHANGED <<tape, turns, overrides, threshold, halted, opened, nearMiss, offered>>

(***************************************************************************)
(* The notifier reviews a token that has no card yet.                      *)
(***************************************************************************)
Decide ==
    /\ scores = <<>> /\ opened = None
    /\ opened' = RouteOf(overrides, threshold, halted, token)
    /\ nearMiss' = IF opened' = "none" THEN NearMissOf(token) ELSE None
    /\ UNCHANGED <<token, scores, tape, turns, overrides, threshold, halted, offered>>

(***************************************************************************)
(* rank_tune_candidates over the closed calls.                             *)
(***************************************************************************)
Rank ==
    /\ tape # <<>>
    /\ offered' = {c \in Candidates : RankOffers(tape, c)}
    /\ UNCHANGED <<token, scores, tape, turns, overrides, threshold, halted,
                   opened, nearMiss>>

GatesNext ==
    \/ \E k \in GateKnobs : \E v \in Values[k[1]] : CommitTune(k, v)
    \/ \E n \in Thresholds : SetThreshold(n)
    \/ \E b \in BOOLEAN : SetHalted(b)
    \/ Analyze \/ Decide \/ Rank

GatesSpec == GatesInit /\ [][GatesNext]_gateVars

-----------------------------------------------------------------------------
GatesTypeOK ==
    /\ token.class \in Classes /\ token.conf \in 0 .. 100
    /\ DOMAIN overrides \subseteq GateKnobs
    /\ threshold \in 0 .. 100 /\ halted \in BOOLEAN
    /\ opened \in {None, "none", "SIGNAL", "SCALP", "MOONSHOT"}
    /\ nearMiss \in GateNames \cup {None}
    /\ offered \subseteq Candidates

Untouched == overrides = NoOverrides /\ threshold = 0 /\ ~halted

(***************************************************************************)
(* The gates classify_near_miss has no name for: confidences it leaves     *)
(* out, the class's own floor, the middle sniper tier, two snapshots of    *)
(* one second, and a last hour beyond its two bounds.                      *)
(***************************************************************************)
Unnamed(tk) ==
    \/ tk.class \notin RequiredClasses
    \/ tk.conf < 60
    \/ /\ tk.conf >= 65
       /\ \/ tk.conf < ClassFloor(tk.class)
          \/ tk.sniper \in 40 .. 94 /\ tk.conf < 75
          \/ tk.delta # None /\ tk.delta.elapsed <= 0
          \/ ~AtMost(tk.h1, 10000) \/ ~AtLeast(tk.h1, -100)

(***************************************************************************)
(* With no knob turned, classify_near_miss and should_signal, two separate *)
(* walks over a dozen gates, agree on every token: a named gate really     *)
(* kept the token out, and a token kept out is named a gate unless only a  *)
(* gate without a name bites.                                              *)
(***************************************************************************)
NearMissAgrees ==
    Untouched =>
        /\ NearMissOf(token) # None => ~ShouldSignal(NoOverrides, 0, token)
        /\ ~ShouldSignal(NoOverrides, 0, token) /\ ~Unnamed(token)
               => NearMissOf(token) # None

(***************************************************************************)
(* The rows the replay reads as the gate does.  It does not for a global   *)
(* confidence floor, which no gate reads; a global row behind one of the   *)
(* token's class, which the gate skips and the replay demands as well; a   *)
(* peak ceiling of 9999 or more, which the gate takes for none; a holder   *)
(* share equal to its ceiling, which the gate rejects and the replay       *)
(* keeps.                                                                  *)
(***************************************************************************)
Honoured(rows, tk, k) ==
    /\ k[1] \in Sweepable /\ k # <<"conf", "global">>
    /\ k[2] = "global" => <<k[1], tk.class>> \notin DOMAIN rows
    /\ k[1] = "peak" => rows[k] < 9999
    /\ k[1] = "topHolder" => tk.topHolder # rows[k]
HonouredRows(rows, tk) == \A k \in DOMAIN rows : Honoured(rows, tk, k)

(***************************************************************************)
(* The replay tells the agent what the gate would do: of the tokens the    *)
(* constants let through, the committed rows keep exactly those the replay *)
(* keeps.  The rows that are known to differ are left out.                 *)
(***************************************************************************)
ReplayPredictsGate ==
    HonouredRows(overrides, token) /\ ShouldSignal(NoOverrides, 0, token) =>
        (ShouldSignal(overrides, 0, token) <=> ReplayKeeps(overrides, token))

(***************************************************************************)
(* A candidate that rank_tune_candidates offers and whose calls did not    *)
(* lose on average passes the floors of propose_tune, although the one     *)
(* rounds the effect once and the other subtracts two rounded means.       *)
(***************************************************************************)
RankedGainIsAccepted ==
    \A c \in offered : EvaluateCandidate(tape, c).proposed >= 0
                          => FloorsAccept(EvaluateCandidate(tape, c))

(***************************************************************************)
(* A fresh staircase always clears its class's own confidence floor of 70: *)
(* the floor only ever bites on a total that has decayed with age.         *)
(***************************************************************************)
StaircaseClearsItsFloor ==
    scores # <<>> /\ FromScores(scores).class = "STAIRCASE"
        => FromScores(scores).total >= ClassFloor("STAIRCASE")

-----------------------------------------------------------------------------
(***************************************************************************)
(* "Source of truth for a (field, scope)'s current value" (mcp.rs:4160).   *)
(***************************************************************************)
ToldIsInForce ==
    \A field \in PerClass, class \in RequiredClasses :
        CurrentValue(overrides, field, class) = InForce(overrides, field, class)

(***************************************************************************)
(* What rank_tune_candidates offers, propose_tune accepts: "All candidates *)
(* pre-validated against the same floors propose_tune enforces"            *)
(* (mcp.rs:3499).  The one rounds the effect once, the other subtracts two *)
(* rounded means.                                                          *)
(***************************************************************************)
RankedIsAccepted ==
    \A c \in offered : FloorsAccept(EvaluateCandidate(tape, c))
=============================================================================
