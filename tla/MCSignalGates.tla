--------------------------- MODULE MCSignalGates ---------------------------
(***************************************************************************)
(* Inputs for TLC: every token one or two measures away from a token that  *)
(* passes one of the gates, some of them met by pairs of rows, every       *)
(* momentum and distribution, and every tape of up to four closed calls.   *)
(***************************************************************************)
EXTENDS SignalGates

Staircase == [class |-> "STAIRCASE", conf |-> 75, topHolder |-> 12, top10 |-> 30,
    txRate |-> 120, bundle |-> 0, sniper |-> 30, insider |-> 0, buys |-> 150,
    sells |-> 100, delta |-> [mom |-> 0, holders |-> 0, elapsed |-> 60],
    liq |-> 30, vol |-> 60, mcap |-> 90, h1 |-> 120, peak |-> 10, holders |-> 50,
    age |-> 900, preRise |-> 0, deployer |-> None]
Developing == [Staircase EXCEPT !.class = "DEVELOPING", !.mcap = 60]

Measured == [class |-> {"GRINDER", "SPRING", "DEVELOPING", "SURGE"},
    conf |-> {59, 60, 64, 65, 69, 70, 74}, topHolder |-> {13, 14, 18, 24, 25},
    top10 |-> {39, 40, 50}, txRate |-> {4, 5, 24}, bundle |-> {29, 30},
    sniper |-> {39, 40, 94, 95}, insider |-> {24, 25}, buys |-> {9, 109, 301},
    sells |-> {0, 90}, delta |-> {None, [mom |-> -1, holders |-> 0, elapsed |-> 60],
        [mom |-> 0, holders |-> -1, elapsed |-> 60],
        [mom |-> 0, holders |-> 0, elapsed |-> 0]},
    liq |-> {None, 24, 25}, vol |-> {None, 49}, mcap |-> {None, 14, 15, 5000, 5001},
    h1 |-> {None, 50, 301, 10001}, peak |-> {None, 20}, holders |-> {14, 29, 1001},
    age |-> {None, 179, 899, 14401}, preRise |-> {None, -1},
    deployer |-> {[prior |-> 3, rugs |-> 1], [prior |-> 4, rugs |-> 2]}]

Tokens == UNION {UNION {UNION {{[base EXCEPT ![f] = v, ![g] = w] :
                                  v \in Measured[f], w \in Measured[g]} :
                               f, g \in DOMAIN Measured} :
                        base \in {Staircase, Developing}}, {Staircase}}

(* Tokens that meet every pair of rows. *)
Pairs == {[base EXCEPT !.conf = c, !.topHolder = x, !.h1 = h, !.peak = p] :
             base \in {Staircase, [Staircase EXCEPT !.class = "SPRING"]},
             c \in {70, 75}, x \in {10, 15, 20}, h \in {None, 100}, p \in {10, 10001}}

Score(layer, type, s) == [layer |-> layer, type |-> type, score |-> s]
Shapes == {<<Score("Microstructure", "tx_rate", m), Score("Safety", "top_holder", d)>> :
              m, d \in 0 .. 100}
Events == {<<Score("Microstructure", "tx_rate", r), Score("Safety", "holders", d),
             Score("OnChain", "history", h), Score("SmartMoney", "flow", 80), e>> :
    r \in {20, 30, 95}, d \in {20, 60, 100}, h \in {10, 90},
    e \in {Score("Safety", "non_transferable", 0), Score("Safety", "permanent_delegate", 5),
           Score("Microstructure", "tx_success_rate", 15),
           Score("Microstructure", "demand_congestion", 76)}}

Calls == [mark : {None, 1, 2}, pnl : {None, -10, 0, 4, 9}]
ShortTapes == UNION {[1 .. n -> Calls] : n \in 1 .. 4}

Input(tk, sc, tp, n) == [token |-> tk, scores |-> sc, tape |-> tp, turns |-> n]
MCInputs == {
    {Input(tk, <<>>, <<>>, 1) : tk \in Tokens},
    {Input(tk, <<>>, <<>>, 2) : tk \in Pairs},
    {Input(Staircase, sc, <<>>, 0) : sc \in Shapes \cup Events},
    {Input(Staircase, <<>>, tp, 0) : tp \in ShortTapes}}

(* Nine calls that lost r and are marked out, then sixteen of which k lost 1. *)
LongTapes == {[i \in 1 .. 25 |-> IF i <= 9 THEN [mark |-> 2, pnl |-> -r]
                                 ELSE [mark |-> 1, pnl |-> IF i <= 9 + k THEN -1 ELSE 0]] :
                k \in 0 .. 4, r \in 10 .. 20}
RoundingInputs == {{Input(Staircase, <<>>, tp, 0) : tp \in LongTapes}}

MCValues == [conf |-> {60, 75, 80}, topHolder |-> {10, 20}, h1Max |-> {0, 120},
             h1Min |-> {-50, 200}, peak |-> {5, 20, 10000}, liq |-> {25, 31},
             vol |-> {0, 61}, age |-> {180, 901}]
=============================================================================
