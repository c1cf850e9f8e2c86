---------------------------- MODULE SmartWallets ----------------------------
(***************************************************************************)
(* The wallets whose buys are imitated: the buyers of a promising mint are *)
(* observed once (src/src/wallet_observer.rs), the good ones are put on a  *)
(* list every hour (src/src/main.rs), the operator edits that list         *)
(* (src/src/bot.rs), and the scan cycle tells of every mint a wallet on it *)
(* holds for the first time (src/src/scanner.rs).                          *)
(*                                                                         *)
(* Prices are abstracted to the purchases that multiplied afterwards, and  *)
(* every mint is taken to have been measured.  A pass over the list waits  *)
(* once per wallet, for its holdings; what follows is one run of writes,   *)
(* of which a restart or an error may cut off the rest.                    *)
(***************************************************************************)
EXTENDS Integers, FiniteSets

CONSTANTS Wallets, Mints,
          MinObs, MinWinners, MinHitPct,  \* what puts a wallet on the list
          MaxOrders,                      \* commands of the operator
          MaxWalletFaults                 \* failed steps and restarts

ASSUME WalletAssumption ==
    /\ {MinObs, MinWinners, MinHitPct, MaxOrders, MaxWalletFaults} \subseteq Nat

VARIABLES bought,      \* <<wallet, mint>>: bought at some time, on chain
          holds,       \* <<wallet, mint>>: held now, on chain
          gained,      \* <<wallet, mint>>: multiplied after the purchase
          traces,      \* mint -> row of wallet_observation_traces
          asking,      \* mints whose buyers are being asked for
          observed,    \* rows of wallet_observations
          smart,       \* wallet -> row of smart_wallets
          subscribed,  \* wallets the stream was asked for at the start
          scan,        \* pass over the list: [at, todo, new, pair]
          known,       \* rows of smart_wallet_holdings
          told,        \* <<wallet, mint>> -> alerts written
          unsaid,      \* <<wallet, mint>>: an alert could not be written (history)
          orders, walletFaults

chain   == <<bought, holds, gained>>
tracing == <<traces, asking, observed>>
list    == <<smart, subscribed>>
passing == <<scan, known, told, unsaid>>
bounds  == <<orders, walletFaults>>
walletVars == <<chain, tracing, list, passing, bounds>>

Pairs == Wallets \X Mints
NoPair == <<"none", "none">>
NoPass == [at |-> "rest", todo |-> {}, new |-> {}, pair |-> NoPair]

WalletInit ==
    /\ bought = {} /\ holds = {} /\ gained = {}
    /\ traces = [m \in Mints |-> "none"]
    /\ asking = {} /\ observed = {}
    /\ smart = [w \in Wallets |-> "absent"] /\ subscribed = {}
    /\ scan = NoPass /\ known = {} /\ told = [p \in Pairs |-> 0] /\ unsaid = {}
    /\ orders = 0 /\ walletFaults = 0

WalletFault == walletFaults < MaxWalletFaults /\ walletFaults' = walletFaults + 1

Listed == {w \in Wallets : smart[w] = "active"}

-----------------------------------------------------------------------------
(***************************************************************************)
(* A wallet buys or sells; the stream reports the purchases of the wallets *)
(* it was asked for, while it is connected.  A mint multiplies.            *)
(***************************************************************************)
WalletBuys(w, m) ==
    /\ <<w, m>> \notin holds
    /\ holds' = holds \cup {<<w, m>>} /\ bought' = bought \cup {<<w, m>>}
    /\ \/ w \in subscribed /\ observed' = observed \cup {<<w, m>>}
       \/ UNCHANGED observed
    /\ UNCHANGED <<gained, traces, asking, list, passing, bounds>>

WalletSells(p) ==
    /\ p \in holds /\ holds' = holds \ {p}
    /\ UNCHANGED <<bought, gained, tracing, list, passing, bounds>>

MintGains(m) ==
    /\ gained' = gained \cup {p \in bought : p[2] = m}
    /\ gained' # gained
    /\ UNCHANGED <<bought, holds, tracing, list, passing, bounds>>

-----------------------------------------------------------------------------
(***************************************************************************)
(* Whenever a mint is found promising, by whichever task analyses it, its  *)
(* buyers are asked for, by the first that inserts the row.  A row left by *)
(* a failure or a restart is never taken up again.                         *)
(***************************************************************************)
ClaimTrace(m) ==
    /\ traces[m] = "none"
    /\ traces' = [traces EXCEPT ![m] = "claimed"]

SpawnTrace(m) ==
    /\ (\E w \in Wallets : <<w, m>> \in bought)
    /\ ClaimTrace(m)
    /\ asking' = asking \cup {m}
    /\ UNCHANGED <<chain, observed, list, passing, bounds>>

EndTrace(m) ==
    /\ m \in asking /\ asking' = asking \ {m}
    /\ \/ /\ traces' = [traces EXCEPT ![m] = "done"]
          /\ observed' = observed \cup {p \in bought : p[2] = m}
          /\ UNCHANGED walletFaults
       \/ /\ traces' = [traces EXCEPT ![m] = "failed"]
          /\ WalletFault /\ UNCHANGED observed
    /\ UNCHANGED <<chain, list, passing, orders>>

-----------------------------------------------------------------------------
(***************************************************************************)
(* Once an hour every wallet that was right often enough is put on the     *)
(* list, unless it has a row.                                              *)
(***************************************************************************)
SeenBuys(w) == {p \in observed : p[1] = w}
Hits(w)     == SeenBuys(w) \cap gained
Earned(w) ==
    /\ Cardinality(SeenBuys(w)) >= MinObs
    /\ Cardinality(Hits(w)) >= MinWinners
    /\ 100 * Cardinality(Hits(w)) >= MinHitPct * Cardinality(SeenBuys(w))

PromoteSmartWallets ==
    /\ \E w \in Wallets : Earned(w) /\ smart[w] = "absent"
    /\ smart' = [w \in Wallets |->
                    IF Earned(w) /\ smart[w] = "absent" THEN "active" ELSE smart[w]]
    /\ UNCHANGED <<chain, tracing, subscribed, passing, bounds>>

(***************************************************************************)
(* The operator adds a wallet, or takes one off the list; a wallet that    *)
(* has no row is answered in the same way.                                 *)
(***************************************************************************)
WatchWallet(w) ==
    /\ orders < MaxOrders /\ orders' = orders + 1
    /\ smart' = [smart EXCEPT ![w] = "active"]
    /\ UNCHANGED <<chain, tracing, subscribed, passing, walletFaults>>

UnwatchWallet(w) ==
    /\ orders < MaxOrders /\ orders' = orders + 1
    /\ smart' = [smart EXCEPT ![w] = IF @ = "absent" THEN @ ELSE "off"]
    /\ UNCHANGED <<chain, tracing, subscribed, passing, walletFaults>>

-----------------------------------------------------------------------------
(***************************************************************************)
(* A pass of the scan cycle reads the list, then wallet after wallet the   *)
(* holdings and the mints known of it.  A wallet that cannot be read is    *)
(* left for the next pass.                                                 *)
(***************************************************************************)
BeginSmartScan ==
    /\ scan.at = "rest" /\ Listed # {}
    /\ scan' = [NoPass EXCEPT !.at = "next", !.todo = Listed]
    /\ UNCHANGED <<chain, tracing, list, known, told, unsaid, bounds>>

(* Mutant: the first look at a wallet is its baseline. *)
FetchAsBaseline ==
    /\ scan.at = "next"
    /\ \E w \in scan.todo :
          \/ /\ scan' = [scan EXCEPT !.todo = @ \ {w}, !.at = "diff",
                  !.new = {p \in holds \ known : p[1] = w /\ \E q \in known : q[1] = w}]
             /\ UNCHANGED walletFaults
          \/ scan' = [scan EXCEPT !.todo = @ \ {w}] /\ WalletFault
    /\ UNCHANGED <<chain, tracing, list, known, told, unsaid, orders>>

FetchHoldings ==
    /\ scan.at = "next"
    /\ \E w \in scan.todo :
          \/ /\ scan' = [scan EXCEPT !.todo = @ \ {w},
                           !.new = {p \in holds \ known : p[1] = w}, !.at = "diff"]
             /\ UNCHANGED walletFaults
          \/ scan' = [scan EXCEPT !.todo = @ \ {w}] /\ WalletFault
    /\ UNCHANGED <<chain, tracing, list, known, told, unsaid, orders>>

(***************************************************************************)
(* A new holding is told before it is recorded; either write may fail, and *)
(* the other is made all the same.                                         *)
(***************************************************************************)
NewHolding(p) ==
    /\ scan.at = "diff" /\ p \in scan.new
    /\ scan' = [scan EXCEPT !.at = "first", !.new = @ \ {p}, !.pair = p]
    /\ UNCHANGED <<chain, tracing, list, known, told, unsaid, bounds>>

InsertAlert ==
    \/ told' = [told EXCEPT ![scan.pair] = @ + 1] /\ UNCHANGED <<unsaid, walletFaults>>
    \/ unsaid' = unsaid \cup {scan.pair} /\ WalletFault /\ UNCHANGED told

UpsertHolding ==
    \/ known' = known \cup {scan.pair} /\ UNCHANGED walletFaults
    \/ WalletFault /\ UNCHANGED known

(* Mutant: the other way round. *)
RecordedFirst == <<"holding", "alert">>

WriteOrder == <<"alert", "holding">>

WriteNewHolding(n) ==
    /\ scan.at = IF n = 1 THEN "first" ELSE "second"
    /\ scan' = IF n = 1 THEN [scan EXCEPT !.at = "second"]
               ELSE [scan EXCEPT !.at = "diff", !.pair = NoPair]
    /\ \/ WriteOrder[n] = "alert" /\ InsertAlert /\ UNCHANGED known
       \/ WriteOrder[n] = "holding" /\ UpsertHolding /\ UNCHANGED <<told, unsaid>>
    /\ UNCHANGED <<chain, tracing, list, orders>>

TouchSmartWallet ==
    /\ scan.at = "diff" /\ scan.new = {}
    /\ scan' = [scan EXCEPT !.at = "next"]
    /\ UNCHANGED <<chain, tracing, list, known, told, unsaid, bounds>>

EndSmartScan ==
    /\ scan.at = "next" /\ scan.todo = {}
    /\ scan' = NoPass
    /\ UNCHANGED <<chain, tracing, list, known, told, unsaid, bounds>>

(***************************************************************************)
(* A restart ends the pass and the requests under way, and asks the stream *)
(* for the wallets now on the list.                                        *)
(***************************************************************************)
WalletRestart ==
    /\ WalletFault
    /\ asking' = {} /\ scan' = NoPass /\ subscribed' = Listed
    /\ UNCHANGED <<chain, traces, observed, smart, known, told, unsaid, orders>>

SmartScan ==
    \/ BeginSmartScan \/ FetchHoldings \/ TouchSmartWallet \/ EndSmartScan
    \/ \E p \in Pairs : NewHolding(p)
    \/ \E n \in 1 .. 2 : WriteNewHolding(n)

WalletNext ==
    \/ \E w \in Wallets, m \in Mints : WalletBuys(w, m)
    \/ \E p \in Pairs : WalletSells(p)
    \/ \E m \in Mints : MintGains(m) \/ SpawnTrace(m) \/ EndTrace(m)
    \/ PromoteSmartWallets
    \/ \E w \in Wallets : WatchWallet(w) \/ UnwatchWallet(w)
    \/ SmartScan \/ WalletRestart

(***************************************************************************)
(* The scan cycle goes on pass after pass.                                 *)
(***************************************************************************)
WalletSpec == WalletInit /\ [][WalletNext]_walletVars /\ WF_walletVars(SmartScan)
-----------------------------------------------------------------------------
(***************************************************************************)
(* "alert before recording so we don't miss it on a crashed upsert"        *)
(* (scanner.rs:1606): what is recorded of a wallet has been told, over     *)
(* restarts between the two writes; and it is told again only for a fault. *)
(***************************************************************************)
KnownWasTold ==
    \A p \in Pairs :
        /\ p \in known => told[p] > 0 \/ p \in unsaid
        /\ told[p] <= 1 + walletFaults

(***************************************************************************)
(* A mint that a wallet of the list holds is told of, unless it is sold or *)
(* the wallet taken off before (scan_smart_wallets).                       *)
(***************************************************************************)
SmartBuysTold ==
    \A p \in Pairs :
        (p \in holds /\ smart[p[1]] = "active")
            ~> (told[p] > 0 \/ p \in unsaid \/ p \notin holds \/ smart[p[1]] # "active")
=============================================================================
