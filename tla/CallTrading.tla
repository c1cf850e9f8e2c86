----------------------------- MODULE CallTrading -----------------------------
(***************************************************************************)
(* The life of a call and of the position bought for it.                   *)
(*                                                                         *)
(* Four parties work on the `calls` table, each of their SQL statements    *)
(* atomic under the one connection mutex of Db:                            *)
(*   - the scanner task: auto-calls (Notifier::process_token), the UNSAFE  *)
(*     auto-fail of phase 1, and settle_calls, which lists the active      *)
(*     calls, then works through the list with network awaits in between;  *)
(*   - one spawned buy task per auto-call (spawn_buy);                     *)
(*   - the publisher, which runs expire_stale_calls on every tick;         *)
(*   - the operator, through the bot and the MCP server.                   *)
(* A process crash loses every task and keeps the table and the chain.     *)
(* Writes can fail; reads of the table are taken to succeed.               *)
(***************************************************************************)
EXTENDS Integers, FiniteSets

CONSTANTS
    Mints,          \* token mints
    NoMint,         \* mint column of a row not inserted yet
    MaxCalls,       \* bound: rows ever inserted into `calls`
    MaxPositions,   \* [execution].max_simultaneous_positions
    SellRetryMax,   \* [execution].sell_retry_max
    MaxFaults       \* bound: crashes and failed writes

ASSUME NoMintAssumption == NoMint \notin Mints
ASSUME MaxCallsAssumption == MaxCalls \in Nat \ {0}
ASSUME SellRetryMaxAssumption == SellRetryMax \in Nat
ASSUME MaxPositionsAssumption == MaxPositions \in Nat
ASSUME MaxFaultsAssumption == MaxFaults \in Nat

VARIABLES
    \* table calls, one column each
    rows,        \* rows inserted so far: ids 1..rows exist
    mintOf, source, status, expiry, attempted, buySig, sellSig, sellFails,
    carded,      \* mints with a telegram_deliveries row
    \* the chain
    buyTx, sellTx,
    \* tasks
    buyer,       \* spawn_buy task of each call
    pc, todo, cur, verdict,   \* scanner task: place, list, call at hand, outcome
    faults

ledger == <<rows, mintOf, source, status, expiry>>
trade  == <<attempted, buySig, sellSig, sellFails>>
chain  == <<buyTx, sellTx>>
scan   == <<pc, todo, cur, verdict>>
vars   == <<ledger, trade, carded, chain, buyer, scan, faults>>

Ids      == 1..MaxCalls
Outcomes == {"withdrew", "failed", "expired"}
Terminal == Outcomes \cup {"voided"}
TaskEnd  == {"idle", "done", "lost"}
TaskPc   == TaskEnd \cup {"balance", "sizing", "slot", "swap", "sent"}
SettlePc == {"settle", "route", "selling", "sellsent", "verdict"}
ScanPc   == SettlePc \cup {"analyse", "arm"}

\* "empty": a signature stored with buy_token_received = 0, which is what an
\* unparsable outAmount of the quote becomes.
Fill     == {"none", "filled", "empty"}

TypeOK ==
    /\ rows \in 0..MaxCalls
    /\ mintOf \in [Ids -> Mints \cup {NoMint}]
    /\ source \in [Ids -> {"none", "notifier", "manual"}]
    /\ status \in [Ids -> {"none", "active"} \cup Terminal]
    /\ expiry \in [Ids -> {"unset", "set", "due"}]
    /\ attempted \in [Ids -> BOOLEAN]
    /\ buySig \in [Ids -> Fill]
    /\ sellSig \in [Ids -> BOOLEAN]
    /\ sellFails \in [Ids -> Nat]
    /\ carded \in SUBSET Mints
    /\ buyTx \in [Ids -> {"none", "sent", "landed", "dropped"}]
    /\ sellTx \in [Ids -> {"none", "sent", "landed", "dropped"}]
    /\ buyer \in [Ids -> TaskPc]
    /\ pc \in ScanPc
    /\ todo \in SUBSET Ids
    /\ cur \in Ids \cup {0}
    /\ verdict \in Outcomes \cup {"none"}
    /\ faults \in 0..MaxFaults

-----------------------------------------------------------------------------
(* Db helpers.                                                             *)

\* WHERE mint = ? AND status = 'active'
ActiveOn(m) == {c \in Ids : status[c] = "active" /\ mintOf[c] = m}

\* Slip: the UPDATE forgets AND status = 'active'.
FlipActiveAnyStatus(m, s) ==
    status' = [c \in Ids |-> IF status[c] # "none" /\ mintOf[c] = m
                             THEN s ELSE status[c]]

\* close_call, fail_call and expire_call: one UPDATE keyed by the mint.
FlipActive(m, s) ==
    status' = [c \in Ids |-> IF c \in ActiveOn(m) THEN s ELSE status[c]]

\* count_open_positions
OpenPositions ==
    {c \in Ids : buySig[c] # "none" /\ ~sellSig[c] /\ status[c] = "active"}

\* Slip: the table is created without the partial unique index.
InsertCallNoIndex(m, src, exp) ==
    /\ rows < MaxCalls
    /\ rows' = rows + 1
    /\ mintOf' = [mintOf EXCEPT ![rows + 1] = m]
    /\ source' = [source EXCEPT ![rows + 1] = src]
    /\ status' = [status EXCEPT ![rows + 1] = "active"]
    /\ expiry' = [expiry EXCEPT ![rows + 1] = exp]

\* INSERT OR IGNORE under the partial unique index (mint) WHERE active.
InsertCall(m, src, exp) ==
    /\ rows < MaxCalls
    /\ ActiveOn(m) = {}
    /\ rows' = rows + 1
    /\ mintOf' = [mintOf EXCEPT ![rows + 1] = m]
    /\ source' = [source EXCEPT ![rows + 1] = src]
    /\ status' = [status EXCEPT ![rows + 1] = "active"]
    /\ expiry' = [expiry EXCEPT ![rows + 1] = exp]

\* set_call_expiration also names its row by (mint, active).
SetCallExpiration(m) ==
    expiry' = [c \in Ids |-> IF c \in ActiveOn(m) THEN "set" ELSE expiry[c]]

\* Slip: the attempt is checked and not stored.
MarkBuyAttemptUnstored(c) ==
    /\ buySig[c] = "none"
    /\ ~attempted[c]
    /\ UNCHANGED attempted

\* mark_buy_attempt succeeds only on a row without an attempt or a signature.
MarkBuyAttempt(c) ==
    /\ buySig[c] = "none"
    /\ ~attempted[c]
    /\ attempted' = [attempted EXCEPT ![c] = TRUE]

\* record_buy: WHERE buy_signature IS NULL.
RecordBuy(c, fill) ==
    buySig' = [buySig EXCEPT ![c] = IF @ = "none" THEN fill ELSE @]

\* record_buy_failure: WHERE id = ? AND buy_signature IS NULL; the status the
\* row has by now is not looked at.
RecordBuyFailure(c) ==
    status' = [status EXCEPT ![c] = IF buySig[c] = "none" THEN "voided" ELSE @]

\* record_sell and record_sell_failure: WHERE sell_signature IS NULL.
RecordSell(c) == sellSig' = [sellSig EXCEPT ![c] = TRUE]

RecordSellFailure(c) ==
    sellFails' = [sellFails EXCEPT ![c] = IF sellSig[c] THEN @ ELSE @ + 1]

-----------------------------------------------------------------------------
Init ==
    /\ rows = 0
    /\ mintOf = [c \in Ids |-> NoMint]
    /\ source = [c \in Ids |-> "none"]
    /\ status = [c \in Ids |-> "none"]
    /\ expiry = [c \in Ids |-> "unset"]
    /\ attempted = [c \in Ids |-> FALSE]
    /\ buySig = [c \in Ids |-> "none"]
    /\ sellSig = [c \in Ids |-> FALSE]
    /\ sellFails = [c \in Ids |-> 0]
    /\ carded = {}
    /\ buyTx = [c \in Ids |-> "none"]
    /\ sellTx = [c \in Ids |-> "none"]
    /\ buyer = [c \in Ids |-> "idle"]
    /\ pc = "analyse" /\ todo = {} /\ cur = 0 /\ verdict = "none"
    /\ faults = 0
-----------------------------------------------------------------------------
(* Scanner task: opening calls.                                            *)

\* Slip: the delivery row is not looked at.
AutoCallAgain(m) ==
    /\ pc = "analyse"
    /\ carded' = carded \cup {m}
    /\ IF ActiveOn(m) = {}
       THEN /\ InsertCall(m, "notifier", "unset")
            /\ pc' = "arm" /\ cur' = rows + 1
       ELSE UNCHANGED <<ledger, pc, cur>>
    /\ UNCHANGED <<trade, chain, buyer, todo, verdict, faults>>

\* process_token for a token without a delivery row that passes the gates:
\* the card is sent and stored, then the call is inserted unless the mint
\* already has an active one. (A failed send returns before any write.)
AutoCall(m) ==
    /\ pc = "analyse"
    /\ m \notin carded
    /\ carded' = carded \cup {m}
    /\ IF ActiveOn(m) = {}
       THEN /\ InsertCall(m, "notifier", "unset")
            /\ pc' = "arm" /\ cur' = rows + 1
       ELSE UNCHANGED <<ledger, pc, cur>>
    /\ UNCHANGED <<trade, chain, buyer, todo, verdict, faults>>

\* The rest of the branch: set_call_expiration, then tokio::spawn(spawn_buy).
ArmCall ==
    /\ pc = "arm"
    /\ SetCallExpiration(mintOf[cur])
    /\ buyer' = [buyer EXCEPT ![cur] = "balance"]
    /\ pc' = "analyse" /\ cur' = 0
    /\ UNCHANGED <<rows, mintOf, source, status, trade, carded, chain, todo,
                   verdict, faults>>

\* Phase 1: an active call whose token is confirmed UNSAFE is failed.
AutoFail(m) ==
    /\ pc = "analyse"
    /\ ActiveOn(m) # {}
    /\ FlipActive(m, "failed")
    /\ UNCHANGED <<rows, mintOf, source, expiry, trade, carded, chain, buyer,
                   scan, faults>>

-----------------------------------------------------------------------------
(* Scanner task: settle_calls.                                             *)

\* list_calls(true, 200): the only time the cycle reads which calls are active.
ListCalls ==
    /\ pc = "analyse"
    /\ todo' = {c \in Ids : status[c] = "active"}
    /\ todo' # {}
    /\ pc' = "settle"
    /\ UNCHANGED <<ledger, trade, carded, chain, buyer, cur, verdict, faults>>

\* One iteration of the loop, newest call first, up to the outcome. No price,
\* or no rule that fires: `continue`. What the rules say is SettleLadder.
Examine(c, v) ==
    /\ pc = "settle"
    /\ c \in todo
    /\ \A d \in todo : d <= c
    /\ todo' = todo \ {c}
    /\ IF v = "none"
       THEN UNCHANGED <<pc, cur, verdict>>
       ELSE pc' = "route" /\ cur' = c /\ verdict' = v
    /\ UNCHANGED <<ledger, trade, carded, chain, buyer, faults>>

NextCall == pc' = "settle" /\ cur' = 0 /\ verdict' = "none" /\ UNCHANGED todo

\* Slip: call_has_sell is not asked.
HoldsPositionSoldOrNot(c) == buySig[c] # "none"

\* A recorded position that has not been sold yet.
HoldsPosition(c) == buySig[c] # "none" /\ ~sellSig[c]

\* Nothing to sell: go straight to the status flip.
RoutePaper ==
    /\ pc = "route"
    /\ ~HoldsPosition(cur)
    /\ pc' = "verdict"
    /\ UNCHANGED <<ledger, trade, carded, chain, buyer, todo, cur, verdict,
                   faults>>

\* Retry cap exhausted: fail the call as stuck and sell no more.
RouteStuck ==
    /\ pc = "route"
    /\ HoldsPosition(cur)
    /\ sellFails[cur] >= SellRetryMax
    /\ FlipActive(mintOf[cur], "failed")
    /\ NextCall
    /\ UNCHANGED <<rows, mintOf, source, expiry, trade, carded, chain, buyer,
                   faults>>

\* Slip: a position without a token amount is put back in the list.
RouteEmptyRetries ==
    /\ pc = "route"
    /\ HoldsPosition(cur)
    /\ sellFails[cur] < SellRetryMax
    /\ buySig[cur] = "empty"
    /\ pc' = "settle" /\ cur' = 0 /\ verdict' = "none"
    /\ todo' = todo \cup {cur}
    /\ UNCHANGED <<ledger, trade, carded, chain, buyer, faults>>

\* token_amount <= 0: warn and continue, the row stays as it is.
RouteEmpty ==
    /\ pc = "route"
    /\ HoldsPosition(cur)
    /\ sellFails[cur] < SellRetryMax
    /\ buySig[cur] = "empty"
    /\ NextCall
    /\ UNCHANGED <<ledger, trade, carded, chain, buyer, faults>>

\* Slip: one attempt more than the cap.
RouteSellOnceMore ==
    /\ pc = "route"
    /\ HoldsPosition(cur)
    /\ sellFails[cur] <= SellRetryMax
    /\ buySig[cur] = "filled"
    /\ pc' = "selling"
    /\ UNCHANGED <<ledger, trade, carded, chain, buyer, todo, cur, verdict,
                   faults>>

RouteSell ==
    /\ pc = "route"
    /\ HoldsPosition(cur)
    /\ sellFails[cur] < SellRetryMax
    /\ buySig[cur] = "filled"
    /\ pc' = "selling"
    /\ UNCHANGED <<ledger, trade, carded, chain, buyer, todo, cur, verdict,
                   faults>>

\* execute_swap has handed a signed transaction to Jito or to an RPC node.
SendSell ==
    /\ pc = "selling"
    /\ pc' = "sellsent"
    /\ sellTx' = [sellTx EXCEPT ![cur] = IF @ = "landed" THEN @ ELSE "sent"]
    /\ UNCHANGED <<ledger, trade, carded, buyTx, buyer, todo, cur, verdict,
                   faults>>

\* sell() returned Ok, which it does once Jito or a node accepted the bytes.
SellOk ==
    /\ pc = "sellsent"
    /\ pc' = "verdict"
    /\ RecordSell(cur)
    /\ UNCHANGED <<ledger, attempted, buySig, sellFails, carded, chain, buyer,
                   todo, cur, verdict, faults>>

\* The record_sell write failed: a warning, and Ok all the same.
SellOkUnrecorded ==
    /\ pc = "sellsent"
    /\ faults < MaxFaults
    /\ faults' = faults + 1
    /\ pc' = "verdict"
    /\ UNCHANGED <<ledger, trade, carded, chain, buyer, todo, cur, verdict>>

\* An error before a transaction left (quote, swap API, refusal), or one after
\* it left (a time-out of Jito followed by an error of the fallback).
SellErr ==
    /\ pc \in {"selling", "sellsent"}
    /\ RecordSellFailure(cur)
    /\ NextCall
    /\ UNCHANGED <<ledger, attempted, buySig, sellSig, carded, chain, buyer,
                   faults>>

\* close_call / fail_call / expire_call on the mint of the call at hand.
ApplyVerdict ==
    /\ pc = "verdict"
    /\ FlipActive(mintOf[cur], verdict)
    /\ NextCall
    /\ UNCHANGED <<rows, mintOf, source, expiry, trade, carded, chain, buyer,
                   faults>>

EndSettle ==
    /\ pc = "settle"
    /\ todo = {}
    /\ pc' = "analyse"
    /\ UNCHANGED <<ledger, trade, carded, chain, buyer, todo, cur, verdict,
                   faults>>

-----------------------------------------------------------------------------
(* The buy task of call c.                                                 *)

\* wallet_sol_balance
BalanceOk(c) ==
    /\ buyer[c] = "balance"
    /\ buyer' = [buyer EXCEPT ![c] = "sizing"]
    /\ UNCHANGED <<ledger, trade, carded, chain, scan, faults>>

\* Every early return of the task that records a failed buy: the balance read
\* failed, derive_position_size_sol refused (slots, daily budget, dust), or
\* buy() returned an error, before or after a transaction left.
BuyFails(c) ==
    /\ buyer[c] \in {"balance", "sizing", "swap", "sent"}
    /\ RecordBuyFailure(c)
    /\ buyer' = [buyer EXCEPT ![c] = "done"]
    /\ UNCHANGED <<rows, mintOf, source, expiry, trade, carded, chain, scan,
                   faults>>

\* count_open_positions and derive_position_size_sol: the slot check.
SizeOk(c) ==
    /\ buyer[c] = "sizing"
    /\ Cardinality(OpenPositions) < MaxPositions
    /\ buyer' = [buyer EXCEPT ![c] = "slot"]
    /\ UNCHANGED <<ledger, trade, carded, chain, scan, faults>>

\* execute_buy_for_call takes the call's single buy slot.
TakeSlot(c) ==
    /\ buyer[c] = "slot"
    /\ MarkBuyAttempt(c)
    /\ buyer' = [buyer EXCEPT ![c] = "swap"]
    /\ UNCHANGED <<ledger, buySig, sellSig, sellFails, carded, chain, scan,
                   faults>>

SendBuy(c) ==
    /\ buyer[c] = "swap"
    /\ buyTx' = [buyTx EXCEPT ![c] = "sent"]
    /\ buyer' = [buyer EXCEPT ![c] = "sent"]
    /\ UNCHANGED <<ledger, trade, carded, sellTx, scan, faults>>

BuyOk(c, fill) ==
    /\ buyer[c] = "sent"
    /\ RecordBuy(c, fill)
    /\ buyer' = [buyer EXCEPT ![c] = "done"]
    /\ UNCHANGED <<ledger, attempted, sellSig, sellFails, carded, chain, scan,
                   faults>>

\* The write of the step (mark_buy_attempt, record_buy or record_buy_failure)
\* failed: a warning and nothing else.
BuyWriteFails(c) ==
    /\ buyer[c] \notin TaskEnd
    /\ faults < MaxFaults
    /\ faults' = faults + 1
    /\ buyer' = [buyer EXCEPT ![c] = "lost"]
    /\ UNCHANGED <<ledger, trade, carded, chain, scan>>
-----------------------------------------------------------------------------
(* The chain: a submitted transaction lands or is dropped, at any time after *)
(* it was sent; tokens can only be sold if they were bought.                 *)

BuySettles(c, result) ==
    /\ buyTx[c] = "sent"
    /\ buyTx' = [buyTx EXCEPT ![c] = result]
    /\ UNCHANGED <<ledger, trade, carded, sellTx, buyer, scan, faults>>

SellSettles(c, result) ==
    /\ sellTx[c] = "sent"
    /\ result = "landed" => buyTx[c] = "landed"
    /\ sellTx' = [sellTx EXCEPT ![c] = result]
    /\ UNCHANGED <<ledger, trade, carded, buyTx, buyer, scan, faults>>

-----------------------------------------------------------------------------
(* Publisher, clock and operator.                                          *)

\* expires_at passes. The shortest window is 90 minutes and a buy task is over
\* within the minute or two its request time-outs add up to.
WindowPasses(c) ==
    /\ expiry[c] = "set"
    /\ buyer[c] \in TaskEnd
    /\ expiry' = [expiry EXCEPT ![c] = "due"]
    /\ UNCHANGED <<rows, mintOf, source, status, trade, carded, chain, buyer,
                   scan, faults>>

\* Slips: the expiry looks at the time only, or spares bought calls.
DueAnyStatus == {c \in Ids : expiry[c] = "due"}

DueUnbought ==
    {c \in Ids : status[c] = "active" /\ expiry[c] = "due" /\ buySig[c] = "none"}

Due == {c \in Ids : status[c] = "active" /\ expiry[c] = "due"}

\* run_once, step 8b: one UPDATE over every row past its expires_at.
ExpireStaleCalls ==
    /\ Due # {}
    /\ status' = [c \in Ids |-> IF c \in Due THEN "expired" ELSE status[c]]
    /\ UNCHANGED <<rows, mintOf, source, expiry, trade, carded, chain, buyer,
                   scan, faults>>

\* /call and the MCP fire_call: a row that is never bought for. expires_at is set
\* by a second statement, which an error or a crash skips.
ManualCall(m) ==
    /\ \E exp \in {"unset", "set"} : InsertCall(m, "manual", exp)
    /\ UNCHANGED <<trade, carded, chain, buyer, scan, faults>>

\* fire_call_card, spawned by the two: stores a delivery row if it can.
FireCallCard(m) ==
    /\ m \notin carded
    /\ \E c \in Ids : source[c] = "manual" /\ mintOf[c] = m
    /\ carded' = carded \cup {m}
    /\ UNCHANGED <<ledger, trade, chain, buyer, scan, faults>>

\* /close_call and the MCP close_call.
OperatorClose(m) ==
    /\ ActiveOn(m) # {}
    /\ FlipActive(m, "withdrew")
    /\ UNCHANGED <<rows, mintOf, source, expiry, trade, carded, chain, buyer,
                   scan, faults>>

\* The process dies and is restarted: every task is gone, nothing resumes a buy.
Crash ==
    /\ faults < MaxFaults
    /\ faults' = faults + 1
    /\ buyer' = [c \in Ids |-> IF buyer[c] \in TaskEnd THEN buyer[c] ELSE "lost"]
    /\ pc' = "analyse" /\ todo' = {} /\ cur' = 0 /\ verdict' = "none"
    /\ UNCHANGED <<ledger, trade, carded, chain>>

-----------------------------------------------------------------------------
SettleStep ==
    \/ \E c \in Ids, v \in Outcomes \cup {"none"} : Examine(c, v)
    \/ RoutePaper \/ RouteStuck \/ RouteEmpty \/ RouteSell
    \/ SendSell \/ SellOk \/ SellOkUnrecorded \/ SellErr
    \/ ApplyVerdict \/ EndSettle

BuyStep(c) ==
    \/ BalanceOk(c) \/ SizeOk(c) \/ TakeSlot(c) \/ SendBuy(c)
    \/ \E fill \in {"filled", "empty"} : BuyOk(c, fill)
    \/ BuyFails(c) \/ BuyWriteFails(c)

Next ==
    \/ \E m \in Mints : AutoCall(m) \/ AutoFail(m) \/ ManualCall(m)
                        \/ FireCallCard(m) \/ OperatorClose(m)
    \/ ArmCall \/ ListCalls \/ SettleStep
    \/ \E c \in Ids : BuyStep(c) \/ WindowPasses(c)
    \/ \E c \in Ids, result \in {"landed", "dropped"} :
          BuySettles(c, result) \/ SellSettles(c, result)
    \/ ExpireStaleCalls \/ Crash

Spec == Init /\ [][Next]_vars

\* Every task the runtime polls goes on: requests have time-outs, so a task
\* that waits for one returns. The publisher ticks and the clock advances.
Fairness ==
    /\ WF_vars(ListCalls) /\ WF_vars(SettleStep) /\ WF_vars(ArmCall)
    /\ \A c \in Ids : WF_vars(BuyStep(c)) /\ WF_vars(WindowPasses(c))
    /\ WF_vars(ExpireStaleCalls)

FairSpec == Spec /\ Fairness

-----------------------------------------------------------------------------
(* Safety.                                                                 *)

\* One active call per mint (docs/ARCHITECTURE.md, "Call lifecycle"): whatever
\* the bot, the MCP server and the scanner insert, in whatever order.
OneActivePerMint ==
    \A c, d \in Ids : status[c] = "active" /\ status[d] = "active"
                      /\ mintOf[c] = mintOf[d] => c = d

\* Money goes into a mint at most once: over crashes, restarts and operator
\* calls there is one buy transaction for a mint, because the delivery row that
\* precedes the call is never removed and nothing resumes a buy task.
OneBuyPerMint ==
    \A c, d \in Ids : buyTx[c] # "none" /\ buyTx[d] # "none"
                      /\ mintOf[c] = mintOf[d] => c = d

\* A sell is only ever sent for a call whose own buy was recorded with a token
\* amount, and never again once one is recorded.
SellsRecordedPosition ==
    /\ \A c \in Ids : sellTx[c] # "none" => buySig[c] = "filled"
    /\ pc \in {"selling", "sellsent"} =>
          cur \in Ids /\ buySig[cur] = "filled" /\ ~sellSig[cur]

\* The retry counter never passes sell_retry_max, crashes included: the cap is
\* read before the sell and bumped after it, by the one task that sells.
SellAttemptsBounded == \A c \in Ids : sellFails[c] <= SellRetryMax

\* A recorded buy belongs to an armed auto-call whose task ran to its end.
RecordedBuyWasSent ==
    \A c \in Ids : buySig[c] # "none" =>
        attempted[c] /\ buyTx[c] # "none" /\ source[c] = "notifier"

-----------------------------------------------------------------------------
(* Action property.                                                        *)

\* A call whose buy was recorded keeps its verdict for good: no late task, no
\* second settle pass and no publisher tick rewrites it.
BoughtVerdictIsFinal ==
    [][\A c \in Ids : status[c] \in Terminal /\ buySig[c] # "none"
                      => status'[c] = status[c]]_vars

-----------------------------------------------------------------------------
(* Liveness, under FairSpec.                                               *)

\* The book keeps no zombies: a call with an expiry leaves "active" although
\* prices, sells and the operator may all fail it (src/src/db.rs, expires_at).
ArmedCallsClose ==
    \A c \in Ids : (status[c] = "active" /\ expiry[c] # "unset")
                   ~> status[c] # "active"

\* A settle pass ends whatever the sells in it do, so that the next analysis
\* cycle starts: a failed sell is left to the next pass, never retried in place.
SettlePassEnds == (pc \in SettlePc) ~> (pc = "analyse")

-----------------------------------------------------------------------------
(* Refinement.                                                             *)

Held == [c \in Ids |-> IF sellSig[c] THEN "sold"
                       ELSE IF buySig[c] = "none" THEN "no" ELSE "yes"]

Ledger == INSTANCE CallLedger WITH held <- Held

\* The table, its writers and the tasks together keep the ledger's promise.
ImplementsLedger == Ledger!Spec

=============================================================================
