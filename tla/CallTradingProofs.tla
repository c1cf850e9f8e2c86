-------------------------- MODULE CallTradingProofs --------------------------
(***************************************************************************)
(* Theorems about CallTrading, for every set of mints, every number of     *)
(* calls, every retry cap and position cap, and any number of faults.      *)
(*                                                                         *)
(* The argument: a row is used by the auto path only if its mint has a     *)
(* delivery row, and the auto path refuses a mint with a delivery row, so  *)
(* a mint has at most one notifier row. Buy tasks exist for notifier rows  *)
(* only, a buy is recorded only by a task that sent one, and the settle    *)
(* task sells only what is recorded. IInv is the conjunction of these.     *)
(***************************************************************************)
EXTENDS CallTrading, TLAPS

\* Ids above `rows` are untouched, ids up to `rows` are real rows.
RowsInOrder ==
    /\ \A c \in Ids : c <= rows => status[c] # "none" /\ mintOf[c] \in Mints
    /\ \A c \in Ids : c > rows =>
          /\ status[c] = "none" /\ source[c] = "none" /\ mintOf[c] = NoMint
          /\ buySig[c] = "none" /\ ~sellSig[c] /\ sellFails[c] = 0
    /\ \A c \in todo : c <= rows

\* The scanner's call at hand is a row, and has an outcome while settling.
ScannerAtRow ==
    /\ pc = "arm" => cur \in Ids /\ cur <= rows /\ source[cur] = "notifier"
    /\ pc \in SettlePc \ {"settle"} =>
          cur \in Ids /\ cur <= rows /\ verdict \in Outcomes

\* A mint with a notifier row has a delivery row, and one notifier row only.
OneAutoCallPerMint ==
    /\ \A c \in Ids : source[c] = "notifier" => mintOf[c] \in carded
    /\ \A c, d \in Ids : source[c] = "notifier" /\ source[d] = "notifier"
                         /\ mintOf[c] = mintOf[d] => c = d

\* Tasks and transactions belong to notifier rows; a task past its slot has
\* marked it.
TasksOfAutoCalls ==
    \A c \in Ids :
        /\ buyer[c] # "idle" => source[c] = "notifier"
        /\ buyTx[c] # "none" => source[c] = "notifier"
        /\ buyer[c] \in {"swap", "sent"} => attempted[c]
        /\ buyer[c] = "sent" => buyTx[c] # "none"

\* A sell in progress is below the cap, and sold means bought.
SellsInOrder ==
    /\ pc \in {"selling", "sellsent"} => sellFails[cur] < SellRetryMax
    /\ \A c \in Ids : sellSig[c] => buySig[c] = "filled"

IInv ==
    /\ TypeOK /\ RowsInOrder /\ ScannerAtRow /\ OneActivePerMint
    /\ OneAutoCallPerMint /\ TasksOfAutoCalls /\ RecordedBuyWasSent
    /\ SellsRecordedPosition /\ SellsInOrder /\ SellAttemptsBounded

-----------------------------------------------------------------------------
(* Type correctness.                                                       *)

USE MaxCallsAssumption, NoMintAssumption

LEMMA InitType == Init => TypeOK
<1> USE DEF Init, TypeOK, Ids, Outcomes, Terminal, TaskEnd, TaskPc, SettlePc,
            ScanPc, Fill
<1> QED BY MaxFaultsAssumption

\* Every step of a spawned buy keeps the types.
LEMMA BuyStepType ==
    ASSUME NEW c \in Ids, TypeOK, BuyStep(c) PROVE TypeOK'
<1> USE DEF TypeOK, Terminal, TaskEnd, TaskPc, Fill, ledger, trade, chain, scan
<1>1. CASE BalanceOk(c) BY <1>1 DEF BalanceOk
<1>2. CASE BuyFails(c) BY <1>2 DEF BuyFails, RecordBuyFailure
<1>3. CASE SizeOk(c) BY <1>3 DEF SizeOk
<1>4. CASE TakeSlot(c) BY <1>4 DEF TakeSlot, MarkBuyAttempt
<1>5. CASE SendBuy(c) BY <1>5 DEF SendBuy
<1>6. ASSUME NEW fill \in {"filled", "empty"}, BuyOk(c, fill) PROVE TypeOK'
  BY <1>6 DEF BuyOk, RecordBuy
<1>7. CASE BuyWriteFails(c)
  BY <1>7, MaxFaultsAssumption DEF BuyWriteFails
<1> QED BY <1>1, <1>2, <1>3, <1>4, <1>5, <1>6, <1>7 DEF BuyStep

\* So does every step of a settle pass; the flip is by mint, so it may touch
\* any row.
LEMMA SettleStepType ==
    ASSUME TypeOK, ScannerAtRow, SettleStep PROVE TypeOK'
<1> USE DEF TypeOK, Terminal, SettlePc, ScanPc, ledger, trade, chain, scan,
            NextCall
<1>1. ASSUME NEW c \in Ids, NEW v \in Outcomes \cup {"none"}, Examine(c, v)
      PROVE TypeOK'
  BY <1>1 DEF Examine
<1>2. CASE RoutePaper BY <1>2 DEF RoutePaper
<1>3. CASE RouteStuck BY <1>3 DEF RouteStuck, FlipActive, Outcomes
<1>4. CASE RouteEmpty BY <1>4 DEF RouteEmpty
<1>5. CASE RouteSell BY <1>5 DEF RouteSell
<1>6. CASE SendSell BY <1>6 DEF SendSell
<1>7. CASE SellOk BY <1>7 DEF SellOk, RecordSell
<1>8. CASE SellOkUnrecorded
  BY <1>8, MaxFaultsAssumption DEF SellOkUnrecorded
<1>9. CASE SellErr
  <2>1. cur \in Ids BY <1>9 DEF SellErr, ScannerAtRow
  <2> QED BY <1>9, <2>1 DEF SellErr, RecordSellFailure
<1>10. CASE ApplyVerdict BY <1>10 DEF ApplyVerdict, FlipActive, ScannerAtRow
<1>11. CASE EndSettle BY <1>11 DEF EndSettle
<1> QED
  BY <1>1, <1>2, <1>3, <1>4, <1>5, <1>6, <1>7, <1>8, <1>9, <1>10, <1>11
     DEF SettleStep

LEMMA NextType == TypeOK /\ ScannerAtRow /\ [Next]_vars => TypeOK'
<1> SUFFICES ASSUME TypeOK, ScannerAtRow, [Next]_vars PROVE TypeOK'
  OBVIOUS
<1> USE DEF TypeOK, ledger, trade, chain, scan
<1>1. ASSUME NEW m \in Mints, AutoCall(m) PROVE TypeOK'
  <2>1. CASE ActiveOn(m) = {}
    <3>1. rows + 1 \in Ids BY <1>1, <2>1 DEF AutoCall, InsertCall, Ids
    <3>2. rows' \in 0..MaxCalls BY <1>1, <2>1 DEF AutoCall, InsertCall
    <3> QED BY <1>1, <2>1, <3>1, <3>2 DEF AutoCall, InsertCall, ScanPc
  <2>2. CASE ActiveOn(m) # {} BY <1>1, <2>2 DEF AutoCall
  <2> QED BY <2>1, <2>2
<1>2. ASSUME NEW m \in Mints, AutoFail(m) PROVE TypeOK'
  BY <1>2 DEF AutoFail, FlipActive, Terminal, Outcomes
<1>3. ASSUME NEW m \in Mints, ManualCall(m) PROVE TypeOK'
  BY <1>3 DEF ManualCall, InsertCall, Ids
<1>4. ASSUME NEW m \in Mints, FireCallCard(m) PROVE TypeOK'
  BY <1>4 DEF FireCallCard
<1>5. ASSUME NEW m \in Mints, OperatorClose(m) PROVE TypeOK'
  BY <1>5 DEF OperatorClose, FlipActive, Terminal, Outcomes
<1>6. CASE ArmCall
  BY <1>6 DEF ArmCall, SetCallExpiration, TaskPc, ScanPc
<1>7. CASE ListCalls BY <1>7 DEF ListCalls, ScanPc, SettlePc
<1>8. CASE SettleStep BY <1>8, SettleStepType
<1>9. ASSUME NEW c \in Ids, BuyStep(c) PROVE TypeOK'
  BY <1>9, BuyStepType
<1>10. ASSUME NEW c \in Ids, WindowPasses(c) PROVE TypeOK'
  BY <1>10 DEF WindowPasses
<1>11. ASSUME NEW c \in Ids, NEW result \in {"landed", "dropped"},
              BuySettles(c, result) \/ SellSettles(c, result)
       PROVE TypeOK'
  BY <1>11 DEF BuySettles, SellSettles
<1>12. CASE ExpireStaleCalls
  BY <1>12 DEF ExpireStaleCalls, Terminal, Outcomes
<1>13. CASE Crash
  BY <1>13, MaxFaultsAssumption DEF Crash, TaskEnd, TaskPc, ScanPc
<1>14. CASE UNCHANGED vars BY <1>14 DEF vars
<1> QED
  BY <1>1, <1>2, <1>3, <1>4, <1>5, <1>6, <1>7, <1>8, <1>9, <1>10, <1>11,
     <1>12, <1>13, <1>14 DEF Next

-----------------------------------------------------------------------------
(* Statements on the table, as they act on RowsInOrder.                    *)

\* A flip by mint touches active rows only, so it turns a row into a row.
LEMMA FlipKeepsRows ==
    ASSUME TypeOK, RowsInOrder, NEW m \in Mints \cup {NoMint},
           NEW s \in Terminal, FlipActive(m, s),
           UNCHANGED <<rows, mintOf, source, buySig, sellSig, sellFails>>,
           todo' \subseteq todo
    PROVE  RowsInOrder'
  BY DEF TypeOK, RowsInOrder, FlipActive, ActiveOn, Terminal, Outcomes

\* An insert takes the first free id.
LEMMA InsertKeepsRows ==
    ASSUME TypeOK, RowsInOrder, NEW m \in Mints,
           NEW src \in {"notifier", "manual"}, NEW exp, InsertCall(m, src, exp),
           UNCHANGED <<buySig, sellSig, sellFails, todo>>
    PROVE  RowsInOrder'
<1>1. rows + 1 \in Ids /\ rows' = rows + 1 BY DEF InsertCall, Ids, TypeOK
<1>2. \A c \in Ids : c <= rows' => c = rows + 1 \/ c <= rows
  BY <1>1 DEF Ids, TypeOK
<1>3. \A c \in Ids : c > rows' => c # rows + 1 /\ c > rows
  BY <1>1 DEF Ids, TypeOK
<1> QED BY <1>1, <1>2, <1>3 DEF InsertCall, TypeOK, RowsInOrder, Ids

\* The mint and the outcome a settle step works with.
LEMMA AtRow ==
    ASSUME TypeOK, RowsInOrder, ScannerAtRow, pc \in SettlePc \ {"settle"}
    PROVE  /\ cur \in Ids /\ cur <= rows /\ mintOf[cur] \in Mints
           /\ verdict \in Terminal
  BY DEF TypeOK, RowsInOrder, ScannerAtRow, Terminal

LEMMA RowsInOrderStep == IInv /\ [Next]_vars => RowsInOrder'
<1> SUFFICES ASSUME IInv, [Next]_vars PROVE RowsInOrder'
  OBVIOUS
<1> USE DEF IInv, ledger, trade, chain, scan
<1>1. ASSUME NEW m \in Mints, AutoCall(m) PROVE RowsInOrder'
  <2>1. CASE ActiveOn(m) = {} BY <1>1, <2>1, InsertKeepsRows DEF AutoCall
  <2>2. CASE ActiveOn(m) # {} BY <1>1, <2>2 DEF AutoCall, RowsInOrder
  <2> QED BY <2>1, <2>2
<1>2. ASSUME NEW m \in Mints, AutoFail(m) PROVE RowsInOrder'
  BY <1>2, FlipKeepsRows DEF AutoFail, Terminal, Outcomes
<1>3. ASSUME NEW m \in Mints, ManualCall(m) PROVE RowsInOrder'
  BY <1>3, InsertKeepsRows DEF ManualCall
<1>4. ASSUME NEW m \in Mints, FireCallCard(m) PROVE RowsInOrder'
  BY <1>4 DEF FireCallCard, RowsInOrder
<1>5. ASSUME NEW m \in Mints, OperatorClose(m) PROVE RowsInOrder'
  BY <1>5, FlipKeepsRows DEF OperatorClose, Terminal, Outcomes
<1>6. CASE ArmCall BY <1>6 DEF ArmCall, RowsInOrder
<1>7. CASE ListCalls
  <2>1. \A c \in todo' : c <= rows
    BY <1>7 DEF ListCalls, RowsInOrder, TypeOK, Ids
  <2> QED BY <1>7, <2>1 DEF ListCalls, RowsInOrder
<1>8. CASE SettleStep
  <2>1. ASSUME NEW c \in Ids, NEW v \in Outcomes \cup {"none"}, Examine(c, v)
        PROVE RowsInOrder'
    BY <2>1 DEF Examine, RowsInOrder
  <2>2. CASE RouteStuck
    BY <2>2, AtRow, FlipKeepsRows
       DEF RouteStuck, NextCall, SettlePc, Terminal, Outcomes
  <2>3. CASE ApplyVerdict
    BY <2>3, AtRow, FlipKeepsRows DEF ApplyVerdict, NextCall, SettlePc
  <2>4. CASE SellOk
    <3>1. cur \in Ids /\ cur <= rows
      BY <2>4 DEF SellOk, ScannerAtRow, SettlePc
    <3> QED BY <2>4, <3>1 DEF SellOk, RecordSell, RowsInOrder, TypeOK, Ids
  <2>5. CASE SellErr
    <3>1. cur \in Ids /\ cur <= rows
      BY <2>5 DEF SellErr, ScannerAtRow, SettlePc
    <3> QED
      BY <2>5, <3>1
         DEF SellErr, RecordSellFailure, NextCall, RowsInOrder, TypeOK, Ids
  <2>6. CASE RoutePaper \/ RouteEmpty \/ RouteSell \/ SendSell
             \/ SellOkUnrecorded \/ EndSettle
    BY <2>6 DEF RoutePaper, RouteEmpty, RouteSell, SendSell,
                SellOkUnrecorded, EndSettle, NextCall, RowsInOrder
  <2> QED BY <1>8, <2>1, <2>2, <2>3, <2>4, <2>5, <2>6 DEF SettleStep
<1>9. ASSUME NEW c \in Ids, BuyStep(c) PROVE RowsInOrder'
  <2>1. buyer[c] # "idle"
    BY <1>9 DEF BuyStep, BalanceOk, SizeOk, TakeSlot, SendBuy, BuyOk,
                BuyWriteFails, BuyFails, TaskEnd
  <2>2. c <= rows
    BY <2>1 DEF TasksOfAutoCalls, RowsInOrder, TypeOK, Ids
  <2>3. ASSUME NEW fill \in {"filled", "empty"}, BuyOk(c, fill)
        PROVE RowsInOrder'
    BY <2>2, <2>3 DEF BuyOk, RecordBuy, RowsInOrder, TypeOK, Ids
  <2>4. CASE BuyFails(c)
    BY <2>2, <2>4 DEF BuyFails, RecordBuyFailure, RowsInOrder, TypeOK, Ids
  <2>5. CASE BalanceOk(c) \/ SizeOk(c) \/ TakeSlot(c) \/ SendBuy(c)
             \/ BuyWriteFails(c)
    BY <2>5 DEF BalanceOk, SizeOk, TakeSlot, SendBuy, BuyWriteFails,
                RowsInOrder
  <2> QED BY <1>9, <2>3, <2>4, <2>5 DEF BuyStep
<1>10. ASSUME NEW c \in Ids, WindowPasses(c) PROVE RowsInOrder'
  BY <1>10 DEF WindowPasses, RowsInOrder
<1>11. ASSUME NEW c \in Ids, NEW result \in {"landed", "dropped"},
              BuySettles(c, result) \/ SellSettles(c, result)
       PROVE RowsInOrder'
  BY <1>11 DEF BuySettles, SellSettles, RowsInOrder
<1>12. CASE ExpireStaleCalls
  BY <1>12 DEF ExpireStaleCalls, Due, RowsInOrder, TypeOK
<1>13. CASE Crash BY <1>13 DEF Crash, RowsInOrder
<1>14. CASE UNCHANGED vars BY <1>14 DEF vars, RowsInOrder
<1> QED
  BY <1>1, <1>2, <1>3, <1>4, <1>5, <1>6, <1>7, <1>8, <1>9, <1>10, <1>11,
     <1>12, <1>13, <1>14 DEF Next

-----------------------------------------------------------------------------
(* The scanner's place.                                                    *)

\* The row at hand stays a row: inserts add rows and nothing removes one.
LEMMA ScannerAtRowStep == IInv /\ [Next]_vars => ScannerAtRow'
<1> SUFFICES ASSUME IInv, [Next]_vars PROVE ScannerAtRow'
  OBVIOUS
<1> USE DEF IInv, ledger, trade, chain, scan, SettlePc
<1>1. ASSUME NEW m \in Mints, AutoCall(m) PROVE ScannerAtRow'
  <2>1. CASE ActiveOn(m) = {}
    <3>1. rows + 1 \in Ids BY <1>1, <2>1 DEF AutoCall, InsertCall, Ids, TypeOK
    <3> QED
      BY <1>1, <2>1, <3>1 DEF AutoCall, InsertCall, ScannerAtRow, TypeOK, Ids
  <2>2. CASE ActiveOn(m) # {} BY <1>1, <2>2 DEF AutoCall, ScannerAtRow
  <2> QED BY <2>1, <2>2
<1>2. ASSUME NEW m \in Mints, ManualCall(m) PROVE ScannerAtRow'
  <2>1. \A c \in Ids : c <= rows => c <= rows' /\ source'[c] = source[c]
    BY <1>2 DEF ManualCall, InsertCall, TypeOK, Ids
  <2> QED BY <1>2, <2>1 DEF ManualCall, ScannerAtRow
<1>3. ASSUME NEW m \in Mints,
             AutoFail(m) \/ FireCallCard(m) \/ OperatorClose(m)
      PROVE ScannerAtRow'
  BY <1>3 DEF AutoFail, FireCallCard, OperatorClose, ScannerAtRow
<1>4. CASE ArmCall \/ ListCalls \/ Crash
  BY <1>4 DEF ArmCall, ListCalls, Crash, ScannerAtRow
<1>5. CASE SettleStep
  <2>1. ASSUME NEW c \in Ids, NEW v \in Outcomes \cup {"none"}, Examine(c, v)
        PROVE ScannerAtRow'
    BY <2>1 DEF Examine, ScannerAtRow, RowsInOrder
  <2>2. CASE RoutePaper \/ RouteSell \/ SendSell \/ SellOk \/ SellOkUnrecorded
    BY <2>2 DEF RoutePaper, RouteSell, SendSell, SellOk, SellOkUnrecorded,
                ScannerAtRow
  <2>3. CASE RouteStuck \/ RouteEmpty \/ SellErr \/ ApplyVerdict \/ EndSettle
    BY <2>3 DEF RouteStuck, RouteEmpty, SellErr, ApplyVerdict, EndSettle,
                NextCall, ScannerAtRow
  <2> QED BY <1>5, <2>1, <2>2, <2>3 DEF SettleStep
<1>6. ASSUME NEW c \in Ids, BuyStep(c) \/ WindowPasses(c) PROVE ScannerAtRow'
  BY <1>6 DEF BuyStep, BalanceOk, SizeOk, TakeSlot, SendBuy, BuyOk,
              BuyWriteFails, BuyFails, WindowPasses, ScannerAtRow
<1>7. ASSUME NEW c \in Ids, NEW result \in {"landed", "dropped"},
             BuySettles(c, result) \/ SellSettles(c, result)
      PROVE ScannerAtRow'
  BY <1>7 DEF BuySettles, SellSettles, ScannerAtRow
<1>8. CASE ExpireStaleCalls BY <1>8 DEF ExpireStaleCalls, ScannerAtRow
<1>9. CASE UNCHANGED vars BY <1>9 DEF vars, ScannerAtRow
<1> QED
  BY <1>1, <1>2, <1>3, <1>4, <1>5, <1>6, <1>7, <1>8, <1>9 DEF Next

-----------------------------------------------------------------------------
(* The book: one active row per mint, one auto row per mint.               *)

\* The unique index at work: a row is inserted as active only when its mint
\* has no active row, and every other statement takes "active" away.
LEMMA OneActiveStep == IInv /\ [Next]_vars => OneActivePerMint'
<1> SUFFICES ASSUME IInv, [Next]_vars PROVE OneActivePerMint'
  OBVIOUS
<1> USE DEF IInv, ledger, trade, chain, scan
<1>1. ASSUME NEW m \in Mints, NEW src, NEW exp, InsertCall(m, src, exp)
      PROVE OneActivePerMint'
  BY <1>1 DEF InsertCall, ActiveOn, OneActivePerMint, TypeOK
<1>2. ASSUME \A c \in Ids : status'[c] = "active" => status[c] = "active",
             UNCHANGED mintOf
      PROVE OneActivePerMint'
  BY <1>2 DEF OneActivePerMint
<1>3. ASSUME NEW m, NEW s \in Terminal, FlipActive(m, s), UNCHANGED mintOf
      PROVE OneActivePerMint'
  BY <1>2, <1>3 DEF FlipActive, ActiveOn, Terminal, Outcomes
<1>4. ASSUME NEW m \in Mints, AutoCall(m) PROVE OneActivePerMint'
  BY <1>1, <1>2, <1>4 DEF AutoCall
<1>5. ASSUME NEW m \in Mints, ManualCall(m) PROVE OneActivePerMint'
  BY <1>1, <1>5 DEF ManualCall
<1>6. ASSUME NEW m \in Mints, AutoFail(m) \/ OperatorClose(m)
      PROVE OneActivePerMint'
  BY <1>3, <1>6 DEF AutoFail, OperatorClose, Terminal, Outcomes
<1>7. ASSUME NEW m \in Mints, FireCallCard(m) PROVE OneActivePerMint'
  BY <1>2, <1>7 DEF FireCallCard
<1>8. CASE ArmCall \/ ListCalls \/ Crash
  BY <1>2, <1>8 DEF ArmCall, ListCalls, Crash
<1>9. CASE SettleStep
  <2>1. CASE RouteStuck
    BY <1>3, <2>1 DEF RouteStuck, Terminal, Outcomes
  <2>2. CASE ApplyVerdict
    BY <1>3, <2>2, AtRow DEF ApplyVerdict, SettlePc
  <2>3. ASSUME NEW c \in Ids, NEW v \in Outcomes \cup {"none"}, Examine(c, v)
        PROVE OneActivePerMint'
    BY <1>2, <2>3 DEF Examine
  <2>4. CASE RoutePaper \/ RouteEmpty \/ RouteSell \/ SendSell \/ SellOk
             \/ SellOkUnrecorded \/ SellErr \/ EndSettle
    BY <1>2, <2>4 DEF RoutePaper, RouteEmpty, RouteSell, SendSell, SellOk,
                      SellOkUnrecorded, SellErr, EndSettle
  <2> QED BY <1>9, <2>1, <2>2, <2>3, <2>4 DEF SettleStep
<1>10. ASSUME NEW c \in Ids, BuyStep(c) PROVE OneActivePerMint'
  <2>1. CASE BuyFails(c)
    BY <1>2, <2>1 DEF BuyFails, RecordBuyFailure, TypeOK
  <2>2. CASE ~BuyFails(c)
    BY <1>2, <1>10, <2>2 DEF BuyStep, BalanceOk, SizeOk, TakeSlot, SendBuy,
                             BuyOk, BuyWriteFails
  <2> QED BY <2>1, <2>2
<1>11. ASSUME NEW c \in Ids, WindowPasses(c) PROVE OneActivePerMint'
  BY <1>2, <1>11 DEF WindowPasses
<1>12. ASSUME NEW c \in Ids, NEW result \in {"landed", "dropped"},
              BuySettles(c, result) \/ SellSettles(c, result)
       PROVE OneActivePerMint'
  BY <1>2, <1>12 DEF BuySettles, SellSettles
<1>13. CASE ExpireStaleCalls
  BY <1>2, <1>13 DEF ExpireStaleCalls, Due
<1>14. CASE UNCHANGED vars BY <1>2, <1>14 DEF vars
<1> QED
  BY <1>4, <1>5, <1>6, <1>7, <1>8, <1>9, <1>10, <1>11, <1>12, <1>13, <1>14
     DEF Next

\* What the steps that insert no row and store no card leave alone.
LEMMA OnlyInsertsWriteSource ==
    ASSUME [Next]_vars
    PROVE  \/ UNCHANGED <<rows, mintOf, source, carded>>
           \/ \E m \in Mints : AutoCall(m) \/ ManualCall(m) \/ FireCallCard(m)
  BY DEF Next, vars, ledger, AutoFail, OperatorClose, ArmCall, ListCalls,
         SettleStep, Examine, RoutePaper, RouteStuck, RouteEmpty, RouteSell,
         SendSell, SellOk, SellOkUnrecorded, SellErr, ApplyVerdict, EndSettle,
         BuyStep, BalanceOk, SizeOk, TakeSlot, SendBuy, BuyOk,
         BuyWriteFails, BuyFails, WindowPasses, BuySettles, SellSettles,
         ExpireStaleCalls, Crash

\* The delivery row is stored before the call is inserted and never removed.
LEMMA OneAutoCallStep == IInv /\ [Next]_vars => OneAutoCallPerMint'
<1> SUFFICES ASSUME IInv, [Next]_vars PROVE OneAutoCallPerMint'
  OBVIOUS
<1> USE DEF IInv, ledger, trade, chain, scan
<1>1. CASE UNCHANGED <<rows, mintOf, source, carded>>
  BY <1>1 DEF OneAutoCallPerMint
<1>2. ASSUME NEW m \in Mints, AutoCall(m) PROVE OneAutoCallPerMint'
  <2>1. CASE ActiveOn(m) = {}
    BY <1>2, <2>1 DEF AutoCall, InsertCall, OneAutoCallPerMint, TypeOK
  <2>2. CASE ActiveOn(m) # {}
    BY <1>2, <2>2 DEF AutoCall, OneAutoCallPerMint
  <2> QED BY <2>1, <2>2
<1>3. ASSUME NEW m \in Mints, ManualCall(m) PROVE OneAutoCallPerMint'
  BY <1>3 DEF ManualCall, InsertCall, OneAutoCallPerMint, TypeOK
<1>4. ASSUME NEW m \in Mints, FireCallCard(m) PROVE OneAutoCallPerMint'
  BY <1>4 DEF FireCallCard, OneAutoCallPerMint
<1> QED BY <1>1, <1>2, <1>3, <1>4, OnlyInsertsWriteSource

\* A row that has a source keeps it.
LEMMA SourceIsKept ==
    ASSUME TypeOK, RowsInOrder, [Next]_vars
    PROVE  \A c \in Ids : source[c] = "notifier" => source'[c] = "notifier"
<1>1. ASSUME NEW m \in Mints, NEW src, NEW exp, InsertCall(m, src, exp),
             NEW c \in Ids, source[c] = "notifier"
      PROVE source'[c] = "notifier"
  <2>1. c # rows + 1 BY <1>1 DEF RowsInOrder, TypeOK, Ids
  <2> QED BY <1>1, <2>1 DEF InsertCall, TypeOK
<1> QED
  BY <1>1, OnlyInsertsWriteSource DEF AutoCall, ManualCall, FireCallCard, ledger

-----------------------------------------------------------------------------
(* Buy tasks and sells.                                                    *)

\* The only step that starts a task is ArmCall, on the row just inserted.
LEMMA TasksStep == IInv /\ [Next]_vars => TasksOfAutoCalls'
<1> SUFFICES ASSUME IInv, [Next]_vars PROVE TasksOfAutoCalls'
  OBVIOUS
<1> USE DEF IInv, ledger, trade, chain, scan
<1>0. \A c \in Ids : source[c] = "notifier" => source'[c] = "notifier"
  BY SourceIsKept
<1>1. ASSUME UNCHANGED <<buyer, buyTx, attempted>> PROVE TasksOfAutoCalls'
  BY <1>0, <1>1 DEF TasksOfAutoCalls
<1>2. ASSUME NEW m \in Mints,
             AutoCall(m) \/ AutoFail(m) \/ ManualCall(m) \/ FireCallCard(m)
             \/ OperatorClose(m)
      PROVE TasksOfAutoCalls'
  BY <1>1, <1>2 DEF AutoCall, AutoFail, ManualCall, FireCallCard, OperatorClose
<1>3. CASE ArmCall
  <2>1. cur \in Ids /\ source[cur] = "notifier"
    BY <1>3 DEF ArmCall, ScannerAtRow
  <2> QED BY <1>0, <1>3, <2>1 DEF ArmCall, TasksOfAutoCalls, TypeOK
<1>4. CASE ListCalls \/ SettleStep \/ ExpireStaleCalls
  BY <1>1, <1>4 DEF ListCalls, ExpireStaleCalls, SettleStep, Examine,
        RoutePaper, RouteStuck, RouteEmpty, RouteSell, SendSell, SellOk,
        SellOkUnrecorded, SellErr, ApplyVerdict, EndSettle, NextCall
<1>5. ASSUME NEW c \in Ids, BuyStep(c) PROVE TasksOfAutoCalls'
  <2> USE <1>0 DEF TasksOfAutoCalls, TypeOK
  <2>1. CASE BalanceOk(c) BY <2>1 DEF BalanceOk
  <2>2. CASE SizeOk(c) BY <2>2 DEF SizeOk
  <2>3. CASE TakeSlot(c) BY <2>3 DEF TakeSlot, MarkBuyAttempt
  <2>4. CASE SendBuy(c) BY <2>4 DEF SendBuy
  <2>5. CASE \E fill \in {"filled", "empty"} : BuyOk(c, fill)
    BY <2>5 DEF BuyOk
  <2>6. CASE BuyWriteFails(c) BY <2>6 DEF BuyWriteFails, TaskEnd
  <2>7. CASE BuyFails(c) BY <2>7 DEF BuyFails
  <2> QED BY <1>5, <2>1, <2>2, <2>3, <2>4, <2>5, <2>6, <2>7 DEF BuyStep
<1>6. ASSUME NEW c \in Ids, WindowPasses(c) PROVE TasksOfAutoCalls'
  BY <1>1, <1>6 DEF WindowPasses
<1>7. ASSUME NEW c \in Ids, NEW result \in {"landed", "dropped"},
             BuySettles(c, result) \/ SellSettles(c, result)
      PROVE TasksOfAutoCalls'
  BY <1>0, <1>7 DEF BuySettles, SellSettles, TasksOfAutoCalls, TypeOK
<1>8. CASE Crash
  BY <1>0, <1>8 DEF Crash, TasksOfAutoCalls, TaskEnd, TypeOK
<1>9. CASE UNCHANGED vars BY <1>1, <1>9 DEF vars
<1> QED
  BY <1>2, <1>3, <1>4, <1>5, <1>6, <1>7, <1>8, <1>9 DEF Next

\* A buy once attempted stays attempted, once sent stays sent.
LEMMA BuyTraceIsKept ==
    ASSUME TypeOK, [Next]_vars, NEW c \in Ids
    PROVE  /\ attempted[c] => attempted'[c]
           /\ buyTx[c] # "none" => buyTx'[c] # "none"
<1> USE DEF TypeOK, ledger, trade, chain, scan
<1>1. ASSUME NEW d \in Ids, BuyStep(d)
      PROVE (attempted[c] => attempted'[c])
            /\ (buyTx[c] # "none" => buyTx'[c] # "none")
  BY <1>1 DEF BuyStep, BalanceOk, SizeOk, TakeSlot, MarkBuyAttempt, SendBuy,
              BuyOk, BuyWriteFails, BuyFails
<1>2. ASSUME NEW d \in Ids, NEW result \in {"landed", "dropped"},
             BuySettles(d, result) \/ SellSettles(d, result)
      PROVE attempted'[c] = attempted[c]
            /\ (buyTx[c] # "none" => buyTx'[c] # "none")
  BY <1>2 DEF BuySettles, SellSettles
<1>3. CASE UNCHANGED <<attempted, buyTx>> BY <1>3
<1> QED
  BY <1>1, <1>2, <1>3
     DEF Next, vars, AutoCall, AutoFail, ManualCall, FireCallCard,
         OperatorClose, ArmCall, ListCalls, SettleStep, Examine, RoutePaper,
         RouteStuck, RouteEmpty, RouteSell, SendSell, SellOk,
         SellOkUnrecorded, SellErr, ApplyVerdict, EndSettle, WindowPasses,
         ExpireStaleCalls, Crash

\* The trade columns are written by the settle task and the buy tasks alone.
LEMMA OnlyTasksTrade ==
    ASSUME [Next]_vars
    PROVE  \/ UNCHANGED <<buySig, sellSig, sellFails, sellTx>>
           \/ SettleStep
           \/ \E c \in Ids, fill \in {"filled", "empty"} : BuyOk(c, fill)
           \/ \E c \in Ids, result \in {"landed", "dropped"} :
                 SellSettles(c, result)
  BY DEF Next, vars, trade, chain, AutoCall, AutoFail, ManualCall,
         FireCallCard, OperatorClose, ArmCall, ListCalls, BuyStep, BalanceOk,
         SizeOk, TakeSlot, MarkBuyAttempt, SendBuy, BuyWriteFails, BuyFails,
         WindowPasses, BuySettles, ExpireStaleCalls, Crash

LEMMA RecordedBuyStep == IInv /\ [Next]_vars => RecordedBuyWasSent'
<1> SUFFICES ASSUME IInv, [Next]_vars PROVE RecordedBuyWasSent'
  OBVIOUS
<1> USE DEF IInv, RecordedBuyWasSent
<1>1. \A c \in Ids : source[c] = "notifier" => source'[c] = "notifier"
  BY SourceIsKept
<1>2. \A c \in Ids : /\ attempted[c] => attempted'[c]
                     /\ buyTx[c] # "none" => buyTx'[c] # "none"
  BY BuyTraceIsKept
<1>3. CASE UNCHANGED buySig BY <1>1, <1>2, <1>3
<1>4. ASSUME NEW c \in Ids, NEW fill \in {"filled", "empty"}, BuyOk(c, fill)
      PROVE RecordedBuyWasSent'
  BY <1>1, <1>2, <1>4 DEF BuyOk, RecordBuy, TasksOfAutoCalls, TypeOK
<1>5. SettleStep => UNCHANGED buySig
  BY DEF SettleStep, trade, Examine, RoutePaper, RouteStuck, RouteEmpty,
         RouteSell, SendSell, SellOk, SellOkUnrecorded, SellErr, ApplyVerdict,
         EndSettle
<1>6. \A c \in Ids, result \in {"landed", "dropped"} :
         SellSettles(c, result) => UNCHANGED buySig
  BY DEF SellSettles, trade
<1> QED BY <1>3, <1>4, <1>5, <1>6, OnlyTasksTrade

\* Outside SettleStep the scanner is not selling, or its place is unchanged.
LEMMA OnlySettleSells ==
    ASSUME [Next]_vars, ~SettleStep
    PROVE  UNCHANGED <<pc, cur>> \/ pc' \in {"analyse", "arm", "settle"}
  BY DEF Next, vars, scan, AutoCall, AutoFail, ManualCall, FireCallCard,
         OperatorClose, ArmCall, ListCalls, BuyStep, BalanceOk, SizeOk,
         TakeSlot, SendBuy, BuyOk, BuyWriteFails, BuyFails, WindowPasses,
         BuySettles, SellSettles, ExpireStaleCalls, Crash

\* The guards of the settle task hold from the moment it reads the row to the
\* moment it writes it: no other party writes buy_signature of a bought row,
\* sell_signature or the failure counter.
LEMMA SellsStep ==
    IInv /\ [Next]_vars
    => SellsRecordedPosition' /\ SellsInOrder' /\ SellAttemptsBounded'
<1> DEFINE Sells == SellsRecordedPosition /\ SellsInOrder /\ SellAttemptsBounded
<1> SUFFICES ASSUME IInv, [Next]_vars PROVE Sells'
  OBVIOUS
<1> USE SellRetryMaxAssumption
        DEF IInv, SellsRecordedPosition, SellsInOrder, SellAttemptsBounded
<1>1. CASE SettleStep
  <2> USE DEF TypeOK, ledger, trade, chain, scan, NextCall
  <2>1. ASSUME NEW c \in Ids, NEW v \in Outcomes \cup {"none"}, Examine(c, v)
        PROVE Sells'
    BY <2>1 DEF Examine
  <2>2. CASE RoutePaper \/ RouteStuck \/ RouteEmpty \/ ApplyVerdict
             \/ EndSettle \/ SellOkUnrecorded
    BY <2>2 DEF RoutePaper, RouteStuck, RouteEmpty, ApplyVerdict, EndSettle,
                SellOkUnrecorded
  <2>3. CASE RouteSell
    <3>1. cur \in Ids BY <2>3 DEF RouteSell, ScannerAtRow, SettlePc
    <3> QED BY <2>3, <3>1 DEF RouteSell, HoldsPosition
  <2>4. CASE SendSell BY <2>4 DEF SendSell
  <2>5. CASE SellOk BY <2>5 DEF SellOk, RecordSell
  <2>6. CASE SellErr BY <2>6 DEF SellErr, RecordSellFailure
  <2> QED BY <1>1, <2>1, <2>2, <2>3, <2>4, <2>5, <2>6 DEF SettleStep
<1>2. CASE ~SettleStep
  <2>1. UNCHANGED <<pc, cur>> \/ pc' \in {"analyse", "arm", "settle"}
    BY <1>2, OnlySettleSells
  <2>2. CASE UNCHANGED <<buySig, sellSig, sellFails, sellTx>>
    BY <2>1, <2>2
  <2>3. ASSUME NEW c \in Ids, NEW fill \in {"filled", "empty"}, BuyOk(c, fill)
        PROVE Sells'
    BY <2>1, <2>3 DEF BuyOk, RecordBuy, chain, TypeOK
  <2>4. ASSUME NEW c \in Ids, NEW result \in {"landed", "dropped"},
               SellSettles(c, result)
        PROVE Sells'
    BY <2>1, <2>4 DEF SellSettles, trade, TypeOK
  <2> QED BY <1>2, <2>2, <2>3, <2>4, OnlyTasksTrade
<1> QED BY <1>1, <1>2

-----------------------------------------------------------------------------
(* The inductive invariant and the theorems.                               *)

LEMMA InitIInv == Init => IInv
<1> SUFFICES ASSUME Init PROVE IInv
  OBVIOUS
<1>1. TypeOK BY InitType
<1>2. RowsInOrder BY DEF Init, RowsInOrder, Ids
<1> QED
  BY <1>1, <1>2, SellRetryMaxAssumption
     DEF Init, IInv, ScannerAtRow, SettlePc, OneActivePerMint,
         OneAutoCallPerMint, TasksOfAutoCalls, RecordedBuyWasSent,
         SellsRecordedPosition, SellsInOrder, SellAttemptsBounded

\* Every reachable state satisfies the inductive invariant.
THEOREM Invariance == Spec => []IInv
<1>1. IInv /\ [Next]_vars => IInv'
  <2> SUFFICES ASSUME IInv, [Next]_vars PROVE IInv'
    OBVIOUS
  <2>1. TypeOK' BY NextType DEF IInv
  <2>2. RowsInOrder' BY RowsInOrderStep
  <2>3. ScannerAtRow' BY ScannerAtRowStep
  <2>4. OneActivePerMint' BY OneActiveStep
  <2>5. OneAutoCallPerMint' BY OneAutoCallStep
  <2>6. TasksOfAutoCalls' BY TasksStep
  <2>7. RecordedBuyWasSent' BY RecordedBuyStep
  <2>8. SellsRecordedPosition' /\ SellsInOrder' /\ SellAttemptsBounded'
    BY SellsStep
  <2> QED
    BY <2>1, <2>2, <2>3, <2>4, <2>5, <2>6, <2>7, <2>8 DEF IInv
<1> QED BY <1>1, InitIInv, PTL DEF Spec

\* Type correctness of the table, the tasks and the chain.
THEOREM TypeCorrect == Spec => []TypeOK
<1>1. IInv => TypeOK BY DEF IInv
<1> QED BY <1>1, Invariance, PTL

\* One active call per mint, whichever of the five writers races.
THEOREM OneActive == Spec => []OneActivePerMint
<1>1. IInv => OneActivePerMint BY DEF IInv
<1> QED BY <1>1, Invariance, PTL

\* One buy transaction per mint, for any number of crashes and restarts.
THEOREM OneBuy == Spec => []OneBuyPerMint
<1>1. IInv => OneBuyPerMint
  BY DEF IInv, OneBuyPerMint, TasksOfAutoCalls, OneAutoCallPerMint
<1> QED BY <1>1, Invariance, PTL

\* A recorded buy was attempted and sent by the task of an auto-call.
THEOREM RecordedBuySent == Spec => []RecordedBuyWasSent
<1>1. IInv => RecordedBuyWasSent BY DEF IInv
<1> QED BY <1>1, Invariance, PTL

\* Only recorded, unsold positions are sold.
THEOREM SellsRecorded == Spec => []SellsRecordedPosition
<1>1. IInv => SellsRecordedPosition BY DEF IInv
<1> QED BY <1>1, Invariance, PTL

\* At most sell_retry_max failed sells are ever counted on a call.
THEOREM SellAttempts == Spec => []SellAttemptsBounded
<1>1. IInv => SellAttemptsBounded BY DEF IInv
<1> QED BY <1>1, Invariance, PTL

-----------------------------------------------------------------------------
(* Every step, as what it does to the columns of the ledger.               *)

\* The steps that write neither rows nor the trade signatures.
LedgerStutter == UNCHANGED <<rows, mintOf, status, buySig, sellSig>>

\* Each step inserts one row, closes active rows, voids an unbought row,
\* records a buy, records a sell, or leaves the ledger alone.
LEMMA StepCases ==
    ASSUME IInv, [Next]_vars
    PROVE  \/ LedgerStutter
           \/ /\ \E m \in Mints : \E src, exp : InsertCall(m, src, exp)
              /\ UNCHANGED <<buySig, sellSig>>
           \/ /\ \E S \in SUBSET Ids, s \in Outcomes :
                    /\ \A c \in S : status[c] = "active"
                    /\ status' = [c \in Ids |-> IF c \in S THEN s ELSE status[c]]
              /\ UNCHANGED <<rows, mintOf, buySig, sellSig>>
           \/ /\ \E c \in Ids : RecordBuyFailure(c) /\ buyer[c] # "idle"
              /\ UNCHANGED <<rows, mintOf, buySig, sellSig>>
           \/ /\ \E c \in Ids, fill \in {"filled", "empty"} :
                    RecordBuy(c, fill) /\ buyer[c] # "idle"
              /\ UNCHANGED <<rows, mintOf, status, sellSig>>
           \/ /\ cur \in Ids /\ buySig[cur] = "filled" /\ ~sellSig[cur]
              /\ RecordSell(cur)
              /\ UNCHANGED <<rows, mintOf, status, buySig>>
<1> USE DEF IInv, ledger, trade, LedgerStutter
<1>1. ASSUME NEW m \in Mints, AutoCall(m) \/ ManualCall(m)
      PROVE  \/ LedgerStutter
             \/ /\ \E src, exp : InsertCall(m, src, exp)
                /\ UNCHANGED <<buySig, sellSig>>
  BY <1>1 DEF AutoCall, ManualCall
<1>2. ASSUME NEW m \in Mints \cup {NoMint}, NEW s \in Outcomes,
             FlipActive(m, s)
      PROVE  \E S \in SUBSET Ids :
                /\ \A c \in S : status[c] = "active"
                /\ status' = [c \in Ids |-> IF c \in S THEN s ELSE status[c]]
  <2>1. ActiveOn(m) \in SUBSET Ids /\ \A c \in ActiveOn(m) : status[c] = "active"
    BY DEF ActiveOn
  <2> QED BY <1>2, <2>1 DEF FlipActive
<1>3. ASSUME NEW m \in Mints, AutoFail(m) \/ OperatorClose(m)
      PROVE  \E s \in Outcomes : FlipActive(m, s)
                                 /\ UNCHANGED <<rows, mintOf, buySig, sellSig>>
  BY <1>3 DEF AutoFail, OperatorClose, Outcomes
<1>4. CASE SettleStep
  <2>1. CASE SellOk
    BY <2>1 DEF SellOk, SellsRecordedPosition
  <2>2. CASE RouteStuck
    <3>1. mintOf[cur] \in Mints /\ FlipActive(mintOf[cur], "failed")
          /\ UNCHANGED <<rows, mintOf, buySig, sellSig>>
      BY <2>2, AtRow DEF RouteStuck, SettlePc
    <3> QED BY <3>1, <1>2 DEF Outcomes
  <2>3. CASE ApplyVerdict
    <3>1. mintOf[cur] \in Mints /\ FlipActive(mintOf[cur], verdict)
          /\ verdict \in Outcomes
          /\ UNCHANGED <<rows, mintOf, buySig, sellSig>>
      BY <2>3, AtRow DEF ApplyVerdict, SettlePc, ScannerAtRow
    <3> QED BY <3>1, <1>2
  <2>4. CASE ~(SellOk \/ RouteStuck \/ ApplyVerdict)
    BY <1>4, <2>4 DEF SettleStep, Examine, RoutePaper, RouteEmpty, RouteSell,
                      SendSell, SellOkUnrecorded, SellErr, EndSettle
  <2> QED BY <2>1, <2>2, <2>3, <2>4
<1>5. ASSUME NEW c \in Ids, BuyStep(c)
      PROVE  \/ LedgerStutter
             \/ /\ RecordBuyFailure(c) /\ buyer[c] # "idle"
                /\ UNCHANGED <<rows, mintOf, buySig, sellSig>>
             \/ /\ \E fill \in {"filled", "empty"} :
                      RecordBuy(c, fill) /\ buyer[c] # "idle"
                /\ UNCHANGED <<rows, mintOf, status, sellSig>>
  BY <1>5 DEF BuyStep, BalanceOk, SizeOk, TakeSlot, SendBuy, BuyOk,
              BuyWriteFails, BuyFails
<1>6. CASE ExpireStaleCalls
  <2>1. Due \in SUBSET Ids /\ \A c \in Due : status[c] = "active" BY DEF Due
  <2> QED BY <1>6, <2>1 DEF ExpireStaleCalls, Outcomes
<1>7. CASE \/ ArmCall \/ ListCalls \/ Crash \/ UNCHANGED vars
           \/ \E m \in Mints : FireCallCard(m)
           \/ \E c \in Ids : WindowPasses(c)
           \/ \E c \in Ids, result \in {"landed", "dropped"} :
                 BuySettles(c, result) \/ SellSettles(c, result)
  BY <1>7 DEF ArmCall, ListCalls, Crash, FireCallCard, WindowPasses,
              BuySettles, SellSettles, vars
<1>8. CASE \E m \in Mints : AutoFail(m) \/ OperatorClose(m)
  BY <1>8, <1>3, <1>2
<1> QED BY <1>1, <1>4, <1>5, <1>6, <1>7, <1>8 DEF Next

\* No writer, however late, changes the verdict of a call that was bought for.
THEOREM BoughtVerdictFinal == Spec => BoughtVerdictIsFinal
<1> DEFINE Final == \A c \in Ids : status[c] \in Terminal /\ buySig[c] # "none"
                                   => status'[c] = status[c]
<1>1. IInv /\ [Next]_vars => [Final]_vars
  <2> SUFFICES ASSUME IInv, [Next]_vars PROVE Final
    OBVIOUS
  <2>1. ASSUME NEW m \in Mints, NEW src, NEW exp, InsertCall(m, src, exp)
        PROVE Final
    BY <2>1 DEF InsertCall, IInv, RowsInOrder, TypeOK, Ids, Terminal, Outcomes
  <2>2. ASSUME NEW c \in Ids, RecordBuyFailure(c) PROVE Final
    BY <2>2 DEF RecordBuyFailure, IInv, TypeOK
  <2>3. CASE UNCHANGED status BY <2>3
  <2>4. ASSUME NEW S \in SUBSET Ids, NEW s \in Outcomes,
               \A c \in S : status[c] = "active",
               status' = [c \in Ids |-> IF c \in S THEN s ELSE status[c]]
        PROVE Final
    BY <2>4 DEF Terminal, Outcomes
  <2> QED BY <2>1, <2>2, <2>3, <2>4, StepCases DEF LedgerStutter
<1> QED BY <1>1, Invariance, PTL DEF Spec, BoughtVerdictIsFinal

-----------------------------------------------------------------------------
(* CallTrading implements CallLedger.                                      *)

LEMMA InitImplements == Init => Ledger!Init
  BY DEF Init, Ledger!Init, Held, Ids, Ledger!Ids

\* Each case of StepCases is the ledger's action of that name.
LEMMA StepImplements == IInv /\ [Next]_vars => [Ledger!Next]_(Ledger!vars)
<1> SUFFICES ASSUME IInv, [Next]_vars
             PROVE Ledger!Next \/ UNCHANGED Ledger!vars
  OBVIOUS
<1> USE DEF IInv, Held, Ids, Ledger!Ids, Ledger!vars, Ledger!Next
<1>1. CASE LedgerStutter BY <1>1 DEF LedgerStutter
<1>2. ASSUME NEW m \in Mints, NEW src, NEW exp, InsertCall(m, src, exp),
             UNCHANGED <<buySig, sellSig>>
      PROVE Ledger!Next
  BY <1>2 DEF InsertCall, ActiveOn, Ledger!Open
<1>3. ASSUME NEW S \in SUBSET Ids, NEW s \in Outcomes,
             \A c \in S : status[c] = "active",
             status' = [c \in Ids |-> IF c \in S THEN s ELSE status[c]],
             UNCHANGED <<rows, mintOf, buySig, sellSig>>
      PROVE Ledger!Next
  <2>1. Ledger!Close(S, s) BY <1>3 DEF Ledger!Close
  <2> QED BY <2>1 DEF Outcomes, Ledger!Outcomes
<1>4. ASSUME NEW c \in Ids, RecordBuyFailure(c), buyer[c] # "idle",
             UNCHANGED <<rows, mintOf, buySig, sellSig>>
      PROVE Ledger!Next \/ UNCHANGED Ledger!vars
  <2>1. CASE buySig[c] # "none"
    BY <1>4, <2>1 DEF RecordBuyFailure, TypeOK
  <2>2. CASE buySig[c] = "none"
    <3>1. ~sellSig[c] BY <2>2 DEF SellsInOrder
    <3>2. status[c] # "none"
      BY <1>4 DEF TasksOfAutoCalls, RowsInOrder, TypeOK
    <3> QED BY <1>4, <2>2, <3>1, <3>2 DEF RecordBuyFailure, Ledger!Void
  <2> QED BY <2>1, <2>2
<1>5. ASSUME NEW c \in Ids, NEW fill \in {"filled", "empty"},
             RecordBuy(c, fill), buyer[c] # "idle",
             UNCHANGED <<rows, mintOf, status, sellSig>>
      PROVE Ledger!Next \/ UNCHANGED Ledger!vars
  <2>1. CASE buySig[c] # "none"
    BY <1>5, <2>1 DEF RecordBuy, TypeOK
  <2>2. CASE buySig[c] = "none"
    <3>1. source[c] = "notifier" BY <1>5 DEF TasksOfAutoCalls
    <3>2. \A d \in Ids : mintOf[d] = mintOf[c] => buySig[d] = "none"
      BY <2>2, <3>1 DEF RecordedBuyWasSent, OneAutoCallPerMint
    <3>3. \A d \in Ids : buySig[d] = "none" => Held[d] = "no"
      BY DEF SellsInOrder
    <3>4. Held' = [Held EXCEPT ![c] = "yes"]
      BY <1>5, <2>2, <3>3 DEF RecordBuy, SellsInOrder, TypeOK
    <3> QED BY <1>5, <3>2, <3>3, <3>4, <2>2 DEF Ledger!Buy
  <2> QED BY <2>1, <2>2
<1>6. ASSUME cur \in Ids, buySig[cur] = "filled", ~sellSig[cur],
             RecordSell(cur), UNCHANGED <<rows, mintOf, status, buySig>>
      PROVE Ledger!Next
  BY <1>6 DEF RecordSell, Ledger!Sell, TypeOK
<1> HIDE DEF IInv, Held, Ids, Ledger!Ids, Ledger!vars, Ledger!Next
<1> QED BY <1>1, <1>2, <1>3, <1>4, <1>5, <1>6, StepCases

\* The table with its writers and tasks refines the abstract ledger: one buy
\* and one sell per mint, one open row per mint, one close per row.
THEOREM Implements == Spec => ImplementsLedger
  BY InitImplements, StepImplements, Invariance, PTL
     DEF Spec, ImplementsLedger, Ledger!Spec
=============================================================================
