--------------------------- MODULE CallCardsProofs ---------------------------
(***************************************************************************)
(* Theorems about CallCards, for every number of calls on the mint, every  *)
(* list of milestones and any number of faults: the model checker covers   *)
(* one call and two milestones.                                            *)
(***************************************************************************)
EXTENDS CallCards, TLAPS

\* The scanner's call and tier are real where it uses them.
PlaceOK ==
    /\ pc \in {"milestones", "reply", "store", "ladder"} => cur \in Ids
    /\ pc \in {"reply", "store"} => tier \in Tiers /\ tier <= level

\* A promotion inserts its call after its delivery row, and rows stay.
CardFirst == (auto \/ pc = "call") => row # "none"

\* Until the first call is closed no task holds a verdict.
NoVerdictInHand ==
    call = "none" \/ (rows = 1 /\ call = "active") =>
        /\ shown # "verdict"
        /\ \A c \in Ids : outcome[c] = "idle"
        /\ refresh \notin {"closed", "render closed"}

\* A tier above the stored one, but for the reply just sent, was told at most
\* once for each fault, and so was every tier the loop has still to tell.
TiersTold ==
    /\ \A c \in Ids, k \in Tiers :
          k > announced[c] => \/ replies[c][k] <= faults
                              \/ pc = "store" /\ c = cur /\ k = tier
    /\ \A k \in Tiers :
          (pc = "reply" /\ k >= tier) \/ (pc = "store" /\ k > tier)
          => replies[cur][k] <= faults
    /\ RepliesRepeatOnFaults

\* The mint has a call exactly from its first one on.
NoCall == rows = 0 <=> call = "none"

\* What a task has read of the row over its await stays true of it: rows stay.
RowHeld ==
    /\ pc \in {"live", "past", "keep", "demote", "rebound"} => row # "none"
    /\ refresh \in {"render open", "render closed"} => row # "none"
    /\ \A c \in Ids : outcome[c] = "render" \/ manual[c] = "edit" => row # "none"

\* The scanner settles a call that was inserted.
CurKnown == cur <= rows

IInv ==
    /\ TypeOK /\ PlaceOK /\ NoCall /\ CardFirst /\ NoVerdictInHand /\ TiersTold
    /\ RowHeld /\ CurKnown

-----------------------------------------------------------------------------
USE MaxCallsAssumption, MaxTierAssumption, MaxFaultsAssumption

LEMMA InitIInv == Init => IInv
<1> SUFFICES ASSUME Init PROVE IInv
  OBVIOUS
<1> USE DEF Init, Ids, Tiers
<1>1. TypeOK
  <2>1. \A c \in Ids : [k \in Tiers |-> 0] \in [Tiers -> Nat] OBVIOUS
  <2>2. replies \in [Ids -> [Tiers -> Nat]] BY <2>1
  <2>3. announced \in [Ids -> 0..MaxTier] OBVIOUS
  <2>4. outcome \in [Ids -> {"idle", "fetch", "render"}] OBVIOUS
  <2>5. manual \in [Ids -> {"idle", "fetch", "send", "insert", "edit"}] OBVIOUS
  <2>6. cur \in 0..MaxCalls /\ tier \in 0..MaxTier /\ level \in 0..MaxTier OBVIOUS
  <2>7. faults \in 0..MaxFaults /\ rows \in 0..MaxCalls OBVIOUS
  <2>8. pc = "tokens" OBVIOUS
  <2> QED BY <2>2, <2>3, <2>4, <2>5, <2>6, <2>7, <2>8 DEF TypeOK, Row
<1>2. PlaceOK /\ CardFirst /\ NoVerdictInHand /\ NoCall
  BY DEF PlaceOK, CardFirst, NoVerdictInHand, NoCall
<1>3. TiersTold BY DEF TiersTold, RepliesRepeatOnFaults
<1>4. RowHeld /\ CurKnown BY DEF RowHeld, CurKnown
<1> QED BY <1>1, <1>2, <1>3, <1>4 DEF IInv

-----------------------------------------------------------------------------
(* Type correctness.                                                       *)

\* The steps of process_token and of the watchlist.
TokenStep ==
    \/ ProcessToken \/ LeaveToken \/ Promote \/ PromoteSent \/ PromoteInsert
    \/ PromoteCall \/ Update \/ UpdateDone \/ Rebound \/ ReboundDone
    \/ AutoFail \/ Watch

\* The steps of settle_calls and the end of the cycle.
PassStep ==
    \/ ListCalls \/ (\E l \in Tiers : Cross(l) \/ CrossUnread(l))
    \/ CrossNothing \/ Reply \/ ReplyFails \/ ReplyTimesOut \/ Store \/ StoreFails
    \/ Hold \/ Settle \/ DemoteOrphaned

\* The steps of the operator, the publisher and a restart.
OtherStep ==
    \/ ManualCall \/ OperatorClose \/ Expire
    \/ RefreshBegin \/ RefreshRead \/ RefreshWrite \/ RefreshFails
    \/ Crash

LEMMA NextByParty ==
    Next <=> TokenStep \/ PassStep \/ OtherStep \/ \E c \in Ids : CardTask(c)
BY DEF Next, ScanStep, TokenStep, PassStep, OtherStep

\* The three parts of TypeOK.
TypeArrays ==
    /\ announced \in [Ids -> 0..MaxTier]
    /\ replies \in [Ids -> [Tiers -> Nat]]
    /\ outcome \in [Ids -> {"idle", "fetch", "render"}]
    /\ manual \in [Ids -> {"idle", "fetch", "send", "insert", "edit"}]

TypeScan ==
    /\ pc \in {"tokens", "new", "live", "past", "send", "insert", "call", "keep",
               "demote", "rebound",
               "settle", "milestones", "reply", "store", "ladder", "tail"}
    /\ cur \in 0..MaxCalls /\ tier \in 0..MaxTier /\ level \in 0..MaxTier

TypeRest ==
    /\ rows \in 0..MaxCalls /\ call \in {"none", "active", "closed"}
    /\ auto \in BOOLEAN /\ watched \in BOOLEAN
    /\ row \in Row /\ shown \in {"none", "open", "verdict"}
    /\ refresh \in {"idle", "open", "closed", "render open", "render closed"}
    /\ faults \in 0..MaxFaults

LEMMA TypeParts == TypeOK <=> TypeArrays /\ TypeScan /\ TypeRest
BY DEF TypeOK, TypeArrays, TypeScan, TypeRest

LEMMA OneMoreFault ==
    faults \in 0..MaxFaults /\ faults < MaxFaults /\ faults' = faults + 1
    => faults' \in 0..MaxFaults
OBVIOUS

LEMMA OneMoreCall ==
    rows \in 0..MaxCalls /\ rows < MaxCalls /\ rows' = rows + 1
    => rows' \in 0..MaxCalls
OBVIOUS

LEMMA RestType == TypeRest /\ Next => TypeRest'
<1> SUFFICES ASSUME TypeRest, Next PROVE TypeRest'
  OBVIOUS
<1> USE DEF TypeRest, Row, calls, card, tasks
<1>1. CASE TokenStep
  <2>1. CASE ProcessToken \/ LeaveToken \/ Promote \/ PromoteSent
    BY <2>1 DEF ProcessToken, LeaveToken, Promote, PromoteSent
  <2>2. CASE PromoteInsert BY <2>2 DEF PromoteInsert, Goto
  <2>5. CASE PromoteCall
    <3>1. rows' \in 0..MaxCalls BY <2>5, OneMoreCall DEF PromoteCall, OpenCall
    <3> QED BY <2>5, <3>1 DEF PromoteCall, OpenCall
  <2>3. CASE Update \/ UpdateDone \/ Rebound \/ ReboundDone
    BY <2>3 DEF Update, UpdateDone, Rebound, ReboundDone
  <2>4. CASE AutoFail \/ Watch BY <2>4 DEF AutoFail, CloseAndAnnounce, Watch
  <2> QED BY <1>1, <2>1, <2>2, <2>3, <2>4, <2>5 DEF TokenStep
<1>2. CASE PassStep
  <2>1. CASE ListCalls \/ CrossNothing \/ ReplyFails
    BY <2>1 DEF ListCalls, CrossNothing, ReplyFails
  <2>6. CASE Reply BY <2>6 DEF Reply
  <2>7. CASE ReplyTimesOut
    <3>1. faults' \in 0..MaxFaults BY <2>7, OneMoreFault DEF ReplyTimesOut
    <3> QED BY <2>7, <3>1 DEF ReplyTimesOut
  <2>2. ASSUME NEW l \in Tiers, Cross(l) PROVE TypeRest'
    BY <2>2 DEF Cross
  <2>5. ASSUME NEW l \in Tiers, CrossUnread(l) PROVE TypeRest'
    <3>1. faults' \in 0..MaxFaults BY <2>5, OneMoreFault DEF CrossUnread
    <3> QED BY <2>5, <3>1 DEF CrossUnread
  <2>3. CASE Store \/ StoreFails \/ Hold
    <3>1. faults' \in 0..MaxFaults BY <2>3, OneMoreFault DEF Store, StoreFails, Hold
    <3> QED BY <2>3, <3>1 DEF Store, StoreFails, Hold
  <2>4. CASE Settle \/ DemoteOrphaned
    BY <2>4 DEF Settle, CloseAndAnnounce, DemoteOrphaned
  <2> QED BY <1>2, <2>1, <2>2, <2>3, <2>4, <2>5, <2>6, <2>7 DEF PassStep
<1>3. CASE OtherStep
  <2>1. CASE OperatorClose \/ Expire
    BY <2>1 DEF OperatorClose, CloseAndAnnounce, Expire
  <2>4. CASE ManualCall
    <3>1. rows' \in 0..MaxCalls BY <2>4, OneMoreCall DEF ManualCall, OpenCall
    <3> QED BY <2>4, <3>1 DEF ManualCall, OpenCall
  <2>2. CASE RefreshBegin \/ RefreshRead \/ RefreshWrite \/ RefreshFails
    BY <2>2 DEF RefreshBegin, RefreshRead, RefreshWrite, RefreshFails
  <2>3. CASE Crash
    <3>1. faults' \in 0..MaxFaults BY <2>3, OneMoreFault DEF Crash
    <3> QED BY <2>3, <3>1 DEF Crash
  <2> QED BY <1>3, <2>1, <2>2, <2>3, <2>4 DEF OtherStep
<1>4. ASSUME NEW c \in Ids, CardTask(c) PROVE TypeRest'
  <2>1. CASE OutcomeRead(c) \/ OutcomeWrite(c) \/ OutcomeFails(c)
    BY <2>1 DEF OutcomeRead, OutcomeWrite, OutcomeFails
  <2>2. CASE CardRead(c) \/ CardSent(c) \/ CardInsert(c)
    BY <2>2 DEF CardRead, CardSent, CardInsert
  <2>3. CASE CardEdit(c) \/ CardFails(c) BY <2>3 DEF CardEdit, CardFails
  <2> QED BY <1>4, <2>1, <2>2, <2>3 DEF CardTask
<1> QED BY <1>1, <1>2, <1>3, <1>4, NextByParty

LEMMA ScanType == TypeOK /\ PlaceOK /\ Next => TypeScan'
<1> SUFFICES ASSUME TypeArrays, TypeScan, TypeRest, PlaceOK, Next
             PROVE  TypeScan'
  BY TypeParts
<1> USE DEF TypeScan, pass, scan, Goto
<1>1. CASE TokenStep
  <2>1. CASE ProcessToken \/ LeaveToken \/ Promote \/ PromoteSent
    BY <2>1 DEF ProcessToken, LeaveToken, Promote, PromoteSent
  <2>2. CASE PromoteInsert \/ PromoteCall
    BY <2>2 DEF PromoteInsert, PromoteCall
  <2>3. CASE Update \/ UpdateDone \/ Rebound \/ ReboundDone
    BY <2>3 DEF Update, UpdateDone, Rebound, ReboundDone
  <2>4. CASE AutoFail \/ Watch BY <2>4 DEF AutoFail, Watch
  <2> QED BY <1>1, <2>1, <2>2, <2>3, <2>4 DEF TokenStep
<1>2. CASE PassStep
  <2>1. CASE ListCalls
    <3>1. rows \in 0..MaxCalls BY DEF TypeRest
    <3>2. 0 \in 0..MaxCalls OBVIOUS
    <3>3. cur' = rows \/ cur' = 0 BY <2>1 DEF ListCalls
    <3> QED BY <2>1, <3>1, <3>2, <3>3 DEF ListCalls
  <2>2. CASE CrossNothing \/ Reply \/ ReplyFails \/ ReplyTimesOut
    BY <2>2 DEF CrossNothing, Reply, ReplyFails, ReplyTimesOut
  <2>3. ASSUME NEW l \in Tiers, Cross(l) PROVE TypeScan'
    <3>1. cur \in Ids BY <2>3 DEF Cross, PlaceOK
    <3>2. announced[cur] \in 0..MaxTier BY <3>1 DEF TypeArrays
    <3> QED BY <2>3, <3>2 DEF Cross, Tiers
  <2>4. ASSUME NEW l \in Tiers, CrossUnread(l) PROVE TypeScan'
    BY <2>4 DEF CrossUnread, Tiers
  <2>5. CASE Store \/ StoreFails BY <2>5 DEF Store, StoreFails, NextTier
  <2>6. CASE Hold \/ Settle BY <2>6 DEF Hold, Settle, EndPass
  <2>7. CASE DemoteOrphaned BY <2>7 DEF DemoteOrphaned
  <2> QED BY <1>2, <2>1, <2>2, <2>3, <2>4, <2>5, <2>6, <2>7 DEF PassStep
<1>3. CASE OtherStep
  <2>1. CASE ManualCall \/ OperatorClose \/ Expire
    BY <2>1 DEF ManualCall, OperatorClose, Expire
  <2>2. CASE RefreshBegin \/ RefreshRead \/ RefreshWrite \/ RefreshFails
    BY <2>2 DEF RefreshBegin, RefreshRead, RefreshWrite, RefreshFails
  <2>3. CASE Crash BY <2>3 DEF Crash
  <2> QED BY <1>3, <2>1, <2>2, <2>3 DEF OtherStep
<1>4. ASSUME NEW c \in Ids, CardTask(c) PROVE TypeScan'
  BY <1>4 DEF CardTask, OutcomeRead, OutcomeWrite, OutcomeFails, CardRead,
              CardSent, CardInsert, CardEdit, CardFails
<1> QED BY <1>1, <1>2, <1>3, <1>4, NextByParty

LEMMA ArraysType == TypeOK /\ PlaceOK /\ Next => TypeArrays'
<1> SUFFICES ASSUME TypeArrays, TypeScan, TypeRest, PlaceOK, Next
             PROVE  TypeArrays'
  BY TypeParts
<1> USE DEF TypeArrays, miles, tasks
<1>1. ASSUME CloseAndAnnounce, UNCHANGED miles PROVE TypeArrays'
  BY <1>1 DEF CloseAndAnnounce
<1>2. CASE TokenStep
  <2>1. CASE AutoFail BY <1>1, <2>1 DEF AutoFail
  <2>2. CASE ~AutoFail
    BY <1>2, <2>2 DEF TokenStep, ProcessToken, LeaveToken, Promote, PromoteSent,
                      PromoteInsert, PromoteCall, Update, UpdateDone, Rebound,
                      ReboundDone, Watch
  <2> QED BY <2>1, <2>2
<1>3. CASE PassStep
  <2>1. CASE Reply \/ ReplyTimesOut
    <3>1. cur \in Ids /\ tier \in Tiers BY <2>1 DEF Reply, ReplyTimesOut, PlaceOK
    <3>2. replies[cur] \in [Tiers -> Nat] BY <3>1
    <3> DEFINE n == IF row = "none" THEN replies[cur][tier]
                    ELSE replies[cur][tier] + 1
    <3>3. replies[cur][tier] \in Nat BY <3>1, <3>2
    <3>4. n \in Nat BY <3>3
    <3>5. replies' = [replies EXCEPT ![cur] = [replies[cur] EXCEPT ![tier] = n]]
      BY <2>1, <3>1, <3>2 DEF Reply, ReplyTimesOut
    <3> HIDE DEF n
    <3>6. [replies[cur] EXCEPT ![tier] = n] \in [Tiers -> Nat] BY <3>2, <3>4
    <3>7. replies' \in [Ids -> [Tiers -> Nat]] BY <3>5, <3>6
    <3>8. UNCHANGED <<announced, outcome, manual>>
      BY <2>1 DEF Reply, ReplyTimesOut
    <3> QED BY <3>7, <3>8
  <2>2. CASE Store
    <3>1. cur \in Ids /\ tier \in 0..MaxTier BY <2>2 DEF Store, TypeScan, PlaceOK
    <3> QED BY <2>2, <3>1 DEF Store
  <2>3. CASE Settle BY <1>1, <2>3 DEF Settle
  <2>4. CASE ~(Reply \/ ReplyTimesOut \/ Store \/ Settle)
    BY <1>3, <2>4 DEF PassStep, ListCalls, Cross, CrossUnread, CrossNothing,
                      ReplyFails, StoreFails, Hold, DemoteOrphaned
  <2> QED BY <2>1, <2>2, <2>3, <2>4
<1>4. CASE OtherStep
  <2>1. CASE ManualCall BY <2>1 DEF ManualCall
  <2>2. CASE OperatorClose BY <1>1, <2>2 DEF OperatorClose
  <2>3. CASE Crash BY <2>3 DEF Crash
  <2>4. CASE ~(ManualCall \/ OperatorClose \/ Crash)
    BY <1>4, <2>4 DEF OtherStep, Expire, RefreshBegin, RefreshRead, RefreshWrite,
                      RefreshFails
  <2> QED BY <2>1, <2>2, <2>3, <2>4
<1>5. ASSUME NEW c \in Ids, CardTask(c) PROVE TypeArrays'
  <2>1. CASE OutcomeRead(c) \/ OutcomeWrite(c) \/ OutcomeFails(c)
    BY <2>1 DEF OutcomeRead, OutcomeWrite, OutcomeFails
  <2>2. CASE CardRead(c) \/ CardSent(c) \/ CardInsert(c) \/ CardEdit(c)
             \/ CardFails(c)
    BY <2>2 DEF CardRead, CardSent, CardInsert, CardEdit, CardFails
  <2> QED BY <1>5, <2>1, <2>2 DEF CardTask
<1> QED BY <1>2, <1>3, <1>4, <1>5, NextByParty

LEMMA TypeStep == TypeOK /\ PlaceOK /\ Next => TypeOK'
<1> SUFFICES ASSUME TypeOK, PlaceOK, Next PROVE TypeOK'
  OBVIOUS
<1>1. TypeArrays' /\ TypeScan' /\ TypeRest'
  BY ArraysType, ScanType, RestType, TypeParts
<1> QED BY <1>1 DEF TypeOK, TypeArrays, TypeScan, TypeRest

-----------------------------------------------------------------------------
(* The scanner's place.                                                    *)

LEMMA CallMoves ==
    Next => OpenCall \/ CloseAndAnnounce \/ Expire \/ UNCHANGED <<rows, call>>
<1> SUFFICES ASSUME Next
             PROVE  OpenCall \/ CloseAndAnnounce \/ Expire \/ UNCHANGED <<rows, call>>
  OBVIOUS
<1> USE DEF calls
<1>1. CASE TokenStep
  BY <1>1 DEF TokenStep, ProcessToken, LeaveToken, Promote, PromoteSent,
              PromoteInsert, PromoteCall, Update, UpdateDone, Rebound,
              ReboundDone, AutoFail, Watch
<1>2. CASE PassStep
  BY <1>2 DEF PassStep, ListCalls, Cross, CrossUnread, CrossNothing, Reply,
              ReplyFails, ReplyTimesOut, Store, StoreFails, Hold, Settle,
              DemoteOrphaned
<1>3. CASE OtherStep
  BY <1>3 DEF OtherStep, ManualCall, OperatorClose, RefreshBegin, RefreshRead,
              RefreshWrite, RefreshFails, Crash
<1>4. ASSUME NEW c \in Ids, CardTask(c) PROVE UNCHANGED <<rows, call>>
  BY <1>4 DEF CardTask, OutcomeRead, OutcomeWrite, OutcomeFails, CardRead,
              CardSent, CardInsert, CardEdit, CardFails
<1> QED BY <1>1, <1>2, <1>3, <1>4, NextByParty

LEMMA CallsStep == TypeOK /\ NoCall /\ Next => NoCall'
<1> SUFFICES ASSUME TypeOK, NoCall, Next PROVE NoCall'
  OBVIOUS
<1> USE DEF NoCall
<1>1. CASE OpenCall
  <2>1. rows \in 0..MaxCalls BY DEF TypeOK
  <2>2. rows' = rows + 1 /\ call' # "none" BY <1>1 DEF OpenCall
  <2> QED BY <2>1, <2>2
<1>2. CASE CloseAndAnnounce BY <1>2 DEF CloseAndAnnounce
<1>3. CASE Expire BY <1>3 DEF Expire
<1>4. CASE UNCHANGED <<rows, call>> BY <1>4
<1> QED BY <1>1, <1>2, <1>3, <1>4, CallMoves

LEMMA LatestRow == TypeOK /\ NoCall /\ call # "none" => rows \in Ids
<1> SUFFICES ASSUME TypeOK, NoCall, call # "none" PROVE rows \in Ids
  OBVIOUS
<1>1. rows \in 0..MaxCalls /\ rows # 0 BY DEF TypeOK, NoCall
<1> QED BY <1>1 DEF Ids

LEMMA PlaceStep == TypeOK /\ NoCall /\ PlaceOK /\ Next => PlaceOK'
<1> SUFFICES ASSUME TypeArrays, TypeScan, TypeRest, PlaceOK, Next,
                    call # "none" => rows \in Ids
             PROVE  PlaceOK'
  BY TypeParts, LatestRow
<1> USE DEF PlaceOK, pass, scan, Goto
<1>1. CASE TokenStep
  <2>1. CASE ProcessToken \/ LeaveToken \/ Promote \/ PromoteSent
    BY <2>1 DEF ProcessToken, LeaveToken, Promote, PromoteSent
  <2>2. CASE PromoteInsert \/ PromoteCall
    BY <2>2 DEF PromoteInsert, PromoteCall
  <2>3. CASE Update \/ UpdateDone \/ Rebound \/ ReboundDone
    BY <2>3 DEF Update, UpdateDone, Rebound, ReboundDone
  <2>4. CASE AutoFail \/ Watch BY <2>4 DEF AutoFail, Watch, Ids, Tiers
  <2> QED BY <1>1, <2>1, <2>2, <2>3, <2>4 DEF TokenStep
<1>2. CASE PassStep
  <2>1. CASE ListCalls BY <2>1 DEF ListCalls, Ids
  <2>2. CASE CrossNothing \/ Reply \/ ReplyFails \/ ReplyTimesOut
    BY <2>2 DEF CrossNothing, Reply, ReplyFails, ReplyTimesOut, Ids, Tiers
  <2>3. ASSUME NEW l \in Tiers, Cross(l) PROVE PlaceOK'
    <3>1. cur \in Ids BY <2>3 DEF Cross
    <3>2. announced[cur] \in 0..MaxTier BY <3>1 DEF TypeArrays
    <3>3. announced[cur] + 1 \in Tiers /\ announced[cur] + 1 <= l
      BY <2>3, <3>2 DEF Cross, Tiers
    <3> QED BY <2>3, <3>1, <3>3 DEF Cross, Ids, Tiers
  <2>4. ASSUME NEW l \in Tiers, CrossUnread(l) PROVE PlaceOK'
    BY <2>4 DEF CrossUnread, Ids, Tiers
  <2>5. CASE Store \/ StoreFails
    BY <2>5 DEF Store, StoreFails, NextTier, Ids, Tiers, TypeScan
  <2>6. CASE Hold \/ Settle BY <2>6 DEF Hold, Settle, EndPass
  <2>7. CASE DemoteOrphaned BY <2>7 DEF DemoteOrphaned
  <2> QED BY <1>2, <2>1, <2>2, <2>3, <2>4, <2>5, <2>6, <2>7 DEF PassStep
<1>3. CASE OtherStep
  <2>1. CASE ManualCall \/ OperatorClose \/ Expire
    BY <2>1 DEF ManualCall, OperatorClose, Expire, Ids, Tiers
  <2>2. CASE RefreshBegin \/ RefreshRead \/ RefreshWrite \/ RefreshFails
    BY <2>2 DEF RefreshBegin, RefreshRead, RefreshWrite, RefreshFails, Ids, Tiers
  <2>3. CASE Crash BY <2>3 DEF Crash
  <2> QED BY <1>3, <2>1, <2>2, <2>3 DEF OtherStep
<1>4. ASSUME NEW c \in Ids, CardTask(c) PROVE PlaceOK'
  BY <1>4 DEF CardTask, OutcomeRead, OutcomeWrite, OutcomeFails, CardRead,
              CardSent, CardInsert, CardEdit, CardFails, Ids, Tiers
<1> QED BY <1>1, <1>2, <1>3, <1>4, NextByParty

-----------------------------------------------------------------------------
(* Cards and verdicts.                                                     *)

LEMMA CardFirstStep == TypeOK /\ CardFirst /\ Next => CardFirst'
<1> SUFFICES ASSUME CardFirst, Next PROVE CardFirst'
  OBVIOUS
<1> USE DEF CardFirst, calls, card, scan, pass, Goto
<1>1. CASE TokenStep
  BY <1>1 DEF TokenStep, ProcessToken, LeaveToken, Promote, PromoteSent,
              PromoteInsert, PromoteCall, OpenCall, Update, UpdateDone, Rebound,
              ReboundDone, AutoFail, CloseAndAnnounce, Watch
<1>2. CASE PassStep
  BY <1>2 DEF PassStep, ListCalls, Cross, CrossUnread, CrossNothing, Reply,
              ReplyFails, ReplyTimesOut, Store, StoreFails, NextTier, Hold,
              Settle, EndPass, CloseAndAnnounce, DemoteOrphaned
<1>3. CASE OtherStep
  BY <1>3 DEF OtherStep, ManualCall, OperatorClose, Expire, CloseAndAnnounce,
              RefreshBegin, RefreshRead, RefreshWrite, RefreshFails, Crash
<1>4. ASSUME NEW c \in Ids, CardTask(c) PROVE CardFirst'
  BY <1>4 DEF CardTask, OutcomeRead, OutcomeWrite, OutcomeFails, CardRead,
              CardSent, CardInsert, CardEdit, CardFails
<1> QED BY <1>1, <1>2, <1>3, <1>4, NextByParty

LEMMA VerdictStep ==
    TypeOK /\ NoCall /\ NoVerdictInHand /\ Next => NoVerdictInHand'
<1> SUFFICES ASSUME TypeArrays, TypeRest, NoCall, NoVerdictInHand, Next,
                    call' = "none" \/ (rows' = 1 /\ call' = "active")
             PROVE  /\ shown' # "verdict"
                    /\ \A c \in Ids : outcome'[c] = "idle"
                    /\ refresh' \notin {"closed", "render closed"}
  BY TypeParts DEF NoVerdictInHand
<1>1. /\ shown # "verdict"
      /\ \A c \in Ids : outcome[c] = "idle"
      /\ refresh \notin {"closed", "render closed"}
  <2>1. CASE OpenCall
    <3>1. rows \in 0..MaxCalls BY DEF TypeRest
    <3>2. rows' = rows + 1 /\ rows' = 1 BY <2>1 DEF OpenCall
    <3>3. rows = 0 BY <3>1, <3>2
    <3> QED BY <3>3 DEF NoCall, NoVerdictInHand
  <2>2. CASE CloseAndAnnounce BY <2>2 DEF CloseAndAnnounce
  <2>3. CASE Expire BY <2>3 DEF Expire
  <2>4. CASE UNCHANGED <<rows, call>> BY <2>4 DEF NoVerdictInHand
  <2> QED BY <2>1, <2>2, <2>3, <2>4, CallMoves
<1>2. ~CloseAndAnnounce /\ ~Expire BY DEF CloseAndAnnounce, Expire
<1> USE DEF calls, card, tasks
<1>3. CASE TokenStep
  BY <1>1, <1>2, <1>3 DEF TokenStep, ProcessToken, LeaveToken, Promote,
              PromoteSent, PromoteInsert, PromoteCall, OpenCall, Update,
              UpdateDone, Rebound, ReboundDone, AutoFail, Watch
<1>4. CASE PassStep
  BY <1>1, <1>2, <1>4 DEF PassStep, ListCalls, Cross, CrossUnread, CrossNothing,
              Reply, ReplyFails, ReplyTimesOut, Store, StoreFails, Hold, Settle,
              DemoteOrphaned
<1>5. CASE OtherStep
  <2>1. CASE RefreshBegin
    <3>1. rows > 0 /\ UNCHANGED <<rows, call>> BY <2>1 DEF RefreshBegin
    <3>2. rows # 0 BY <3>1
    <3>3. call = "active" BY <3>1, <3>2 DEF NoCall
    <3> QED BY <1>1, <2>1, <3>3 DEF RefreshBegin
  <2>2. CASE ManualCall BY <1>1, <2>2 DEF ManualCall
  <2>3. CASE RefreshRead \/ RefreshWrite \/ RefreshFails
    BY <1>1, <2>3 DEF RefreshRead, RefreshWrite, RefreshFails, TypeRest
  <2>4. CASE Crash BY <1>1, <2>4 DEF Crash
  <2> QED BY <1>2, <1>5, <2>1, <2>2, <2>3, <2>4 DEF OtherStep, OperatorClose
<1>6. ASSUME NEW c \in Ids, CardTask(c)
      PROVE  /\ shown' # "verdict"
             /\ \A d \in Ids : outcome'[d] = "idle"
             /\ refresh' \notin {"closed", "render closed"}
  BY <1>1, <1>6 DEF CardTask, OutcomeRead, OutcomeWrite, OutcomeFails, CardRead,
              CardSent, CardInsert, CardEdit, CardFails
<1> QED BY <1>3, <1>4, <1>5, <1>6, NextByParty

-----------------------------------------------------------------------------
(* Milestone replies.                                                      *)

LEMMA FaultsNat == TypeOK => faults \in Nat
<1> SUFFICES ASSUME TypeOK PROVE faults \in Nat
  OBVIOUS
<1>1. faults \in 0..MaxFaults BY DEF TypeOK
<1> QED BY <1>1

\* A fault makes room for one more reply of every tier.
LEMMA FaultStep ==
    ASSUME TypeOK, PlaceOK', TiersTold, UNCHANGED replies, faults' = faults + 1
    PROVE  TiersTold'
<1>1. ASSUME NEW c \in Ids, NEW k \in Tiers
      PROVE  replies'[c][k] <= faults' /\ replies'[c][k] <= 1 + faults'
  <2>1. replies[c][k] \in Nat BY DEF TypeOK
  <2>2. faults \in Nat BY FaultsNat
  <2>3. replies[c][k] <= 1 + faults BY DEF TiersTold, RepliesRepeatOnFaults
  <2> QED BY <2>1, <2>2, <2>3
<1>2. pc' \in {"reply", "store"} => cur' \in Ids BY DEF PlaceOK
<1> QED BY <1>1, <1>2 DEF TiersTold, RepliesRepeatOnFaults

\* A step that tells and stores nothing and starts no loop.
LEMMA QuietStep ==
    ASSUME TypeOK, TiersTold, UNCHANGED <<miles, faults>>,
           UNCHANGED scan \/ (pc # "store" /\ pc' \notin {"reply", "store"})
    PROVE  TiersTold'
<1>1. UNCHANGED <<announced, replies, faults>> BY DEF miles
<1>2. CASE UNCHANGED scan
  BY <1>1, <1>2 DEF TiersTold, RepliesRepeatOnFaults, scan, pass
<1>3. CASE pc # "store" /\ pc' \notin {"reply", "store"}
  BY <1>1, <1>3 DEF TiersTold, RepliesRepeatOnFaults
<1> QED BY <1>2, <1>3

LEMMA CrossStep ==
    ASSUME TypeOK, PlaceOK, TiersTold, NEW l \in Tiers, Cross(l)
    PROVE  TiersTold'
<1>1. /\ pc = "milestones" /\ pc' = "reply" /\ cur' = cur /\ cur \in Ids
      /\ tier' = announced[cur] + 1
      /\ UNCHANGED <<announced, replies, faults>>
  BY DEF Cross, PlaceOK, miles
<1>2. ASSUME NEW k \in Tiers, k >= tier' PROVE replies[cur][k] <= faults
  <2>1. announced[cur] \in 0..MaxTier BY <1>1 DEF TypeOK
  <2>2. k > announced[cur] BY <1>1, <1>2, <2>1 DEF Tiers
  <2> QED BY <1>1, <2>2 DEF TiersTold
<1> QED BY <1>1, <1>2 DEF TiersTold, RepliesRepeatOnFaults

LEMMA ReplyStep ==
    ASSUME TypeOK, PlaceOK, TiersTold, Reply
    PROVE  TiersTold'
<1>1. /\ pc = "reply" /\ pc' = "store" /\ UNCHANGED <<pass, announced, faults>>
      /\ cur \in Ids /\ tier \in Tiers
  BY DEF Reply, Goto, PlaceOK
<1>2. UNCHANGED <<cur, tier, level>> BY <1>1 DEF pass
<1>3. ASSUME NEW c \in Ids, NEW k \in Tiers, c # cur \/ k # tier
      PROVE  replies'[c][k] = replies[c][k]
  <2>1. replies[cur] \in [Tiers -> Nat] BY <1>1 DEF TypeOK
  <2>2. replies \in [Ids -> [Tiers -> Nat]] BY DEF TypeOK
  <2> QED BY <1>1, <1>3, <2>1, <2>2 DEF Reply
<1>4. replies'[cur][tier] <= 1 + faults
  <2>1. replies[cur] \in [Tiers -> Nat] BY <1>1 DEF TypeOK
  <2>2. replies \in [Ids -> [Tiers -> Nat]] BY DEF TypeOK
  <2>3. \/ replies'[cur][tier] = replies[cur][tier]
        \/ replies'[cur][tier] = replies[cur][tier] + 1
    BY <1>1, <2>1, <2>2 DEF Reply
  <2>4. faults \in Nat BY FaultsNat
  <2>5. replies[cur][tier] <= faults BY <1>1 DEF TiersTold, Tiers
  <2>6. replies[cur][tier] \in Nat BY <1>1, <2>1
  <2> QED BY <2>3, <2>4, <2>5, <2>6
<1>5. \A c \in Ids, k \in Tiers :
          k > announced[c] => \/ replies'[c][k] <= faults
                              \/ c = cur /\ k = tier
  BY <1>1, <1>3 DEF TiersTold
<1>6. \A k \in Tiers : k > tier => replies'[cur][k] <= faults
  BY <1>1, <1>3 DEF TiersTold, Tiers
<1>7. \A c \in Ids, k \in Tiers : replies'[c][k] <= 1 + faults
  BY <1>3, <1>4 DEF TiersTold, RepliesRepeatOnFaults
<1> QED BY <1>1, <1>2, <1>5, <1>6, <1>7 DEF TiersTold, RepliesRepeatOnFaults

\* A reply that was delivered and counts as failed is a fault as well.
LEMMA LostReplyStep ==
    ASSUME TypeOK, PlaceOK, TiersTold, ReplyTimesOut
    PROVE  TiersTold'
<1>1. /\ pc = "reply" /\ pc' = "ladder" /\ cur \in Ids /\ tier \in Tiers
      /\ faults' = faults + 1
  BY DEF ReplyTimesOut, Goto, PlaceOK
<1>2. replies \in [Ids -> [Tiers -> Nat]] /\ replies[cur] \in [Tiers -> Nat]
  BY <1>1 DEF TypeOK
<1>3. faults \in Nat BY FaultsNat
<1>4. ASSUME NEW c \in Ids, NEW k \in Tiers
      PROVE  replies'[c][k] <= faults' /\ replies'[c][k] <= 1 + faults'
  <2>1. CASE c = cur /\ k = tier
    <3>1. replies[cur][tier] <= faults BY <1>1 DEF TiersTold, Tiers
    <3>2. replies'[cur][tier] = replies[cur][tier] + 1
      BY <1>1, <1>2 DEF ReplyTimesOut
    <3>3. replies[cur][tier] \in Nat BY <1>1, <1>2
    <3> QED BY <1>1, <1>3, <2>1, <3>1, <3>2, <3>3
  <2>2. CASE c # cur \/ k # tier
    <3>1. replies'[c][k] = replies[c][k] BY <1>1, <1>2, <2>2 DEF ReplyTimesOut
    <3>2. replies[c][k] <= 1 + faults BY DEF TiersTold, RepliesRepeatOnFaults
    <3>3. replies[c][k] \in Nat BY DEF TypeOK
    <3> QED BY <1>1, <1>3, <3>1, <3>2, <3>3
  <2> QED BY <2>1, <2>2
<1> QED BY <1>1, <1>4 DEF TiersTold, RepliesRepeatOnFaults

LEMMA StoreStep ==
    ASSUME TypeOK, PlaceOK, TiersTold, Store
    PROVE  TiersTold'
<1>1. /\ pc = "store" /\ cur' = cur /\ cur \in Ids /\ tier \in Tiers
      /\ UNCHANGED <<replies, faults>>
      /\ announced' = [announced EXCEPT ![cur] = tier]
      /\ (pc' = "reply" /\ tier' = tier + 1) \/ pc' = "ladder"
  BY DEF Store, NextTier, PlaceOK
<1>2. ASSUME NEW c \in Ids, NEW k \in Tiers, k > announced'[c]
      PROVE  replies[c][k] <= faults
  <2>1. announced \in [Ids -> 0..MaxTier] BY DEF TypeOK
  <2>2. CASE c = cur
    <3>1. announced'[c] = tier BY <1>1, <2>1, <2>2
    <3> QED BY <1>1, <1>2, <2>2, <3>1 DEF TiersTold
  <2>3. CASE c # cur
    <3>1. announced'[c] = announced[c] BY <1>1, <2>1, <2>3
    <3> QED BY <1>2, <2>3, <3>1 DEF TiersTold
  <2> QED BY <2>2, <2>3
<1>3. ASSUME NEW k \in Tiers, pc' = "reply", k >= tier'
      PROVE  replies[cur][k] <= faults
  <2>1. k > tier BY <1>1, <1>3 DEF Tiers
  <2> QED BY <1>1, <2>1 DEF TiersTold
<1> QED BY <1>1, <1>2, <1>3 DEF TiersTold, RepliesRepeatOnFaults

LEMMA TiersStep ==
    TypeOK /\ PlaceOK /\ PlaceOK' /\ TiersTold /\ Next => TiersTold'
<1> SUFFICES ASSUME TypeOK, PlaceOK, PlaceOK', TiersTold, Next PROVE TiersTold'
  OBVIOUS
<1> USE DEF Goto
<1>1. CASE TokenStep
  <2>1. /\ UNCHANGED <<miles, faults>>
        /\ UNCHANGED scan \/ (pc # "store" /\ pc' \notin {"reply", "store"})
    BY <1>1 DEF TokenStep, ProcessToken, LeaveToken, Promote, PromoteSent,
                PromoteInsert, PromoteCall, Update, UpdateDone, Rebound,
                ReboundDone, AutoFail, Watch
  <2> QED BY <2>1, QuietStep
<1>2. CASE PassStep
  <2>1. ASSUME NEW l \in Tiers, Cross(l) PROVE TiersTold'
    BY <2>1, CrossStep
  <2>2. ASSUME NEW l \in Tiers, CrossUnread(l) PROVE TiersTold'
    BY <2>2, FaultStep DEF CrossUnread, miles
  <2>3. CASE Reply BY <2>3, ReplyStep
  <2>4. CASE Store BY <2>4, StoreStep
  <2>5. CASE StoreFails BY <2>5, FaultStep DEF StoreFails, miles
  <2>6. CASE ListCalls \/ CrossNothing \/ ReplyFails \/ Hold \/ Settle
             \/ DemoteOrphaned
    <3>1. UNCHANGED <<miles, faults>> /\ pc # "store" /\ pc' \notin {"reply", "store"}
      BY <2>6 DEF ListCalls, CrossNothing, ReplyFails, Hold, Settle, EndPass,
                  DemoteOrphaned
    <3> QED BY <3>1, QuietStep
  <2>7. CASE ReplyTimesOut BY <2>7, LostReplyStep
  <2> QED BY <1>2, <2>1, <2>2, <2>3, <2>4, <2>5, <2>6, <2>7 DEF PassStep
<1>3. CASE OtherStep
  <2>1. CASE Crash BY <2>1, FaultStep DEF Crash, miles
  <2>2. CASE ~Crash
    <3>1. UNCHANGED <<miles, faults>> /\ UNCHANGED scan
      BY <1>3, <2>2 DEF OtherStep, ManualCall, OperatorClose, Expire,
              RefreshBegin, RefreshRead, RefreshWrite, RefreshFails
    <3> QED BY <3>1, QuietStep
  <2> QED BY <2>1, <2>2
<1>4. ASSUME NEW c \in Ids, CardTask(c) PROVE TiersTold'
  <2>1. UNCHANGED <<miles, faults>> /\ UNCHANGED scan
    BY <1>4 DEF CardTask, OutcomeRead, OutcomeWrite, OutcomeFails, CardRead,
              CardSent, CardInsert, CardEdit, CardFails
  <2> QED BY <2>1, QuietStep
<1> QED BY <1>1, <1>2, <1>3, <1>4, NextByParty

-----------------------------------------------------------------------------
(* What is held over an await.                                             *)

LEMMA RowsStay == Next /\ row # "none" => row' # "none"
<1> SUFFICES ASSUME Next, row # "none" PROVE row' # "none"
  OBVIOUS
<1> USE DEF card
<1>1. CASE TokenStep
  BY <1>1 DEF TokenStep, ProcessToken, LeaveToken, Promote, PromoteSent,
              PromoteInsert, PromoteCall, Update, UpdateDone, Rebound,
              ReboundDone, AutoFail, Watch
<1>2. CASE PassStep
  BY <1>2 DEF PassStep, ListCalls, Cross, CrossUnread, CrossNothing, Reply,
              ReplyFails, ReplyTimesOut, Store, StoreFails, Hold, Settle,
              DemoteOrphaned
<1>3. CASE OtherStep
  BY <1>3 DEF OtherStep, ManualCall, OperatorClose, Expire, RefreshBegin,
              RefreshRead, RefreshWrite, RefreshFails, Crash
<1>4. ASSUME NEW c \in Ids, CardTask(c) PROVE row' # "none"
  BY <1>4 DEF CardTask, OutcomeRead, OutcomeWrite, OutcomeFails, CardRead,
              CardSent, CardInsert, CardEdit, CardFails
<1> QED BY <1>1, <1>2, <1>3, <1>4, NextByParty

\* With no row at hand nobody starts to hold one.
LEMMA HeldStep == TypeOK /\ RowHeld /\ Next => RowHeld'
<1> SUFFICES ASSUME TypeArrays, RowHeld, Next, row' = "none" PROVE RowHeld'
  BY TypeParts DEF RowHeld
<1>1. row = "none" BY RowsStay
<1>2. /\ pc \notin {"live", "past", "keep", "demote", "rebound"}
      /\ refresh \notin {"render open", "render closed"}
      /\ \A c \in Ids : outcome[c] # "render" /\ manual[c] # "edit"
  BY <1>1 DEF RowHeld
<1> SUFFICES /\ pc' \notin {"live", "past", "keep", "demote", "rebound"}
             /\ refresh' \notin {"render open", "render closed"}
             /\ \A c \in Ids : outcome'[c] # "render" /\ manual'[c] # "edit"
  BY DEF RowHeld
<1> USE DEF TypeArrays, card, scan, pass, tasks, Goto
<1>3. CASE TokenStep
  <2>1. CASE AutoFail
    BY <1>2, <2>1 DEF AutoFail, CloseAndAnnounce
  <2>2. CASE ~AutoFail
    BY <1>1, <1>2, <1>3, <2>2
       DEF TokenStep, ProcessToken, LeaveToken, Promote, PromoteSent,
           PromoteInsert, PromoteCall, Update, UpdateDone, Rebound,
           ReboundDone, Watch
  <2> QED BY <2>1, <2>2
<1>4. CASE PassStep
  <2>1. CASE Settle
    BY <1>2, <2>1 DEF Settle, CloseAndAnnounce, EndPass
  <2>2. CASE ~Settle
    BY <1>2, <1>4, <2>2
       DEF PassStep, ListCalls, Cross, CrossUnread, CrossNothing, Reply,
           ReplyFails, ReplyTimesOut, Store, StoreFails, NextTier, Hold,
           EndPass, DemoteOrphaned
  <2> QED BY <2>1, <2>2
<1>5. CASE OtherStep
  <2>1. CASE ManualCall BY <1>2, <2>1 DEF ManualCall
  <2>2. CASE OperatorClose BY <1>2, <2>2 DEF OperatorClose, CloseAndAnnounce
  <2>3. CASE Crash BY <2>3 DEF Crash
  <2>4. CASE Expire \/ RefreshBegin \/ RefreshRead \/ RefreshWrite \/ RefreshFails
    BY <1>1, <1>2, <2>4
       DEF Expire, RefreshBegin, RefreshRead, RefreshWrite, RefreshFails
  <2> QED BY <1>5, <2>1, <2>2, <2>3, <2>4 DEF OtherStep
<1>6. ASSUME NEW c \in Ids, CardTask(c)
      PROVE  /\ pc' \notin {"live", "past", "keep", "demote", "rebound"}
             /\ refresh' \notin {"render open", "render closed"}
             /\ \A d \in Ids : outcome'[d] # "render" /\ manual'[d] # "edit"
  <2>1. CASE OutcomeRead(c) BY <1>1, <1>2, <2>1 DEF OutcomeRead
  <2>2. CASE CardRead(c) BY <1>1, <1>2, <2>2 DEF CardRead
  <2>3. CASE CardSent(c) \/ CardInsert(c) \/ CardFails(c)
    BY <1>2, <2>3 DEF CardSent, CardInsert, CardFails
  <2>4. CASE OutcomeWrite(c) \/ OutcomeFails(c) \/ CardEdit(c)
    BY <1>2, <2>4 DEF OutcomeWrite, OutcomeFails, CardEdit
  <2> QED BY <1>6, <2>1, <2>2, <2>3, <2>4 DEF CardTask
<1> QED BY <1>3, <1>4, <1>5, <1>6, NextByParty

LEMMA CurMoves == Next => cur' \in {cur, rows, 0}
<1> SUFFICES ASSUME Next PROVE cur' \in {cur, rows, 0}
  OBVIOUS
<1> USE DEF scan, pass, Goto
<1>1. CASE TokenStep
  BY <1>1 DEF TokenStep, ProcessToken, LeaveToken, Promote, PromoteSent,
              PromoteInsert, PromoteCall, Update, UpdateDone, Rebound,
              ReboundDone, AutoFail, Watch
<1>2. CASE PassStep
  BY <1>2 DEF PassStep, ListCalls, Cross, CrossUnread, CrossNothing, Reply,
              ReplyFails, ReplyTimesOut, Store, StoreFails, NextTier, Hold,
              Settle, EndPass, DemoteOrphaned
<1>3. CASE OtherStep
  BY <1>3 DEF OtherStep, ManualCall, OperatorClose, Expire, RefreshBegin,
              RefreshRead, RefreshWrite, RefreshFails, Crash
<1>4. ASSUME NEW c \in Ids, CardTask(c) PROVE cur' = cur
  BY <1>4 DEF CardTask, OutcomeRead, OutcomeWrite, OutcomeFails, CardRead,
              CardSent, CardInsert, CardEdit, CardFails
<1> QED BY <1>1, <1>2, <1>3, <1>4, NextByParty

LEMMA CurStep == TypeOK /\ CurKnown /\ Next => CurKnown'
<1> SUFFICES ASSUME TypeOK, CurKnown, Next PROVE cur' <= rows'
  BY DEF CurKnown
<1>1. rows \in 0..MaxCalls /\ cur \in 0..MaxCalls BY DEF TypeOK
<1>2. rows' = rows + 1 \/ rows' = rows
  BY CallMoves DEF OpenCall, CloseAndAnnounce, Expire
<1>3. cur <= rows BY DEF CurKnown
<1> QED BY <1>1, <1>2, <1>3, CurMoves

-----------------------------------------------------------------------------
LEMMA StutterStep == IInv /\ UNCHANGED vars => IInv'
<1> SUFFICES ASSUME IInv, UNCHANGED vars PROVE IInv'
  OBVIOUS
<1> USE DEF IInv, vars, calls, card, miles, scan, pass, tasks
<1>1. TypeOK'
  <2>1. TypeArrays /\ TypeScan /\ TypeRest BY TypeParts
  <2>2. TypeArrays' BY <2>1 DEF TypeArrays
  <2>3. TypeScan' BY <2>1 DEF TypeScan
  <2>4. TypeRest' BY <2>1 DEF TypeRest, Row
  <2> QED BY <2>2, <2>3, <2>4 DEF TypeOK, TypeArrays, TypeScan, TypeRest
<1>2. PlaceOK' BY DEF PlaceOK
<1>3. NoCall' /\ CardFirst' BY DEF NoCall, CardFirst
<1>4. NoVerdictInHand' BY DEF NoVerdictInHand
<1>5. TiersTold' BY DEF TiersTold, RepliesRepeatOnFaults
<1>6. RowHeld' /\ CurKnown' BY DEF RowHeld, CurKnown
<1> QED BY <1>1, <1>2, <1>3, <1>4, <1>5, <1>6

LEMMA InvariantStep == IInv /\ [Next]_vars => IInv'
<1> SUFFICES ASSUME IInv, Next PROVE IInv'
  BY StutterStep
<1>1. TypeOK' BY TypeStep DEF IInv
<1>2. PlaceOK' BY PlaceStep DEF IInv
<1>3. NoCall' BY CallsStep DEF IInv
<1>4. CardFirst' BY CardFirstStep DEF IInv
<1>5. NoVerdictInHand' BY VerdictStep DEF IInv
<1>6. TiersTold' BY <1>2, TiersStep DEF IInv
<1>7. RowHeld' /\ CurKnown' BY HeldStep, CurStep DEF IInv
<1> QED BY <1>1, <1>2, <1>3, <1>4, <1>5, <1>6, <1>7 DEF IInv

\* IInv is an invariant of every behaviour.
THEOREM Invariant == Spec => []IInv
<1>1. Init => IInv BY InitIInv
<1>2. IInv /\ [Next]_vars => IInv' BY InvariantStep
<1> QED BY <1>1, <1>2, PTL DEF Spec

\* Every variable keeps its type, over any number of calls, tiers and faults.
THEOREM TypeCorrect == Spec => []TypeOK
<1>1. IInv => TypeOK BY DEF IInv
<1> QED BY <1>1, Invariant, PTL

\* settle_calls and fire_call_milestone tell a tier at most once, and once more
\* for each crash, failed read, failed write or reply that was delivered and
\* reported as failed: peak_announced_pct is enough.
THEOREM RepliesBounded == Spec => []RepliesRepeatOnFaults
<1>1. IInv => RepliesRepeatOnFaults BY DEF IInv, TiersTold
<1> QED BY <1>1, Invariant, PTL

\* promote_alert writes the delivery row before it inserts the call, and no row
\* is ever deleted: an auto-call has a card, crashes included.
THEOREM CardsBeforeCalls == Spec => []AutoCallsHaveCards
<1>1. IInv => AutoCallsHaveCards BY DEF IInv, CardFirst, AutoCallsHaveCards
<1> QED BY <1>1, Invariant, PTL

\* Whichever tasks hold a card over their awaits, a verdict on the first call
\* of a mint is shown only after that call is closed.
THEOREM VerdictAfterClose == Spec => []NoEarlyVerdict
<1>1. IInv => NoEarlyVerdict BY DEF IInv, NoVerdictInHand, NoEarlyVerdict
<1> QED BY <1>1, Invariant, PTL

-----------------------------------------------------------------------------
(* CallCards implements CallBoard.                                         *)

BoardStutter == UNCHANGED <<rows, call, auto, row, shown, replies, faults>>

LEMMA InitBoard == Init => Board!Init
BY DEF Init, Board!Init, Ids, Tiers, Board!Ids, Board!Tiers

\* A closed call keeps the rows.
LEMMA CloseBoard ==
    CloseAndAnnounce /\ UNCHANGED <<row, shown, replies, faults>> => Board!Close
BY DEF CloseAndAnnounce, Board!Close

\* A verdict in some hand means that a call has closed.
LEMMA VerdictHeld ==
    ASSUME TypeOK, NoCall, NoVerdictInHand,
           refresh = "render closed" \/ \E c \in Ids : outcome[c] # "idle"
    PROVE  ~Board!FirstCallOpen
<1>1. rows = 0 => call = "none" BY DEF NoCall
<1> QED BY <1>1 DEF NoVerdictInHand, Board!FirstCallOpen

LEMMA TokenBoard == IInv /\ TokenStep => Board!Next \/ BoardStutter
<1> SUFFICES ASSUME IInv, TokenStep PROVE Board!Next \/ BoardStutter
  OBVIOUS
<1> USE DEF calls, card, miles, tasks, Goto
<1>1. CASE ProcessToken \/ Promote \/ Update \/ Rebound \/ Watch
  BY <1>1 DEF ProcessToken, Promote, Update, Rebound, Watch, BoardStutter
<1>8. CASE LeaveToken
  <2>1. CASE shown' = shown BY <1>8, <2>1 DEF LeaveToken, BoardStutter
  <2>2. CASE shown' = "open"
    <3>1. Board!Post BY <1>8, <2>2 DEF LeaveToken, Board!Post
    <3> QED BY <3>1 DEF Board!Next
  <2> QED BY <1>8, <2>1, <2>2 DEF LeaveToken
<1>2. CASE PromoteSent
  <2>1. Board!Post BY <1>2 DEF PromoteSent, Board!Post
  <2> QED BY <2>1 DEF Board!Next
<1>3. CASE PromoteInsert
  <2>1. CASE row = "none"
    <3>1. Board!Insert BY <1>3, <2>1 DEF PromoteInsert, Board!Insert
    <3> QED BY <3>1 DEF Board!Next
  <2>2. CASE row # "none" BY <1>3, <2>2 DEF PromoteInsert, BoardStutter
  <2> QED BY <2>1, <2>2
<1>4. CASE PromoteCall
  <2>1. row # "none" BY <1>4 DEF PromoteCall, IInv, CardFirst
  <2>2. CASE OpenCall /\ auto' = TRUE
    <3>1. Board!Open BY <1>4, <2>1, <2>2 DEF PromoteCall, OpenCall, Board!Open
    <3> QED BY <3>1 DEF Board!Next
  <2>3. CASE UNCHANGED calls BY <1>4, <2>3 DEF PromoteCall, BoardStutter
  <2> QED BY <1>4, <2>2, <2>3 DEF PromoteCall
<1>5. CASE UpdateDone
  <2>1. row # "none" BY <1>5 DEF UpdateDone, IInv, RowHeld
  <2>2. Board!Rank BY <1>5, <2>1 DEF UpdateDone, Board!Rank
  <2> QED BY <2>2 DEF Board!Next
<1>6. CASE ReboundDone
  <2>1. row # "none" BY <1>6 DEF ReboundDone, IInv, RowHeld
  <2>2. Board!Edit BY <1>6, <2>1 DEF ReboundDone, Board!Edit
  <2> QED BY <2>2 DEF Board!Next
<1>7. CASE AutoFail
  <2>1. Board!Close BY <1>7, CloseBoard DEF AutoFail
  <2> QED BY <2>1 DEF Board!Next
<1> QED BY <1>1, <1>2, <1>3, <1>4, <1>5, <1>6, <1>7, <1>8 DEF TokenStep

\* The reply of the loop over the tiers, under a card or without one.
LEMMA ReplyBoard == IInv /\ Reply => Board!Next \/ BoardStutter
<1> SUFFICES ASSUME IInv, Reply PROVE Board!Next \/ BoardStutter
  OBVIOUS
<1>1. cur \in Ids /\ tier \in Tiers BY DEF Reply, IInv, PlaceOK
<1>2. replies \in [Ids -> [Tiers -> Nat]] BY DEF IInv, TypeOK
<1>3. replies[cur] \in [Tiers -> Nat] BY <1>1, <1>2
<1>4. UNCHANGED <<rows, call, auto, row, shown, faults>>
  BY DEF Reply, calls, card
<1>5. CASE row = "none"
  <2>1. replies' = [replies EXCEPT ![cur][tier] = replies[cur][tier]]
    BY <1>5 DEF Reply
  <2>2. replies' = replies BY <1>1, <1>2, <1>3, <2>1
  <2> QED BY <1>4, <2>2 DEF BoardStutter
<1>6. CASE row # "none"
  <2>1. replies[cur][tier] <= faults
    BY <1>1 DEF Reply, IInv, TiersTold, Tiers
  <2>2. replies' = [replies EXCEPT ![cur][tier] = @ + 1]
    BY <1>6 DEF Reply
  <2>3. Board!Tell(cur, tier)
    BY <1>4, <1>6, <2>1, <2>2 DEF Board!Tell, IInv, CurKnown
  <2>4. cur \in Board!Ids /\ tier \in Board!Tiers
    BY <1>1 DEF Ids, Tiers, Board!Ids, Board!Tiers
  <2> QED BY <2>3, <2>4 DEF Board!Next
<1> QED BY <1>5, <1>6

\* The reply that timed out after it was delivered.
LEMMA LostReplyBoard == IInv /\ ReplyTimesOut => Board!Next
<1> SUFFICES ASSUME IInv, ReplyTimesOut PROVE Board!Next
  OBVIOUS
<1>1. cur \in Ids /\ tier \in Tiers BY DEF ReplyTimesOut, IInv, PlaceOK
<1>2. UNCHANGED <<rows, call, auto, row, shown>>
  BY DEF ReplyTimesOut, calls, card
<1>3. replies[cur][tier] <= faults
  BY <1>1 DEF ReplyTimesOut, IInv, TiersTold, Tiers
<1>4. Board!TellLost(cur, tier)
  BY <1>2, <1>3 DEF ReplyTimesOut, Board!TellLost, IInv, CurKnown
<1>5. cur \in Board!Ids /\ tier \in Board!Tiers
  BY <1>1 DEF Ids, Tiers, Board!Ids, Board!Tiers
<1> QED BY <1>4, <1>5 DEF Board!Next

LEMMA PassBoard == IInv /\ PassStep => Board!Next \/ BoardStutter
<1> SUFFICES ASSUME IInv, PassStep PROVE Board!Next \/ BoardStutter
  OBVIOUS
<1> USE DEF calls, card, miles
<1>1. CASE ListCalls \/ CrossNothing \/ ReplyFails \/ Store \/ Hold
  BY <1>1 DEF ListCalls, CrossNothing, ReplyFails, Store, Hold, BoardStutter
<1>2. ASSUME NEW l \in Tiers, Cross(l) PROVE BoardStutter
  BY <1>2 DEF Cross, BoardStutter
<1>3. ASSUME NEW l \in Tiers, CrossUnread(l) PROVE Board!Next
  <2>1. Board!Fault BY <1>3 DEF CrossUnread, Board!Fault
  <2> QED BY <2>1 DEF Board!Next
<1>4. CASE StoreFails
  <2>1. Board!Fault BY <1>4 DEF StoreFails, Board!Fault
  <2> QED BY <2>1 DEF Board!Next
<1>5. CASE Settle
  <2>1. Board!Close BY <1>5, CloseBoard DEF Settle
  <2> QED BY <2>1 DEF Board!Next
<1>6. CASE DemoteOrphaned
  <2>1. CASE row = "none" BY <1>6, <2>1 DEF DemoteOrphaned, BoardStutter
  <2>2. CASE row = "active"
    <3>1. Board!Rank BY <1>6, <2>2 DEF DemoteOrphaned, Board!Rank
    <3> QED BY <3>1 DEF Board!Next
  <2>3. CASE row # "active" BY <1>6, <2>3 DEF DemoteOrphaned, BoardStutter
  <2> QED BY <2>2, <2>3
<1> QED BY <1>1, <1>2, <1>3, <1>4, <1>5, <1>6, ReplyBoard, LostReplyBoard
       DEF PassStep

LEMMA OtherBoard == IInv /\ OtherStep => Board!Next \/ BoardStutter
<1> SUFFICES ASSUME IInv, OtherStep PROVE Board!Next \/ BoardStutter
  OBVIOUS
<1> USE DEF calls, card, miles
<1>1. CASE RefreshBegin \/ RefreshRead
  BY <1>1 DEF RefreshBegin, RefreshRead, BoardStutter
<1>7. CASE RefreshFails
  <2>1. row # "none" BY <1>7 DEF RefreshFails, IInv, RowHeld
  <2>2. CASE shown' = shown BY <1>7, <2>2 DEF RefreshFails, BoardStutter
  <2>3. CASE refresh = "render open" /\ shown' = "open"
    <3>1. Board!Post BY <1>7, <2>3 DEF RefreshFails, Board!Post
    <3> QED BY <3>1 DEF Board!Next
  <2>4. CASE refresh = "render closed" /\ shown' = "verdict"
    <3>1. ~Board!FirstCallOpen BY <2>4, VerdictHeld DEF IInv
    <3>2. Board!Verdict BY <1>7, <2>1, <2>4, <3>1 DEF RefreshFails, Board!Verdict
    <3> QED BY <3>2 DEF Board!Next
  <2> QED BY <1>7, <2>2, <2>3, <2>4 DEF RefreshFails
<1>2. CASE ManualCall
  <2>1. auto' = auto /\ (auto => row # "none")
    BY <1>2 DEF ManualCall, IInv, CardFirst
  <2>2. Board!Open BY <1>2, <2>1 DEF ManualCall, OpenCall, Board!Open
  <2> QED BY <2>2 DEF Board!Next
<1>3. CASE OperatorClose
  <2>1. Board!Close BY <1>3, CloseBoard DEF OperatorClose
  <2> QED BY <2>1 DEF Board!Next
<1>4. CASE Expire
  <2>1. Board!Close BY <1>4 DEF Expire, Board!Close
  <2> QED BY <2>1 DEF Board!Next
<1>5. CASE RefreshWrite
  <2>1. row # "none" BY <1>5 DEF RefreshWrite, IInv, RowHeld
  <2>2. CASE refresh = "render open"
    <3>1. Board!Edit BY <1>5, <2>1, <2>2 DEF RefreshWrite, Board!Edit
    <3> QED BY <3>1 DEF Board!Next
  <2>3. CASE refresh = "render closed"
    <3>1. ~Board!FirstCallOpen BY <2>3, VerdictHeld DEF IInv
    <3>2. Board!Verdict
      BY <1>5, <2>1, <2>3, <3>1 DEF RefreshWrite, Board!Verdict
    <3> QED BY <3>2 DEF Board!Next
  <2> QED BY <1>5, <2>2, <2>3 DEF RefreshWrite
<1>6. CASE Crash
  <2>1. Board!Fault BY <1>6 DEF Crash, Board!Fault
  <2> QED BY <2>1 DEF Board!Next
<1> QED BY <1>1, <1>2, <1>3, <1>4, <1>5, <1>6, <1>7 DEF OtherStep

LEMMA CardBoard ==
    ASSUME IInv, NEW c \in Ids, CardTask(c)
    PROVE  Board!Next \/ BoardStutter
<1> USE DEF calls, card, miles
<1>1. CASE OutcomeRead(c) \/ CardRead(c)
  BY <1>1 DEF OutcomeRead, CardRead, BoardStutter
<1>6. CASE OutcomeFails(c)
  <2>1. row # "none" BY <1>6 DEF OutcomeFails, IInv, RowHeld
  <2>2. outcome[c] # "idle" BY <1>6 DEF OutcomeFails
  <2>3. ~Board!FirstCallOpen BY <2>2, VerdictHeld DEF IInv
  <2>4. CASE shown' = shown BY <1>6, <2>4 DEF OutcomeFails, BoardStutter
  <2>5. CASE shown' = "verdict"
    <3>1. Board!Verdict BY <1>6, <2>1, <2>3, <2>5 DEF OutcomeFails, Board!Verdict
    <3> QED BY <3>1 DEF Board!Next
  <2> QED BY <1>6, <2>4, <2>5 DEF OutcomeFails
<1>7. CASE CardFails(c)
  <2>1. CASE shown' = shown BY <1>7, <2>1 DEF CardFails, BoardStutter
  <2>2. CASE shown' = "open"
    <3>1. Board!Post BY <1>7, <2>2 DEF CardFails, Board!Post
    <3> QED BY <3>1 DEF Board!Next
  <2> QED BY <1>7, <2>1, <2>2 DEF CardFails
<1>2. CASE OutcomeWrite(c)
  <2>1. row # "none" BY <1>2 DEF OutcomeWrite, IInv, RowHeld
  <2>2. outcome[c] # "idle" BY <1>2 DEF OutcomeWrite
  <2>3. ~Board!FirstCallOpen BY <2>2, VerdictHeld DEF IInv
  <2>4. Board!Verdict BY <1>2, <2>1, <2>3 DEF OutcomeWrite, Board!Verdict
  <2> QED BY <2>4 DEF Board!Next
<1>3. CASE CardSent(c)
  <2>1. Board!Post BY <1>3 DEF CardSent, Board!Post
  <2> QED BY <2>1 DEF Board!Next
<1>4. CASE CardInsert(c)
  <2>1. CASE row = "none"
    <3>1. Board!Insert BY <1>4, <2>1 DEF CardInsert, Board!Insert
    <3> QED BY <3>1 DEF Board!Next
  <2>2. CASE row # "none" BY <1>4, <2>2 DEF CardInsert, BoardStutter
  <2> QED BY <2>1, <2>2
<1>5. CASE CardEdit(c)
  <2>1. row # "none" BY <1>5 DEF CardEdit, IInv, RowHeld
  <2>2. Board!Edit BY <1>5, <2>1 DEF CardEdit, Board!Edit
  <2> QED BY <2>2 DEF Board!Next
<1> QED BY <1>1, <1>2, <1>3, <1>4, <1>5, <1>6, <1>7 DEF CardTask

LEMMA BoardStep == IInv /\ [Next]_vars => [Board!Next]_(Board!vars)
<1> SUFFICES ASSUME IInv, [Next]_vars
             PROVE  Board!Next \/ UNCHANGED Board!vars
  OBVIOUS
<1>1. BoardStutter => UNCHANGED Board!vars BY DEF BoardStutter, Board!vars
<1>2. CASE UNCHANGED vars
  <2>1. BoardStutter BY <1>2 DEF vars, calls, card, miles, BoardStutter
  <2> QED BY <1>1, <2>1
<1>3. CASE Next
  <2>1. Board!Next \/ BoardStutter
    BY <1>3, NextByParty, TokenBoard, PassBoard, OtherBoard, CardBoard
  <2> QED BY <1>1, <2>1
<1> QED BY <1>2, <1>3

\* The scanner, the tasks of notifier.rs and the card tools together keep what
\* CallBoard promises: their steps are its steps, or are not seen.
THEOREM BoardIsKept == Spec => ImplementsBoard
<1>1. Init => Board!Init BY InitBoard
<1>2. IInv /\ [Next]_vars => [Board!Next]_(Board!vars) BY BoardStep
<1> QED BY <1>1, <1>2, Invariant, PTL DEF Spec, ImplementsBoard, Board!Spec
=============================================================================
