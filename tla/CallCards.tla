------------------------------- MODULE CallCards -------------------------------
(***************************************************************************)
(* The public card of a mint: its message in the calls channel and the     *)
(* telegram_deliveries row that remembers it, with the tasks that write    *)
(* the two. Every one of them reads the row, awaits the network, and then  *)
(* writes the row back by its id, whatever it has become:                  *)
(*   - the scanner task: process_token (promote, update, rebound), the     *)
(*     milestone replies of settle_calls, and demote_orphaned_deliveries   *)
(*     at the end of a cycle;                                              *)
(*   - a task per closed call (update_call_outcome) and per manual call    *)
(*     (fire_call_card);                                                   *)
(*   - the operator's refresh_card and backfill_cards.                     *)
(* Calls, their buys and their sells are CallTrading's part. The lounge    *)
(* mirror and the rendering are left out; an edit and the write of the row *)
(* that follows it without an await are one step. The client gives up on a *)
(* request after ten seconds, so a send or an edit that failed for the     *)
(* code may stand in the channel all the same.                             *)
(***************************************************************************)
EXTENDS Integers, FiniteSets

CONSTANTS
    MaxCalls,    \* bound: calls ever opened on the mint
    MaxTier,     \* MILESTONES, 1..MaxTier in ascending order
    MaxFaults    \* bound: crashes, failed writes and failed reads of a tier, and
                 \* replies that were delivered and reported as failed

ASSUME MaxCallsAssumption == MaxCalls \in Nat \ {0}
ASSUME MaxTierAssumption == MaxTier \in Nat \ {0}
ASSUME MaxFaultsAssumption == MaxFaults \in Nat

Ids   == 1..MaxCalls
Tiers == 1..MaxTier

VARIABLES
    rows, call,        \* calls of the mint, and the status of the latest one
    auto,              \* the scanner has opened a call
    announced,         \* peak_announced_pct of each call, as a tier
    watched,           \* the token is on the active watchlist
    row,               \* status of the delivery row
    shown,             \* what the message in the channel shows
    replies,           \* milestone replies sent, for each call and tier
    pc,                \* scanner: place, with what it has read of the row
    cur, tier, level,  \* scanner: call at hand, next tier, highest tier crossed
    outcome, manual,   \* task of each closed call, of each manual call
    refresh,           \* the refresh_card tool
    faults

calls   == <<rows, call, auto>>
card    == <<row, shown>>
miles   == <<announced, replies>>
pass    == <<cur, tier, level>>
scan    == <<pc, pass>>
tasks   == <<outcome, manual, refresh>>
vars    == <<calls, watched, card, miles, scan, tasks, faults>>

Row == {"none", "active", "demoted", "closed"}

TypeOK ==
    /\ rows \in 0..MaxCalls /\ call \in {"none", "active", "closed"}
    /\ auto \in BOOLEAN
    /\ announced \in [Ids -> 0..MaxTier]
    /\ watched \in BOOLEAN
    /\ row \in Row /\ shown \in {"none", "open", "verdict"}
    /\ replies \in [Ids -> [Tiers -> Nat]]
    /\ pc \in {"tokens", "new", "live", "past", "send", "insert", "call", "keep",
               "demote", "rebound",
               "settle", "milestones", "reply", "store", "ladder", "tail"}
    /\ cur \in 0..MaxCalls /\ tier \in 0..MaxTier /\ level \in 0..MaxTier
    /\ outcome \in [Ids -> {"idle", "fetch", "render"}]
    /\ manual \in [Ids -> {"idle", "fetch", "send", "insert", "edit"}]
    /\ refresh \in {"idle", "open", "closed", "render open", "render closed"}
    /\ faults \in 0..MaxFaults

Init ==
    /\ rows = 0 /\ call = "none" /\ auto = FALSE
    /\ announced = [c \in Ids |-> 0]
    /\ watched = TRUE
    /\ row = "none" /\ shown = "none"
    /\ replies = [c \in Ids |-> [k \in Tiers |-> 0]]
    /\ pc = "tokens"
    /\ cur = 0 /\ tier = 0 /\ level = 0
    /\ outcome = [c \in Ids |-> "idle"] /\ manual = [c \in Ids |-> "idle"]
    /\ refresh = "idle"
    /\ faults = 0

-----------------------------------------------------------------------------
(* Calls as far as a card sees them.                                       *)

\* insert_call
OpenCall ==
    /\ rows < MaxCalls
    /\ call # "active"
    /\ rows' = rows + 1 /\ call' = "active"

\* close_call, fail_call or expire_call, and the task spawned if it changed a
\* row.
CloseAndAnnounce ==
    /\ call = "active"
    /\ call' = "closed"
    /\ outcome' = [outcome EXCEPT ![rows] = "fetch"]
    /\ UNCHANGED <<rows, auto, manual, refresh>>

-----------------------------------------------------------------------------
(* Scanner: process_token, at most once per cycle for the mint.            *)

Goto(place) == pc' = place /\ UNCHANGED pass

\* get_active_delivery, then the await of the metadata.
ProcessToken ==
    /\ pc = "tokens"
    /\ \/ row = "none" /\ Goto("new")
       \/ row = "active" /\ Goto("live")
       \/ row = "demoted" /\ Goto("past")
       \/ row = "closed" /\ Goto("settle")
    /\ UNCHANGED <<calls, watched, card, miles, tasks, faults>>

\* The mint is not analysed in this cycle, or a gate returns early, or a send,
\* an edit or the insert of the row failed; a send or an edit that timed out may
\* have been done.
LeaveToken ==
    /\ pc \in {"tokens", "new", "live", "past", "send", "insert", "rebound"}
    /\ shown' \in {shown} \cup IF pc \in {"send", "rebound"} THEN {"open"} ELSE {}
    /\ Goto("settle")
    /\ UNCHANGED <<calls, watched, row, miles, tasks, faults>>

Promote ==
    /\ pc = "new"
    /\ Goto("send")
    /\ UNCHANGED <<calls, watched, card, miles, tasks, faults>>

PromoteSent ==
    /\ pc = "send"
    /\ shown' = "open"
    /\ Goto("insert")
    /\ UNCHANGED <<calls, watched, row, miles, tasks, faults>>

\* insert_delivery: UNIQUE(token_address, channel). If a card task was faster
\* the promotion ends with its message sent and no call.
PromoteInsert ==
    /\ pc = "insert"
    /\ IF row = "none" THEN row' = "active" /\ Goto("call")
       ELSE Goto("settle") /\ UNCHANGED row
    /\ UNCHANGED <<calls, watched, shown, miles, tasks, faults>>

\* insert_call, after the anchor and the lounge.
PromoteCall ==
    /\ pc = "call"
    /\ \/ OpenCall /\ auto' = TRUE
       \/ (call = "active" \/ rows = MaxCalls) /\ UNCHANGED calls
    /\ Goto("settle")
    /\ UNCHANGED <<watched, card, miles, tasks, faults>>

\* A material change of an active card, or a failed one if no call is active:
\* the lounge edit is awaited before the row is written.
Update ==
    /\ pc = "live"
    /\ \/ Goto("keep")
       \/ call # "active" /\ Goto("demote")
    /\ UNCHANGED <<calls, watched, card, miles, tasks, faults>>

UpdateDone ==
    /\ pc \in {"keep", "demote"}
    /\ row' = IF pc = "keep" THEN "active" ELSE "demoted"
    /\ Goto("settle")
    /\ UNCHANGED <<calls, watched, shown, miles, tasks, faults>>

\* A demoted card that passes the gates again and has no active call.
Rebound ==
    /\ pc = "past"
    /\ call # "active"
    /\ Goto("rebound")
    /\ UNCHANGED <<calls, watched, card, miles, tasks, faults>>

ReboundDone ==
    /\ pc = "rebound"
    /\ shown' = "open" /\ row' = "active"
    /\ Goto("settle")
    /\ UNCHANGED <<calls, watched, miles, tasks, faults>>

\* The UNSAFE auto-fail of phase 1.
AutoFail ==
    /\ pc = "tokens"
    /\ CloseAndAnnounce
    /\ UNCHANGED <<watched, card, miles, scan, faults>>

-----------------------------------------------------------------------------
(* Scanner: settle_calls and the end of the cycle.                         *)

ListCalls ==
    /\ pc = "settle"
    /\ pc' = IF call = "active" THEN "milestones" ELSE "tail"
    /\ cur' = IF call = "active" THEN rows ELSE 0
    /\ UNCHANGED <<calls, watched, card, miles, tier, level, tasks, faults>>

\* Slip: all tiers below the price, told or not.
CrossFromFirst(l) ==
    /\ pc = "milestones"
    /\ announced[cur] < l
    /\ pc' = "reply" /\ tier' = 1 /\ level' = l
    /\ UNCHANGED <<calls, watched, card, miles, cur, tasks, faults>>

\* The price is above every tier up to l; `already` is read once.
Cross(l) ==
    /\ pc = "milestones"
    /\ announced[cur] < l
    /\ pc' = "reply" /\ tier' = announced[cur] + 1 /\ level' = l
    /\ UNCHANGED <<calls, watched, card, miles, cur, tasks, faults>>

\* unwrap_or(0.0): a failed read counts every tier as untold.
CrossUnread(l) ==
    /\ pc = "milestones"
    /\ faults < MaxFaults /\ faults' = faults + 1
    /\ pc' = "reply" /\ tier' = 1 /\ level' = l
    /\ UNCHANGED <<calls, watched, card, miles, cur, tasks>>

CrossNothing ==
    /\ pc = "milestones"
    /\ Goto("ladder")
    /\ UNCHANGED <<calls, watched, card, miles, tasks, faults>>

\* Slip: without a card the milestone is a message of its own.
ReplyUncarded ==
    /\ pc = "reply"
    /\ replies' = [replies EXCEPT ![cur][tier] = @ + 1]
    /\ Goto("store")
    /\ UNCHANGED <<calls, watched, card, announced, tasks, faults>>

\* fire_call_milestone: a reply under the card, or Ok without one.
Reply ==
    /\ pc = "reply"
    /\ replies' = [replies EXCEPT ![cur][tier] = IF row = "none" THEN @ ELSE @ + 1]
    /\ Goto("store")
    /\ UNCHANGED <<calls, watched, card, announced, tasks, faults>>

\* An error breaks the loop: the tier is tried again in a later pass. Here the
\* reply did not reach the channel ...
ReplyFails ==
    /\ pc = "reply"
    /\ Goto("ladder")
    /\ UNCHANGED <<calls, watched, card, miles, tasks, faults>>

\* ... and here it did, but the answer came too late for the client.
ReplyTimesOut ==
    /\ pc = "reply"
    /\ row # "none"
    /\ faults < MaxFaults /\ faults' = faults + 1
    /\ replies' = [replies EXCEPT ![cur][tier] = @ + 1]
    /\ Goto("ladder")
    /\ UNCHANGED <<calls, watched, card, announced, tasks>>

\* The loop over the tiers goes on to the next one, or ends.
NextTier ==
    /\ IF tier < level THEN pc' = "reply" /\ tier' = tier + 1
       ELSE pc' = "ladder" /\ UNCHANGED tier
    /\ UNCHANGED <<cur, level>>

\* set_call_peak_announced, by the id of the call.
Store ==
    /\ pc = "store"
    /\ announced' = [announced EXCEPT ![cur] = tier]
    /\ NextTier
    /\ UNCHANGED <<calls, watched, card, replies, tasks, faults>>

\* The write failed: a warning, and on to the next tier.
StoreFails ==
    /\ pc = "store"
    /\ faults < MaxFaults /\ faults' = faults + 1
    /\ NextTier
    /\ UNCHANGED <<calls, watched, card, miles, tasks>>

EndPass == pc' = "tail" /\ cur' = 0 /\ tier' = 0 /\ level' = 0

Hold ==
    /\ pc = "ladder"
    /\ EndPass
    /\ UNCHANGED <<calls, watched, card, miles, tasks, faults>>

\* Slip: the card task is spawned before the row is flipped.
SettleAnnounceFirst ==
    /\ pc = "ladder"
    /\ outcome' = [outcome EXCEPT ![cur] = "fetch"]
    /\ EndPass
    /\ UNCHANGED <<calls, watched, card, miles, manual, refresh, faults>>

Settle ==
    /\ pc = "ladder"
    /\ CloseAndAnnounce
    /\ EndPass
    /\ UNCHANGED <<watched, card, miles, faults>>

\* Slip: a row whose call was never inserted is taken for a current one.
DemoteOrphanedClosedOnly ==
    /\ pc = "tail"
    /\ row' = IF row = "active" /\ ~watched /\ call = "closed"
              THEN "demoted" ELSE row
    /\ Goto("tokens")
    /\ UNCHANGED <<calls, watched, shown, miles, tasks, faults>>

\* demote_orphaned_deliveries
DemoteOrphaned ==
    /\ pc = "tail"
    /\ row' = IF row = "active" /\ ~watched /\ call # "active"
              THEN "demoted" ELSE row
    /\ Goto("tokens")
    /\ UNCHANGED <<calls, watched, shown, miles, tasks, faults>>

\* The watchlist takes the token on, and drops it unless a call is active.
Watch ==
    /\ watched' \in IF call = "active" THEN {TRUE} ELSE BOOLEAN
    /\ watched' # watched
    /\ UNCHANGED <<calls, card, miles, scan, tasks, faults>>

-----------------------------------------------------------------------------
(* Spawned tasks.                                                          *)

\* update_call_outcome: the row is looked at after the metadata is fetched.
OutcomeRead(c) ==
    /\ outcome[c] = "fetch"
    /\ outcome' = [outcome EXCEPT ![c] = IF row = "active" THEN "render" ELSE "idle"]
    /\ UNCHANGED <<calls, watched, card, miles, scan, manual, refresh, faults>>

\* A win is a reply and closes the row, anything else an edit that demotes it.
OutcomeWrite(c) ==
    /\ outcome[c] = "render"
    /\ outcome' = [outcome EXCEPT ![c] = "idle"]
    /\ shown' = "verdict"
    /\ row' \in {"closed", "demoted"}
    /\ UNCHANGED <<calls, watched, miles, scan, manual, refresh, faults>>

\* The edit failed, or timed out after it was done: the row is not written.
OutcomeFails(c) ==
    /\ outcome[c] = "render"
    /\ outcome' = [outcome EXCEPT ![c] = "idle"]
    /\ shown' \in {shown, "verdict"}
    /\ UNCHANGED <<calls, watched, row, miles, scan, manual, refresh, faults>>

\* fire_call_card: post, edit, or leave a terminal card alone.
CardRead(c) ==
    /\ manual[c] = "fetch"
    /\ manual' = [manual EXCEPT ![c] = IF row = "none" THEN "send"
                                         ELSE IF row = "active" THEN "edit"
                                         ELSE "idle"]
    /\ UNCHANGED <<calls, watched, card, miles, scan, outcome, refresh, faults>>

CardSent(c) ==
    /\ manual[c] = "send"
    /\ manual' = [manual EXCEPT ![c] = "insert"]
    /\ shown' = "open"
    /\ UNCHANGED <<calls, watched, row, miles, scan, outcome, refresh, faults>>

CardInsert(c) ==
    /\ manual[c] = "insert"
    /\ manual' = [manual EXCEPT ![c] = "idle"]
    /\ row' = IF row = "none" THEN "active" ELSE row
    /\ UNCHANGED <<calls, watched, shown, miles, scan, outcome, refresh, faults>>

CardEdit(c) ==
    /\ manual[c] = "edit"
    /\ manual' = [manual EXCEPT ![c] = "idle"]
    /\ shown' = "open" /\ row' = "active"
    /\ UNCHANGED <<calls, watched, miles, scan, outcome, refresh, faults>>

CardFails(c) ==
    /\ manual[c] \in {"send", "insert", "edit"}
    /\ manual' = [manual EXCEPT ![c] = "idle"]
    /\ shown' \in {shown} \cup IF manual[c] = "insert" THEN {} ELSE {"open"}
    /\ UNCHANGED <<calls, watched, row, miles, scan, outcome, refresh, faults>>

-----------------------------------------------------------------------------
(* Operator and publisher.                                                 *)

ManualCall ==
    /\ OpenCall
    /\ manual' = [manual EXCEPT ![rows + 1] = "fetch"]
    /\ UNCHANGED <<auto, watched, card, miles, scan, outcome, refresh, faults>>

OperatorClose ==
    /\ CloseAndAnnounce
    /\ UNCHANGED <<watched, card, miles, scan, faults>>

\* expire_stale_calls tells no card.
Expire ==
    /\ call = "active"
    /\ call' = "closed"
    /\ UNCHANGED <<rows, auto, watched, card, miles, scan, tasks, faults>>

\* refresh_card, or backfill_cards at one of its calls, for a mint that has a
\* call: its status chooses the renderer ...
RefreshBegin ==
    /\ refresh = "idle"
    /\ rows > 0
    /\ refresh' = IF call = "active" THEN "open" ELSE "closed"
    /\ UNCHANGED <<calls, watched, card, miles, scan, outcome, manual, faults>>

\* ... which reads the row, in any status ...
RefreshRead ==
    /\ refresh \in {"open", "closed"}
    /\ refresh' = IF row = "none" THEN "idle"
                  ELSE IF refresh = "open" THEN "render open"
                  ELSE "render closed"
    /\ UNCHANGED <<calls, watched, card, miles, scan, outcome, manual, faults>>

\* ... and writes it back: refresh_active_card or force_update_card.
RefreshWrite ==
    /\ refresh \in {"render open", "render closed"}
    /\ refresh' = "idle"
    /\ IF refresh = "render open" THEN shown' = "open" /\ row' = "active"
       ELSE shown' = "verdict" /\ row' \in {"closed", "demoted"}
    /\ UNCHANGED <<calls, watched, miles, scan, outcome, manual, faults>>

RefreshFails ==
    /\ refresh \in {"render open", "render closed"}
    /\ refresh' = "idle"
    /\ shown' \in {shown, IF refresh = "render open" THEN "open" ELSE "verdict"}
    /\ UNCHANGED <<calls, watched, row, miles, scan, outcome, manual, faults>>

\* The process dies: its tasks are gone, the table and the channel stay.
Crash ==
    /\ faults < MaxFaults /\ faults' = faults + 1
    /\ pc' = "tokens" /\ cur' = 0 /\ tier' = 0 /\ level' = 0
    /\ outcome' = [c \in Ids |-> "idle"] /\ manual' = [c \in Ids |-> "idle"]
    /\ refresh' = "idle"
    /\ UNCHANGED <<calls, watched, card, miles>>

-----------------------------------------------------------------------------
ScanStep ==
    \/ ProcessToken \/ LeaveToken \/ Promote \/ PromoteSent \/ PromoteInsert
    \/ PromoteCall \/ Update \/ UpdateDone \/ Rebound \/ ReboundDone
    \/ ListCalls \/ (\E l \in Tiers : Cross(l) \/ CrossUnread(l)) \/ CrossNothing
    \/ Reply \/ ReplyFails \/ ReplyTimesOut \/ Store \/ StoreFails
    \/ Hold \/ Settle \/ DemoteOrphaned

CardTask(c) ==
    \/ OutcomeRead(c) \/ OutcomeWrite(c) \/ OutcomeFails(c)
    \/ CardRead(c) \/ CardSent(c) \/ CardInsert(c) \/ CardEdit(c) \/ CardFails(c)

Next ==
    \/ ScanStep \/ AutoFail \/ Watch
    \/ \E c \in Ids : CardTask(c)
    \/ ManualCall \/ OperatorClose \/ Expire
    \/ RefreshBegin \/ RefreshRead \/ RefreshWrite \/ RefreshFails
    \/ Crash

Spec == Init /\ [][Next]_vars

\* The scanner goes on with its cycle: every request in it has a time-out.
FairSpec == Spec /\ WF_vars(ScanStep)

-----------------------------------------------------------------------------
(* Safety.                                                                 *)

\* A milestone is told once, and once more at most for each crash, each failed
\* read or failed write of peak_announced_pct and each reply that was delivered
\* but reported as failed: over passes, restarts and tiers that are crossed,
\* stored and lowered again.
RepliesRepeatOnFaults ==
    \A c \in Ids, k \in Tiers : replies[c][k] <= 1 + faults

\* An auto-call has a card to settle on, crashes included.
AutoCallsHaveCards == auto => row # "none"

\* The channel never shows a verdict on the first call of a mint while that
\* call is still active, whichever task edits the card.
NoEarlyVerdict == rows = 1 /\ call = "active" => shown # "verdict"

\* The scanner, the card tasks and the card tools keep together what the channel
\* promises, whatever they read before their awaits: each step is one of
\* CallBoard's, or changes nothing that CallBoard sees.
Board == INSTANCE CallBoard
ImplementsBoard == Board!Spec

-----------------------------------------------------------------------------
(* Liveness, under FairSpec.                                               *)

\* The list of current signals is honest: a card that stands for no call and no
\* watched token is demoted, also one whose promotion died half-way.
OrphansDemoted ==
    (row = "active" /\ call # "active" /\ ~watched)
        ~> (row # "active" \/ call = "active" \/ watched)

-----------------------------------------------------------------------------
(* src/src/scanner.rs, settle_calls: the spawned task is to "Flip the TG   *)
(* channel card to the terminal state". The code does not keep this: the   *)
(* task gives up on a row that is no longer active.                        *)

\* An outcome task that finds a card and no crash goes on to render it.
VerdictReachesCard ==
    [][\A c \in Ids :
          outcome[c] = "fetch" /\ row # "none" /\ faults' = faults
          => outcome'[c] # "idle"]_vars
=============================================================================
