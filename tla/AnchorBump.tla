----------------------------- MODULE AnchorBump -----------------------------
(***************************************************************************)
(* The message that is to stay at the bottom of a chat: after each new     *)
(* card of the calls channel, and on request, the last forward is deleted  *)
(* and the source forwarded again (bump_anchor in src/src/notifier.rs, the *)
(* row of lounge_anchor_state in src/src/db.rs).  Other messages, replies  *)
(* to a card among them, bump nothing.  The client gives up on a request   *)
(* after ten seconds, so one that failed may have been done.               *)
(*                                                                         *)
(* Messages are numbered over all chats.  The chats the anchor goes to may *)
(* change with the configuration, at a restart.                            *)
(***************************************************************************)
EXTENDS Integers, FiniteSets

CONSTANTS Chats,            \* where an anchor may be kept
          Calls,            \* signals_chat_id, where the cards are
          Lounge,           \* the chat of rows that name none
          Bumpers,          \* tasks: process_token, a manual call, an MCP tool
          MaxMessages,      \* messages over all chats
          MaxAnchorFaults   \* requests and writes that fail, restarts

ASSUME AnchorAssumption ==
    /\ Calls \in Chats /\ Lounge \in Chats /\ "unnamed" \notin Chats
    /\ MaxMessages \in Nat /\ MaxAnchorFaults \in Nat

VARIABLES dest,        \* the chat of the configuration
          stale,       \* the forward the configuration wants removed
          newest,      \* chat -> its newest message
          lastCard,    \* the newest card of the calls channel
          forwards,    \* forwards of the source in a chat: [chat, id]
          anchor,      \* row of lounge_anchor_state: [chat, id]
          bump,        \* task -> [at, prev, new, shared]
          last,        \* number of the last message
          orphans,     \* forwards lost to a fault or an overlap (history)
          spoiled,     \* the forward after the last card is excused (history)
          anchorFaults

config     == <<dest, stale>>
histories  == <<orphans, spoiled>>
messages   == <<newest, lastCard, last>>
anchorVars == <<config, messages, forwards, anchor, bump, histories, anchorFaults>>

NoForward == [chat |-> "unnamed", id |-> 0]
Idle      == [at |-> "rest", prev |-> NoForward, new |-> NoForward, shared |-> FALSE]

(***************************************************************************)
(* The table holds nothing, or a forward of a build that named no chat.    *)
(***************************************************************************)
AnchorInit ==
    /\ dest \in Chats /\ stale = NoForward
    /\ anchor \in {NoForward, [chat |-> "unnamed", id |-> 1]}
    /\ last = 1 /\ lastCard = 0
    /\ newest = [c \in Chats |-> IF c = Lounge THEN 1 ELSE 0]
    /\ forwards = IF anchor = NoForward THEN {} ELSE {[chat |-> Lounge, id |-> 1]}
    /\ bump = [b \in Bumpers |-> Idle]
    /\ orphans = {} /\ spoiled = TRUE /\ anchorFaults = 0

AnchorFault == anchorFaults < MaxAnchorFaults /\ anchorFaults' = anchorFaults + 1

At(b, at) == bump[b].at = at
Busy(b)   == bump[b].at \in {"delete", "forward", "store"}
Go(b, at) == bump' = [bump EXCEPT ![b].at = at]
Post(c) ==
    /\ last < MaxMessages /\ last' = last + 1
    /\ newest' = [newest EXCEPT ![c] = last + 1]

-----------------------------------------------------------------------------
(***************************************************************************)
(* A task posts a card to the calls channel and goes on to bump the        *)
(* anchor; the MCP tool bumps it without a card.                           *)
(***************************************************************************)
PostCard(b) ==
    /\ At(b, "rest") /\ Post(Calls) /\ lastCard' = last' /\ Go(b, "read")
    /\ UNCHANGED <<config, forwards, anchor, histories, anchorFaults>>

BumpLoungeAnchor(b) ==
    /\ At(b, "rest") /\ Go(b, "read")
    /\ UNCHANGED <<config, messages, forwards, anchor, histories, anchorFaults>>

(***************************************************************************)
(* The send timed out after it was done, or the insert of the delivery row *)
(* failed: the `?` ends the task before the bump.                          *)
(***************************************************************************)
CardUnrecorded(b) ==
    /\ At(b, "rest") /\ Post(Calls) /\ lastCard' = last'
    /\ AnchorFault /\ spoiled' = TRUE
    /\ UNCHANGED <<config, forwards, anchor, bump, orphans>>

(***************************************************************************)
(* A milestone or a win is told as a reply in the calls channel; the       *)
(* mirror of a card follows its bump in the lounge.  None is bumped after. *)
(***************************************************************************)
PostUnbumped ==
    /\ \E c \in {Calls, Lounge} : Post(c)
    /\ UNCHANGED <<config, lastCard, forwards, anchor, bump, histories, anchorFaults>>

(***************************************************************************)
(* The row is read, what it names is deleted, the source is forwarded, and *)
(* the row is written: two requests between, and no lock.                  *)
(***************************************************************************)
(* Mutant: the row's chat is taken to be the present one. *)
ResolvedToDest(r) == [r EXCEPT !.chat = dest]

Resolved(r) == [r EXCEPT !.chat = IF @ = "unnamed" THEN Lounge ELSE @]

Overlapped(b) == \E c \in Bumpers \ {b} : Busy(c)

Begin(b, read) ==
    /\ At(b, "read")
    /\ bump' = [c \in Bumpers |->
            IF c = b THEN [at |-> "delete", prev |-> Resolved(read), new |-> NoForward,
                           shared |-> Overlapped(b)]
            ELSE [bump[c] EXCEPT !.shared = @ \/ Busy(c)]]
    /\ UNCHANGED <<config, messages, forwards, anchor, spoiled>>

ReadAnchor(b) == Begin(b, anchor) /\ UNCHANGED <<orphans, anchorFaults>>

(* unwrap_or: a failed read is no row, and its forward is not deleted. *)
ReadAnchorFails(b) ==
    /\ Begin(b, NoForward)
    /\ orphans' = orphans \cup {Resolved(anchor)} /\ AnchorFault

(* Mutant: a delete that fails ends the bump. *)
DeleteOrGiveUp(b) ==
    /\ At(b, "delete")
    /\ \/ /\ forwards' = forwards \ {bump[b].prev} /\ Go(b, "forward")
          /\ UNCHANGED <<orphans, anchorFaults>>
       \/ /\ bump[b].prev \in forwards /\ Go(b, "clean")
          /\ orphans' = orphans \cup {bump[b].prev} /\ AnchorFault /\ UNCHANGED forwards
    /\ UNCHANGED <<config, messages, anchor, spoiled>>

DeletePrevious(b) ==
    /\ At(b, "delete") /\ Go(b, "forward")
    /\ \/ forwards' = forwards \ {bump[b].prev} /\ UNCHANGED <<orphans, anchorFaults>>
       \/ /\ bump[b].prev \in forwards
          /\ orphans' = orphans \cup {bump[b].prev} /\ AnchorFault /\ UNCHANGED forwards
    /\ UNCHANGED <<config, messages, anchor, spoiled>>

Forwarded == [chat |-> dest, id |-> last + 1]

ForwardAnchor(b) ==
    /\ At(b, "forward") /\ Post(dest)
    /\ forwards' = forwards \cup {Forwarded} /\ spoiled' = FALSE
    /\ bump' = [bump EXCEPT ![b].at = "store", ![b].new = Forwarded]
    /\ UNCHANGED <<config, lastCard, anchor, orphans, anchorFaults>>

(* Telegram forwarded, and the answer came too late: the id is not known. *)
ForwardTimesOut(b) ==
    /\ At(b, "forward") /\ Post(dest) /\ Go(b, "clean")
    /\ forwards' = forwards \cup {Forwarded} /\ spoiled' = FALSE
    /\ orphans' = orphans \cup {Forwarded} /\ AnchorFault
    /\ UNCHANGED <<config, lastCard, anchor>>

ForwardFails(b) ==
    /\ At(b, "forward") /\ Go(b, "clean")
    /\ spoiled' = TRUE /\ AnchorFault
    /\ UNCHANGED <<config, messages, forwards, anchor, orphans>>

SetAnchorState(b) ==
    /\ At(b, "store") /\ Go(b, "clean")
    /\ \/ /\ anchor' = bump[b].new
          /\ orphans' = IF bump[b].shared THEN orphans \cup {bump[b].new} ELSE orphans
          /\ UNCHANGED anchorFaults
       \/ /\ orphans' = orphans \cup {bump[b].new}
          /\ AnchorFault /\ UNCHANGED anchor
    /\ UNCHANGED <<config, messages, forwards, spoiled>>

(***************************************************************************)
(* A forward left in the lounge by an earlier configuration is removed at  *)
(* the end of every bump, if the operator names it; the MCP tool removes   *)
(* any message of the lounge.                                              *)
(***************************************************************************)
CleanStale(b) ==
    /\ At(b, "clean") /\ bump' = [bump EXCEPT ![b] = Idle]
    /\ forwards' \in {forwards, IF dest = Lounge THEN forwards ELSE forwards \ {stale}}
    /\ UNCHANGED <<config, messages, anchor, histories, anchorFaults>>

CleanupLoungeAnchor ==
    /\ \E f \in forwards :
          /\ f.chat = Lounge /\ forwards' = forwards \ {f}
          /\ spoiled' = (spoiled \/ (dest = Lounge /\ f.id > lastCard))
    /\ UNCHANGED <<config, messages, anchor, bump, orphans, anchorFaults>>

(***************************************************************************)
(* A restart, with the configuration as the operator has it by then.       *)
(***************************************************************************)
AnchorRestart ==
    /\ AnchorFault
    /\ dest' \in Chats
    /\ stale' \in {NoForward} \cup {f \in orphans : f.chat = Lounge}
    /\ bump' = [b \in Bumpers |-> Idle]
    /\ orphans' = orphans \cup {bump[b].new : b \in {c \in Bumpers : At(c, "store")}}
    /\ spoiled' = TRUE
    /\ UNCHANGED <<messages, forwards, anchor>>

BumpStep(b) == \/ ReadAnchor(b) \/ ReadAnchorFails(b) \/ DeletePrevious(b)
               \/ ForwardAnchor(b) \/ ForwardTimesOut(b) \/ ForwardFails(b)
               \/ SetAnchorState(b) \/ CleanStale(b)

AnchorNext ==
    \/ \E b \in Bumpers : \/ PostCard(b) \/ CardUnrecorded(b) \/ BumpLoungeAnchor(b)
                         \/ BumpStep(b)
    \/ PostUnbumped \/ CleanupLoungeAnchor \/ AnchorRestart

AnchorSpec == AnchorInit /\ [][AnchorNext]_anchorVars
-----------------------------------------------------------------------------
AtRest == \A b \in Bumpers : At(b, "rest")

(***************************************************************************)
(* When no bump is under way, every forward but the one of the row was     *)
(* left behind by a fault or by bumps that overlapped: configurations that *)
(* change the chat and rows that name none leave nothing behind            *)
(* (bump_anchor: "clean up the orphan in the old chat").                   *)
(***************************************************************************)
Kept == IF anchor.chat = "unnamed" THEN [anchor EXCEPT !.chat = Lounge] ELSE anchor
OrphansExplained == AtRest => forwards \subseteq {Kept} \cup orphans

(***************************************************************************)
(* When no bump is under way, the anchor stands below every card, also if  *)
(* bumps overlapped, unless the forward after the last card failed or was  *)
(* removed, that card was not recorded, or a restart came between.         *)
(***************************************************************************)
AnchorBelowCards ==
    AtRest /\ ~spoiled => \E f \in forwards : f.chat = dest /\ f.id > lastCard

(***************************************************************************)
(* "Always at the bottom ... every time a new message arrives in the       *)
(* target chat" (bump_anchor).  The code does not keep this: no reply and  *)
(* no mirror is followed by a bump.                                        *)
(***************************************************************************)
AlwaysAtBottom ==
    AtRest /\ ~spoiled => [chat |-> dest, id |-> newest[dest]] \in forwards
=============================================================================
