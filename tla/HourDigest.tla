----------------------------- MODULE HourDigest -----------------------------
(***************************************************************************)
(* The digest of the hour in the operators' chat: one message per hour,    *)
(* edited at the end of every scan cycle, and closed with a wrap-up in the *)
(* hours after it (src/src/notifier.rs, src/src/db.rs).                    *)
(*                                                                         *)
(* A message is the hour its text speaks of and whether it has the         *)
(* wrap-up.  Operators may delete messages.  Hours pass at any time, up to *)
(* MaxHour.                                                                *)
(***************************************************************************)
EXTENDS Integers, FiniteSets, Sequences

CONSTANTS MaxHour,          \* hours from 1 on
          MaxDeletions,     \* messages deleted by hand
          MaxDigestFaults   \* requests and writes that fail, restarts

ASSUME DigestAssumption ==
    MaxHour \in Nat \ {0} /\ MaxDeletions \in Nat /\ MaxDigestFaults \in Nat

VARIABLES hour,       \* the hour it is
          posted,     \* messages ever sent: [bucket, text, wrap, there]
          digests,    \* rows of telegram_digests: [bucket, message, finalized]
          tick,       \* tick_digest_now: [at, row, bucket, text]
          deletions, digestFaults

digestVars == <<hour, posted, digests, tick, deletions, digestFaults>>

Hours == 1 .. MaxHour
NoRow == [bucket |-> 0, message |-> 0, finalized |-> FALSE]
NoTick == [at |-> "rest", row |-> NoRow, bucket |-> 0, text |-> 0]

DigestInit ==
    /\ hour = 1 /\ posted = <<>> /\ digests = {} /\ tick = NoTick
    /\ deletions = 0 /\ digestFaults = 0

DigestFault == digestFaults < MaxDigestFaults /\ digestFaults' = digestFaults + 1

-----------------------------------------------------------------------------
HourPasses ==
    /\ hour < MaxHour /\ hour' = hour + 1
    /\ UNCHANGED <<posted, digests, tick, deletions, digestFaults>>

DeleteMessage ==
    /\ deletions < MaxDeletions /\ deletions' = deletions + 1
    /\ \E i \in DOMAIN posted :
          posted[i].there /\ posted' = [posted EXCEPT ![i].there = FALSE]
    /\ UNCHANGED <<hour, digests, tick, digestFaults>>

(***************************************************************************)
(* An edit succeeds, finds no message, or fails.                           *)
(***************************************************************************)
Edited(id, text, wrap) ==
    /\ posted[id].there
    /\ posted' = [posted EXCEPT ![id].text = text, ![id].wrap = wrap]

Gone(id) == ~posted[id].there /\ UNCHANGED posted

Step(at) == tick' = [tick EXCEPT !.at = at]
Stop     == tick' = NoTick

-----------------------------------------------------------------------------
(***************************************************************************)
(* The previous hour first: the newest digest of an earlier hour that is   *)
(* not finalized is rendered afresh, with the hour it is now, and edited.  *)
(* An error does not keep the tick from going on.                          *)
(***************************************************************************)
(* Mutant: the digest of this hour is closed, too. *)
UnfinalizedUpTo(bucket) == {d \in digests : d.bucket <= bucket /\ ~d.finalized}

UnfinalizedBefore(bucket) == {d \in digests : d.bucket < bucket /\ ~d.finalized}

BeginTick ==
    /\ tick.at = "rest"
    /\ LET due == UnfinalizedBefore(hour) IN
       IF due = {} THEN tick' = [NoTick EXCEPT !.at = "current", !.text = hour]
       ELSE \E d \in due :
               /\ \A e \in due : e.bucket <= d.bucket
               /\ tick' = [NoTick EXCEPT !.at = "wrap", !.row = d, !.text = hour]
    /\ UNCHANGED <<hour, posted, digests, deletions, digestFaults>>

EditPrevious ==
    /\ tick.at = "wrap"
    /\ \/ /\ Edited(tick.row.message, tick.text, TRUE) \/ Gone(tick.row.message)
          /\ Step("finalize") /\ UNCHANGED digestFaults
       \/ Step("render") /\ DigestFault /\ UNCHANGED posted
    /\ UNCHANGED <<hour, digests, deletions>>

(* Mutant: the row is not marked when the message has been deleted. *)
FinalizeUnlessGone ==
    /\ tick.at = "finalize" /\ Step("render")
    /\ digests' = IF posted[tick.row.message].there
                  THEN (digests \ {tick.row}) \cup {[tick.row EXCEPT !.finalized = TRUE]}
                  ELSE digests
    /\ UNCHANGED <<hour, posted, deletions, digestFaults>>

FinalizeDigest ==
    /\ tick.at = "finalize" /\ Step("render")
    /\ \/ /\ digests' = (digests \ {tick.row}) \cup {[tick.row EXCEPT !.finalized = TRUE]}
          /\ UNCHANGED digestFaults
       \/ DigestFault /\ UNCHANGED digests
    /\ UNCHANGED <<hour, posted, deletions>>

(***************************************************************************)
(* The text is rendered, then the hour is looked at again.                 *)
(***************************************************************************)
RenderDigestBody ==
    /\ tick.at = "render"
    /\ tick' = [NoTick EXCEPT !.at = "current", !.text = hour]
    /\ UNCHANGED <<hour, posted, digests, deletions, digestFaults>>

GetDigest ==
    /\ tick.at = "current"
    /\ LET rows == {d \in digests : d.bucket = hour} IN
       tick' = IF rows = {} THEN [tick EXCEPT !.at = "send", !.bucket = hour]
               ELSE [tick EXCEPT !.at = "edit", !.bucket = hour,
                       !.row = CHOOSE d \in rows : TRUE]
    /\ UNCHANGED <<hour, posted, digests, deletions, digestFaults>>

(***************************************************************************)
(* A message that has been deleted loses its row and is sent anew; an edit *)
(* that changes nothing is no error.                                       *)
(***************************************************************************)
(* Mutant: an edit that changes nothing is answered as one of a ghost. *)
EditCurrentChanged ==
    /\ tick.at = "edit"
    /\ \/ /\ posted[tick.row.message].text # tick.text
          /\ Edited(tick.row.message, tick.text, FALSE) /\ Stop
          /\ UNCHANGED <<digests, digestFaults>>
       \/ /\ digests' = digests \ {tick.row}
          /\ posted[tick.row.message].text = tick.text \/ ~posted[tick.row.message].there
          /\ Step("send") /\ UNCHANGED <<posted, digestFaults>>
       \/ DigestFault /\ Stop /\ UNCHANGED <<posted, digests>>
    /\ UNCHANGED <<hour, deletions>>

EditCurrent ==
    /\ tick.at = "edit"
    /\ \/ Edited(tick.row.message, tick.text, FALSE) /\ Stop /\ UNCHANGED <<digests, digestFaults>>
       \/ /\ Gone(tick.row.message)
          /\ digests' = digests \ {tick.row}
          /\ Step("send") /\ UNCHANGED digestFaults
       \/ DigestFault /\ Stop /\ UNCHANGED <<posted, digests>>
    /\ UNCHANGED <<hour, deletions>>

SendDigest ==
    /\ tick.at = "send"
    /\ \/ /\ posted' = Append(posted,
                [bucket |-> tick.bucket, text |-> tick.text, wrap |-> FALSE, there |-> TRUE])
          /\ Step("insert") /\ UNCHANGED digestFaults
       \/ DigestFault /\ Stop /\ UNCHANGED posted
    /\ UNCHANGED <<hour, digests, deletions>>

InsertDigest ==
    /\ tick.at = "insert" /\ Stop
    /\ \/ /\ digests' = digests \cup
                {[bucket |-> tick.bucket, message |-> Len(posted), finalized |-> FALSE]}
          /\ UNCHANGED digestFaults
       \/ DigestFault /\ UNCHANGED digests
    /\ UNCHANGED <<hour, posted, deletions>>

DigestRestart ==
    /\ tick # NoTick /\ Stop /\ DigestFault
    /\ UNCHANGED <<hour, posted, digests, deletions>>

DigestTick == \/ BeginTick \/ EditPrevious \/ FinalizeDigest \/ RenderDigestBody
              \/ GetDigest \/ EditCurrent \/ SendDigest \/ InsertDigest

DigestNext == HourPasses \/ DeleteMessage \/ DigestTick \/ DigestRestart

(***************************************************************************)
(* The scan cycle ends again and again, and ticks the digest.              *)
(***************************************************************************)
DigestSpec == DigestInit /\ [][DigestNext]_digestVars /\ WF_digestVars(DigestTick)
-----------------------------------------------------------------------------
(***************************************************************************)
(* "notifier dedups by hour bucket internally, so calling once per cycle   *)
(* is safe" (scanner.rs:668): of an hour a second message is sent only for *)
(* one that was deleted, or for a fault between the message and its row.   *)
(***************************************************************************)
OneDigestPerHour ==
    \A h \in Hours :
        Cardinality({i \in DOMAIN posted : posted[i].bucket = h})
            <= 1 + deletions + digestFaults

(***************************************************************************)
(* "Mark a digest as finalized - no further edits/wrap-ups should apply."  *)
(* (db.rs:1296): the wrap-up of an hour stays, whatever hours pass during  *)
(* a tick and whatever fails.                                              *)
(***************************************************************************)
WrapStays ==
    [][\A i \in DOMAIN posted : posted[i].wrap => posted'[i].wrap]_digestVars

(***************************************************************************)
(* The digest of an hour that is over is finalized in the end, although    *)
(* one hour is closed per tick, the newest first, and messages disappear   *)
(* (finalize_previous_hour).                                               *)
(***************************************************************************)
OpenIn(h) == \E d \in digests : d.bucket = h /\ ~d.finalized
PastHoursClose == \A h \in Hours : (hour > h /\ OpenIn(h)) ~> ~OpenIn(h)
=============================================================================
