--------------------------- MODULE SitePublisher ---------------------------
(***************************************************************************)
(* How the state of the bot reaches the public site: the publisher's loop  *)
(* and the phases of a tick, the scout loop that writes receipts and       *)
(* detail files beside it (src/src/publisher.rs), the wallet ledger        *)
(* (src/src/db.rs) and the Worker that takes the posts                     *)
(* (src/cloudflare/worker/src/index.js).                                   *)
(*                                                                         *)
(* The files of the scout loop are kept by mint, so the calls of one mint  *)
(* stand for all.  A tick writes its own files and reads them back without *)
(* a pause, so a bundle is taken from the tick directly.  Time has no      *)
(* clock: whatever can be slow is slow when it counts as a fault.          *)
(***************************************************************************)
EXTENDS Integers, FiniteSets, SequencesExt

CONSTANTS Workloads,  \* what may happen in a run, see Init
          Window,     \* signatures a walk asks for
          MaxFlying,  \* posts the Worker serves at once
          MaxFaults   \* slow or failed steps and restarts

ASSUME PublisherAssumption ==
    /\ Workloads \subseteq [calls : Nat, sigs : Nat, loops : SUBSET {"tick", "scout"}]
    /\ Window \in Nat \ {0} /\ MaxFlying \in Nat \ {0}
    /\ MaxFaults \in Nat

VARIABLES work,     \* the workload of this behaviour
          calls,    \* status of each call of the mint, oldest first
          kick,     \* the permit of the kick handle
          loop,     \* the publisher's loop: [at, list, stream]
          flying,   \* posts the Worker has yet to store: [bundle, todo]
          site,     \* what the Worker serves: [calls, stream]
          sigs,     \* kind of each signature of the wallet, oldest first
          walk,     \* the capture walk: [next, last, known]
          ledger,   \* signatures in wallet_ledger
          hurt,     \* signatures lost to a fault of a walk (history)
          scout,    \* the scout loop: [at, list, next]
          receipt,  \* scout and whale receipts: [call, as]
          detail,   \* detail file: [call, as]
          faults

vars == <<work, calls, kick, loop, flying, site, sigs, walk, ledger, hurt, scout,
          receipt, detail, faults>>
books  == <<sigs, walk, ledger, hurt>>
files  == <<scout, receipt, detail>>

Verdicts == {"won", "quiet", "expired"}
Statuses == {"open", "due"} \cup Verdicts
Kinds    == {"scouts", "whales"}
None     == [call |-> 0, as |-> "none"]
NoWalk   == [next |-> 0, last |-> 0, known |-> {}]
Parts    == {"calls", "stream"}

(***************************************************************************)
(* The exits kept here are a withdrawal worth telling ("won") and a        *)
(* failure too small to tell ("quiet").  The feed tells of an open call    *)
(* and of an exit worth telling, in place of the opening; a quiet exit or  *)
(* an expiry takes the call off the feed.                                  *)
(***************************************************************************)
StreamOf(list) ==
    {[call |-> i, tag |-> IF list[i] = "won" THEN "closed" ELSE "fired"] :
        i \in {j \in DOMAIN list : list[j] \notin {"quiet", "expired"}}}
OpenIn(list) == {i \in DOMAIN list : list[i] \in {"open", "due"}}

(***************************************************************************)
(* The counts the site shows beside the calls: an exit counts as a win or  *)
(* a loss by its outcome.  Expiry leaves no exit price, so an expired call *)
(* has no percentage and is not counted at all.                            *)
(***************************************************************************)
Ended(list, verdict) == Cardinality({i \in DOMAIN list : list[i] = verdict})
StatsOf(list) == [wins   |-> Ended(list, "won"),
                  losses |-> Ended(list, "quiet"),
                  count  |-> Ended(list, "won") + Ended(list, "quiet")]
FileOf(list) == [list |-> list, stats |-> StatsOf(list)]

Waiting == [at |-> "wait", list |-> <<>>, stream |-> <<>>]
Resting == [at |-> "wait", list |-> <<>>, next |-> 0]

Init ==
    /\ work \in Workloads
    /\ calls = <<>> /\ kick = FALSE
    /\ loop = Waiting /\ flying = {}
    /\ site = [calls |-> FileOf(<<>>), stream |-> {}]
    /\ sigs = <<>> /\ walk = NoWalk /\ ledger = {} /\ hurt = {}
    /\ scout = Resting
    /\ receipt = [k \in Kinds |-> None] /\ detail = None
    /\ faults = 0

Fault == faults < MaxFaults /\ faults' = faults + 1

-----------------------------------------------------------------------------
(***************************************************************************)
(* Calls open and close, and their windows pass.  Openings and settled or  *)
(* manual closings kick the publisher, and so does every settle pass that  *)
(* has an active call; a close on an unsafe token does not.                *)
(***************************************************************************)
OpenCall ==
    /\ Len(calls) < work.calls /\ OpenIn(calls) = {}
    /\ calls' = Append(calls, "open") /\ kick' = TRUE
    /\ UNCHANGED <<work, loop, flying, site, books, files, faults>>

CloseCall ==
    /\ \E i \in OpenIn(calls), verdict \in {"won", "quiet"} :
          calls' = [calls EXCEPT ![i] = verdict]
    /\ kick' \in {kick, TRUE}
    /\ UNCHANGED <<work, loop, flying, site, books, files, faults>>

WindowPasses ==
    /\ \E i \in DOMAIN calls : calls[i] = "open" /\ calls' = [calls EXCEPT ![i] = "due"]
    /\ UNCHANGED <<work, kick, loop, flying, site, books, files, faults>>

SettlePass ==
    /\ OpenIn(calls) # {} /\ ~kick /\ kick' = TRUE
    /\ UNCHANGED <<work, calls, loop, flying, site, books, files, faults>>

(***************************************************************************)
(* The wallet signs: a trade moves SOL and a token, other transactions do  *)
(* not, some fail.                                                         *)
(***************************************************************************)
Sign(kind) ==
    /\ Len(sigs) < work.sigs
    /\ sigs' = Append(sigs, kind)
    /\ UNCHANGED <<work, calls, kick, loop, flying, site, walk, ledger, hurt, files, faults>>

-----------------------------------------------------------------------------
(***************************************************************************)
(* The loop waits for its timer or the permit, whichever select! sees,     *)
(* sleeps what is left of the least interval, and runs a tick.  A tick     *)
(* that takes 60 seconds is dropped wherever it waits.                     *)
(***************************************************************************)
Goes(at) == loop' = [loop EXCEPT !.at = at]

Wake ==
    /\ "tick" \in work.loops /\ loop.at = "wait" /\ Goes("rest")
    /\ kick' \in {kick, FALSE}
    /\ UNCHANGED <<work, calls, flying, site, books, files, faults>>

Start ==
    /\ loop.at = "rest" /\ Goes("capture")
    /\ UNCHANGED <<work, calls, kick, flying, site, books, files, faults>>

(* Mutant: the error ends the loop. *)
AbandonForGood ==
    /\ loop.at \notin {"wait", "rest"}
    /\ loop' = [Waiting EXCEPT !.at = "over"] /\ walk' = NoWalk
    /\ Fault
    /\ UNCHANGED <<work, calls, kick, flying, site, sigs, ledger, hurt, files>>

Unreached == IF walk = NoWalk THEN {} ELSE (walk.last .. walk.next) \ ledger

Abandon ==
    /\ loop.at \notin {"wait", "rest"}
    /\ loop' = Waiting /\ walk' = NoWalk
    /\ hurt' = hurt \cup Unreached
    /\ Fault
    /\ UNCHANGED <<work, calls, kick, flying, site, sigs, ledger, files>>

(***************************************************************************)
(* Phase 3, under a timeout of its own: the newest signatures are walked   *)
(* back to the first one the ledger had when the walk began.  A signature  *)
(* whose transaction cannot be read is skipped.                            *)
(***************************************************************************)
OldestOf(n) == IF n > Window THEN n - Window + 1 ELSE 1

OpenWalk ==
    /\ loop.at = "capture"
    /\ \/ /\ walk' = [next |-> Len(sigs), last |-> OldestOf(Len(sigs)), known |-> ledger]
          /\ hurt' = hurt \cup ((1 .. OldestOf(Len(sigs)) - 1) \ ledger)
          /\ Goes("walk")
          /\ UNCHANGED faults
       \/ Goes("positions") /\ Fault /\ UNCHANGED <<walk, hurt>>
    /\ UNCHANGED <<work, calls, kick, flying, site, sigs, ledger, files>>

WalkOver == walk.next < walk.last \/ walk.next \in walk.known

(* Mutant: a transaction that is no trade ends the walk, too. *)
ReadTransactionToOther ==
    /\ loop.at = "walk" /\ ~WalkOver
    /\ \/ /\ ledger' = IF sigs[walk.next] = "trade" THEN ledger \cup {walk.next} ELSE ledger
          /\ UNCHANGED <<hurt, faults>>
       \/ hurt' = hurt \cup {walk.next} /\ Fault /\ UNCHANGED ledger
    /\ walk' = [walk EXCEPT !.next = IF sigs[@] = "other" THEN 0 ELSE @ - 1]
    /\ UNCHANGED <<work, calls, kick, loop, flying, site, sigs, files>>

ReadTransaction ==
    /\ loop.at = "walk" /\ ~WalkOver
    /\ \/ /\ ledger' = IF sigs[walk.next] = "trade" THEN ledger \cup {walk.next} ELSE ledger
          /\ UNCHANGED <<hurt, faults>>
       \/ hurt' = hurt \cup {walk.next} /\ Fault /\ UNCHANGED ledger
    /\ walk' = [walk EXCEPT !.next = @ - 1]
    /\ UNCHANGED <<work, calls, kick, loop, flying, site, sigs, files>>

EndWalk ==
    /\ loop.at = "walk"
    /\ \/ WalkOver /\ UNCHANGED <<hurt, faults>>
       \/ ~WalkOver /\ hurt' = hurt \cup Unreached /\ Fault
    /\ walk' = NoWalk /\ Goes("positions")
    /\ UNCHANGED <<work, calls, kick, flying, site, sigs, ledger, files>>

(***************************************************************************)
(* Phases 4 to 9: positions and activity are valued one request after the  *)
(* other, under no limit but the tick's; then, without a pause, due calls  *)
(* expire and the calls are listed.                                        *)
(***************************************************************************)
ExpireStaleCalls(list) ==
    [i \in DOMAIN list |-> IF list[i] = "due" THEN "expired" ELSE list[i]]

(* Mutant: nothing expires. *)
ExpireForgotten ==
    /\ loop.at = "positions"
    /\ loop' = [loop EXCEPT !.at = "calls", !.list = calls]
    /\ UNCHANGED <<work, calls, kick, flying, site, books, files, faults>>

Expire ==
    /\ loop.at = "positions"
    /\ calls' = ExpireStaleCalls(calls)
    /\ loop' = [loop EXCEPT !.at = "calls", !.list = calls']
    /\ UNCHANGED <<work, kick, flying, site, books, files, faults>>

(***************************************************************************)
(* The calls are priced for at most ten seconds, after which the list is   *)
(* published empty; the feed reads the calls again.                        *)
(***************************************************************************)
CallsBuilt ==
    /\ loop.at = "calls" /\ Goes("stream")
    /\ UNCHANGED <<work, calls, kick, flying, site, books, files, faults>>

CallsTimeOut ==
    /\ loop.at = "calls"
    /\ loop' = [loop EXCEPT !.at = "stream", !.list = <<>>]
    /\ Fault
    /\ UNCHANGED <<work, calls, kick, flying, site, books, files>>

StreamBuilt ==
    /\ loop.at = "stream"
    /\ loop' = [loop EXCEPT !.at = "send", !.stream = calls]
    /\ UNCHANGED <<work, calls, kick, flying, site, books, files, faults>>

(***************************************************************************)
(* The bundle is posted; whatever the tick hears of it, the Worker may     *)
(* store it now, later, after a newer one, or not at all, key by key.      *)
(***************************************************************************)
Send ==
    /\ loop.at = "send" /\ Cardinality(flying) < MaxFlying
    /\ flying' = flying \cup
          {[bundle |-> [calls |-> FileOf(loop.list), stream |-> StreamOf(loop.stream)],
            todo |-> Parts]}
    /\ loop' = Waiting
    /\ UNCHANGED <<work, calls, kick, site, books, files, faults>>

(* A send that fails, or a bundle that cannot be written or signed. *)
SendFails ==
    /\ loop.at = "send" /\ loop' = Waiting
    /\ Fault
    /\ UNCHANGED <<work, calls, kick, flying, site, books, files>>

WorkerPuts ==
    /\ \E p \in flying : \E part \in p.todo :
          /\ part = "stream" => "calls" \notin p.todo
          /\ site' = [site EXCEPT ![part] = p.bundle[part]]
          /\ flying' = (flying \ {p}) \cup
                (IF p.todo = {part} THEN {} ELSE {[p EXCEPT !.todo = @ \ {part}]})
    /\ UNCHANGED <<work, calls, kick, loop, books, files, faults>>

WorkerDrops ==
    /\ \E p \in flying : flying' = flying \ {p}
    /\ Fault
    /\ UNCHANGED <<work, calls, kick, loop, site, books, files>>

-----------------------------------------------------------------------------
(***************************************************************************)
(* The scout loop lists the calls once per pass and writes, newest call    *)
(* first, the scout receipts, the whale receipts and the details.          *)
(***************************************************************************)
Passing(kind) == scout.at = kind /\ scout.next > 0
Advance == scout' = [scout EXCEPT !.next = @ - 1]

BeginPass ==
    /\ "scout" \in work.loops /\ scout.at = "wait" /\ calls # <<>>
    /\ scout' = [at |-> "scouts", list |-> calls, next |-> Len(calls)]
    /\ UNCHANGED <<work, calls, kick, loop, flying, site, books, receipt, detail, faults>>

(* Mutant: the receipt on disk is not looked at. *)
WriteReceiptAgain(kind) ==
    /\ Passing(kind)
    /\ receipt' = [receipt EXCEPT ![kind] =
            [call |-> scout.next, as |-> calls[scout.next]]]
    /\ Advance
    /\ UNCHANGED <<work, calls, kick, loop, flying, site, books, detail, faults>>

WriteReceipt(kind) ==
    /\ Passing(kind)
    /\ receipt' = IF receipt[kind].call = scout.next THEN receipt
                  ELSE [receipt EXCEPT ![kind] =
                           [call |-> scout.next, as |-> calls[scout.next]]]
    /\ Advance
    /\ UNCHANGED <<work, calls, kick, loop, flying, site, books, detail, faults>>

(***************************************************************************)
(* A file whose status and newest snapshot are the same is left alone,     *)
(* which changes nothing that is kept here.                                *)
(***************************************************************************)
WriteDetail ==
    /\ Passing("details")
    /\ detail' = [call |-> scout.next, as |-> scout.list[scout.next]]
    /\ Advance
    /\ UNCHANGED <<work, calls, kick, loop, flying, site, books, receipt, faults>>

NextOf(at) == IF at = "scouts" THEN "whales" ELSE "details"

EndWriter ==
    /\ scout.at # "wait" /\ scout.next = 0
    /\ scout' = IF scout.at = "details" THEN Resting
                ELSE [scout EXCEPT !.at = NextOf(@), !.next = Len(scout.list)]
    /\ UNCHANGED <<work, calls, kick, loop, flying, site, books, receipt, detail, faults>>

(***************************************************************************)
(* The process starts again: the permit and both loops are lost.           *)
(***************************************************************************)
Restart ==
    /\ <<loop, scout, walk, kick>> # <<Waiting, Resting, NoWalk, FALSE>>
    /\ kick' = FALSE /\ loop' = Waiting /\ scout' = Resting /\ walk' = NoWalk
    /\ hurt' = hurt \cup Unreached
    /\ Fault
    /\ UNCHANGED <<work, calls, flying, site, sigs, ledger, receipt, detail>>

Tick == \/ Wake \/ Start \/ OpenWalk \/ ReadTransaction \/ EndWalk
        \/ Expire \/ CallsBuilt \/ CallsTimeOut \/ StreamBuilt \/ Send \/ SendFails \/ Abandon
Worker == WorkerPuts \/ WorkerDrops
Pass   == BeginPass \/ (\E k \in Kinds : WriteReceipt(k)) \/ WriteDetail \/ EndWriter

Next ==
    \/ OpenCall \/ CloseCall \/ WindowPasses \/ SettlePass
    \/ \E kind \in {"trade", "other"} : Sign(kind)
    \/ Tick \/ Worker \/ Pass \/ Restart

(***************************************************************************)
(* The tasks run on, and the Worker goes on with what it was given.        *)
(***************************************************************************)
Fairness == WF_vars(Tick) /\ WF_vars(Worker) /\ WF_vars(Pass)

Spec == Init /\ [][Next]_vars /\ Fairness
-----------------------------------------------------------------------------
(***************************************************************************)
(* Whatever was slow, lost or overtaken, in the end the site shows the     *)
(* calls as they are, their counts and a feed of the same calls            *)
(* (kick_publisher, spawn, compute_call_stats, post_publish).              *)
(***************************************************************************)
SiteCatchesUp ==
    "tick" \in work.loops => <>[](site = [calls |-> FileOf(calls), stream |-> StreamOf(calls)])

(***************************************************************************)
(* A call whose window has passed is closed even if nothing else closes it *)
(* (step 8b of run_once), although slow phases come before that step.      *)
(***************************************************************************)
MostCalls == CHOOSE n \in {w.calls : w \in Workloads} : \A w \in Workloads : w.calls <= n
Is(i, kinds) == i \in DOMAIN calls /\ calls[i] \in kinds
DueCallsClose ==
    "tick" \in work.loops => \A i \in 1 .. MostCalls : Is(i, {"due"}) ~> Is(i, Verdicts)

(***************************************************************************)
(* Between walks, a trade older than one the ledger has is in the ledger,  *)
(* or a fault kept it out: its transaction could not be read, the walk was *)
(* cut short, or more than Window signatures came before the next walk.    *)
(***************************************************************************)
GapsOnlyByFaults ==
    walk = NoWalk =>
        \A i \in DOMAIN sigs, j \in ledger :
            i < j /\ sigs[i] = "trade" => i \in ledger \cup hurt

(***************************************************************************)
(* The only call of a mint has its verdict in the detail file in the end.  *)
(***************************************************************************)
VerdictLands ==
    \A v \in Verdicts :
        ("scout" \in work.loops /\ calls = <<v>>)
            ~> (detail = [call |-> 1, as |-> v] \/ Len(calls) > 1)

(***************************************************************************)
(* The receipts of the only call of a mint are taken once and stay as they *)
(* were taken, over passes, restarts and the verdict.                      *)
(***************************************************************************)
ReceiptTakenOnce ==
    [][\A k \in Kinds : Len(calls) = 1 /\ receipt[k] # None => receipt'[k] = receipt[k]]_vars

-----------------------------------------------------------------------------
(***************************************************************************)
(* "Hit a known sig -> ledger is immutable from older onward; stop         *)
(* walking." (publisher.rs:1459): what is older than a recorded trade has  *)
(* been recorded.                                                          *)
(***************************************************************************)
OlderIsRecorded ==
    walk = NoWalk =>
        \A i \in DOMAIN sigs, j \in ledger :
            i < j /\ sigs[i] = "trade" => i \in ledger

(***************************************************************************)
(* "One-shot receipts [...] Without this, every tick [...] overwrote the   *)
(* file, and closed calls' snapshots were lost." (publisher.rs:1390)       *)
(***************************************************************************)
ReceiptsStayOfNewest ==
    [][\A k \in Kinds : receipt'[k].call >= receipt[k].call]_vars
=============================================================================
