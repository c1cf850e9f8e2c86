--------------------------- MODULE TokenRegistry ---------------------------
(***************************************************************************)
(* How a mint becomes known and watched: the streams and pollers that      *)
(* insert it (src/src/main.rs, pumpportal.rs, bitquery.rs,                 *)
(* discovery_pollers.rs), the phases of a scan cycle that analyse, drop    *)
(* and reconsider it (src/src/scanner.rs, discovery.rs), and the two       *)
(* tables they share (src/src/db.rs).                                      *)
(*                                                                         *)
(* What an analysis says of a token is one of Readings; the predicates     *)
(* below give what each rule of the code decides for it.  Ages are flags   *)
(* and stages that time turns, so no clock bounds a behaviour.             *)
(***************************************************************************)
EXTENDS Integers, FiniteSets, FiniteSetsExt

CONSTANTS Mints, None,
          MaxActive,     \* max_active_tokens
          RescanLimit,   \* rows re-analysed per cycle
          PhaseLimit,    \* mints analysed by phase 2, 2b or 4, 3
          Shown,         \* readings the analyses of a run may give
          Others,        \* feeds beside the stream: "bitquery", "poller"
          MaxFaults

ASSUME RegistryAssumption ==
    /\ None \notin Mints /\ MaxActive \in Nat \ {0} /\ RescanLimit \in Nat \ {0}
    /\ PhaseLimit \in Nat \ {0}
    /\ MaxFaults \in Nat /\ IsFiniteSet(Mints)
    /\ Others \subseteq {"bitquery", "poller"}

VARIABLES token,    \* tokens: how long ago each mint was first seen
          watch,    \* watchlist: [row, active, class, old] by mint
          snap,     \* newest snapshot: [reading, recent] by mint
          called,   \* mints with an active call
          complete, \* mints with a curve snapshot that is complete
          chain,    \* where each mint trades
          stream,   \* down, silent, or live: an event came in the last 30 s
          feed,     \* [step, mint] of the sink, the second feed and the poller
          scan,     \* the scan cycle
          faults

vars == <<token, watch, snap, called, complete, chain, stream, feed, scan, faults>>
tables == <<token, watch, snap, called, complete>>

(***************************************************************************)
(* pattern: STAIRCASE, GRINDER, SPRING; lively: another live class that    *)
(* moves; launch: the same with one account holding half of the supply;    *)
(* quiet: a live class that does not move; dry: DEAD without market data;  *)
(* dead: DEAD, CRASHING, ACTIVE_TRAP; unsafe: UNSAFE.                      *)
(***************************************************************************)
Readings  == {"pattern", "lively", "launch", "quiet", "dry", "dead", "unsafe"}
Favorable == {"pattern"}
Trackable == {"pattern", "lively", "launch"}
Removable == {"launch", "dead", "unsafe"}
BadClass  == {"dry", "dead", "unsafe"}
Crowded   == {"launch"}

ASSUME ReadingsAssumption == None \notin Readings /\ Shown \subseteq Readings

NoRow    == [row |-> FALSE, active |-> FALSE, class |-> "quiet",
             old |-> FALSE]
NoSnap   == [reading |-> None, recent |-> FALSE]
NoFeed   == [step |-> "idle", mint |-> None]
Feeds    == {"sink"} \cup Others
AtStart(phase, fresh) ==
    [phase |-> phase, step |-> "start", todo |-> {}, evict |-> {}, mint |-> None,
     reading |-> None, found |-> {}, fresh |-> fresh, called |-> FALSE]

TypeOK ==
    /\ token \in [Mints -> {"unknown", "young", "ripe", "old"}]
    /\ watch \in [Mints -> [row : BOOLEAN, active : BOOLEAN, class : Readings,
                            old : BOOLEAN]]
    /\ snap \in [Mints -> [reading : Readings \cup {None}, recent : BOOLEAN]]
    /\ called \subseteq Mints /\ complete \subseteq Mints
    /\ chain \in [Mints -> {"none", "curve", "amm"}]
    /\ stream \in {"down", "silent", "live"}
    /\ feed \in [Feeds -> [step : {"idle", "insert", "add"},
                           mint : Mints \cup {None}]]
    /\ scan \in [phase : {"prepare", "1", "2", "2b", "4", "6"},
                 step : {"start", "rebalance", "pick", "drop", "notify",
                         "insert", "handoff"},
                 todo : SUBSET Mints, evict : SUBSET Mints,
                 mint : Mints \cup {None}, reading : Readings \cup {None},
                 found : SUBSET (Mints \X Readings), fresh : BOOLEAN, called : BOOLEAN]
    /\ faults \in 0 .. MaxFaults

Init ==
    /\ token = [m \in Mints |-> "unknown"]
    /\ watch = [m \in Mints |-> NoRow]
    /\ snap = [m \in Mints |-> NoSnap]
    /\ called = {} /\ complete = {}
    /\ chain = [m \in Mints |-> "none"]
    /\ stream = "down"
    /\ feed = [f \in Feeds |-> NoFeed]
    /\ scan = AtStart("prepare", FALSE)
    /\ faults = 0

Known(m)  == token[m] # "unknown"
Active    == {m \in Mints : watch[m].active}

(***************************************************************************)
(* insert_token is an INSERT OR REPLACE: the row starts again.  The        *)
(* deployer columns, which that empties, are left out.                     *)
(***************************************************************************)
InsertToken(m) == token' = [token EXCEPT ![m] = "young"]

(***************************************************************************)
(* A row that exists is activated and takes the class; when it was added   *)
(* and last checked stays.                                                 *)
(***************************************************************************)
AddToWatchlist(m, class) ==
    watch' = [watch EXCEPT ![m] = [@ EXCEPT !.row = TRUE, !.active = TRUE, !.class = class]]

Deactivated(mints) ==
    [m \in Mints |-> IF m \in mints THEN [watch[m] EXCEPT !.active = FALSE] ELSE watch[m]]

-----------------------------------------------------------------------------
At(f, step) == feed[f].step = step
Goes(f, step, m) == feed' = [feed EXCEPT ![f] = [step |-> step, mint |-> m]]

(***************************************************************************)
(* A mint is created on its curve and may graduate.  The stream reports    *)
(* creations, graduations and the trades of followed wallets, late or      *)
(* never, and its sink handles an event statement by statement.            *)
(***************************************************************************)
Create(m) ==
    /\ chain[m] = "none" /\ chain' = [chain EXCEPT ![m] = "curve"]
    /\ UNCHANGED <<tables, stream, feed, scan, faults>>

Graduate(m) ==
    /\ chain[m] = "curve" /\ chain' = [chain EXCEPT ![m] = "amm"]
    /\ UNCHANGED <<tables, stream, feed, scan, faults>>

Hears(m) == stream # "down" /\ At("sink", "idle") /\ chain[m] # "none" /\ stream' = "live"

SinkCreate(m) ==
    /\ Hears(m) /\ InsertToken(m)
    /\ UNCHANGED <<watch, snap, called, complete, chain, feed, scan, faults>>

SinkBuy(m) ==
    /\ Hears(m) /\ InsertToken(m) /\ Goes("sink", "add", m)
    /\ UNCHANGED <<watch, snap, called, complete, chain, scan, faults>>

SinkMigrate(m) ==
    /\ Hears(m) /\ chain[m] = "amm" /\ AddToWatchlist(m, "pattern")
    /\ UNCHANGED <<token, snap, called, complete, chain, feed, scan, faults>>

Connect ==
    /\ stream = "down" /\ stream' = "silent"
    /\ UNCHANGED <<tables, chain, feed, scan, faults>>

Disconnect ==
    /\ stream # "down" /\ stream' = "down"
    /\ UNCHANGED <<tables, chain, feed, scan, faults>>

Silence ==
    /\ stream = "live" /\ stream' = "silent"
    /\ UNCHANGED <<tables, chain, feed, scan, faults>>

(* Mutant: an open socket counts as a live one. *)
FreshWhileOpen == stream # "down"

Fresh == stream = "live"

(***************************************************************************)
(* The second feed reports any mint that trades, late or never, and its    *)
(* sink inserts it again each time.  The poller goes on with mints that    *)
(* were not known when it looked.  Either gives up on a mint when a        *)
(* statement fails.                                                        *)
(***************************************************************************)
BitqueryReports(m) == At("bitquery", "idle") /\ chain[m] # "none"

PollerLooks(m) ==
    /\ "poller" \in Others /\ At("poller", "idle")
    /\ chain[m] # "none" /\ ~Known(m)
    /\ Goes("poller", "insert", m)
    /\ UNCHANGED <<tables, chain, stream, scan, faults>>

FeedInserts(f, m) ==
    /\ f \in Others
    /\ f = "bitquery" => BitqueryReports(m)
    /\ f = "poller" => At(f, "insert") /\ feed[f].mint = m
    /\ InsertToken(m) /\ Goes(f, "add", m)
    /\ UNCHANGED <<watch, snap, called, complete, chain, stream, scan, faults>>

FeedAdds(f) ==
    /\ At(f, "add") /\ AddToWatchlist(feed[f].mint, "quiet")
    /\ Goes(f, "idle", None)
    /\ UNCHANGED <<token, snap, called, complete, chain, stream, scan, faults>>

FeedFails(f) ==
    /\ ~At(f, "idle") /\ faults < MaxFaults
    /\ faults' = faults + 1 /\ Goes(f, "idle", None)
    /\ UNCHANGED <<tables, chain, stream, scan>>

-----------------------------------------------------------------------------
(***************************************************************************)
(* Phase 1.  A row is judged by its newest snapshot, or without one by the *)
(* class it was added with; nobody holds half of a token never measured.   *)
(***************************************************************************)
Seen(m)  == snap[m].reading # None
Class(m) == IF Seen(m) THEN snap[m].reading ELSE watch[m].class
Holds(m) == Class(m) \in Favorable

(* Mutant: an unmeasured token counts as held by one account. *)
ShouldEvictUnmeasured(m) ==
    \/ Class(m) \in BadClass
    \/ ~Seen(m) \/ Class(m) \in Crowded
    \/ watch[m].old /\ ~Holds(m)

ShouldEvict(m) ==
    \/ Class(m) \in BadClass
    \/ Seen(m) /\ Class(m) \in Crowded
    \/ watch[m].old /\ ~Holds(m)

Best(S, n) == IF Cardinality(S) <= n THEN {S} ELSE kSubset(n, S) \* the order is not modelled

Prepare ==
    /\ scan.phase = "prepare" /\ scan.step = "start"
    /\ LET fit == {m \in Active : ~ShouldEvict(m)}
       IN  \E kept \in Best(fit, MaxActive) :
           \E due \in SUBSET kept :
              /\ Cardinality(due) <= RescanLimit
              /\ scan' = [scan EXCEPT !.step = "rebalance", !.evict = Active \ kept,
                                      !.todo = due]
    /\ UNCHANGED <<tables, chain, stream, feed, faults>>

Rebalance ==
    /\ scan.step = "rebalance"
    /\ watch' = Deactivated(scan.evict)
    /\ scan' = [AtStart("1", FALSE) EXCEPT !.step = "pick", !.todo = scan.todo]
    /\ UNCHANGED <<token, snap, called, complete, chain, stream, feed, faults>>

Analysed(m, r) == snap' = [snap EXCEPT ![m] = [reading |-> r, recent |-> TRUE]]

(***************************************************************************)
(* A row whose analysis fails is only marked as checked; when its class    *)
(* cannot be written the cycle ends.  Which rows are due is left to time.  *)
(***************************************************************************)
AnalyseRow(m) ==
    /\ scan.phase = "1" /\ scan.step = "pick" /\ m \in scan.todo
    /\ \/ /\ \E r \in Shown :
               /\ Analysed(m, r)
               /\ watch' = [watch EXCEPT ![m].class = r]
               /\ scan' = [scan EXCEPT !.mint = m, !.reading = r, !.todo = @ \ {m},
                              !.called = m \in called,
                              !.step = IF r \in Removable THEN "drop" ELSE "notify"]
          /\ UNCHANGED faults
       \/ /\ faults < MaxFaults /\ faults' = faults + 1
          /\ \/ scan' = [scan EXCEPT !.todo = @ \ {m}] /\ UNCHANGED snap
             \/ scan' = AtStart("prepare", FALSE) /\ \E r \in Shown : Analysed(m, r)
          /\ UNCHANGED watch
    /\ UNCHANGED <<token, called, complete, chain, stream, feed>>

(***************************************************************************)
(* A removable row is dropped unless it had an active call when that was   *)
(* read; a call on an unsafe token is failed instead.                      *)
(***************************************************************************)
Drop ==
    /\ scan.step = "drop"
    /\ watch' = IF scan.called THEN watch ELSE Deactivated({scan.mint})
    /\ called' = IF scan.called /\ scan.reading = "unsafe" THEN called \ {scan.mint} ELSE called
    /\ scan' = [scan EXCEPT !.step = "notify"]
    /\ UNCHANGED <<token, snap, complete, chain, stream, feed, faults>>

(***************************************************************************)
(* The notifier may open a call on a token that passes its gates.          *)
(***************************************************************************)
Notify ==
    /\ scan.step = "notify"
    /\ called' \in {called} \cup (IF scan.reading \in Favorable
                                 THEN {called \cup {scan.mint}} ELSE {})
    /\ scan' = [scan EXCEPT !.step = "pick", !.mint = None, !.reading = None,
                            !.called = FALSE]
    /\ UNCHANGED <<token, watch, snap, complete, chain, stream, feed, faults>>

LeavePhase1 ==
    /\ scan.phase = "1" /\ scan.step = "pick" /\ scan.todo = {}
    /\ scan' = AtStart("2", FALSE)
    /\ UNCHANGED <<tables, chain, stream, feed, faults>>

-----------------------------------------------------------------------------
(***************************************************************************)
(* Phases 2, 2b and 4 each take a few mints to reconsider.  The first two  *)
(* walk the newest signatures of a program, only when the stream is not    *)
(* fresh: they fetch the first transactions, pass over those they cannot   *)
(* read and stop at the limit, so any candidate may be missed, all of them *)
(* too.  The third ranks known tokens of some age by what they trade.  A   *)
(* walk whose request fails ends the cycle in phase 2 and only its phase   *)
(* in the others.  The first two analyse all they took before any is       *)
(* tracked, the third one by one.                                          *)
(***************************************************************************)
Idle(m) == ~watch[m].active /\ ~snap[m].recent

NewMints      == {m \in Mints : chain[m] # "none" /\ ~Known(m)}
Graduates     == {m \in Mints : chain[m] = "amm" /\ Known(m) /\ Idle(m)}
Reconsidered  == {m \in Mints : token[m] = "ripe" /\ Idle(m)}
Candidates    == CASE scan.phase = "2"  -> NewMints
                   [] scan.phase = "2b" -> Graduates
                   [] scan.phase = "4"  -> Reconsidered
After(phase)  == CASE phase = "2" -> "2b" [] phase = "2b" -> "4" [] phase = "4" -> "6"

Takes(fresh, mints) ==
    /\ Cardinality(mints) <= PhaseLimit
    /\ scan' = [AtStart(scan.phase, fresh) EXCEPT !.step = "pick", !.todo = mints]
    /\ UNCHANGED <<tables, chain, stream, feed>>

List ==
    /\ scan.phase \in {"2", "2b", "4"} /\ scan.step = "start"
    /\ LET fresh == IF scan.phase = "2" THEN Fresh ELSE scan.fresh
       IN  \E mints \in SUBSET Candidates :
              /\ scan.phase # "4" /\ fresh => mints = {}
              /\ Takes(fresh, mints)
    /\ UNCHANGED faults

(***************************************************************************)
(* In phase 2 a mint whose row cannot be read counts as new.               *)
(***************************************************************************)
ListMisread ==
    /\ scan.phase = "2" /\ scan.step = "start" /\ ~Fresh
    /\ faults < MaxFaults /\ faults' = faults + 1
    /\ \E m \in Mints : \E mints \in SUBSET NewMints :
          chain[m] # "none" /\ Known(m) /\ Takes(FALSE, mints \cup {m})

ListFails ==
    /\ scan.phase \in {"2", "2b", "4"} /\ scan.step = "start"
    /\ scan.phase = "2" => ~Fresh
    /\ scan.phase = "2b" => ~scan.fresh
    /\ faults < MaxFaults /\ faults' = faults + 1
    /\ scan' = AtStart(IF scan.phase = "2" THEN "prepare" ELSE After(scan.phase), FALSE)
    /\ UNCHANGED <<tables, chain, stream, feed>>

Analyse(m) ==
    /\ scan.phase \in {"2", "2b", "4"} /\ scan.step = "pick" /\ m \in scan.todo
    /\ scan.phase = "4" => scan.found = {}
    /\ \/ /\ \E r \in Shown :
               /\ Analysed(m, r)
               /\ scan' = [scan EXCEPT !.step = "insert", !.mint = m, !.reading = r,
                                       !.todo = @ \ {m}]
          /\ UNCHANGED faults
       \/ /\ faults < MaxFaults /\ faults' = faults + 1
          /\ scan' = [scan EXCEPT !.todo = @ \ {m}]
          /\ UNCHANGED snap
    /\ UNCHANGED <<token, watch, called, complete, chain, stream, feed>>

(***************************************************************************)
(* The insert may fail unnoticed.                                          *)
(***************************************************************************)
Insert ==
    /\ scan.step = "insert"
    /\ \/ InsertToken(scan.mint) /\ UNCHANGED faults
       \/ faults < MaxFaults /\ faults' = faults + 1 /\ UNCHANGED token
    /\ scan' = [scan EXCEPT !.step = "pick", !.mint = None, !.reading = None,
                            !.found = @ \cup {<<scan.mint, scan.reading>>}]
    /\ UNCHANGED <<watch, snap, called, complete, chain, stream, feed>>

(***************************************************************************)
(* So may the addition to the watchlist.                                   *)
(***************************************************************************)
Adds(m, class) ==
    \/ AddToWatchlist(m, class) /\ UNCHANGED faults
    \/ faults < MaxFaults /\ faults' = faults + 1 /\ UNCHANGED watch

Track ==
    /\ scan.step = "pick" /\ (scan.phase # "4" => scan.todo = {})
    /\ \E found \in scan.found :
          /\ IF found[2] \in Trackable THEN Adds(found[1], found[2])
                                      ELSE UNCHANGED <<watch, faults>>
          /\ scan' = [scan EXCEPT !.found = @ \ {found}]
    /\ UNCHANGED <<token, snap, called, complete, chain, stream, feed>>

(***************************************************************************)
(* A write that fails ends the cycle: the eviction, the alerts of phases 1 *)
(* and 2, and the drop that follows the first.                             *)
(***************************************************************************)
WriteFails ==
    /\ \/ scan.step \in {"rebalance", "drop"}
       \/ scan.step = "notify" /\ scan.reading \notin Removable
       \/ scan.phase = "2" /\ scan.step = "pick" /\ scan.todo = {} /\ scan.found # {}
    /\ faults < MaxFaults /\ faults' = faults + 1
    /\ scan' = AtStart("prepare", FALSE)
    /\ UNCHANGED <<tables, chain, stream, feed>>

LeavePhase ==
    /\ scan.phase \in {"2", "2b", "4"} /\ scan.step = "pick"
    /\ scan.todo = {} /\ scan.found = {}
    /\ scan' = AtStart(After(scan.phase), scan.phase = "2" /\ scan.fresh)
    /\ UNCHANGED <<tables, chain, stream, feed, faults>>

-----------------------------------------------------------------------------
(***************************************************************************)
(* Phase 6: the curves of young tokens; one found complete is handed to    *)
(* the watchlist if it has a call, and not looked at again.                *)
(***************************************************************************)
Observable(m) == token[m] = "young" /\ m \notin complete

ObserveCurve(m) ==
    /\ scan.phase = "6" /\ scan.step = "start" /\ Observable(m) /\ chain[m] = "amm"
    /\ complete' = complete \cup {m}
    /\ scan' = [scan EXCEPT !.step = "handoff", !.mint = m]
    /\ UNCHANGED <<token, watch, snap, called, chain, stream, feed, faults>>

HandOff ==
    /\ scan.step = "handoff"
    /\ IF scan.mint \in called THEN Adds(scan.mint, "pattern") ELSE UNCHANGED <<watch, faults>>
    /\ scan' = AtStart("6", FALSE)
    /\ UNCHANGED <<token, snap, called, complete, chain, stream, feed>>

EndCycle ==
    /\ scan.phase = "6" /\ scan.step = "start"
    /\ scan' = AtStart("prepare", FALSE)
    /\ UNCHANGED <<tables, chain, stream, feed, faults>>

-----------------------------------------------------------------------------
(***************************************************************************)
(* Time turns the flags; retention deletes what is old and not called (a   *)
(* week is longer than the hour that makes a row old); the operator opens  *)
(* calls, and every call ends.                                             *)
(***************************************************************************)
Later(m) ==
    /\ \/ /\ token[m] \in {"young", "ripe"} /\ UNCHANGED <<watch, snap>>
          /\ token' = [token EXCEPT ![m] = IF @ = "young" THEN "ripe" ELSE "old"]
       \/ /\ watch[m].row /\ ~watch[m].old /\ UNCHANGED <<token, snap>>
          /\ watch' = [watch EXCEPT ![m].old = TRUE]
       \/ /\ snap[m].recent /\ UNCHANGED <<token, watch>>
          /\ snap' = [snap EXCEPT ![m].recent = FALSE]
    /\ UNCHANGED <<called, complete, chain, stream, feed, scan, faults>>

Prune(m) ==
    /\ watch[m].active => watch[m].old
    /\ \/ Seen(m) /\ ~snap[m].recent /\ snap' = [snap EXCEPT ![m] = NoSnap] /\ UNCHANGED token
       \/ /\ token[m] = "old" /\ m \notin called /\ ~Seen(m)
          /\ token' = [token EXCEPT ![m] = "unknown"] /\ UNCHANGED snap
    /\ UNCHANGED <<watch, called, complete, chain, stream, feed, scan, faults>>

OpenCall(m) ==
    /\ chain[m] # "none" /\ called' = called \cup {m}
    /\ UNCHANGED <<token, watch, snap, complete, chain, stream, feed, scan, faults>>

CloseCall(m) ==
    /\ m \in called /\ called' = called \ {m}
    /\ UNCHANGED <<token, watch, snap, complete, chain, stream, feed, scan, faults>>

Restart ==
    /\ faults < MaxFaults /\ faults' = faults + 1
    /\ stream' = "down"
    /\ feed' = [f \in Feeds |-> NoFeed]
    /\ scan' = AtStart("prepare", FALSE)
    /\ UNCHANGED <<tables, chain>>

Cycle ==
    \/ Prepare \/ Rebalance \/ Drop \/ Notify \/ LeavePhase1
    \/ List \/ Insert \/ Track \/ LeavePhase \/ HandOff \/ EndCycle
    \/ \E m \in Mints : AnalyseRow(m) \/ Analyse(m) \/ ObserveCurve(m)

FeedStep == \E f \in Feeds : FeedAdds(f)

Next ==
    \/ Cycle \/ ListMisread \/ ListFails \/ WriteFails \/ FeedStep
    \/ Connect \/ Disconnect \/ Silence \/ Restart
    \/ \E f \in Feeds : FeedFails(f) \/ \E m \in Mints : FeedInserts(f, m)
    \/ \E m \in Mints : \/ PollerLooks(m) \/ Create(m) \/ Graduate(m) \/ SinkCreate(m)
                        \/ SinkBuy(m) \/ SinkMigrate(m) \/ Later(m) \/ Prune(m) \/ OpenCall(m) \/ CloseCall(m)

(***************************************************************************)
(* The scanner loop and the sinks run on; time passes.                     *)
(***************************************************************************)
Fairness == WF_vars(Cycle) /\ WF_vars(FeedStep)

Spec == Init /\ [][Next]_vars /\ Fairness

-----------------------------------------------------------------------------
(***************************************************************************)
(* A row leaves the watchlist only after a look at its token, for its age, *)
(* or because the list is over its capacity: a fresh addition is never     *)
(* dropped for want of measurements (should_evict_watchlist_candidate).    *)
(***************************************************************************)
FirstLookGranted ==
    [][\A m \in Mints : watch[m].active /\ ~watch'[m].active =>
          Seen(m) \/ watch[m].old \/ Cardinality(Active) > MaxActive]_vars

(***************************************************************************)
(* When the stream falls silent for good, connected or not, the scanner    *)
(* keeps walking the chain itself, and a mint that its walks take again    *)
(* and again is known again and again, whatever failed before.             *)
(***************************************************************************)
Walking == scan.phase = "2" /\ scan.step = "pick" /\ ~scan.fresh

SilentStreamCovered ==
    (<>[](stream # "live")) =>
       /\ []<>Walking
       /\ \A m \in Mints : ([]<>(Walking /\ m \in scan.todo)) => []<>Known(m)

(***************************************************************************)
(* "Don't pull active-call mints off the watchlist." (scanner.rs:380)      *)
(***************************************************************************)
CalledStayWatched ==
    [][\A m \in Mints : m \in called /\ watch[m].active /\ m \in called' => watch'[m].active]_vars
=============================================================================
