--------------------------- MODULE TokenAnalysis ---------------------------
(***************************************************************************)
(* One analysis of a mint, statement by statement (analyze_token,          *)
(* src/src/signals/mod.rs), and the launch forensics it starts in the      *)
(* background (src/src/launch_forensics.rs).  The scanner, the discovery   *)
(* pollers, the bot and the tool server analyse concurrently; the          *)
(* snapshots are the only thing they share, with the set of mints whose    *)
(* forensics are being computed.                                           *)
(*                                                                         *)
(* A snapshot keeps what later readers look at: whether there is one, the  *)
(* bundle and insider shares (0 or, above the gate, 1) and the time they   *)
(* were computed at.  Alerts are rows nobody reads back and are left out.  *)
(***************************************************************************)
EXTENDS Integers, FiniteSets

CONSTANTS Mints, Analysts, Jobs, \* Jobs: identities of background tasks
          None,
          Dirty,    \* mints whose launch was bundled and whose holders share a funder
          Refresh,  \* an hour, in ticks
          MaxTime, MaxFaults

ASSUME AnalysisAssumption ==
    /\ Dirty \subseteq Mints /\ None \notin Mints \cup Jobs
    /\ Refresh \in Nat \ {0} /\ MaxTime \in Nat \ {0} /\ MaxFaults \in Nat

VARIABLES row,       \* the newest snapshot of each mint
          cohort,    \* mints whose first buyers were recorded
          analyst,   \* [pc, mint, delta, stamp, shares] of each analysis
          inFlight,  \* FORENSICS_IN_FLIGHT
          job,       \* [pc, mint, bundle, insider, answered] of each task
          persisted, \* ghost: the shares last written, and by which answers
          now,
          faults     \* failed requests and lost processes so far

vars == <<row, cohort, analyst, inFlight, job, persisted, now, faults>>

Share    == {0, 1}
Shares   == [bundle : Share, insider : Share, at : 0 .. MaxTime]
Unmeasured == [bundle |-> 0, insider |-> 0, at |-> 0]
Calls    == {"supply", "bundle", "insider"}
NoJob    == [pc |-> "idle", mint |-> None, bundle |-> 0, insider |-> 0,
             answered |-> {}]
AtRest   == [pc |-> "idle", mint |-> None, delta |-> FALSE, stamp |-> 0,
             shares |-> Unmeasured]
True(m)  == IF m \in Dirty THEN 1 ELSE 0
SharesOf(m) == [bundle |-> row[m].bundle, insider |-> row[m].insider,
                at |-> row[m].at]

TypeOK ==
    /\ row \in [Mints -> [seen : BOOLEAN, bundle : Share, insider : Share,
                          at : 0 .. MaxTime]]
    /\ cohort \subseteq Mints /\ inFlight \subseteq Mints
    /\ analyst \in [Analysts ->
           [pc : {"idle", "fetched", "captured", "compared", "inserted", "due", "read"},
            mint : Mints \cup {None}, delta : BOOLEAN, stamp : 0 .. MaxTime,
            shares : Shares]]
    /\ job \in [Jobs -> [pc : {"idle", "supply", "shares", "persist", "release"},
                         mint : Mints \cup {None}, bundle : Share, insider : Share,
                         answered : SUBSET Calls]]
    /\ persisted \in [Mints -> [shares : Shares, answered : SUBSET Calls]]
    /\ now \in 1 .. MaxTime /\ faults \in 0 .. MaxFaults

Init ==
    /\ row = [m \in Mints |-> [seen |-> FALSE, bundle |-> 0, insider |-> 0, at |-> 0]]
    /\ cohort = {} /\ inFlight = {}
    /\ analyst = [a \in Analysts |-> AtRest]
    /\ job = [j \in Jobs |-> NoJob]
    /\ persisted = [m \in Mints |-> [shares |-> Unmeasured, answered |-> {}]]
    /\ now = 1 /\ faults = 0

Moves(a, pc) == analyst' = [analyst EXCEPT ![a].pc = pc]

(***************************************************************************)
(* Mint, supply, holders, signatures and market are fetched and scored;    *)
(* a failed holders or signatures request ends the analysis unrecorded.    *)
(***************************************************************************)
Fetch(a, m) ==
    /\ analyst[a].pc = "idle"
    /\ analyst' = [analyst EXCEPT ![a] = [AtRest EXCEPT !.pc = "fetched", !.mint = m]]
    /\ UNCHANGED <<row, cohort, inFlight, job, persisted, now, faults>>

(***************************************************************************)
(* The first twenty holders are recorded as the cohort, unless there is    *)
(* one or their owners cannot be resolved.                                 *)
(***************************************************************************)
CaptureCohort(a) ==
    /\ analyst[a].pc = "fetched"
    /\ \/ cohort' = cohort \cup {analyst[a].mint} /\ faults' = faults
       \/ /\ faults < MaxFaults
          /\ faults' = faults + 1 /\ cohort' = cohort
    /\ Moves(a, "captured")
    /\ UNCHANGED <<row, inFlight, job, persisted, now>>

(***************************************************************************)
(* compute_delta against the newest snapshot, if there is one.             *)
(***************************************************************************)
ComputeDelta(a) ==
    /\ analyst[a].pc = "captured"
    /\ analyst' = [analyst EXCEPT ![a].pc = "compared",
                                  ![a].delta = row[analyst[a].mint].seen]
    /\ UNCHANGED <<row, cohort, inFlight, job, persisted, now, faults>>

(* Mutant: the new row starts unmeasured. *)
InsertSnapshotBlank(a) ==
    /\ analyst[a].pc = "compared"
    /\ row' = [row EXCEPT ![analyst[a].mint] =
                  [seen |-> TRUE, bundle |-> 0, insider |-> 0, at |-> 0]]
    /\ Moves(a, "inserted")
    /\ UNCHANGED <<cohort, inFlight, job, persisted, now, faults>>

(***************************************************************************)
(* insert_snapshot carries the shares of the newest row into the new one,  *)
(* under one lock.                                                         *)
(***************************************************************************)
InsertSnapshot(a) ==
    /\ analyst[a].pc = "compared"
    /\ row' = [row EXCEPT ![analyst[a].mint].seen = TRUE]
    /\ Moves(a, "inserted")
    /\ UNCHANGED <<cohort, inFlight, job, persisted, now, faults>>

(***************************************************************************)
(* The age of the shares is read first, the mint claimed afterwards.       *)
(***************************************************************************)
ReadStamp(a) ==
    /\ analyst[a].pc = "inserted"
    /\ analyst' = [analyst EXCEPT ![a].pc = "due",
                                  ![a].stamp = row[analyst[a].mint].at]
    /\ UNCHANGED <<row, cohort, inFlight, job, persisted, now, faults>>

Free == {j \in Jobs : job[j].pc = "idle"}

(* Mutant: the claim set is not consulted. *)
ClaimComputeStampOnly(a) ==
    LET m == analyst[a].mint IN
    /\ analyst[a].pc = "due"
    /\ IF now - analyst[a].stamp >= Refresh
       THEN \E j \in Free :
                /\ inFlight' = inFlight \cup {m}
                /\ job' = [job EXCEPT ![j] = [NoJob EXCEPT !.pc = "supply", !.mint = m]]
       ELSE UNCHANGED <<inFlight, job>>
    /\ Moves(a, "read")
    /\ UNCHANGED <<row, cohort, persisted, now, faults>>

ClaimCompute(a) ==
    LET m == analyst[a].mint IN
    /\ analyst[a].pc = "due"
    /\ IF now - analyst[a].stamp >= Refresh /\ m \notin inFlight
       THEN \E j \in Free :
                /\ inFlight' = inFlight \cup {m}
                /\ job' = [job EXCEPT ![j] = [NoJob EXCEPT !.pc = "supply", !.mint = m]]
       ELSE UNCHANGED <<inFlight, job>>
    /\ Moves(a, "read")
    /\ UNCHANGED <<row, cohort, persisted, now, faults>>

(***************************************************************************)
(* What the gates will see: the shares of the newest row.                  *)
(***************************************************************************)
ReadForensics(a) ==
    /\ analyst[a].pc = "read"
    /\ analyst' = [analyst EXCEPT ![a] = [AtRest EXCEPT !.shares = SharesOf(analyst[a].mint)]]
    /\ UNCHANGED <<row, cohort, inFlight, job, persisted, now, faults>>

-----------------------------------------------------------------------------
(***************************************************************************)
(* The task: supply, largest accounts and their owners first; a failure    *)
(* of any leaves nothing to write.                                         *)
(***************************************************************************)
AskSupply(j) ==
    /\ job[j].pc = "supply"
    /\ \/ /\ job' = [job EXCEPT ![j].pc = "shares", ![j].answered = {"supply"}]
          /\ faults' = faults
       \/ /\ faults < MaxFaults /\ faults' = faults + 1
          /\ job' = [job EXCEPT ![j].pc = "release"]
    /\ UNCHANGED <<row, cohort, analyst, inFlight, persisted, now>>

(***************************************************************************)
(* The three sub-computes run together.  A bundle request that fails is an *)
(* error; a funder request that fails is swallowed, as is the smart-money  *)
(* one, so their sub-computes succeed with nothing.  The row is given up   *)
(* only when all three are errors, which therefore never happens.          *)
(***************************************************************************)
SubResult(m, answers) == [bundle  |-> IF "bundle" \in answers THEN True(m) ELSE 0,
                          insider |-> IF "insider" \in answers THEN True(m) ELSE 0]

MeasureShares(j) ==
    /\ job[j].pc = "shares"
    /\ \E answers \in SUBSET {"bundle", "insider"} :
         LET failed == 2 - Cardinality(answers)
             got    == SubResult(job[j].mint, answers)
         IN  /\ faults + failed <= MaxFaults /\ faults' = faults + failed
             /\ job' = [job EXCEPT ![j].pc = "persist",
                           ![j].bundle = got.bundle, ![j].insider = got.insider,
                           ![j].answered = answers]
    /\ UNCHANGED <<row, cohort, analyst, inFlight, persisted, now>>

(***************************************************************************)
(* After 180 s the compute is dropped wherever it is.                      *)
(***************************************************************************)
Timeout(j) ==
    /\ job[j].pc \in {"supply", "shares"} /\ faults < MaxFaults
    /\ faults' = faults + 1
    /\ job' = [job EXCEPT ![j].pc = "release"]
    /\ UNCHANGED <<row, cohort, analyst, inFlight, persisted, now>>

Persist(j) ==
    LET m == job[j].mint
        shares == [bundle |-> job[j].bundle, insider |-> job[j].insider, at |-> now]
    IN
    /\ job[j].pc = "persist"
    /\ row' = [row EXCEPT ![m].bundle = shares.bundle, ![m].insider = shares.insider,
                          ![m].at = now]
    /\ persisted' = [persisted EXCEPT ![m] = [shares |-> shares,
                                              answered |-> job[j].answered]]
    /\ job' = [job EXCEPT ![j].pc = "release"]
    /\ UNCHANGED <<cohort, analyst, inFlight, now, faults>>

(* Mutant: a task that has nothing to write returns with its claim. *)
ReleaseOnlyWritten(j) ==
    /\ job[j].pc = "release"
    /\ inFlight' = IF job[j].answered = {} THEN inFlight ELSE inFlight \ {job[j].mint}
    /\ job' = [job EXCEPT ![j] = NoJob]
    /\ UNCHANGED <<row, cohort, analyst, persisted, now, faults>>

Release(j) ==
    /\ job[j].pc = "release"
    /\ inFlight' = inFlight \ {job[j].mint}
    /\ job' = [job EXCEPT ![j] = NoJob]
    /\ UNCHANGED <<row, cohort, analyst, persisted, now, faults>>

-----------------------------------------------------------------------------
(***************************************************************************)
(* The process ends and starts again: snapshots and cohorts are on disk.   *)
(***************************************************************************)
Restart ==
    /\ faults < MaxFaults /\ faults' = faults + 1
    /\ analyst' = [a \in Analysts |-> AtRest]
    /\ job' = [j \in Jobs |-> NoJob] /\ inFlight' = {}
    /\ UNCHANGED <<row, cohort, persisted, now>>

Tick ==
    /\ now < MaxTime /\ now' = now + 1
    /\ UNCHANGED <<row, cohort, analyst, inFlight, job, persisted, faults>>

Analyse(a) ==
    \/ CaptureCohort(a) \/ ComputeDelta(a) \/ InsertSnapshot(a)
    \/ ReadStamp(a) \/ ClaimCompute(a) \/ ReadForensics(a)

Compute(j) == AskSupply(j) \/ MeasureShares(j) \/ Persist(j) \/ Release(j)

Next ==
    \/ \E a \in Analysts : Analyse(a) \/ \E m \in Mints : Fetch(a, m)
    \/ \E j \in Jobs : Compute(j) \/ Timeout(j)
    \/ Restart \/ Tick

(***************************************************************************)
(* A spawned task runs on: every request it makes ends or times out.       *)
(***************************************************************************)
Fairness == \A j \in Jobs : WF_vars(Compute(j))

Spec == Init /\ [][Next]_vars /\ Fairness

-----------------------------------------------------------------------------
(***************************************************************************)
(* One compute per mint, and a claim without a compute never stays.        *)
(***************************************************************************)
OneComputePerMint ==
    \A m \in Mints : LET running == {j \in Jobs : job[j].mint = m}
                     IN  /\ Cardinality(running) <= 1
                         /\ m \in inFlight <=> running # {}

(***************************************************************************)
(* Measured shares are never reopened: whichever analyses insert rows      *)
(* while a compute runs, and across a restart, the newest row holds the    *)
(* shares last written.                                                    *)
(***************************************************************************)
ForensicsCarried ==
    \A m \in Mints : row[m].seen => SharesOf(m) = persisted[m].shares

(***************************************************************************)
(* Every claim is released, whatever the requests of its compute do, so a  *)
(* mint can always be measured again.                                      *)
(***************************************************************************)
ClaimReleased == \A m \in Mints : m \in inFlight ~> m \notin inFlight

(***************************************************************************)
(* "If all three RPC sub-computes failed, treat the whole compute as       *)
(* unmeasured so the persist path skips the write"                         *)
(* (launch_forensics.rs:93).                                               *)
(***************************************************************************)
UnmeasuredNotWritten ==
    \A m \in Mints : row[m].at # 0 => persisted[m].answered # {}
=============================================================================
