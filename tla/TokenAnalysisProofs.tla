------------------------ MODULE TokenAnalysisProofs ------------------------
(***************************************************************************)
(* Theorems about TokenAnalysis, for any mints, any number of concurrent   *)
(* analyses and background tasks, and any faults: the model checker covers *)
(* two analyses and two tasks of one mint.                                 *)
(***************************************************************************)
EXTENDS TokenAnalysis, FiniteSetTheorems, TLAPS

\* The three parts of TypeOK.
TypeRows ==
    /\ row \in [Mints -> [seen : BOOLEAN, bundle : Share, insider : Share,
                          at : 0 .. MaxTime]]
    /\ persisted \in [Mints -> [shares : Shares, answered : SUBSET Calls]]
    /\ cohort \subseteq Mints /\ inFlight \subseteq Mints
    /\ now \in 1 .. MaxTime /\ faults \in 0 .. MaxFaults

Analysis ==
    [pc : {"idle", "fetched", "captured", "compared", "inserted", "due", "read"},
     mint : Mints \cup {None}, delta : BOOLEAN, stamp : 0 .. MaxTime, shares : Shares]
TypeAnalyses == analyst \in [Analysts -> Analysis]

TaskState == [pc : {"idle", "supply", "shares", "persist", "release"},
              mint : Mints \cup {None}, bundle : Share, insider : Share,
              answered : SUBSET Calls]
TypeJobs == job \in [Jobs -> TaskState]

\* A task that runs works for a mint, and an idle one for none.
JobsOK == \A j \in Jobs : job[j].pc = "idle" <=> job[j].mint = None

\* So does an analysis.
AnalysesOK == \A a \in Analysts : analyst[a].pc # "idle" => analyst[a].mint \in Mints

\* The claims are exactly the mints of the tasks, each of one task.
ClaimsHeld ==
    /\ \A j \in Jobs : job[j].pc # "idle" => job[j].mint \in inFlight
    /\ \A i, j \in Jobs :
          job[i].pc # "idle" /\ job[j].pc # "idle" /\ job[i].mint = job[j].mint => i = j
    /\ \A m \in inFlight : \E j \in Jobs : job[j].mint = m /\ job[j].pc # "idle"

\* The newest row of a mint holds what was last written of it.
Carried == \A m \in Mints : SharesOf(m) = persisted[m].shares

Types == TypeRows /\ TypeAnalyses /\ TypeJobs
IInv  == Types /\ JobsOK /\ AnalysesOK /\ ClaimsHeld /\ Carried

-----------------------------------------------------------------------------
USE AnalysisAssumption

LEMMA InitIInv == Init => IInv
<1> SUFFICES ASSUME Init PROVE IInv
  OBVIOUS
<1> USE DEF Init, Share, Shares, Calls, NoJob, AtRest, Unmeasured
<1>1. TypeRows BY DEF TypeRows
<1>2. TypeAnalyses BY DEF TypeAnalyses, Analysis
<1>3. TypeJobs BY DEF TypeJobs, TaskState
<1>4. JobsOK /\ AnalysesOK /\ ClaimsHeld BY DEF JobsOK, AnalysesOK, ClaimsHeld
<1>5. Carried BY DEF Carried, SharesOf
<1> QED BY <1>1, <1>2, <1>3, <1>4, <1>5 DEF IInv, Types

LEMMA TypeParts == Types <=> TypeOK
BY DEF Types, TypeOK, TypeRows, TypeAnalyses, Analysis, TypeJobs, TaskState

-----------------------------------------------------------------------------
(* The steps of an analysis.                                               *)

\* A step of one analysis that keeps the rows, the claims and the tasks.
LEMMA AnalystAlone ==
    ASSUME IInv, TypeAnalyses', AnalysesOK',
           cohort' \subseteq Mints, faults' \in 0 .. MaxFaults,
           UNCHANGED <<row, inFlight, job, persisted, now>>
    PROVE  IInv'
<1>1. TypeRows' BY DEF IInv, Types, TypeRows
<1>2. TypeJobs' /\ JobsOK' /\ ClaimsHeld' /\ Carried'
  BY DEF IInv, Types, TypeJobs, TaskState, JobsOK, ClaimsHeld, Carried, SharesOf
<1> QED BY <1>1, <1>2 DEF IInv, Types

LEMMA RestIsAnalysis == AtRest \in Analysis /\ AtRest.pc = "idle"
<1>1. Unmeasured \in Shares BY DEF Unmeasured, Share, Shares
<1>2. AtRest \in Analysis BY <1>1 DEF AtRest, Analysis
<1>3. AtRest.pc = "idle" BY DEF AtRest
<1> QED BY <1>2, <1>3

LEMMA FetchStep ==
    ASSUME IInv, NEW a \in Analysts, NEW m \in Mints, Fetch(a, m)
    PROVE  IInv'
<1> DEFINE new == [AtRest EXCEPT !.pc = "fetched", !.mint = m]
<1>2. new \in Analysis /\ new.mint = m BY RestIsAnalysis DEF Analysis
<1>3. analyst' = [analyst EXCEPT ![a] = new] BY DEF Fetch
<1> HIDE DEF new
<1>1. TypeAnalyses' /\ AnalysesOK'
  BY <1>2, <1>3 DEF IInv, Types, TypeAnalyses, AnalysesOK
<1> QED BY <1>1, AnalystAlone DEF Fetch, IInv, Types, TypeRows

LEMMA CaptureStep ==
    ASSUME IInv, NEW a \in Analysts, CaptureCohort(a)
    PROVE  IInv'
<1>1. TypeAnalyses' /\ AnalysesOK'
  <2>1. analyst' = [analyst EXCEPT ![a].pc = "captured"] BY DEF CaptureCohort, Moves
  <2>2. TypeAnalyses' BY <2>1 DEF IInv, Types, TypeAnalyses, Analysis
  <2>3. AnalysesOK' BY <2>1 DEF IInv, Types, TypeAnalyses, Analysis, AnalysesOK, CaptureCohort
  <2> QED BY <2>2, <2>3
<1>2. cohort' \subseteq Mints
  BY DEF IInv, Types, TypeRows, AnalysesOK, CaptureCohort
<1>3. faults' \in 0 .. MaxFaults BY DEF IInv, Types, TypeRows, CaptureCohort
<1> QED BY <1>1, <1>2, <1>3, AnalystAlone DEF CaptureCohort

LEMMA DeltaStep ==
    ASSUME IInv, NEW a \in Analysts, ComputeDelta(a)
    PROVE  IInv'
<1>1. analyst[a].mint \in Mints BY DEF IInv, AnalysesOK, ComputeDelta
<1>2. row[analyst[a].mint].seen \in BOOLEAN BY <1>1 DEF IInv, Types, TypeRows
<1>3. TypeAnalyses'
  <2> DEFINE new == [analyst[a] EXCEPT !.pc = "compared",
                                       !.delta = row[analyst[a].mint].seen]
  <2>1. new \in Analysis BY <1>2 DEF IInv, Types, TypeAnalyses, Analysis
  <2>2. analyst' = [analyst EXCEPT ![a] = new] BY DEF ComputeDelta
  <2> HIDE DEF new
  <2> QED BY <2>1, <2>2 DEF IInv, Types, TypeAnalyses
<1>4. AnalysesOK'
  BY DEF IInv, Types, TypeAnalyses, Analysis, ComputeDelta, AnalysesOK
<1> QED BY <1>3, <1>4, AnalystAlone DEF ComputeDelta, IInv, Types, TypeRows

LEMMA StampStep ==
    ASSUME IInv, NEW a \in Analysts, ReadStamp(a)
    PROVE  IInv'
<1>1. analyst[a].mint \in Mints BY DEF IInv, AnalysesOK, ReadStamp
<1>2. row[analyst[a].mint].at \in 0 .. MaxTime BY <1>1 DEF IInv, Types, TypeRows
<1>3. TypeAnalyses' BY <1>2 DEF IInv, Types, ReadStamp, TypeAnalyses, Analysis
<1>4. AnalysesOK' BY DEF IInv, Types, TypeAnalyses, Analysis, ReadStamp, AnalysesOK
<1> QED BY <1>3, <1>4, AnalystAlone DEF ReadStamp, IInv, Types, TypeRows

LEMMA ReadStep ==
    ASSUME IInv, NEW a \in Analysts, ReadForensics(a)
    PROVE  IInv'
<1>1. analyst[a].mint \in Mints BY DEF IInv, AnalysesOK, ReadForensics
<1>2. SharesOf(analyst[a].mint) \in Shares
  BY <1>1 DEF IInv, Types, TypeRows, SharesOf, Shares
<1> DEFINE new == [AtRest EXCEPT !.shares = SharesOf(analyst[a].mint)]
<1>3. new \in Analysis /\ new.pc = "idle" BY <1>2, RestIsAnalysis DEF Analysis
<1>4. analyst' = [analyst EXCEPT ![a] = new] BY DEF ReadForensics
<1> HIDE DEF new
<1>5. TypeAnalyses' /\ AnalysesOK'
  BY <1>3, <1>4 DEF IInv, Types, TypeAnalyses, AnalysesOK
<1> QED BY <1>5, AnalystAlone DEF ReadForensics, IInv, Types, TypeRows

LEMMA InsertStep ==
    ASSUME IInv, NEW a \in Analysts, InsertSnapshot(a)
    PROVE  IInv'
<1>1. analyst[a].mint \in Mints BY DEF IInv, AnalysesOK, InsertSnapshot
<1>2. TypeAnalyses' /\ AnalysesOK'
  <2>1. analyst' = [analyst EXCEPT ![a].pc = "inserted"] BY DEF InsertSnapshot, Moves
  <2>2. TypeAnalyses' BY <2>1 DEF IInv, Types, TypeAnalyses, Analysis
  <2>3. AnalysesOK' BY <2>1 DEF IInv, Types, TypeAnalyses, Analysis, AnalysesOK, InsertSnapshot
  <2> QED BY <2>2, <2>3
<1>3. TypeRows' /\ Carried'
  <2>1. row' = [row EXCEPT ![analyst[a].mint].seen = TRUE] BY DEF InsertSnapshot
  <2>2. row' \in [Mints -> [seen : BOOLEAN, bundle : Share, insider : Share,
                            at : 0 .. MaxTime]]
    BY <1>1, <2>1 DEF IInv, Types, TypeRows
  <2>3. TypeRows' BY <2>2 DEF IInv, Types, TypeRows, InsertSnapshot
  <2>4. Carried'
    BY <1>1, <2>1 DEF IInv, Types, InsertSnapshot, TypeRows, Carried, SharesOf
  <2> QED BY <2>3, <2>4
<1>4. TypeJobs' /\ JobsOK' /\ ClaimsHeld'
  BY DEF IInv, Types, InsertSnapshot, TypeJobs, TaskState, JobsOK, ClaimsHeld
<1> QED BY <1>2, <1>3, <1>4 DEF IInv, Types

LEMMA ClaimStep ==
    ASSUME IInv, NEW a \in Analysts, ClaimCompute(a)
    PROVE  IInv'
<1> DEFINE m == analyst[a].mint
<1>1. TypeAnalyses' /\ AnalysesOK'
  <2>1. analyst' = [analyst EXCEPT ![a].pc = "read"] BY DEF ClaimCompute, Moves
  <2>2. TypeAnalyses' BY <2>1 DEF IInv, Types, TypeAnalyses, Analysis
  <2>3. AnalysesOK' BY <2>1 DEF IInv, Types, TypeAnalyses, Analysis, AnalysesOK, ClaimCompute
  <2> QED BY <2>2, <2>3
<1>2. m \in Mints BY DEF IInv, AnalysesOK, ClaimCompute
<1>3. TypeRows' /\ Carried'
  BY <1>2 DEF IInv, Types, ClaimCompute, TypeRows, Carried, SharesOf
<1>4. TypeJobs' /\ JobsOK' /\ ClaimsHeld'
  <2>1. CASE UNCHANGED <<inFlight, job>>
    BY <2>1 DEF IInv, Types, TypeJobs, TaskState, JobsOK, ClaimsHeld
  <2>2. CASE ~UNCHANGED <<inFlight, job>>
    <3>1. PICK j \in Free :
            /\ m \notin inFlight
            /\ inFlight' = inFlight \cup {m}
            /\ job' = [job EXCEPT ![j] = [NoJob EXCEPT !.pc = "supply", !.mint = m]]
      BY <2>2 DEF ClaimCompute
    <3>2. j \in Jobs /\ job[j].pc = "idle" BY <3>1 DEF Free
    <3>3. TypeJobs'
      BY <1>2, <3>1, <3>2 DEF IInv, Types, TypeJobs, TaskState, NoJob, Share, Calls
    <3>4. job'[j].pc = "supply" /\ job'[j].mint = m
      BY <3>1, <3>2 DEF IInv, Types, TypeJobs, TaskState, NoJob
    <3>5. \A i \in Jobs \ {j} : job'[i] = job[i]
      BY <3>1 DEF IInv, Types, TypeJobs, TaskState
    <3>6. JobsOK' BY <1>2, <3>4, <3>5 DEF IInv, JobsOK
    <3>7. ClaimsHeld' BY <3>1, <3>2, <3>4, <3>5 DEF IInv, ClaimsHeld
    <3> QED BY <3>3, <3>6, <3>7
  <2> QED BY <2>1, <2>2
<1> QED BY <1>1, <1>3, <1>4 DEF IInv, Types

-----------------------------------------------------------------------------
(* The steps of a background task.                                         *)

\* A task that goes on keeps its mint, and with it its claim.
LEMMA TaskAlone ==
    ASSUME IInv, NEW j \in Jobs, TypeJobs', faults' \in 0 .. MaxFaults,
           job[j].pc # "idle", job'[j].pc # "idle", job'[j].mint = job[j].mint,
           \A i \in Jobs \ {j} : job'[i] = job[i],
           UNCHANGED <<row, cohort, analyst, inFlight, persisted, now>>
    PROVE  IInv'
<1>1. TypeRows' BY DEF IInv, Types, TypeRows
<1>2. TypeAnalyses' /\ AnalysesOK' /\ Carried'
  BY DEF IInv, Types, TypeAnalyses, Analysis, AnalysesOK, Carried, SharesOf
<1>3. JobsOK' BY DEF IInv, JobsOK
<1>4. ClaimsHeld' BY DEF IInv, ClaimsHeld
<1> QED BY <1>1, <1>2, <1>3, <1>4 DEF IInv, Types

LEMMA SupplyStep ==
    ASSUME IInv, NEW j \in Jobs, AskSupply(j)
    PROVE  IInv'
<1>1. /\ TypeJobs'
      /\ job[j].pc # "idle" /\ job'[j].pc # "idle" /\ job'[j].mint = job[j].mint
      /\ \A i \in Jobs \ {j} : job'[i] = job[i]
  BY DEF IInv, Types, TypeJobs, TaskState, AskSupply, Calls
<1>2. faults' \in 0 .. MaxFaults BY DEF IInv, Types, TypeRows, AskSupply
<1> QED BY <1>1, <1>2, TaskAlone DEF AskSupply

LEMMA MeasureStep ==
    ASSUME IInv, NEW j \in Jobs, MeasureShares(j)
    PROVE  IInv'
<1>1. PICK answers \in SUBSET {"bundle", "insider"} :
        LET failed == 2 - Cardinality(answers)
            got    == SubResult(job[j].mint, answers)
        IN  /\ faults + failed <= MaxFaults /\ faults' = faults + failed
            /\ job' = [job EXCEPT ![j].pc = "persist",
                          ![j].bundle = got.bundle, ![j].insider = got.insider,
                          ![j].answered = answers]
  BY DEF MeasureShares
<1> DEFINE got == SubResult(job[j].mint, answers)
<1>2. got.bundle \in Share /\ got.insider \in Share
  BY DEF SubResult, True, Share
<1>3. answers \in SUBSET Calls BY DEF Calls
<1>4. Cardinality(answers) \in 0 .. 2
  <2>1. IsFiniteSet({"bundle", "insider"}) /\ Cardinality({"bundle", "insider"}) <= 2
    <3>1. IsFiniteSet({"bundle"}) /\ Cardinality({"bundle"}) = 1 BY FS_Singleton
    <3>2. {"bundle", "insider"} = {"bundle"} \cup {"insider"} OBVIOUS
    <3> QED BY <3>1, <3>2, FS_AddElement
  <2>2. IsFiniteSet(answers) /\ Cardinality(answers) <= Cardinality({"bundle", "insider"})
    BY <2>1, FS_Subset
  <2> QED BY <2>1, <2>2, FS_CardinalityType
<1>5. faults' \in 0 .. MaxFaults BY <1>1, <1>4 DEF IInv, Types, TypeRows
<1>6. job' = [job EXCEPT ![j].pc = "persist",
                 ![j].bundle = got.bundle, ![j].insider = got.insider,
                 ![j].answered = answers]
  BY <1>1
<1> HIDE DEF got
<1>9. [job[j] EXCEPT !.pc = "persist", !.bundle = got.bundle,
                       !.insider = got.insider, !.answered = answers] \in TaskState
  BY <1>2, <1>3 DEF IInv, Types, TypeJobs, TaskState
<1>7. TypeJobs' BY <1>6, <1>9 DEF IInv, Types, TypeJobs
<1>8. /\ job'[j].pc # "idle" /\ job'[j].mint = job[j].mint
      /\ \A i \in Jobs \ {j} : job'[i] = job[i]
  BY <1>6 DEF IInv, Types, TypeJobs, TaskState
<1> QED BY <1>5, <1>7, <1>8, TaskAlone DEF MeasureShares

LEMMA TimeoutStep ==
    ASSUME IInv, NEW j \in Jobs, Timeout(j)
    PROVE  IInv'
<1>1. /\ TypeJobs'
      /\ job[j].pc # "idle" /\ job'[j].pc # "idle" /\ job'[j].mint = job[j].mint
      /\ \A i \in Jobs \ {j} : job'[i] = job[i]
  BY DEF IInv, Types, TypeJobs, TaskState, Timeout
<1>2. faults' \in 0 .. MaxFaults BY DEF IInv, Types, TypeRows, Timeout
<1> QED BY <1>1, <1>2, TaskAlone DEF Timeout

LEMMA PersistStep ==
    ASSUME IInv, NEW j \in Jobs, Persist(j)
    PROVE  IInv'
<1>1. job[j].mint \in Mints BY DEF IInv, Types, TypeJobs, TaskState, JobsOK, Persist
<1>2. job[j].bundle \in Share /\ job[j].insider \in Share /\ job[j].answered \in SUBSET Calls
  BY DEF IInv, Types, TypeJobs, TaskState
<1>3. now \in 0 .. MaxTime BY DEF IInv, Types, TypeRows
<1>4. TypeRows'
  <2> DEFINE shares == [bundle |-> job[j].bundle, insider |-> job[j].insider, at |-> now]
  <2>1. shares \in Shares BY <1>2, <1>3 DEF Shares
  <2>2. persisted' = [persisted EXCEPT ![job[j].mint] =
                         [shares |-> shares, answered |-> job[j].answered]]
    BY DEF Persist
  <2>3. row' = [row EXCEPT ![job[j].mint].bundle = job[j].bundle,
                           ![job[j].mint].insider = job[j].insider,
                           ![job[j].mint].at = now]
    BY DEF Persist
  <2>4. row' \in [Mints -> [seen : BOOLEAN, bundle : Share, insider : Share,
                            at : 0 .. MaxTime]]
    BY <1>1, <1>2, <1>3, <2>3 DEF IInv, Types, TypeRows
  <2> HIDE DEF shares
  <2>5. persisted' \in [Mints -> [shares : Shares, answered : SUBSET Calls]]
    BY <1>1, <1>2, <2>1, <2>2 DEF IInv, Types, TypeRows
  <2> QED BY <2>4, <2>5 DEF IInv, Types, TypeRows, Persist
<1>5. Carried' BY <1>1 DEF IInv, Types, TypeRows, Carried, SharesOf, Persist
<1>6. TypeJobs' /\ JobsOK' BY DEF IInv, Types, TypeJobs, TaskState, JobsOK, Persist
<1>7. ClaimsHeld' BY DEF IInv, Types, TypeJobs, TaskState, ClaimsHeld, Persist
<1>8. TypeAnalyses' /\ AnalysesOK' BY DEF IInv, Types, TypeAnalyses, Analysis, AnalysesOK, Persist
<1> QED BY <1>4, <1>5, <1>6, <1>7, <1>8 DEF IInv, Types

LEMMA ReleaseStep ==
    ASSUME IInv, NEW j \in Jobs, Release(j)
    PROVE  IInv'
<1>1. /\ TypeJobs' /\ job'[j].pc = "idle" /\ job'[j].mint = None
      /\ \A i \in Jobs \ {j} : job'[i] = job[i]
  BY DEF IInv, Types, TypeJobs, TaskState, Release, NoJob, Share, Calls
<1>2. JobsOK' BY <1>1 DEF IInv, JobsOK
<1>3. ClaimsHeld' BY <1>1 DEF IInv, ClaimsHeld, Release
<1>4. TypeRows' /\ Carried' BY DEF IInv, Types, TypeRows, Carried, SharesOf, Release
<1>5. TypeAnalyses' /\ AnalysesOK' BY DEF IInv, Types, TypeAnalyses, Analysis, AnalysesOK, Release
<1> QED BY <1>1, <1>2, <1>3, <1>4, <1>5 DEF IInv, Types

LEMMA RestartStep == IInv /\ Restart => IInv'
<1> SUFFICES ASSUME IInv, Restart PROVE IInv'
  OBVIOUS
<1> USE DEF IInv, Types, Restart
<1>1. TypeRows' /\ Carried' BY DEF TypeRows, Carried, SharesOf
<1>2. TypeAnalyses' /\ AnalysesOK'
  BY DEF TypeAnalyses, Analysis, AnalysesOK, AtRest, Unmeasured, Share, Shares
<1>3. TypeJobs' /\ JobsOK' /\ ClaimsHeld'
  BY DEF TypeJobs, TaskState, JobsOK, ClaimsHeld, NoJob, Share, Calls
<1> QED BY <1>1, <1>2, <1>3

LEMMA RestStep == IInv /\ (Tick \/ UNCHANGED vars) => IInv'
<1> SUFFICES ASSUME IInv, Tick \/ UNCHANGED vars PROVE IInv'
  OBVIOUS
<1> USE DEF IInv, Types, Tick, vars
<1>1. TypeRows' BY DEF TypeRows
<1>2. TypeAnalyses' /\ AnalysesOK' BY DEF TypeAnalyses, Analysis, AnalysesOK
<1>3. TypeJobs' /\ JobsOK' /\ ClaimsHeld' BY DEF TypeJobs, TaskState, JobsOK, ClaimsHeld
<1>4. Carried' BY DEF Carried, SharesOf
<1> QED BY <1>1, <1>2, <1>3, <1>4

LEMMA NextIInv == IInv /\ [Next]_vars => IInv'
<1> SUFFICES ASSUME IInv, [Next]_vars PROVE IInv'
  OBVIOUS
<1>1. ASSUME NEW a \in Analysts, Analyse(a) PROVE IInv'
  BY <1>1, CaptureStep, DeltaStep, StampStep, ReadStep, InsertStep, ClaimStep DEF Analyse
<1>2. ASSUME NEW a \in Analysts, NEW m \in Mints, Fetch(a, m) PROVE IInv'
  BY <1>2, FetchStep
<1>3. ASSUME NEW j \in Jobs, Compute(j) PROVE IInv'
  BY <1>3, SupplyStep, MeasureStep, PersistStep, ReleaseStep DEF Compute
<1>4. ASSUME NEW j \in Jobs, Timeout(j) PROVE IInv'
  BY <1>4, TimeoutStep
<1>5. CASE Restart BY <1>5, RestartStep
<1>6. CASE Tick \/ UNCHANGED vars BY <1>6, RestStep
<1> QED BY <1>1, <1>2, <1>3, <1>4, <1>5, <1>6 DEF Next

(***************************************************************************)
(* The inductive invariant: types, the one-to-one agreement of claims and  *)
(* background tasks, and the shares of the newest snapshots.               *)
(***************************************************************************)
THEOREM Invariant == Spec => []IInv
<1>1. Init => IInv BY InitIInv
<1>2. IInv /\ [Next]_vars => IInv' BY NextIInv
<1> QED BY <1>1, <1>2, PTL DEF Spec

(***************************************************************************)
(* Every variable keeps its type, for any mints, tasks and faults.         *)
(***************************************************************************)
THEOREM TypeCorrect == Spec => []TypeOK
<1>1. IInv => TypeOK BY TypeParts DEF IInv
<1> QED BY <1>1, Invariant, PTL

-----------------------------------------------------------------------------
LEMMA OneTaskIsOne ==
    ASSUME TypeJobs, JobsOK, ClaimsHeld, NEW m \in Mints
    PROVE  LET running == {j \in Jobs : job[j].mint = m}
           IN  Cardinality(running) <= 1 /\ (m \in inFlight <=> running # {})
<1> DEFINE running == {j \in Jobs : job[j].mint = m}
<1>1. m # None OBVIOUS
<1>2. \A j \in running : j \in Jobs /\ job[j].pc # "idle" BY <1>1 DEF JobsOK
<1>3. \A i, j \in running : i = j BY <1>2 DEF ClaimsHeld
<1>4. Cardinality(running) <= 1
  <2>1. CASE running = {}
    <3> HIDE DEF running
    <3>1. Cardinality(running) = 0 BY <2>1, FS_EmptySet
    <3> QED BY <3>1
  <2>2. ASSUME NEW j \in running PROVE Cardinality(running) <= 1
    <3>1. running = {j} BY <1>3
    <3> HIDE DEF running
    <3>2. Cardinality(running) = 1 BY <3>1, FS_Singleton
    <3> QED BY <3>2
  <2> HIDE DEF running
  <2> QED BY <2>1, <2>2
<1>5. m \in inFlight => running # {} BY DEF ClaimsHeld
<1>6. running # {} => m \in inFlight BY <1>2 DEF ClaimsHeld
<1> QED BY <1>4, <1>5, <1>6

(***************************************************************************)
(* One background compute per mint, and a claim exactly while it runs,     *)
(* whichever tasks analyse the mint at once (FORENSICS_IN_FLIGHT).         *)
(***************************************************************************)
THEOREM OneCompute == Spec => []OneComputePerMint
<1>1. IInv => OneComputePerMint BY OneTaskIsOne DEF IInv, Types, OneComputePerMint
<1> QED BY <1>1, Invariant, PTL

(***************************************************************************)
(* Measured shares are never reopened by a later snapshot, over failures   *)
(* and restarts (insert_snapshot, update_launch_forensics).                *)
(***************************************************************************)
THEOREM SharesCarried == Spec => []ForensicsCarried
<1>1. IInv => ForensicsCarried BY DEF IInv, Carried, ForensicsCarried
<1> QED BY <1>1, Invariant, PTL
=============================================================================
