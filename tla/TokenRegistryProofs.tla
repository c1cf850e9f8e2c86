------------------------ MODULE TokenRegistryProofs ------------------------
(***************************************************************************)
(* Why a fresh addition to the watchlist is not dropped unmeasured, for    *)
(* every set of mints, capacity, feeds and faults.                         *)
(***************************************************************************)
EXTENDS TokenRegistry, FiniteSetTheorems, TLAPS

Row   == [row : BOOLEAN, active : BOOLEAN, class : Readings, old : BOOLEAN]
Snap  == [reading : Readings \cup {None}, recent : BOOLEAN]
Place == [phase : {"prepare", "1", "2", "2b", "4", "6"},
          step : {"start", "rebalance", "pick", "drop", "notify", "insert", "handoff"},
          todo : SUBSET Mints, evict : SUBSET Mints,
          mint : Mints \cup {None}, reading : Readings \cup {None},
          found : SUBSET ((Mints \cup {None}) \X (Readings \cup {None})), fresh : BOOLEAN, called : BOOLEAN]

TablesType == watch \in [Mints -> Row] /\ snap \in [Mints -> Snap]

(***************************************************************************)
(* A row may go once its token was looked at or it is old.  No row waits   *)
(* unmeasured under a class that rules it out.                             *)
(***************************************************************************)
Looked(m) == Seen(m) \/ watch[m].old
Judged    == \A m \in Active : Looked(m) \/ watch[m].class \notin BadClass

(***************************************************************************)
(* Between the choice of the rows to evict and their eviction, they stay   *)
(* evictable; the rows that the cycle has still to analyse stay active,    *)
(* so the one that is dropped was active when it was looked at.            *)
(***************************************************************************)
EvictJustified ==
    scan.step = "rebalance" =>
       /\ scan.phase = "prepare" /\ scan.evict \subseteq Active
       /\ scan.todo \subseteq Active \ scan.evict
       /\ \A m \in scan.evict : Looked(m) \/ Cardinality(Active) > MaxActive

DueAreActive == scan.phase = "1" => scan.todo \subseteq Active

DropJustified ==
    scan.step = "drop" =>
       scan.phase = "1" /\ scan.mint \in Active \ scan.todo /\ Looked(scan.mint)

RegistryInv ==
    TablesType /\ scan \in Place /\ Judged /\ EvictJustified /\ DueAreActive /\ DropJustified

LEMMA NothingIsRead == NoSnap \in Snap /\ NoRow \in Row /\ ~NoRow.active
BY DEF NoSnap, NoRow, Snap, Row, Readings

LEMMA Starts ==
    ASSUME NEW p \in {"prepare", "1", "2", "2b", "4", "6"}, NEW b \in BOOLEAN
    PROVE  /\ AtStart(p, b) \in Place /\ AtStart(p, b).phase = p
           /\ AtStart(p, b).step = "start" /\ AtStart(p, b).todo = {}
BY DEF AtStart, Place

LEMMA RegistryInit == Init => RegistryInv
<1> SUFFICES ASSUME Init PROVE RegistryInv
  OBVIOUS
<1>1. TablesType BY NothingIsRead DEF Init, TablesType
<1>2. Active = {} BY NothingIsRead DEF Init, Active
<1>3. scan \in Place /\ scan.step = "start" /\ scan.phase = "prepare"
  BY Starts DEF Init
<1> QED BY <1>1, <1>2, <1>3 DEF RegistryInv, Judged, EvictJustified, DueAreActive, DropJustified

(***************************************************************************)
(* What the tables never do but by Rebalance and Drop: a row that is       *)
(* active stays so.  What they never do at all: a row that may go may not  *)
(* any more.                                                               *)
(***************************************************************************)
StaysLooked == \A m \in Active : Looked(m) => Looked(m)'
Steady      == Active \subseteq Active' /\ StaysLooked

LEMMA SteadyScan ==
    ASSUME RegistryAssumption, RegistryInv, TablesType', Judged', Steady, scan' = scan
    PROVE  RegistryInv'
<1>1. IsFiniteSet(Active') /\ Cardinality(Active) \in Nat
      /\ Cardinality(Active') \in Nat /\ Cardinality(Active) <= Cardinality(Active')
  <2>1. IsFiniteSet(Active')
    BY FS_Subset DEF RegistryAssumption, Active
  <2> QED BY <2>1, FS_Subset, FS_CardinalityType DEF Steady
<1> HIDE DEF Active
<1>2. EvictJustified'
  <2> SUFFICES ASSUME scan.step = "rebalance"
      PROVE /\ scan.phase = "prepare" /\ scan.evict \subseteq Active'
            /\ scan.todo \subseteq Active' \ scan.evict
            /\ \A m \in scan.evict : Looked(m)' \/ Cardinality(Active') > MaxActive
    BY DEF EvictJustified
  <2>1. /\ scan.phase = "prepare" /\ scan.evict \subseteq Active
        /\ scan.todo \subseteq Active \ scan.evict
        /\ \A m \in scan.evict : Looked(m) \/ Cardinality(Active) > MaxActive
    BY DEF RegistryInv, EvictJustified
  <2>2. ASSUME NEW m \in scan.evict PROVE Looked(m)' \/ Cardinality(Active') > MaxActive
    <3> HIDE DEF Looked
    <3>1. CASE Looked(m) BY <2>1, <3>1 DEF Steady, StaysLooked
    <3>2. CASE Cardinality(Active) > MaxActive BY <1>1, <3>2 DEF RegistryAssumption
    <3> QED BY <2>1, <3>1, <3>2
  <2> QED BY <2>1, <2>2 DEF Steady
<1>3. DueAreActive' BY DEF RegistryInv, DueAreActive, Steady
<1>4. DropJustified' BY DEF RegistryInv, DropJustified, Steady, StaysLooked
<1> QED BY <1>2, <1>3, <1>4 DEF RegistryInv

(***************************************************************************)
(* The scan goes on to a step that neither evicts nor drops, with no more  *)
(* to do in phase 1 than before.                                           *)
(***************************************************************************)
LEMMA SteadyMove ==
    ASSUME RegistryInv, TablesType', Judged', Active \subseteq Active', scan' \in Place,
           scan'.step \notin {"rebalance", "drop"},
           scan'.phase = "1" => scan.phase = "1" /\ scan'.todo \subseteq scan.todo
    PROVE  RegistryInv'
BY DEF RegistryInv, EvictJustified, DueAreActive, DropJustified

(***************************************************************************)
(* The ways the tables change.                                             *)
(***************************************************************************)
LEMMA SameTables ==
    ASSUME RegistryInv, UNCHANGED <<watch, snap>>
    PROVE  TablesType' /\ Judged' /\ Steady
BY DEF RegistryInv, TablesType, Judged, Steady, StaysLooked, Looked, Seen, Active

LEMMA Added ==
    ASSUME RegistryInv, NEW m, NEW class \in Readings \ BadClass,
           AddToWatchlist(m, class), UNCHANGED snap
    PROVE  TablesType' /\ Judged' /\ Steady
<1>1. TablesType' BY DEF RegistryInv, TablesType, AddToWatchlist, Row
<1>2. ASSUME NEW n \in Mints
      PROVE  /\ watch'[n].old = watch[n].old
             /\ watch[n].active => watch'[n].active
             /\ watch'[n] = watch[n] \/ watch'[n].class = class
  BY DEF RegistryInv, TablesType, AddToWatchlist, Row
<1>3. Steady BY <1>2 DEF Steady, StaysLooked, Looked, Seen, Active
<1>4. Judged'
  BY <1>2 DEF RegistryInv, TablesType, Judged, Looked, Seen, Active, Row
<1> QED BY <1>1, <1>3, <1>4

LEMMA Read ==
    ASSUME RegistryInv, NEW m \in Mints, NEW r \in Readings, None \notin Readings,
           Analysed(m, r), watch' \in {watch, [watch EXCEPT ![m].class = r]}
    PROVE  TablesType' /\ Judged' /\ Steady /\ Seen(m)' /\ Active' = Active
<1>1. TablesType' BY DEF RegistryInv, TablesType, Analysed, Row, Snap
<1>2. ASSUME NEW n \in Mints
      PROVE  /\ watch'[n].old = watch[n].old /\ watch'[n].active = watch[n].active
             /\ n # m => watch'[n] = watch[n] /\ snap'[n] = snap[n]
  BY DEF RegistryInv, TablesType, Analysed, Row
<1>3. Seen(m)' BY DEF RegistryInv, TablesType, Analysed, Seen, Snap
<1>4. Steady BY <1>2, <1>3 DEF Steady, StaysLooked, Looked, Seen, Active
<1>5. Judged' BY <1>2, <1>3 DEF RegistryInv, Judged, Looked, Seen, Active
<1>6. Active' = Active BY <1>2 DEF Active
<1> QED BY <1>1, <1>3, <1>4, <1>5, <1>6

LEMMA Removed ==
    ASSUME RegistryInv, NEW gone \in SUBSET Mints, watch' = Deactivated(gone), UNCHANGED snap
    PROVE  /\ TablesType' /\ Judged' /\ StaysLooked
           /\ Active' = Active \ gone
<1>1. TablesType' BY DEF RegistryInv, TablesType, Deactivated, Row
<1>2. ASSUME NEW n \in Mints
      PROVE  /\ watch'[n].old = watch[n].old /\ watch'[n].class = watch[n].class
             /\ watch'[n].active <=> (watch[n].active /\ n \notin gone)
  BY DEF RegistryInv, TablesType, Deactivated, Row
<1>3. Active' = Active \ gone BY <1>2 DEF Active
<1>4. StaysLooked BY <1>2 DEF StaysLooked, Looked, Seen, Active
<1>5. Judged' BY <1>2 DEF RegistryInv, Judged, Looked, Seen, Active
<1> QED BY <1>1, <1>3, <1>4, <1>5

-----------------------------------------------------------------------------
(***************************************************************************)
(* The steps of the cycle.                                                 *)
(***************************************************************************)
LEMMA PrepareStep ==
    ASSUME RegistryAssumption, RegistryInv, Prepare PROVE RegistryInv' /\ Steady
<1>1. TablesType' /\ Judged' /\ Steady BY SameTables DEF Prepare, tables
<1>2. Active' = Active BY DEF Prepare, tables, Active
<1> DEFINE fit == {m \in Active : ~ShouldEvict(m)}
<1>0. PICK kept \in Best(fit, MaxActive) :
        \E due \in SUBSET kept :
           scan' = [scan EXCEPT !.step = "rebalance", !.evict = Active \ kept, !.todo = due]
  BY DEF Prepare
<1>3. PICK due \in SUBSET kept :
         scan' = [scan EXCEPT !.step = "rebalance", !.evict = Active \ kept, !.todo = due]
  BY <1>0
<1>4. IsFiniteSet(Active) /\ fit \subseteq Active
  BY FS_Subset DEF RegistryAssumption, Active
<1>5. IsFiniteSet(fit) /\ Cardinality(fit) \in Nat /\ Cardinality(Active) \in Nat
      /\ Cardinality(fit) <= Cardinality(Active)
  BY <1>4, FS_Subset, FS_CardinalityType
<1>6. kept \subseteq fit /\ (kept = fit \/ Cardinality(Active) > MaxActive)
  <2> HIDE DEF fit
  <2> QED BY <1>5 DEF Best, kSubset, RegistryAssumption
<1>7. Active \subseteq Mints BY DEF Active
<1>8. scan' \in Place BY <1>3, <1>4, <1>6, <1>7 DEF RegistryInv, Place
<1>9. /\ scan'.step = "rebalance" /\ scan'.phase = "prepare"
      /\ scan'.evict = Active \ kept /\ scan'.todo = due
  BY <1>3 DEF RegistryInv, Place, Prepare
<1>10. ASSUME NEW m \in Active \ kept PROVE Looked(m) \/ Cardinality(Active) > MaxActive
  <2>1. CASE m \in fit BY <1>6, <2>1
  <2>2. CASE m \notin fit
    <3>1. ShouldEvict(m) BY <2>2
    <3> QED BY <3>1 DEF RegistryInv, Judged, ShouldEvict, Looked, Class
  <2> QED BY <2>1, <2>2
<1>11. \A m \in Mints : Looked(m)' <=> Looked(m) BY DEF Prepare, tables, Looked, Seen
<1>12. EvictJustified'
  <2> HIDE DEF Active, Looked, fit
  <2> QED BY <1>2, <1>4, <1>6, <1>7, <1>9, <1>10, <1>11 DEF EvictJustified
<1>13. DueAreActive' /\ DropJustified' BY <1>9 DEF DueAreActive, DropJustified
<1> QED BY <1>1, <1>8, <1>12, <1>13 DEF RegistryInv

LEMMA RebalanceStep ==
    ASSUME RegistryInv, Rebalance
    PROVE  /\ RegistryInv' /\ StaysLooked
           /\ \A m \in Active \ Active' : Looked(m) \/ Cardinality(Active) > MaxActive
<1>1. scan.evict \in SUBSET Mints BY DEF RegistryInv, Place
<1>2. /\ TablesType' /\ Judged' /\ StaysLooked
      /\ Active' = Active \ scan.evict
  BY <1>1, Removed DEF Rebalance
<1>3. /\ scan' \in Place /\ scan'.phase = "1" /\ scan'.step = "pick"
      /\ scan'.todo = scan.todo
  BY DEF Rebalance, AtStart, RegistryInv, Place
<1>4. scan.todo \subseteq Active'
  BY <1>2 DEF Rebalance, RegistryInv, EvictJustified
<1>5. EvictJustified' /\ DueAreActive' /\ DropJustified'
  <2> HIDE DEF Active, Looked
  <2> QED BY <1>3, <1>4 DEF EvictJustified, DueAreActive, DropJustified
<1>6. \A m \in Active \ Active' : Looked(m) \/ Cardinality(Active) > MaxActive
  <2> HIDE DEF Active, Looked
  <2> QED BY <1>2 DEF Rebalance, RegistryInv, EvictJustified
<1> QED BY <1>2, <1>3, <1>5, <1>6 DEF RegistryInv

LEMMA DropStep ==
    ASSUME RegistryInv, Drop
    PROVE  RegistryInv' /\ StaysLooked /\ \A m \in Active \ Active' : Looked(m)
<1> DEFINE gone == IF scan.called THEN {} ELSE {scan.mint}
<1>1. /\ scan.phase = "1" /\ scan.mint \in Active /\ scan.mint \notin scan.todo
      /\ Looked(scan.mint)
  BY DEF Drop, RegistryInv, DropJustified
<1>2. gone \in SUBSET Mints BY <1>1 DEF Active
<1>3. watch' = Deactivated(gone)
  BY DEF Drop, Deactivated, RegistryInv, TablesType
<1> HIDE DEF gone
<1>4. /\ TablesType' /\ Judged' /\ StaysLooked /\ Active' = Active \ gone
  BY <1>2, <1>3, Removed DEF Drop
<1> USE DEF gone
<1>5. /\ scan' \in Place /\ scan'.phase = "1" /\ scan'.step = "notify"
      /\ scan'.todo = scan.todo
  BY <1>1 DEF Drop, RegistryInv, Place
<1>6. EvictJustified' /\ DueAreActive' /\ DropJustified'
  <2> HIDE DEF Active, Looked
  <2> QED BY <1>1, <1>4, <1>5 DEF EvictJustified, DueAreActive, DropJustified, RegistryInv
<1>7. \A m \in Active \ Active' : Looked(m)
  <2> HIDE DEF Active, Looked
  <2> QED BY <1>1, <1>4
<1> QED BY <1>4, <1>5, <1>6, <1>7 DEF RegistryInv

LEMMA AnalyseRowStep ==
    ASSUME RegistryAssumption, ReadingsAssumption, RegistryInv, NEW m \in Mints, AnalyseRow(m)
    PROVE  RegistryInv' /\ Steady
<1>0. scan.phase = "1" /\ m \in scan.todo /\ m \in Active
  BY DEF AnalyseRow, RegistryInv, DueAreActive
<1>1. CASE UNCHANGED <<snap, watch>> /\ scan' = [scan EXCEPT !.todo = @ \ {m}]
  <2>1. TablesType' /\ Judged' /\ Steady BY <1>1, SameTables
  <2>2. /\ scan' \in Place /\ scan'.step = "pick" /\ scan'.phase = "1"
        /\ scan'.todo \subseteq scan.todo
    BY <1>1 DEF AnalyseRow, RegistryInv, Place
  <2> QED BY <1>0, <2>1, <2>2, SteadyMove DEF Steady
<1>2. ASSUME NEW r \in Shown, Analysed(m, r), watch' = [watch EXCEPT ![m].class = r],
             scan' = [scan EXCEPT !.mint = m, !.reading = r, !.todo = @ \ {m},
                              !.called = m \in called,
                              !.step = IF r \in Removable THEN "drop" ELSE "notify"]
      PROVE RegistryInv' /\ Steady
  <2>1. r \in Readings /\ None \notin Readings BY DEF ReadingsAssumption
  <2>2. TablesType' /\ Judged' /\ Steady /\ Seen(m)' /\ Active' = Active
    BY <1>2, <2>1, Read
  <2>3. /\ scan' \in Place /\ scan'.phase = "1" /\ scan'.mint = m
        /\ scan'.todo = scan.todo \ {m} /\ scan'.step \in {"drop", "notify"}
    <3> DEFINE next == IF r \in Removable THEN "drop" ELSE "notify"
               has  == m \in called
    <3>1. next \in {"drop", "notify"} /\ has \in BOOLEAN OBVIOUS
    <3>2. scan' = [scan EXCEPT !.mint = m, !.reading = r, !.todo = @ \ {m}, !.called = has,
                               !.step = next]
      BY <1>2
    <3> HIDE DEF next, has
    <3> QED BY <1>0, <2>1, <3>1, <3>2 DEF RegistryInv, Place
  <2>4. Looked(m)' BY <2>2 DEF Looked
  <2>5. EvictJustified' /\ DueAreActive' /\ DropJustified'
    <3> HIDE DEF Active, Looked
    <3> QED BY <1>0, <2>2, <2>3, <2>4
            DEF EvictJustified, DueAreActive, DropJustified, RegistryInv
  <2> QED BY <2>2, <2>3, <2>5 DEF RegistryInv
<1>3. ASSUME NEW r \in Shown, Analysed(m, r), watch' = watch,
             scan' = AtStart("prepare", FALSE)
      PROVE RegistryInv' /\ Steady
  <2>1. r \in Readings /\ None \notin Readings BY DEF ReadingsAssumption
  <2>2. TablesType' /\ Judged' /\ Steady BY <1>3, <2>1, Read
  <2>3. scan' \in Place /\ scan'.step = "start" /\ scan'.phase = "prepare" BY <1>3, Starts
  <2> QED BY <2>2, <2>3, SteadyMove DEF Steady
<1> QED BY <1>1, <1>2, <1>3, Zenon DEF AnalyseRow

(***************************************************************************)
(* A step of the cycle that chooses no row to evict and drops none.        *)
(***************************************************************************)
LEMMA ScanMoves ==
    ASSUME RegistryInv, TablesType', Judged', Steady, scan' \in Place,
           scan'.step \notin {"rebalance", "drop"},
           scan'.phase = "1" => scan.phase = "1" /\ scan'.todo \subseteq scan.todo
    PROVE  RegistryInv' /\ Steady
BY SteadyMove DEF Steady

LEMMA AnalyseStep ==
    ASSUME ReadingsAssumption, RegistryInv, NEW m \in Mints, Analyse(m)
    PROVE  RegistryInv' /\ Steady
<1>0. scan.phase \in {"2", "2b", "4"} BY DEF Analyse
<1>1. CASE snap' = snap /\ scan' = [scan EXCEPT !.todo = @ \ {m}]
  <2>1. TablesType' /\ Judged' /\ Steady BY <1>1, SameTables DEF Analyse
  <2>2. scan' \in Place /\ scan'.step = "pick" /\ scan'.phase # "1"
    BY <1>0, <1>1 DEF Analyse, RegistryInv, Place
  <2> QED BY <2>1, <2>2, ScanMoves
<1>2. ASSUME NEW r \in Shown, Analysed(m, r),
             scan' = [scan EXCEPT !.step = "insert", !.mint = m, !.reading = r, !.todo = @ \ {m}]
      PROVE RegistryInv' /\ Steady
  <2>1. r \in Readings /\ None \notin Readings BY DEF ReadingsAssumption
  <2>2. TablesType' /\ Judged' /\ Steady BY <1>2, <2>1, Read DEF Analyse
  <2>3. scan' \in Place /\ scan'.step = "insert" /\ scan'.phase # "1"
    BY <1>0, <1>2, <2>1 DEF RegistryInv, Place
  <2> QED BY <2>2, <2>3, ScanMoves
<1> QED BY <1>1, <1>2, Zenon DEF Analyse

LEMMA InsertStep == ASSUME RegistryInv, Insert PROVE RegistryInv' /\ Steady
<1>1. TablesType' /\ Judged' /\ Steady BY SameTables DEF Insert
<1>2. <<scan.mint, scan.reading>> \in (Mints \cup {None}) \X (Readings \cup {None})
  BY DEF RegistryInv, Place
<1>3. /\ scan' \in Place /\ scan'.step = "pick" /\ scan'.phase = scan.phase
      /\ scan'.todo = scan.todo
  BY <1>2 DEF Insert, RegistryInv, Place
<1> QED BY <1>1, <1>3, ScanMoves

LEMMA TrackStep == ASSUME RegistryInv, Track PROVE RegistryInv' /\ Steady
<1>1. PICK found \in scan.found :
         /\ IF found[2] \in Trackable THEN Adds(found[1], found[2])
                                     ELSE UNCHANGED <<watch, faults>>
         /\ scan' = [scan EXCEPT !.found = @ \ {found}]
  BY DEF Track
<1>2. TablesType' /\ Judged' /\ Steady
  <2>1. CASE found[2] \in Trackable
    <3>1. found[2] \in Readings \ BadClass BY <2>1 DEF Trackable, Readings, BadClass
    <3>2. CASE AddToWatchlist(found[1], found[2]) BY <3>1, <3>2, Added DEF Track
    <3>3. CASE UNCHANGED watch BY <3>3, SameTables DEF Track
    <3> QED BY <1>1, <2>1, <3>2, <3>3 DEF Adds
  <2>2. CASE found[2] \notin Trackable BY <1>1, <2>2, SameTables DEF Track
  <2> QED BY <2>1, <2>2
<1>3. /\ scan' \in Place /\ scan'.step = "pick" /\ scan'.phase = scan.phase
      /\ scan'.todo = scan.todo
  BY <1>1 DEF Track, RegistryInv, Place
<1> QED BY <1>2, <1>3, ScanMoves

LEMMA HandOffStep == ASSUME RegistryInv, HandOff PROVE RegistryInv' /\ Steady
<1>1. TablesType' /\ Judged' /\ Steady
  <2>1. CASE scan.mint \in called
    <3>1. "pattern" \in Readings \ BadClass BY DEF Readings, BadClass
    <3>2. CASE AddToWatchlist(scan.mint, "pattern") BY <3>1, <3>2, Added DEF HandOff
    <3>3. CASE UNCHANGED watch BY <3>3, SameTables DEF HandOff
    <3> QED BY <2>1, <3>2, <3>3 DEF HandOff, Adds
  <2>2. CASE scan.mint \notin called BY <2>2, SameTables DEF HandOff
  <2> QED BY <2>1, <2>2
<1>2. scan' \in Place /\ scan'.step = "start" /\ scan'.phase = "6"
  BY Starts DEF HandOff
<1> QED BY <1>1, <1>2, ScanMoves

LEMMA NotifyStep == ASSUME RegistryInv, Notify PROVE RegistryInv' /\ Steady
<1>1. TablesType' /\ Judged' /\ Steady BY SameTables DEF Notify
<1>2. /\ scan' \in Place /\ scan'.step = "pick" /\ scan'.phase = scan.phase
      /\ scan'.todo = scan.todo
  BY DEF Notify, RegistryInv, Place
<1> QED BY <1>1, <1>2, ScanMoves

LEMMA ObserveStep ==
    ASSUME RegistryInv, NEW m \in Mints, ObserveCurve(m) PROVE RegistryInv' /\ Steady
<1>1. TablesType' /\ Judged' /\ Steady BY SameTables DEF ObserveCurve
<1>2. scan' \in Place /\ scan'.step = "handoff" /\ scan'.phase # "1"
  BY DEF ObserveCurve, RegistryInv, Place
<1> QED BY <1>1, <1>2, ScanMoves

LEMMA Taken ==
    ASSUME RegistryInv, NEW b \in BOOLEAN, NEW mints \in SUBSET Mints, Takes(b, mints),
           scan.phase \in {"2", "2b", "4"}
    PROVE  RegistryInv' /\ Steady
<1>1. TablesType' /\ Judged' /\ Steady BY SameTables DEF Takes, tables
<1>2. scan' \in Place /\ scan'.step = "pick" /\ scan'.phase # "1"
  BY DEF Takes, AtStart, Place
<1> QED BY <1>1, <1>2, ScanMoves

LEMMA ListStep == ASSUME RegistryInv, List \/ ListMisread PROVE RegistryInv' /\ Steady
<1>1. CASE List
  <2> DEFINE fresh == IF scan.phase = "2" THEN Fresh ELSE scan.fresh
  <2>1. fresh \in BOOLEAN BY DEF Fresh, RegistryInv, Place
  <2>2. PICK mints \in SUBSET Candidates : Takes(fresh, mints) BY <1>1 DEF List
  <2>3. mints \in SUBSET Mints /\ scan.phase \in {"2", "2b", "4"}
    BY <1>1, <2>2 DEF List, Candidates, NewMints, Graduates, Reconsidered
  <2> HIDE DEF fresh
  <2> QED BY <2>1, <2>2, <2>3, Taken
<1>2. CASE ListMisread
  <2>1. PICK m \in Mints, mints \in SUBSET NewMints : Takes(FALSE, mints \cup {m})
    BY <1>2 DEF ListMisread
  <2>2. mints \cup {m} \in SUBSET Mints BY DEF NewMints
  <2> QED BY <1>2, <2>1, <2>2, Taken DEF ListMisread
<1> QED BY <1>1, <1>2

(***************************************************************************)
(* A step that begins another phase than the first.                        *)
(***************************************************************************)
LEMMA PhaseStep ==
    ASSUME RegistryInv,
           LeavePhase1 \/ LeavePhase \/ EndCycle \/ ListFails \/ WriteFails \/ Restart
    PROVE  RegistryInv' /\ Steady
<1>1. TablesType' /\ Judged' /\ Steady
  BY SameTables DEF LeavePhase1, LeavePhase, EndCycle, ListFails, WriteFails, Restart, tables
<1>2. PICK p \in {"prepare", "2", "2b", "4", "6"}, b \in BOOLEAN : scan' = AtStart(p, b)
  BY DEF LeavePhase1, LeavePhase, EndCycle, ListFails, WriteFails, Restart, After,
         RegistryInv, Place
<1>3. /\ scan' \in Place /\ scan'.step = "start" /\ scan'.phase # "1"
  BY <1>2, Starts
<1> QED BY <1>1, <1>3, ScanMoves

(***************************************************************************)
(* The steps of the others: the scan stays where it is.                    *)
(***************************************************************************)
Outside ==
    \/ Connect \/ Disconnect \/ Silence \/ FeedStep
    \/ \E f \in Feeds : FeedFails(f) \/ \E m \in Mints : FeedInserts(f, m)
    \/ \E m \in Mints : \/ PollerLooks(m) \/ Create(m) \/ Graduate(m) \/ SinkCreate(m)
                        \/ SinkBuy(m) \/ SinkMigrate(m) \/ OpenCall(m) \/ CloseCall(m)

LEMMA Aged ==
    ASSUME RegistryInv, NEW m \in Mints, Later(m) \/ Prune(m)
    PROVE  TablesType' /\ Judged' /\ Steady /\ scan' = scan
<1>1. CASE UNCHANGED <<watch, snap>>
  BY <1>1, SameTables DEF Later, Prune
<1>2. CASE watch' = [watch EXCEPT ![m].old = TRUE] /\ snap' = snap /\ scan' = scan
  <2>1. TablesType' BY <1>2 DEF RegistryInv, TablesType, Row
  <2>2. ASSUME NEW n \in Mints
        PROVE  /\ watch'[n].active = watch[n].active /\ watch'[n].class = watch[n].class
               /\ watch[n].old => watch'[n].old
    BY <1>2 DEF RegistryInv, TablesType, Row
  <2> QED BY <1>2, <2>1, <2>2 DEF RegistryInv, Judged, Steady, StaysLooked, Looked, Seen, Active
<1>3. CASE snap' = [snap EXCEPT ![m].recent = FALSE] /\ watch' = watch /\ scan' = scan
  <2>1. TablesType' BY <1>3 DEF RegistryInv, TablesType, Snap
  <2>2. \A n \in Mints : snap'[n].reading = snap[n].reading
    BY <1>3 DEF RegistryInv, TablesType, Snap
  <2> QED BY <1>3, <2>1, <2>2 DEF RegistryInv, Judged, Steady, StaysLooked, Looked, Seen, Active
<1>4. CASE /\ watch[m].active => watch[m].old
           /\ snap' = [snap EXCEPT ![m] = NoSnap] /\ watch' = watch /\ scan' = scan
  <2>1. TablesType' BY <1>4, NothingIsRead DEF RegistryInv, TablesType
  <2>2. \A n \in Mints : n # m => snap'[n] = snap[n]
    BY <1>4 DEF RegistryInv, TablesType
  <2> QED BY <1>4, <2>1, <2>2 DEF RegistryInv, Judged, Steady, StaysLooked, Looked, Seen, Active
<1>5. CASE Later(m) BY <1>1, <1>2, <1>3, <1>5, Zenon DEF Later
<1>6. CASE Prune(m) BY <1>1, <1>4, <1>6 DEF Prune
<1> QED BY <1>5, <1>6

LEMMA OutsideStep ==
    ASSUME RegistryInv, Outside
    PROVE  TablesType' /\ Judged' /\ Steady /\ scan' = scan
<1>1. scan' = scan
  BY DEF Outside, Connect, Disconnect, Silence, FeedStep, FeedFails, FeedInserts, FeedAdds,
         PollerLooks, Create, Graduate, SinkCreate, SinkBuy, SinkMigrate, OpenCall, CloseCall
<1>2. CASE UNCHANGED <<watch, snap>> BY <1>1, <1>2, SameTables
<1>3. "pattern" \in Readings \ BadClass /\ "quiet" \in Readings \ BadClass
  BY DEF Readings, BadClass
<1>4. CASE FeedStep
  <2>1. PICK f \in Feeds : FeedAdds(f) BY <1>4 DEF FeedStep
  <2> QED BY <1>1, <1>3, <2>1, Added DEF FeedAdds
<1>5. ASSUME NEW m \in Mints, SinkMigrate(m) PROVE TablesType' /\ Judged' /\ Steady
  BY <1>3, <1>5, Added DEF SinkMigrate
<1> QED BY <1>1, <1>2, <1>4, <1>5
        DEF Outside, Connect, Disconnect, Silence, FeedFails, FeedInserts, tables,
            PollerLooks, Create, Graduate, SinkCreate, SinkBuy, OpenCall, CloseCall

LEMMA StepsKeep ==
    ASSUME RegistryAssumption, ReadingsAssumption, RegistryInv, [Next]_vars
    PROVE  /\ RegistryInv' /\ StaysLooked
           /\ \A m \in Active \ Active' : Looked(m) \/ Cardinality(Active) > MaxActive
<1>1. CASE Rebalance BY <1>1, RebalanceStep
<1>2. CASE Drop BY <1>2, DropStep
<1>3. ASSUME RegistryInv' /\ Steady
      PROVE  /\ RegistryInv' /\ StaysLooked
             /\ \A m \in Active \ Active' : Looked(m) \/ Cardinality(Active) > MaxActive
  <2> HIDE DEF Active
  <2> QED BY <1>3 DEF Steady
<1>4. ASSUME TablesType' /\ Judged' /\ Steady /\ scan' = scan PROVE RegistryInv' /\ Steady
  BY <1>4, SteadyScan
<1>5. CASE UNCHANGED vars BY <1>3, <1>4, <1>5, SameTables DEF vars
<1>6. CASE Outside BY <1>3, <1>4, <1>6, OutsideStep
<1>7. ASSUME NEW m \in Mints, Later(m) \/ Prune(m) PROVE RegistryInv' /\ Steady
  BY <1>4, <1>7, Aged
<1>8. ASSUME NEW m \in Mints, AnalyseRow(m) \/ Analyse(m) \/ ObserveCurve(m)
      PROVE RegistryInv' /\ Steady
  BY <1>8, AnalyseRowStep, AnalyseStep, ObserveStep
<1>9. CASE Prepare \/ Notify \/ List \/ ListMisread \/ Insert \/ Track \/ HandOff
  BY <1>3, <1>9, PrepareStep, NotifyStep, ListStep, InsertStep, TrackStep, HandOffStep
<1>10. CASE LeavePhase1 \/ LeavePhase \/ EndCycle \/ ListFails \/ WriteFails \/ Restart
  BY <1>3, <1>10, PhaseStep
<1> QED BY <1>1, <1>2, <1>3, <1>5, <1>6, <1>7, <1>8, <1>9, <1>10, Zenon
        DEF Next, Cycle, Outside

(***************************************************************************)
(* A row leaves the watchlist only after a look at its token, for its age, *)
(* or because the list is over its capacity (should_evict_watchlist_       *)
(* candidate, scanner.rs): for every number of mints, feeds and faults.    *)
(***************************************************************************)
THEOREM NothingDroppedUnseen == Spec => FirstLookGranted
<1>1. RegistryAssumption /\ ReadingsAssumption
  BY RegistryAssumption, ReadingsAssumption
<1>2. RegistryInv /\ [Next]_vars => RegistryInv'
  BY <1>1, StepsKeep
<1>3. ASSUME RegistryInv, [Next]_vars
      PROVE  \A m \in Mints : watch[m].active /\ ~watch'[m].active =>
                Seen(m) \/ watch[m].old \/ Cardinality(Active) > MaxActive
  BY <1>1, <1>3, StepsKeep DEF Active, Looked
<1> QED BY <1>2, <1>3, RegistryInit, PTL DEF Spec, FirstLookGranted

=============================================================================
