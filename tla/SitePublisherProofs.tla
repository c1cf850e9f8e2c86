------------------------ MODULE SitePublisherProofs ------------------------
(***************************************************************************)
(* Theorems about the wallet ledger and the receipts, for every window,    *)
(* workload and number of faults.                                          *)
(***************************************************************************)
EXTENDS SitePublisher, TLAPS

(***************************************************************************)
(* The calls and the loop.                                                 *)
(***************************************************************************)
LoopSteps == {"wait", "rest", "capture", "walk", "positions", "calls", "stream", "send"}

LoopType ==
    /\ calls \in Seq(Statuses)
    /\ loop \in [at : LoopSteps, list : Seq(Statuses), stream : Seq(Statuses)]

LEMMA LoopGoes ==
    ASSUME LoopType, NEW at \in LoopSteps, Goes(at)
    PROVE  /\ loop' \in [at : LoopSteps, list : Seq(Statuses), stream : Seq(Statuses)]
           /\ loop'.at = at
BY DEF LoopType, Goes

LEMMA WaitingIsLoop ==
    /\ Waiting \in [at : LoopSteps, list : Seq(Statuses), stream : Seq(Statuses)]
    /\ Waiting.at = "wait"
<1>1. <<>> \in Seq(Statuses) OBVIOUS
<1> QED BY <1>1 DEF Waiting, LoopSteps

LEMMA LoopTypeInit == Init => LoopType
BY WaitingIsLoop DEF Init, LoopType

(***************************************************************************)
(* Expiry changes due calls only.                                          *)
(***************************************************************************)
LEMMA Expired ==
    ASSUME NEW list \in Seq(Statuses)
    PROVE  ExpireStaleCalls(list) \in Seq(Statuses) /\ Len(ExpireStaleCalls(list)) = Len(list)
<1>1. DOMAIN list = 1 .. Len(list) /\ Len(list) \in Nat OBVIOUS
<1>2. ExpireStaleCalls(list) \in [1 .. Len(list) -> Statuses]
  BY <1>1 DEF ExpireStaleCalls, Statuses, Verdicts
<1> QED BY <1>1, <1>2

LEMMA LoopTypeNext == LoopType /\ [Next]_vars => LoopType'
<1> SUFFICES ASSUME LoopType, [Next]_vars PROVE LoopType'
  OBVIOUS
<1>1. calls' \in Seq(Statuses)
  <2>1. CASE OpenCall BY <2>1 DEF OpenCall, LoopType, Statuses
  <2>2. CASE CloseCall
    <3>1. PICK i \in OpenIn(calls), verdict \in {"won", "quiet"} :
            calls' = [calls EXCEPT ![i] = verdict]
      BY <2>2 DEF CloseCall
    <3>2. verdict \in Statuses /\ i \in DOMAIN calls BY DEF Statuses, Verdicts, OpenIn
    <3> QED BY <3>1, <3>2 DEF LoopType
  <2>3. CASE WindowPasses
    <3>1. PICK i \in DOMAIN calls : calls' = [calls EXCEPT ![i] = "due"]
      BY <2>3 DEF WindowPasses
    <3>2. "due" \in Statuses BY DEF Statuses
    <3> QED BY <3>1, <3>2 DEF LoopType
  <2>4. CASE Expire BY <2>4, Expired DEF Expire, LoopType
  <2>5. CASE UNCHANGED calls BY <2>5 DEF LoopType
  <2> QED
    BY <2>1, <2>2, <2>3, <2>4, <2>5
    DEF Next, vars, SettlePass, Sign, Tick, Wake, Start, OpenWalk, ReadTransaction, EndWalk,
        CallsBuilt, CallsTimeOut, StreamBuilt, Send, SendFails, Abandon, Worker, WorkerPuts,
        WorkerDrops, Pass, BeginPass, WriteReceipt, WriteDetail, EndWriter, Restart
<1>2. loop' \in [at : LoopSteps, list : Seq(Statuses), stream : Seq(Statuses)]
  <2>1. CASE UNCHANGED loop BY <2>1 DEF LoopType
  <2>2. CASE loop' = Waiting BY <2>2, WaitingIsLoop
  <2>3. CASE \E at \in LoopSteps : Goes(at) BY <2>3, LoopGoes
  <2>4. CASE Expire
    <3>1. loop' = [loop EXCEPT !.at = "calls", !.list = calls'] BY <2>4 DEF Expire
    <3> QED BY <1>1, <3>1 DEF LoopType, LoopSteps
  <2>5. CASE CallsTimeOut
    <3>1. <<>> \in Seq(Statuses) OBVIOUS
    <3>2. loop' = [loop EXCEPT !.at = "stream", !.list = <<>>] BY <2>5 DEF CallsTimeOut
    <3> QED BY <3>1, <3>2 DEF LoopType, LoopSteps
  <2>6. CASE StreamBuilt
    <3>1. loop' = [loop EXCEPT !.at = "send", !.stream = calls] BY <2>6 DEF StreamBuilt
    <3> QED BY <3>1 DEF LoopType, LoopSteps
  <2>7. CASE Wake \/ Start \/ OpenWalk \/ EndWalk \/ CallsBuilt
    <3>1. \E at \in LoopSteps : Goes(at)
      BY <2>7 DEF Wake, Start, OpenWalk, EndWalk, CallsBuilt, LoopSteps
    <3> QED BY <2>3, <3>1
  <2>8. CASE ReadTransaction \/ Send \/ SendFails \/ Abandon \/ Restart
    BY <2>1, <2>2, <2>8 DEF ReadTransaction, Send, SendFails, Abandon, Restart
  <2> QED
    BY <2>1, <2>4, <2>5, <2>6, <2>7, <2>8
    DEF Next, vars, OpenCall, CloseCall, WindowPasses, SettlePass, Sign, Tick, Worker,
        WorkerPuts, WorkerDrops, Pass, BeginPass, WriteReceipt, WriteDetail, EndWriter
<1> QED BY <1>1, <1>2 DEF LoopType

-----------------------------------------------------------------------------
(***************************************************************************)
(* The capture walk.  Hole(i) is a trade that neither the ledger has nor a *)
(* fault explains.                                                         *)
(***************************************************************************)
Hole(i) == i \in DOMAIN sigs /\ sigs[i] = "trade" /\ i \notin ledger \cup hurt

TypeWalk ==
    /\ sigs \in Seq({"trade", "other"}) /\ ledger \subseteq DOMAIN sigs
    /\ walk = NoWalk \/ walk \in [next : Int, last : Nat \ {0}, known : SUBSET ledger]
    /\ walk.next <= Len(sigs) /\ walk.last - 1 <= Len(sigs)
    /\ loop.at = "walk" <=> walk # NoWalk

(* No hole behind a signature of S. *)
Sound(S) == \A j \in S : \A i \in 1 .. j - 1 : ~Hole(i)

(***************************************************************************)
(* A walk leaves no hole behind the signatures it has passed, none before  *)
(* its last one, and begins with a ledger that has none behind it.         *)
(***************************************************************************)
WalkInv ==
    /\ TypeWalk
    /\ walk = NoWalk => Sound(ledger)
    /\ walk # NoWalk =>
         /\ Sound(walk.known)
         /\ \A j \in ledger : \A i \in 1 .. j - 1 : i > walk.next => ~Hole(i)
         /\ \A i \in 1 .. walk.last - 1 : ~Hole(i)

LEMMA WalkInvInit == Init => WalkInv
<1> SUFFICES ASSUME Init PROVE WalkInv
  OBVIOUS
<1>1. TypeWalk
  <2>1. sigs = <<>> /\ ledger = {} /\ walk = NoWalk /\ loop = Waiting BY DEF Init
  <2>2. walk.next <= Len(sigs) /\ walk.last - 1 <= Len(sigs) BY <2>1 DEF NoWalk
  <2> QED BY <2>1, <2>2, WaitingIsLoop DEF TypeWalk
<1>2. Sound(ledger) /\ walk = NoWalk BY DEF Init, Sound
<1> QED BY <1>1, <1>2 DEF WalkInv

(***************************************************************************)
(* A step that leaves the books and does not enter or leave the walk.      *)
(***************************************************************************)
LEMMA BooksKept ==
    ASSUME WalkInv, UNCHANGED books, loop'.at = "walk" <=> loop.at = "walk"
    PROVE  WalkInv'
BY DEF books, WalkInv, TypeWalk, Sound, Hole

(***************************************************************************)
(* What a walk that ends here leaves behind, if what it did not reach      *)
(* counts as lost, is without holes.                                       *)
(***************************************************************************)
LEMMA EndSound ==
    ASSUME WalkInv, UNCHANGED <<sigs, ledger>>, hurt \subseteq hurt',
           walk # NoWalk => Unreached \subseteq hurt' \/ WalkOver
    PROVE  Sound(ledger)'
<1> SUFFICES ASSUME NEW j \in ledger, NEW i \in 1 .. j - 1, Hole(i)' PROVE FALSE
  BY DEF Sound
<1>1. Hole(i) BY DEF Hole
<1>2. j \in Nat /\ i \in Nat BY DEF WalkInv, TypeWalk
<1>3. walk # NoWalk BY <1>1 DEF WalkInv, Sound
<1>4. walk.next \in Int /\ walk.last \in Nat /\ walk.known \subseteq ledger
  BY <1>3 DEF WalkInv, TypeWalk
<1>5. i <= walk.next BY <1>1, <1>2, <1>3, <1>4 DEF WalkInv
<1>6. walk.last <= i
  <2> SUFFICES ASSUME ~(walk.last <= i) PROVE FALSE
    OBVIOUS
  <2>1. i \in 1 .. walk.last - 1 BY <1>2, <1>4
  <2> QED BY <1>1, <1>3, <2>1 DEF WalkInv
<1>7. i \notin ledger /\ i \notin hurt' BY DEF Hole
<1>8. CASE Unreached \subseteq hurt'
  <2>1. i \in walk.last .. walk.next BY <1>2, <1>4, <1>5, <1>6
  <2>2. i \in Unreached BY <1>3, <1>7, <2>1 DEF Unreached
  <2> QED BY <1>7, <1>8, <2>2
<1>9. CASE WalkOver
  <2>1. walk.next \in walk.known BY <1>2, <1>4, <1>5, <1>6, <1>9 DEF WalkOver
  <2>2. i # walk.next BY <1>4, <1>7, <2>1
  <2>3. i \in 1 .. walk.next - 1 BY <1>2, <1>4, <1>5, <2>2
  <2> QED BY <1>1, <1>3, <2>1, <2>3 DEF WalkInv, Sound
<1> QED BY <1>3, <1>8, <1>9

LEMMA NoWalkLeft ==
    ASSUME WalkInv, UNCHANGED <<sigs, ledger>>, walk' = NoWalk, loop'.at # "walk",
           Sound(ledger)'
    PROVE  WalkInv'
<1>1. NoWalk.next <= Len(sigs) /\ NoWalk.last - 1 <= Len(sigs)
  <2>1. Len(sigs) \in Nat BY DEF WalkInv, TypeWalk
  <2> QED BY <2>1 DEF NoWalk
<1>2. TypeWalk' BY <1>1 DEF WalkInv, TypeWalk
<1> QED BY <1>2 DEF WalkInv

LEMMA OpenWalkStep == LoopType /\ WalkInv /\ OpenWalk => WalkInv'
<1> SUFFICES ASSUME LoopType, WalkInv, OpenWalk PROVE WalkInv'
  OBVIOUS
<1>1. loop.at = "capture" /\ UNCHANGED <<sigs, ledger>> BY DEF OpenWalk
<1>2. walk = NoWalk /\ Sound(ledger) BY <1>1 DEF WalkInv, TypeWalk
<1> DEFINE n == OldestOf(Len(sigs))
           new == [next |-> Len(sigs), last |-> n, known |-> ledger]
<1>3. CASE /\ walk' = new /\ Goes("walk")
           /\ hurt' = hurt \cup ((1 .. n - 1) \ ledger)
  <2>1. n \in Nat \ {0} /\ Len(sigs) \in Nat /\ n - 1 <= Len(sigs)
    BY PublisherAssumption DEF OldestOf, WalkInv, TypeWalk
  <2>2. /\ walk'.next = Len(sigs) /\ walk'.last = n /\ walk'.known = ledger
        /\ walk' \in [next : Int, last : Nat \ {0}, known : SUBSET ledger]
    <3> HIDE DEF n
    <3> QED BY <1>3, <2>1
  <2>3. walk' # NoWalk
    <3>1. NoWalk.last = 0 BY DEF NoWalk
    <3> QED BY <2>1, <2>2, <3>1
  <2>4. loop'.at = "walk" BY <1>3, LoopGoes DEF LoopSteps
  <2> HIDE DEF n, new
  <2>5. TypeWalk'
    <3>1. walk'.next <= Len(sigs') /\ walk'.last - 1 <= Len(sigs') BY <1>1, <2>1, <2>2
    <3> QED BY <1>1, <2>2, <2>3, <2>4, <3>1 DEF WalkInv, TypeWalk
  <2>6. Sound(walk.known)' BY <1>1, <1>2, <1>3, <2>2 DEF Sound, Hole
  <2>7. \A j \in ledger : \A i \in 1 .. j - 1 : ~(i > Len(sigs))
    BY <2>1 DEF WalkInv, TypeWalk
  <2>8. \A i \in 1 .. n - 1 : ~Hole(i)' BY <1>1, <1>3 DEF Hole
  <2> QED BY <1>1, <2>2, <2>3, <2>5, <2>6, <2>7, <2>8 DEF WalkInv
<1>4. CASE Goes("positions") /\ UNCHANGED <<walk, hurt>>
  <2>1. loop'.at = "positions" BY <1>4, LoopGoes DEF LoopSteps
  <2> QED BY <1>1, <1>4, <2>1, BooksKept DEF books
<1> QED BY <1>3, <1>4 DEF OpenWalk

LEMMA ReadStep == WalkInv /\ ReadTransaction => WalkInv'
<1> SUFFICES ASSUME WalkInv, ReadTransaction PROVE WalkInv'
  OBVIOUS
<1>0. PICK n : n = walk.next OBVIOUS
<1>1. /\ loop.at = "walk" /\ ~WalkOver /\ UNCHANGED <<sigs, loop>>
      /\ hurt \subseteq hurt' /\ ledger \subseteq ledger' /\ ledger' \subseteq ledger \cup {n}
      /\ sigs[n] = "trade" => n \in ledger' \cup hurt'
      /\ n \in ledger' \ ledger => sigs[n] = "trade"
      /\ walk' = [walk EXCEPT !.next = @ - 1]
  BY <1>0 DEF ReadTransaction
<1>2. /\ walk # NoWalk /\ n \in Int /\ walk.last \in Nat \ {0} /\ walk.known \subseteq ledger
      /\ walk \in [next : Int, last : Nat \ {0}, known : SUBSET ledger]
  BY <1>0, <1>1 DEF WalkInv, TypeWalk
<1>3. n >= walk.last BY <1>0, <1>1, <1>2 DEF WalkOver
<1>4. /\ walk'.next = n - 1 /\ walk'.last = walk.last /\ walk'.known = walk.known
      /\ walk' \in [next : Int, last : Nat \ {0}, known : SUBSET ledger]
  BY <1>0, <1>1, <1>2
<1>5. walk' # NoWalk
  <2>1. NoWalk.last = 0 BY DEF NoWalk
  <2> QED BY <1>2, <1>4, <2>1
<1>6. \A i : Hole(i)' => Hole(i)
  <2>1. sigs' = sigs /\ hurt \subseteq hurt' /\ ledger \subseteq ledger' BY <1>1
  <2> QED BY <2>1 DEF Hole
<1>7. ~Hole(n)' BY <1>1 DEF Hole
<1>12. n \in DOMAIN sigs
  BY <1>0, <1>2, <1>3 DEF WalkInv, TypeWalk
<1>8. TypeWalk'
  <2>1. ledger' \subseteq DOMAIN sigs' BY <1>1, <1>12 DEF WalkInv, TypeWalk
  <2>2. walk' \in [next : Int, last : Nat \ {0}, known : SUBSET ledger']
    BY <1>1, <1>4
  <2> QED BY <1>1, <1>5, <2>1, <2>2 DEF WalkInv, TypeWalk
<1>9. \A j \in ledger' : \A i \in 1 .. j - 1 : i > n - 1 => ~Hole(i)'
  <2> SUFFICES ASSUME NEW j \in ledger', NEW i \in 1 .. j - 1, i > n - 1, Hole(i)'
               PROVE  FALSE
    OBVIOUS
  <2>1. Hole(i) /\ i # n BY <1>6, <1>7
  <2>2. j \in Int BY <1>1, <1>2 DEF WalkInv, TypeWalk
  <2>3. i > n BY <1>2, <2>1, <2>2
  <2>4. j # n BY <1>2, <2>2, <2>3
  <2>5. j \in ledger BY <1>1, <2>4
  <2> QED BY <1>0, <1>2, <2>1, <2>3, <2>5 DEF WalkInv
<1>10. Sound(walk.known)' BY <1>2, <1>4, <1>6 DEF WalkInv, Sound
<1>11. \A i \in 1 .. walk'.last - 1 : ~Hole(i)' BY <1>2, <1>4, <1>6 DEF WalkInv
<1> QED BY <1>4, <1>5, <1>8, <1>9, <1>10, <1>11 DEF WalkInv

LEMMA EndSteps ==
    LoopType /\ WalkInv /\ (EndWalk \/ Abandon \/ Restart) => WalkInv'
<1> SUFFICES ASSUME LoopType, WalkInv, EndWalk \/ Abandon \/ Restart PROVE WalkInv'
  OBVIOUS
<1>1. UNCHANGED <<sigs, ledger>> /\ walk' = NoWalk /\ hurt \subseteq hurt'
      /\ (WalkOver \/ Unreached \subseteq hurt')
  BY DEF EndWalk, Abandon, Restart
<1>2. loop'.at # "walk"
  <2>1. CASE EndWalk BY <2>1, LoopGoes DEF EndWalk, LoopSteps
  <2>2. CASE Abandon \/ Restart BY <2>2, WaitingIsLoop DEF Abandon, Restart
  <2> QED BY <2>1, <2>2
<1>3. Sound(ledger)' BY <1>1, EndSound
<1> QED BY <1>1, <1>2, <1>3, NoWalkLeft

(***************************************************************************)
(* New signatures come after all that the ledger has.                      *)
(***************************************************************************)
LEMMA SignStep ==
    ASSUME WalkInv, NEW kind \in {"trade", "other"}, Sign(kind)
    PROVE  WalkInv'
<1>1. sigs' = Append(sigs, kind) /\ UNCHANGED <<ledger, walk, hurt, loop>> BY DEF Sign
<1>2. /\ sigs' \in Seq({"trade", "other"}) /\ Len(sigs') = Len(sigs) + 1
      /\ DOMAIN sigs = 1 .. Len(sigs) /\ Len(sigs) \in Nat
      /\ \A i \in DOMAIN sigs : sigs'[i] = sigs[i] /\ i \in DOMAIN sigs'
  BY <1>1 DEF WalkInv, TypeWalk
<1>3. \A i \in DOMAIN sigs : Hole(i)' => Hole(i) BY <1>1, <1>2 DEF Hole
<1>4. \A S : S \subseteq ledger /\ Sound(S) => \A j \in S : \A i \in 1 .. j - 1 : ~Hole(i)'
  BY <1>2, <1>3 DEF WalkInv, TypeWalk, Sound
<1>5. TypeWalk'
  <2>1. /\ walk.next \in Int /\ walk.next <= Len(sigs) => walk'.next <= Len(sigs')
        /\ walk.last \in Int /\ walk.last - 1 <= Len(sigs) => walk'.last - 1 <= Len(sigs')
    BY <1>1, <1>2
  <2>2. walk.next \in Int /\ walk.last \in Int BY DEF WalkInv, TypeWalk, NoWalk
  <2> QED BY <1>1, <1>2, <2>1, <2>2 DEF WalkInv, TypeWalk
<1>6. walk = NoWalk => Sound(ledger)' BY <1>1, <1>4 DEF WalkInv, Sound
<1>7. ASSUME walk # NoWalk
      PROVE  /\ Sound(walk.known)'
             /\ \A j \in ledger : \A i \in 1 .. j - 1 : i > walk.next => ~Hole(i)'
             /\ \A i \in 1 .. walk.last - 1 : ~Hole(i)'
  <2>1. walk.known \subseteq ledger BY <1>7 DEF WalkInv, TypeWalk
  <2>2. Sound(walk.known)' BY <1>1, <1>4, <1>7, <2>1 DEF WalkInv, Sound
  <2>3. \A j \in ledger : \A i \in 1 .. j - 1 : i > walk.next => ~Hole(i)'
    BY <1>2, <1>3, <1>7 DEF WalkInv, TypeWalk
  <2>4. \A i \in 1 .. walk.last - 1 : ~Hole(i)'
    <3> SUFFICES ASSUME NEW i \in 1 .. walk.last - 1, Hole(i)' PROVE FALSE
      OBVIOUS
    <3>1. i \notin DOMAIN sigs BY <1>3, <1>7 DEF WalkInv
    <3>2. walk.last - 1 <= Len(sigs) BY <1>7 DEF WalkInv, TypeWalk
    <3>3. walk.last \in Nat BY <1>7 DEF WalkInv, TypeWalk
    <3> QED BY <1>2, <3>1, <3>2, <3>3
  <2> QED BY <2>2, <2>3, <2>4
<1> QED BY <1>1, <1>5, <1>6, <1>7 DEF WalkInv

LEMMA WalkInvNext == LoopType /\ WalkInv /\ [Next]_vars => WalkInv'
<1> SUFFICES ASSUME LoopType, WalkInv, [Next]_vars PROVE WalkInv'
  OBVIOUS
<1>1. ASSUME NEW kind \in {"trade", "other"}, Sign(kind) PROVE WalkInv' BY <1>1, SignStep
<1>2. CASE Wake \/ Start \/ CallsBuilt
  <2>1. UNCHANGED books /\ loop.at # "walk" /\ \E at \in LoopSteps \ {"walk"} : Goes(at)
    BY <1>2 DEF Wake, Start, CallsBuilt, LoopSteps
  <2>2. loop'.at # "walk" BY <2>1, LoopGoes
  <2> QED BY <2>1, <2>2, BooksKept
<1>3. CASE Expire \/ CallsTimeOut \/ StreamBuilt \/ Send \/ SendFails
  <2>1. UNCHANGED books /\ loop.at # "walk"
    BY <1>3 DEF Expire, CallsTimeOut, StreamBuilt, Send, SendFails
  <2>2. loop'.at # "walk"
    <3>1. CASE loop' = Waiting BY <3>1, WaitingIsLoop
    <3>2. CASE Expire
      <4>1. loop' = [loop EXCEPT !.at = "calls", !.list = calls'] BY <3>2 DEF Expire
      <4> QED BY <4>1 DEF LoopType
    <3>3. CASE CallsTimeOut
      <4>1. loop' = [loop EXCEPT !.at = "stream", !.list = <<>>] BY <3>3 DEF CallsTimeOut
      <4> QED BY <4>1 DEF LoopType
    <3>4. CASE StreamBuilt
      <4>1. loop' = [loop EXCEPT !.at = "send", !.stream = calls] BY <3>4 DEF StreamBuilt
      <4> QED BY <4>1 DEF LoopType
    <3> QED BY <1>3, <3>1, <3>2, <3>3, <3>4 DEF Send, SendFails
  <2> QED BY <2>1, <2>2, BooksKept
<1>4. CASE \/ OpenCall \/ CloseCall \/ WindowPasses \/ SettlePass \/ Worker \/ Pass
           \/ UNCHANGED vars
  <2>1. UNCHANGED <<loop, books>>
    BY <1>4 DEF OpenCall, CloseCall, WindowPasses, SettlePass, Worker, WorkerPuts, WorkerDrops,
                Pass, BeginPass, WriteReceipt, WriteDetail, EndWriter, vars, books
  <2> QED BY <2>1, BooksKept
<1> QED
  BY <1>1, <1>2, <1>3, <1>4, OpenWalkStep, ReadStep, EndSteps DEF Next, Tick

(***************************************************************************)
(* Between walks the ledger lacks no trade older than one it has, unless   *)
(* for a fault, a walk cut short or a window overrun (capture_ledger).     *)
(***************************************************************************)
THEOREM GapsAreExplained == Spec => []GapsOnlyByFaults
<1>1. Init => LoopType /\ WalkInv BY LoopTypeInit, WalkInvInit
<1>2. LoopType /\ WalkInv /\ [Next]_vars => (LoopType /\ WalkInv)'
  BY LoopTypeNext, WalkInvNext
<1>3. WalkInv => GapsOnlyByFaults
  <2> SUFFICES ASSUME WalkInv, walk = NoWalk, NEW i \in DOMAIN sigs, NEW j \in ledger,
                      i < j, sigs[i] = "trade"
               PROVE  i \in ledger \cup hurt
    BY DEF GapsOnlyByFaults
  <2>1. i \in 1 .. j - 1 BY DEF WalkInv, TypeWalk
  <2> QED BY <2>1 DEF WalkInv, Sound, Hole
<1> QED BY <1>1, <1>2, <1>3, PTL DEF Spec

-----------------------------------------------------------------------------
(***************************************************************************)
(* The receipts.  The scout loop never looks at a call that is not there,  *)
(* and a receipt is none or of such a call.                                *)
(***************************************************************************)
Taken(r) == r = None \/ r.call \in 1 .. Len(calls)

ReceiptInv ==
    /\ scout.next \in 0 .. Len(calls) /\ Len(scout.list) \in 0 .. Len(calls)
    /\ scout \in [at : {"wait", "details"} \cup Kinds, list : Seq(Statuses), next : Nat]
    /\ receipt \in [Kinds -> [call : Nat, as : Statuses \cup {"none"}]]
    /\ \A k \in Kinds : Taken(receipt[k])

LEMMA RestingIsScout ==
    /\ Resting \in [at : {"wait", "details"} \cup Kinds, list : Seq(Statuses), next : Nat]
    /\ Resting.next = 0 /\ Len(Resting.list) = 0
<1>1. <<>> \in Seq(Statuses) /\ Len(<<>>) = 0 OBVIOUS
<1> QED BY <1>1 DEF Resting

LEMMA ReceiptInvInit == Init => ReceiptInv
<1> SUFFICES ASSUME Init PROVE ReceiptInv
  OBVIOUS
<1>1. scout = Resting /\ calls = <<>> /\ receipt = [k \in Kinds |-> None] BY DEF Init
<1>2. Len(calls) = 0 BY <1>1
<1>3. None \in [call : Nat, as : Statuses \cup {"none"}] BY DEF None
<1> QED BY <1>1, <1>2, <1>3, RestingIsScout DEF ReceiptInv, Taken

(***************************************************************************)
(* Calls are never taken back.                                             *)
(***************************************************************************)
LEMMA CallsGrow == LoopType /\ [Next]_vars => Len(calls') >= Len(calls) /\ Len(calls) \in Nat
<1> SUFFICES ASSUME LoopType, [Next]_vars
             PROVE  Len(calls') >= Len(calls) /\ Len(calls) \in Nat
  OBVIOUS
<1>1. calls \in Seq(Statuses) /\ Len(calls) \in Nat BY DEF LoopType
<1>2. CASE OpenCall BY <1>1, <1>2 DEF OpenCall
<1>3. CASE CloseCall
  <2>1. PICK i \in OpenIn(calls), verdict \in {"won", "quiet"} :
          calls' = [calls EXCEPT ![i] = verdict]
    BY <1>3 DEF CloseCall
  <2>2. i \in DOMAIN calls BY DEF OpenIn
  <2> QED BY <1>1, <2>1, <2>2
<1>4. CASE WindowPasses BY <1>1, <1>4 DEF WindowPasses
<1>5. CASE Expire BY <1>1, <1>5, Expired DEF Expire
<1>6. CASE UNCHANGED calls BY <1>1, <1>6
<1> QED
  BY <1>1, <1>2, <1>3, <1>4, <1>5, <1>6
  DEF Next, vars, SettlePass, Sign, Tick, Wake, Start, OpenWalk, ReadTransaction, EndWalk,
      CallsBuilt, CallsTimeOut, StreamBuilt, Send, SendFails, Abandon, Worker, WorkerPuts,
      WorkerDrops, Pass, BeginPass, WriteReceipt, WriteDetail, EndWriter, Restart

LEMMA ReceiptInvNext == LoopType /\ ReceiptInv /\ [Next]_vars => ReceiptInv'
<1> SUFFICES ASSUME LoopType, ReceiptInv, [Next]_vars PROVE ReceiptInv'
  OBVIOUS
<1>1. Len(calls') >= Len(calls) /\ Len(calls) \in Nat /\ Len(calls') \in Nat
      /\ calls \in Seq(Statuses)
  BY CallsGrow, LoopTypeNext DEF LoopType
<1>2. CASE UNCHANGED <<scout, receipt>>
  BY <1>1, <1>2 DEF ReceiptInv, Taken
<1>3. CASE BeginPass
  <2>1. scout' = [at |-> "scouts", list |-> calls, next |-> Len(calls)]
        /\ UNCHANGED <<calls, receipt>>
    BY <1>3 DEF BeginPass
  <2> QED BY <1>1, <2>1 DEF ReceiptInv, Taken, Kinds
<1>4. ASSUME Advance, scout.next > 0
      PROVE  /\ scout'.next \in 0 .. Len(calls) /\ Len(scout'.list) \in 0 .. Len(calls)
             /\ scout' \in [at : {"wait", "details"} \cup Kinds, list : Seq(Statuses), next : Nat]
  <2>1. scout' = [scout EXCEPT !.next = scout.next - 1] BY <1>4 DEF Advance
  <2>2. scout.next - 1 \in Nat /\ scout.next - 1 \in 0 .. Len(calls)
    BY <1>1, <1>4 DEF ReceiptInv
  <2> QED BY <2>1, <2>2 DEF ReceiptInv
<1>5. ASSUME NEW k \in Kinds, WriteReceipt(k) PROVE ReceiptInv'
  <2>1. scout.next > 0 /\ Advance /\ UNCHANGED calls
    BY <1>5 DEF WriteReceipt, Passing
  <2> DEFINE new == [call |-> scout.next, as |-> calls[scout.next]]
  <2>2. scout.next \in 1 .. Len(calls) /\ scout.next \in Nat BY <1>1, <2>1 DEF ReceiptInv
  <2>3. calls[scout.next] \in Statuses BY <1>1, <2>2
  <2>4. new \in [call : Nat, as : Statuses \cup {"none"}] /\ new.call = scout.next
    BY <2>2, <2>3
  <2>5. receipt' = receipt \/ receipt' = [receipt EXCEPT ![k] = new]
    BY <1>5 DEF WriteReceipt
  <2> HIDE DEF new
  <2>6. /\ receipt' \in [Kinds -> [call : Nat, as : Statuses \cup {"none"}]]
        /\ \A l \in Kinds : Taken(receipt'[l])
    BY <2>2, <2>4, <2>5 DEF ReceiptInv, Taken
  <2> QED BY <1>4, <2>1, <2>6 DEF ReceiptInv, Taken
<1>6. CASE WriteDetail
  <2>1. scout.next > 0 /\ Advance /\ UNCHANGED <<calls, receipt>>
    BY <1>6 DEF WriteDetail, Passing
  <2> QED BY <1>4, <2>1 DEF ReceiptInv, Taken
<1>7. CASE EndWriter
  <2>1. UNCHANGED <<calls, receipt>>
        /\ \/ scout' = Resting
           \/ scout' = [scout EXCEPT !.at = NextOf(@), !.next = Len(scout.list)]
    BY <1>7 DEF EndWriter
  <2>2. CASE scout' = Resting
    BY <1>1, <2>1, <2>2, RestingIsScout DEF ReceiptInv, Taken
  <2>3. CASE scout' = [scout EXCEPT !.at = NextOf(@), !.next = Len(scout.list)]
    <3>1. NextOf(scout.at) \in {"wait", "details"} \cup Kinds BY DEF NextOf, Kinds
    <3>2. Len(scout.list) \in Nat BY DEF ReceiptInv
    <3>3. /\ scout' \in [at : {"wait", "details"} \cup Kinds, list : Seq(Statuses), next : Nat]
          /\ scout'.next = Len(scout.list) /\ scout'.list = scout.list
      BY <2>3, <3>1, <3>2 DEF ReceiptInv
    <3> QED BY <2>1, <3>3 DEF ReceiptInv, Taken
  <2> QED BY <2>1, <2>2, <2>3
<1>8. CASE Restart
  <2>1. scout' = Resting /\ UNCHANGED <<receipt>> BY <1>8 DEF Restart
  <2> QED BY <1>1, <2>1, RestingIsScout DEF ReceiptInv, Taken
<1> QED
  BY <1>2, <1>3, <1>5, <1>6, <1>7, <1>8
  DEF Next, vars, OpenCall, CloseCall, WindowPasses, SettlePass, Sign, Tick, Wake, Start,
      OpenWalk, ReadTransaction, EndWalk, Expire, CallsBuilt, CallsTimeOut, StreamBuilt, Send,
      SendFails, Abandon, Worker, WorkerPuts, WorkerDrops, Pass, files

(***************************************************************************)
(* The receipts of a mint's only call are taken once, whatever passes,     *)
(* restarts and verdicts follow (write_scout_receipts, write_whale_        *)
(* receipts).                                                              *)
(***************************************************************************)
THEOREM TakenOnce == Spec => ReceiptTakenOnce
<1>1. Init => LoopType /\ ReceiptInv BY LoopTypeInit, ReceiptInvInit
<1>2. LoopType /\ ReceiptInv /\ [Next]_vars => (LoopType /\ ReceiptInv)'
  BY LoopTypeNext, ReceiptInvNext
<1>3. LoopType /\ ReceiptInv /\ [Next]_vars
        => [\A k \in Kinds : Len(calls) = 1 /\ receipt[k] # None => receipt'[k] = receipt[k]]_vars
  <2> SUFFICES ASSUME LoopType, ReceiptInv, Next, Len(calls) = 1,
                      NEW k \in Kinds, receipt[k] # None
               PROVE  receipt'[k] = receipt[k]
    OBVIOUS
  <2>1. ASSUME NEW l \in Kinds, WriteReceipt(l) PROVE receipt'[k] = receipt[k]
    <3>1. receipt[k].call = 1 BY DEF ReceiptInv, Taken
    <3>2. scout.next = 1 BY <2>1 DEF WriteReceipt, Passing, ReceiptInv
    <3> QED BY <2>1, <3>1, <3>2 DEF WriteReceipt, ReceiptInv
  <2> QED
    BY <2>1
    DEF Next, OpenCall, CloseCall, WindowPasses, SettlePass, Sign, Tick, Wake, Start,
        OpenWalk, ReadTransaction, EndWalk, Expire, CallsBuilt, CallsTimeOut, StreamBuilt, Send,
        SendFails, Abandon, Worker, WorkerPuts, WorkerDrops, Pass, BeginPass, WriteDetail,
        EndWriter, Restart, files
<1> QED BY <1>1, <1>2, <1>3, PTL DEF Spec, ReceiptTakenOnce
=============================================================================
