----------------------------- MODULE UpkeepProofs -----------------------------
(***************************************************************************)
(* Theorems about what runs beside the calls, for any wallets, mints,      *)
(* chats, concurrent bumps, hours, deletions and faults, and for any       *)
(* number of RPC endpoints: the model checker covers two mints of one      *)
(* wallet, two bumps, a few hours and two endpoints.                       *)
(***************************************************************************)
EXTENDS SmartWallets, HourDigest, AnchorBump, RpcRouter, FiniteSetTheorems, TLAPS

-----------------------------------------------------------------------------
(* Smart wallets.                                                          *)

TypePass ==
    /\ scan \in [at : {"rest", "next", "diff", "first", "second"},
                 todo : SUBSET Wallets, new : SUBSET Pairs, pair : Pairs \cup {NoPair}]
    /\ holds \subseteq Pairs /\ known \subseteq Pairs
    /\ told \in [Pairs -> Nat] /\ walletFaults \in Nat

\* What the pass has in hand is not recorded yet, and each pair of it once.
InHand ==
    /\ scan.new \cap known = {}
    /\ scan.at \in {"first", "second"} =>
          scan.pair \in Pairs /\ scan.pair \notin known \cup scan.new

\* What is recorded was told, and so was what is about to be recorded.
ToldBefore ==
    /\ \A p \in known : told[p] > 0 \/ p \in unsaid
    /\ scan.at = "second" => told[scan.pair] > 0 \/ scan.pair \in unsaid

\* What is not recorded was told only if a fault kept it from being recorded.
ToldAgain ==
    /\ \A p \in Pairs : told[p] <= 1 + walletFaults
    /\ \A p \in Pairs \ known :
          told[p] <= walletFaults \/ (scan.at = "second" /\ scan.pair = p)

WalletInv == TypePass /\ InHand /\ ToldBefore /\ ToldAgain

USE WalletAssumption

LEMMA WalletInvInit == WalletInit => WalletInv
<1> SUFFICES ASSUME WalletInit PROVE WalletInv
  OBVIOUS
<1> USE DEF WalletInit, NoPass
<1>1. TypePass BY DEF TypePass
<1>2. InHand /\ ToldBefore /\ ToldAgain BY DEF InHand, ToldBefore, ToldAgain
<1> QED BY <1>1, <1>2 DEF WalletInv

\* Steps that neither record nor tell, and leave the pass where it is.
LEMMA PassUntouched ==
    ASSUME WalletInv, holds' \subseteq Pairs, walletFaults' \in Nat,
           walletFaults' >= walletFaults, UNCHANGED passing
    PROVE  WalletInv'
<1> USE DEF WalletInv, passing
<1>1. TypePass' BY DEF TypePass
<1>2. InHand' /\ ToldBefore' BY DEF InHand, ToldBefore
<1>3. ToldAgain' BY DEF TypePass, ToldAgain
<1> QED BY <1>1, <1>2, <1>3

\* Steps of the pass between its writes.
LEMMA PassMoves ==
    ASSUME WalletInv, scan' \in [at : {"rest", "next", "diff"}, todo : SUBSET Wallets,
                                 new : SUBSET Pairs, pair : Pairs \cup {NoPair}],
           scan'.new \cap known = {}, scan.at # "second" \/ walletFaults' = walletFaults + 1,
           walletFaults' \in {walletFaults, walletFaults + 1},
           UNCHANGED <<holds, known, told, unsaid>>
    PROVE  WalletInv'
<1> USE DEF WalletInv
<1>1. TypePass' BY DEF TypePass
<1>2. InHand' /\ ToldBefore' BY DEF InHand, ToldBefore
<1>3. ToldAgain' BY DEF TypePass, ToldAgain
<1> QED BY <1>1, <1>2, <1>3

LEMMA NewHoldingStep ==
    ASSUME WalletInv, NEW p \in Pairs, NewHolding(p)
    PROVE  WalletInv'
<1> USE DEF WalletInv
<1>1. /\ scan'.at = "first" /\ scan'.pair = p /\ scan'.new = scan.new \ {p}
      /\ p \in scan.new /\ scan.at = "diff"
  BY DEF NewHolding, TypePass
<1>2. UNCHANGED <<holds, known, told, unsaid, walletFaults>>
  BY DEF NewHolding, chain, bounds
<1>3. scan' \in [at : {"rest", "next", "diff", "first", "second"},
                 todo : SUBSET Wallets, new : SUBSET Pairs, pair : Pairs \cup {NoPair}]
  BY DEF NewHolding, TypePass
<1>4. TypePass' BY <1>2, <1>3 DEF TypePass
<1>5. InHand' BY <1>1, <1>2 DEF InHand
<1>6. ToldBefore' BY <1>1, <1>2 DEF ToldBefore
<1>7. ToldAgain' BY <1>1, <1>2 DEF ToldAgain
<1> QED BY <1>4, <1>5, <1>6, <1>7

LEMMA AlertStep ==
    ASSUME WalletInv, WriteNewHolding(1)
    PROVE  WalletInv'
<1> USE DEF WalletInv
<1>1. /\ scan.at = "first" /\ scan' = [scan EXCEPT !.at = "second"] /\ InsertAlert
      /\ UNCHANGED <<holds, known>>
  BY DEF WriteNewHolding, WriteOrder, chain
<1>2. /\ scan'.at = "second" /\ scan'.pair = scan.pair /\ scan'.new = scan.new
      /\ scan' \in [at : {"rest", "next", "diff", "first", "second"},
                    todo : SUBSET Wallets, new : SUBSET Pairs, pair : Pairs \cup {NoPair}]
  BY <1>1 DEF TypePass
<1>3. scan.pair \in Pairs /\ scan.pair \notin known BY <1>1 DEF InHand
<1>4. InHand' BY <1>1, <1>2 DEF InHand
<1>5. CASE told' = [told EXCEPT ![scan.pair] = @ + 1] /\ UNCHANGED <<unsaid, walletFaults>>
  <2>1. TypePass' BY <1>1, <1>2, <1>3, <1>5 DEF TypePass
  <2>2. ToldBefore' BY <1>1, <1>2, <1>3, <1>5 DEF TypePass, ToldBefore
  <2>3. told[scan.pair] <= walletFaults BY <1>1, <1>3 DEF ToldAgain
  <2>4. ToldAgain' BY <1>1, <1>2, <1>3, <1>5, <2>3 DEF TypePass, ToldAgain
  <2> QED BY <1>4, <2>1, <2>2, <2>4
<1>6. CASE unsaid' = unsaid \cup {scan.pair} /\ WalletFault /\ UNCHANGED told
  <2>1. TypePass' BY <1>1, <1>2, <1>6 DEF TypePass, WalletFault
  <2>2. ToldBefore' BY <1>1, <1>2, <1>6 DEF ToldBefore
  <2>3. ToldAgain' BY <1>1, <1>2, <1>6 DEF TypePass, ToldAgain, WalletFault
  <2> QED BY <1>4, <2>1, <2>2, <2>3
<1> QED BY <1>1, <1>5, <1>6 DEF InsertAlert

LEMMA HoldingStep ==
    ASSUME WalletInv, WriteNewHolding(2)
    PROVE  WalletInv'
<1> USE DEF WalletInv
<1>1. /\ scan.at = "second" /\ scan' = [scan EXCEPT !.at = "diff", !.pair = NoPair]
      /\ UpsertHolding /\ UNCHANGED <<holds, told, unsaid>>
  BY DEF WriteNewHolding, WriteOrder, chain
<1>2. /\ scan'.at = "diff" /\ scan'.new = scan.new
      /\ scan' \in [at : {"rest", "next", "diff", "first", "second"},
                    todo : SUBSET Wallets, new : SUBSET Pairs, pair : Pairs \cup {NoPair}]
  BY <1>1 DEF TypePass
<1>3. scan.pair \in Pairs /\ scan.pair \notin scan.new BY <1>1 DEF InHand
<1>4. CASE known' = known \cup {scan.pair} /\ UNCHANGED walletFaults
  <2>1. TypePass' BY <1>1, <1>2, <1>3, <1>4 DEF TypePass
  <2>2. InHand' BY <1>2, <1>3, <1>4 DEF InHand
  <2>3. ToldBefore' BY <1>1, <1>2, <1>4 DEF ToldBefore
  <2>4. ToldAgain' BY <1>1, <1>2, <1>4 DEF ToldAgain
  <2> QED BY <2>1, <2>2, <2>3, <2>4
<1>5. CASE WalletFault /\ UNCHANGED known
  <2>1. TypePass' BY <1>1, <1>2, <1>5 DEF TypePass, WalletFault
  <2>2. InHand' /\ ToldBefore' BY <1>1, <1>2, <1>5 DEF InHand, ToldBefore
  <2>3. ToldAgain' BY <1>1, <1>2, <1>5 DEF TypePass, ToldAgain, WalletFault
  <2> QED BY <2>1, <2>2, <2>3
<1> QED BY <1>1, <1>4, <1>5 DEF UpsertHolding

LEMMA WalletInvNext == WalletInv /\ [WalletNext]_walletVars => WalletInv'
<1> SUFFICES ASSUME WalletInv, [WalletNext]_walletVars PROVE WalletInv'
  OBVIOUS
<1>0. holds \subseteq Pairs /\ walletFaults \in Nat BY DEF WalletInv, TypePass
<1>1. ASSUME NEW w \in Wallets, NEW m \in Mints, WalletBuys(w, m) PROVE WalletInv'
  <2>1. <<w, m>> \in Pairs BY DEF Pairs
  <2> QED BY <1>0, <1>1, <2>1, PassUntouched DEF WalletBuys, bounds
<1>2. ASSUME NEW p \in Pairs, WalletSells(p) PROVE WalletInv'
  BY <1>0, <1>2, PassUntouched DEF WalletSells, bounds
<1>3. ASSUME NEW m \in Mints, MintGains(m) \/ SpawnTrace(m) PROVE WalletInv'
  BY <1>0, <1>3, PassUntouched DEF MintGains, SpawnTrace, chain, bounds
<1>4. ASSUME NEW m \in Mints, EndTrace(m) PROVE WalletInv'
  BY <1>0, <1>4, PassUntouched DEF EndTrace, chain, WalletFault
<1>5. CASE PromoteSmartWallets
  BY <1>0, <1>5, PassUntouched DEF PromoteSmartWallets, chain, bounds
<1>6. ASSUME NEW w \in Wallets, WatchWallet(w) \/ UnwatchWallet(w) PROVE WalletInv'
  BY <1>0, <1>6, PassUntouched DEF WatchWallet, UnwatchWallet, chain
<1>7. CASE BeginSmartScan
  <2>1. scan' \in [at : {"rest", "next", "diff"}, todo : SUBSET Wallets,
                   new : SUBSET Pairs, pair : Pairs \cup {NoPair}]
        /\ scan'.new = {} /\ scan.at # "second"
    BY <1>7 DEF BeginSmartScan, NoPass, Listed
  <2> QED BY <1>7, <2>1, PassMoves DEF BeginSmartScan, chain, bounds
<1>8. CASE FetchHoldings
  <2>1. PICK w \in scan.todo :
          \/ /\ scan' = [scan EXCEPT !.todo = @ \ {w},
                           !.new = {p \in holds \ known : p[1] = w}, !.at = "diff"]
             /\ UNCHANGED walletFaults
          \/ scan' = [scan EXCEPT !.todo = @ \ {w}] /\ WalletFault
    BY <1>8 DEF FetchHoldings
  <2>2. /\ scan' \in [at : {"rest", "next", "diff"}, todo : SUBSET Wallets,
                      new : SUBSET Pairs, pair : Pairs \cup {NoPair}]
        /\ scan'.new \cap known = {}
    <3> DEFINE new == {p \in holds \ known : p[1] = w}
    <3>1. new \in SUBSET Pairs /\ new \cap known = {} BY <1>0
    <3>2. scan.at = "next" BY <1>8 DEF FetchHoldings
    <3>3. \/ scan' = [scan EXCEPT !.todo = @ \ {w}, !.new = new, !.at = "diff"]
          \/ scan' = [scan EXCEPT !.todo = @ \ {w}]
      BY <2>1
    <3> HIDE DEF new
    <3> QED BY <3>1, <3>2, <3>3 DEF WalletInv, TypePass, InHand
  <2> QED BY <1>8, <2>1, <2>2, PassMoves DEF FetchHoldings, chain, WalletFault
<1>9. CASE TouchSmartWallet
  <2>1. /\ scan' \in [at : {"rest", "next", "diff"}, todo : SUBSET Wallets,
                      new : SUBSET Pairs, pair : Pairs \cup {NoPair}]
        /\ scan'.new = {} /\ scan.at # "second"
    BY <1>9 DEF TouchSmartWallet, WalletInv, TypePass
  <2> QED BY <1>9, <2>1, PassMoves DEF TouchSmartWallet, chain, bounds
<1>10. CASE EndSmartScan
  <2>1. /\ scan' \in [at : {"rest", "next", "diff"}, todo : SUBSET Wallets,
                      new : SUBSET Pairs, pair : Pairs \cup {NoPair}]
        /\ scan'.new = {} /\ scan.at # "second"
    BY <1>10 DEF EndSmartScan, NoPass
  <2> QED BY <1>10, <2>1, PassMoves DEF EndSmartScan, chain, bounds
<1>11. ASSUME NEW p \in Pairs, NewHolding(p) PROVE WalletInv'
  BY <1>11, NewHoldingStep
<1>12. ASSUME NEW n \in 1 .. 2, WriteNewHolding(n) PROVE WalletInv'
  <2>1. n = 1 \/ n = 2 OBVIOUS
  <2> QED BY <1>12, <2>1, AlertStep, HoldingStep
<1>13. CASE WalletRestart
  <2>1. /\ scan' \in [at : {"rest", "next", "diff"}, todo : SUBSET Wallets,
                      new : SUBSET Pairs, pair : Pairs \cup {NoPair}]
        /\ scan'.new = {} /\ walletFaults' = walletFaults + 1
    BY <1>13 DEF WalletRestart, NoPass, WalletFault
  <2> QED BY <1>13, <2>1, PassMoves DEF WalletRestart, chain
<1>14. CASE UNCHANGED walletVars
  BY <1>0, <1>14, PassUntouched DEF walletVars, chain, bounds
<1> QED BY <1>1, <1>2, <1>3, <1>4, <1>5, <1>6, <1>7, <1>8, <1>9, <1>10, <1>11, <1>12,
           <1>13, <1>14 DEF WalletNext, SmartScan

(***************************************************************************)
(* What is recorded of a smart wallet was told before, and no holding is   *)
(* told more than once plus once for each fault, for any wallets and mints *)
(* and over restarts at any place (scan_smart_wallets).                    *)
(***************************************************************************)
THEOREM RecordedWasTold == WalletSpec => []KnownWasTold
<1>1. WalletInit => WalletInv BY WalletInvInit
<1>2. WalletInv /\ [WalletNext]_walletVars => WalletInv' BY WalletInvNext
<1>3. WalletInv => KnownWasTold
  BY DEF WalletInv, ToldBefore, ToldAgain, KnownWasTold
<1> QED BY <1>1, <1>2, <1>3, PTL DEF WalletSpec

-----------------------------------------------------------------------------
(* The anchor.                                                             *)

Forward == [chat : Chats \cup {"unnamed"}, id : Nat]
Bump == [at : {"rest", "read", "delete", "forward", "store", "clean"},
         prev : Forward, new : Forward, shared : BOOLEAN]

TypeAnchor ==
    /\ dest \in Chats /\ last \in Nat
    /\ anchor \in Forward /\ stale.chat \in {"unnamed", Lounge}
    /\ bump \in [Bumpers -> Bump]
    /\ newest \in [Chats -> Nat] /\ lastCard \in Nat

\* Numbers are given once: no bump deletes what is yet to be forwarded.
Numbered ==
    /\ \A b \in Bumpers : bump[b].prev.id <= last
    /\ anchor.id <= last /\ lastCard <= last
    /\ \A b \in Bumpers : At(b, "store") => bump[b].new.chat \in Chats /\ bump[b].new.id <= last

\* A bump that overlapped no other is alone between its reading and writing.
Unshared ==
    \A b \in Bumpers : Busy(b) /\ ~bump[b].shared => ~Overlapped(b)

\* The forward of the row is explained already, or every bump under way will
\* delete it; one that is past its deletion has done so, or a fault has not.
KeptInHand ==
    /\ Kept \in orphans \/ \A b \in Bumpers : Busy(b) => bump[b].prev = Kept
    /\ \A b \in Bumpers :
          bump[b].at \in {"forward", "store"}
          => bump[b].prev \notin forwards \/ bump[b].prev \in orphans

\* Every forward is the row's, explained, or about to be the row's.
Explained ==
    \A f \in forwards :
        \/ f = Kept \/ f \in orphans
        \/ \E b \in Bumpers : At(b, "store") /\ bump[b].new = f

\* A forward stands below the last card, or a bump is still to forward.
Bottom ==
    spoiled \/ (\E f \in forwards : f.chat = dest /\ f.id > lastCard)
            \/ \E b \in Bumpers : bump[b].at \in {"read", "delete", "forward"}

AnchorInv == TypeAnchor /\ Numbered /\ Unshared /\ KeptInHand /\ Explained /\ Bottom

USE AnchorAssumption

LEMMA IdleIsBump == Idle \in Bump /\ Idle.at = "rest" /\ Idle.prev.id = 0
<1>1. NoForward \in Forward /\ NoForward.id = 0 BY DEF NoForward, Forward
<1> QED BY <1>1 DEF Idle, Bump

LEMMA AnchorInvInit == AnchorInit => AnchorInv
<1> SUFFICES ASSUME AnchorInit PROVE AnchorInv
  OBVIOUS
<1>1. anchor \in Forward /\ anchor.chat = "unnamed" /\ anchor.id \in {0, 1}
  <2>1. CASE anchor = [chat |-> "unnamed", id |-> 0] BY <2>1 DEF Forward
  <2>2. CASE anchor = [chat |-> "unnamed", id |-> 1] BY <2>2 DEF Forward
  <2> QED BY <2>1, <2>2 DEF AnchorInit, NoForward
<1>2. \A b \in Bumpers : bump[b] = Idle BY DEF AnchorInit
<1>3. TypeAnchor
  <2>1. newest \in [Chats -> Nat] /\ lastCard \in Nat BY DEF AnchorInit
  <2>2. stale.chat = "unnamed" BY DEF AnchorInit, NoForward
  <2> QED BY <1>1, <2>1, <2>2, IdleIsBump DEF AnchorInit, TypeAnchor
<1>4. \A b \in Bumpers : bump[b].at = "rest" /\ bump[b].prev.id = 0
  BY <1>2, IdleIsBump
<1>5. Numbered
  <2>1. last = 1 /\ lastCard = 0 BY DEF AnchorInit
  <2> QED BY <1>1, <1>4, <2>1 DEF Numbered, At
<1>9. Unshared BY <1>4 DEF Unshared, Busy
<1>6. Bottom BY DEF AnchorInit, Bottom
<1>7. KeptInHand BY <1>4 DEF KeptInHand, Busy
<1>8. Explained
  <2>1. CASE anchor = NoForward BY <2>1 DEF AnchorInit, Explained
  <2>2. CASE anchor = [chat |-> "unnamed", id |-> 1]
    <3>1. Kept = [chat |-> Lounge, id |-> 1] BY <2>2 DEF Kept
    <3> QED BY <3>1 DEF AnchorInit, Explained
  <2> QED BY <2>1, <2>2 DEF AnchorInit
<1> QED BY <1>3, <1>5, <1>6, <1>7, <1>8, <1>9 DEF AnchorInv

\* A task that is neither reading nor writing anything of the anchor moves on.
LEMMA BumpQuiet ==
    ASSUME AnchorInv, NEW b \in Bumpers, PostCard(b) \/ BumpLoungeAnchor(b)
    PROVE  AnchorInv'
<1> USE DEF AnchorInv
<1>1. /\ bump[b].at = "rest" /\ bump' = [bump EXCEPT ![b].at = "read"]
      /\ UNCHANGED <<dest, stale, forwards, anchor, orphans, spoiled>>
  BY DEF PostCard, BumpLoungeAnchor, At, Go, config, histories
<1>2. /\ bump'[b].at = "read" /\ bump'[b].prev = bump[b].prev
      /\ \A c \in Bumpers \ {b} : bump'[c] = bump[c]
      /\ bump' \in [Bumpers -> Bump]
  BY <1>1 DEF TypeAnchor, Bump
<1>3. /\ last' \in Nat /\ last' >= last /\ newest' \in [Chats -> Nat]
      /\ lastCard' \in Nat /\ lastCard' <= last'
  <2>1. CASE PostCard(b) BY <2>1 DEF PostCard, Post, TypeAnchor
  <2>2. CASE BumpLoungeAnchor(b)
    BY <2>2 DEF BumpLoungeAnchor, messages, TypeAnchor, Numbered
  <2> QED BY <2>1, <2>2
<1>4. TypeAnchor' BY <1>1, <1>2, <1>3 DEF TypeAnchor
<1>5. Numbered'
  <2>1. \A c \in Bumpers : bump'[c].prev = bump[c].prev BY <1>2
  <2>2. \A c \in Bumpers : bump[c].prev.id \in Nat BY DEF TypeAnchor, Bump, Forward
  <2>3. anchor.id \in Nat /\ last \in Nat BY DEF TypeAnchor, Forward
  <2>4. \A c \in Bumpers : bump[c].prev.id <= last' BY <1>3, <2>2, <2>3 DEF Numbered
  <2>5. anchor'.id <= last' BY <1>1, <1>3, <2>3 DEF Numbered
  <2>7. \A c \in Bumpers : bump[c].new.id \in Nat BY DEF TypeAnchor, Bump, Forward
  <2>6. \A c \in Bumpers : At(c, "store")' =>
           bump'[c].new.chat \in Chats /\ bump'[c].new.id <= last'
    BY <1>2, <1>3, <2>3, <2>7 DEF Numbered, At
  <2> QED BY <1>3, <2>1, <2>4, <2>5, <2>6 DEF Numbered
<1>6. Unshared' BY <1>1, <1>2 DEF Unshared, Busy, Overlapped
<1>7. KeptInHand' BY <1>1, <1>2 DEF KeptInHand, Busy, Kept
<1>8. Explained' BY <1>1, <1>2 DEF Explained, Kept, At
<1>9. Bottom' BY <1>2 DEF Bottom
<1> QED BY <1>4, <1>5, <1>6, <1>7, <1>8, <1>9

\* A message that nothing bumps after: a card among them is excused.
LEMMA PostQuiet ==
    ASSUME AnchorInv, NEW c \in Chats, Post(c),
           (lastCard' = lastCard /\ spoiled' = spoiled)
             \/ (lastCard' = last' /\ spoiled' = TRUE),
           UNCHANGED <<config, forwards, anchor, bump, orphans>>
    PROVE  AnchorInv'
<1> USE DEF AnchorInv
<1>1. UNCHANGED <<dest, stale, forwards, anchor, bump, orphans>> BY DEF config
<1>2. last \in Nat /\ last' = last + 1 /\ newest' \in [Chats -> Nat]
  BY DEF Post, TypeAnchor
<1>3. lastCard' \in Nat /\ lastCard' <= last' BY <1>2 DEF TypeAnchor, Numbered
<1>4. TypeAnchor' BY <1>1, <1>2, <1>3 DEF TypeAnchor
<1>5. Numbered'
  <2>1. \A b \in Bumpers : bump[b].prev.id \in Nat /\ bump[b].new.id \in Nat
    BY DEF TypeAnchor, Bump, Forward
  <2>2. anchor.id \in Nat BY DEF TypeAnchor, Forward
  <2> QED BY <1>1, <1>2, <1>3, <2>1, <2>2 DEF Numbered, At
<1>6. Unshared' BY <1>1 DEF Unshared, Busy, Overlapped
<1>7. KeptInHand' BY <1>1 DEF KeptInHand, Busy, Kept
<1>8. Explained' BY <1>1 DEF Explained, Kept, At
<1>9. Bottom' BY <1>1 DEF Bottom
<1> QED BY <1>4, <1>5, <1>6, <1>7, <1>8, <1>9

LEMMA PostUnbumpedStep == AnchorInv /\ PostUnbumped => AnchorInv'
<1> SUFFICES ASSUME AnchorInv, PostUnbumped PROVE AnchorInv'
  OBVIOUS
<1>1. PICK c \in Chats : Post(c) BY DEF PostUnbumped
<1> QED BY <1>1, PostQuiet DEF PostUnbumped, histories

LEMMA CardUnrecordedStep ==
    ASSUME AnchorInv, NEW b \in Bumpers, CardUnrecorded(b)
    PROVE  AnchorInv'
BY PostQuiet DEF CardUnrecorded

\* A bump begins with the row, or with nothing if the row could not be read.
LEMMA BeginBumpStep ==
    ASSUME AnchorInv, NEW b \in Bumpers, NEW read \in Forward, Begin(b, read),
           orphans \subseteq orphans',
           read = anchor \/ (read.id = 0 /\ Kept \in orphans')
    PROVE  AnchorInv'
<1> USE DEF AnchorInv
<1>1. /\ Resolved(read) \in Forward /\ Resolved(read).id = read.id
      /\ read = anchor => Resolved(read) = Kept
  BY DEF Resolved, Kept, TypeAnchor, Forward
<1>2. UNCHANGED <<dest, stale, newest, lastCard, forwards, anchor, last, spoiled>>
  BY DEF Begin, config, messages
<1>3. bump[b].at = "read" BY DEF Begin, At
<1>4. /\ bump'[b].at = "delete" /\ bump'[b].prev = Resolved(read)
      /\ bump'[b].shared = Overlapped(b)
  BY DEF Begin
<1>5. \A c \in Bumpers \ {b} :
        /\ bump'[c].at = bump[c].at /\ bump'[c].prev = bump[c].prev
        /\ bump'[c].new = bump[c].new
        /\ Busy(c) => bump'[c].shared
  BY DEF Begin, TypeAnchor, Bump
<1>6. bump' \in [Bumpers -> Bump]
  <2>1. NoForward \in Forward BY DEF NoForward, Forward
  <2>2. \A c \in Bumpers : bump'[c] \in Bump
    BY <1>1, <2>1 DEF Begin, TypeAnchor, Bump, Overlapped, Busy
  <2> QED BY <2>2 DEF Begin
<1>7. TypeAnchor' BY <1>2, <1>6 DEF TypeAnchor
<1>8. Numbered'
  <2>1. Resolved(read).id <= last BY <1>1 DEF Numbered, TypeAnchor
  <2> QED BY <1>2, <1>4, <1>5, <2>1 DEF Numbered, At
<1>9. Unshared' BY <1>3, <1>4, <1>5 DEF Unshared, Busy, Overlapped
<1>10. KeptInHand'
  <2>1. Kept' = Kept BY <1>2 DEF Kept
  <2>2. Kept \in orphans' \/ \A c \in Bumpers : Busy(c)' => bump'[c].prev = Kept
    BY <1>1, <1>4, <1>5 DEF KeptInHand, Busy
  <2> QED BY <1>2, <1>4, <1>5, <2>1, <2>2 DEF KeptInHand
<1>11. Explained'
  <2> SUFFICES ASSUME NEW f \in forwards, f # Kept, f \notin orphans
               PROVE  \E c \in Bumpers : bump'[c].at = "store" /\ bump'[c].new = f
    BY <1>2 DEF Explained, Kept, At
  <2>1. PICK c \in Bumpers : bump[c].at = "store" /\ bump[c].new = f
    BY DEF Explained, At
  <2> QED BY <1>3, <1>5, <2>1
<1>12. Bottom' BY <1>2, <1>4 DEF Bottom
<1> QED BY <1>7, <1>8, <1>9, <1>10, <1>11, <1>12

LEMMA ReadAnchorStep ==
    ASSUME AnchorInv, NEW b \in Bumpers, ReadAnchor(b) \/ ReadAnchorFails(b)
    PROVE  AnchorInv'
<1>1. anchor \in Forward BY DEF AnchorInv, TypeAnchor
<1>2. NoForward \in Forward /\ NoForward.id = 0 BY DEF NoForward, Forward
<1>3. Resolved(anchor) = Kept BY <1>1 DEF Resolved, Kept, Forward
<1>4. CASE ReadAnchor(b) BY <1>1, <1>4, BeginBumpStep DEF ReadAnchor
<1>5. CASE ReadAnchorFails(b) BY <1>2, <1>3, <1>5, BeginBumpStep DEF ReadAnchorFails
<1> QED BY <1>4, <1>5

LEMMA DeleteStep ==
    ASSUME AnchorInv, NEW b \in Bumpers, DeletePrevious(b)
    PROVE  AnchorInv'
<1> USE DEF AnchorInv
<1>1. UNCHANGED <<dest, stale, newest, lastCard, anchor, last, spoiled>>
  BY DEF DeletePrevious, config, messages
<1>2. bump[b].at = "delete" /\ bump' = [bump EXCEPT ![b].at = "forward"]
  BY DEF DeletePrevious, At, Go
<1>3. /\ bump'[b].at = "forward" /\ bump'[b].prev = bump[b].prev
      /\ bump'[b].shared = bump[b].shared
      /\ \A c \in Bumpers \ {b} : bump'[c] = bump[c]
      /\ bump' \in [Bumpers -> Bump]
  BY <1>2 DEF TypeAnchor, Bump
<1>4. /\ forwards' \subseteq forwards /\ orphans \subseteq orphans'
      /\ bump[b].prev \notin forwards' \/ bump[b].prev \in orphans'
  BY DEF DeletePrevious
<1>5. TypeAnchor' BY <1>1, <1>3 DEF TypeAnchor
<1>6. Numbered' BY <1>1, <1>2, <1>3 DEF Numbered, At
<1>7. Unshared' BY <1>2, <1>3 DEF Unshared, Busy, Overlapped
<1>8. KeptInHand' BY <1>1, <1>2, <1>3, <1>4 DEF KeptInHand, Busy, Kept
<1>9. Explained' BY <1>1, <1>2, <1>3, <1>4 DEF Explained, Kept, At
<1>10. Bottom' BY <1>3 DEF Bottom
<1> QED BY <1>5, <1>6, <1>7, <1>8, <1>9, <1>10

\* The source is forwarded; the bump knows it, or a fault explains it.
LEMMA ForwardedStep ==
    ASSUME AnchorInv, NEW b \in Bumpers, ForwardAnchor(b) \/ ForwardTimesOut(b)
    PROVE  AnchorInv'
<1> USE DEF AnchorInv
<1>1. /\ bump[b].at = "forward" /\ UNCHANGED <<dest, stale, lastCard, anchor>>
      /\ Post(dest) /\ spoiled' = FALSE /\ orphans \subseteq orphans'
  BY DEF ForwardAnchor, ForwardTimesOut, At, config
<1>2. last \in Nat /\ \A c \in Bumpers : bump[c].prev.id \in Nat /\ bump[c].new.id \in Nat
  BY DEF TypeAnchor, Bump, Forward
<1>3. anchor.id \in Nat /\ lastCard \in Nat BY DEF TypeAnchor, Forward
<1> DEFINE new == Forwarded
<1>4. /\ new \in Forward /\ new.id = last + 1 /\ new.chat = dest /\ dest \in Chats
  BY <1>2 DEF Forwarded, Forward, TypeAnchor
<1>5. forwards' = forwards \cup {new} BY DEF ForwardAnchor, ForwardTimesOut
<1>6. \/ bump' = [bump EXCEPT ![b].at = "store", ![b].new = new]
      \/ bump' = [bump EXCEPT ![b].at = "clean"] /\ new \in orphans'
  BY DEF ForwardAnchor, ForwardTimesOut, Go
<1> HIDE DEF new
<1>7. last' = last + 1 /\ newest' \in [Chats -> Nat]
  BY <1>1, <1>2 DEF Post, TypeAnchor
<1>8. /\ \/ bump'[b].at = "store" /\ bump'[b].new = new
         \/ bump'[b].at = "clean" /\ new \in orphans'
      /\ bump'[b].prev = bump[b].prev /\ bump'[b].shared = bump[b].shared
      /\ \A c \in Bumpers \ {b} : bump'[c] = bump[c]
      /\ bump' \in [Bumpers -> Bump]
  BY <1>4, <1>6 DEF TypeAnchor, Bump
<1>9. TypeAnchor' BY <1>1, <1>2, <1>7, <1>8 DEF TypeAnchor
<1>10. Numbered'
  <2>1. \A c \in Bumpers : bump'[c].prev.id <= last'
    BY <1>2, <1>7, <1>8 DEF Numbered
  <2>2. anchor'.id <= last' /\ lastCard' <= last'
    BY <1>1, <1>2, <1>3, <1>7 DEF Numbered
  <2>3. \A c \in Bumpers : At(c, "store")' =>
           bump'[c].new.chat \in Chats /\ bump'[c].new.id <= last'
    BY <1>2, <1>4, <1>7, <1>8 DEF Numbered, At
  <2> QED BY <2>1, <2>2, <2>3 DEF Numbered
<1>11. Unshared' BY <1>1, <1>8 DEF Unshared, Busy, Overlapped
<1>12. KeptInHand'
  <2>1. \A c \in Bumpers : bump[c].prev # new BY <1>2, <1>4 DEF Numbered
  <2> QED BY <1>1, <1>5, <1>8, <2>1 DEF KeptInHand, Busy, Kept
<1>13. Explained'
  <2> SUFFICES ASSUME NEW f \in forwards', f # Kept, f \notin orphans'
               PROVE  \E c \in Bumpers : bump'[c].at = "store" /\ bump'[c].new = f
    BY <1>1 DEF Explained, Kept, At
  <2>1. CASE f = new BY <1>8, <2>1
  <2>2. CASE f # new
    <3>1. PICK c \in Bumpers : bump[c].at = "store" /\ bump[c].new = f
      BY <1>1, <1>5, <2>2 DEF Explained, At
    <3> QED BY <1>1, <1>8, <3>1
  <2> QED BY <2>1, <2>2
<1>14. Bottom'
  <2>1. new \in forwards' /\ new.chat = dest' /\ new.id > lastCard'
    BY <1>1, <1>2, <1>3, <1>4, <1>5 DEF Numbered
  <2> QED BY <2>1 DEF Bottom
<1> QED BY <1>9, <1>10, <1>11, <1>12, <1>13, <1>14

LEMMA ForwardFailsStep ==
    ASSUME AnchorInv, NEW b \in Bumpers, ForwardFails(b)
    PROVE  AnchorInv'
<1> USE DEF AnchorInv
<1>1. /\ bump[b].at = "forward" /\ spoiled' = TRUE
      /\ UNCHANGED <<dest, stale, newest, lastCard, last, forwards, anchor, orphans>>
  BY DEF ForwardFails, At, config, messages
<1>2. /\ bump'[b].at = "clean" /\ bump'[b].prev = bump[b].prev
      /\ \A c \in Bumpers \ {b} : bump'[c] = bump[c]
      /\ bump' \in [Bumpers -> Bump]
  BY DEF ForwardFails, Go, TypeAnchor, Bump
<1>3. TypeAnchor' BY <1>1, <1>2 DEF TypeAnchor
<1>4. Numbered' BY <1>1, <1>2 DEF Numbered, At
<1>5. Unshared' BY <1>2 DEF Unshared, Busy, Overlapped
<1>6. KeptInHand' BY <1>1, <1>2 DEF KeptInHand, Busy, Kept
<1>7. Explained'
  <2> SUFFICES ASSUME NEW f \in forwards, f # Kept, f \notin orphans
               PROVE  \E c \in Bumpers : bump'[c].at = "store" /\ bump'[c].new = f
    BY <1>1 DEF Explained, Kept, At
  <2>1. PICK c \in Bumpers : bump[c].at = "store" /\ bump[c].new = f
    BY DEF Explained, At
  <2> QED BY <1>1, <1>2, <2>1
<1>8. Bottom' BY <1>1 DEF Bottom
<1> QED BY <1>3, <1>4, <1>5, <1>6, <1>7, <1>8

LEMMA StoreStep ==
    ASSUME AnchorInv, NEW b \in Bumpers, SetAnchorState(b)
    PROVE  AnchorInv'
<1> USE DEF AnchorInv
<1>1. /\ bump[b].at = "store" /\ bump' = [bump EXCEPT ![b].at = "clean"]
      /\ UNCHANGED <<dest, stale, newest, lastCard, forwards, last, spoiled>>
      /\ orphans \subseteq orphans'
  BY DEF SetAnchorState, At, Go, config, messages
<1>2. /\ bump'[b].at = "clean" /\ bump'[b].prev = bump[b].prev
      /\ \A c \in Bumpers \ {b} : bump'[c] = bump[c]
      /\ bump' \in [Bumpers -> Bump]
  BY <1>1 DEF TypeAnchor, Bump
<1>3. Unshared' BY <1>2 DEF Unshared, Busy, Overlapped
<1>4. Bottom' BY <1>1, <1>2 DEF Bottom
<1>5. CASE /\ anchor' = bump[b].new
           /\ orphans' = IF bump[b].shared THEN orphans \cup {bump[b].new} ELSE orphans
  <2>1. /\ bump[b].new \in Forward /\ bump[b].new.chat \in Chats
        /\ bump[b].new.id <= last
    BY <1>1 DEF TypeAnchor, Bump, Numbered, At
  <2>2. Kept' = bump[b].new BY <1>5, <2>1 DEF Kept
  <2>3. TypeAnchor' BY <1>1, <1>2, <1>5, <2>1 DEF TypeAnchor
  <2>4. Numbered' BY <1>1, <1>2, <1>5, <2>1 DEF Numbered, At
  <2>5. KeptInHand'
    <3>1. CASE bump[b].shared BY <1>1, <1>2, <1>5, <2>2, <3>1 DEF KeptInHand, Busy
    <3>2. CASE ~bump[b].shared
      <4>1. \A c \in Bumpers : ~Busy(c)'
        BY <1>1, <1>2, <3>2 DEF Unshared, Overlapped, Busy
      <4> QED BY <4>1 DEF KeptInHand, Busy
    <3> QED BY <3>1, <3>2
  <2>6. Explained'
    <3> SUFFICES ASSUME NEW f \in forwards, f # Kept', f \notin orphans'
                 PROVE  \E c \in Bumpers : bump'[c].at = "store" /\ bump'[c].new = f
      BY <1>1 DEF Explained, At
    <3>1. f # Kept BY <1>1 DEF KeptInHand, Busy
    <3>2. PICK c \in Bumpers : bump[c].at = "store" /\ bump[c].new = f
      BY <1>1, <3>1 DEF Explained, At
    <3> QED BY <1>2, <2>2, <3>2
  <2> QED BY <1>3, <1>4, <2>3, <2>4, <2>5, <2>6
<1>6. CASE orphans' = orphans \cup {bump[b].new} /\ UNCHANGED anchor
  <2>1. TypeAnchor' BY <1>1, <1>2, <1>6 DEF TypeAnchor
  <2>2. Numbered' BY <1>1, <1>2, <1>6 DEF Numbered, At
  <2>3. KeptInHand' BY <1>1, <1>2, <1>6 DEF KeptInHand, Busy, Kept
  <2>4. Explained'
    <3> SUFFICES ASSUME NEW f \in forwards, f # Kept, f \notin orphans'
                 PROVE  \E c \in Bumpers : bump'[c].at = "store" /\ bump'[c].new = f
      BY <1>1, <1>6 DEF Explained, Kept, At
    <3>1. PICK c \in Bumpers : bump[c].at = "store" /\ bump[c].new = f
      BY <1>1 DEF Explained, At
    <3> QED BY <1>2, <1>6, <3>1
  <2> QED BY <1>3, <1>4, <2>1, <2>2, <2>3, <2>4
<1> QED BY <1>5, <1>6 DEF SetAnchorState

LEMMA CleanStep ==
    ASSUME AnchorInv, NEW b \in Bumpers, CleanStale(b)
    PROVE  AnchorInv'
<1> USE DEF AnchorInv
<1>1. /\ bump[b].at = "clean" /\ bump' = [bump EXCEPT ![b] = Idle]
      /\ UNCHANGED <<dest, stale, newest, lastCard, anchor, last, orphans, spoiled>>
      /\ forwards' \subseteq forwards
      /\ forwards' = forwards \/ (dest # Lounge /\ forwards' = forwards \ {stale})
  BY DEF CleanStale, At, config, messages, histories
<1>2. /\ bump'[b].at = "rest" /\ bump'[b].prev.id = 0
      /\ \A c \in Bumpers \ {b} : bump'[c] = bump[c]
      /\ bump' \in [Bumpers -> Bump]
  BY <1>1, IdleIsBump DEF TypeAnchor
<1>3. TypeAnchor' BY <1>1, <1>2 DEF TypeAnchor
<1>4. Numbered' BY <1>1, <1>2 DEF Numbered, At, TypeAnchor
<1>5. Unshared' BY <1>2 DEF Unshared, Busy, Overlapped
<1>6. KeptInHand' BY <1>1, <1>2 DEF KeptInHand, Busy, Kept
<1>7. Explained'
  <2> SUFFICES ASSUME NEW f \in forwards', f # Kept, f \notin orphans
               PROVE  \E c \in Bumpers : bump'[c].at = "store" /\ bump'[c].new = f
    BY <1>1 DEF Explained, Kept, At
  <2>1. PICK c \in Bumpers : bump[c].at = "store" /\ bump[c].new = f
    BY <1>1 DEF Explained, At
  <2> QED BY <1>1, <1>2, <2>1
<1>8. Bottom'
  <2>1. dest # Lounge => stale.chat # dest BY DEF TypeAnchor
  <2> QED BY <1>1, <1>2, <2>1 DEF Bottom
<1> QED BY <1>3, <1>4, <1>5, <1>6, <1>7, <1>8

LEMMA CleanupStep == AnchorInv /\ CleanupLoungeAnchor => AnchorInv'
<1> SUFFICES ASSUME AnchorInv, CleanupLoungeAnchor PROVE AnchorInv'
  OBVIOUS
<1> USE DEF AnchorInv
<1>1. PICK f \in forwards :
        /\ f.chat = Lounge /\ forwards' = forwards \ {f}
        /\ spoiled' = (spoiled \/ (dest = Lounge /\ f.id > lastCard))
  BY DEF CleanupLoungeAnchor
<1>2. UNCHANGED <<dest, stale, newest, lastCard, anchor, bump, last, orphans>>
  BY DEF CleanupLoungeAnchor, config, messages
<1>3. TypeAnchor' BY <1>2 DEF TypeAnchor
<1>4. Numbered' /\ Unshared' BY <1>2 DEF Numbered, At, Unshared, Busy, Overlapped
<1>5. KeptInHand' BY <1>1, <1>2 DEF KeptInHand, Busy, Kept
<1>6. Explained' BY <1>1, <1>2 DEF Explained, Kept, At
<1>7. Bottom'
  <2>1. f.chat = dest /\ f.id > lastCard => spoiled' BY <1>1
  <2> QED BY <1>1, <1>2, <2>1 DEF Bottom
<1> QED BY <1>3, <1>4, <1>5, <1>6, <1>7

LEMMA AnchorRestartStep == AnchorInv /\ AnchorRestart => AnchorInv'
<1> SUFFICES ASSUME AnchorInv, AnchorRestart PROVE AnchorInv'
  OBVIOUS
<1> USE DEF AnchorInv
<1>1. /\ dest' \in Chats /\ spoiled' = TRUE
      /\ orphans' = orphans \cup {bump[b].new : b \in {c \in Bumpers : At(c, "store")}}
      /\ UNCHANGED <<newest, lastCard, forwards, anchor, last>>
  BY DEF AnchorRestart, messages
<1>2. bump' \in [Bumpers -> Bump]
      /\ \A b \in Bumpers : bump'[b].at = "rest" /\ bump'[b].prev.id = 0
  BY IdleIsBump DEF AnchorRestart
<1>3. stale'.chat \in {"unnamed", Lounge} BY DEF AnchorRestart, NoForward
<1>4. TypeAnchor' BY <1>1, <1>2, <1>3 DEF TypeAnchor
<1>5. Numbered' BY <1>1, <1>2 DEF Numbered, At, TypeAnchor
<1>6. Unshared' /\ KeptInHand' BY <1>2 DEF Unshared, KeptInHand, Busy
<1>7. Explained' BY <1>1 DEF Explained, Kept, At
<1>8. Bottom' BY <1>1 DEF Bottom
<1> QED BY <1>4, <1>5, <1>6, <1>7, <1>8

LEMMA AnchorInvNext == AnchorInv /\ [AnchorNext]_anchorVars => AnchorInv'
<1> SUFFICES ASSUME AnchorInv, [AnchorNext]_anchorVars PROVE AnchorInv'
  OBVIOUS
<1>1. ASSUME NEW b \in Bumpers, PostCard(b) \/ BumpLoungeAnchor(b) PROVE AnchorInv'
  BY <1>1, BumpQuiet
<1>2. ASSUME NEW b \in Bumpers, BumpStep(b) PROVE AnchorInv'
  BY <1>2, ReadAnchorStep, DeleteStep, ForwardedStep, ForwardFailsStep, StoreStep, CleanStep
     DEF BumpStep
<1>6. ASSUME NEW b \in Bumpers, CardUnrecorded(b) PROVE AnchorInv'
  BY <1>6, CardUnrecordedStep
<1>7. CASE PostUnbumped BY <1>7, PostUnbumpedStep
<1>3. CASE CleanupLoungeAnchor BY <1>3, CleanupStep
<1>4. CASE AnchorRestart BY <1>4, AnchorRestartStep
<1>5. CASE UNCHANGED anchorVars
  BY <1>5 DEF anchorVars, config, messages, histories, AnchorInv, TypeAnchor, Numbered, Unshared,
              KeptInHand, Explained, Bottom, Kept, Busy, At, Overlapped
<1> QED BY <1>1, <1>2, <1>3, <1>4, <1>5, <1>6, <1>7 DEF AnchorNext

THEOREM AnchorInvariant == AnchorSpec => []AnchorInv
<1>1. AnchorInit => AnchorInv BY AnchorInvInit
<1>2. AnchorInv /\ [AnchorNext]_anchorVars => AnchorInv' BY AnchorInvNext
<1> QED BY <1>1, <1>2, PTL DEF AnchorSpec

(***************************************************************************)
(* Whatever bumps overlap and whatever chats the configuration names, a    *)
(* forward that stays behind is one that a fault or an overlap explains    *)
(* (bump_anchor).                                                          *)
(***************************************************************************)
THEOREM NoOtherOrphans == AnchorSpec => []OrphansExplained
<1>1. AnchorInv => OrphansExplained
  BY DEF AnchorInv, Explained, OrphansExplained, AtRest, At
<1> QED BY <1>1, AnchorInvariant, PTL

(***************************************************************************)
(* When the bumps have ended, the anchor stands below every card, also if  *)
(* they overlapped, whatever replies and mirrors came after (bump_anchor). *)
(***************************************************************************)
THEOREM StaysBelowCards == AnchorSpec => []AnchorBelowCards
<1>1. AnchorInv => AnchorBelowCards
  BY DEF AnchorInv, Bottom, AnchorBelowCards, AtRest, At
<1> QED BY <1>1, AnchorInvariant, PTL
-----------------------------------------------------------------------------
(***************************************************************************)
(* The digest.  Its rows point at messages of their hour, one row to an    *)
(* hour, and a message that has the wrap-up is of an hour that is over.    *)
(* tick_digest_now keeps a row only while nothing else can remove it.      *)
(***************************************************************************)
Message == [bucket : Nat, text : Nat, wrap : BOOLEAN, there : BOOLEAN]
Row     == [bucket : Nat, message : Nat, finalized : BOOLEAN]
Ticking == [at : {"rest", "wrap", "finalize", "render", "current", "edit", "send", "insert"},
            row : Row, bucket : Nat, text : Nat]

TypeDigest ==
    /\ hour \in Nat /\ posted \in Seq(Message) /\ digests \subseteq Row
    /\ tick \in Ticking /\ deletions \in Nat /\ digestFaults \in Nat

WrappedIsOver == \A i \in DOMAIN posted : posted[i].wrap => posted[i].bucket < hour

Linked ==
    \A d \in digests : /\ d.message \in DOMAIN posted
                       /\ posted[d.message].bucket = d.bucket

OneRow == \A d, e \in digests : d.bucket = e.bucket => d = e

RowInHand ==
    /\ tick.at \in {"wrap", "finalize", "edit"} => tick.row \in digests
    /\ tick.at = "wrap" => tick.row.bucket < hour
    /\ tick.at = "edit" => /\ tick.row.bucket = tick.bucket
                           /\ ~posted[tick.row.message].wrap

RowMissing ==
    /\ tick.at \in {"send", "insert"} => \A d \in digests : d.bucket # tick.bucket
    /\ tick.at = "insert" => /\ Len(posted) \in DOMAIN posted
                             /\ posted[Len(posted)].bucket = tick.bucket

DigestShape ==
    TypeDigest /\ WrappedIsOver /\ Linked /\ OneRow /\ RowInHand /\ RowMissing

LEMMA NoTickIsTicking == NoTick \in Ticking /\ NoTick.at = "rest"
<1>1. NoRow \in Row BY DEF NoRow, Row
<1> QED BY <1>1 DEF NoTick, Ticking

LEMMA DigestShapeInit == DigestInit => DigestShape
<1> SUFFICES ASSUME DigestInit PROVE DigestShape
  OBVIOUS
<1>1. TypeDigest BY NoTickIsTicking DEF DigestInit, TypeDigest
<1> QED
  BY <1>1, NoTickIsTicking
  DEF DigestInit, DigestShape, WrappedIsOver, Linked, OneRow, RowInHand, RowMissing

(***************************************************************************)
(* The tick goes on, or ends.                                              *)
(***************************************************************************)
LEMMA StepTick ==
    ASSUME TypeDigest, NEW at \in {"finalize", "render", "send", "insert"}, Step(at)
    PROVE  /\ tick' \in Ticking /\ tick'.at = at
           /\ tick'.row = tick.row /\ tick'.bucket = tick.bucket
BY DEF TypeDigest, Ticking, Step

LEMMA StopTick ==
    ASSUME Stop PROVE tick' \in Ticking /\ tick'.at = "rest"
BY NoTickIsTicking DEF Stop

(***************************************************************************)
(* What an edit leaves as it was.                                          *)
(***************************************************************************)
LEMMA EditedPosted ==
    ASSUME posted \in Seq(Message), NEW id \in DOMAIN posted, NEW text \in Nat,
           NEW wrap \in BOOLEAN, Edited(id, text, wrap)
    PROVE  /\ posted' \in Seq(Message) /\ Len(posted') = Len(posted)
           /\ DOMAIN posted' = DOMAIN posted
           /\ posted'[id].wrap = wrap
           /\ \A i \in DOMAIN posted : /\ posted'[i].bucket = posted[i].bucket
                                       /\ posted'[i].there = posted[i].there
                                       /\ i # id => posted'[i] = posted[i]
<1>1. DOMAIN posted = 1 .. Len(posted) BY DEF Message
<1>2. posted[id] \in Message BY <1>1
<1> DEFINE new == [posted[id] EXCEPT !.text = text, !.wrap = wrap]
<1>3. new \in Message /\ new.bucket = posted[id].bucket /\ new.there = posted[id].there
      /\ new.wrap = wrap
  BY <1>2 DEF Message
<1>4. posted' = [posted EXCEPT ![id] = new] BY DEF Edited
<1> HIDE DEF new
<1> QED BY <1>1, <1>3, <1>4

LEMMA BeginStep == DigestShape /\ BeginTick => DigestShape'
<1> SUFFICES ASSUME DigestShape, BeginTick PROVE DigestShape'
  OBVIOUS
<1> USE DEF DigestShape
<1>1. UNCHANGED <<hour, posted, digests, deletions, digestFaults>> BY DEF BeginTick
<1>2. /\ tick' \in Ticking /\ tick'.at \in {"current", "wrap"}
      /\ tick'.at = "wrap" => tick'.row \in digests /\ tick'.row.bucket < hour
  <2>1. CASE tick' = [NoTick EXCEPT !.at = "current", !.text = hour]
    BY <2>1, NoTickIsTicking DEF TypeDigest, Ticking
  <2>2. CASE \E d \in UnfinalizedBefore(hour) :
               tick' = [NoTick EXCEPT !.at = "wrap", !.row = d, !.text = hour]
    <3>1. PICK d \in UnfinalizedBefore(hour) :
            tick' = [NoTick EXCEPT !.at = "wrap", !.row = d, !.text = hour]
      BY <2>2
    <3>2. d \in digests /\ d \in Row /\ d.bucket < hour
      BY DEF UnfinalizedBefore, TypeDigest
    <3>3. hour \in Nat BY DEF TypeDigest
    <3>4. tick' \in Ticking /\ tick'.at = "wrap" /\ tick'.row = d
      BY <3>1, <3>2, <3>3, NoTickIsTicking DEF Ticking
    <3> QED BY <3>2, <3>4
  <2> QED BY <2>1, <2>2 DEF BeginTick
<1>3. TypeDigest' BY <1>1, <1>2 DEF TypeDigest
<1> QED BY <1>1, <1>2, <1>3 DEF WrappedIsOver, Linked, OneRow, RowInHand, RowMissing

LEMMA EditPreviousStep == DigestShape /\ EditPrevious => DigestShape'
<1> SUFFICES ASSUME DigestShape, EditPrevious PROVE DigestShape'
  OBVIOUS
<1> USE DEF DigestShape
<1>1. UNCHANGED <<hour, digests, deletions>> /\ digestFaults' \in Nat
      /\ tick.at = "wrap" /\ tick.row \in digests /\ tick.row.bucket < hour
  <2>1. digestFaults' \in Nat
    <3>1. UNCHANGED digestFaults \/ DigestFault BY Zenon DEF EditPrevious
    <3> QED BY <3>1 DEF DigestFault, TypeDigest
  <2>2. UNCHANGED <<hour, digests, deletions>> /\ tick.at = "wrap" BY DEF EditPrevious
  <2> QED BY <2>1, <2>2 DEF RowInHand
<1>2. /\ tick.row.message \in DOMAIN posted
      /\ posted[tick.row.message].bucket = tick.row.bucket
  BY <1>1 DEF Linked
<1>3. /\ tick' \in Ticking /\ tick'.at \in {"finalize", "render"} /\ tick'.row = tick.row
  BY StepTick DEF EditPrevious
<1>4. CASE UNCHANGED posted
  <2>1. TypeDigest' BY <1>1, <1>3, <1>4 DEF TypeDigest
  <2> QED BY <1>1, <1>3, <1>4, <2>1 DEF WrappedIsOver, Linked, OneRow, RowInHand, RowMissing
<1>5. CASE Edited(tick.row.message, tick.text, TRUE)
  <2>1. posted \in Seq(Message) /\ tick.text \in Nat BY DEF TypeDigest, Ticking
  <2>2. /\ posted' \in Seq(Message) /\ DOMAIN posted' = DOMAIN posted
        /\ \A i \in DOMAIN posted : /\ posted'[i].bucket = posted[i].bucket
                                    /\ i # tick.row.message => posted'[i] = posted[i]
    BY <1>2, <1>5, <2>1, EditedPosted
  <2>3. TypeDigest' BY <1>1, <1>3, <2>2 DEF TypeDigest
  <2>4. WrappedIsOver' BY <1>1, <1>2, <2>2 DEF WrappedIsOver
  <2>5. Linked' BY <1>1, <2>2 DEF Linked
  <2> QED BY <1>1, <1>3, <2>3, <2>4, <2>5 DEF OneRow, RowInHand, RowMissing
<1> QED BY <1>4, <1>5 DEF EditPrevious, Gone

LEMMA FinalizeStep == DigestShape /\ FinalizeDigest => DigestShape'
<1> SUFFICES ASSUME DigestShape, FinalizeDigest PROVE DigestShape'
  OBVIOUS
<1> USE DEF DigestShape
<1>1. UNCHANGED <<hour, posted, deletions>> /\ digestFaults' \in Nat
      /\ tick.at = "finalize" /\ tick.row \in digests
  BY DEF FinalizeDigest, DigestFault, TypeDigest, RowInHand
<1>2. tick' \in Ticking /\ tick'.at = "render"
  BY StepTick DEF FinalizeDigest
<1> DEFINE closed == [tick.row EXCEPT !.finalized = TRUE]
<1>3. closed \in Row /\ closed.bucket = tick.row.bucket /\ closed.message = tick.row.message
  BY <1>1 DEF TypeDigest, Row
<1>4. digests' = digests \/ digests' = (digests \ {tick.row}) \cup {closed}
  BY DEF FinalizeDigest
<1> HIDE DEF closed
<1>5. TypeDigest' BY <1>1, <1>2, <1>3, <1>4 DEF TypeDigest
<1>6. Linked' BY <1>1, <1>3, <1>4 DEF Linked
<1>7. OneRow' BY <1>1, <1>3, <1>4 DEF OneRow
<1> QED BY <1>1, <1>2, <1>5, <1>6, <1>7 DEF WrappedIsOver, RowInHand, RowMissing

LEMMA GetDigestStep == DigestShape /\ GetDigest => DigestShape'
<1> SUFFICES ASSUME DigestShape, GetDigest PROVE DigestShape'
  OBVIOUS
<1> USE DEF DigestShape
<1>1. UNCHANGED <<hour, posted, digests, deletions, digestFaults>> /\ hour \in Nat
      /\ tick \in Ticking
  BY DEF GetDigest, TypeDigest
<1> DEFINE rows == {d \in digests : d.bucket = hour}
<1>2. CASE rows = {}
  <2>1. tick' = [tick EXCEPT !.at = "send", !.bucket = hour] BY <1>2 DEF GetDigest
  <2>2. tick' \in Ticking /\ tick'.at = "send" /\ tick'.bucket = hour
    BY <1>1, <2>1 DEF Ticking
  <2>3. TypeDigest' BY <1>1, <2>2 DEF TypeDigest
  <2> QED BY <1>1, <1>2, <2>2, <2>3 DEF WrappedIsOver, Linked, OneRow, RowInHand, RowMissing
<1>3. CASE rows # {}
  <2> DEFINE d == CHOOSE r \in rows : TRUE
  <2>1. d \in rows BY <1>3
  <2>2. tick' = [tick EXCEPT !.at = "edit", !.bucket = hour, !.row = d]
    BY <1>3 DEF GetDigest
  <2>3. d \in digests /\ d.bucket = hour BY <2>1
  <2> HIDE DEF d, rows
  <2>4. d \in Row BY <2>3 DEF TypeDigest
  <2>5. tick' \in Ticking /\ tick'.at = "edit" /\ tick'.bucket = hour /\ tick'.row = d
    BY <1>1, <2>2, <2>4 DEF Ticking
  <2>6. TypeDigest' BY <1>1, <2>5 DEF TypeDigest
  <2>7. ~posted[d.message].wrap
    BY <1>1, <2>3 DEF Linked, WrappedIsOver
  <2>8. RowInHand' BY <1>1, <2>3, <2>5, <2>7 DEF RowInHand
  <2> QED BY <1>1, <2>5, <2>6, <2>8 DEF WrappedIsOver, Linked, OneRow, RowMissing
<1> QED BY <1>2, <1>3

LEMMA EditCurrentStep == DigestShape /\ EditCurrent => DigestShape'
<1> SUFFICES ASSUME DigestShape, EditCurrent PROVE DigestShape'
  OBVIOUS
<1> USE DEF DigestShape
<1>1. UNCHANGED <<hour, deletions>> /\ digestFaults' \in Nat /\ tick.at = "edit"
      /\ tick.row \in digests /\ tick.row.bucket = tick.bucket
  <2>1. digestFaults' \in Nat
    <3>1. UNCHANGED digestFaults \/ DigestFault BY Zenon DEF EditCurrent
    <3> QED BY <3>1 DEF DigestFault, TypeDigest
  <2>2. UNCHANGED <<hour, deletions>> /\ tick.at = "edit" BY DEF EditCurrent
  <2> QED BY <2>1, <2>2 DEF RowInHand
<1>2. CASE Edited(tick.row.message, tick.text, FALSE) /\ Stop /\ UNCHANGED digests
  <2>1. tick' \in Ticking /\ tick'.at = "rest" BY <1>2, StopTick
  <2>2. posted \in Seq(Message) /\ tick.text \in Nat BY DEF TypeDigest, Ticking
  <2>3. tick.row.message \in DOMAIN posted BY <1>1 DEF Linked
  <2>4. /\ posted' \in Seq(Message) /\ DOMAIN posted' = DOMAIN posted
        /\ posted'[tick.row.message].wrap = FALSE
        /\ \A i \in DOMAIN posted : /\ posted'[i].bucket = posted[i].bucket
                                    /\ i # tick.row.message => posted'[i] = posted[i]
    BY <1>2, <2>2, <2>3, EditedPosted
  <2>5. TypeDigest' BY <1>1, <1>2, <2>1, <2>4 DEF TypeDigest
  <2>6. WrappedIsOver' BY <1>1, <2>4 DEF WrappedIsOver
  <2>7. Linked' BY <1>2, <2>4 DEF Linked
  <2> QED BY <1>2, <2>1, <2>5, <2>6, <2>7 DEF OneRow, RowInHand, RowMissing
<1>3. CASE digests' = digests \ {tick.row} /\ UNCHANGED posted /\ Step("send")
  <2>1. tick' \in Ticking /\ tick'.at = "send" /\ tick'.bucket = tick.bucket
    BY <1>3, StepTick
  <2>2. TypeDigest' BY <1>1, <1>3, <2>1 DEF TypeDigest
  <2>3. RowMissing' BY <1>1, <1>3, <2>1 DEF RowMissing, OneRow
  <2> QED BY <1>1, <1>3, <2>1, <2>2, <2>3 DEF WrappedIsOver, Linked, OneRow, RowInHand
<1>4. CASE Stop /\ UNCHANGED <<posted, digests>>
  <2>1. tick' \in Ticking /\ tick'.at = "rest" BY <1>4, StopTick
  <2>2. TypeDigest' BY <1>1, <1>4, <2>1 DEF TypeDigest
  <2> QED BY <1>1, <1>4, <2>1, <2>2 DEF WrappedIsOver, Linked, OneRow, RowInHand, RowMissing
<1> QED BY <1>2, <1>3, <1>4 DEF EditCurrent, Gone

LEMMA SendStep == DigestShape /\ SendDigest => DigestShape'
<1> SUFFICES ASSUME DigestShape, SendDigest PROVE DigestShape'
  OBVIOUS
<1> USE DEF DigestShape
<1>1. UNCHANGED <<hour, digests, deletions>> /\ digestFaults' \in Nat /\ tick.at = "send"
      /\ posted \in Seq(Message) /\ tick \in Ticking
  BY DEF SendDigest, DigestFault, TypeDigest
<1> DEFINE sent == [bucket |-> tick.bucket, text |-> tick.text, wrap |-> FALSE, there |-> TRUE]
<1>2. sent \in Message /\ sent.bucket = tick.bucket /\ sent.wrap = FALSE
  BY <1>1 DEF Message, Ticking
<1>3. CASE posted' = Append(posted, sent) /\ Step("insert")
  <2> HIDE DEF sent
  <2>1. tick' \in Ticking /\ tick'.at = "insert" /\ tick'.bucket = tick.bucket
    BY <1>3, StepTick
  <2>2. /\ posted' \in Seq(Message) /\ Len(posted') = Len(posted) + 1
        /\ DOMAIN posted = 1 .. Len(posted) /\ DOMAIN posted' = 1 .. Len(posted) + 1
        /\ \A i \in DOMAIN posted : posted'[i] = posted[i]
        /\ posted'[Len(posted) + 1] = sent /\ Len(posted) \in Nat
    BY <1>1, <1>2, <1>3
  <2>3. \A i \in DOMAIN posted' : i \in DOMAIN posted \/ i = Len(posted) + 1
    BY <2>2
  <2>4. TypeDigest' BY <1>1, <2>1, <2>2 DEF TypeDigest
  <2>5. WrappedIsOver' BY <1>1, <1>2, <2>2, <2>3 DEF WrappedIsOver
  <2>6. Linked' BY <1>1, <2>2 DEF Linked
  <2>7. RowMissing' BY <1>1, <1>2, <2>1, <2>2 DEF RowMissing
  <2> QED BY <1>1, <2>1, <2>4, <2>5, <2>6, <2>7 DEF OneRow, RowInHand
<1>4. CASE Stop /\ UNCHANGED posted
  <2>1. tick' \in Ticking /\ tick'.at = "rest" BY <1>4, StopTick
  <2>2. TypeDigest' BY <1>1, <1>4, <2>1 DEF TypeDigest
  <2> QED BY <1>1, <1>4, <2>1, <2>2 DEF WrappedIsOver, Linked, OneRow, RowInHand, RowMissing
<1> QED BY <1>3, <1>4 DEF SendDigest

LEMMA InsertStep == DigestShape /\ InsertDigest => DigestShape'
<1> SUFFICES ASSUME DigestShape, InsertDigest PROVE DigestShape'
  OBVIOUS
<1> USE DEF DigestShape
<1>1. UNCHANGED <<hour, posted, deletions>> /\ digestFaults' \in Nat /\ tick.at = "insert"
      /\ tick \in Ticking
  BY DEF InsertDigest, DigestFault, TypeDigest
<1>2. tick' \in Ticking /\ tick'.at = "rest" BY StopTick DEF InsertDigest
<1> DEFINE row == [bucket |-> tick.bucket, message |-> Len(posted), finalized |-> FALSE]
<1>3. row \in Row /\ row.bucket = tick.bucket /\ row.message = Len(posted)
  BY <1>1 DEF Row, Ticking, TypeDigest
<1>4. digests' = digests \/ digests' = digests \cup {row} BY DEF InsertDigest
<1> HIDE DEF row
<1>5. TypeDigest' BY <1>1, <1>2, <1>3, <1>4 DEF TypeDigest
<1>6. Linked' BY <1>1, <1>3, <1>4 DEF Linked, RowMissing
<1>7. OneRow' BY <1>1, <1>3, <1>4 DEF OneRow, RowMissing
<1> QED BY <1>1, <1>2, <1>5, <1>6, <1>7 DEF WrappedIsOver, RowInHand, RowMissing

LEMMA DeleteMessageStep == DigestShape /\ DeleteMessage => DigestShape'
<1> SUFFICES ASSUME DigestShape, DeleteMessage PROVE DigestShape'
  OBVIOUS
<1> USE DEF DigestShape
<1>1. UNCHANGED <<hour, digests, tick, digestFaults>> /\ deletions' \in Nat
  BY DEF DeleteMessage, TypeDigest
<1>2. PICK k \in DOMAIN posted :
        posted[k].there /\ posted' = [posted EXCEPT ![k].there = FALSE]
  BY Zenon DEF DeleteMessage
<1> DEFINE new == [posted[k] EXCEPT !.there = FALSE]
<1>3. new \in Message /\ new.bucket = posted[k].bucket /\ new.wrap = posted[k].wrap
  <2>1. posted[k] \in Message BY DEF TypeDigest
  <2> QED BY <2>1 DEF Message
<1>4. posted' = [posted EXCEPT ![k] = new] BY <1>2
<1> HIDE DEF new
<1>5. /\ posted' \in Seq(Message) /\ DOMAIN posted' = DOMAIN posted
      /\ Len(posted') = Len(posted)
      /\ \A i \in DOMAIN posted : /\ posted'[i].bucket = posted[i].bucket
                                  /\ posted'[i].wrap = posted[i].wrap
  BY <1>3, <1>4 DEF TypeDigest
<1>6. TypeDigest' BY <1>1, <1>5 DEF TypeDigest
<1>7. RowInHand' BY <1>1, <1>5 DEF RowInHand, Linked
<1> QED BY <1>1, <1>5, <1>6, <1>7 DEF WrappedIsOver, Linked, OneRow, RowMissing

LEMMA DigestShapeNext == DigestShape /\ [DigestNext]_digestVars => DigestShape'
<1> SUFFICES ASSUME DigestShape, [DigestNext]_digestVars PROVE DigestShape'
  OBVIOUS
<1>1. CASE HourPasses
  <2>1. /\ hour \in Nat /\ hour' = hour + 1 /\ tick \in Ticking /\ digests \subseteq Row
        /\ UNCHANGED <<posted, digests, tick, deletions, digestFaults>>
    BY <1>1 DEF HourPasses, DigestShape, TypeDigest
  <2>2. TypeDigest' BY <2>1 DEF DigestShape, TypeDigest
  <2>3. WrappedIsOver'
    <3>1. \A i \in DOMAIN posted : posted[i].bucket \in Nat
      <4>1. \A i \in DOMAIN posted : posted[i] \in Message BY DEF DigestShape, TypeDigest
      <4> QED BY <4>1 DEF Message
    <3> QED BY <2>1, <3>1 DEF DigestShape, WrappedIsOver
  <2>4. RowInHand'
    <3>1. tick.row.bucket \in Nat BY <2>1 DEF Ticking, Row
    <3> QED BY <2>1, <3>1 DEF DigestShape, RowInHand
  <2> QED BY <2>1, <2>2, <2>3, <2>4 DEF DigestShape, Linked, OneRow, RowMissing
<1>2. CASE RenderDigestBody
  <2>1. tick' = [NoTick EXCEPT !.at = "current", !.text = hour] /\ hour \in Nat
    BY <1>2 DEF RenderDigestBody, DigestShape, TypeDigest
  <2>2. tick' \in Ticking /\ tick'.at = "current"
    BY <2>1, NoTickIsTicking DEF Ticking
  <2>3. TypeDigest' BY <1>2, <2>2 DEF RenderDigestBody, DigestShape, TypeDigest
  <2> QED BY <1>2, <2>2, <2>3
    DEF RenderDigestBody, DigestShape, WrappedIsOver, Linked, OneRow, RowInHand, RowMissing
<1>3. CASE DigestRestart
  <2>1. tick' \in Ticking /\ tick'.at = "rest" BY <1>3, StopTick DEF DigestRestart
  <2>2. TypeDigest'
    BY <1>3, <2>1 DEF DigestRestart, DigestFault, DigestShape, TypeDigest
  <2> QED BY <1>3, <2>1, <2>2
    DEF DigestRestart, DigestShape, WrappedIsOver, Linked, OneRow, RowInHand, RowMissing
<1>4. CASE UNCHANGED digestVars
  BY <1>4 DEF digestVars, DigestShape, TypeDigest, WrappedIsOver, Linked, OneRow, RowInHand,
              RowMissing
<1> QED
  BY <1>1, <1>2, <1>3, <1>4, BeginStep, EditPreviousStep, FinalizeStep, GetDigestStep,
     EditCurrentStep, SendStep, InsertStep, DeleteMessageStep
  DEF DigestNext, DigestTick

THEOREM DigestInvariant == DigestSpec => []DigestShape
<1>1. DigestInit => DigestShape BY DigestShapeInit
<1>2. DigestShape /\ [DigestNext]_digestVars => DigestShape' BY DigestShapeNext
<1> QED BY <1>1, <1>2, PTL DEF DigestSpec

(***************************************************************************)
(* A message that has the wrap-up keeps it (finalize_digest): only the     *)
(* message of the present hour is edited without one.                      *)
(***************************************************************************)
LEMMA WrapKept ==
    ASSUME DigestShape, DigestNext
    PROVE  \A i \in DOMAIN posted : posted[i].wrap => posted'[i].wrap
<1> SUFFICES ASSUME NEW i \in DOMAIN posted, posted[i].wrap PROVE posted'[i].wrap
  OBVIOUS
<1> USE DEF DigestShape
<1>1. posted \in Seq(Message) /\ tick.text \in Nat BY DEF TypeDigest, Ticking
<1>2. CASE EditPrevious
  <2>1. tick.row.message \in DOMAIN posted
    BY <1>2 DEF EditPrevious, RowInHand, Linked
  <2> QED BY <1>1, <1>2, <2>1, EditedPosted DEF EditPrevious, Gone
<1>3. CASE EditCurrent
  <2>1. tick.row.message \in DOMAIN posted /\ ~posted[tick.row.message].wrap
    BY <1>3 DEF EditCurrent, RowInHand, Linked
  <2>2. i # tick.row.message BY <2>1
  <2> QED BY <1>1, <1>3, <2>1, <2>2, EditedPosted DEF EditCurrent, Gone
<1>4. CASE SendDigest
  <2> DEFINE sent == [bucket |-> tick.bucket, text |-> tick.text, wrap |-> FALSE, there |-> TRUE]
  <2>1. posted' = Append(posted, sent) \/ UNCHANGED posted BY <1>4 DEF SendDigest
  <2> HIDE DEF sent
  <2>2. posted'[i] = posted[i] BY <1>1, <2>1
  <2> QED BY <2>2
<1>5. CASE DeleteMessage
  <2>1. PICK k \in DOMAIN posted :
          posted[k].there /\ posted' = [posted EXCEPT ![k].there = FALSE]
    BY <1>5, Zenon DEF DeleteMessage
  <2> DEFINE new == [posted[k] EXCEPT !.there = FALSE]
  <2>2. new.wrap = posted[k].wrap
    <3>1. posted[k] \in Message BY <1>1
    <3> QED BY <3>1 DEF Message
  <2>3. posted' = [posted EXCEPT ![k] = new] BY <2>1
  <2> HIDE DEF new
  <2> QED BY <1>1, <2>2, <2>3
<1> QED
  BY <1>2, <1>3, <1>4, <1>5
  DEF DigestNext, DigestTick, HourPasses, BeginTick, FinalizeDigest, RenderDigestBody, GetDigest,
      InsertDigest, DigestRestart

THEOREM WrapUpStays == DigestSpec => WrapStays
<1>1. DigestShape /\ [DigestNext]_digestVars
        => [\A i \in DOMAIN posted : posted[i].wrap => posted'[i].wrap]_digestVars
  BY WrapKept
<1> QED BY <1>1, DigestInvariant, PTL DEF DigestSpec, WrapStays
-----------------------------------------------------------------------------
(***************************************************************************)
(* A message has its row, or its row is the next write of the tick; it has *)
(* been deleted; or a fault has lost its row.  Each lost one took a fault, *)
(* each deleted one a deletion.                                            *)
(***************************************************************************)
Covered(i) == \/ \E d \in digests : d.message = i
              \/ tick.at = "insert" /\ i = Len(posted)

Deleted == {i \in DOMAIN posted : ~posted[i].there}
Lost    == {i \in DOMAIN posted : posted[i].there /\ ~Covered(i)}

Accounted == Cardinality(Deleted) <= deletions /\ Cardinality(Lost) <= digestFaults

LEMMA MessagesFinite ==
    ASSUME posted \in Seq(Message)
    PROVE  /\ IsFiniteSet(DOMAIN posted)
           /\ IsFiniteSet(Deleted) /\ Cardinality(Deleted) \in Nat
           /\ IsFiniteSet(Lost) /\ Cardinality(Lost) \in Nat
<1>1. DOMAIN posted = 1 .. Len(posted) /\ Len(posted) \in Nat OBVIOUS
<1>2. IsFiniteSet(DOMAIN posted) BY <1>1, FS_Interval
<1>3. Deleted \subseteq DOMAIN posted /\ Lost \subseteq DOMAIN posted BY DEF Deleted, Lost
<1> QED BY <1>2, <1>3, FS_Subset, FS_CardinalityType

(***************************************************************************)
(* The sets grow by the message a deletion or a fault takes, no more.      *)
(***************************************************************************)
LEMMA SetGrows ==
    ASSUME NEW S, NEW T, NEW x, NEW n \in Nat, IsFiniteSet(S), Cardinality(S) <= n,
           T \subseteq S \cup {x}
    PROVE  Cardinality(T) <= n + 1
<1>1. IsFiniteSet(S \cup {x}) /\ Cardinality(S \cup {x}) \in {Cardinality(S), Cardinality(S) + 1}
  BY FS_AddElement
<1>2. Cardinality(T) <= Cardinality(S \cup {x}) BY <1>1, FS_Subset
<1>3. Cardinality(S) \in Nat /\ Cardinality(S \cup {x}) \in Nat /\ Cardinality(T) \in Nat
  BY <1>1, FS_CardinalityType, FS_Subset
<1> QED BY <1>1, <1>2, <1>3

LEMMA SetStays ==
    ASSUME NEW S, NEW T, NEW n \in Nat, IsFiniteSet(S), Cardinality(S) <= n, T \subseteq S
    PROVE  Cardinality(T) <= n
<1>1. Cardinality(T) <= Cardinality(S) BY FS_Subset
<1>2. Cardinality(S) \in Nat /\ Cardinality(T) \in Nat BY FS_CardinalityType, FS_Subset
<1> QED BY <1>1, <1>2

LEMMA AccountedInit == DigestInit => Accounted
<1> SUFFICES ASSUME DigestInit PROVE Accounted
  OBVIOUS
<1>1. Deleted = {} /\ Lost = {} BY DEF DigestInit, Deleted, Lost
<1> QED BY <1>1, FS_EmptySet DEF Accounted, DigestInit

(***************************************************************************)
(* A step that sends nothing takes a message out of neither set's          *)
(* complement, but one.                                                    *)
(***************************************************************************)
LEMMA AccountedNext ==
    ASSUME DigestShape, Accounted, [DigestNext]_digestVars
    PROVE  Accounted'
<1> USE DEF DigestShape
<1>1. /\ posted \in Seq(Message) /\ deletions \in Nat /\ digestFaults \in Nat
      /\ tick \in Ticking /\ DOMAIN posted = 1 .. Len(posted) /\ Len(posted) \in Nat
  BY DEF TypeDigest
<1>2. /\ IsFiniteSet(Deleted) /\ Cardinality(Deleted) <= deletions
      /\ IsFiniteSet(Lost) /\ Cardinality(Lost) <= digestFaults
  BY <1>1, MessagesFinite DEF Accounted
<1>3. ASSUME Deleted' \subseteq Deleted, Lost' \subseteq Lost, UNCHANGED deletions,
             UNCHANGED digestFaults \/ digestFaults' = digestFaults + 1
      PROVE  Accounted'
  <2>1. Cardinality(Deleted') <= deletions BY <1>1, <1>2, <1>3, SetStays
  <2>2. Cardinality(Lost') <= digestFaults BY <1>1, <1>2, <1>3, SetStays
  <2>3. Cardinality(Lost') \in Nat BY <1>2, <1>3, FS_Subset, FS_CardinalityType
  <2> QED BY <1>1, <1>3, <2>1, <2>2, <2>3 DEF Accounted
<1>4. ASSUME Deleted' \subseteq Deleted, NEW x, Lost' \subseteq Lost \cup {x},
             UNCHANGED deletions, digestFaults' = digestFaults + 1
      PROVE  Accounted'
  <2>1. Cardinality(Deleted') <= deletions BY <1>1, <1>2, <1>4, SetStays
  <2>2. Cardinality(Lost') <= digestFaults + 1 BY <1>1, <1>2, <1>4, SetGrows
  <2> QED BY <1>4, <2>1, <2>2 DEF Accounted
<1>5. ASSUME NEW x, Deleted' \subseteq Deleted \cup {x}, Lost' \subseteq Lost,
             deletions' = deletions + 1, UNCHANGED digestFaults
      PROVE  Accounted'
  <2>1. Cardinality(Deleted') <= deletions + 1 BY <1>1, <1>2, <1>5, SetGrows
  <2>2. Cardinality(Lost') <= digestFaults BY <1>1, <1>2, <1>5, SetStays
  <2> QED BY <1>5, <2>1, <2>2 DEF Accounted
<1>6. CASE HourPasses
  <2>1. UNCHANGED <<posted, digests, tick, deletions, digestFaults>> BY <1>6 DEF HourPasses
  <2> QED BY <1>3, <2>1 DEF Deleted, Lost, Covered
<1>7. CASE UNCHANGED digestVars
  <2>1. UNCHANGED <<posted, digests, tick, deletions, digestFaults>> BY <1>7 DEF digestVars
  <2> QED BY <1>3, <2>1 DEF Deleted, Lost, Covered
<1>8. CASE DeleteMessage
  <2>1. PICK k \in DOMAIN posted :
          posted[k].there /\ posted' = [posted EXCEPT ![k].there = FALSE]
    BY <1>8, Zenon DEF DeleteMessage
  <2>2. UNCHANGED <<digests, tick, digestFaults>> /\ deletions' = deletions + 1
    BY <1>8 DEF DeleteMessage
  <2> DEFINE new == [posted[k] EXCEPT !.there = FALSE]
  <2>3. new \in Message /\ ~new.there
    <3>1. posted[k] \in Message BY <1>1
    <3> QED BY <3>1 DEF Message
  <2>4. posted' = [posted EXCEPT ![k] = new] BY <2>1
  <2> HIDE DEF new
  <2>5. /\ DOMAIN posted' = DOMAIN posted /\ Len(posted') = Len(posted)
        /\ ~posted'[k].there
        /\ \A i \in DOMAIN posted : i # k => posted'[i] = posted[i]
    BY <1>1, <2>3, <2>4
  <2>6. Deleted' \subseteq Deleted \cup {k} BY <2>5 DEF Deleted
  <2>7. Lost' \subseteq Lost BY <2>2, <2>5 DEF Lost, Covered
  <2> QED BY <1>5, <2>2, <2>6, <2>7
<1>9. CASE BeginTick \/ RenderDigestBody \/ GetDigest
  <2>1. UNCHANGED <<posted, digests, deletions, digestFaults>>
        /\ tick.at \in {"rest", "render", "current"}
    BY <1>9 DEF BeginTick, RenderDigestBody, GetDigest
  <2>2. Deleted' \subseteq Deleted /\ Lost' \subseteq Lost
    BY <2>1 DEF Deleted, Lost, Covered
  <2> QED BY <1>3, <2>1, <2>2
<1>10. CASE EditPrevious
  <2>1. UNCHANGED <<digests, deletions>> /\ tick.at = "wrap" /\ tick.row \in digests
    BY <1>10 DEF EditPrevious, RowInHand
  <2>2. UNCHANGED digestFaults \/ digestFaults' = digestFaults + 1
    <3>1. UNCHANGED digestFaults \/ DigestFault BY <1>10, Zenon DEF EditPrevious
    <3> QED BY <3>1 DEF DigestFault
  <2>3. DOMAIN posted' = DOMAIN posted
        /\ \A i \in DOMAIN posted : posted'[i].there = posted[i].there
    <3>1. tick.row.message \in DOMAIN posted /\ tick.text \in Nat
      BY <1>1, <2>1 DEF Linked, Ticking
    <3>2. Edited(tick.row.message, tick.text, TRUE) \/ UNCHANGED posted
      BY <1>10, Zenon DEF EditPrevious, Gone
    <3> QED BY <1>1, <3>1, <3>2, EditedPosted
  <2>4. Deleted' \subseteq Deleted /\ Lost' \subseteq Lost
    BY <2>1, <2>3 DEF Deleted, Lost, Covered
  <2> QED BY <1>3, <2>1, <2>2, <2>4
<1>11. CASE FinalizeDigest
  <2>1. UNCHANGED <<posted, deletions>> /\ tick.at = "finalize" /\ tick.row \in digests
    BY <1>11 DEF FinalizeDigest, RowInHand
  <2>2. UNCHANGED digestFaults \/ digestFaults' = digestFaults + 1
    BY <1>11 DEF FinalizeDigest, DigestFault
  <2> DEFINE closed == [tick.row EXCEPT !.finalized = TRUE]
  <2>3. closed.message = tick.row.message BY <2>1 DEF TypeDigest, Row
  <2>4. digests' = digests \/ digests' = (digests \ {tick.row}) \cup {closed}
    BY <1>11 DEF FinalizeDigest
  <2> HIDE DEF closed
  <2>5. \A i : (\E d \in digests : d.message = i) => (\E d \in digests' : d.message = i)
    BY <2>3, <2>4
  <2>6. Deleted' \subseteq Deleted /\ Lost' \subseteq Lost
    BY <2>1, <2>5 DEF Deleted, Lost, Covered
  <2> QED BY <1>3, <2>1, <2>2, <2>6
<1>12. CASE EditCurrent
  <2>1. UNCHANGED deletions /\ tick.at = "edit" /\ tick.row \in digests
    BY <1>12 DEF EditCurrent, RowInHand
  <2>2. tick.row.message \in DOMAIN posted /\ tick.text \in Nat
    BY <1>1, <2>1 DEF Linked, Ticking
  <2>3. CASE Edited(tick.row.message, tick.text, FALSE) /\ UNCHANGED <<digests, digestFaults>>
    <3>1. DOMAIN posted' = DOMAIN posted
          /\ \A i \in DOMAIN posted : posted'[i].there = posted[i].there
      BY <1>1, <2>2, <2>3, EditedPosted
    <3>2. Deleted' \subseteq Deleted /\ Lost' \subseteq Lost
      BY <2>1, <2>3, <3>1 DEF Deleted, Lost, Covered
    <3> QED BY <1>3, <2>1, <2>3, <3>2
  <2>4. CASE /\ Gone(tick.row.message) /\ digests' = digests \ {tick.row}
             /\ UNCHANGED digestFaults
    <3>1. UNCHANGED posted /\ ~posted[tick.row.message].there BY <2>4 DEF Gone
    <3>2. Deleted' \subseteq Deleted BY <3>1 DEF Deleted
    <3>3. Lost' \subseteq Lost
      BY <2>1, <2>4, <3>1 DEF Lost, Covered
    <3> QED BY <1>3, <2>1, <2>4, <3>2, <3>3
  <2>5. CASE DigestFault /\ UNCHANGED <<posted, digests>>
    <3>1. Deleted' \subseteq Deleted /\ Lost' \subseteq Lost
      BY <2>1, <2>5 DEF Deleted, Lost, Covered
    <3> QED BY <1>3, <2>1, <2>5, <3>1 DEF DigestFault
  <2> QED BY <1>12, <2>3, <2>4, <2>5, Zenon DEF EditCurrent
<1>13. CASE SendDigest
  <2>1. UNCHANGED <<digests, deletions>> /\ tick.at = "send" BY <1>13 DEF SendDigest
  <2> DEFINE sent == [bucket |-> tick.bucket, text |-> tick.text, wrap |-> FALSE, there |-> TRUE]
  <2>2. CASE posted' = Append(posted, sent) /\ Step("insert") /\ UNCHANGED digestFaults
    <3>1. sent.there OBVIOUS
    <3> HIDE DEF sent
    <3>2. /\ Len(posted') = Len(posted) + 1 /\ DOMAIN posted' = 1 .. Len(posted) + 1
          /\ \A i \in DOMAIN posted : posted'[i] = posted[i]
          /\ posted'[Len(posted) + 1] = sent
      BY <1>1, <2>2
    <3>3. \A i \in DOMAIN posted' : i \in DOMAIN posted \/ i = Len(posted')
      BY <1>1, <3>2
    <3>4. tick'.at = "insert" BY <2>2, StepTick
    <3>5. Deleted' \subseteq Deleted BY <3>1, <3>2, <3>3 DEF Deleted
    <3>6. Lost' \subseteq Lost BY <2>1, <3>2, <3>3, <3>4 DEF Lost, Covered
    <3> QED BY <1>3, <2>1, <2>2, <3>5, <3>6
  <2>3. CASE DigestFault /\ UNCHANGED posted
    <3>1. Deleted' \subseteq Deleted /\ Lost' \subseteq Lost
      BY <2>1, <2>3 DEF Deleted, Lost, Covered
    <3> QED BY <1>3, <2>1, <2>3, <3>1 DEF DigestFault
  <2> QED BY <1>13, <2>2, <2>3, Zenon DEF SendDigest
<1>14. CASE InsertDigest
  <2>1. UNCHANGED <<posted, deletions>> BY <1>14 DEF InsertDigest
  <2>2. Deleted' \subseteq Deleted BY <2>1 DEF Deleted
  <2> DEFINE row == [bucket |-> tick.bucket, message |-> Len(posted), finalized |-> FALSE]
  <2>3. CASE digests' = digests \cup {row} /\ UNCHANGED digestFaults
    <3>1. row.message = Len(posted) OBVIOUS
    <3> HIDE DEF row
    <3>2. Lost' \subseteq Lost BY <2>1, <2>3, <3>1 DEF Lost, Covered
    <3> QED BY <1>3, <2>1, <2>2, <2>3, <3>2
  <2>4. CASE DigestFault /\ UNCHANGED digests
    <3>1. Lost' \subseteq Lost \cup {Len(posted)} BY <2>1, <2>4 DEF Lost, Covered
    <3> QED BY <1>4, <2>1, <2>2, <2>4, <3>1 DEF DigestFault
  <2> QED BY <1>14, <2>3, <2>4, Zenon DEF InsertDigest
<1>15. CASE DigestRestart
  <2>1. UNCHANGED <<posted, digests, deletions>> /\ digestFaults' = digestFaults + 1
    BY <1>15 DEF DigestRestart, DigestFault
  <2>2. Deleted' \subseteq Deleted BY <2>1 DEF Deleted
  <2>3. Lost' \subseteq Lost \cup {Len(posted)} BY <2>1 DEF Lost, Covered
  <2> QED BY <1>4, <2>1, <2>2, <2>3
<1> QED
  BY <1>6, <1>7, <1>8, <1>9, <1>10, <1>11, <1>12, <1>13, <1>14, <1>15
  DEF DigestNext, DigestTick

LEMMA UnionBound ==
    ASSUME NEW S, NEW T, IsFiniteSet(S), IsFiniteSet(T)
    PROVE  /\ IsFiniteSet(S \cup T)
           /\ Cardinality(S \cup T) <= Cardinality(S) + Cardinality(T)
<1>1. IsFiniteSet(S \cap T) BY FS_Intersection
<1>2. Cardinality(S \cap T) \in Nat /\ Cardinality(S) \in Nat /\ Cardinality(T) \in Nat
  BY <1>1, FS_CardinalityType
<1>3. IsFiniteSet(S \cup T)
      /\ Cardinality(S \cup T) = Cardinality(S) + Cardinality(T) - Cardinality(S \cap T)
  BY FS_Union
<1> QED BY <1>2, <1>3

(***************************************************************************)
(* Among the messages of an hour one at most is neither deleted nor lost:  *)
(* its row is the hour's only one (get_digest, insert_digest).             *)
(***************************************************************************)
LEMMA AccountedSuffices == DigestShape /\ Accounted => OneDigestPerHour
<1> SUFFICES ASSUME DigestShape, Accounted, NEW h \in Hours
             PROVE  Cardinality({i \in DOMAIN posted : posted[i].bucket = h})
                        <= 1 + deletions + digestFaults
  BY DEF OneDigestPerHour
<1> DEFINE Of == {i \in DOMAIN posted : posted[i].bucket = h}
           Kept1 == {i \in Of : Covered(i)}
<1>1. /\ posted \in Seq(Message) /\ deletions \in Nat /\ digestFaults \in Nat
  BY DEF DigestShape, TypeDigest
<1>2. \A i, j \in Kept1 : i = j
  <2> SUFFICES ASSUME NEW i \in Kept1, NEW j \in Kept1 PROVE i = j
    OBVIOUS
  <2>1. posted[i].bucket = h /\ posted[j].bucket = h /\ Covered(i) /\ Covered(j)
    OBVIOUS
  <2> QED BY <2>1 DEF Covered, DigestShape, Linked, OneRow, RowMissing
<1>3. IsFiniteSet(Kept1) /\ Cardinality(Kept1) <= 1 /\ Cardinality(Kept1) \in Nat
  <2>1. Kept1 = {} \/ \E i \in Kept1 : Kept1 = {i} BY <1>2
  <2> HIDE DEF Kept1
  <2>2. CASE Kept1 = {} BY <2>2, FS_EmptySet
  <2>3. ASSUME NEW i, Kept1 = {i} PROVE IsFiniteSet(Kept1) /\ Cardinality(Kept1) = 1
    BY <2>3, FS_Singleton
  <2> QED BY <2>1, <2>2, <2>3
<1>4. Of \subseteq Deleted \cup Lost \cup Kept1 BY DEF Deleted, Lost
<1> HIDE DEF Of, Kept1
<1>5. /\ IsFiniteSet(Deleted) /\ Cardinality(Deleted) \in Nat
      /\ IsFiniteSet(Lost) /\ Cardinality(Lost) \in Nat
  BY <1>1, MessagesFinite
<1>6. /\ IsFiniteSet(Deleted \cup Lost)
      /\ Cardinality(Deleted \cup Lost) <= Cardinality(Deleted) + Cardinality(Lost)
  BY <1>5, UnionBound
<1>7. /\ IsFiniteSet(Deleted \cup Lost \cup Kept1)
      /\ Cardinality(Deleted \cup Lost \cup Kept1)
           <= Cardinality(Deleted \cup Lost) + Cardinality(Kept1)
  BY <1>3, <1>6, UnionBound
<1>8. /\ Cardinality(Of) <= Cardinality(Deleted \cup Lost \cup Kept1)
      /\ Cardinality(Of) \in Nat
      /\ Cardinality(Deleted \cup Lost) \in Nat
      /\ Cardinality(Deleted \cup Lost \cup Kept1) \in Nat
  BY <1>4, <1>6, <1>7, FS_Subset, FS_CardinalityType
<1>9. Cardinality(Of) <= 1 + deletions + digestFaults
  BY <1>1, <1>3, <1>5, <1>6, <1>7, <1>8 DEF Accounted
<1> QED BY <1>9 DEF Of

(***************************************************************************)
(* Whatever ticks, restarts and failing requests there are, an hour has a  *)
(* second message only for one that was deleted or lost its row            *)
(* (tick_digest_now).                                                      *)
(***************************************************************************)
THEOREM OneMessagePerHour == DigestSpec => []OneDigestPerHour
<1>1. DigestInit => Accounted BY AccountedInit
<1>2. DigestShape /\ Accounted /\ [DigestNext]_digestVars => Accounted' BY AccountedNext
<1>3. DigestSpec => []Accounted BY <1>1, <1>2, DigestInvariant, PTL DEF DigestSpec
<1> QED BY <1>3, DigestInvariant, AccountedSuffices, PTL

-----------------------------------------------------------------------------
(* The RPC router.                                                         *)

USE NAssumption, LimitsAssumption, ToolsAssumption

LEMMA EndpointMod == \A i \in Nat : i % N \in Endpoints
  BY DEF Endpoints

LEMMA EndpointNext ==
    0 \in Endpoints /\ \A i \in Endpoints : i + 1 < N => i + 1 \in Endpoints
  BY DEF Endpoints

LEMMA OnePast ==
    ASSUME NEW i \in Endpoints
    PROVE  /\ i % N = i
           /\ (i + 1) % N = IF i = N - 1 THEN 0 ELSE i + 1
  BY DEF Endpoints

LEMMA IdxType ==
    ASSUME RouterTypeOK, NEW t \in Tasks
    PROVE  Idx(t) \in Endpoints
<1>1. start[t] \in Nat /\ offset[t] \in Nat BY DEF RouterTypeOK, Endpoints
<1> QED BY <1>1, EndpointMod DEF Idx

\* The attempts of a request are counted up to N, and only then it gives up.
TriesCounted ==
    \A t \in Tasks : /\ pc[t] = "idle" => tries[t] = 0
                     /\ pc[t] = "pick" => tries[t] < N
                     /\ pc[t] = "gave up" => tries[t] = N

RouterShape == RouterTypeOK /\ TriesCounted

LEMMA RouterShapeInit == RouterInit => RouterShape
<1> SUFFICES ASSUME RouterInit PROVE RouterShape
  OBVIOUS
<1> USE DEF RouterInit
<1>1. 0 \in Endpoints /\ 0 \in 0..N /\ 0 \in 0..(Tolerated + 1) BY DEF Endpoints
<1>2. "idle" \in Places BY DEF Places
<1>3. pc \in [Tasks -> Places] BY <1>2
<1>4. RouterTypeOK BY <1>1, <1>3 DEF RouterTypeOK
<1>5. TriesCounted BY DEF TriesCounted
<1> QED BY <1>4, <1>5 DEF RouterShape

\* Where a task goes, and what its search keeps.
LEMMA GoesType ==
    ASSUME RouterShape, NEW t \in Tasks, NEW place \in Places, Goto(t, place)
    PROVE  /\ pc' \in [Tasks -> Places]
           /\ pc'[t] = place /\ \A u \in Tasks \ {t} : pc'[u] = pc[u]
  BY DEF RouterShape, RouterTypeOK, Goto

LEMMA ReturnType ==
    ASSUME RouterShape, NEW t \in Tasks, Return(t)
    PROVE  /\ pc'[t] = "idle" /\ tries'[t] = 0
           /\ start' \in [Tasks -> Endpoints] /\ offset' \in [Tasks -> Endpoints]
           /\ tries' \in [Tasks -> 0..N] /\ pc' \in [Tasks -> Places]
           /\ \A u \in Tasks \ {t} :
                 /\ pc'[u] = pc[u] /\ tries'[u] = tries[u]
                 /\ start'[u] = start[u] /\ offset'[u] = offset[u]
<1>1. 0 \in Endpoints /\ 0 \in 0..N /\ "idle" \in Places BY EndpointNext DEF Places
<1>2. /\ Goto(t, "idle") /\ start' = [start EXCEPT ![t] = 0]
      /\ offset' = [offset EXCEPT ![t] = 0] /\ tries' = [tries EXCEPT ![t] = 0]
  BY DEF Return
<1>3. /\ start \in [Tasks -> Endpoints] /\ offset \in [Tasks -> Endpoints]
      /\ tries \in [Tasks -> 0..N]
  BY DEF RouterShape, RouterTypeOK
<1>4. /\ start' \in [Tasks -> Endpoints] /\ offset' \in [Tasks -> Endpoints]
      /\ tries' \in [Tasks -> 0..N] /\ tries'[t] = 0
      /\ \A u \in Tasks \ {t} :
            tries'[u] = tries[u] /\ start'[u] = start[u] /\ offset'[u] = offset[u]
  BY <1>1, <1>2, <1>3
<1> QED BY <1>1, <1>2, <1>4, GoesType

LEMMA SearchType ==
    ASSUME RouterShape, NEW t \in Tasks, Usable(t) \/ Unusable(t)
    PROVE  /\ pc'[t] \in {"idle", "look", "call", "reset errors"}
           /\ pc'[t] = "idle" => tries'[t] = 0
           /\ start' \in [Tasks -> Endpoints] /\ offset' \in [Tasks -> Endpoints]
           /\ tries' \in [Tasks -> 0..N] /\ pc' \in [Tasks -> Places]
           /\ pc'[t] # "idle" => UNCHANGED <<start, tries>>
           /\ pc'[t] = "look" => tries'[t] = 0 \/ offset'[t] # 0
           /\ \A u \in Tasks \ {t} :
                 /\ pc'[u] = pc[u] /\ tries'[u] = tries[u]
                 /\ start'[u] = start[u] /\ offset'[u] = offset[u]
<1>1. offset[t] \in Endpoints /\ 0 \in Endpoints /\ tries[t] \in 0..N
  BY EndpointNext DEF RouterShape, RouterTypeOK
<1>2. offset[t] + 1 < N => offset[t] + 1 \in Endpoints BY <1>1, EndpointNext
<1>3. CASE Return(t)
  <2> HIDE DEF Places
  <2>1. pc'[t] = "idle" /\ pc'[t] # "look" BY <1>3, ReturnType
  <2> QED BY <1>3, <2>1, ReturnType
<1>4. CASE Further(t)
  <2>1. "look" \in Places /\ Goto(t, "look") BY <1>4 DEF Further, Places
  <2>2. /\ offset[t] + 1 < N /\ offset' = [offset EXCEPT ![t] = offset[t] + 1]
        /\ UNCHANGED <<start, tries>>
    BY <1>4 DEF Further
  <2>3. /\ start \in [Tasks -> Endpoints] /\ offset \in [Tasks -> Endpoints]
        /\ tries \in [Tasks -> 0..N]
    BY DEF RouterShape, RouterTypeOK
  <2>4. /\ offset' \in [Tasks -> Endpoints] /\ offset'[t] = offset[t] + 1
        /\ \A u \in Tasks \ {t} : offset'[u] = offset[u]
    BY <1>2, <2>2, <2>3
  <2>5. offset'[t] # 0 BY <1>1, <2>4 DEF Endpoints
  <2> QED BY <2>1, <2>2, <2>3, <2>4, <2>5, GoesType
<1>5. CASE Goto(t, "call") /\ UNCHANGED search
  <2>1. "call" \in Places BY DEF Places
  <2> QED BY <1>5, <2>1, GoesType DEF search, RouterShape, RouterTypeOK
<1>6. CASE /\ Goto(t, "reset errors")
           /\ offset' = [offset EXCEPT ![t] = 0] /\ UNCHANGED <<start, tries>>
  <2>1. "reset errors" \in Places BY DEF Places, Reset
  <2>2. /\ start \in [Tasks -> Endpoints] /\ offset \in [Tasks -> Endpoints]
        /\ tries \in [Tasks -> 0..N]
    BY DEF RouterShape, RouterTypeOK
  <2>3. /\ offset' \in [Tasks -> Endpoints]
        /\ \A u \in Tasks \ {t} : offset'[u] = offset[u]
    BY <1>1, <1>6, <2>2
  <2> QED BY <1>6, <2>1, <2>2, <2>3, GoesType
<1>7. \/ Return(t) \/ Further(t) \/ (Goto(t, "call") /\ UNCHANGED search)
      \/ /\ Goto(t, "reset errors")
         /\ offset' = [offset EXCEPT ![t] = 0] /\ UNCHANGED <<start, tries>>
  BY DEF Usable, Unusable
<1> QED BY <1>3, <1>4, <1>5, <1>6, <1>7

LEMMA RecordedType ==
    ASSUME RouterShape, NEW t \in Tasks, Recorded(t)
    PROVE  /\ pc'[t] \in {"limit", "pick", "gave up"} /\ UNCHANGED search
           /\ pc'[t] = "pick" => tries[t] < N
           /\ pc'[t] = "gave up" => tries[t] = N
           /\ pc' \in [Tasks -> Places]
           /\ \A u \in Tasks \ {t} : pc'[u] = pc[u]
<1>1. {"limit", "pick", "gave up"} \subseteq Places BY DEF Places, Recording
<1> QED BY <1>1, GoesType DEF Recorded

\* What the stores leave of the three atomics and of the history.
LEMMA StoresType ==
    ASSUME RouterShape, NEW e \in Endpoints, NEW n \in 0..(Tolerated + 1),
           NEW time \in {Never} \cup 0..Cooldown, NEW up \in BOOLEAN
    PROVE  /\ [errors EXCEPT ![e] = n] \in [Endpoints -> 0..(Tolerated + 1)]
           /\ [healthy EXCEPT ![e] = up] \in [Endpoints -> BOOLEAN]
           /\ [sidelined EXCEPT ![e] = time] \in [Endpoints -> {Never} \cup 0..Cooldown]
           /\ Back(e) => lost' \subseteq Endpoints
           /\ Wiped(e) => lost' \subseteq Endpoints
  BY DEF RouterShape, RouterTypeOK, Back, Wiped

\* A step of t moves t alone, its search stays within bounds, and the attempts
\* are right at the place it goes to: then the shape is kept.
LEMMA ShapeStep ==
    ASSUME RouterShape, NEW t \in Tasks,
           pc' \in [Tasks -> Places],
           start' \in [Tasks -> Endpoints], offset' \in [Tasks -> Endpoints],
           tries' \in [Tasks -> 0..N],
           \A u \in Tasks \ {t} : pc'[u] = pc[u] /\ tries'[u] = tries[u],
           pc'[t] = "idle" => tries'[t] = 0,
           pc'[t] = "pick" => tries'[t] < N,
           pc'[t] = "gave up" => tries'[t] = N,
           current' \in Endpoints,
           errors' \in [Endpoints -> 0..(Tolerated + 1)],
           healthy' \in [Endpoints -> BOOLEAN],
           sidelined' \in [Endpoints -> {Never} \cup 0..Cooldown],
           limited' \in [Tasks -> BOOLEAN],
           untried' \in [Tasks -> SUBSET Endpoints], lost' \subseteq Endpoints
    PROVE  RouterShape'
  BY DEF RouterShape, RouterTypeOK, TriesCounted

LEMMA RouterShapeStep ==
    ASSUME RouterShape, NEW t \in Tasks, TaskStep(t)
    PROVE  RouterShape'
<1>0. /\ Idx(t) \in Endpoints /\ offset[t] \in Endpoints /\ 0 \in Endpoints
      /\ tries[t] \in 0..N /\ untried[t] \subseteq Endpoints
      /\ Never \in {Never} \cup 0..Cooldown /\ 0 \in {Never} \cup 0..Cooldown
      /\ Tolerated + 1 \in 0..(Tolerated + 1) /\ 0 \in 0..(Tolerated + 1)
  BY IdxType, EndpointNext DEF RouterShape, RouterTypeOK
<1>a. RouterTypeOK BY DEF RouterShape
<1>1. CASE Observe(t)
  <2>1. Goto(t, "look") /\ "look" \in Places BY <1>1 DEF Observe, Places
  <2>2. UNCHANGED <<current, errors, healthy, sidelined, start, offset, tries, limited, untried, lost>>
    BY <1>1 DEF Observe, endpoints, search, history
  <2>9. /\ pc' \in [Tasks -> Places] /\ pc'[t] = "look"
        /\ \A u \in Tasks \ {t} : pc'[u] = pc[u]
    BY <2>1, <2>2, GoesType
  <2> QED BY <1>a, <2>1, <2>2, <2>9, ShapeStep DEF RouterTypeOK
<1>2. CASE Pick(t)
  <2>1. (current + 1) % N \in Endpoints
    <3>1. current + 1 \in Nat BY <1>a DEF RouterTypeOK, Endpoints
    <3> QED BY <3>1, EndpointMod
  <2>2. tries[t] + 1 \in 0..N
    <3>1. pc[t] = "idle" \/ pc[t] = "pick" BY <1>2 DEF Pick
    <3>2. tries[t] = 0 \/ tries[t] < N BY <3>1 DEF RouterShape, TriesCounted
    <3> QED BY <1>0, <3>2
  <2>3. Goto(t, "look") /\ "look" \in Places BY <1>2 DEF Pick, Places
  <2>4. /\ current' = (current + 1) % N /\ tries' = [tries EXCEPT ![t] = @ + 1]
        /\ start' = [start EXCEPT ![t] = current] /\ offset' = [offset EXCEPT ![t] = 0]
        /\ Drawn(t) /\ UNCHANGED <<errors, healthy, sidelined, limited, lost>>
    BY <1>2 DEF Pick, endpoints
  <2>5. untried' \in [Tasks -> SUBSET Endpoints] BY <1>a, <2>4 DEF Drawn, RouterTypeOK
  <2>6. /\ start' \in [Tasks -> Endpoints] /\ offset' \in [Tasks -> Endpoints]
        /\ tries' \in [Tasks -> 0..N]
        /\ \A u \in Tasks \ {t} : tries'[u] = tries[u]
    BY <1>0, <1>a, <2>2, <2>4 DEF RouterTypeOK
  <2>9. /\ pc' \in [Tasks -> Places] /\ pc'[t] = "look"
        /\ \A u \in Tasks \ {t} : pc'[u] = pc[u]
    BY <2>1, <2>3, <2>4, <2>5, <2>6, GoesType
  <2> QED BY <1>a, <2>1, <2>3, <2>4, <2>5, <2>6, <2>9, ShapeStep DEF RouterTypeOK
<1>3. CASE Look(t)
  <2>1. untried' \in [Tasks -> SUBSET Endpoints]
        /\ UNCHANGED <<current, errors, healthy, sidelined, limited, lost>>
    BY <1>3, <1>a DEF Look, RouterTypeOK, endpoints
  <2>2. CASE Usable(t) BY <1>a, <2>1, <2>2, SearchType, ShapeStep DEF RouterTypeOK
  <2>3. CASE Goto(t, "age") /\ UNCHANGED search
    <3>1. "age" \in Places /\ UNCHANGED <<start, offset, tries>> BY <2>3 DEF Places, search
    <3>9. /\ pc' \in [Tasks -> Places] /\ pc'[t] = "age"
          /\ \A u \in Tasks \ {t} : pc'[u] = pc[u]
      BY <2>1, <2>3, <3>1, GoesType
    <3> QED BY <1>a, <2>1, <2>3, <3>1, <3>9, ShapeStep DEF RouterTypeOK
  <2> QED BY <1>3, <2>2, <2>3 DEF Look
<1>4. CASE Age(t)
  <2>1. UNCHANGED <<current, errors, healthy, sidelined, limited, untried, lost>>
    BY <1>4 DEF Age, endpoints, history
  <2>2. CASE Unusable(t) BY <1>a, <2>1, <2>2, SearchType, ShapeStep DEF RouterTypeOK
  <2>3. CASE Goto(t, "forgive") /\ UNCHANGED search
    <3>1. "forgive" \in Places /\ UNCHANGED <<start, offset, tries>>
      BY <2>3 DEF Places, Rehab, search
    <3>9. /\ pc' \in [Tasks -> Places] /\ pc'[t] = "forgive"
          /\ \A u \in Tasks \ {t} : pc'[u] = pc[u]
      BY <2>1, <2>3, <3>1, GoesType
    <3> QED BY <1>a, <2>1, <2>3, <3>1, <3>9, ShapeStep DEF RouterTypeOK
  <2> QED BY <1>4, <2>2, <2>3 DEF Age
<1>5. CASE Probation(t)
  <2>1. UNCHANGED <<current, limited, untried>> BY <1>5 DEF Probation
  <2>2. CASE pc[t] = "forgive"
    <3>1. /\ Goto(t, "forget") /\ "forget" \in Places
          /\ errors' = [errors EXCEPT ![Idx(t)] = 0]
          /\ UNCHANGED <<healthy, sidelined, start, offset, tries, lost>>
      BY <1>5, <2>2 DEF Probation, Places, Rehab, search
    <3>2. errors' \in [Endpoints -> 0..(Tolerated + 1)] BY <1>0, <3>1, StoresType
    <3>9. /\ pc' \in [Tasks -> Places] /\ pc'[t] = "forget"
          /\ \A u \in Tasks \ {t} : pc'[u] = pc[u]
      BY <2>1, <3>1, <3>2, GoesType
    <3> QED BY <1>a, <2>1, <3>1, <3>2, <3>9, ShapeStep DEF RouterTypeOK
  <2>3. CASE pc[t] = "forget"
    <3>1. /\ Goto(t, "revive") /\ "revive" \in Places
          /\ sidelined' = [sidelined EXCEPT ![Idx(t)] = Never]
          /\ UNCHANGED <<healthy, errors, start, offset, tries, lost>>
      BY <1>5, <2>3 DEF Probation, Places, Rehab, search
    <3>2. sidelined' \in [Endpoints -> {Never} \cup 0..Cooldown] BY <1>0, <3>1, StoresType
    <3>9. /\ pc' \in [Tasks -> Places] /\ pc'[t] = "revive"
          /\ \A u \in Tasks \ {t} : pc'[u] = pc[u]
      BY <2>1, <3>1, <3>2, GoesType
    <3> QED BY <1>a, <2>1, <3>1, <3>2, <3>9, ShapeStep DEF RouterTypeOK
  <2>4. CASE pc[t] = "revive"
    <3>1. /\ Usable(t) /\ Back(Idx(t)) /\ healthy' = [healthy EXCEPT ![Idx(t)] = TRUE]
          /\ UNCHANGED <<errors, sidelined>>
      BY <1>5, <2>4 DEF Probation
    <3>2. healthy' \in [Endpoints -> BOOLEAN] /\ lost' \subseteq Endpoints
      BY <1>0, <3>1, StoresType
    <3> QED BY <1>a, <2>1, <3>1, <3>2, SearchType, ShapeStep DEF RouterTypeOK
  <2> QED BY <1>5, <2>2, <2>3, <2>4 DEF Probation
<1>6. CASE ResetAll(t)
  <2>1. UNCHANGED <<current, start, tries, limited, untried>> BY <1>6 DEF ResetAll
  <2>2. CASE pc[t] = "reset errors"
    <3>1. /\ Goto(t, "reset health") /\ "reset health" \in Places
          /\ errors' = [errors EXCEPT ![offset[t]] = 0]
          /\ UNCHANGED <<healthy, sidelined, offset, lost>>
      BY <1>6, <2>2 DEF ResetAll, Places, Reset
    <3>2. errors' \in [Endpoints -> 0..(Tolerated + 1)] BY <1>0, <3>1, StoresType
    <3>9. /\ pc' \in [Tasks -> Places] /\ pc'[t] = "reset health"
          /\ \A u \in Tasks \ {t} : pc'[u] = pc[u]
      BY <2>1, <3>1, <3>2, GoesType
    <3> QED BY <1>a, <2>1, <3>1, <3>2, <3>9, ShapeStep DEF RouterTypeOK
  <2>3. CASE pc[t] = "reset health"
    <3>1. /\ Goto(t, "reset stamp") /\ "reset stamp" \in Places
          /\ healthy' = [healthy EXCEPT ![offset[t]] = TRUE] /\ Back(offset[t])
          /\ UNCHANGED <<errors, sidelined, offset>>
      BY <1>6, <2>3 DEF ResetAll, Places, Reset
    <3>2. healthy' \in [Endpoints -> BOOLEAN] /\ lost' \subseteq Endpoints
      BY <1>0, <3>1, StoresType
    <3>9. /\ pc' \in [Tasks -> Places] /\ pc'[t] = "reset stamp"
          /\ \A u \in Tasks \ {t} : pc'[u] = pc[u]
      BY <2>1, <3>1, <3>2, GoesType
    <3> QED BY <1>a, <2>1, <3>1, <3>2, <3>9, ShapeStep DEF RouterTypeOK
  <2>4. CASE pc[t] = "reset stamp"
    <3>1. Wiped(offset[t]) /\ UNCHANGED errors BY <1>6, <2>4 DEF ResetAll
    <3>2. /\ sidelined' \in [Endpoints -> {Never} \cup 0..Cooldown]
          /\ lost' \subseteq Endpoints /\ UNCHANGED healthy
      <4>1. sidelined' = [sidelined EXCEPT ![offset[t]] = Never] /\ UNCHANGED healthy
        BY <3>1 DEF Wiped
      <4> QED BY <1>0, <3>1, <4>1, StoresType
    <3>3. PICK place \in {"reset errors", "call"} : Goto(t, place)
      BY <1>6, <2>4 DEF ResetAll
    <3>4. place \in Places BY DEF Places, Reset
    <3>5. offset' \in [Tasks -> Endpoints]
      <4>1. \/ offset[t] + 1 < N /\ offset' = [offset EXCEPT ![t] = offset[t] + 1]
            \/ offset' = [offset EXCEPT ![t] = 0]
        BY <1>6, <2>4 DEF ResetAll
      <4> QED BY <1>0, <1>a, <4>1, EndpointNext DEF RouterTypeOK
    <3>9. /\ pc' \in [Tasks -> Places] /\ pc'[t] = place
          /\ \A u \in Tasks \ {t} : pc'[u] = pc[u]
      BY <2>1, <3>1, <3>2, <3>3, <3>4, <3>5, GoesType
    <3> QED BY <1>a, <2>1, <3>1, <3>2, <3>3, <3>4, <3>5, <3>9, ShapeStep DEF RouterTypeOK
  <2> QED BY <1>6, <2>2, <2>3, <2>4 DEF ResetAll
<1>7. CASE RecordSuccess(t)
  <2>1. UNCHANGED <<current, errors, limited>> BY <1>7 DEF RecordSuccess
  <2>2. CASE pc[t] = "call"
    <3>1. /\ Goto(t, "unstamp") /\ "unstamp" \in Places
          /\ healthy' = [healthy EXCEPT ![Idx(t)] = TRUE] /\ Back(Idx(t))
          /\ UNCHANGED <<sidelined, start, offset, tries, untried>>
      BY <1>7, <2>2 DEF RecordSuccess, Places, Recording, search
    <3>2. healthy' \in [Endpoints -> BOOLEAN] /\ lost' \subseteq Endpoints
      BY <1>0, <3>1, StoresType
    <3>9. /\ pc' \in [Tasks -> Places] /\ pc'[t] = "unstamp"
          /\ \A u \in Tasks \ {t} : pc'[u] = pc[u]
      BY <2>1, <3>1, <3>2, GoesType
    <3> QED BY <1>a, <2>1, <3>1, <3>2, <3>9, ShapeStep DEF RouterTypeOK
  <2>3. CASE pc[t] = "unstamp"
    <3>1. Return(t) /\ Wiped(Idx(t)) /\ untried' = [untried EXCEPT ![t] = Endpoints]
      BY <1>7, <2>3 DEF RecordSuccess, Ended
    <3>2. /\ sidelined' \in [Endpoints -> {Never} \cup 0..Cooldown]
          /\ lost' \subseteq Endpoints /\ UNCHANGED healthy
      <4>1. sidelined' = [sidelined EXCEPT ![Idx(t)] = Never] /\ UNCHANGED healthy
        BY <3>1 DEF Wiped
      <4> QED BY <1>0, <3>1, <4>1, StoresType
    <3>3. untried' \in [Tasks -> SUBSET Endpoints] BY <1>a, <3>1 DEF RouterTypeOK
    <3> QED BY <1>a, <2>1, <3>1, <3>2, <3>3, ReturnType, ShapeStep DEF RouterTypeOK
  <2> QED BY <1>7, <2>2, <2>3 DEF RecordSuccess
<1>8. CASE RecordError(t)
  <2>1. /\ Goto(t, "count") /\ "count" \in Places
        /\ errors' = [errors EXCEPT ![Idx(t)] = IF @ <= Tolerated THEN @ + 1 ELSE @]
        /\ \E l \in BOOLEAN : limited' = [limited EXCEPT ![t] = l]
        /\ UNCHANGED <<current, healthy, sidelined, start, offset, tries, untried, lost>>
    BY <1>8 DEF RecordError, Places, Recording, search, history
  <2>2. errors[Idx(t)] \in 0..(Tolerated + 1) BY <1>0, <1>a DEF RouterTypeOK
  <2>3. (IF errors[Idx(t)] <= Tolerated THEN errors[Idx(t)] + 1 ELSE errors[Idx(t)])
           \in 0..(Tolerated + 1)
    BY <2>2
  <2>4. errors' \in [Endpoints -> 0..(Tolerated + 1)] BY <1>0, <2>1, <2>3, StoresType
  <2>5. limited' \in [Tasks -> BOOLEAN] BY <1>a, <2>1 DEF RouterTypeOK
  <2>9. /\ pc' \in [Tasks -> Places] /\ pc'[t] = "count"
        /\ \A u \in Tasks \ {t} : pc'[u] = pc[u]
    BY <2>1, <2>4, <2>5, GoesType
  <2> QED BY <1>a, <2>1, <2>4, <2>5, <2>9, ShapeStep DEF RouterTypeOK
<1>9. CASE Count(t)
  <2>1. UNCHANGED <<current, errors, healthy, sidelined, limited, untried, lost>>
    BY <1>9 DEF Count, endpoints, history
  <2>2. CASE Recorded(t)
    BY <1>a, <2>1, <2>2, RecordedType, ShapeStep DEF RouterTypeOK, search
  <2>3. CASE Goto(t, "sideline") /\ UNCHANGED search
    <3>1. "sideline" \in Places /\ UNCHANGED <<start, offset, tries>>
      BY <2>3 DEF Places, Recording, search
    <3>9. /\ pc' \in [Tasks -> Places] /\ pc'[t] = "sideline"
          /\ \A u \in Tasks \ {t} : pc'[u] = pc[u]
      BY <2>1, <2>3, <3>1, GoesType
    <3> QED BY <1>a, <2>1, <2>3, <3>1, <3>9, ShapeStep DEF RouterTypeOK
  <2> QED BY <1>9, <2>2, <2>3 DEF Count
<1>10. CASE Sideline(t)
  <2>1. /\ UNCHANGED <<current, errors, sidelined, limited, untried, lost>>
        /\ healthy' \in [Endpoints -> BOOLEAN]
    <3>1. healthy' = [healthy EXCEPT ![Idx(t)] = FALSE] BY <1>10 DEF Sideline
    <3> QED BY <1>0, <1>10, <3>1, StoresType DEF Sideline, history
  <2>2. CASE Recorded(t)
    BY <1>a, <2>1, <2>2, RecordedType, ShapeStep DEF RouterTypeOK, search
  <2>3. CASE Goto(t, "stamp") /\ UNCHANGED search
    <3>1. "stamp" \in Places /\ UNCHANGED <<start, offset, tries>>
      BY <2>3 DEF Places, Recording, search
    <3>9. /\ pc' \in [Tasks -> Places] /\ pc'[t] = "stamp"
          /\ \A u \in Tasks \ {t} : pc'[u] = pc[u]
      BY <2>1, <2>3, <3>1, GoesType
    <3> QED BY <1>a, <2>1, <2>3, <3>1, <3>9, ShapeStep DEF RouterTypeOK
  <2> QED BY <1>10, <2>2, <2>3 DEF Sideline
<1>11. CASE Stamp(t)
  <2>1. /\ UNCHANGED <<current, errors, healthy, limited, untried>> /\ Recorded(t)
        /\ sidelined' = [sidelined EXCEPT ![Idx(t)] = 0] /\ Back(Idx(t))
    BY <1>11 DEF Stamp
  <2>2. sidelined' \in [Endpoints -> {Never} \cup 0..Cooldown] /\ lost' \subseteq Endpoints
    BY <1>0, <2>1, StoresType
  <2> QED BY <1>a, <2>1, <2>2, RecordedType, ShapeStep DEF RouterTypeOK, search
<1>12. CASE RateLimit(t)
  <2>1. /\ Goto(t, "sideline") /\ "sideline" \in Places
        /\ errors' = [errors EXCEPT ![Idx(t)] = Tolerated + 1]
        /\ limited' = [limited EXCEPT ![t] = FALSE]
        /\ UNCHANGED <<current, healthy, sidelined, start, offset, tries, untried, lost>>
    BY <1>12 DEF RateLimit, Places, Recording, search, history
  <2>2. errors' \in [Endpoints -> 0..(Tolerated + 1)] BY <1>0, <2>1, StoresType
  <2>3. limited' \in [Tasks -> BOOLEAN] BY <1>a, <2>1 DEF RouterTypeOK
  <2>9. /\ pc' \in [Tasks -> Places] /\ pc'[t] = "sideline"
        /\ \A u \in Tasks \ {t} : pc'[u] = pc[u]
    BY <2>1, <2>2, <2>3, GoesType
  <2> QED BY <1>a, <2>1, <2>2, <2>3, <2>9, ShapeStep DEF RouterTypeOK
<1>13. CASE GiveUp(t)
  <2>1. /\ Return(t) /\ untried' = [untried EXCEPT ![t] = Endpoints]
        /\ UNCHANGED <<current, errors, healthy, sidelined, limited, lost>>
    BY <1>13 DEF GiveUp, Ended, endpoints
  <2>2. untried' \in [Tasks -> SUBSET Endpoints] BY <1>a, <2>1 DEF RouterTypeOK
  <2> QED BY <1>a, <2>1, <2>2, ReturnType, ShapeStep DEF RouterTypeOK
<1> QED
  BY <1>1, <1>2, <1>3, <1>4, <1>5, <1>6, <1>7, <1>8, <1>9, <1>10, <1>11, <1>12, <1>13
     DEF TaskStep

LEMMA TickShape ==
    ASSUME RouterShape, Tick
    PROVE  RouterShape'
<1>1. UNCHANGED <<current, errors, healthy, pc, start, offset, tries, limited, untried, lost>>
  BY DEF Tick, search, history
<1>2. sidelined' \in [Endpoints -> {Never} \cup 0..Cooldown]
  BY DEF Tick, RouterShape, RouterTypeOK, Never
<1> QED BY <1>1, <1>2 DEF RouterShape, RouterTypeOK, TriesCounted

\* Every reachable state is well-typed and counts its attempts, for any number
\* of endpoints and tasks.
THEOREM RouterTypes == RouterSpec => []RouterShape
<1>1. RouterShape /\ [RouterNext]_routerVars => RouterShape'
  <2> SUFFICES ASSUME RouterShape, [RouterNext]_routerVars PROVE RouterShape'
    OBVIOUS
  <2>1. CASE \E t \in Tasks : TaskStep(t) BY <2>1, RouterShapeStep
  <2>2. CASE Tick BY <2>2, TickShape
  <2>3. CASE UNCHANGED routerVars
    BY <2>3 DEF RouterShape, RouterTypeOK, TriesCounted, routerVars, endpoints, search, history
  <2> QED BY <2>1, <2>2, <2>3 DEF RouterNext
<1> QED BY <1>1, RouterShapeInit, PTL DEF RouterSpec

-----------------------------------------------------------------------------
(* The time an endpoint went out.                                           *)

\* A step of t leaves e remembered when it was so before and t was not the one
\* about to see to it, or when t now is.
LEMMA RememberedBy ==
    ASSUME SidelineRemembered, NEW t \in Tasks,
           \A u \in Tasks \ {t} : pc'[u] = pc[u] /\ start'[u] = start[u]
                                                 /\ offset'[u] = offset[u],
           \A e \in Endpoints : ~healthy'[e] /\ sidelined'[e] = Never /\ e \notin lost' =>
               \/ pc'[t] \in {"stamp", "revive"} /\ Idx(t)' = e
               \/ /\ ~healthy[e] /\ sidelined[e] = Never /\ e \notin lost
                  /\ ~(pc[t] \in {"stamp", "revive"} /\ Idx(t) = e)
    PROVE  SidelineRemembered'
<1>1. \A u \in Tasks \ {t} : Idx(u)' = Idx(u) BY DEF Idx
<1>2. SUFFICES ASSUME NEW e \in Endpoints,
                      ~healthy'[e], sidelined'[e] = Never, e \notin lost'
               PROVE  \E u \in Tasks : pc'[u] \in {"stamp", "revive"} /\ Idx(u)' = e
  BY DEF SidelineRemembered
<1>3. CASE pc'[t] \in {"stamp", "revive"} /\ Idx(t)' = e BY <1>3
<1>4. CASE /\ ~healthy[e] /\ sidelined[e] = Never /\ e \notin lost
           /\ ~(pc[t] \in {"stamp", "revive"} /\ Idx(t) = e)
  <2>1. PICK u \in Tasks : pc[u] \in {"stamp", "revive"} /\ Idx(u) = e
    BY <1>4 DEF SidelineRemembered
  <2>2. u \in Tasks \ {t} BY <1>4, <2>1
  <2>3. pc'[u] = pc[u] BY <2>2
  <2> QED BY <1>1, <2>1, <2>2, <2>3
<1> QED BY <1>2, <1>3, <1>4

\* Where a step of t leaves the others, and itself when it is at no store.
LEMMA OthersStay ==
    ASSUME RouterShape, NEW t \in Tasks, TaskStep(t)
    PROVE  \A u \in Tasks \ {t} : pc'[u] = pc[u] /\ start'[u] = start[u]
                                                 /\ offset'[u] = offset[u]
<1>1. ASSUME NEW place, Goto(t, place)
      PROVE  \A u \in Tasks \ {t} : pc'[u] = pc[u]
  BY <1>1 DEF Goto, RouterShape, RouterTypeOK
<1>2. UNCHANGED search => UNCHANGED <<start, offset>> BY DEF search
<1>3. CASE Usable(t) \/ Unusable(t) BY <1>3, SearchType
<1>4. CASE Recorded(t) BY <1>4, <1>2, RecordedType
<1>5. CASE Return(t) BY <1>5, ReturnType
<1>6. CASE Observe(t) BY <1>1, <1>2, <1>6 DEF Observe
<1>7. CASE Pick(t)
  <2>1. /\ Goto(t, "look") /\ start' = [start EXCEPT ![t] = current]
        /\ offset' = [offset EXCEPT ![t] = 0]
    BY <1>7 DEF Pick
  <2> QED BY <1>1, <2>1 DEF RouterShape, RouterTypeOK
<1>8. CASE Look(t) BY <1>1, <1>2, <1>3, <1>8 DEF Look
<1>9. CASE Age(t) BY <1>1, <1>2, <1>3, <1>9 DEF Age
<1>10. CASE Probation(t) BY <1>1, <1>2, <1>3, <1>10 DEF Probation
<1>11. CASE ResetAll(t)
  <2>1. UNCHANGED start /\ \E place : Goto(t, place) BY <1>11 DEF ResetAll
  <2>2. \/ UNCHANGED offset \/ \E i : offset' = [offset EXCEPT ![t] = i]
    BY <1>11 DEF ResetAll
  <2> QED BY <1>1, <2>1, <2>2 DEF RouterShape, RouterTypeOK
<1>12. CASE RecordSuccess(t) BY <1>1, <1>2, <1>5, <1>12 DEF RecordSuccess, Ended
<1>13. CASE RecordError(t) BY <1>1, <1>2, <1>13 DEF RecordError
<1>14. CASE Count(t) BY <1>1, <1>2, <1>4, <1>14 DEF Count
<1>15. CASE Sideline(t) BY <1>1, <1>2, <1>4, <1>15 DEF Sideline
<1>16. CASE Stamp(t) BY <1>4, <1>16 DEF Stamp
<1>17. CASE RateLimit(t) BY <1>1, <1>2, <1>17 DEF RateLimit
<1>18. CASE GiveUp(t) BY <1>5, <1>18 DEF GiveUp, Ended
<1> QED
  BY <1>6, <1>7, <1>8, <1>9, <1>10, <1>11, <1>12, <1>13, <1>14, <1>15, <1>16, <1>17,
     <1>18 DEF TaskStep

LEMMA RememberedStep ==
    ASSUME RouterShape, SidelineRemembered, NEW t \in Tasks, TaskStep(t)
    PROVE  SidelineRemembered'
<1> DEFINE Unstamped(e) == ~healthy'[e] /\ sidelined'[e] = Never /\ e \notin lost'
<1>0. /\ Idx(t) \in Endpoints /\ offset[t] \in Endpoints
      /\ healthy \in [Endpoints -> BOOLEAN]
      /\ sidelined \in [Endpoints -> {Never} \cup 0..Cooldown]
  BY IdxType DEF RouterShape, RouterTypeOK
<1>a. RouterTypeOK BY DEF RouterShape
<1>1. CASE UNCHANGED <<healthy, sidelined, lost>> /\ pc[t] \notin {"stamp", "revive"}
  BY <1>1, OthersStay, RememberedBy
<1>2. CASE Observe(t) \/ Pick(t) \/ Look(t) \/ Age(t)
  BY <1>1, <1>2 DEF Observe, Pick, Look, Age, endpoints, history
<1>3. CASE RecordError(t) \/ Count(t) \/ RateLimit(t) \/ GiveUp(t)
  BY <1>1, <1>3 DEF RecordError, Count, RateLimit, GiveUp, endpoints, history
<1>4. CASE Probation(t)
  <2>1. CASE pc[t] = "forgive" BY <1>1, <1>4, <2>1 DEF Probation
  <2>2. CASE pc[t] = "forget"
    <3>1. /\ Goto(t, "revive") /\ UNCHANGED <<healthy, start, offset, lost>>
          /\ sidelined' = [sidelined EXCEPT ![Idx(t)] = Never]
      BY <1>4, <2>2 DEF Probation, search
    <3>2. pc'[t] = "revive" BY <1>a, <3>1 DEF Goto, RouterTypeOK
    <3>3. Idx(t)' = Idx(t) BY <3>1 DEF Idx
    <3>4. \A e \in Endpoints : e # Idx(t) => sidelined'[e] = sidelined[e] BY <1>0, <3>1
    <3> QED BY <2>2, <3>1, <3>2, <3>3, <3>4, OthersStay, RememberedBy
  <2>3. CASE pc[t] = "revive"
    <3>1. healthy' = [healthy EXCEPT ![Idx(t)] = TRUE] /\ lost' = lost \ {Idx(t)}
          /\ UNCHANGED sidelined
      BY <1>4, <2>3 DEF Probation, Back
    <3>2. \A e \in Endpoints : ~healthy'[e] => ~healthy[e] /\ e # Idx(t) BY <1>0, <3>1
    <3> QED BY <3>1, <3>2, OthersStay, RememberedBy
  <2> QED BY <1>4, <2>1, <2>2, <2>3 DEF Probation
<1>5. ASSUME NEW f \in Endpoints, Wiped(f), pc[t] \notin {"stamp", "revive"}
      PROVE  SidelineRemembered'
  <2>1. /\ sidelined' = [sidelined EXCEPT ![f] = Never] /\ UNCHANGED healthy
        /\ lost' = IF healthy[f] THEN lost ELSE lost \cup {f}
    BY <1>5 DEF Wiped
  <2>2. \A e \in Endpoints : Unstamped(e) => ~healthy[e] /\ sidelined[e] = Never /\ e \notin lost
    BY <1>0, <2>1
  <2> QED BY <1>5, <2>2, OthersStay, RememberedBy
<1>6. ASSUME NEW f \in Endpoints, healthy' = [healthy EXCEPT ![f] = TRUE], Back(f),
             UNCHANGED sidelined, pc[t] \notin {"stamp", "revive"}
      PROVE  SidelineRemembered'
  <2>1. \A e \in Endpoints : Unstamped(e) => ~healthy[e] /\ sidelined[e] = Never /\ e \notin lost
    BY <1>0, <1>6 DEF Back
  <2> QED BY <1>6, <2>1, OthersStay, RememberedBy
<1>7. CASE ResetAll(t)
  <2>1. CASE pc[t] = "reset errors" BY <1>1, <1>7, <2>1 DEF ResetAll
  <2>2. CASE pc[t] = "reset health" BY <1>0, <1>6, <1>7, <2>2 DEF ResetAll
  <2>3. CASE pc[t] = "reset stamp" BY <1>0, <1>5, <1>7, <2>3 DEF ResetAll
  <2> QED BY <1>7, <2>1, <2>2, <2>3 DEF ResetAll
<1>8. CASE RecordSuccess(t)
  <2>1. CASE pc[t] = "call" BY <1>0, <1>6, <1>8, <2>1 DEF RecordSuccess
  <2>2. CASE pc[t] = "unstamp" BY <1>0, <1>5, <1>8, <2>2 DEF RecordSuccess
  <2> QED BY <1>8, <2>1, <2>2 DEF RecordSuccess
<1>9. CASE Sideline(t)
  <2>1. /\ pc[t] = "sideline" /\ UNCHANGED <<sidelined, lost>>
        /\ healthy' = [healthy EXCEPT ![Idx(t)] = FALSE]
    BY <1>9 DEF Sideline, history
  <2>2. CASE healthy[Idx(t)]
    <3>1. Goto(t, "stamp") /\ UNCHANGED <<start, offset>>
      BY <1>9, <2>2 DEF Sideline, search
    <3>2. pc'[t] = "stamp" /\ Idx(t)' = Idx(t)
      BY <1>a, <3>1 DEF Goto, RouterTypeOK, Idx
    <3>3. \A e \in Endpoints : e # Idx(t) => healthy'[e] = healthy[e] BY <1>0, <2>1
    <3> QED BY <2>1, <3>2, <3>3, OthersStay, RememberedBy
  <2>3. CASE ~healthy[Idx(t)]
    <3>1. healthy' = healthy BY <1>0, <2>1, <2>3
    <3> QED BY <1>1, <2>1, <3>1
  <2> QED BY <2>2, <2>3
<1>10. CASE Stamp(t)
  <2>1. /\ sidelined' = [sidelined EXCEPT ![Idx(t)] = 0] /\ UNCHANGED healthy
        /\ lost' = lost \ {Idx(t)}
    BY <1>10 DEF Stamp, Back
  <2>2. \A e \in Endpoints : Unstamped(e) =>
            ~healthy[e] /\ sidelined[e] = Never /\ e \notin lost /\ e # Idx(t)
    BY <1>0, <2>1 DEF Never
  <2> QED BY <2>2, OthersStay, RememberedBy
<1> QED BY <1>2, <1>3, <1>4, <1>7, <1>8, <1>9, <1>10 DEF TaskStep

\* However many tasks share the router, an endpoint out of rotation has the time
\* it went out, or a task is about to see to it, unless a late success or reset
\* wiped the time.
THEOREM RouterRemembers == RouterSpec => []SidelineRemembered
<1>1. RouterInit => SidelineRemembered
  BY DEF RouterInit, SidelineRemembered
<1>2. RouterShape /\ SidelineRemembered /\ [RouterNext]_routerVars => SidelineRemembered'
  <2> SUFFICES ASSUME RouterShape, SidelineRemembered, [RouterNext]_routerVars
               PROVE  SidelineRemembered'
    OBVIOUS
  <2>1. CASE \E t \in Tasks : TaskStep(t) BY <2>1, RememberedStep
  <2>2. CASE Tick
    <3>1. UNCHANGED <<healthy, lost, pc, start, offset>>
          /\ \A e \in Endpoints : sidelined'[e] = Never => sidelined[e] = Never
      BY <2>2 DEF Tick, search, history, RouterShape, RouterTypeOK, Never
    <3>2. \A u \in Tasks : Idx(u)' = Idx(u) BY <3>1 DEF Idx
    <3> QED BY <3>1, <3>2 DEF SidelineRemembered
  <2>3. CASE UNCHANGED routerVars
    BY <2>3 DEF SidelineRemembered, Idx, routerVars, endpoints, search, history
  <2> QED BY <2>1, <2>2, <2>3 DEF RouterNext
<1> QED BY <1>1, <1>2, RouterTypes, PTL DEF RouterSpec

-----------------------------------------------------------------------------
(* The endpoints a request misses.                                          *)

\* How many moves of the counter ago it stood at e.
Dist(e) == IF e < current THEN current - e ELSE current + N - e

\* The counter moves once with each search and only with them, so the last
\* places it stood at, as many as the request has made attempts, were drawn by
\* it or by another since its first.
SweptBy(t) ==
    \A e \in Endpoints : Dist(e) <= tries[t] =>
        e \notin untried[t] \/ (pc[t] = "look" /\ offset[t] = 0 /\ e = start[t])

Swept == \A t \in Tasks : tries[t] > 0 => SweptBy(t)

LEMMA DistType ==
    ASSUME RouterShape, NEW e \in Endpoints
    PROVE  Dist(e) \in 1..N
  BY DEF RouterShape, RouterTypeOK, Endpoints, Dist

LEMMA Positive ==
    /\ N > 0
    /\ RouterShape => \A e \in Endpoints : Dist(e) <= N
  BY NAssumption, DistType

\* A step that does not move the counter, of a task with the attempts it had.
LEMMA SweptByStays ==
    ASSUME RouterShape, Swept, NEW t \in Tasks,
           UNCHANGED current, tries'[t] = tries[t], untried'[t] \subseteq untried[t],
           pc[t] = "look" /\ offset[t] = 0 =>
               \/ pc'[t] = "look" /\ offset'[t] = 0 /\ start'[t] = start[t]
               \/ start[t] \notin untried'[t]
    PROVE  tries'[t] > 0 => SweptBy(t)'
<1> SUFFICES ASSUME tries[t] > 0, NEW e \in Endpoints, Dist(e) <= tries[t],
                    e \in untried'[t]
             PROVE  pc'[t] = "look" /\ offset'[t] = 0 /\ e = start'[t]
  BY DEF SweptBy, Dist
<1>1. pc[t] = "look" /\ offset[t] = 0 /\ e = start[t] BY DEF Swept, SweptBy
<1> QED BY <1>1

LEMMA SweptStep ==
    ASSUME RouterShape, Swept, NEW t \in Tasks, TaskStep(t)
    PROVE  Swept'
<1>0. /\ RouterTypeOK /\ start[t] \in Endpoints /\ offset[t] \in Endpoints
      /\ tries[t] \in 0..N /\ current \in Endpoints
  BY DEF RouterShape, RouterTypeOK
<1>00. Idx(t) \in Endpoints BY <1>0, IdxType
<1>1. CASE Pick(t)
  <2>1. /\ current' = (current + 1) % N /\ tries' = [tries EXCEPT ![t] = @ + 1]
        /\ start' = [start EXCEPT ![t] = current] /\ offset' = [offset EXCEPT ![t] = 0]
        /\ Goto(t, "look") /\ Drawn(t)
    BY <1>1 DEF Pick
  <2>2. \A e \in Endpoints : Dist(e)' = IF e = current THEN 1 ELSE Dist(e) + 1
    <3>1. current' = IF current = N - 1 THEN 0 ELSE current + 1
      BY <1>0, <2>1, OnePast
    <3> QED BY <1>0, <3>1 DEF Dist, Endpoints
  <2>3. ASSUME NEW u \in Tasks \ {t}, tries'[u] > 0 PROVE SweptBy(u)'
    <3>1. tries'[u] = tries[u] /\ untried'[u] = untried[u] \ {current}
          /\ pc'[u] = pc[u] /\ start'[u] = start[u] /\ offset'[u] = offset[u]
      BY <1>0, <2>1, <2>3 DEF Drawn, Goto, RouterTypeOK
    <3> SUFFICES ASSUME NEW e \in Endpoints, Dist(e)' <= tries[u], e \in untried'[u]
                 PROVE  pc[u] = "look" /\ offset[u] = 0 /\ e = start[u]
      BY <3>1 DEF SweptBy
    <3>2. e # current /\ e \in untried[u] BY <3>1
    <3>3. Dist(e) <= tries[u]
      BY <1>0, <2>2, <3>2, DistType DEF RouterTypeOK
    <3> QED BY <2>3, <3>1, <3>2, <3>3 DEF Swept, SweptBy
  <2>4. SweptBy(t)'
    <3>1. tries'[t] = tries[t] + 1 /\ untried'[t] = untried[t]
          /\ pc'[t] = "look" /\ start'[t] = current /\ offset'[t] = 0
      BY <1>0, <2>1 DEF Drawn, Goto, RouterTypeOK
    <3> SUFFICES ASSUME NEW e \in Endpoints, Dist(e)' <= tries[t] + 1, e \in untried[t],
                        e # current
                 PROVE  FALSE
      BY <3>1 DEF SweptBy
    <3>2. Dist(e) \in 1..N BY DistType
    <3>3. Dist(e) <= tries[t] BY <1>0, <2>2, <3>2
    <3>4. pc[t] # "look" BY <1>1 DEF Pick
    <3> QED BY <1>0, <3>2, <3>3, <3>4 DEF Swept, SweptBy
  <2> QED BY <2>3, <2>4 DEF Swept
<1>2. ASSUME ~Pick(t), NEW u \in Tasks \ {t} PROVE tries'[u] > 0 => SweptBy(u)'
  <2>1. pc'[u] = pc[u] /\ start'[u] = start[u] /\ offset'[u] = offset[u] BY OthersStay
  <2>2. UNCHANGED current
    BY <1>2 DEF TaskStep, Observe, Look, Age, Probation, ResetAll, RecordSuccess,
       RecordError, Count, Sideline, Stamp, RateLimit, GiveUp
  <2>3. tries'[u] = tries[u]
    <3>1. CASE UNCHANGED tries BY <3>1
    <3>2. CASE Usable(t) \/ Unusable(t) BY <3>2, SearchType
    <3>3. CASE Recorded(t) BY <3>3, RecordedType DEF search
    <3>4. CASE Return(t) BY <3>4, ReturnType
    <3> QED
      BY <1>2, <3>1, <3>2, <3>3, <3>4
         DEF TaskStep, Observe, Look, Age, Probation, ResetAll, RecordSuccess, Ended,
             RecordError, Count, Sideline, Stamp, RateLimit, GiveUp, search
  <2>4. untried'[u] \subseteq untried[u]
    <3>1. UNCHANGED untried \/ \E s : untried' = [untried EXCEPT ![t] = s]
      BY <1>2 DEF TaskStep, Observe, Look, Age, Probation, ResetAll, RecordSuccess, Ended,
             RecordError, Count, Sideline, Stamp, RateLimit, GiveUp, history
    <3> QED BY <1>0, <3>1 DEF RouterTypeOK
  <2> QED BY <2>1, <2>2, <2>3, <2>4, SweptByStays
<1>a. SUFFICES ASSUME ~Pick(t) PROVE tries'[t] > 0 => SweptBy(t)'
  BY <1>1, <1>2 DEF Swept
<1>3. ASSUME pc[t] # "look", UNCHANGED <<current, untried, tries>>
      PROVE  tries'[t] > 0 => SweptBy(t)'
  BY <1>3, SweptByStays
<1>4. CASE Observe(t)
  <2>1. tries[t] = 0 BY <1>4 DEF Observe, RouterShape, TriesCounted
  <2> QED BY <1>4, <2>1 DEF Observe, search
<1>5. CASE Look(t)
  <2>1. pc[t] = "look" /\ UNCHANGED current BY <1>5 DEF Look
  <2>2. tries'[t] \in {0, tries[t]}
    <3>1. CASE Usable(t) BY <1>0, <3>1, SearchType, ReturnType DEF Usable, Further, search
    <3>2. CASE UNCHANGED search BY <3>2 DEF search
    <3> QED BY <1>5, <3>1, <3>2 DEF Look
  <2>3. tries[t] > 0 => untried'[t] = untried[t] \ {Idx(t)}
    BY <1>0, <1>5 DEF Look, RouterTypeOK
  <2>4. offset[t] = 0 => Idx(t) = start[t] BY <1>0, OnePast DEF Idx, Endpoints
  <2>5. CASE tries'[t] > 0
    <3>1. tries'[t] = tries[t] /\ tries[t] > 0 BY <2>2, <2>5
    <3> QED BY <2>1, <2>3, <2>4, <3>1, SweptByStays
  <2> QED BY <2>5
<1>6. CASE Age(t)
  <2>1. pc[t] # "look" /\ UNCHANGED <<current, untried>> BY <1>6 DEF Age, history
  <2>2. tries'[t] = 0 \/ UNCHANGED tries
    <3>1. CASE Unusable(t) BY <3>1, ReturnType DEF Unusable, Further
    <3>2. CASE UNCHANGED search BY <3>2 DEF search
    <3> QED BY <1>6, <3>1, <3>2 DEF Age
  <2> QED BY <1>3, <2>1, <2>2
<1>7. CASE Probation(t)
  <2>1. pc[t] # "look" /\ UNCHANGED <<current, untried>> BY <1>7 DEF Probation
  <2>2. tries'[t] = 0 \/ UNCHANGED tries
    <3>1. CASE Usable(t) BY <3>1, ReturnType DEF Usable, Further, search
    <3>2. CASE UNCHANGED search BY <3>2 DEF search
    <3> QED BY <1>7, <3>1, <3>2 DEF Probation
  <2> QED BY <1>3, <2>1, <2>2
<1>8. CASE ResetAll(t)
  <2>1. pc[t] # "look" /\ UNCHANGED <<current, untried, tries>> BY <1>8 DEF ResetAll
  <2> QED BY <1>3, <2>1
<1>9. CASE RecordSuccess(t)
  <2>1. CASE pc[t] = "call"
    <3>1. pc[t] # "look" /\ UNCHANGED <<current, untried, tries>>
      BY <1>9, <2>1 DEF RecordSuccess, search
    <3> QED BY <1>3, <3>1
  <2>2. CASE pc[t] = "unstamp"
    <3>1. tries'[t] = 0 BY <1>9, <2>2, ReturnType DEF RecordSuccess, Ended
    <3> QED BY <3>1
  <2> QED BY <1>9, <2>1, <2>2 DEF RecordSuccess
<1>10. CASE RecordError(t) \/ RateLimit(t)
  BY <1>3, <1>10 DEF RecordError, RateLimit, search, history
<1>11. CASE Count(t)
  <2>1. pc[t] # "look" /\ UNCHANGED <<current, untried>> BY <1>11 DEF Count, history
  <2>2. UNCHANGED tries BY <1>11, RecordedType DEF Count, search
  <2> QED BY <1>3, <2>1, <2>2
<1>12. CASE Sideline(t)
  <2>1. pc[t] # "look" /\ UNCHANGED <<current, untried>> BY <1>12 DEF Sideline, history
  <2>2. UNCHANGED tries BY <1>12, RecordedType DEF Sideline, search
  <2> QED BY <1>3, <2>1, <2>2
<1>13. CASE Stamp(t)
  <2>1. pc[t] # "look" /\ UNCHANGED <<current, untried>> BY <1>13 DEF Stamp
  <2>2. UNCHANGED tries BY <1>13, RecordedType DEF Stamp, search
  <2> QED BY <1>3, <2>1, <2>2
<1>14. CASE GiveUp(t)
  <2>1. tries'[t] = 0 BY <1>14, ReturnType DEF GiveUp, Ended
  <2> QED BY <2>1
<1> QED
  BY <1>a, <1>4, <1>5, <1>6, <1>7, <1>8, <1>9, <1>10, <1>11, <1>12, <1>13, <1>14
     DEF TaskStep

\* However many tasks share the counter, a request that gives up looked at every
\* endpoint that was not handed to another request while it ran.
THEOREM RouterTriesAll == RouterSpec => []GaveUpAfterAll
<1>1. RouterInit => Swept
  BY DEF RouterInit, Swept
<1>2. RouterShape /\ Swept /\ [RouterNext]_routerVars => Swept'
  <2> SUFFICES ASSUME RouterShape, Swept, [RouterNext]_routerVars PROVE Swept'
    OBVIOUS
  <2>1. CASE \E t \in Tasks : TaskStep(t) BY <2>1, SweptStep
  <2>2. CASE Tick \/ UNCHANGED routerVars
    <3>1. UNCHANGED <<current, pc, start, offset, tries, untried>>
      BY <2>2 DEF Tick, routerVars, search, history
    <3> QED BY <3>1 DEF Swept, SweptBy, Dist
  <2> QED BY <2>1, <2>2 DEF RouterNext
<1>3. RouterShape /\ Swept => GaveUpAfterAll
  <2> SUFFICES ASSUME RouterShape, Swept, NEW t \in Tasks, pc[t] = "gave up"
               PROVE  untried[t] = {}
    BY DEF GaveUpAfterAll
  <2>1. tries[t] = N /\ untried[t] \subseteq Endpoints
    BY DEF RouterShape, RouterTypeOK, TriesCounted
  <2>2. tries[t] > 0 BY <2>1, Positive
  <2>3. SweptBy(t) BY <2>2 DEF Swept
  <2>4. \A e \in Endpoints : e \notin untried[t] BY <2>1, <2>3, Positive DEF SweptBy
  <2> QED BY <2>1, <2>4
<1> QED BY <1>1, <1>2, <1>3, RouterTypes, PTL DEF RouterSpec
=============================================================================
