---------------------------- MODULE SignalProofs ----------------------------
(***************************************************************************)
(* Theorems about the life of proposals, for every number of handlers,     *)
(* knobs and faults; and about the gates those proposals move, for every   *)
(* token, every list of scores and every set of committed rows.            *)
(***************************************************************************)
EXTENDS SignalTunes, SignalGates, FiniteSetTheorems, WellFoundedInduction, TLAPS

(***************************************************************************)
(* Proposals are only added, never removed, and so are diary entries.  A   *)
(* handler that is about to mark a proposal holds an entry of that         *)
(* proposal: the one it wrote, or the one the committed row named.         *)
(***************************************************************************)
Row   == [knob : Targets, status : Statuses, at : Nat, decided : Nat \cup {None}, event : Nat]
Entry == [by : Nat, posted : BOOLEAN]
Work  == [pc : Steps, knob : Targets \cup {None}, id : Nat, event : Nat, at : Nat]

TunesType ==
    /\ proposals \in Seq(Row) /\ events \in Seq(Entry)
    /\ handler \in [Handlers -> Work] /\ now \in Nat

TellsOf(id, event) == event \in DOMAIN events /\ events[event].by = id

Holds(w) ==
    /\ w.pc \in {"apply", "event", "status", "delete", "unmark"} => w.id \in DOMAIN proposals
    /\ w.pc \in {"status", "delete", "unmark"} => TellsOf(w.id, w.event)
    /\ w.pc = "publish" => w.event \in DOMAIN events
    /\ w.pc = "insert" => w.knob \in Targets

HandlersHold == \A h \in Handlers : Holds(handler[h])

Told == \A id \in DOMAIN proposals :
           proposals[id].status # "pending" => TellsOf(id, proposals[id].event)

TunesInv == TunesType /\ HandlersHold /\ Told

LEMMA IdleIsWork == Idle \in Work /\ Idle.pc = "idle" BY DEF Idle, Work, Steps

LEMMA TunesInvInit == Init => TunesInv
<1> SUFFICES ASSUME Init PROVE TunesInv
  OBVIOUS
<1>1. TunesType BY IdleIsWork DEF Init, TunesType
<1>2. HandlersHold BY IdleIsWork DEF Init, HandlersHold, Holds
<1>3. Told BY DEF Init, Told
<1> QED BY <1>1, <1>2, <1>3 DEF TunesInv

(***************************************************************************)
(* A step of a handler that leaves the tables as they are.                 *)
(***************************************************************************)
LEMMA OnlyWork ==
    ASSUME TunesInv, NEW h \in Handlers, NEW w \in Work, Holds(w),
           handler' = [handler EXCEPT ![h] = w], UNCHANGED <<proposals, events, now>>
    PROVE  TunesInv'
<1> USE DEF TunesInv
<1>1. TunesType' BY DEF TunesType
<1>2. HandlersHold' BY DEF TunesType, HandlersHold, Holds, TellsOf
<1>3. Told' BY DEF Told, TellsOf
<1> QED BY <1>1, <1>2, <1>3

(***************************************************************************)
(* The step of one field.                                                  *)
(***************************************************************************)
LEMMA WorkGoes ==
    ASSUME TunesType, NEW h \in Handlers, NEW pc \in Steps, Next_(h, pc)
    PROVE  \E w \in Work : /\ handler' = [handler EXCEPT ![h] = w] /\ w.pc = pc
                           /\ w.id = handler[h].id /\ w.event = handler[h].event
                           /\ w.knob = handler[h].knob
<1> DEFINE w == [handler[h] EXCEPT !.pc = pc]
<1>1. handler[h] \in Work BY DEF TunesType
<1>2. /\ w \in Work /\ w.pc = pc /\ w.id = handler[h].id
      /\ w.event = handler[h].event /\ w.knob = handler[h].knob
  BY <1>1 DEF Work
<1>3. handler' = [handler EXCEPT ![h] = w] BY DEF Next_
<1> QED BY <1>2, <1>3

(***************************************************************************)
(* What a mark leaves of the proposals (update_proposal_status).           *)
(***************************************************************************)
LEMMA MarkedRow ==
    ASSUME proposals \in Seq(Row), NEW id \in DOMAIN proposals, NEW status \in Statuses,
           NEW at \in Nat, NEW event \in Nat, UpdateStatus(id, status, at, event)
    PROVE  /\ proposals' \in Seq(Row) /\ DOMAIN proposals' = DOMAIN proposals
           /\ proposals'[id].event = event
           /\ \A i \in DOMAIN proposals : i # id => proposals'[i] = proposals[i]
<1>1. proposals[id] \in Row OBVIOUS
<1> DEFINE row == [proposals[id] EXCEPT !.status = status, !.decided = at, !.event = event]
<1>2. row \in Row /\ row.event = event BY <1>1 DEF Row
<1>3. proposals' = [proposals EXCEPT ![id] = row] BY DEF UpdateStatus
<1> HIDE DEF row
<1> QED BY <1>2, <1>3

LEMMA MarkStep ==
    ASSUME TunesInv, NEW h \in Handlers, NEW status \in Statuses, NEW at \in Nat,
           handler[h].pc \in {"status", "unmark"}, NEW w \in Work,
           handler' = [handler EXCEPT ![h] = w], w.pc \in {"publish", "idle"},
           w.event = handler[h].event \/ w.pc = "idle",
           UpdateStatus(handler[h].id, status, at, handler[h].event),
           UNCHANGED <<events, now>>
    PROVE  TunesInv'
<1> USE DEF TunesInv
<1> DEFINE id == handler[h].id
           event == handler[h].event
<1>1. handler[h] \in Work BY DEF TunesType
<1>2. /\ id \in DOMAIN proposals /\ event \in Nat
      /\ TellsOf(id, event)
  BY <1>1 DEF HandlersHold, Holds, Work
<1>3. /\ proposals' \in Seq(Row) /\ DOMAIN proposals' = DOMAIN proposals
      /\ proposals'[id].event = event
      /\ \A i \in DOMAIN proposals : i # id => proposals'[i] = proposals[i]
  BY <1>2, MarkedRow DEF TunesType
<1>4. TunesType' BY <1>3 DEF TunesType
<1>5. HandlersHold'
  <2>1. Holds(w)' BY <1>2 DEF Holds, TellsOf
  <2> QED BY <1>3, <2>1 DEF TunesType, HandlersHold, Holds, TellsOf
<1>6. Told' BY <1>2, <1>3 DEF Told, TellsOf
<1> QED BY <1>4, <1>5, <1>6

(***************************************************************************)
(* The diary grows; what it said stays.                                    *)
(***************************************************************************)
LEMMA EventStep ==
    ASSUME TunesInv, NEW h \in Handlers, NEW entry \in Entry, NEW w \in Work,
           events' = Append(events, entry), handler' = [handler EXCEPT ![h] = w],
           w.event = Len(events) + 1,
           \/ w.pc = "publish"
           \/ w.pc = "status" /\ w.id \in DOMAIN proposals /\ entry.by = w.id,
           UNCHANGED <<proposals, now>>
    PROVE  TunesInv'
<1> USE DEF TunesInv
<1>1. /\ events' \in Seq(Entry) /\ DOMAIN events = 1 .. Len(events)
      /\ DOMAIN events' = 1 .. Len(events) + 1 /\ Len(events) \in Nat
      /\ \A i \in DOMAIN events : events'[i] = events[i]
      /\ events'[Len(events) + 1] = entry
  BY DEF TunesType
<1>2. \A id, event : TellsOf(id, event) => TellsOf(id, event)' BY <1>1 DEF TellsOf
<1>3. TunesType' BY <1>1 DEF TunesType
<1>4. HandlersHold'
  <2>1. Holds(w)' BY <1>1 DEF Holds, TellsOf
  <2>2. \A g \in Handlers \ {h} : handler'[g] = handler[g] BY DEF TunesType
  <2>3. \A g \in Handlers \ {h} : Holds(handler[g])'
    BY <1>1, <1>2, <2>2 DEF HandlersHold, Holds
  <2>4. handler'[h] = w BY DEF TunesType
  <2> QED BY <2>1, <2>2, <2>3, <2>4 DEF HandlersHold, Holds
<1>5. Told' BY <1>2 DEF Told
<1> QED BY <1>3, <1>4, <1>5

LEMMA InsertProposalStep ==
    ASSUME TunesInv, NEW h \in Handlers, InsertProposal(h)
    PROVE  TunesInv'
<1> USE DEF TunesInv
<1>1. handler[h] \in Work /\ handler[h].pc = "insert" BY DEF InsertProposal, TunesType
<1> DEFINE row == [knob |-> handler[h].knob, status |-> "pending", at |-> handler[h].at,
                   decided |-> None, event |-> 0]
<1>2. proposals' = Append(proposals, row) /\ UNCHANGED <<events, now>>
      /\ handler' = [handler EXCEPT ![h] = Idle]
  BY DEF InsertProposal, Ends
<1>3. handler[h].knob \in Targets BY <1>1 DEF HandlersHold, Holds
<1>4. TunesInv'
  <2>1. row \in Row /\ row.status = "pending" BY <1>1, <1>3 DEF Row, Work, Statuses
  <2> HIDE DEF row
  <2>2. /\ proposals' \in Seq(Row) /\ DOMAIN proposals = 1 .. Len(proposals)
        /\ DOMAIN proposals' = 1 .. Len(proposals) + 1 /\ Len(proposals) \in Nat
        /\ \A i \in DOMAIN proposals : proposals'[i] = proposals[i]
        /\ proposals'[Len(proposals) + 1] = row
    BY <1>2, <2>1 DEF TunesType
  <2>3. TunesType' BY <1>2, <2>2, IdleIsWork DEF TunesType
  <2>4. HandlersHold'
    BY <1>2, <2>2, IdleIsWork DEF TunesType, HandlersHold, Holds, TellsOf
  <2>5. Told' BY <1>2, <2>1, <2>2 DEF Told, TellsOf
  <2> QED BY <2>3, <2>4, <2>5
<1> QED BY <1>4

LEMMA PublishStep ==
    ASSUME TunesInv, NEW h \in Handlers, Publish(h)
    PROVE  TunesInv'
<1> USE DEF TunesInv
<1> DEFINE e == handler[h].event
           entry == [events[e] EXCEPT !.posted = TRUE]
<1>1. e \in DOMAIN events BY DEF Publish, HandlersHold, Holds
<1>2. events' = [events EXCEPT ![e] = entry] /\ UNCHANGED <<proposals, now>>
      /\ handler' = [handler EXCEPT ![h] = Idle]
  BY DEF Publish, Ends
<1>3. entry \in Entry /\ entry.by = events[e].by
  <2>1. events[e] \in Entry BY <1>1 DEF TunesType
  <2> QED BY <2>1 DEF Entry
<1> HIDE DEF entry
<1>4. /\ events' \in Seq(Entry) /\ DOMAIN events' = DOMAIN events
      /\ \A i \in DOMAIN events : events'[i].by = events[i].by
  BY <1>1, <1>2, <1>3 DEF TunesType
<1>5. TunesType' BY <1>2, <1>4, IdleIsWork DEF TunesType
<1>6. HandlersHold'
  BY <1>2, <1>4, IdleIsWork DEF TunesType, HandlersHold, Holds, TellsOf
<1>7. Told' BY <1>2, <1>4 DEF Told, TellsOf
<1> QED BY <1>5, <1>6, <1>7

(***************************************************************************)
(* A handler begins, goes on without touching the tables of proposals and  *)
(* events, or ends.                                                        *)
(***************************************************************************)
LEMMA BeginSteps ==
    ASSUME TunesInv, NEW h \in Handlers,
           \/ \E k \in Knobs : ProposeTune(h, k) \/ ProposeUnread(h, k)
           \/ ProposePrompt(h)
           \/ \E id \in Ids : BeginCommit(h, id) \/ BeginRevert(h, id)
    PROVE  TunesInv'
<1> USE DEF TunesInv
<1>0. now \in Nat /\ Idle \in Work /\ proposals \in Seq(Row) BY IdleIsWork DEF TunesType
<1>1. ASSUME NEW k \in Knobs, ProposeTune(h, k) \/ ProposeUnread(h, k) PROVE TunesInv'
  <2> DEFINE w == [Idle EXCEPT !.pc = "insert", !.knob = k, !.at = now]
  <2>1. w \in Work /\ w.pc = "insert" /\ w.knob \in Targets
    BY <1>0 DEF Work, Steps, Targets
  <2>2. handler' = [handler EXCEPT ![h] = w] /\ UNCHANGED <<proposals, events, now>>
    BY <1>1 DEF ProposeTune, ProposeUnread, Propose, Goes
  <2> HIDE DEF w
  <2>3. Holds(w) BY <2>1 DEF Holds
  <2> QED BY <2>1, <2>2, <2>3, OnlyWork
<1>2. CASE ProposePrompt(h)
  <2> DEFINE w == [Idle EXCEPT !.pc = "insert", !.knob = Prompt, !.at = now]
  <2>1. w \in Work /\ w.pc = "insert" /\ w.knob \in Targets
    BY <1>0 DEF Work, Steps, Targets
  <2>2. handler' = [handler EXCEPT ![h] = w] /\ UNCHANGED <<proposals, events, now>>
    BY <1>2 DEF ProposePrompt, Propose, Goes
  <2> HIDE DEF w
  <2>3. Holds(w) BY <2>1 DEF Holds
  <2> QED BY <2>1, <2>2, <2>3, OnlyWork
<1>3. ASSUME NEW id \in Ids, BeginCommit(h, id) PROVE TunesInv'
  <2> DEFINE w == [Idle EXCEPT !.pc = "apply", !.knob = proposals[id].knob, !.id = id,
                               !.at = now]
  <2>0. id \in DOMAIN proposals BY <1>3, Zenon DEF BeginCommit
  <2>1. id \in DOMAIN proposals /\ id \in Nat BY <1>0, <2>0
  <2>5. handler' = [handler EXCEPT ![h] = w] /\ UNCHANGED <<proposals, events, now>>
    BY <1>3, Zenon DEF BeginCommit, Goes
  <2>2. proposals[id] \in Row BY <1>0, <2>1
  <2>3. w \in Work /\ w.pc = "apply" /\ w.id = id BY <1>0, <2>1, <2>2 DEF Work, Steps, Row
  <2> HIDE DEF w
  <2>4. Holds(w) BY <2>1, <2>3 DEF Holds
  <2> QED BY <2>3, <2>4, <2>5, OnlyWork
<1>4. ASSUME NEW id \in Ids, BeginRevert(h, id) PROVE TunesInv'
  <2> DEFINE w == [Idle EXCEPT !.pc = "delete", !.knob = proposals[id].knob, !.id = id,
                               !.event = proposals[id].event]
  <2>0. id \in DOMAIN proposals /\ proposals[id].status = "committed"
    BY <1>4, Zenon DEF BeginRevert
  <2>1. id \in DOMAIN proposals /\ id \in Nat /\ proposals[id].status = "committed"
    BY <1>0, <2>0
  <2>5. handler' = [handler EXCEPT ![h] = w] /\ UNCHANGED <<proposals, events, now>>
    BY <1>4, Zenon DEF BeginRevert, Goes
  <2>2. proposals[id] \in Row BY <1>0, <2>1
  <2>3. w \in Work /\ w.pc = "delete" /\ w.id = id /\ w.event = proposals[id].event
    BY <1>0, <2>1, <2>2 DEF Work, Steps, Row
  <2> HIDE DEF w
  <2>4. Holds(w) BY <2>1, <2>3 DEF Holds, Told
  <2> QED BY <2>3, <2>4, <2>5, OnlyWork
<1> QED BY <1>1, <1>2, <1>3, <1>4

LEMMA ServeSteps ==
    ASSUME TunesInv, NEW h \in Handlers, Serve(h) \/ CommitSite(h) \/ GiveUp(h)
    PROVE  TunesInv'
<1> USE DEF TunesInv
<1>0. /\ handler[h] \in Work /\ now \in Nat /\ proposals \in Seq(Row)
      /\ events \in Seq(Entry) /\ Len(events) \in Nat
  BY DEF TunesType
<1>1. CASE ApplyOverride(h) \/ AppendPrompt(h)
  <2>1. handler[h].pc = "apply" /\ Next_(h, "event") /\ UNCHANGED <<proposals, events, now>>
    BY <1>1 DEF ApplyOverride, AppendPrompt
  <2>2. PICK w \in Work : /\ handler' = [handler EXCEPT ![h] = w] /\ w.pc = "event"
                          /\ w.id = handler[h].id
    BY <2>1, WorkGoes DEF Steps
  <2>3. Holds(w) BY <2>1, <2>2 DEF HandlersHold, Holds
  <2> QED BY <2>1, <2>2, <2>3, OnlyWork
<1>2. CASE TellEvent(h)
  <2> DEFINE entry == [by |-> handler[h].id, posted |-> FALSE]
             n == Len(events) + 1
             w == [handler[h] EXCEPT !.pc = "status", !.event = n]
  <2>1. entry \in Entry /\ entry.by = handler[h].id BY <1>0 DEF Entry, Work
  <2>2. w \in Work /\ w.pc = "status" /\ w.id = handler[h].id /\ w.event = n
    <3>1. n \in Nat BY <1>0
    <3> HIDE DEF n
    <3> QED BY <1>0, <3>1 DEF Work, Steps
  <2>3. events' = Append(events, entry) /\ UNCHANGED <<proposals, now>>
        /\ handler[h].pc = "event"
    BY <1>2 DEF TellEvent
  <2>4. handler' = [handler EXCEPT ![h] = w] BY <1>2 DEF TellEvent
  <2> HIDE DEF entry, w
  <2>5. w.id \in DOMAIN proposals BY <2>2, <2>3 DEF HandlersHold, Holds
  <2> QED BY <2>1, <2>2, <2>3, <2>4, <2>5, EventStep
<1>3. CASE MarkCommitted(h)
  <2>1. handler[h].pc = "status" /\ Next_(h, "publish") /\ UNCHANGED <<events, now>>
        /\ UpdateStatus(handler[h].id, "committed", handler[h].at, handler[h].event)
    BY <1>3 DEF MarkCommitted
  <2>2. PICK w \in Work : /\ handler' = [handler EXCEPT ![h] = w] /\ w.pc = "publish"
                          /\ w.event = handler[h].event
    BY <2>1, WorkGoes DEF Steps
  <2>3. handler[h].at \in Nat /\ "committed" \in Statuses BY <1>0 DEF Work, Statuses
  <2> QED BY <2>1, <2>2, <2>3, MarkStep
<1>4. CASE MarkReverted(h)
  <2>1. handler[h].pc = "unmark" /\ handler' = [handler EXCEPT ![h] = Idle]
        /\ UNCHANGED <<events, now>>
        /\ UpdateStatus(handler[h].id, "reverted", now, handler[h].event)
    BY <1>4 DEF MarkReverted, Ends
  <2>2. "reverted" \in Statuses BY DEF Statuses
  <2> QED BY <1>0, <2>1, <2>2, IdleIsWork, MarkStep
<1>5. CASE DeleteOverride(h)
  <2>1. handler[h].pc = "delete" /\ Next_(h, "unmark") /\ UNCHANGED <<proposals, events, now>>
    BY <1>5 DEF DeleteOverride
  <2>2. PICK w \in Work : /\ handler' = [handler EXCEPT ![h] = w] /\ w.pc = "unmark"
                          /\ w.id = handler[h].id /\ w.event = handler[h].event
    BY <2>1, WorkGoes DEF Steps
  <2>3. Holds(w) BY <2>1, <2>2 DEF HandlersHold, Holds
  <2> QED BY <2>1, <2>2, <2>3, OnlyWork
<1>6. CASE GiveUp(h)
  <2>1. handler' = [handler EXCEPT ![h] = Idle] /\ UNCHANGED <<proposals, events, now>>
    BY <1>6 DEF GiveUp, Ends
  <2>2. Holds(Idle) BY IdleIsWork DEF Holds
  <2> QED BY <2>1, <2>2, IdleIsWork, OnlyWork
<1>7. CASE CommitSite(h)
  <2> DEFINE entry == [by |-> 0, posted |-> FALSE]
             n == Len(events) + 1
             w == [Idle EXCEPT !.pc = "publish", !.event = n]
  <2>1. entry \in Entry BY DEF Entry
  <2>2. w \in Work /\ w.pc = "publish" /\ w.event = n
    <3>1. n \in Nat BY <1>0
    <3> HIDE DEF n
    <3> QED BY <3>1, IdleIsWork DEF Work, Steps
  <2>3. events' = Append(events, entry) /\ UNCHANGED <<proposals, now>>
        /\ handler' = [handler EXCEPT ![h] = w]
    BY <1>7 DEF CommitSite, Goes
  <2> HIDE DEF entry, w
  <2> QED BY <2>1, <2>2, <2>3, EventStep
<1> QED
  BY <1>1, <1>2, <1>3, <1>4, <1>5, <1>6, <1>7, InsertProposalStep, PublishStep DEF Serve

LEMMA TunesInvNext == TunesInv /\ [Next]_vars => TunesInv'
<1> SUFFICES ASSUME TunesInv, [Next]_vars PROVE TunesInv'
  OBVIOUS
<1>1. CASE Tick
  BY <1>1 DEF Tick, TunesInv, TunesType, HandlersHold, Holds, Told, TellsOf
<1>2. CASE UNCHANGED vars
  BY <1>2 DEF vars, TunesInv, TunesType, HandlersHold, Holds, Told, TellsOf
<1>3. ASSUME NEW h \in Handlers, Serve(h) \/ CommitSite(h) \/ GiveUp(h) PROVE TunesInv'
  BY <1>3, ServeSteps
<1>4. ASSUME NEW h \in Handlers,
             \/ \E k \in Knobs : ProposeTune(h, k) \/ ProposeUnread(h, k)
             \/ ProposePrompt(h)
             \/ \E id \in Ids : BeginCommit(h, id) \/ BeginRevert(h, id)
      PROVE  TunesInv'
  BY <1>4, BeginSteps
<1> QED BY <1>1, <1>2, <1>3, <1>4 DEF Next

(***************************************************************************)
(* A proposal that is or was committed has its entry in the diary,         *)
(* whatever handlers meet and wherever they stop (commit_tune,             *)
(* commit_prompt, revert_tune).                                            *)
(***************************************************************************)
THEOREM CommittedIsTold == Spec => []CommittedTold
<1>1. Init => TunesInv BY TunesInvInit
<1>2. TunesInv /\ [Next]_vars => TunesInv' BY TunesInvNext
<1>3. TunesInv => CommittedTold BY DEF TunesInv, Told, TellsOf, CommittedTold
<1> QED BY <1>1, <1>2, <1>3, PTL DEF Spec

-----------------------------------------------------------------------------
(* What is in force on a knob, or as the prompt, while nothing disturbs it. *)

On(h, k) == handler[h].pc # "idle" /\ handler[h].knob = k
Rows(k)  == {id \in DOMAIN proposals : proposals[id].knob = k}

\* A handler works on the knob of its proposal, and only tunes are reverted.
OnItsKnob(w) ==
    /\ w.pc \in {"apply", "event", "status", "delete", "unmark"} =>
          w.id \in Rows(w.knob)
    /\ w.pc \in {"insert", "apply", "event", "status"} => w.knob \in Targets
    /\ w.pc \in {"delete", "unmark"} => w.knob \in Knobs

Works ==
    /\ override \in [Knobs -> Nat] /\ prompts \in Seq(Nat)
    /\ \A h \in Handlers : OnItsKnob(handler[h])

\* No two handlers work on k, ...
Alone(k) == \A g \in Handlers, h \in Handlers : On(g, k) /\ On(h, k) => g = h

\* ... what the handler on k goes on from is as it read or wrote it, ...
Applied(k, id) ==
    /\ k \in Knobs => override[k] = id
    /\ k = Prompt  => Range(prompts) = Of(k, "committed") \cup {id}

AsLeft(k, w) ==
    /\ w.pc \in {"apply", "event", "status"} => w.id \in Of(k, "pending")
    /\ w.pc \in {"event", "status"} => Applied(k, w.id)
    /\ w.pc = "unmark" => override[k] = 0

\* ... and what is in force is what was committed, but for the moment in
\* which a handler has written one of the two and not yet the other.
InPlace(k) ==
    /\ k \in Knobs => override[k] \in {0} \cup Of(k, "committed")
    /\ k = Prompt  => Range(prompts) = Of(k, "committed")

HalfWay(w) == w.pc \in {"event", "status", "unmark"}

Orderly(k) ==
    /\ Alone(k)
    /\ \A h \in Handlers : On(h, k) => AsLeft(k, handler[h])
    /\ (\A h \in Handlers : On(h, k) => ~HalfWay(handler[h])) => InPlace(k)
    /\ k = Prompt => IsInjective(prompts)

ForceInv == Works /\ \A k \in Targets \ disturbed : Orderly(k)

LEMMA WorksStep ==
    ASSUME TunesInv, Works, NEW h \in Handlers, NEW w \in Work, OnItsKnob(w),
           handler' = [handler EXCEPT ![h] = w],
           \A k : Rows(k) \subseteq Rows(k)',
           override' \in [Knobs -> Nat], prompts' \in Seq(Nat)
    PROVE  Works'
<1>1. handler'[h] = w /\ \A g \in Handlers : g # h => handler'[g] = handler[g]
  BY DEF TunesInv, TunesType
<1>2. \A g \in Handlers : OnItsKnob(handler'[g]) BY <1>1 DEF Works
<1>3. \A u : OnItsKnob(u) => (u.pc \in {"apply", "event", "status", "delete", "unmark"}
                                => u.id \in Rows(u.knob)')
  BY DEF OnItsKnob
<1>4. \A g \in Handlers : OnItsKnob(handler[g])'
  BY <1>2, <1>3 DEF OnItsKnob
<1> QED BY <1>4 DEF Works

\* A step of a handler that works elsewhere.
LEMMA Elsewhere ==
    ASSUME NEW k, Orderly(k), NEW h \in Handlers, ~On(h, k), ~On(h, k)',
           \A g \in Handlers : g # h => handler'[g] = handler[g],
           Rows(k)' = Rows(k), Of(k, "pending")' = Of(k, "pending"),
           Of(k, "committed")' = Of(k, "committed"),
           k \in Knobs => override'[k] = override[k],
           k = Prompt => prompts' = prompts,
           \A g \in Handlers : On(g, k) => (handler[g].pc = "unmark" => k \in Knobs)
    PROVE  Orderly(k)'
<1>1. \A g \in Handlers : (On(g, k)' <=> On(g, k)) /\ (On(g, k) => handler'[g] = handler[g])
  BY DEF On
<1>2. Alone(k)' BY <1>1 DEF Alone, Orderly
<1>4. ASSUME NEW g \in Handlers, On(g, k)' PROVE AsLeft(k, handler[g])'
  <2>1. On(g, k) /\ handler'[g] = handler[g] BY <1>1, <1>4
  <2>2. AsLeft(k, handler[g]) BY <2>1 DEF Orderly
  <2> QED BY <2>1, <2>2 DEF AsLeft, Applied
<1>5. (\A g \in Handlers : On(g, k)' => ~HalfWay(handler'[g])) => InPlace(k)'
  BY <1>1 DEF Orderly, InPlace
<1>6. k = Prompt => IsInjective(prompts)' BY DEF Orderly, IsInjective
<1> QED BY <1>2, <1>4, <1>5, <1>6 DEF Orderly, HalfWay

\* A step of the only handler on k.
LEMMA Here ==
    ASSUME NEW k, NEW h \in Handlers,
           \A g \in Handlers : g # h => handler'[g] = handler[g] /\ ~On(g, k),
           On(h, k)' => AsLeft(k, handler[h])',
           (On(h, k)' /\ HalfWay(handler'[h])) \/ InPlace(k)',
           k = Prompt => IsInjective(prompts)'
    PROVE  Orderly(k)'
<1>1. \A g \in Handlers : g # h => ~On(g, k)' BY DEF On
<1>2. Alone(k)' BY <1>1 DEF Alone
<1> QED BY <1>1, <1>2 DEF Orderly, HalfWay

\* A handler begins, with nobody else on its knob or the knob disturbed.
LEMMA BeginForce ==
    ASSUME TunesInv, ForceInv, NEW h \in Handlers, NEW w \in Work,
           handler[h].pc = "idle", handler' = [handler EXCEPT ![h] = w],
           UNCHANGED <<proposals, override, prompts>>, Meet(w.knob),
           w.pc \in {"insert", "apply", "delete"}, OnItsKnob(w), w.knob \in Targets,
           w.pc = "apply" => w.id \in Of(w.knob, "pending")
    PROVE  ForceInv'
<1>1. /\ \A k : Rows(k)' = Rows(k)
      /\ \A k, status : Of(k, status)' = Of(k, status)
  BY DEF Rows, Of
<1>2. handler'[h] = w /\ \A g \in Handlers : g # h => handler'[g] = handler[g]
  BY DEF TunesInv, TunesType
<1>3. Works' BY <1>1, WorksStep DEF ForceInv, Works
<1>4. ASSUME NEW k \in Targets \ disturbed' PROVE Orderly(k)'
  <2>1. k \notin disturbed /\ Orderly(k) BY <1>4 DEF Meet, ForceInv
  <2>2. CASE k # w.knob
    <3>1. ~On(h, k) /\ ~On(h, k)' BY <1>2, <2>2 DEF On
    <3>2. \A g \in Handlers : On(g, k) => (handler[g].pc = "unmark" => k \in Knobs)
      BY DEF ForceInv, Works, OnItsKnob, On
    <3> QED BY <1>1, <1>2, <2>1, <3>1, <3>2, Elsewhere
  <2>3. CASE k = w.knob
    <3>1. ~Busy(k) BY <1>4, <2>3 DEF Meet
    <3>2. \A g \in Handlers : ~On(g, k) BY <3>1 DEF Busy, On
    <3>3. InPlace(k)' BY <1>1, <2>1, <3>2 DEF Orderly, InPlace
    <3>5. AsLeft(k, handler[h])' BY <1>1, <1>2, <2>3 DEF AsLeft
    <3>6. k = Prompt => IsInjective(prompts)' BY <2>1 DEF Orderly, IsInjective
    <3> QED BY <1>2, <3>2, <3>3, <3>5, <3>6, Here
  <2> QED BY <2>2, <2>3
<1> QED BY <1>3, <1>4 DEF ForceInv

\* A handler at work goes on, or ends: it is alone on its knob unless that is
\* disturbed, so the others see nothing of it.
LEMMA ServeForce ==
    ASSUME TunesInv, ForceInv, NEW h \in Handlers, NEW w \in Work,
           handler' = [handler EXCEPT ![h] = w], OnItsKnob(w),
           w.pc = "idle" \/ w.knob = handler[h].knob,
           disturbed \subseteq disturbed',
           \A k : Rows(k) \subseteq Rows(k)',
           override' \in [Knobs -> Nat], prompts' \in Seq(Nat),
           \A k \in Targets : k # handler[h].knob =>
              /\ Rows(k)' = Rows(k)
              /\ Of(k, "pending")' = Of(k, "pending")
              /\ Of(k, "committed")' = Of(k, "committed")
              /\ k \in Knobs => override'[k] = override[k]
              /\ k = Prompt => prompts' = prompts,
           ASSUME NEW k \in Targets \ disturbed', k = handler[h].knob, Orderly(k),
                  handler[h].pc # "idle" => AsLeft(k, handler[h]),
                  handler[h].pc # "idle" /\ ~HalfWay(handler[h]) => InPlace(k)
           PROVE  /\ w.pc # "idle" => AsLeft(k, w)'
                  /\ (w.pc # "idle" /\ HalfWay(w)) \/ InPlace(k)'
                  /\ k = Prompt => IsInjective(prompts)',
           handler[h].pc # "idle"
    PROVE  ForceInv'
<1>2. handler'[h] = w /\ \A g \in Handlers : g # h => handler'[g] = handler[g]
  BY DEF TunesInv, TunesType
<1>3. Works' BY WorksStep DEF ForceInv
<1>4. ASSUME NEW k \in Targets \ disturbed' PROVE Orderly(k)'
  <2>1. k \notin disturbed /\ Orderly(k) BY <1>4 DEF ForceInv
  <2>2. CASE k # handler[h].knob
    <3>1. ~On(h, k) /\ ~On(h, k)' BY <1>2, <2>2 DEF On
    <3>2. \A g \in Handlers : On(g, k) => (handler[g].pc = "unmark" => k \in Knobs)
      BY DEF ForceInv, Works, OnItsKnob, On
    <3> QED BY <1>2, <2>1, <2>2, <3>1, <3>2, Elsewhere
  <2>3. CASE k = handler[h].knob
    <3>1. On(h, k) BY <2>3 DEF On
    <3>2. \A g \in Handlers : g # h => ~On(g, k) BY <2>1, <3>1 DEF Orderly, Alone
    <3>3. AsLeft(k, handler[h]) BY <2>1, <3>1 DEF Orderly
    <3>4. ~HalfWay(handler[h]) => InPlace(k) BY <2>1, <3>2 DEF Orderly
    <3>5. /\ w.pc # "idle" => AsLeft(k, w)'
          /\ (w.pc # "idle" /\ HalfWay(w)) \/ InPlace(k)'
          /\ k = Prompt => IsInjective(prompts)'
      BY <1>4, <2>1, <2>3, <3>3, <3>4
    <3>6. On(h, k)' <=> w.pc # "idle" BY <1>2, <2>3 DEF On
    <3>7. On(h, k)' => AsLeft(k, handler[h])' BY <1>2, <3>5, <3>6 DEF AsLeft
    <3> QED BY <1>2, <3>2, <3>5, <3>6, <3>7, Here
  <2> QED BY <2>2, <2>3
<1> QED BY <1>3, <1>4 DEF ForceInv

LEMMA BeginsForce ==
    ASSUME TunesInv, ForceInv, NEW h \in Handlers,
           \/ \E k \in Knobs : ProposeTune(h, k) \/ ProposeUnread(h, k)
           \/ ProposePrompt(h)
           \/ \E id \in Ids : BeginCommit(h, id) \/ BeginRevert(h, id)
    PROVE  ForceInv'
<1>0. now \in Nat /\ Idle \in Work /\ proposals \in Seq(Row)
  BY IdleIsWork DEF TunesInv, TunesType
<1>1. ASSUME NEW k \in Knobs, ProposeTune(h, k) \/ ProposeUnread(h, k) PROVE ForceInv'
  <2>1. [Idle EXCEPT !.pc = "insert", !.knob = k, !.at = now] \in Work
    BY <1>0 DEF Work, Steps, Targets
  <2>2. PICK w \in Work : w = [Idle EXCEPT !.pc = "insert", !.knob = k, !.at = now]
    BY <2>1
  <2>3. w.pc = "insert" /\ w.knob = k BY <1>0, <2>2 DEF Work
  <2>4. /\ handler' = [handler EXCEPT ![h] = w] /\ handler[h].pc = "idle" /\ Meet(k)
        /\ UNCHANGED <<proposals, override, prompts>>
    BY <1>1, <2>2 DEF ProposeTune, ProposeUnread, Propose, Goes
  <2>6. OnItsKnob(w) BY <2>3 DEF OnItsKnob, Targets
  <2> QED BY <2>3, <2>4, <2>6, BeginForce DEF Targets
<1>2. CASE ProposePrompt(h)
  <2>1. [Idle EXCEPT !.pc = "insert", !.knob = Prompt, !.at = now] \in Work
    BY <1>0 DEF Work, Steps, Targets
  <2>2. PICK w \in Work : w = [Idle EXCEPT !.pc = "insert", !.knob = Prompt, !.at = now]
    BY <2>1
  <2>3. w.pc = "insert" /\ w.knob = Prompt BY <1>0, <2>2 DEF Work
  <2>4. /\ handler' = [handler EXCEPT ![h] = w] /\ handler[h].pc = "idle" /\ Meet(Prompt)
        /\ UNCHANGED <<proposals, override, prompts>>
    BY <1>2, <2>2 DEF ProposePrompt, Propose, Goes
  <2>5. OnItsKnob(w) BY <2>3 DEF OnItsKnob, Targets
  <2> QED BY <2>3, <2>4, <2>5, TunesAssumption, BeginForce DEF Targets
<1>3. ASSUME NEW id \in Ids, BeginCommit(h, id) PROVE ForceInv'
  <2>0. /\ id \in DOMAIN proposals /\ proposals[id].status = "pending"
        /\ handler[h].pc = "idle"
        /\ handler' = [handler EXCEPT ![h] = [Idle EXCEPT !.pc = "apply",
                          !.knob = proposals[id].knob, !.id = id, !.at = now]]
        /\ Meet(proposals[id].knob) /\ UNCHANGED <<proposals, override, prompts>>
    BY <1>3, Zenon DEF BeginCommit, Goes
  <2>1. proposals[id] \in Row /\ id \in Nat BY <1>0, <2>0
  <2>2. [Idle EXCEPT !.pc = "apply", !.knob = proposals[id].knob, !.id = id,
                     !.at = now] \in Work
    BY <1>0, <2>1 DEF Work, Steps, Row
  <2>3. PICK w \in Work : w = [Idle EXCEPT !.pc = "apply", !.knob = proposals[id].knob,
                                           !.id = id, !.at = now]
    BY <2>2
  <2>4. w.pc = "apply" /\ w.knob = proposals[id].knob /\ w.id = id
    BY <1>0, <2>3 DEF Work
  <2>5. w.knob \in Targets BY <2>1, <2>4 DEF Row
  <2>6. w.id \in Of(w.knob, "pending") /\ w.id \in Rows(w.knob)
    BY <2>0, <2>4 DEF Of, Rows
  <2>7. OnItsKnob(w) BY <2>4, <2>5, <2>6 DEF OnItsKnob
  <2>8. handler' = [handler EXCEPT ![h] = w] /\ Meet(w.knob) BY <2>0, <2>3, <2>4
  <2> QED BY <2>0, <2>4, <2>5, <2>6, <2>7, <2>8, BeginForce
<1>4. ASSUME NEW id \in Ids, BeginRevert(h, id) PROVE ForceInv'
  <2>0. /\ id \in DOMAIN proposals /\ proposals[id].knob \in Knobs
        /\ handler[h].pc = "idle"
        /\ handler' = [handler EXCEPT ![h] = [Idle EXCEPT !.pc = "delete",
                          !.knob = proposals[id].knob, !.id = id,
                          !.event = proposals[id].event]]
        /\ Meet(proposals[id].knob) /\ UNCHANGED <<proposals, override, prompts>>
    BY <1>4, Zenon DEF BeginRevert, Goes
  <2>1. proposals[id] \in Row /\ id \in Nat BY <1>0, <2>0
  <2>2. [Idle EXCEPT !.pc = "delete", !.knob = proposals[id].knob, !.id = id,
                     !.event = proposals[id].event] \in Work
    BY <1>0, <2>1 DEF Work, Steps, Row
  <2>3. PICK w \in Work : w = [Idle EXCEPT !.pc = "delete", !.knob = proposals[id].knob,
                                           !.id = id, !.event = proposals[id].event]
    BY <2>2
  <2>4. w.pc = "delete" /\ w.knob = proposals[id].knob /\ w.id = id
    BY <1>0, <2>3 DEF Work
  <2>5. w.knob \in Knobs /\ w.id \in Rows(w.knob) BY <2>0, <2>4 DEF Rows
  <2>6. OnItsKnob(w) BY <2>4, <2>5 DEF OnItsKnob
  <2>7. handler' = [handler EXCEPT ![h] = w] /\ Meet(w.knob) BY <2>0, <2>3, <2>4
  <2> QED BY <2>0, <2>4, <2>5, <2>6, <2>7, BeginForce DEF Targets
<1> QED BY <1>1, <1>2, <1>3, <1>4

\* The tables of proposals, overrides and prompts stay.
LEMMA SameTables ==
    ASSUME UNCHANGED <<proposals, override, prompts>>
    PROVE  /\ \A k : Rows(k)' = Rows(k)
           /\ \A k, status : Of(k, status)' = Of(k, status)
           /\ \A k : InPlace(k)' <=> InPlace(k)
           /\ \A k, id : Applied(k, id)' <=> Applied(k, id)
  BY DEF Rows, Of, InPlace, Applied

\* A handler tells, publishes, gives up or ends without a word to the tables.
LEMMA QuietForce ==
    ASSUME TunesInv, ForceInv, NEW h \in Handlers, NEW w \in Work,
           handler[h].pc # "idle", handler' = [handler EXCEPT ![h] = w],
           UNCHANGED <<proposals, override, prompts>>, disturbed \subseteq disturbed',
           \/ /\ handler[h].pc = "event" /\ w.pc = "status"
              /\ w.knob = handler[h].knob /\ w.id = handler[h].id
           \/ w.pc = "idle" /\ (HalfWay(handler[h]) => handler[h].knob \in disturbed')
    PROVE  ForceInv'
<1>1. OnItsKnob(handler[h]) BY DEF ForceInv, Works
<1>2. OnItsKnob(w) BY <1>1 DEF OnItsKnob
<1>3. override' \in [Knobs -> Nat] /\ prompts' \in Seq(Nat) BY DEF ForceInv, Works
<1>4. /\ \A k : Rows(k) \subseteq Rows(k)'
      /\ \A k \in Targets : k # handler[h].knob =>
              /\ Rows(k)' = Rows(k)
              /\ Of(k, "pending")' = Of(k, "pending")
              /\ Of(k, "committed")' = Of(k, "committed")
              /\ k \in Knobs => override'[k] = override[k]
              /\ k = Prompt => prompts' = prompts
  BY SameTables
<1>5. ASSUME NEW k \in Targets \ disturbed', k = handler[h].knob, Orderly(k),
             handler[h].pc # "idle" => AsLeft(k, handler[h]),
             handler[h].pc # "idle" /\ ~HalfWay(handler[h]) => InPlace(k)
      PROVE  /\ w.pc # "idle" => AsLeft(k, w)'
             /\ (w.pc # "idle" /\ HalfWay(w)) \/ InPlace(k)'
             /\ k = Prompt => IsInjective(prompts)'
  <2>2. w.pc # "idle" => AsLeft(k, w)' BY <1>5, SameTables DEF AsLeft
  <2>3. (w.pc # "idle" /\ HalfWay(w)) \/ InPlace(k)' BY <1>5, SameTables DEF HalfWay
  <2>4. k = Prompt => IsInjective(prompts)' BY <1>5 DEF Orderly, IsInjective
  <2> QED BY <2>2, <2>3, <2>4
<1>6. w.pc = "idle" \/ w.knob = handler[h].knob OBVIOUS
<1> QED BY <1>2, <1>3, <1>4, <1>5, <1>6, ServeForce

LEMMA QuietSteps ==
    ASSUME TunesInv, ForceInv, NEW h \in Handlers,
           TellEvent(h) \/ Publish(h) \/ GiveUp(h)
    PROVE  ForceInv'
<1>0. handler[h] \in Work /\ Len(events) \in Nat BY DEF TunesInv, TunesType
<1>1. CASE TellEvent(h)
  <2> DEFINE n == Len(events) + 1
  <2>0. n \in Nat BY <1>0
  <2>1. /\ handler[h].pc = "event" /\ UNCHANGED <<proposals, override, prompts, disturbed>>
        /\ handler' = [handler EXCEPT ![h] = [handler[h] EXCEPT !.pc = "status", !.event = n]]
    BY <1>1 DEF TellEvent, ghosts
  <2> HIDE DEF n
  <2>2. [handler[h] EXCEPT !.pc = "status", !.event = n] \in Work
    BY <1>0, <2>0 DEF Work, Steps
  <2>3. PICK w \in Work : w = [handler[h] EXCEPT !.pc = "status", !.event = n] BY <2>2
  <2>4. w.pc = "status" /\ w.knob = handler[h].knob /\ w.id = handler[h].id
    BY <1>0, <2>3 DEF Work
  <2> QED BY <2>1, <2>3, <2>4, QuietForce
<1>2. CASE Publish(h)
  <2>1. /\ handler[h].pc = "publish" /\ UNCHANGED <<proposals, override, prompts, disturbed>>
        /\ handler' = [handler EXCEPT ![h] = Idle]
    BY <1>2 DEF Publish, Ends, ghosts
  <2>2. PICK w \in Work : w = Idle /\ w.pc = "idle" BY IdleIsWork
  <2> QED BY <2>1, <2>2, QuietForce DEF HalfWay
<1>3. CASE GiveUp(h)
  <2>1. /\ handler[h].pc # "idle" /\ UNCHANGED <<proposals, override, prompts>>
        /\ handler' = [handler EXCEPT ![h] = Idle]
        /\ disturbed \subseteq disturbed'
        /\ HalfWay(handler[h]) => handler[h].knob \in disturbed'
    BY <1>3 DEF GiveUp, Ends, HalfWay
  <2>2. PICK w \in Work : w = Idle /\ w.pc = "idle" BY IdleIsWork
  <2> QED BY <2>1, <2>2, QuietForce
<1> QED BY <1>1, <1>2, <1>3

\* commit_site_change works on no knob.
LEMMA SiteForce ==
    ASSUME TunesInv, ForceInv, NEW h \in Handlers, CommitSite(h)
    PROVE  ForceInv'
<1> DEFINE n == Len(events) + 1
<1>0. Len(events) \in Nat /\ n \in Nat BY DEF TunesInv, TunesType
<1>1. /\ handler[h].pc = "idle" /\ UNCHANGED <<proposals, override, prompts, disturbed>>
      /\ handler' = [handler EXCEPT ![h] = [Idle EXCEPT !.pc = "publish", !.event = n]]
  BY DEF CommitSite, Goes, ghosts
<1> HIDE DEF n
<1>2. [Idle EXCEPT !.pc = "publish", !.event = n] \in Work
  BY <1>0, IdleIsWork DEF Work, Steps
<1>3. PICK w \in Work : w = [Idle EXCEPT !.pc = "publish", !.event = n] BY <1>2
<1>4. w.pc = "publish" /\ w.knob = None BY <1>3, IdleIsWork DEF Idle
<1>5. OnItsKnob(w) BY <1>4 DEF OnItsKnob
<1>6. Works' BY <1>1, <1>3, <1>5, SameTables, WorksStep DEF ForceInv, Works
<1>7. handler'[h] = w /\ \A g \in Handlers : g # h => handler'[g] = handler[g]
  BY <1>1, <1>3 DEF TunesInv, TunesType
<1>8. ASSUME NEW k \in Targets \ disturbed' PROVE Orderly(k)'
  <2>1. Orderly(k) BY <1>1, <1>8 DEF ForceInv
  <2>2. ~On(h, k) /\ ~On(h, k)' BY <1>1, <1>4, <1>7, TunesAssumption DEF On, Targets
  <2>3. \A g \in Handlers : On(g, k) => (handler[g].pc = "unmark" => k \in Knobs)
    BY DEF ForceInv, Works, OnItsKnob, On
  <2> QED BY <1>1, <1>7, <2>1, <2>2, <2>3, SameTables, Elsewhere
<1> QED BY <1>6, <1>8 DEF ForceInv

LEMMA InsertForce ==
    ASSUME TunesInv, ForceInv, NEW h \in Handlers, InsertProposal(h)
    PROVE  ForceInv'
<1>0. PICK kh : kh = handler[h].knob OBVIOUS
<1> DEFINE row == [knob |-> kh, status |-> "pending", at |-> handler[h].at,
                   decided |-> None, event |-> 0]
           n   == Len(proposals) + 1
<1>1. /\ handler[h].pc = "insert" /\ proposals' = Append(proposals, row)
      /\ handler' = [handler EXCEPT ![h] = Idle]
      /\ UNCHANGED <<override, prompts, disturbed>>
  BY <1>0 DEF InsertProposal, Ends, ghosts
<1>2. row \in Row /\ row.status = "pending" /\ row.knob = kh
  <2>1. handler[h] \in Work /\ handler[h].pc = "insert" BY <1>1 DEF TunesInv, TunesType
  <2>2. kh \in Targets BY <1>0, <1>1 DEF TunesInv, HandlersHold, Holds
  <2> QED BY <2>1, <2>2 DEF Row, Work, Statuses
<1> HIDE DEF row
<1>3. /\ DOMAIN proposals' = DOMAIN proposals \cup {n} /\ n \notin DOMAIN proposals
      /\ proposals'[n] = row /\ \A i \in DOMAIN proposals : proposals'[i] = proposals[i]
      /\ n \in Nat /\ \A i \in DOMAIN proposals : i < n
  BY <1>1, <1>2 DEF TunesInv, TunesType
<1> HIDE DEF n
<1>4. /\ Rows(kh)' = Rows(kh) \cup {n}
      /\ Of(kh, "pending")' = Of(kh, "pending") \cup {n}
      /\ Of(kh, "committed")' = Of(kh, "committed")
      /\ \A k : k # kh => /\ Rows(k)' = Rows(k)
                          /\ Of(k, "pending")' = Of(k, "pending")
                          /\ Of(k, "committed")' = Of(k, "committed")
  <2>1. \A k : /\ Rows(k)' = {i \in DOMAIN proposals \cup {n} : proposals'[i].knob = k}
               /\ \A status : Of(k, status)' = {i \in DOMAIN proposals \cup {n} :
                                                  /\ proposals'[i].knob = k
                                                  /\ proposals'[i].status = status}
    BY <1>3 DEF Rows, Of
  <2> QED BY <1>2, <1>3, <2>1 DEF Rows, Of
<1>5. PICK w \in Work : w = Idle /\ w.pc = "idle" BY IdleIsWork
<1>6. OnItsKnob(w) BY <1>5 DEF OnItsKnob
<1>7. ASSUME NEW k \in Targets \ disturbed', k = handler[h].knob, Orderly(k),
             handler[h].pc # "idle" => AsLeft(k, handler[h]),
             handler[h].pc # "idle" /\ ~HalfWay(handler[h]) => InPlace(k)
      PROVE  /\ w.pc # "idle" => AsLeft(k, w)'
             /\ (w.pc # "idle" /\ HalfWay(w)) \/ InPlace(k)'
             /\ k = Prompt => IsInjective(prompts)'
  <2>4. InPlace(k) BY <1>1, <1>7 DEF HalfWay
  <2>5. InPlace(k)' BY <1>0, <1>1, <1>4, <1>7, <2>4 DEF InPlace
  <2>6. k = Prompt => IsInjective(prompts)' BY <1>1, <1>7 DEF Orderly, IsInjective
  <2> QED BY <1>5, <2>5, <2>6
<1>8. \A k : Rows(k) \subseteq Rows(k)' BY <1>4
<1>9. override' \in [Knobs -> Nat] /\ prompts' \in Seq(Nat) BY <1>1 DEF ForceInv, Works
<1>10. disturbed \subseteq disturbed' /\ handler' = [handler EXCEPT ![h] = w]
       /\ handler[h].pc # "idle"
  BY <1>1, <1>5
<1>11. \A k \in Targets : k # handler[h].knob =>
              /\ Rows(k)' = Rows(k)
              /\ Of(k, "pending")' = Of(k, "pending")
              /\ Of(k, "committed")' = Of(k, "committed")
              /\ k \in Knobs => override'[k] = override[k]
              /\ k = Prompt => prompts' = prompts
  BY <1>0, <1>1, <1>4
<1> QED BY <1>5, <1>6, <1>7, <1>8, <1>9, <1>10, <1>11, ServeForce

\* A handler writes what is in force and has not marked the proposal yet.
LEMMA WriteForce ==
    ASSUME TunesInv, ForceInv, NEW h \in Handlers,
           ApplyOverride(h) \/ AppendPrompt(h) \/ DeleteOverride(h)
    PROVE  ForceInv'
<1>0. PICK kh : kh = handler[h].knob OBVIOUS
<1>1. PICK id : id = handler[h].id OBVIOUS
<1>2. /\ handler[h] \in Work /\ OnItsKnob(handler[h]) /\ id \in Nat
      /\ override \in [Knobs -> Nat] /\ prompts \in Seq(Nat)
  BY <1>1 DEF TunesInv, TunesType, ForceInv, Works, Work
<1>3. UNCHANGED <<proposals, disturbed>> /\ handler[h].pc # "idle"
  BY DEF ApplyOverride, AppendPrompt, DeleteOverride, ghosts
<1>4. /\ \A k : Rows(k)' = Rows(k)
      /\ \A k, status : Of(k, status)' = Of(k, status)
  BY <1>3 DEF Rows, Of
<1>6. CASE ApplyOverride(h)
  <2>1. /\ handler[h].pc = "apply" /\ kh \in Knobs /\ UNCHANGED prompts
        /\ override' = [override EXCEPT ![kh] = id] /\ Next_(h, "event")
    BY <1>0, <1>1, <1>6 DEF ApplyOverride
  <2>2. PICK w \in Work : /\ handler' = [handler EXCEPT ![h] = w] /\ w.pc = "event"
                          /\ w.id = id /\ w.knob = kh
    BY <1>0, <1>1, <2>1, WorkGoes DEF Steps, TunesInv
  <2>3. OnItsKnob(w) BY <1>0, <1>1, <1>2, <2>1, <2>2 DEF OnItsKnob
  <2>4. override' \in [Knobs -> Nat] /\ override'[kh] = id
        /\ \A k \in Knobs : k # kh => override'[k] = override[k]
    BY <1>2, <2>1
  <2>5. ASSUME NEW k \in Targets \ disturbed', k = handler[h].knob, Orderly(k),
               handler[h].pc # "idle" => AsLeft(k, handler[h]),
               handler[h].pc # "idle" /\ ~HalfWay(handler[h]) => InPlace(k)
        PROVE  /\ w.pc # "idle" => AsLeft(k, w)'
               /\ (w.pc # "idle" /\ HalfWay(w)) \/ InPlace(k)'
               /\ k = Prompt => IsInjective(prompts)'
    <3>1. k = kh /\ k # Prompt BY <1>0, <2>1, <2>5, TunesAssumption
    <3>3. id \in Of(k, "pending") BY <1>1, <1>3, <2>1, <2>5 DEF AsLeft
    <3>4. AsLeft(k, w)' BY <1>4, <2>2, <2>4, <3>1, <3>3 DEF AsLeft, Applied
    <3> QED BY <2>2, <3>1, <3>4 DEF HalfWay
  <2> QED BY <1>0, <1>2, <1>3, <1>4, <2>1, <2>2, <2>3, <2>4, <2>5, ServeForce
<1>7. CASE AppendPrompt(h)
  <2>1. /\ handler[h].pc = "apply" /\ kh = Prompt /\ UNCHANGED override
        /\ prompts' = Append(prompts, id) /\ Next_(h, "event")
    BY <1>0, <1>1, <1>7 DEF AppendPrompt
  <2>2. PICK w \in Work : /\ handler' = [handler EXCEPT ![h] = w] /\ w.pc = "event"
                          /\ w.id = id /\ w.knob = kh
    <3>1. "event" \in Steps /\ TunesType BY DEF Steps, TunesInv
    <3>2. Next_(h, "event") BY <2>1
    <3>3. PICK w \in Work : /\ handler' = [handler EXCEPT ![h] = w] /\ w.pc = "event"
                            /\ w.id = handler[h].id /\ w.knob = handler[h].knob
      BY <3>1, <3>2, WorkGoes
    <3> QED BY <1>0, <1>1, <3>3
  <2>3. OnItsKnob(w) BY <1>0, <1>1, <1>2, <2>1, <2>2 DEF OnItsKnob, Targets
  <2>4. /\ prompts' \in Seq(Nat) /\ Len(prompts) \in Nat
        /\ DOMAIN prompts' = DOMAIN prompts \cup {Len(prompts) + 1}
        /\ prompts'[Len(prompts) + 1] = id
        /\ \A i \in DOMAIN prompts : prompts'[i] = prompts[i]
    BY <1>2, <2>1
  <2>5. Range(prompts)' = Range(prompts) \cup {id} BY <2>4 DEF Range
  <2>6. ASSUME NEW k \in Targets \ disturbed', k = handler[h].knob, Orderly(k),
               handler[h].pc # "idle" => AsLeft(k, handler[h]),
               handler[h].pc # "idle" /\ ~HalfWay(handler[h]) => InPlace(k)
        PROVE  /\ w.pc # "idle" => AsLeft(k, w)'
               /\ (w.pc # "idle" /\ HalfWay(w)) \/ InPlace(k)'
               /\ k = Prompt => IsInjective(prompts)'
    <3>1. k = Prompt /\ k \notin Knobs BY <1>0, <2>1, <2>6, TunesAssumption
    <3>3. id \in Of(k, "pending") BY <1>1, <1>3, <2>1, <2>6 DEF AsLeft
    <3>4. Range(prompts) = Of(k, "committed")
      BY <2>1, <2>6, <3>1 DEF InPlace, HalfWay
    <3>5. AsLeft(k, w)'
      BY <1>4, <2>2, <2>5, <3>1, <3>3, <3>4 DEF AsLeft, Applied
    <3>6. id \notin Range(prompts) BY <3>3, <3>4 DEF Of
    <3>7. \A i \in DOMAIN prompts : prompts[i] # id BY <3>6 DEF Range
    <3>8. IsInjective(prompts) BY <2>6, <3>1 DEF Orderly
    <3>9. IsInjective(prompts)' BY <2>4, <3>7, <3>8 DEF IsInjective
    <3> QED BY <2>2, <3>5, <3>9 DEF HalfWay
  <2>7. \A k \in Targets : k # handler[h].knob => k # Prompt BY <1>0, <2>1
  <2> QED BY <1>0, <1>2, <1>3, <1>4, <2>1, <2>2, <2>3, <2>4, <2>6, <2>7, ServeForce
<1>8. CASE DeleteOverride(h)
  <2>1. /\ handler[h].pc = "delete" /\ UNCHANGED prompts
        /\ override' = [override EXCEPT ![kh] = 0] /\ Next_(h, "unmark")
    BY <1>0, <1>8 DEF DeleteOverride
  <2>2. PICK w \in Work : /\ handler' = [handler EXCEPT ![h] = w] /\ w.pc = "unmark"
                          /\ w.id = id /\ w.knob = kh
    BY <1>0, <1>1, <2>1, WorkGoes DEF Steps, TunesInv
  <2>3. OnItsKnob(w) /\ kh \in Knobs BY <1>0, <1>1, <1>2, <2>1, <2>2 DEF OnItsKnob
  <2>4. override' \in [Knobs -> Nat] /\ override'[kh] = 0
        /\ \A k \in Knobs : k # kh => override'[k] = override[k]
    BY <1>2, <2>1, <2>3
  <2>5. ASSUME NEW k \in Targets \ disturbed', k = handler[h].knob, Orderly(k),
               handler[h].pc # "idle" => AsLeft(k, handler[h]),
               handler[h].pc # "idle" /\ ~HalfWay(handler[h]) => InPlace(k)
        PROVE  /\ w.pc # "idle" => AsLeft(k, w)'
               /\ (w.pc # "idle" /\ HalfWay(w)) \/ InPlace(k)'
               /\ k = Prompt => IsInjective(prompts)'
    <3>1. k = kh /\ k # Prompt BY <1>0, <2>3, <2>5, TunesAssumption
    <3>3. AsLeft(k, w)' BY <2>2, <2>4, <3>1 DEF AsLeft
    <3> QED BY <2>2, <3>1, <3>3 DEF HalfWay
  <2> QED BY <1>0, <1>2, <1>3, <1>4, <2>1, <2>2, <2>3, <2>4, <2>5, ServeForce
<1> QED BY <1>6, <1>7, <1>8

\* What a mark does to the rows of a knob (update_proposal_status).
LEMMA MarkedSets ==
    ASSUME TunesInv, NEW id \in DOMAIN proposals, NEW status \in Statuses,
           NEW at, NEW event, UpdateStatus(id, status, at, event)
    PROVE  /\ \A k : Rows(k)' = Rows(k)
           /\ \A k, s : id \notin Rows(k) => Of(k, s)' = Of(k, s)
           /\ \A k, s : id \in Rows(k) =>
                 Of(k, s)' = IF s = status THEN Of(k, s) \cup {id} ELSE Of(k, s) \ {id}
<1>1. proposals \in Seq(Row) /\ proposals[id] \in Row BY DEF TunesInv, TunesType
<1> DEFINE row == [proposals[id] EXCEPT !.status = status, !.decided = at, !.event = event]
<1>2. row.knob = proposals[id].knob /\ row.status = status BY <1>1 DEF Row
<1>3. proposals' = [proposals EXCEPT ![id] = row] BY DEF UpdateStatus
<1> HIDE DEF row
<1>4. /\ DOMAIN proposals' = DOMAIN proposals /\ proposals'[id] = row
      /\ \A i \in DOMAIN proposals : i # id => proposals'[i] = proposals[i]
  BY <1>3
<1>5. \A i \in DOMAIN proposals : proposals'[i].knob = proposals[i].knob BY <1>2, <1>4
<1>6. \A k : Rows(k)' = Rows(k) BY <1>4, <1>5 DEF Rows
<1>7. ASSUME NEW k, NEW s, id \notin Rows(k) PROVE Of(k, s)' = Of(k, s)
  BY <1>4, <1>5, <1>7 DEF Rows, Of
<1>8. ASSUME NEW k, NEW s, id \in Rows(k)
      PROVE  Of(k, s)' = IF s = status THEN Of(k, s) \cup {id} ELSE Of(k, s) \ {id}
  <2>1. CASE s = status BY <1>2, <1>4, <1>5, <1>8, <2>1 DEF Rows, Of
  <2>2. CASE s # status BY <1>2, <1>4, <1>5, <1>8, <2>2 DEF Rows, Of
  <2> QED BY <2>1, <2>2
<1> QED BY <1>6, <1>7, <1>8

\* A handler marks the proposal whose value it wrote or deleted.
LEMMA MarkForce ==
    ASSUME TunesInv, ForceInv, NEW h \in Handlers,
           MarkCommitted(h) \/ MarkReverted(h)
    PROVE  ForceInv'
<1>0. PICK kh : kh = handler[h].knob OBVIOUS
<1>1. PICK id : id = handler[h].id OBVIOUS
<1>2. /\ handler[h] \in Work /\ OnItsKnob(handler[h]) /\ proposals \in Seq(Row)
      /\ override \in [Knobs -> Nat] /\ prompts \in Seq(Nat)
  BY DEF TunesInv, TunesType, ForceInv, Works
<1>3. /\ UNCHANGED <<override, prompts, disturbed>>
      /\ handler[h].pc \in {"status", "unmark"}
  BY DEF MarkCommitted, MarkReverted, ghosts
<1>4. id \in Rows(kh) /\ id \in DOMAIN proposals
  BY <1>0, <1>1, <1>2, <1>3 DEF OnItsKnob, Rows
<1>5. \A k : k # kh => id \notin Rows(k) BY <1>4 DEF Rows
<1>6. CASE MarkCommitted(h)
  <2>1. /\ handler[h].pc = "status" /\ Next_(h, "publish")
        /\ UpdateStatus(id, "committed", handler[h].at, handler[h].event)
    BY <1>1, <1>6 DEF MarkCommitted
  <2>2. PICK w \in Work : /\ handler' = [handler EXCEPT ![h] = w] /\ w.pc = "publish"
                          /\ w.knob = kh
    BY <1>0, <2>1, WorkGoes DEF Steps, TunesInv
  <2>3. OnItsKnob(w) BY <2>2 DEF OnItsKnob
  <2>4. /\ \A k : Rows(k)' = Rows(k)
        /\ \A k, s : id \notin Rows(k) => Of(k, s)' = Of(k, s)
        /\ Of(kh, "committed")' = Of(kh, "committed") \cup {id}
        /\ Of(kh, "pending")' = Of(kh, "pending") \ {id}
    BY <1>4, <2>1, MarkedSets DEF Statuses
  <2>5. ASSUME NEW k \in Targets \ disturbed', k = handler[h].knob, Orderly(k),
               handler[h].pc # "idle" => AsLeft(k, handler[h]),
               handler[h].pc # "idle" /\ ~HalfWay(handler[h]) => InPlace(k)
        PROVE  /\ w.pc # "idle" => AsLeft(k, w)'
               /\ (w.pc # "idle" /\ HalfWay(w)) \/ InPlace(k)'
               /\ k = Prompt => IsInjective(prompts)'
    <3>1. k = kh /\ id \in Of(k, "pending") /\ Applied(k, id)
      BY <1>0, <1>1, <2>1, <2>5 DEF AsLeft
    <3>4. InPlace(k)' BY <1>3, <2>4, <3>1 DEF InPlace, Applied
    <3>5. k = Prompt => IsInjective(prompts)' BY <1>3, <2>5 DEF Orderly, IsInjective
    <3> QED BY <2>2, <3>4, <3>5 DEF AsLeft
  <2>6. /\ \A k : Rows(k) \subseteq Rows(k)'
        /\ \A k \in Targets : k # handler[h].knob =>
              /\ Rows(k)' = Rows(k)
              /\ Of(k, "pending")' = Of(k, "pending")
              /\ Of(k, "committed")' = Of(k, "committed")
              /\ k \in Knobs => override'[k] = override[k]
              /\ k = Prompt => prompts' = prompts
    BY <1>0, <1>3, <1>5, <2>4
  <2> QED BY <1>0, <1>2, <1>3, <2>2, <2>3, <2>5, <2>6, ServeForce
<1>7. CASE MarkReverted(h)
  <2>1. /\ handler[h].pc = "unmark" /\ handler' = [handler EXCEPT ![h] = Idle]
        /\ UpdateStatus(id, "reverted", now, handler[h].event)
    BY <1>1, <1>7 DEF MarkReverted, Ends
  <2>2. PICK w \in Work : w = Idle /\ w.pc = "idle" BY IdleIsWork
  <2>3. OnItsKnob(w) /\ kh \in Knobs BY <1>0, <1>2, <2>1, <2>2 DEF OnItsKnob
  <2>4. /\ \A k : Rows(k)' = Rows(k)
        /\ \A k, s : id \notin Rows(k) => Of(k, s)' = Of(k, s)
        /\ Of(kh, "committed")' = Of(kh, "committed") \ {id}
        /\ Of(kh, "pending")' = Of(kh, "pending") \ {id}
    BY <1>4, <2>1, MarkedSets DEF Statuses
  <2>5. ASSUME NEW k \in Targets \ disturbed', k = handler[h].knob, Orderly(k),
               handler[h].pc # "idle" => AsLeft(k, handler[h]),
               handler[h].pc # "idle" /\ ~HalfWay(handler[h]) => InPlace(k)
        PROVE  /\ w.pc # "idle" => AsLeft(k, w)'
               /\ (w.pc # "idle" /\ HalfWay(w)) \/ InPlace(k)'
               /\ k = Prompt => IsInjective(prompts)'
    <3>1. k = kh /\ k # Prompt /\ override[k] = 0
      BY <1>0, <2>1, <2>3, <2>5, TunesAssumption DEF AsLeft
    <3>3. InPlace(k)' BY <1>3, <3>1 DEF InPlace
    <3> QED BY <2>2, <3>1, <3>3
  <2>6. /\ \A k : Rows(k) \subseteq Rows(k)'
        /\ \A k \in Targets : k # handler[h].knob =>
              /\ Rows(k)' = Rows(k)
              /\ Of(k, "pending")' = Of(k, "pending")
              /\ Of(k, "committed")' = Of(k, "committed")
              /\ k \in Knobs => override'[k] = override[k]
              /\ k = Prompt => prompts' = prompts
    BY <1>0, <1>3, <1>5, <2>4
  <2> QED BY <1>2, <1>3, <2>1, <2>2, <2>3, <2>5, <2>6, ServeForce
<1> QED BY <1>6, <1>7

LEMMA ForceNext == TunesInv /\ ForceInv /\ [Next]_vars => ForceInv'
<1> SUFFICES ASSUME TunesInv, ForceInv, [Next]_vars PROVE ForceInv'
  OBVIOUS
<1>1. CASE Tick \/ UNCHANGED vars
  <2>1. UNCHANGED <<proposals, override, prompts, handler, disturbed>>
    BY <1>1 DEF Tick, vars, ghosts
  <2>2. /\ \A k : Rows(k)' = Rows(k) /\ (InPlace(k)' <=> InPlace(k))
        /\ \A k, status : Of(k, status)' = Of(k, status)
        /\ \A k, id : Applied(k, id)' <=> Applied(k, id)
    BY <2>1, SameTables
  <2>3. \A k, h : On(h, k)' <=> On(h, k) BY <2>1 DEF On
  <2>4. \A k, w : AsLeft(k, w)' <=> AsLeft(k, w) BY <2>1, <2>2 DEF AsLeft
  <2>5. Works' BY <2>1, <2>2 DEF ForceInv, Works, OnItsKnob
  <2>6. ASSUME NEW k \in Targets \ disturbed PROVE Orderly(k)'
    <3>1. Orderly(k) BY <2>6 DEF ForceInv
    <3>2. Alone(k)' BY <2>3, <3>1 DEF Orderly, Alone
    <3>3. \A h \in Handlers : On(h, k)' => AsLeft(k, handler[h])'
      BY <2>1, <2>2, <2>3, <3>1 DEF Orderly, AsLeft
    <3>4. IsInjective(prompts)' <=> IsInjective(prompts) BY <2>1 DEF IsInjective
    <3> QED BY <2>1, <2>2, <2>3, <3>1, <3>2, <3>3, <3>4 DEF Orderly, HalfWay
  <2> QED BY <2>1, <2>5, <2>6 DEF ForceInv
<1>2. ASSUME NEW h \in Handlers, Serve(h) \/ CommitSite(h) \/ GiveUp(h) PROVE ForceInv'
  BY <1>2, QuietSteps, SiteForce, InsertForce, WriteForce, MarkForce DEF Serve
<1>3. ASSUME NEW h \in Handlers,
             \/ \E k \in Knobs : ProposeTune(h, k) \/ ProposeUnread(h, k)
             \/ ProposePrompt(h)
             \/ \E id \in Ids : BeginCommit(h, id) \/ BeginRevert(h, id)
      PROVE  ForceInv'
  BY <1>3, BeginsForce
<1> QED BY <1>1, <1>2, <1>3 DEF Next

LEMMA ForceInit == Init => ForceInv
<1> SUFFICES ASSUME Init PROVE ForceInv
  OBVIOUS
<1>1. \A h \in Handlers : handler[h] = Idle /\ handler[h].pc = "idle"
  BY IdleIsWork DEF Init
<1>2. Works BY <1>1 DEF Init, Works, OnItsKnob
<1>3. ASSUME NEW k \in Targets PROVE Orderly(k)
  <2>1. Of(k, "pending") = {} /\ Of(k, "committed") = {} /\ Range(prompts) = {}
    BY DEF Init, Of, Range
  <2>2. \A h \in Handlers : ~On(h, k) BY <1>1 DEF On
  <2>3. InPlace(k) BY <2>1 DEF Init, InPlace
  <2>4. IsInjective(prompts) BY DEF Init, IsInjective
  <2> QED BY <2>1, <2>2, <2>3, <2>4 DEF Orderly, Alone
<1> QED BY <1>2, <1>3 DEF ForceInv

-----------------------------------------------------------------------------
(* Proposals keep their knob and the time they were made, and none leaves. *)

RowsStay ==
    /\ DOMAIN proposals \subseteq DOMAIN proposals'
    /\ \A i \in DOMAIN proposals : /\ proposals'[i].knob = proposals[i].knob
                                   /\ proposals'[i].at = proposals[i].at

\* A mark leaves the knob and the time (update_proposal_status).
LEMMA MarkStays ==
    ASSUME TunesInv, NEW id \in DOMAIN proposals, NEW status \in Statuses,
           NEW at, NEW event, UpdateStatus(id, status, at, event)
    PROVE  /\ RowsStay /\ DOMAIN proposals' = DOMAIN proposals
           /\ proposals'[id].event = event
           /\ \A i \in DOMAIN proposals : i # id => proposals'[i] = proposals[i]
<1>1. proposals \in Seq(Row) /\ proposals[id] \in Row BY DEF TunesInv, TunesType
<1> DEFINE row == [proposals[id] EXCEPT !.status = status, !.decided = at, !.event = event]
<1>2. row.knob = proposals[id].knob /\ row.at = proposals[id].at /\ row.event = event
  BY <1>1 DEF Row
<1>3. proposals' = [proposals EXCEPT ![id] = row] BY DEF UpdateStatus
<1> HIDE DEF row
<1>4. /\ DOMAIN proposals' = DOMAIN proposals /\ proposals'[id] = row
      /\ \A i \in DOMAIN proposals : i # id => proposals'[i] = proposals[i]
  BY <1>3
<1> QED BY <1>2, <1>4 DEF RowsStay

\* What a handler that inserts adds (insert_tune_proposal).
LEMMA Inserted ==
    ASSUME TunesInv, NEW h \in Handlers, InsertProposal(h)
    PROVE  \E n \in Nat :
             /\ RowsStay /\ DOMAIN proposals' = DOMAIN proposals \cup {n} /\ n # 0
             /\ proposals'[n].knob = handler[h].knob /\ proposals'[n].status = "pending"
             /\ \A i \in DOMAIN proposals : proposals'[i] = proposals[i] /\ i < n
<1> DEFINE row == [knob |-> handler[h].knob, status |-> "pending", at |-> handler[h].at,
                   decided |-> None, event |-> 0]
           n   == Len(proposals) + 1
<1>1. proposals' = Append(proposals, row) BY DEF InsertProposal
<1>2. row.knob = handler[h].knob /\ row.status = "pending" OBVIOUS
<1> HIDE DEF row
<1>3. proposals \in Seq(Row) BY DEF TunesInv, TunesType
<1>4. /\ DOMAIN proposals' = DOMAIN proposals \cup {n} /\ n \in Nat /\ n # 0
      /\ proposals'[n] = row
      /\ \A i \in DOMAIN proposals : proposals'[i] = proposals[i] /\ i < n
  BY <1>1, <1>3
<1> HIDE DEF n
<1> QED BY <1>2, <1>4 DEF RowsStay

\* A handler at a mark works on a proposal that exists.
LEMMA Marks ==
    ASSUME TunesInv, NEW h \in Handlers, MarkCommitted(h) \/ MarkReverted(h)
    PROVE  \E status \in {"committed", "reverted"}, at \in Nat :
             /\ UpdateStatus(handler[h].id, status, at, handler[h].event)
             /\ status \in Statuses /\ handler[h].id \in DOMAIN proposals
             /\ MarkCommitted(h) => status = "committed"
             /\ MarkReverted(h) => status = "reverted"
<1>0. handler[h].at \in Nat /\ now \in Nat BY DEF TunesInv, TunesType, Work
<1>1. handler[h].id \in DOMAIN proposals
  BY DEF MarkCommitted, MarkReverted, TunesInv, HandlersHold, Holds
<1>2. "committed" \in Statuses /\ "reverted" \in Statuses BY DEF Statuses
<1>3. CASE MarkCommitted(h)
  <2>1. ~MarkReverted(h) BY <1>3 DEF MarkCommitted, MarkReverted
  <2>2. UpdateStatus(handler[h].id, "committed", handler[h].at, handler[h].event)
    BY <1>3 DEF MarkCommitted
  <2> QED BY <1>0, <1>1, <1>2, <2>1, <2>2
<1>4. CASE MarkReverted(h)
  <2>1. ~MarkCommitted(h) BY <1>4 DEF MarkCommitted, MarkReverted
  <2>2. UpdateStatus(handler[h].id, "reverted", now, handler[h].event)
    BY <1>4 DEF MarkReverted
  <2> QED BY <1>0, <1>1, <1>2, <2>1, <2>2
<1> QED BY <1>3, <1>4

\* What a handler is at after its step; the others stay where they are.
Moves(h, pcs) ==
    /\ handler'[h].pc \in pcs
    /\ \A g \in Handlers : g # h => handler'[g] = handler[g]

LEMMA HandlerMoves ==
    ASSUME TunesInv, NEW h \in Handlers
    PROVE  /\ \A rec : Goes(h, rec) => handler'[h] = rec /\ Moves(h, {rec.pc})
           /\ \A pc : Next_(h, pc) => /\ Moves(h, {pc})
                                      /\ handler'[h].knob = handler[h].knob
                                      /\ handler'[h].event = handler[h].event
           /\ Ends(h) => Moves(h, {"idle"})
<1>1. handler \in [Handlers -> Work] /\ handler[h] \in Work BY DEF TunesInv, TunesType
<1>2. \A rec : Goes(h, rec) => handler'[h] = rec /\ Moves(h, {rec.pc})
  BY <1>1 DEF Goes, Moves
<1>3. ASSUME NEW pc, Next_(h, pc)
      PROVE  /\ Moves(h, {pc}) /\ handler'[h].knob = handler[h].knob
             /\ handler'[h].event = handler[h].event
  <2> DEFINE w == [handler[h] EXCEPT !.pc = pc]
  <2>1. w.pc = pc /\ w.knob = handler[h].knob /\ w.event = handler[h].event
    BY <1>1 DEF Work
  <2>2. handler' = [handler EXCEPT ![h] = w] BY <1>3 DEF Next_
  <2> HIDE DEF w
  <2> QED BY <1>1, <2>1, <2>2 DEF Moves
<1>4. Ends(h) => Moves(h, {"idle"}) BY <1>1, IdleIsWork DEF Ends, Moves
<1> QED BY <1>2, <1>3, <1>4

LEMMA BeginMoves ==
    ASSUME TunesInv, NEW h \in Handlers, NEW id, BeginCommit(h, id) \/ BeginRevert(h, id)
    PROVE  Moves(h, {"apply", "delete"})
<1>1. CASE BeginCommit(h, id)
  <2> DEFINE rec == [Idle EXCEPT !.pc = "apply", !.knob = proposals[id].knob, !.id = id,
                                 !.at = now]
  <2>1. rec.pc = "apply" BY DEF Idle
  <2>2. Goes(h, rec) BY <1>1 DEF BeginCommit
  <2> HIDE DEF rec
  <2> QED BY <2>1, <2>2, HandlerMoves DEF Moves
<1>2. CASE BeginRevert(h, id)
  <2> DEFINE rec == [Idle EXCEPT !.pc = "delete", !.knob = proposals[id].knob, !.id = id,
                                 !.event = proposals[id].event]
  <2>1. rec.pc = "delete" BY DEF Idle
  <2>2. Goes(h, rec) BY <1>2 DEF BeginRevert
  <2> HIDE DEF rec
  <2> QED BY <2>1, <2>2, HandlerMoves DEF Moves
<1> QED BY <1>1, <1>2

LEMMA TellMoves ==
    ASSUME TunesInv, NEW h \in Handlers, TellEvent(h)
    PROVE  /\ Moves(h, {"status"}) /\ handler'[h].knob = handler[h].knob
           /\ handler'[h].event = Len(events) + 1
<1> DEFINE n == Len(events) + 1
           w == [handler[h] EXCEPT !.pc = "status", !.event = n]
<1>1. handler \in [Handlers -> Work] /\ handler[h] \in Work BY DEF TunesInv, TunesType
<1>2. handler' = [handler EXCEPT ![h] = w] BY DEF TellEvent
<1>3. w.pc = "status" /\ w.knob = handler[h].knob /\ w.event = n BY <1>1 DEF Work
<1> HIDE DEF w
<1> QED BY <1>1, <1>2, <1>3 DEF Moves

-----------------------------------------------------------------------------
(* Two proposals of a knob are pending only if one hides the other.        *)

Queued(k) ==
    /\ \A p, q \in Of(k, "pending") : p < q => Hidden(p)
    /\ \A h \in Handlers : On(h, k) /\ handler[h].pc = "insert" =>
          \A p \in Of(k, "pending") : Hidden(p)

HiddenInv == \A k \in Knobs \ (disturbed \cup unread) : Queued(k)

LEMMA TunesFinite ==
    ASSUME TunesInv PROVE IsFiniteSet(Tunes) /\ IsFiniteSet(DOMAIN proposals)
<1>1. DOMAIN proposals = 1 .. Len(proposals) /\ Len(proposals) \in Nat
  BY DEF TunesInv, TunesType
<1>2. IsFiniteSet(DOMAIN proposals) BY <1>1, FS_Interval
<1>3. Tunes \subseteq DOMAIN proposals BY DEF Tunes
<1> QED BY <1>2, <1>3, FS_Subset

\* As rows only come, what is hidden stays hidden.
LEMMA HiddenStays ==
    ASSUME TunesInv, TunesInv', RowsStay, NEW p \in DOMAIN proposals, Hidden(p)
    PROVE  Hidden(p)'
<1> DEFINE old == {n \in Tunes \ {p} : proposals[n].at >= proposals[p].at}
           new == {n \in Tunes' \ {p} : proposals'[n].at >= proposals'[p].at}
<1>1. old \subseteq new BY DEF RowsStay, Tunes
<1>2. IsFiniteSet(Tunes')
  <2>1. DOMAIN proposals' = 1 .. Len(proposals') /\ Len(proposals') \in Nat
    BY DEF TunesInv, TunesType
  <2>2. IsFiniteSet(DOMAIN proposals') BY <2>1, FS_Interval
  <2>3. Tunes' \subseteq DOMAIN proposals' BY DEF Tunes
  <2> QED BY <2>2, <2>3, FS_Subset
<1>3. new \subseteq Tunes' OBVIOUS
<1>4. IsFiniteSet(new) BY <1>2, <1>3, FS_Subset
<1>5. IsFiniteSet(old) /\ Cardinality(old) <= Cardinality(new) BY <1>1, <1>4, FS_Subset
<1>6. Cardinality(old) \in Nat /\ Cardinality(new) \in Nat BY <1>4, <1>5, FS_CardinalityType
<1>7. ListLimit \in Nat BY TunesAssumption
<1>8. Cardinality(old) >= ListLimit BY DEF Hidden
<1> HIDE DEF old, new
<1>9. Cardinality(new) >= ListLimit BY <1>5, <1>6, <1>7, <1>8
<1> QED BY <1>9 DEF Hidden, new

\* What the list does not show is hidden (list_tune_proposals, newest first).
LEMMA UnlistedIsHidden ==
    ASSUME TunesInv, NEW L, Listing(L), NEW p \in Tunes \ L
    PROVE  Hidden(p)
<1> DEFINE above == {n \in Tunes \ {p} : proposals[n].at >= proposals[p].at}
<1>1. Cardinality(L) = ListLimit BY DEF Listing
<1>2. L \subseteq above BY DEF Listing
<1>3. above \subseteq Tunes OBVIOUS
<1>4. IsFiniteSet(above) BY <1>3, TunesFinite, FS_Subset
<1>5. IsFiniteSet(L) /\ Cardinality(L) <= Cardinality(above) BY <1>2, <1>4, FS_Subset
<1>6. Cardinality(L) \in Nat /\ Cardinality(above) \in Nat
  BY <1>4, <1>5, FS_CardinalityType
<1> HIDE DEF above
<1>7. Cardinality(above) >= ListLimit BY <1>1, <1>5, <1>6
<1> QED BY <1>7 DEF Hidden, above

LEMMA QueuedStays ==
    ASSUME TunesInv, TunesInv', RowsStay, NEW k, Queued(k),
           Of(k, "pending")' \subseteq Of(k, "pending"),
           \A h \in Handlers : On(h, k)' /\ handler'[h].pc = "insert" =>
                               On(h, k) /\ handler[h].pc = "insert"
    PROVE  Queued(k)'
<1>1. \A p \in Of(k, "pending") : p \in DOMAIN proposals BY DEF Of
<1>2. \A p \in Of(k, "pending") : Hidden(p) => Hidden(p)' BY <1>1, HiddenStays
<1> QED BY <1>2 DEF Queued

LEMMA HiddenProposes ==
    ASSUME TunesInv, TunesInv', HiddenInv, NEW h \in Handlers,
           NEW kk \in Targets, Propose(h, kk),
           disturbed \subseteq disturbed', unread \subseteq unread',
           kk \in Knobs \ unread' => \E L \in SUBSET Tunes : Listing(L) /\ KnobFree(kk, L)
    PROVE  HiddenInv'
<1> SUFFICES ASSUME NEW k \in Knobs \ (disturbed' \cup unread') PROVE Queued(k)'
  BY DEF HiddenInv
<1>1. Queued(k) BY DEF HiddenInv
<1>2. UNCHANGED proposals BY DEF Propose
<1>3. /\ RowsStay /\ Of(k, "pending")' = Of(k, "pending") /\ Tunes' = Tunes
  BY <1>2 DEF RowsStay, Of, Tunes
<1>4. handler'[h].knob = kk /\ \A g \in Handlers : g # h => handler'[g] = handler[g]
  <2>1. Goes(h, [Idle EXCEPT !.pc = "insert", !.knob = kk, !.at = now]) BY DEF Propose
  <2>2. [Idle EXCEPT !.pc = "insert", !.knob = kk, !.at = now].knob = kk BY DEF Idle
  <2> QED BY <2>1, <2>2, HandlerMoves DEF Moves
<1>5. CASE kk # k
  <2>1. \A g \in Handlers : On(g, k)' /\ handler'[g].pc = "insert" =>
                            On(g, k) /\ handler[g].pc = "insert"
    BY <1>4, <1>5 DEF On
  <2> QED BY <1>1, <1>3, <2>1, QueuedStays
<1>6. CASE kk = k
  <2>1. PICK L \in SUBSET Tunes : Listing(L) /\ KnobFree(k, L) BY <1>6
  <2>2. ASSUME NEW p \in Of(k, "pending") PROVE Hidden(p)'
    <3>1. p \in DOMAIN proposals /\ p \in Tunes BY DEF Of, Tunes
    <3>2. p \notin L BY <2>1 DEF KnobFree, Of
    <3>3. Hidden(p) BY <2>1, <3>1, <3>2, UnlistedIsHidden
    <3> QED BY <1>3, <3>1, <3>3, HiddenStays
  <2> QED BY <1>3, <2>2 DEF Queued
<1> QED BY <1>5, <1>6

LEMMA HiddenInserts ==
    ASSUME TunesInv, TunesInv', ForceInv, HiddenInv, NEW h \in Handlers, InsertProposal(h)
    PROVE  HiddenInv'
<1> SUFFICES ASSUME NEW k \in Knobs \ (disturbed' \cup unread') PROVE Queued(k)'
  BY DEF HiddenInv
<1>0. UNCHANGED ghosts BY DEF InsertProposal
<1>1. Queued(k) /\ Orderly(k) BY <1>0 DEF HiddenInv, ForceInv, ghosts, Targets
<1>2. PICK n \in Nat :
             /\ RowsStay /\ DOMAIN proposals' = DOMAIN proposals \cup {n}
             /\ proposals'[n].knob = handler[h].knob
             /\ \A i \in DOMAIN proposals : proposals'[i] = proposals[i] /\ i < n
  BY Inserted
<1>3. Moves(h, {"idle"}) BY HandlerMoves DEF InsertProposal
<1>4. \A g \in Handlers : On(g, k)' /\ handler'[g].pc = "insert" =>
                          g # h /\ On(g, k) /\ handler[g].pc = "insert"
  BY <1>3 DEF Moves, On
<1>5. CASE handler[h].knob # k
  <2>1. Of(k, "pending")' \subseteq Of(k, "pending") BY <1>2, <1>5 DEF Of
  <2> QED BY <1>1, <1>2, <1>4, <2>1, QueuedStays
<1>6. CASE handler[h].knob = k
  <2>1. On(h, k) /\ handler[h].pc = "insert" BY <1>6 DEF On, InsertProposal
  <2>2. \A p \in Of(k, "pending") : Hidden(p) BY <1>1, <2>1 DEF Queued
  <2>3. \A p \in Of(k, "pending") : Hidden(p)' /\ p < n
    BY <1>2, <2>2, HiddenStays DEF Of
  <2>4. Of(k, "pending")' \subseteq Of(k, "pending") \cup {n} BY <1>2 DEF Of
  <2>5. \A p, q \in Of(k, "pending")' : p < q => Hidden(p)'
    <3>1. \A q \in Of(k, "pending")' : ~(n < q)
      <4>1. DOMAIN proposals \subseteq Nat BY DEF TunesInv, TunesType
      <4> QED BY <2>3, <2>4, <4>1 DEF Of
    <3> QED BY <2>3, <2>4, <3>1
  <2>6. \A g \in Handlers : ~(On(g, k)' /\ handler'[g].pc = "insert")
    BY <1>1, <1>4, <2>1 DEF Orderly, Alone
  <2> QED BY <2>5, <2>6 DEF Queued
<1> QED BY <1>5, <1>6

\* Any other step makes no proposal pending and takes no handler to an insert.
LEMMA HiddenElse ==
    ASSUME TunesInv, TunesInv', HiddenInv, RowsStay,
           disturbed \subseteq disturbed', unread \subseteq unread',
           \A k : Of(k, "pending")' \subseteq Of(k, "pending"),
           \/ UNCHANGED handler
           \/ \E h \in Handlers : Moves(h, Steps \ {"insert"})
    PROVE  HiddenInv'
<1> SUFFICES ASSUME NEW k \in Knobs \ (disturbed' \cup unread') PROVE Queued(k)'
  BY DEF HiddenInv
<1>1. Queued(k) BY DEF HiddenInv
<1>2. \A g \in Handlers : On(g, k)' /\ handler'[g].pc = "insert" =>
                          On(g, k) /\ handler[g].pc = "insert"
  BY DEF Moves, On
<1> QED BY <1>1, <1>2, QueuedStays

LEMMA HiddenNext ==
    ASSUME TunesInv, TunesInv', ForceInv, HiddenInv, [Next]_vars PROVE HiddenInv'
<1>1. CASE Tick \/ UNCHANGED vars
  <2>1. UNCHANGED <<proposals, handler, disturbed, unread>>
    BY <1>1 DEF Tick, vars, ghosts
  <2>2. RowsStay /\ \A k : Of(k, "pending")' \subseteq Of(k, "pending")
    BY <2>1 DEF RowsStay, Of
  <2> QED BY <2>1, <2>2, HiddenElse
<1>2. ASSUME NEW h \in Handlers, NEW k \in Knobs, ProposeTune(h, k) PROVE HiddenInv'
  BY <1>2, HiddenProposes DEF ProposeTune, Propose, Meet, Targets
<1>3. ASSUME NEW h \in Handlers, NEW k \in Knobs, ProposeUnread(h, k) PROVE HiddenInv'
  BY <1>3, HiddenProposes DEF ProposeUnread, Propose, Meet, Targets
<1>4. ASSUME NEW h \in Handlers, ProposePrompt(h) PROVE HiddenInv'
  BY <1>4, HiddenProposes, TunesAssumption DEF ProposePrompt, Propose, Meet, Targets
<1>5. ASSUME NEW h \in Handlers, InsertProposal(h) PROVE HiddenInv'
  BY <1>5, HiddenInserts
<1>6. ASSUME NEW h \in Handlers, MarkCommitted(h) \/ MarkReverted(h) PROVE HiddenInv'
  <2>1. PICK status \in {"committed", "reverted"}, at \in Nat :
             /\ UpdateStatus(handler[h].id, status, at, handler[h].event)
             /\ status \in Statuses /\ handler[h].id \in DOMAIN proposals
    BY <1>6, Marks
  <2>2. RowsStay BY <2>1, MarkStays
  <2>3. \A k : Of(k, "pending")' \subseteq Of(k, "pending")
    BY <2>1, MarkedSets
  <2>4. Moves(h, Steps \ {"insert"})
    BY <1>6, HandlerMoves DEF MarkCommitted, MarkReverted, Moves, Steps
  <2>5. UNCHANGED ghosts BY <1>6 DEF MarkCommitted, MarkReverted
  <2> QED BY <2>2, <2>3, <2>4, <2>5, HiddenElse DEF ghosts
<1>7. ASSUME NEW h \in Handlers,
             \/ ApplyOverride(h) \/ AppendPrompt(h) \/ DeleteOverride(h)
             \/ TellEvent(h) \/ Publish(h) \/ GiveUp(h) \/ CommitSite(h)
             \/ \E id \in Ids : BeginCommit(h, id) \/ BeginRevert(h, id)
      PROVE  HiddenInv'
  <2>1. /\ UNCHANGED proposals /\ disturbed \subseteq disturbed'
        /\ unread \subseteq unread'
    BY <1>7 DEF ApplyOverride, AppendPrompt, DeleteOverride, TellEvent, Publish, GiveUp,
                CommitSite, BeginCommit, BeginRevert, Meet, ghosts
  <2>2. RowsStay /\ \A k : Of(k, "pending")' \subseteq Of(k, "pending")
    BY <2>1 DEF RowsStay, Of
  <2>3. Moves(h, Steps \ {"insert"})
    <3>1. CASE ApplyOverride(h) \/ AppendPrompt(h) \/ DeleteOverride(h)
      BY <3>1, HandlerMoves DEF ApplyOverride, AppendPrompt, DeleteOverride, Moves, Steps
    <3>2. CASE TellEvent(h)
      BY <3>2, TellMoves DEF Moves, Steps
    <3>3. CASE Publish(h) \/ GiveUp(h)
      BY <3>3, HandlerMoves DEF Publish, GiveUp, Moves, Steps
    <3>4. CASE CommitSite(h)
      <4> DEFINE rec == [Idle EXCEPT !.pc = "publish", !.event = Len(events) + 1]
      <4>1. rec.pc = "publish" BY DEF Idle
      <4>2. Goes(h, rec) BY <3>4 DEF CommitSite
      <4> HIDE DEF rec
      <4> QED BY <4>1, <4>2, HandlerMoves DEF Moves, Steps
    <3>5. ASSUME NEW id \in Ids, BeginCommit(h, id) \/ BeginRevert(h, id)
          PROVE  Moves(h, Steps \ {"insert"})
      BY <3>5, BeginMoves DEF Moves, Steps
    <3> QED BY <1>7, <3>1, <3>2, <3>3, <3>4, <3>5
  <2> QED BY <2>1, <2>2, <2>3, HiddenElse
<1> QED BY <1>1, <1>2, <1>3, <1>4, <1>5, <1>6, <1>7 DEF Next, Serve

-----------------------------------------------------------------------------
(* What is in force is what the diary tells last of the knob.              *)

ToldLast(k) ==
    /\ override[k] \in Of(k, "committed") =>
          \A e \in ToldOf(k) : e <= proposals[override[k]].event
    /\ \A h \in Handlers : On(h, k) /\ handler[h].pc = "status" =>
          \A e \in ToldOf(k) : e <= handler[h].event

TellsKnown == \A e \in DOMAIN events : events[e].by \in DOMAIN proposals \cup {0}

LastInv == TellsKnown /\ \A k \in Knobs \ disturbed : ToldLast(k)

LEMMA ToldLastStays ==
    ASSUME NEW k, ToldLast(k), ToldOf(k)' \subseteq ToldOf(k),
           override'[k] \in Of(k, "committed")' =>
              /\ override[k] \in Of(k, "committed") /\ override'[k] = override[k]
              /\ proposals'[override[k]].event = proposals[override[k]].event,
           \A g \in Handlers : On(g, k)' /\ handler'[g].pc = "status" =>
              On(g, k) /\ handler[g].pc = "status" /\ handler'[g].event = handler[g].event
    PROVE  ToldLast(k)'
BY DEF ToldLast

\* The diary stays, or grows by an entry that is of none of the knob's proposals.
LEMMA ToldOfStays ==
    ASSUME TunesInv, TellsKnown, RowsStay, NEW k,
           DOMAIN events \subseteq DOMAIN events',
           \A e \in DOMAIN events : events'[e].by = events[e].by,
           \A e \in DOMAIN events' \ DOMAIN events :
              events'[e].by = 0 \/ (/\ events'[e].by \in DOMAIN proposals
                                   /\ proposals[events'[e].by].knob # k),
           0 \notin DOMAIN proposals'
    PROVE  ToldOf(k)' \subseteq ToldOf(k)
<1> SUFFICES ASSUME NEW e \in ToldOf(k)' PROVE e \in ToldOf(k)
  OBVIOUS
<1>1. e \in DOMAIN events' BY DEF ToldOf
<1>2. PICK i \in DOMAIN proposals' : events'[e].by = i /\ proposals'[i].knob = k
  BY DEF ToldOf
<1>3. e \in DOMAIN events
  <2>1. ASSUME e \notin DOMAIN events PROVE FALSE
    <3>1. i \in DOMAIN proposals /\ proposals[i].knob # k BY <1>1, <1>2, <2>1
    <3> QED BY <1>2, <3>1 DEF RowsStay
  <2> QED BY <2>1
<1>4. i \in DOMAIN proposals BY <1>2, <1>3 DEF TellsKnown
<1>5. proposals[i].knob = k BY <1>2, <1>4 DEF RowsStay
<1> QED BY <1>2, <1>3, <1>4, <1>5 DEF ToldOf

LEMMA NoRowZero ==
    ASSUME TunesInv PROVE 0 \notin DOMAIN proposals /\ DOMAIN proposals \subseteq Nat
BY DEF TunesInv, TunesType

LEMMA NoRowZeroNext ==
    ASSUME TunesInv' PROVE 0 \notin DOMAIN proposals'
BY DEF TunesInv, TunesType

\* Steps that write no entry and move no handler to a mark of a commit.
LEMMA LastElse ==
    ASSUME TunesInv, TunesInv', LastInv, RowsStay, disturbed \subseteq disturbed',
           DOMAIN events' = DOMAIN events,
           \A e \in DOMAIN events : events'[e].by = events[e].by,
           \A k \in Knobs \ disturbed' : override'[k] \in Of(k, "committed")' =>
              /\ override[k] \in Of(k, "committed") /\ override'[k] = override[k]
              /\ proposals'[override[k]].event = proposals[override[k]].event,
           \/ UNCHANGED handler
           \/ \E h \in Handlers : Moves(h, Steps \ {"status"})
    PROVE  LastInv'
<1>1. TellsKnown' BY DEF LastInv, TellsKnown, RowsStay
<1>2. ASSUME NEW k \in Knobs \ disturbed' PROVE ToldLast(k)'
  <2>1. ToldLast(k) BY DEF LastInv
  <2>2. ToldOf(k)' \subseteq ToldOf(k) BY NoRowZeroNext, ToldOfStays DEF LastInv
  <2>3. \A g \in Handlers : On(g, k)' /\ handler'[g].pc = "status" =>
              On(g, k) /\ handler[g].pc = "status" /\ handler'[g].event = handler[g].event
    BY DEF Moves, On
  <2> QED BY <2>1, <2>2, <2>3, ToldLastStays
<1> QED BY <1>1, <1>2 DEF LastInv

\* A handler tells: its entry is the last, and its proposal is pending still.
LEMMA LastTells ==
    ASSUME TunesInv, TunesInv', ForceInv, LastInv, NEW h \in Handlers, TellEvent(h)
    PROVE  LastInv'
<1> DEFINE n == Len(events) + 1
<1>1. /\ handler[h].pc = "event" /\ UNCHANGED <<proposals, override, disturbed>>
      /\ events' = Append(events, [by |-> handler[h].id, posted |-> FALSE])
  BY DEF TellEvent, ghosts
<1>2. /\ DOMAIN events' = DOMAIN events \cup {n} /\ n \in Nat
      /\ events'[n].by = handler[h].id
      /\ \A e \in DOMAIN events : events'[e] = events[e] /\ e <= n
  BY <1>1 DEF TunesInv, TunesType
<1>3. handler[h].id \in DOMAIN proposals /\ handler[h].id \in Rows(handler[h].knob)
  BY <1>1 DEF TunesInv, HandlersHold, Holds, ForceInv, Works, OnItsKnob
<1>4. Moves(h, {"status"}) /\ handler'[h].knob = handler[h].knob /\ handler'[h].event = n
  BY TellMoves
<1> HIDE DEF n
<1>5. TellsKnown' BY <1>1, <1>2, <1>3 DEF LastInv, TellsKnown
<1>6. RowsStay BY <1>1 DEF RowsStay
<1>7. ASSUME NEW k \in Knobs \ disturbed' PROVE ToldLast(k)'
  <2>1. ToldLast(k) /\ Orderly(k) BY <1>1 DEF LastInv, ForceInv, Targets
  <2>2. CASE handler[h].knob = k
    <3>1. On(h, k) BY <1>1, <2>2 DEF On
    <3>2. override[k] \in Of(k, "pending")
      BY <1>1, <2>1, <3>1 DEF Orderly, AsLeft, Applied
    <3>3. override'[k] \notin Of(k, "committed")' BY <1>1, <3>2 DEF Of
    <3>4. \A e \in ToldOf(k)' : e <= n BY <1>2 DEF ToldOf
    <3>5. \A g \in Handlers : On(g, k)' => g = h
      BY <1>4, <2>1, <3>1 DEF Moves, On, Orderly, Alone
    <3> QED BY <1>4, <3>3, <3>4, <3>5 DEF ToldLast
  <2>3. CASE handler[h].knob # k
    <3>1. ToldOf(k)' \subseteq ToldOf(k)
      <4>1. proposals[handler[h].id].knob # k BY <1>3, <2>3 DEF Rows
      <4> QED BY <1>2, <1>3, <1>6, <4>1, NoRowZeroNext, ToldOfStays DEF LastInv
    <3>2. \A g \in Handlers : On(g, k)' => On(g, k) /\ handler'[g] = handler[g]
      BY <1>4, <2>3 DEF Moves, On
    <3>3. Of(k, "committed")' = Of(k, "committed") BY <1>1 DEF Of
    <3> QED BY <1>1, <2>1, <3>1, <3>2, <3>3, ToldLastStays
  <2> QED BY <2>2, <2>3
<1> QED BY <1>5, <1>7 DEF LastInv

\* commit_site_change tells of no proposal.
LEMMA LastSite ==
    ASSUME TunesInv, TunesInv', LastInv, NEW h \in Handlers, CommitSite(h)
    PROVE  LastInv'
<1> DEFINE n == Len(events) + 1
           rec == [Idle EXCEPT !.pc = "publish", !.event = n]
<1>1. /\ UNCHANGED <<proposals, override, disturbed>> /\ Goes(h, rec)
      /\ events' = Append(events, [by |-> 0, posted |-> FALSE])
  BY DEF CommitSite, ghosts
<1>2. /\ DOMAIN events' = DOMAIN events \cup {n} /\ events'[n].by = 0
      /\ \A e \in DOMAIN events : events'[e] = events[e]
  BY <1>1 DEF TunesInv, TunesType
<1>3. rec.pc = "publish" BY DEF Idle
<1> HIDE DEF rec, n
<1>4. Moves(h, {"publish"}) BY <1>1, <1>3, HandlerMoves
<1>5. TellsKnown' BY <1>1, <1>2 DEF LastInv, TellsKnown
<1>6. RowsStay BY <1>1 DEF RowsStay
<1>7. ASSUME NEW k \in Knobs \ disturbed' PROVE ToldLast(k)'
  <2>1. ToldLast(k) BY <1>1 DEF LastInv
  <2>2. ToldOf(k)' \subseteq ToldOf(k)
    BY <1>2, <1>6, NoRowZeroNext, ToldOfStays DEF LastInv
  <2>3. \A g \in Handlers : On(g, k)' /\ handler'[g].pc = "status" =>
              On(g, k) /\ handler[g].pc = "status" /\ handler'[g].event = handler[g].event
    BY <1>4 DEF Moves, On
  <2>4. Of(k, "committed")' = Of(k, "committed") BY <1>1 DEF Of
  <2> QED BY <1>1, <2>1, <2>2, <2>3, <2>4, ToldLastStays
<1> QED BY <1>5, <1>7 DEF LastInv

\* A handler marks: the row in force gets the last entry, or is gone.
LEMMA LastMarks ==
    ASSUME TunesInv, TunesInv', ForceInv, LastInv, NEW h \in Handlers,
           MarkCommitted(h) \/ MarkReverted(h)
    PROVE  LastInv'
<1>1. PICK status \in {"committed", "reverted"}, at \in Nat :
             /\ UpdateStatus(handler[h].id, status, at, handler[h].event)
             /\ status \in Statuses /\ handler[h].id \in DOMAIN proposals
  BY Marks
<1>2. PICK id \in DOMAIN proposals : id = handler[h].id BY <1>1
<1>3. /\ RowsStay /\ DOMAIN proposals' = DOMAIN proposals
      /\ proposals'[id].event = handler[h].event
      /\ \A i \in DOMAIN proposals : i # id => proposals'[i] = proposals[i]
  BY <1>1, <1>2, MarkStays
<1>4. UNCHANGED <<events, override, disturbed>> BY DEF MarkCommitted, MarkReverted, ghosts
<1>5. Moves(h, {"publish", "idle"})
  BY HandlerMoves DEF MarkCommitted, MarkReverted, Moves
<1>6. TellsKnown' BY <1>3, <1>4 DEF LastInv, TellsKnown
<1>7. ASSUME NEW k \in Knobs \ disturbed' PROVE ToldLast(k)'
  <2>1. ToldLast(k) /\ Orderly(k) BY <1>4 DEF LastInv, ForceInv, Targets
  <2>2. ToldOf(k)' \subseteq ToldOf(k)
    BY <1>3, <1>4, NoRowZeroNext, ToldOfStays DEF LastInv
  <2>3. \A g \in Handlers : On(g, k)' /\ handler'[g].pc = "status" =>
              On(g, k) /\ handler[g].pc = "status" /\ handler'[g].event = handler[g].event
    BY <1>5 DEF Moves, On
  <2>4. CASE override[k] # id
    <3>1. override'[k] \in Of(k, "committed")' =>
             /\ override[k] \in Of(k, "committed")
             /\ proposals'[override[k]].event = proposals[override[k]].event
      BY <1>3, <1>4, <2>4 DEF Of
    <3> QED BY <1>4, <2>1, <2>2, <2>3, <3>1, ToldLastStays
  <2>5. CASE override[k] = id
    <3>1. CASE handler[h].knob = k /\ MarkCommitted(h)
      <4>1. On(h, k) /\ handler[h].pc = "status" BY <3>1 DEF On, MarkCommitted
      <4>2. \A e \in ToldOf(k) : e <= handler[h].event BY <2>1, <4>1 DEF ToldLast
      <4>3. \A g \in Handlers : ~(On(g, k)' /\ handler'[g].pc = "status")
        BY <1>5, <2>1, <2>3, <4>1 DEF Orderly, Alone, Moves
      <4> QED BY <1>3, <1>4, <2>2, <2>5, <4>2, <4>3 DEF ToldLast
    <3>2. CASE handler[h].knob = k /\ MarkReverted(h)
      <4>1. On(h, k) /\ handler[h].pc = "unmark" BY <3>2 DEF On, MarkReverted
      <4>2. override[k] = 0 BY <2>1, <4>1 DEF Orderly, AsLeft
      <4> QED BY <2>5, <4>2, NoRowZero
    <3>3. CASE handler[h].knob # k
      <4>1. handler[h].pc \in {"status", "unmark"} BY DEF MarkCommitted, MarkReverted
      <4>2. id \in Rows(handler[h].knob)
        BY <1>2, <4>1 DEF ForceInv, Works, OnItsKnob
      <4>3. proposals'[id].knob # k BY <1>3, <3>3, <4>2 DEF Rows, RowsStay
      <4>4. override'[k] \notin Of(k, "committed")' BY <1>4, <2>5, <4>3 DEF Of
      <4> QED BY <2>1, <2>2, <2>3, <4>4, ToldLastStays
    <3> QED BY <3>1, <3>2, <3>3
  <2> QED BY <2>4, <2>5
<1> QED BY <1>6, <1>7 DEF LastInv

LEMMA LastNext ==
    ASSUME TunesInv, TunesInv', ForceInv, LastInv, [Next]_vars PROVE LastInv'
<1>1. CASE Tick \/ UNCHANGED vars
  <2>1. UNCHANGED <<proposals, override, events, handler, disturbed>>
    BY <1>1 DEF Tick, vars, ghosts
  <2>2. RowsStay /\ \A k : Of(k, "committed")' = Of(k, "committed")
    BY <2>1 DEF RowsStay, Of
  <2> QED BY <2>1, <2>2, LastElse
<1>2. ASSUME NEW h \in Handlers, InsertProposal(h) PROVE LastInv'
  <2>1. PICK n \in Nat :
             /\ RowsStay /\ DOMAIN proposals' = DOMAIN proposals \cup {n}
             /\ proposals'[n].status = "pending"
             /\ \A i \in DOMAIN proposals : proposals'[i] = proposals[i] /\ i < n
    BY <1>2, Inserted
  <2>2. UNCHANGED <<override, events, disturbed>> BY <1>2 DEF InsertProposal, ghosts
  <2>3. \A k, i : i \in Of(k, "committed")' =>
                     i \in Of(k, "committed") /\ proposals'[i] = proposals[i]
    BY <2>1 DEF Of
  <2>4. Moves(h, Steps \ {"status"})
    BY <1>2, HandlerMoves DEF InsertProposal, Moves, Steps
  <2> QED BY <2>1, <2>2, <2>3, <2>4, LastElse
<1>3. ASSUME NEW h \in Handlers, ApplyOverride(h) \/ DeleteOverride(h) PROVE LastInv'
  <2>1. UNCHANGED <<proposals, events, disturbed>>
    BY <1>3 DEF ApplyOverride, DeleteOverride, ghosts
  <2>2. RowsStay /\ \A k : Of(k, "committed")' = Of(k, "committed")
    BY <2>1 DEF RowsStay, Of
  <2>3. Moves(h, Steps \ {"status"})
    BY <1>3, HandlerMoves DEF ApplyOverride, DeleteOverride, Moves, Steps
  <2>4. handler[h].knob \in Knobs /\ override \in [Knobs -> Nat]
    BY <1>3 DEF ApplyOverride, DeleteOverride, ForceInv, Works, OnItsKnob
  <2>5. \A k \in Knobs : k # handler[h].knob => override'[k] = override[k]
    BY <1>3, <2>4 DEF ApplyOverride, DeleteOverride
  <2>6. ASSUME NEW k \in Knobs \ disturbed', k = handler[h].knob
        PROVE  override'[k] \notin Of(k, "committed")'
    <3>1. CASE ApplyOverride(h)
      <4>1. override'[k] = handler[h].id BY <2>4, <2>6, <3>1 DEF ApplyOverride
      <4>2. On(h, k) /\ handler[h].pc = "apply" BY <2>6, <3>1 DEF On, ApplyOverride
      <4>3. handler[h].id \in Of(k, "pending")
        BY <2>1, <4>2 DEF ForceInv, Targets, Orderly, AsLeft
      <4> QED BY <2>2, <4>1, <4>3 DEF Of
    <3>2. CASE DeleteOverride(h)
      <4>1. override'[k] = 0 BY <2>4, <2>6, <3>2 DEF DeleteOverride
      <4> QED BY <2>2, <4>1, NoRowZero DEF Of
    <3> QED BY <1>3, <3>1, <3>2
  <2> QED BY <2>1, <2>2, <2>3, <2>5, <2>6, LastElse
<1>4. ASSUME NEW h \in Handlers, MarkCommitted(h) \/ MarkReverted(h) PROVE LastInv'
  BY <1>4, LastMarks
<1>5. ASSUME NEW h \in Handlers, TellEvent(h) \/ CommitSite(h) PROVE LastInv'
  BY <1>5, LastTells, LastSite
<1>6. ASSUME NEW h \in Handlers,
             \/ AppendPrompt(h) \/ Publish(h) \/ GiveUp(h) \/ ProposePrompt(h)
             \/ \E k \in Knobs : ProposeTune(h, k) \/ ProposeUnread(h, k)
             \/ \E id \in Ids : BeginCommit(h, id) \/ BeginRevert(h, id)
      PROVE  LastInv'
  <2>1. UNCHANGED <<proposals, override>> /\ disturbed \subseteq disturbed'
    BY <1>6 DEF AppendPrompt, Publish, GiveUp, ProposePrompt, ProposeTune, ProposeUnread,
                Propose, BeginCommit, BeginRevert, Meet, ghosts
  <2>2. RowsStay /\ \A k : Of(k, "committed")' = Of(k, "committed")
    BY <2>1 DEF RowsStay, Of
  <2>3. DOMAIN events' = DOMAIN events /\ \A e \in DOMAIN events : events'[e].by = events[e].by
    <3>1. CASE Publish(h)
      <4>1. events \in Seq(Entry) /\ handler[h].event \in DOMAIN events
        BY <3>1 DEF Publish, TunesInv, TunesType, HandlersHold, Holds
      <4> DEFINE entry == [events[handler[h].event] EXCEPT !.posted = TRUE]
      <4>2. events' = [events EXCEPT ![handler[h].event] = entry] BY <3>1 DEF Publish
      <4>3. entry.by = events[handler[h].event].by BY <4>1 DEF Entry
      <4> HIDE DEF entry
      <4> QED BY <4>1, <4>2, <4>3
    <3>2. CASE ~Publish(h)
      <4>1. UNCHANGED events
        BY <1>6, <3>2 DEF AppendPrompt, GiveUp, ProposePrompt, ProposeTune, ProposeUnread,
                          Propose, BeginCommit, BeginRevert
      <4> QED BY <4>1
    <3> QED BY <3>1, <3>2
  <2>4. Moves(h, Steps \ {"status"})
    <3>1. CASE AppendPrompt(h) \/ Publish(h) \/ GiveUp(h)
      BY <3>1, HandlerMoves DEF AppendPrompt, Publish, GiveUp, Moves, Steps
    <3>2. ASSUME NEW k, Propose(h, k) PROVE Moves(h, Steps \ {"status"})
      <4> DEFINE rec == [Idle EXCEPT !.pc = "insert", !.knob = k, !.at = now]
      <4>1. rec.pc = "insert" BY DEF Idle
      <4>2. Goes(h, rec) BY <3>2 DEF Propose
      <4> HIDE DEF rec
      <4> QED BY <4>1, <4>2, HandlerMoves DEF Moves, Steps
    <3>3. ASSUME NEW id \in Ids, BeginCommit(h, id) \/ BeginRevert(h, id)
          PROVE  Moves(h, Steps \ {"status"})
      BY <3>3, BeginMoves DEF Moves, Steps
    <3> QED BY <1>6, <3>1, <3>2, <3>3 DEF ProposePrompt, ProposeTune, ProposeUnread
  <2> QED BY <2>1, <2>2, <2>3, <2>4, LastElse
<1> QED BY <1>1, <1>2, <1>3, <1>4, <1>5, <1>6 DEF Next, Serve

LEMMA HistoryInit == Init => HiddenInv /\ LastInv
<1> SUFFICES ASSUME Init PROVE HiddenInv /\ LastInv
  OBVIOUS
<1>1. proposals = <<>> /\ events = <<>> BY DEF Init
<1>2. DOMAIN proposals = {} /\ DOMAIN events = {} BY <1>1
<1>3. \A h \in Handlers : handler[h].pc = "idle" BY IdleIsWork DEF Init
<1>4. \A k, status : Of(k, status) = {} BY <1>2 DEF Of
<1>5. HiddenInv BY <1>3, <1>4 DEF HiddenInv, Queued
<1>6. LastInv BY <1>2, <1>3, <1>4 DEF LastInv, TellsKnown, ToldLast
<1> QED BY <1>5, <1>6

(***************************************************************************)
(* Whatever else handlers do, on a knob where no two of them met and none  *)
(* gave up half-way the threshold in force is the one of a committed       *)
(* proposal, the last that the diary tells of the knob; if the list was    *)
(* always read, two of its proposals are pending only when the older is    *)
(* hidden by as many newer ones as the list has rows; and every version of *)
(* the prompt is its own committed proposal: for any handlers, knobs,      *)
(* proposals, faults and list (propose_tune, commit_tune, commit_prompt,   *)
(* revert_tune).                                                           *)
(***************************************************************************)
THEOREM InForceWasCommitted == Spec => []InForceIsCommitted
<1> DEFINE AllInv == TunesInv /\ ForceInv /\ HiddenInv /\ LastInv
<1>1. Init => AllInv BY TunesInvInit, ForceInit, HistoryInit
<1>2. AllInv /\ [Next]_vars => AllInv'
  <2> SUFFICES ASSUME AllInv, [Next]_vars PROVE AllInv'
    OBVIOUS
  <2>1. TunesInv' BY TunesInvNext
  <2> QED BY <2>1, ForceNext, HiddenNext, LastNext
<1>3. AllInv => InForceIsCommitted
  <2> SUFFICES ASSUME AllInv PROVE InForceIsCommitted
    OBVIOUS
  <2>1. ASSUME NEW k \in Targets, Settled(k) PROVE Orderly(k) /\ InPlace(k)
    <3>1. \A h \in Handlers : ~On(h, k) BY <2>1 DEF Settled, Busy, On
    <3>2. Orderly(k) BY <2>1 DEF Settled, ForceInv
    <3> QED BY <3>1, <3>2 DEF Orderly
  <2>2. ASSUME NEW k \in Knobs, Settled(k), override[k] # 0
        PROVE  /\ override[k] \in Of(k, "committed")
               /\ \A e \in ToldOf(k) : e <= proposals[override[k]].event
    <3>1. override[k] \in Of(k, "committed") BY <2>1, <2>2 DEF Targets, InPlace
    <3>2. ToldLast(k) BY <2>2 DEF Settled, LastInv
    <3> QED BY <3>1, <3>2 DEF ToldLast
  <2>3. ASSUME NEW k \in Knobs, Settled(k), k \notin unread
        PROVE  \A p, q \in Of(k, "pending") : p < q => Hidden(p)
    BY <2>3 DEF Settled, HiddenInv, Queued
  <2>4. Settled(Prompt) => /\ IsInjective(prompts)
                           /\ Range(prompts) = Of(Prompt, "committed")
    BY <2>1 DEF Targets, Orderly, InPlace
  <2> QED BY <2>2, <2>3, <2>4 DEF InForceIsCommitted
<1> QED BY <1>1, <1>2, <1>3, PTL DEF Spec

-----------------------------------------------------------------------------
(***************************************************************************)
(* Sums over a finite set.                                                 *)
(*                                                                         *)
(* The library's induction theorems take an operator, so these proofs take *)
(* a minimal counterexample from a well-founded relation instead.          *)
(***************************************************************************)
LEMMA LeastOf ==
    ASSUME NEW S, S \subseteq Nat, S # {}
    PROVE  \E x \in S : \A y \in S : x <= y
<1> DEFINE R == {p \in Nat \X Nat : p[1] < p[2]}
<1>1. R = OpToRel(<, Nat) BY DEF OpToRel
<1>2. IsWellFoundedOn(R, Nat) BY <1>1, NatLessThanWellFounded
<1>3. \A x, y \in Nat : <<y, x>> \in R <=> y < x OBVIOUS
<1> HIDE DEF R
<1>4. PICK x \in S : \A y \in S : <<y, x>> \notin R BY <1>2, WFMin
<1>5. ASSUME NEW y \in S PROVE x <= y
  <2>1. x \in Nat /\ y \in Nat OBVIOUS
  <2>2. ~(y < x) BY <1>3, <1>4, <2>1
  <2> QED BY <2>1, <2>2
<1> QED BY <1>5

\* A property that fails on a subset of a finite set fails on a smallest one.
LEMMA SmallestSubset ==
    ASSUME NEW S, IsFiniteSet(S), NEW Bad, Bad \subseteq SUBSET S, Bad # {}
    PROVE  \E U \in Bad : \A V \in Bad : ~(V \subseteq U /\ V # U)
<1>1. SUBSET S = FiniteSubsetsOf(S) BY FS_FiniteSubsetsOfFinite
<1>2. IsWellFoundedOn(StrictSubsetOrdering(S), SUBSET S)
  BY <1>1, FS_StrictSubsetOrderingWellFounded
<1>3. PICK U \in Bad : \A V \in Bad : <<V, U>> \notin StrictSubsetOrdering(S)
  BY <1>2, WFMin
<1>4. ASSUME NEW V \in Bad PROVE ~(V \subseteq U /\ V # U)
  BY <1>3 DEF StrictSubsetOrdering
<1> QED BY <1>4

Pick(s) == CHOOSE x \in s : TRUE
SumStep(f, g, s) == IF s = {} THEN 0 ELSE f[Pick(s)] + g[s \ {Pick(s)}]
Sums(g, f, S) == g = [s \in SUBSET S |-> SumStep(f, g, s)]

LEMMA PickIn ==
    ASSUME NEW s, s # {}
    PROVE  Pick(s) \in s
BY DEF Pick

LEMMA SumIsChosen ==
    ASSUME NEW f, NEW S
    PROVE  SumFunctionOnSet(f, S) = (CHOOSE g : Sums(g, f, S))[S]
BY DEF SumFunctionOnSet, FoldFunctionOnSet, MapThenFoldSet, Sums, SumStep, Pick

\* Two functions that sum f agree on the sets both are defined on.
LEMMA SumsAgree ==
    ASSUME NEW f, NEW U, IsFiniteSet(U), NEW V, NEW g, NEW h,
           Sums(g, f, U), Sums(h, f, V), NEW s \in SUBSET (U \cap V)
    PROVE  g[s] = h[s]
<1> DEFINE Bad == {t \in SUBSET (U \cap V) : g[t] # h[t]}
<1>1. SUFFICES ASSUME Bad # {} PROVE FALSE OBVIOUS
<1>2. Bad \subseteq SUBSET U OBVIOUS
<1>3. PICK t \in Bad : \A r \in Bad : ~(r \subseteq t /\ r # t)
  <2> HIDE DEF Bad
  <2> QED BY <1>1, <1>2, SmallestSubset
<1>4. g[t] = SumStep(f, g, t) /\ h[t] = SumStep(f, h, t) BY DEF Sums
<1>5. t # {} BY <1>3, <1>4 DEF SumStep
<1> DEFINE r == t \ {Pick(t)}
<1>6. Pick(t) \in t BY <1>5, PickIn
<1>7. r \in SUBSET (U \cap V) /\ r \subseteq t /\ r # t BY <1>6
<1>8. g[r] = h[r] BY <1>3, <1>7
<1>9. g[t] = h[t] BY <1>4, <1>5, <1>8 DEF SumStep
<1> QED BY <1>9

LEMMA SumsExist ==
    ASSUME NEW f, NEW S, IsFiniteSet(S)
    PROVE  \E g : Sums(g, f, S)
<1> DEFINE Bad == {U \in SUBSET S : ~\E g : Sums(g, f, U)}
<1>1. SUFFICES ASSUME Bad # {} PROVE FALSE OBVIOUS
<1>2. PICK U \in Bad : \A V \in Bad : ~(V \subseteq U /\ V # U)
  <2>1. Bad \subseteq SUBSET S OBVIOUS
  <2> HIDE DEF Bad
  <2> QED BY <1>1, <2>1, SmallestSubset
<1> DEFINE G(V) == CHOOSE g : Sums(g, f, V)
<1>3. ASSUME NEW V \in SUBSET U, V # U PROVE Sums(G(V), f, V)
  <2>1. V \notin Bad BY <1>2, <1>3
  <2>2. \E g : Sums(g, f, V) BY <2>1
  <2> QED BY <2>2
<1> HIDE DEF G
<1>4. ASSUME NEW V \in SUBSET U, V # U PROVE IsFiniteSet(V)
  BY FS_Subset
<1> DEFINE rest(s) == s \ {Pick(s)}
           h == [s \in SUBSET U |->
                   IF s = {} THEN 0
                   ELSE IF s = U THEN f[Pick(U)] + G(rest(U))[rest(U)]
                   ELSE G(s)[s]]
<1>5. ASSUME NEW s \in SUBSET U PROVE h[s] = SumStep(f, h, s)
  <2>1. CASE s = {} BY <2>1 DEF SumStep
  <2>2. CASE s # {}
    <3>1. Pick(s) \in s BY <2>2, PickIn
    <3>2. rest(s) \in SUBSET U /\ rest(s) # U /\ rest(s) \subseteq s /\ rest(s) # s
      BY <3>1
    <3>3. Sums(G(rest(s)), f, rest(s)) BY <1>3, <3>2
    <3>4. h[rest(s)] = G(rest(s))[rest(s)]
      <4>1. CASE rest(s) = {}
        <5>1. G(rest(s))[rest(s)] = SumStep(f, G(rest(s)), rest(s))
          BY <3>3 DEF Sums
        <5> QED BY <4>1, <5>1 DEF SumStep
      <4>2. CASE rest(s) # {} BY <3>2, <4>2
      <4> QED BY <4>1, <4>2
    <3>5. CASE s = U
      <4>1. h[s] = f[Pick(s)] + G(rest(s))[rest(s)] BY <2>2, <3>5
      <4> QED BY <2>2, <3>4, <4>1 DEF SumStep
    <3>6. CASE s # U
      <4>1. Sums(G(s), f, s) BY <1>3, <3>6
      <4>2. h[s] = G(s)[s] BY <2>2, <3>6
      <4>3. G(s)[s] = SumStep(f, G(s), s) BY <4>1 DEF Sums
      <4>4. G(s)[rest(s)] = G(rest(s))[rest(s)]
        <5>1. rest(s) \in SUBSET (s \cap rest(s)) OBVIOUS
        <5>2. IsFiniteSet(s) BY <1>4, <3>6
        <5> HIDE DEF rest, h
        <5> QED BY <3>3, <4>1, <5>1, <5>2, SumsAgree
      <4> HIDE DEF h
      <4> QED BY <2>2, <3>4, <4>2, <4>3, <4>4 DEF SumStep
    <3> QED BY <3>5, <3>6
  <2> QED BY <2>1, <2>2
<1>6. h = [s \in SUBSET U |-> SumStep(f, h, s)]
  <2>1. h = [s \in SUBSET U |-> h[s]] OBVIOUS
  <2> HIDE DEF h
  <2> QED BY <1>5, <2>1
<1>7. Sums(h, f, U)
  <2> HIDE DEF h
  <2> QED BY <1>6 DEF Sums
<1> HIDE DEF h
<1> QED BY <1>2, <1>7

\* The equations of the sum.
LEMMA SumUnfolds ==
    ASSUME NEW f, NEW S, IsFiniteSet(S), NEW s \in SUBSET S
    PROVE  SumFunctionOnSet(f, s) =
               IF s = {} THEN 0
               ELSE f[Pick(s)] + SumFunctionOnSet(f, s \ {Pick(s)})
<1> DEFINE G(V) == CHOOSE g : Sums(g, f, V)
           r    == s \ {Pick(s)}
<1>1. IsFiniteSet(s) /\ IsFiniteSet(r) BY FS_Subset
<1>2. Sums(G(s), f, s) /\ Sums(G(r), f, r) BY <1>1, SumsExist
<1>3. SumFunctionOnSet(f, s) = G(s)[s] /\ SumFunctionOnSet(f, r) = G(r)[r]
  BY SumIsChosen
<1> HIDE DEF G
<1>4. G(s)[s] = SumStep(f, G(s), s) BY <1>2 DEF Sums
<1>5. G(s)[r] = G(r)[r]
  <2>1. r \in SUBSET (s \cap r) OBVIOUS
  <2> HIDE DEF r
  <2> QED BY <1>1, <1>2, <2>1, SumsAgree
<1> QED BY <1>3, <1>4, <1>5 DEF SumStep

LEMMA SumIsInt ==
    ASSUME NEW S, IsFiniteSet(S), NEW f, \A x \in S : f[x] \in Int
    PROVE  SumFunctionOnSet(f, S) \in Int
<1> DEFINE Bad == {s \in SUBSET S : SumFunctionOnSet(f, s) \notin Int}
<1>1. SUFFICES ASSUME Bad # {} PROVE FALSE OBVIOUS
<1>2. PICK s \in Bad : \A r \in Bad : ~(r \subseteq s /\ r # s)
  <2>1. Bad \subseteq SUBSET S OBVIOUS
  <2> HIDE DEF Bad
  <2> QED BY <1>1, <2>1, SmallestSubset
<1>3. s # {}
  <2>1. s \in SUBSET S /\ SumFunctionOnSet(f, s) \notin Int BY <1>2
  <2> HIDE DEF Bad
  <2>2. s = {} => SumFunctionOnSet(f, s) = 0 BY <2>1, SumUnfolds
  <2> QED BY <2>1, <2>2
<1>4. Pick(s) \in s BY <1>3, PickIn
<1>5. SumFunctionOnSet(f, s \ {Pick(s)}) \in Int BY <1>2, <1>4
<1>6. SumFunctionOnSet(f, s) = f[Pick(s)] + SumFunctionOnSet(f, s \ {Pick(s)})
  BY <1>3, SumUnfolds
<1> QED BY <1>2, <1>4, <1>5, <1>6

\* A sum of scores from 0 to 100 is at most a hundred times their number.
LEMMA SumOfScores ==
    ASSUME NEW S, IsFiniteSet(S), NEW f, \A x \in S : f[x] \in 0 .. 100
    PROVE  SumFunctionOnSet(f, S) \in 0 .. 100 * Cardinality(S)
<1> DEFINE Bad == {s \in SUBSET S :
                      SumFunctionOnSet(f, s) \notin 0 .. 100 * Cardinality(s)}
<1>1. SUFFICES ASSUME Bad # {} PROVE FALSE OBVIOUS
<1>2. PICK s \in Bad : \A r \in Bad : ~(r \subseteq s /\ r # s)
  <2>1. Bad \subseteq SUBSET S OBVIOUS
  <2> HIDE DEF Bad
  <2> QED BY <1>1, <2>1, SmallestSubset
<1>3. s # {}
  <2>1. /\ s \in SUBSET S
        /\ SumFunctionOnSet(f, s) \notin 0 .. 100 * Cardinality(s)
    BY <1>2
  <2> HIDE DEF Bad
  <2>2. s = {} => SumFunctionOnSet(f, s) = 0 BY <2>1, SumUnfolds
  <2>3. s = {} => Cardinality(s) = 0 BY FS_EmptySet
  <2> QED BY <2>1, <2>2, <2>3
<1>4. Pick(s) \in s BY <1>3, PickIn
<1> DEFINE r == s \ {Pick(s)}
<1>5. SumFunctionOnSet(f, r) \in 0 .. 100 * Cardinality(r) BY <1>2, <1>4
<1>6. SumFunctionOnSet(f, s) = f[Pick(s)] + SumFunctionOnSet(f, r)
  BY <1>3, SumUnfolds
<1>7. IsFiniteSet(s) /\ Cardinality(r) = Cardinality(s) - 1 /\ Cardinality(s) \in Nat
  BY <1>4, FS_Subset, FS_RemoveElement, FS_CardinalityType
<1>8. f[Pick(s)] \in 0 .. 100 BY <1>4
<1> HIDE DEF r
<1>9. SumFunctionOnSet(f, s) \in 0 .. 100 * Cardinality(s)
  BY <1>5, <1>6, <1>7, <1>8
<1> QED BY <1>2, <1>9

-----------------------------------------------------------------------------
(***************************************************************************)
(* The confidence of an analysis.                                          *)
(***************************************************************************)
LEMMA QuotientBound ==
    ASSUME NEW a \in Nat, NEW d \in Nat \ {0}, NEW b \in Nat, a <= b * d
    PROVE  a \div d \in 0 .. b
<1> DEFINE q == a \div d
<1>1. q \in Int /\ d * q <= a /\ a < d * (q + 1) OBVIOUS
<1> HIDE DEF q
<1>2. q >= 0
  <2>1. SUFFICES ASSUME q <= -1 PROVE FALSE BY <1>1
  <2>2. d * (q + 1) <= 0 BY <1>1, <2>1
  <2> QED BY <1>1, <2>2
<1>3. q <= b
  <2>1. SUFFICES ASSUME q >= b + 1 PROVE FALSE BY <1>1
  <2>2. d * q >= d * (b + 1) BY <1>1, <2>1
  <2>3. d * (b + 1) = b * d + d OBVIOUS
  <2> QED BY <1>1, <2>2, <2>3
<1>4. q \in 0 .. b BY <1>1, <1>2, <1>3
<1> QED BY <1>4 DEF q

LEMMA LayerBounds ==
    ASSUME NEW s \in Scores, NEW layer
    PROVE  /\ Cardinality(OfLayer(s, layer)) \in Nat
           /\ LayerSum(s, layer) \in 0 .. 100 * Cardinality(OfLayer(s, layer))
<1> DEFINE I == OfLayer(s, layer)
           f == [i \in I |-> s[i].score]
<1>1. IsFiniteSet(I)
  <2>1. I \subseteq 1 .. Len(s) /\ Len(s) \in Nat BY DEF OfLayer, Scores
  <2>2. IsFiniteSet(1 .. Len(s)) BY <2>1, FS_Interval
  <2> QED BY <2>1, <2>2, FS_Subset
<1>2. ASSUME NEW i \in I PROVE f[i] \in 0 .. 100
  <2> DEFINE Score == [layer : STRING, type : STRING, score : 0 .. 100]
  <2>1. i \in DOMAIN s /\ f[i] = s[i].score BY DEF OfLayer
  <2>2. s \in Seq(Score) BY DEF Scores
  <2> HIDE DEF Score
  <2>3. s[i] \in Score BY <2>1, <2>2
  <2> QED BY <2>1, <2>3 DEF Score
<1>3. LayerSum(s, layer) = SumFunctionOnSet(f, I) BY DEF LayerSum
<1> HIDE DEF I, f
<1>4. SumFunctionOnSet(f, I) \in 0 .. 100 * Cardinality(I) /\ Cardinality(I) \in Nat
  BY <1>1, <1>2, SumOfScores, FS_CardinalityType
<1> QED BY <1>3, <1>4 DEF I

LEMMA MeanBounds ==
    ASSUME NEW s \in Scores, NEW first, NEW second,
           NEW num \in {1}, NEW den \in {1, 2}
    PROVE  MeanOfMeans(s, first, second, num, den) \in 0 .. 100
<1> DEFINE n == Cardinality(OfLayer(s, first))
           k == Cardinality(OfLayer(s, second))
           a == LayerSum(s, first)
           b == LayerSum(s, second)
<1>1. n \in Nat /\ k \in Nat /\ a \in 0 .. 100 * n /\ b \in 0 .. 100 * k
  BY LayerBounds
<1>2. MeanOfMeans(s, first, second, num, den) =
          IF n = 0 /\ k = 0 THEN 0
          ELSE IF k = 0 THEN a \div n
          ELSE IF n = 0 THEN (num * b) \div (den * k)
          ELSE (a * den * k + (num * b) * n) \div (2 * n * den * k)
  BY DEF MeanOfMeans
<1> HIDE DEF n, k, a, b
<1>3. CASE n = 0 /\ k = 0 BY <1>2, <1>3
<1>4. CASE n # 0 /\ k = 0
  <2>1. a \div n \in 0 .. 100 BY <1>1, <1>4, QuotientBound
  <2> QED BY <1>2, <1>4, <2>1
<1>5. CASE n = 0 /\ k # 0
  <2> DEFINE y == num * b
             d == den * k
  <2>1. y \in Nat /\ d \in Nat \ {0} /\ y <= 100 * d BY <1>1, <1>5
  <2> HIDE DEF y, d
  <2>2. y \div d \in 0 .. 100 BY <2>1, QuotientBound
  <2> QED BY <1>2, <1>5, <2>2 DEF y, d
<1>6. CASE n # 0 /\ k # 0
  <2> DEFINE y == a * den * k + (num * b) * n
             d == 2 * n * den * k
             p == n * k
  <2>1. p \in Nat \ {0} /\ a * k <= 100 * p /\ b * n <= 100 * p
        /\ a * k \in Nat /\ b * n \in Nat
    <3>1. a * k <= (100 * n) * k BY <1>1
    <3>2. b * n <= (100 * k) * n BY <1>1
    <3>3. p \in Nat /\ p # 0 BY <1>1, <1>6
    <3>4. (100 * n) * k = 100 * p /\ (100 * k) * n = 100 * p BY <1>1
    <3>5. a \in Nat /\ b \in Nat BY <1>1
    <3>6. a * k \in Nat /\ b * n \in Nat BY <1>1, <3>5
    <3> QED BY <3>1, <3>2, <3>3, <3>4, <3>6
  <2>2. y = den * (a * k) + b * n /\ d = 2 * den * p BY <1>1
  <2>3. y \in Nat /\ d \in Nat \ {0} /\ y <= 100 * d
    <3> HIDE DEF y, d, p
    <3> QED BY <2>1, <2>2
  <2> HIDE DEF y, d, p
  <2>4. y \div d \in 0 .. 100 BY <2>3, QuotientBound
  <2> QED BY <1>2, <1>6, <2>4 DEF y, d
<1> QED BY <1>3, <1>4, <1>5, <1>6, <1>1

LEMMA MomentumAndDistribution ==
    ASSUME NEW s \in Scores
    PROVE  MomentumOf(s) \in 0 .. 100 /\ DistributionOf(s) \in 0 .. 100
BY MeanBounds DEF MomentumOf, DistributionOf

LEMMA TotalIsPercent ==
    ASSUME NEW m \in 0 .. 100, NEW d \in 0 .. 100, NEW top, NEW class
    PROVE  TotalOf(m, d, top, class) \in 0 .. 100
<1>1. SpringOf(m, d) \in 0 .. 100 BY DEF SpringOf
<1>2. BaseTotal(m, d) \in 0 .. 100
  <2> DEFINE x == 5 * m + 4 * d + SpringOf(m, d)
  <2>1. x \in 0 .. 1000
    <3> DEFINE y == SpringOf(m, d)
    <3>1. m \in Int /\ d \in Int /\ y \in Int
          /\ 0 <= m /\ m <= 100 /\ 0 <= d /\ d <= 100 /\ 0 <= y /\ y <= 100
      BY <1>1
    <3>2. x = 5 * m + 4 * d + y OBVIOUS
    <3> HIDE DEF x, y
    <3> QED BY <3>1, <3>2
  <2>2. BaseTotal(m, d) = x \div 10 BY DEF BaseTotal
  <2> HIDE DEF x
  <2>3. x \in Nat /\ x <= 100 * 10 BY <2>1
  <2> QED BY <2>2, <2>3, QuotientBound
<1>3. WithBonus(BaseTotal(m, d), top) \in 0 .. 200 BY <1>2 DEF WithBonus
<1>4. PatternBonus(class) \in 0 .. 8 BY DEF PatternBonus
<1> QED BY <1>3, <1>4 DEF TotalOf

LEMMA ScoredIsTyped ==
    ASSUME NEW s \in Scores
    PROVE  FromScores(s).class \in Classes /\ FromScores(s).total \in 0 .. 100
<1>1. ClassOf(s) \in Classes BY DEF ClassOf, ShapeOf, Classes, PatternClasses
<1> QED BY <1>1, MomentumAndDistribution, TotalIsPercent DEF FromScores

\* A staircase has a momentum above 70 and a distribution above 50, so its
\* total is 70 at the least.
LEMMA StaircaseTotal ==
    ASSUME NEW m \in 0 .. 100, NEW d \in 0 .. 100, NEW top, m > 70, d > 50
    PROVE  TotalOf(m, d, top, "STAIRCASE") >= 70
<1>1. SpringOf(m, d) >= 61 /\ SpringOf(m, d) \in Int BY DEF SpringOf
<1>2. BaseTotal(m, d) >= 62 /\ BaseTotal(m, d) \in Int BY <1>1 DEF BaseTotal
<1>3. WithBonus(BaseTotal(m, d), top) >= 62 /\ WithBonus(BaseTotal(m, d), top) \in Int
  BY <1>2 DEF WithBonus
<1>4. PatternBonus("STAIRCASE") = 8 BY DEF PatternBonus, PatternClasses
<1> QED BY <1>3, <1>4 DEF TotalOf

-----------------------------------------------------------------------------
(***************************************************************************)
(* The rounded means of a tune.                                            *)
(***************************************************************************)
\* An integer quotient is the integer between whose multiples the dividend is.
LEMMA QuotientIs ==
    ASSUME NEW x \in Int, NEW d \in Nat \ {0}, NEW q \in Int, d * q <= x, x < d * (q + 1)
    PROVE  x \div d = q
<1> DEFINE p == x \div d
<1>1. p \in Int /\ d * p <= x /\ x < d * (p + 1) OBVIOUS
<1> HIDE DEF p
<1>2. ~(p + 1 <= q)
  <2>1. SUFFICES ASSUME p + 1 <= q PROVE FALSE OBVIOUS
  <2>2. d * (p + 1) <= d * q BY <1>1, <2>1
  <2> QED BY <1>1, <2>2
<1>3. ~(q + 1 <= p)
  <2>1. SUFFICES ASSUME q + 1 <= p PROVE FALSE OBVIOUS
  <2>2. d * (q + 1) <= d * p BY <1>1, <2>1
  <2> QED BY <1>1, <2>2
<1>4. p = q BY <1>1, <1>2, <1>3
<1> QED BY <1>4 DEF p

\* A whole number comes out of a quotient by a multiple of it.
LEMMA QuotientShift ==
    ASSUME NEW x \in Int, NEW d \in Nat \ {0}, NEW c \in Int
    PROVE  (x - d * c) \div d = (x \div d) - c
<1> DEFINE q == x \div d
<1>1. q \in Int /\ d * q <= x /\ x < d * (q + 1) OBVIOUS
<1> HIDE DEF q
<1>2. d * c \in Int /\ d * (q - c) = d * q - d * c /\ d * ((q - c) + 1) = d * (q + 1) - d * c
  BY <1>1
<1>3. d * q \in Int /\ d * (q + 1) \in Int BY <1>1
<1>4. d * (q - c) <= x - d * c /\ x - d * c < d * ((q - c) + 1)
  BY <1>1, <1>2, <1>3
<1>5. (x - d * c) \div d = q - c BY <1>1, <1>2, <1>4, QuotientIs
<1> QED BY <1>5 DEF q

LEMMA SmallQuotient ==
    ASSUME NEW x \in Int, NEW d \in Nat \ {0}, 0 <= x, x < d
    PROVE  x \div d = 0
<1>1. 0 \in Int /\ d * 0 <= x /\ x < d * (0 + 1) OBVIOUS
<1> QED BY <1>1, QuotientIs

\* Rounding before or after a whole number is subtracted is the same, for a
\* result that is no loss.
LEMMA RoundingOnce ==
    ASSUME NEW a \in Int, NEW c \in Int, NEW n \in Nat \ {0},
           RoundDiv(a, n) >= 0, RoundDiv(a - c * n, n) >= 0
    PROVE  RoundDiv(a - c * n, n) = RoundDiv(a, n) - c
<1> DEFINE d == 2 * n
           b == a - c * n
           x == 2 * a + n
           y == 2 * b + n
<1>1. d \in Nat \ {0} /\ c * n \in Int /\ b \in Int /\ x \in Int /\ y \in Int OBVIOUS
<1>2. y = x - d * c OBVIOUS
<1>3. y \div d = (x \div d) - c
  <2> HIDE DEF d, x, y
  <2> QED BY <1>1, <1>2, QuotientShift
<1>4. ASSUME NEW z \in Int, RoundDiv(z, n) >= 0
      PROVE  RoundDiv(z, n) = (2 * z + n) \div d
  <2>1. CASE z >= 0 BY <2>1 DEF RoundDiv
  <2>2. CASE z < 0
    <3> DEFINE w == n - 2 * z
               q == w \div d
    <3>1. w \in Int /\ w > 0 BY <2>2
    <3>2. q \in Int /\ d * q <= w /\ w < d * (q + 1) BY <1>1, <3>1
    <3>3. RoundDiv(z, n) = -q BY <2>2 DEF RoundDiv
    <3> HIDE DEF q, w
    <3>4. q <= 0 BY <1>4, <3>2, <3>3
    <3>5. w < d
      <4>1. d * (q + 1) <= d * 1 BY <1>1, <3>2, <3>4
      <4> QED BY <1>1, <3>1, <3>2, <4>1
    <3>6. q = 0 BY <1>1, <3>1, <3>5, SmallQuotient DEF q
    <3>7. 2 * z + n \in Int /\ 0 <= 2 * z + n /\ 2 * z + n < d
      BY <2>2, <3>5 DEF w
    <3>8. (2 * z + n) \div d = 0 BY <1>1, <3>7, SmallQuotient
    <3> QED BY <3>3, <3>6, <3>8
  <2> QED BY <2>1, <2>2
<1>5. RoundDiv(b, n) = y \div d BY <1>1, <1>4
<1>6. RoundDiv(a, n) = x \div d BY <1>4
<1> QED BY <1>3, <1>5, <1>6

\* The figures of a candidate that is offered are those it is judged by.
LEMMA OfferedClears ==
    ASSUME NEW tp \in Tapes, NEW c, RankOffers(tp, c),
           EvaluateCandidate(tp, c).proposed >= 0
    PROVE  FloorsAccept(EvaluateCandidate(tp, c))
<1> DEFINE all     == DOMAIN tp
           passing == {i \in all : CallPasses(tp[i], c)}
           held    == passing \cap Holdout(tp)
           current == IF MeanOf(tp, all) = None THEN 0 ELSE MeanOf(tp, all)
           priced  == Priced(tp, passing)
           f       == [i \in priced |-> tp[i].pnl]
           n       == Cardinality(priced)
           ev      == EvaluateCandidate(tp, c)
           effect  == RoundDiv(100 * PnlSum(tp, priced) - current * n, n)
<1>1. /\ ev.currentN = Len(tp) /\ ev.current = MeanOf(tp, all)
      /\ ev.proposed = MeanOf(tp, passing) /\ ev.rejected = MeanOf(tp, all \ passing)
      /\ ev.effect = IF priced = {} THEN 0 ELSE effect
  BY DEF EvaluateCandidate
<1>2. /\ Len(tp) >= EvidenceFloor /\ ev.effect >= EffectFloor /\ ev.holdoutN >= 1
      /\ ev.holdout >= 0 /\ ev.proposed # None /\ ev.rejected # None
      /\ ev.proposed - ev.rejected >= SpreadFloor
  BY DEF RankOffers
<1>3. ASSUME NEW I \in SUBSET all
      PROVE  /\ IsFiniteSet(Priced(tp, I)) /\ PnlSum(tp, Priced(tp, I)) \in Int
             /\ Priced(tp, I) # {} => Cardinality(Priced(tp, I)) \in Nat \ {0}
             /\ MeanOf(tp, I) = None \/ MeanOf(tp, I) \in Int
  <2> DEFINE P == Priced(tp, I)
             g == [i \in P |-> tp[i].pnl]
  <2>1. P \subseteq all BY DEF Priced
  <2>2. IsFiniteSet(all)
    <3>1. all = 1 .. Len(tp) /\ Len(tp) \in Nat BY DEF Tapes
    <3> QED BY <3>1, FS_Interval
  <2>3. IsFiniteSet(P) BY <2>1, <2>2, FS_Subset
  <2>4. \A i \in P : g[i] \in Int
    <3>1. ASSUME NEW i \in all PROVE tp[i].pnl \in Measure
      <4> DEFINE T == [mark : Measure, pnl : Measure]
      <4>1. tp \in Seq(T) BY DEF Tapes
      <4>2. \A r \in T : r.pnl \in Measure OBVIOUS
      <4> HIDE DEF T
      <4>3. tp[i] \in T BY <4>1
      <4> QED BY <4>2, <4>3
    <3> QED BY <2>1, <3>1 DEF Measure, Priced
  <2>5. PnlSum(tp, P) \in Int
    <3>1. PnlSum(tp, P) = SumFunctionOnSet(g, P) BY DEF PnlSum
    <3> HIDE DEF g, P
    <3> QED BY <2>3, <2>4, <3>1, SumIsInt
  <2>6. P # {} => Cardinality(P) \in Nat \ {0}
    <3> HIDE DEF P
    <3> QED BY <2>3, FS_EmptySet, FS_CardinalityType
  <2>7. MeanOf(tp, I) = None \/ MeanOf(tp, I) \in Int
    <3>1. MeanOf(tp, I) = IF P = {} THEN None ELSE RoundDiv(100 * PnlSum(tp, P), Cardinality(P))
      BY DEF MeanOf
    <3>2. P # {} => RoundDiv(100 * PnlSum(tp, P), Cardinality(P)) \in Int
      <4> HIDE DEF P
      <4> QED BY <2>5, <2>6 DEF RoundDiv
    <3> HIDE DEF P
    <3> QED BY <3>1, <3>2
  <2> QED BY <2>3, <2>5, <2>6, <2>7
<1>4. priced # {} /\ MeanOf(tp, passing) = RoundDiv(100 * PnlSum(tp, priced), n)
  BY <1>1, <1>2 DEF MeanOf
<1>5. MeanOf(tp, all) # None
  <2>1. Priced(tp, passing) \subseteq Priced(tp, all) BY DEF Priced
  <2>2. Priced(tp, all) # {} BY <1>4, <2>1
  <2>3. n \in Nat \ {0} /\ PnlSum(tp, priced) \in Int BY <1>3, <1>4
  <2>4. MeanOf(tp, all) = RoundDiv(100 * PnlSum(tp, Priced(tp, all)), Cardinality(Priced(tp, all)))
    BY <2>2 DEF MeanOf
  <2>5. /\ PnlSum(tp, Priced(tp, all)) \in Int
        /\ Cardinality(Priced(tp, all)) \in Nat \ {0}
    BY <1>3, <2>2
  <2>6. RoundDiv(100 * PnlSum(tp, Priced(tp, all)), Cardinality(Priced(tp, all))) \in Int
    BY <2>5 DEF RoundDiv
  <2> QED BY <2>4, <2>6, EvidenceAssumption
<1>6. MeanOf(tp, all) \in Int /\ current = MeanOf(tp, all) BY <1>3, <1>5
<1>7. n \in Nat \ {0} /\ PnlSum(tp, priced) \in Int BY <1>3, <1>4
<1>8. effect = ev.proposed - ev.current
  <2> DEFINE a == 100 * PnlSum(tp, priced)
  <2>1. a \in Int BY <1>7
  <2>2. RoundDiv(a, n) >= 0 BY <1>1, <1>4
  <2>3. RoundDiv(a - current * n, n) >= 0 
    <3>1. effect >= EffectFloor BY <1>1, <1>2, <1>4
    <3>2. effect \in Int BY <1>6, <1>7 DEF RoundDiv
    <3> QED BY <3>1, <3>2, EvidenceAssumption
  <2> HIDE DEF a, n, current
  <2>4. RoundDiv(a - current * n, n) = RoundDiv(a, n) - current
    BY <1>6, <1>7, <2>1, <2>2, <2>3, RoundingOnce
  <2> QED BY <1>1, <1>4, <1>6, <2>4 DEF a
<1>9. ev.proposed - ev.current >= EffectFloor BY <1>1, <1>2, <1>4, <1>8
<1> HIDE DEF ev
<1> QED BY <1>1, <1>2, <1>5, <1>9 DEF FloorsAccept, ev

-----------------------------------------------------------------------------
(***************************************************************************)
(* The gates.                                                              *)
(***************************************************************************)
LEMMA TenAndSix ==
    ASSUME NEW a1, NEW a2, NEW a3, NEW a4, NEW a5, NEW a6, NEW a7, NEW a8,
           NEW a9, NEW a10, NEW b1, NEW b2, NEW b3, NEW b4, NEW b5, NEW b6
    PROVE  LET q == <<a1, a2, a3, a4, a5, a6, a7, a8, a9, a10>>
                        \o <<b1, b2, b3, b4, b5, b6>>
           IN  /\ DOMAIN q = 1 .. 16
               /\ q[1] = a1 /\ q[2] = a2 /\ q[3] = a3 /\ q[4] = a4 /\ q[5] = a5
               /\ q[6] = a6 /\ q[7] = a7 /\ q[8] = a8 /\ q[9] = a9 /\ q[10] = a10
               /\ q[11] = b1 /\ q[12] = b2 /\ q[13] = b3 /\ q[14] = b4
               /\ q[15] = b5 /\ q[16] = b6
<1> DEFINE s == <<a1, a2, a3, a4, a5, a6, a7, a8, a9, a10>>
           t == <<b1, b2, b3, b4, b5, b6>>
           q == s \o t
<1>1. Len(s) = 10 /\ Len(t) = 6 OBVIOUS
<1>2. \A i \in 1 .. 10 : q[i] = s[i] BY <1>1
<1>3. \A i \in 1 .. 6 : q[10 + i] = t[i] BY <1>1
<1>4. DOMAIN q = 1 .. 16 BY <1>1
<1> HIDE DEF q
<1>5. /\ q[11] = t[1] /\ q[12] = t[2] /\ q[13] = t[3] /\ q[14] = t[4]
      /\ q[15] = t[5] /\ q[16] = t[6] 
   BY <1>3
<1>6. /\ q[1] = a1 /\ q[2] = a2 /\ q[3] = a3 /\ q[4] = a4 /\ q[5] = a5
      /\ q[6] = a6 /\ q[7] = a7 /\ q[8] = a8 /\ q[9] = a9 /\ q[10] = a10
   BY <1>2
<1> QED BY <1>4, <1>5, <1>6 DEF q

\* Whether a gate of the near-miss walk bites.
Bites(tk) ==
    \/ tk.topHolder >= 25 \/ tk.top10 >= 50 \/ tk.txRate < 5
    \/ tk.bundle >= 30 \/ tk.sniper >= 95 \/ tk.insider >= 25
    \/ PressureLow(tk) \/ PressureHigh(tk)
    \/ tk.delta = None
    \/ tk.delta # None /\ tk.delta.mom < 0
    \/ tk.liq = None \/ ~AtLeast(tk.liq, 25)
    \/ tk.vol = None \/ ~AtLeast(tk.vol, 50)
    \/ tk.mcap = None \/ ~AtLeast(tk.mcap, 15)
    \/ tk.mcap # None /\ ~AtMost(tk.mcap, 5000)
    \/ tk.age = None \/ ~AtLeast(tk.age, 900)
    \/ tk.delta # None /\ tk.delta.elapsed > 0 /\ tk.delta.holders < 0

LEMMA MissesOf ==
    ASSUME NEW tk
    PROVE  /\ DOMAIN GateMisses(tk) = 1 .. 16
           /\ \A i \in 1 .. 16 : GateMisses(tk)[i][1] \in GateNames
           /\ (\E i \in 1 .. 16 : GateMisses(tk)[i][2]) <=> Bites(tk)
<1> DEFINE q   == GateMisses(tk)
           a1  == <<"top_holder", tk.topHolder >= 25>>
           a2  == <<"top10", tk.top10 >= 50>>
           a3  == <<"tx_rate", tk.txRate < 5>>
           a4  == <<"bundle", tk.bundle >= 30>>
           a5  == <<"sniper", tk.sniper >= 95>>
           a6  == <<"insider", tk.insider >= 25>>
           a7  == <<"buy_sell_low", PressureLow(tk)>>
           a8  == <<"buy_sell_high", PressureHigh(tk)>>
           a9  == <<"momentum_delta", tk.delta # None /\ tk.delta.mom < 0>>
           a10 == <<"history", tk.delta = None>>
           b1  == <<"liquidity", tk.liq = None \/ ~AtLeast(tk.liq, 25)>>
           b2  == <<"volume24", tk.vol = None \/ ~AtLeast(tk.vol, 50)>>
           b3  == <<"mcap", tk.mcap = None \/ ~AtLeast(tk.mcap, 15)>>
           b4  == <<"mcap_high", tk.mcap # None /\ ~AtMost(tk.mcap, 5000)>>
           b5  == <<"age", tk.age = None \/ ~AtLeast(tk.age, 900)>>
           b6  == <<"holder_growth", /\ tk.delta # None
                                       /\ tk.delta.elapsed > 0 /\ tk.delta.holders < 0>>
<1>1. q = HolderMisses(tk) \o MarketMisses(tk) BY DEF GateMisses
<1>2. HolderMisses(tk) = <<a1, a2, a3, a4, a5, a6, a7, a8, a9, a10>>
  BY DEF HolderMisses
<1>3. MarketMisses(tk) = <<b1, b2, b3, b4, b5, b6>>
  BY DEF MarketMisses
<1> HIDE DEF a1, a2, a3, a4, a5, a6, a7, a8, a9, a10, b1, b2, b3, b4, b5, b6
<1>4. /\ DOMAIN q = 1 .. 16
      /\ q[1] = a1 /\ q[2] = a2 /\ q[3] = a3 /\ q[4] = a4 /\ q[5] = a5
      /\ q[6] = a6 /\ q[7] = a7 /\ q[8] = a8 /\ q[9] = a9 /\ q[10] = a10
      /\ q[11] = b1 /\ q[12] = b2 /\ q[13] = b3 /\ q[14] = b4
      /\ q[15] = b5 /\ q[16] = b6
  BY <1>1, <1>2, <1>3, TenAndSix
<1>5. \A i \in 1 .. 16 : q[i][1] \in GateNames
  <2>1. \A i \in 1 .. 16 : q[i] \in {a1, a2, a3, a4, a5, a6, a7, a8, a9, a10,
                                    b1, b2, b3, b4, b5, b6}
    <3> HIDE DEF q
    <3> SUFFICES ASSUME NEW i \in 1 .. 16
                 PROVE  q[i] \in {a1, a2, a3, a4, a5, a6, a7, a8, a9, a10,
                                  b1, b2, b3, b4, b5, b6}
      OBVIOUS
    <3>1. \/ i = 1 \/ i = 2 \/ i = 3 \/ i = 4 \/ i = 5 \/ i = 6 \/ i = 7 \/ i = 8
          \/ i = 9 \/ i = 10 \/ i = 11 \/ i = 12 \/ i = 13 \/ i = 14 \/ i = 15
          \/ i = 16
      OBVIOUS
    <3> QED BY <1>4, <3>1
  <2>2. /\ a1[1] = "top_holder" /\ a2[1] = "top10" /\ a3[1] = "tx_rate"
        /\ a4[1] = "bundle" /\ a5[1] = "sniper" /\ a6[1] = "insider"
        /\ a7[1] = "buy_sell_low" /\ a8[1] = "buy_sell_high"
        /\ a9[1] = "momentum_delta" /\ a10[1] = "history"
        /\ b1[1] = "liquidity" /\ b2[1] = "volume24" /\ b3[1] = "mcap"
        /\ b4[1] = "mcap_high" /\ b5[1] = "age" /\ b6[1] = "holder_growth"
    BY Zenon DEF a1, a2, a3, a4, a5, a6, a7, a8, a9, a10, b1, b2, b3, b4, b5, b6
  <2> HIDE DEF q
  <2> QED BY <2>1, <2>2 DEF GateNames
<1>6. /\ a1[2] <=> (tk.topHolder >= 25)
      /\ a2[2] <=> (tk.top10 >= 50)
      /\ a3[2] <=> (tk.txRate < 5)
      /\ a4[2] <=> (tk.bundle >= 30)
      /\ a5[2] <=> (tk.sniper >= 95)
      /\ a6[2] <=> (tk.insider >= 25)
      /\ a7[2] <=> (PressureLow(tk))
      /\ a8[2] <=> (PressureHigh(tk))
      /\ a9[2] <=> (tk.delta # None /\ tk.delta.mom < 0)
      /\ a10[2] <=> (tk.delta = None)
      /\ b1[2] <=> (tk.liq = None \/ ~AtLeast(tk.liq, 25))
      /\ b2[2] <=> (tk.vol = None \/ ~AtLeast(tk.vol, 50))
      /\ b3[2] <=> (tk.mcap = None \/ ~AtLeast(tk.mcap, 15))
      /\ b4[2] <=> (tk.mcap # None /\ ~AtMost(tk.mcap, 5000))
      /\ b5[2] <=> (tk.age = None \/ ~AtLeast(tk.age, 900))
      /\ b6[2] <=> (/\ tk.delta # None
                  /\ tk.delta.elapsed > 0 /\ tk.delta.holders < 0)
  <2>1. a1[2] <=> (tk.topHolder >= 25)
    BY Zenon DEF a1
  <2>2. a2[2] <=> (tk.top10 >= 50)
    BY Zenon DEF a2
  <2>3. a3[2] <=> (tk.txRate < 5)
    BY Zenon DEF a3
  <2>4. a4[2] <=> (tk.bundle >= 30)
    BY Zenon DEF a4
  <2>5. a5[2] <=> (tk.sniper >= 95)
    BY Zenon DEF a5
  <2>6. a6[2] <=> (tk.insider >= 25)
    BY Zenon DEF a6
  <2>7. a7[2] <=> (PressureLow(tk))
    BY Zenon DEF a7
  <2>8. a8[2] <=> (PressureHigh(tk))
    BY Zenon DEF a8
  <2>9. a9[2] <=> (tk.delta # None /\ tk.delta.mom < 0)
    BY Zenon DEF a9
  <2>10. a10[2] <=> (tk.delta = None)
    BY Zenon DEF a10
  <2>11. b1[2] <=> (tk.liq = None \/ ~AtLeast(tk.liq, 25))
    BY Zenon DEF b1
  <2>12. b2[2] <=> (tk.vol = None \/ ~AtLeast(tk.vol, 50))
    BY Zenon DEF b2
  <2>13. b3[2] <=> (tk.mcap = None \/ ~AtLeast(tk.mcap, 15))
    BY Zenon DEF b3
  <2>14. b4[2] <=> (tk.mcap # None /\ ~AtMost(tk.mcap, 5000))
    <3> DEFINE high == tk.mcap # None /\ ~AtMost(tk.mcap, 5000)
    <3>1. b4 = <<"mcap_high", high>> BY DEF b4
    <3> HIDE DEF b4, high
    <3>2. b4[2] <=> high BY <3>1, Zenon
    <3> QED BY <3>2 DEF high
  <2>15. b5[2] <=> (tk.age = None \/ ~AtLeast(tk.age, 900))
    BY Zenon DEF b5
  <2>16. b6[2] <=> (/\ tk.delta # None
                 /\ tk.delta.elapsed > 0 /\ tk.delta.holders < 0)
    BY Zenon DEF b6
  <2> QED BY <2>1, <2>2, <2>3, <2>4, <2>5, <2>6, <2>7, <2>8, <2>9,
            <2>10, <2>11, <2>12, <2>13, <2>14, <2>15, <2>16
<1>7. (\E i \in 1 .. 16 : q[i][2]) <=>
          \/ a1[2] \/ a2[2] \/ a3[2] \/ a4[2] \/ a5[2] \/ a6[2] \/ a7[2] \/ a8[2]
          \/ a9[2] \/ a10[2] \/ b1[2] \/ b2[2] \/ b3[2] \/ b4[2] \/ b5[2] \/ b6[2]
  <2> HIDE DEF q
  <2>1. (\E i \in 1 .. 16 : q[i][2]) <=>
            \/ q[1][2] \/ q[2][2] \/ q[3][2] \/ q[4][2] \/ q[5][2] \/ q[6][2]
            \/ q[7][2] \/ q[8][2] \/ q[9][2] \/ q[10][2] \/ q[11][2] \/ q[12][2]
            \/ q[13][2] \/ q[14][2] \/ q[15][2] \/ q[16][2]
    OBVIOUS
  <2> QED BY <1>4, <2>1, Zenon
<1> HIDE DEF q
<1>8. Bites(tk) <=>
          \/ a1[2] \/ a2[2] \/ a3[2] \/ a4[2] \/ a5[2] \/ a6[2] \/ a7[2] \/ a8[2]
          \/ a9[2] \/ a10[2] \/ b1[2] \/ b2[2] \/ b3[2] \/ b4[2] \/ b5[2] \/ b6[2]
  BY <1>6 DEF Bites
<1>9. (\E i \in 1 .. 16 : q[i][2]) <=> Bites(tk) BY <1>7, <1>8
<1> QED BY <1>4, <1>5, <1>9 DEF q

\* The defaults a gate falls back on when no row is committed.
LEMMA NoRows ==
    ASSUME NEW class
    PROVE  /\ InForce(NoOverrides, "conf", class) = ClassFloor(class)
           /\ InForce(NoOverrides, "topHolder", class) = 25
           /\ InForce(NoOverrides, "h1Max", class) = 10000
           /\ InForce(NoOverrides, "h1Min", class) = -100
           /\ InForce(NoOverrides, "peak", class) = 10000
           /\ InForce(NoOverrides, "liq", class) = 25
           /\ InForce(NoOverrides, "vol", class) = 50
           /\ InForce(NoOverrides, "age", class) = 900
<1>1. DOMAIN NoOverrides = {} BY DEF NoOverrides
<1>2. InForce(NoOverrides, "conf", class) = ClassFloor(class) BY <1>1 DEF InForce
<1>3. ASSUME NEW field, field # "conf"
      PROVE  InForce(NoOverrides, field, class) = Default(field)
  BY <1>1, <1>3 DEF InForce
<1>4. /\ Default("topHolder") = 25 /\ Default("h1Max") = 10000
      /\ Default("h1Min") = -100 /\ Default("peak") = 10000
      /\ Default("liq") = 25 /\ Default("vol") = 50 /\ Default("age") = 900
  BY DEF Default
<1> QED BY <1>2, <1>3, <1>4

LEMMA NearMissNamesAGate ==
    ASSUME NEW tk \in Analysis
    PROVE  NearMissOf(tk) # None <=>
               /\ tk.class \in RequiredClasses /\ tk.conf >= 60
               /\ tk.conf < 65 \/ Bites(tk)
<1> DEFINE q     == GateMisses(tk)
           bites == {i \in DOMAIN q : q[i][2]}
           least == CHOOSE i \in bites : \A j \in bites : i <= j
<1>1. NearMissOf(tk) = IF tk.class \notin RequiredClasses \/ tk.conf < 60 THEN None
                       ELSE IF tk.conf < 65 THEN "conf"
                       ELSE IF bites = {} THEN None
                       ELSE q[least][1]
  BY Zenon DEF NearMissOf
<1>2. bites # {} <=> Bites(tk)
  <2>1. /\ DOMAIN GateMisses(tk) = 1 .. 16
        /\ (\E i \in 1 .. 16 : GateMisses(tk)[i][2]) <=> Bites(tk)
    BY MissesOf
  <2>2. bites # {} <=> \E i \in 1 .. 16 : q[i][2] BY <2>1
  <2> QED BY <2>1, <2>2
<1>3. bites # {} => q[least][1] # None
  <2>1. SUFFICES ASSUME bites # {} PROVE q[least][1] # None OBVIOUS
  <2>2. DOMAIN GateMisses(tk) = 1 .. 16 BY MissesOf
  <2>8. DOMAIN q = 1 .. 16 BY <2>2
  <2> HIDE DEF q
  <2>3. bites \subseteq Nat /\ bites \subseteq 1 .. 16 BY <2>8
  <2>4. \E i \in bites : \A j \in bites : i <= j
    <3> HIDE DEF bites
    <3> QED BY <2>1, <2>3, LeastOf
  <2>5. least \in bites
    <3> HIDE DEF bites
    <3> QED BY <2>4
  <2>6. least \in 1 .. 16 BY <2>3, <2>5
  <2> HIDE DEF least, bites
  <2>7. q[least][1] \in GateNames BY <2>6, MissesOf DEF q
  <2> QED BY <2>7, GatesAssumption
<1>4. tk.conf \in Int BY DEF Analysis
<1>5. "conf" # None BY GatesAssumption DEF GateNames
<1> HIDE DEF q, bites, least
<1> QED BY <1>1, <1>2, <1>3, <1>4, <1>5

\* should_signal with nothing committed, and when it refuses.
LEMMA DefaultGate ==
    ASSUME NEW tk \in Analysis
    PROVE  ShouldSignal(NoOverrides, 0, tk) <=>
               /\ tk.class \in RequiredClasses
               /\ tk.conf >= 65 /\ tk.conf >= ClassFloor(tk.class)
               /\ tk.topHolder < 25 /\ tk.top10 < 50
               /\ TradesSteadily(tk)
               /\ tk.liq # None /\ AtLeast(tk.liq, 25)
               /\ tk.vol # None /\ AtLeast(tk.vol, 50)
               /\ Within(tk.mcap, 15, 5000)
               /\ AtMost(tk.h1, 10000) /\ AtLeast(tk.h1, -100)
               /\ tk.age # None /\ AtLeast(tk.age, 900)
               /\ LaunchClean(tk)
<1>1. SignalThreshold(0) = 65 BY DEF SignalThreshold
<1>2. DeepEnough(NoOverrides, tk) <=>
          /\ tk.liq # None /\ AtLeast(tk.liq, 25)
          /\ tk.vol # None /\ AtLeast(tk.vol, 50)
          /\ Within(tk.mcap, 15, 5000)
          /\ AtMost(tk.h1, 10000) /\ AtLeast(tk.h1, -100)
  BY NoRows DEF DeepEnough
<1>3. /\ InForce(NoOverrides, "conf", tk.class) = ClassFloor(tk.class)
      /\ InForce(NoOverrides, "topHolder", tk.class) = 25
      /\ InForce(NoOverrides, "age", tk.class) = 900
  BY NoRows
<1> QED BY <1>1, <1>2, <1>3 DEF ShouldSignal

\* The rows of a field that apply to the token all let it through.
Kept(rows, tk, field) ==
    \A k \in DOMAIN rows :
        k[1] = field /\ k[2] \in {"global", tk.class} => FieldPasses(field, tk, rows[k])

LEMMA HonouredRow ==
    ASSUME NEW tk, NEW rows, HonouredRows(rows, tk), NEW k \in DOMAIN rows
    PROVE  /\ k[1] \in Sweepable
           /\ k[1] = "peak" => rows[k] < 9999
           /\ k[1] = "topHolder" => tk.topHolder # rows[k]
<1>1. Honoured(rows, tk, k) BY DEF HonouredRows
<1>2. k[1] \in Sweepable BY <1>1, Zenon DEF Honoured
<1>3. k[1] = "peak" => rows[k] < 9999 BY <1>1 DEF Honoured
<1>4. k[1] = "topHolder" => tk.topHolder # rows[k] BY <1>1, Zenon DEF Honoured
<1> QED BY <1>2, <1>3, <1>4

LEMMA ReplayByField ==
    ASSUME NEW tk, NEW rows, HonouredRows(rows, tk)
    PROVE  ReplayKeeps(rows, tk) <=> \A field \in Sweepable : Kept(rows, tk, field)
<1>1. ASSUME NEW k \in DOMAIN rows PROVE k[1] \in Sweepable BY HonouredRow
<1>2. ASSUME ReplayKeeps(rows, tk), NEW field \in Sweepable PROVE Kept(rows, tk, field)
  BY <1>2 DEF ReplayKeeps, Kept
<1>3. ASSUME \A field \in Sweepable : Kept(rows, tk, field),
             NEW k \in DOMAIN rows, k[2] \in {"global", tk.class}
      PROVE  FieldPasses(k[1], tk, rows[k])
  BY <1>1, <1>3 DEF Kept
<1> QED BY <1>2, <1>3 DEF ReplayKeeps

\* At most one row of a field applies, and the gate goes by it.
LEMMA RowInForce ==
    ASSUME NEW tk, NEW rows, HonouredRows(rows, tk), DOMAIN rows \subseteq GateKnobs,
           tk.class \in RequiredClasses, NEW field
    PROVE  \/ /\ InForce(rows, field, tk.class) = InForce(NoOverrides, field, tk.class)
              /\ Kept(rows, tk, field)
           \/ \E k \in DOMAIN rows :
                 /\ k[1] = field
                 /\ InForce(rows, field, tk.class) = rows[k]
                 /\ Kept(rows, tk, field) <=> FieldPasses(field, tk, rows[k])
<1> DEFINE own == <<field, tk.class>>
           all == <<field, "global">>
<1>1. own[1] = field /\ own[2] = tk.class /\ all[1] = field /\ all[2] = "global"
  OBVIOUS
<1>2. ASSUME NEW k \in DOMAIN rows, k[1] = field, k[2] \in {"global", tk.class}
      PROVE  k = own \/ k = all
  <2>1. k \in Fields \X ({"global"} \cup RequiredClasses) BY DEF GateKnobs
  <2>2. k = <<k[1], k[2]>> BY <2>1
  <2> QED BY <1>2, <2>2
<1>3. InForce(rows, field, tk.class) = IF own \in DOMAIN rows THEN rows[own]
                                    ELSE IF field = "conf" THEN ClassFloor(tk.class)
                                    ELSE IF all \in DOMAIN rows THEN rows[all]
                                    ELSE Default(field)
  BY DEF InForce
<1>4. InForce(NoOverrides, field, tk.class) =
          IF field = "conf" THEN ClassFloor(tk.class) ELSE Default(field)
  BY DEF InForce, NoOverrides
<1>5. all \in DOMAIN rows => own \notin DOMAIN rows /\ field # "conf"
  <2>1. all \in DOMAIN rows => Honoured(rows, tk, all) BY DEF HonouredRows
  <2> QED BY <1>1, <2>1 DEF Honoured
<1> HIDE DEF own, all
<1>6. CASE own \in DOMAIN rows
  <2>1. Kept(rows, tk, field) <=> FieldPasses(field, tk, rows[own])
    BY <1>1, <1>2, <1>5, <1>6 DEF Kept
  <2> QED BY <1>1, <1>3, <1>6, <2>1
<1>7. CASE own \notin DOMAIN rows /\ all \in DOMAIN rows
  <2>1. Kept(rows, tk, field) <=> FieldPasses(field, tk, rows[all])
    BY <1>1, <1>2, <1>7 DEF Kept
  <2> QED BY <1>1, <1>3, <1>5, <1>7, <2>1
<1>8. CASE own \notin DOMAIN rows /\ all \notin DOMAIN rows
  <2>1. Kept(rows, tk, field) BY <1>2, <1>8 DEF Kept
  <2> QED BY <1>3, <1>4, <1>8, <2>1
<1> QED BY <1>6, <1>7, <1>8

Committed(rows) == /\ DOMAIN rows \subseteq GateKnobs
                   /\ \A k \in DOMAIN rows : rows[k] \in Validated(k[1])

\* Of a token the constants let through, the rows keep what the replay keeps.
LEMMA ReplayIsGate ==
    ASSUME NEW tk \in Analysis, NEW rows, Committed(rows), HonouredRows(rows, tk),
           ShouldSignal(NoOverrides, 0, tk)
    PROVE  ShouldSignal(rows, 0, tk) <=> ReplayKeeps(rows, tk)
<1> DEFINE F(field) == InForce(rows, field, tk.class)
<1>1. /\ tk.class \in RequiredClasses
      /\ tk.conf >= 65 /\ tk.conf >= ClassFloor(tk.class)
      /\ tk.topHolder < 25 /\ tk.top10 < 50
      /\ TradesSteadily(tk)
      /\ tk.liq # None /\ AtLeast(tk.liq, 25)
      /\ tk.vol # None /\ AtLeast(tk.vol, 50)
      /\ Within(tk.mcap, 15, 5000)
      /\ AtMost(tk.h1, 10000) /\ AtLeast(tk.h1, -100)
      /\ tk.age # None /\ AtLeast(tk.age, 900)
      /\ LaunchClean(tk)
  BY DefaultGate
<1>2. ShouldSignal(rows, 0, tk) <=>
          /\ tk.conf >= F("conf") /\ tk.topHolder < F("topHolder")
          /\ AtLeast(tk.liq, F("liq")) /\ AtLeast(tk.vol, F("vol"))
          /\ AtMost(tk.h1, F("h1Max")) /\ AtLeast(tk.h1, F("h1Min"))
          /\ F("peak") < 9999 => AtMost(tk.peak, F("peak"))
          /\ AtLeast(tk.age, F("age"))
  <2>1. SignalThreshold(0) = 65 BY DEF SignalThreshold
  <2>2. DeepEnough(rows, tk) <=>
            /\ tk.liq # None /\ AtLeast(tk.liq, F("liq"))
            /\ tk.vol # None /\ AtLeast(tk.vol, F("vol"))
            /\ Within(tk.mcap, 15, 5000)
            /\ AtMost(tk.h1, F("h1Max")) /\ AtLeast(tk.h1, F("h1Min"))
            /\ F("peak") < 9999 => AtMost(tk.peak, F("peak"))
    BY DEF DeepEnough
  <2>3. ShouldSignal(rows, 0, tk) <=>
            /\ tk.class \in RequiredClasses
            /\ tk.conf >= SignalThreshold(0)
            /\ tk.conf >= F("conf")
            /\ tk.topHolder < F("topHolder") /\ tk.top10 < 50
            /\ TradesSteadily(tk)
            /\ DeepEnough(rows, tk)
            /\ tk.age # None /\ AtLeast(tk.age, F("age"))
            /\ LaunchClean(tk)
    BY DEF ShouldSignal
  <2> HIDE DEF F
  <2> QED BY <1>1, <2>1, <2>2, <2>3
<1>3. ASSUME NEW field
      PROVE  \/ F(field) = InForce(NoOverrides, field, tk.class) /\ Kept(rows, tk, field)
             \/ \E k \in DOMAIN rows :
                   /\ k[1] = field /\ F(field) = rows[k]
                   /\ Kept(rows, tk, field) <=> FieldPasses(field, tk, rows[k])
  BY <1>1, RowInForce DEF Committed
<1>4. ASSUME NEW k \in DOMAIN rows
      PROVE  /\ k[1] \in Sweepable /\ rows[k] \in Int
             /\ k[1] = "peak" => rows[k] < 9999
             /\ k[1] = "topHolder" => tk.topHolder # rows[k]
  <2>1. rows[k] \in Validated(k[1]) BY DEF Committed
  <2>2. /\ k[1] \in Sweepable
        /\ k[1] = "peak" => rows[k] < 9999
        /\ k[1] = "topHolder" => tk.topHolder # rows[k]
    BY HonouredRow
  <2>3. \A field \in Sweepable : Validated(field) \subseteq Int
    <3>1. /\ Validated("conf") \subseteq Int /\ Validated("topHolder") \subseteq Int
          /\ Validated("liq") \subseteq Int /\ Validated("peak") \subseteq Int
          /\ Validated("h1Max") \subseteq Int /\ Validated("h1Min") \subseteq Int
      BY DEF Validated
    <3> QED BY <3>1, Zenon DEF Sweepable, PerClass
  <2> QED BY <2>1, <2>2, <2>3
<1> HIDE DEF F
<1>5. tk.conf \in Int /\ tk.topHolder \in Int BY DEF Analysis
<1>6. tk.conf >= F("conf") <=> Kept(rows, tk, "conf")
  <2>1. \A v : FieldPasses("conf", tk, v) <=> tk.conf >= v BY DEF FieldPasses
  <2> QED BY <1>1, <1>3, <1>4, <2>1, NoRows
<1>7. tk.topHolder < F("topHolder") <=> Kept(rows, tk, "topHolder")
  <2>1. \A v : FieldPasses("topHolder", tk, v) <=> tk.topHolder <= v BY DEF FieldPasses
  <2>2. \A k \in DOMAIN rows : k[1] = "topHolder" =>
            (tk.topHolder < rows[k] <=> tk.topHolder <= rows[k])
    BY <1>4, <1>5
  <2> QED BY <1>1, <1>3, <2>1, <2>2, NoRows
<1>8. AtLeast(tk.liq, F("liq")) <=> Kept(rows, tk, "liq")
  <2>1. \A v : FieldPasses("liq", tk, v) <=> AtLeast(tk.liq, v) BY DEF FieldPasses
  <2> QED BY <1>1, <1>3, <2>1, NoRows
<1>9. AtMost(tk.h1, F("h1Max")) <=> Kept(rows, tk, "h1Max")
  <2>1. \A v : FieldPasses("h1Max", tk, v) <=> AtMost(tk.h1, v) BY DEF FieldPasses
  <2> QED BY <1>1, <1>3, <2>1, NoRows
<1>10. AtLeast(tk.h1, F("h1Min")) <=> Kept(rows, tk, "h1Min")
  <2>1. \A v : FieldPasses("h1Min", tk, v) <=> AtLeast(tk.h1, v) BY DEF FieldPasses
  <2> QED BY <1>1, <1>3, <2>1, NoRows
<1>11. (F("peak") < 9999 => AtMost(tk.peak, F("peak"))) <=> Kept(rows, tk, "peak")
  <2>1. \A v : FieldPasses("peak", tk, v) <=> AtMost(tk.peak, v) BY DEF FieldPasses
  <2>2. ~(10000 < 9999) OBVIOUS
  <2> QED BY <1>3, <1>4, <2>1, <2>2, NoRows
<1>12. AtLeast(tk.vol, F("vol")) /\ AtLeast(tk.age, F("age"))
  <2>1. "vol" \notin Sweepable /\ "age" \notin Sweepable BY DEF Sweepable, PerClass
  <2> QED BY <1>1, <1>3, <1>4, <2>1, NoRows
<1>13. ReplayKeeps(rows, tk) <=>
           /\ Kept(rows, tk, "conf") /\ Kept(rows, tk, "topHolder")
           /\ Kept(rows, tk, "liq") /\ Kept(rows, tk, "h1Max")
           /\ Kept(rows, tk, "h1Min") /\ Kept(rows, tk, "peak")
  BY ReplayByField DEF Sweepable, PerClass
<1> QED BY <1>2, <1>6, <1>7, <1>8, <1>9, <1>10, <1>11, <1>12, <1>13

\* What bites is what should_signal refuses, but for the gates without a name.
LEMMA TwoWalks ==
    ASSUME NEW tk \in Analysis, tk.class \in RequiredClasses, tk.conf >= 65
    PROVE  /\ Bites(tk) => ~ShouldSignal(NoOverrides, 0, tk)
           /\ ~Bites(tk) /\ ~Unnamed(tk) => ShouldSignal(NoOverrides, 0, tk)
<1>1. /\ tk.topHolder \in Int /\ tk.top10 \in Int /\ tk.txRate \in Int
      /\ tk.bundle \in Int /\ tk.sniper \in Int /\ tk.insider \in Int
      /\ tk.conf \in Int
  BY DEF Analysis
<1>2. \/ tk.delta = None
      \/ /\ tk.delta # None
         /\ tk.delta.mom \in Int /\ tk.delta.holders \in Int /\ tk.delta.elapsed \in Int
  <2>1. tk.delta \in {None} \cup [mom : Int, holders : Int, elapsed : Int]
    BY DEF Analysis
  <2> QED BY <2>1
<1>3. tk.mcap \in Int \cup {None} BY DEF Analysis, Measure
<1>4. None \notin Int BY EvidenceAssumption
<1>5. Within(tk.mcap, 15, 5000) <=>
          tk.mcap # None /\ AtLeast(tk.mcap, 15) /\ AtMost(tk.mcap, 5000)
  BY DEF Within, AtLeast, AtMost
<1>6. Bites(tk) => ~ShouldSignal(NoOverrides, 0, tk)
  <2> SUFFICES ASSUME ShouldSignal(NoOverrides, 0, tk) PROVE ~Bites(tk)
    OBVIOUS
  <2>1. /\ tk.topHolder < 25 /\ tk.top10 < 50 /\ TradesSteadily(tk)
        /\ tk.liq # None /\ AtLeast(tk.liq, 25)
        /\ tk.vol # None /\ AtLeast(tk.vol, 50)
        /\ tk.mcap # None /\ AtLeast(tk.mcap, 15) /\ AtMost(tk.mcap, 5000)
        /\ tk.age # None /\ AtLeast(tk.age, 900)
        /\ LaunchClean(tk)
    BY <1>5, DefaultGate
  <2>2. /\ tk.delta # None /\ tk.delta.mom >= 0 /\ tk.delta.holders >= 0
        /\ tk.txRate >= 5 /\ ~PressureLow(tk) /\ ~PressureHigh(tk)
    BY <2>1 DEF TradesSteadily
  <2>3. tk.bundle < 30 /\ tk.insider < 25 /\ tk.sniper < 95
    BY <2>1 DEF LaunchClean
  <2>4. /\ ~(tk.topHolder >= 25) /\ ~(tk.top10 >= 50) /\ ~(tk.txRate < 5)
        /\ ~(tk.bundle >= 30) /\ ~(tk.insider >= 25) /\ ~(tk.sniper >= 95)
        /\ ~(tk.delta.mom < 0) /\ ~(tk.delta.holders < 0)
    BY <1>1, <1>2, <2>1, <2>2, <2>3
  <2> QED BY <2>1, <2>2, <2>4 DEF Bites
<1>7. ASSUME ~Bites(tk), ~Unnamed(tk) PROVE ShouldSignal(NoOverrides, 0, tk)
  <2>1. /\ ~(tk.topHolder >= 25) /\ ~(tk.top10 >= 50) /\ ~(tk.txRate < 5)
        /\ ~(tk.bundle >= 30) /\ ~(tk.insider >= 25) /\ ~(tk.sniper >= 95)
        /\ ~PressureLow(tk) /\ ~PressureHigh(tk)
        /\ tk.delta # None /\ ~(tk.delta.mom < 0)
        /\ ~(tk.delta.elapsed > 0 /\ tk.delta.holders < 0)
        /\ tk.liq # None /\ AtLeast(tk.liq, 25)
        /\ tk.vol # None /\ AtLeast(tk.vol, 50)
        /\ tk.mcap # None /\ AtLeast(tk.mcap, 15) /\ AtMost(tk.mcap, 5000)
        /\ tk.age # None /\ AtLeast(tk.age, 900)
    BY <1>7 DEF Bites
  <2>2. /\ ~(tk.conf < ClassFloor(tk.class))
        /\ ~(tk.sniper \in 40 .. 94 /\ tk.conf < 75)
        /\ ~(tk.delta # None /\ tk.delta.elapsed <= 0)
        /\ AtMost(tk.h1, 10000) /\ AtLeast(tk.h1, -100)
    BY <1>7 DEF Unnamed
  <2>3. ClassFloor(tk.class) \in Int BY DEF ClassFloor
  <2>4. TradesSteadily(tk) BY <1>1, <1>2, <2>1, <2>2 DEF TradesSteadily
  <2>5. LaunchClean(tk) BY <1>1, <2>1, <2>2 DEF LaunchClean
  <2>6. tk.topHolder < 25 /\ tk.top10 < 50 /\ tk.conf >= ClassFloor(tk.class)
    BY <1>1, <2>1, <2>2, <2>3
  <2> QED BY <1>5, <2>1, <2>2, <2>4, <2>5, <2>6, DefaultGate
<1> QED BY <1>6, <1>7

LEMMA NearMissOfAgrees ==
    ASSUME NEW tk \in Analysis
    PROVE  /\ NearMissOf(tk) # None => ~ShouldSignal(NoOverrides, 0, tk)
           /\ ~ShouldSignal(NoOverrides, 0, tk) /\ ~Unnamed(tk) => NearMissOf(tk) # None
<1>1. tk.conf \in Int BY DEF Analysis
<1>2. ASSUME NearMissOf(tk) # None PROVE ~ShouldSignal(NoOverrides, 0, tk)
  <2>1. CASE tk.conf < 65 BY <1>1, <2>1, DefaultGate
  <2>2. CASE tk.conf >= 65 BY <1>1, <1>2, <2>2, NearMissNamesAGate, TwoWalks
  <2> QED BY <1>1, <2>1, <2>2
<1>3. ASSUME ~ShouldSignal(NoOverrides, 0, tk), ~Unnamed(tk) PROVE NearMissOf(tk) # None
  <2>1. tk.class \in RequiredClasses /\ tk.conf >= 60
    BY <1>1, <1>3 DEF Unnamed
  <2>2. CASE tk.conf < 65 BY <2>1, <2>2, NearMissNamesAGate
  <2>3. CASE tk.conf >= 65 BY <1>3, <2>1, <2>3, NearMissNamesAGate, TwoWalks
  <2> QED BY <1>1, <2>2, <2>3
<1> QED BY <1>2, <1>3

LEMMA NearMissIsNamed ==
    ASSUME NEW tk \in Analysis
    PROVE  NearMissOf(tk) \in GateNames \cup {None}
<1> DEFINE q     == GateMisses(tk)
           bites == {i \in DOMAIN q : q[i][2]}
           least == CHOOSE i \in bites : \A j \in bites : i <= j
<1>1. NearMissOf(tk) = IF tk.class \notin RequiredClasses \/ tk.conf < 60 THEN None
                       ELSE IF tk.conf < 65 THEN "conf"
                       ELSE IF bites = {} THEN None
                       ELSE q[least][1]
  BY Zenon DEF NearMissOf
<1>2. bites # {} => q[least][1] \in GateNames
  <2>1. DOMAIN q = 1 .. 16 BY MissesOf
  <2>2. ASSUME bites # {} PROVE least \in 1 .. 16
    <3>1. bites \subseteq Nat /\ bites \subseteq 1 .. 16
      <4> HIDE DEF q
      <4> QED BY <2>1
    <3> HIDE DEF bites
    <3>2. \E i \in bites : \A j \in bites : i <= j BY <2>2, <3>1, LeastOf
    <3>3. least \in bites BY <3>2
    <3> QED BY <3>1, <3>3
  <2> HIDE DEF least, bites
  <2> QED BY <2>2, MissesOf
<1>3. "conf" \in GateNames BY DEF GateNames
<1> HIDE DEF q, bites, least
<1> QED BY <1>1, <1>2, <1>3

-----------------------------------------------------------------------------
(***************************************************************************)
(* The invariant.                                                          *)
(***************************************************************************)
GatesInv ==
    /\ token \in Analysis /\ scores \in Scores /\ tape \in Tapes
    /\ Committed(overrides)
    /\ threshold \in 0 .. 100 /\ halted \in BOOLEAN
    /\ opened \in {None, "none", "SIGNAL", "SCALP", "MOONSHOT"}
    /\ nearMiss \in GateNames \cup {None}
    /\ offered \subseteq Candidates
    /\ \A c \in offered : RankOffers(tape, c)

LEMMA GatesStart == GatesInit => GatesInv
<1> SUFFICES ASSUME GatesInit PROVE GatesInv OBVIOUS
<1>1. token \in Analysis /\ scores \in Scores /\ tape \in Tapes
  <2>1. PICK family \in Inputs : \E i \in family :
            token = i.token /\ scores = i.scores /\ tape = i.tape
    BY DEF GatesInit
  <2>2. PICK i \in family : token = i.token /\ scores = i.scores /\ tape = i.tape
    BY <2>1
  <2> QED BY <2>2, GatesAssumption
<1>2. DOMAIN overrides = {} BY DEF GatesInit, NoOverrides
<1>3. Committed(overrides) BY <1>2 DEF Committed
<1>4. threshold = 0 /\ halted = FALSE /\ opened = None /\ nearMiss = None /\ offered = {}
  BY Zenon DEF GatesInit
<1>5. /\ threshold \in 0 .. 100 /\ halted \in BOOLEAN
      /\ opened \in {None, "none", "SIGNAL", "SCALP", "MOONSHOT"}
      /\ nearMiss \in GateNames \cup {None}
  <2>1. 0 \in 0 .. 100 OBVIOUS
  <2> QED BY <1>4, <2>1
<1>6. offered \subseteq Candidates /\ \A c \in offered : RankOffers(tape, c)
  BY <1>4
<1> QED BY <1>1, <1>3, <1>5, <1>6 DEF GatesInv

LEMMA CommitKeeps ==
    ASSUME GatesInv, NEW k \in GateKnobs, NEW v, CommitTune(k, v)
    PROVE  GatesInv'
<1>1. Committed(overrides')
  <2>1. /\ v \in Validated(k[1])
        /\ overrides' = [x \in DOMAIN overrides \cup {k} |->
                            IF x = k THEN v ELSE overrides[x]]
    BY DEF CommitTune
  <2>2. /\ DOMAIN overrides \subseteq GateKnobs
        /\ \A x \in DOMAIN overrides : overrides[x] \in Validated(x[1])
    BY DEF GatesInv, Committed
  <2>3. DOMAIN overrides' = DOMAIN overrides \cup {k} BY <2>1
  <2>4. \A x \in DOMAIN overrides' : overrides'[x] \in Validated(x[1])
    BY <2>1, <2>2
  <2> QED BY <2>2, <2>3, <2>4 DEF Committed
<1>2. Committed(overrides)' <=> Committed(overrides') BY DEF Committed
<1> QED BY <1>1, <1>2 DEF GatesInv, CommitTune

LEMMA AnalyzeKeeps == GatesInv /\ Analyze => GatesInv'
<1> SUFFICES ASSUME GatesInv, Analyze PROVE GatesInv' OBVIOUS
<1>1. token' = [token EXCEPT !.class = FromScores(scores).class,
                             !.conf = FromScores(scores).total]
  BY DEF Analyze
<1>2. FromScores(scores).class \in Classes /\ FromScores(scores).total \in 0 .. 100
  BY ScoredIsTyped DEF GatesInv
<1>3. token' \in Analysis
  <2>1. token \in Analysis BY DEF GatesInv
  <2> QED BY <1>1, <1>2, <2>1 DEF Analysis
<1>4. scores' \in Scores BY DEF Analyze, Scores
<1> QED BY <1>3, <1>4 DEF GatesInv, Analyze, Committed

LEMMA DecideKeeps == GatesInv /\ Decide => GatesInv'
<1> SUFFICES ASSUME GatesInv, Decide PROVE GatesInv' OBVIOUS
<1>1. opened' \in {"none", "SIGNAL", "SCALP", "MOONSHOT"} BY DEF Decide, RouteOf
<1>2. nearMiss' \in GateNames \cup {None} BY NearMissIsNamed DEF Decide, GatesInv
<1> QED BY <1>1, <1>2 DEF GatesInv, Decide, Committed

LEMMA GatesStep == GatesInv /\ [GatesNext]_gateVars => GatesInv'
<1> SUFFICES ASSUME GatesInv, [GatesNext]_gateVars PROVE GatesInv' OBVIOUS
<1>1. ASSUME NEW k \in GateKnobs, NEW v, CommitTune(k, v) PROVE GatesInv'
  BY <1>1, CommitKeeps
<1>2. ASSUME NEW n \in Thresholds, SetThreshold(n) PROVE GatesInv'
  BY <1>2, GatesAssumption DEF GatesInv, SetThreshold, Committed
<1>3. ASSUME NEW b \in BOOLEAN, SetHalted(b) PROVE GatesInv'
  BY <1>3 DEF GatesInv, SetHalted, Committed
<1>4. CASE Rank BY <1>4 DEF GatesInv, Rank, Committed
<1>5. CASE UNCHANGED gateVars BY <1>5 DEF GatesInv, gateVars, Committed
<1> QED
  BY <1>1, <1>2, <1>3, <1>4, <1>5, AnalyzeKeeps, DecideKeeps DEF GatesNext

(***************************************************************************)
(* The token under review was measured, every committed row has passed     *)
(* validate_field_value, so the gates compare numbers with numbers, and    *)
(* what is offered cleared the floors of rank_tune_candidates.             *)
(***************************************************************************)
THEOREM GatesAreTyped == GatesSpec => []GatesInv
BY GatesStart, GatesStep, PTL DEF GatesSpec

(***************************************************************************)
(* The state has its type: a confidence is a percentage whatever the       *)
(* scores are, and only known knobs have rows.                             *)
(***************************************************************************)
THEOREM GateTypes == GatesSpec => []GatesTypeOK
<1>1. GatesInv => GatesTypeOK BY DEF GatesInv, GatesTypeOK, Committed, Analysis
<1> QED BY <1>1, GatesAreTyped, PTL

(***************************************************************************)
(* On every token, a gate that classify_near_miss names is one that        *)
(* should_signal refuses the token for; and a refused token is named a     *)
(* gate, unless a gate without a name is what bites.                       *)
(***************************************************************************)
THEOREM NearMissIsRight == GatesSpec => []NearMissAgrees
<1>1. GatesInv => NearMissAgrees BY NearMissOfAgrees DEF GatesInv, NearMissAgrees
<1> QED BY <1>1, GatesAreTyped, PTL

(***************************************************************************)
(* For every set of committed rows and every token, simulate_overrides     *)
(* keeps of what the constants let through exactly what should_signal will *)
(* keep, the listed rows apart.                                            *)
(***************************************************************************)
THEOREM ReplayIsExact == GatesSpec => []ReplayPredictsGate
<1>1. GatesInv => ReplayPredictsGate BY ReplayIsGate DEF GatesInv, ReplayPredictsGate
<1> QED BY <1>1, GatesAreTyped, PTL

(***************************************************************************)
(* For every tape of closed calls and every candidate, propose_tune        *)
(* accepts what rank_tune_candidates offers, unless the calls it keeps     *)
(* lost on average.                                                        *)
(***************************************************************************)
THEOREM RankedGainsAccepted == GatesSpec => []RankedGainIsAccepted
<1>1. GatesInv => RankedGainIsAccepted
  BY OfferedClears DEF GatesInv, RankedGainIsAccepted
<1> QED BY <1>1, GatesAreTyped, PTL

(***************************************************************************)
(* A list of scores that from_scores calls a staircase comes to a total    *)
(* of 70 or more: no fresh staircase is stopped by its class's own floor.  *)
(***************************************************************************)
THEOREM StaircasesClear == GatesSpec => []StaircaseClearsItsFloor
<1>1. ASSUME GatesInv, scores # <<>>, FromScores(scores).class = "STAIRCASE"
      PROVE  FromScores(scores).total >= ClassFloor("STAIRCASE")
  <2> DEFINE m == MomentumOf(scores)
             d == DistributionOf(scores)
             top == LastScoreOf(scores, "top_holder", 5)
  <2>1. m \in 0 .. 100 /\ d \in 0 .. 100
    BY <1>1, MomentumAndDistribution DEF GatesInv
  <2>2. ClassOf(scores) = "STAIRCASE" BY <1>1 DEF FromScores
  <2>3. ShapeOf(m, d) = "STAIRCASE" BY <2>2 DEF ClassOf
  <2>4. m > 70 /\ d > 50 BY <2>3 DEF ShapeOf
  <2>5. FromScores(scores).total = TotalOf(m, d, top, "STAIRCASE")
    BY <2>2 DEF FromScores
  <2>6. ClassFloor("STAIRCASE") = 70 BY DEF ClassFloor
  <2> HIDE DEF m, d, top
  <2> QED BY <2>1, <2>4, <2>5, <2>6, StaircaseTotal
<1>2. GatesInv => StaircaseClearsItsFloor BY <1>1 DEF StaircaseClearsItsFloor
<1> QED BY <1>2, GatesAreTyped, PTL
=============================================================================
