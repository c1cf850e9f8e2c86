---------------------------- MODULE SignalTunes ----------------------------
(***************************************************************************)
(* Proposals to change how the scanner signals, and their life: the agent  *)
(* or the operator proposes a threshold for a knob (a field and scope) or  *)
(* a new agent prompt, commits it with a diary entry, and may revert it    *)
(* (src/src/mcp.rs, tables tune_proposals, prompt_proposals,               *)
(* signal_overrides, agent_prompt and evolution_events of src/src/db.rs).  *)
(*                                                                         *)
(* Every statement takes the database lock anew, so a handler is a         *)
(* sequence of statements between which the other handlers run; a failed   *)
(* statement returns at once and leaves what was written before it.        *)
(***************************************************************************)
EXTENDS TuneEvidence, SequencesExt

CONSTANTS Handlers,    \* tool calls being served
          Knobs,       \* (field, scope) pairs
          Prompt,      \* the agent prompt, a knob with a history of its own
          Evidence,    \* the evidence records an agent may send
          Cooldown,    \* TUNE_COOLDOWN_SECS in ticks
          ListLimit,   \* rows that propose_tune looks at, 200
          MaxProposals, MaxEvents, MaxTime, MaxFaults

ASSUME TunesAssumption ==
    /\ Prompt \notin Knobs /\ None \notin Knobs \cup {Prompt}
    /\ IsFiniteSet(Handlers)
    /\ Cooldown \in Nat /\ ListLimit \in Nat \ {0}
    /\ {MaxProposals, MaxEvents, MaxTime, MaxFaults} \subseteq Nat

VARIABLES proposals, \* rows of both proposal tables, by id
          override,  \* knob -> id of the proposal that set the row, 0 for none
          prompts,   \* agent_prompt: the proposal behind each version
          events,    \* evolution_events: [by, posted]
          handler,   \* what each handler does next
          now,
          faults,    \* failed statements and lost handlers so far
          disturbed, \* knobs on which two handlers met or one gave up half-way
          unread     \* knobs proposed for without the list of proposals

ghosts == <<disturbed, unread>>
vars   == <<proposals, override, prompts, events, handler, now, faults, ghosts>>

Ids    == 1 .. MaxProposals
Targets == Knobs \cup {Prompt}
Statuses == {"pending", "committed", "reverted"}
Proposal == [knob : Targets, status : Statuses, at : 0 .. MaxTime,
             decided : 0 .. MaxTime \cup {None}, event : 0 .. MaxEvents]
Steps  == {"idle", "insert", "apply", "event", "status", "publish", "delete",
           "unmark"}
Idle   == [pc |-> "idle", knob |-> None, id |-> 0, event |-> 0, at |-> 0]

TypeOK ==
    /\ Len(proposals) <= MaxProposals /\ Range(proposals) \subseteq Proposal
    /\ override \in [Knobs -> 0 .. MaxProposals]
    /\ Range(prompts) \subseteq Ids
    /\ Len(events) <= MaxEvents
    /\ Range(events) \subseteq [by : 0 .. MaxProposals, posted : BOOLEAN]
    /\ handler \in [Handlers -> [pc : Steps, knob : Targets \cup {None},
                                 id : 0 .. MaxProposals,
                                 event : 0 .. MaxEvents, at : 0 .. MaxTime]]
    /\ now \in 1 .. MaxTime /\ faults \in 0 .. MaxFaults
    /\ disturbed \subseteq Targets /\ unread \subseteq Knobs

Init ==
    /\ proposals = <<>> /\ prompts = <<>> /\ events = <<>>
    /\ override = [k \in Knobs |-> 0]
    /\ handler = [h \in Handlers |-> Idle]
    /\ now = 1 /\ faults = 0 /\ disturbed = {} /\ unread = {}

(***************************************************************************)
(* A handler at work on knob k, and what a new one does to the ghost.      *)
(***************************************************************************)
Busy(k) == \E h \in Handlers : handler[h].pc # "idle" /\ handler[h].knob = k
Meet(k) == disturbed' = IF Busy(k) THEN disturbed \cup {k} ELSE disturbed

Goes(h, rec) == handler' = [handler EXCEPT ![h] = rec]
Next_(h, pc) == handler' = [handler EXCEPT ![h].pc = pc]
Ends(h)      == handler' = [handler EXCEPT ![h] = Idle]

(***************************************************************************)
(* list_tune_proposals: the newest rows by the time of the proposal; ties  *)
(* go either way. The table holds no prompts.                              *)
(***************************************************************************)
Tunes == {id \in DOMAIN proposals : proposals[id].knob \in Knobs}

Listing(L) ==
    /\ L \subseteq Tunes
    /\ \A id \in Tunes \ L, l \in L : proposals[l].at >= proposals[id].at
    /\ L = Tunes \/ Cardinality(L) = ListLimit
    /\ Cardinality(L) <= ListLimit

(***************************************************************************)
(* propose_tune up to the insert: on the rows it gets, no proposal for the *)
(* knob is pending and every decision on it is older than the cool-down.   *)
(* If the list cannot be read it goes on without (`if let Ok(prior)`). The *)
(* evidence is above the floors.                                           *)
(***************************************************************************)
KnobFree(k, L) ==
    \A id \in L : proposals[id].knob = k =>
        /\ proposals[id].status # "pending"
        /\ proposals[id].decided # None => now - proposals[id].decided >= Cooldown

Propose(h, k) ==
    /\ handler[h].pc = "idle"
    /\ Goes(h, [Idle EXCEPT !.pc = "insert", !.knob = k, !.at = now])
    /\ Meet(k)
    /\ UNCHANGED <<proposals, override, prompts, events, now>>

ProposeTune(h, k) ==
    /\ \E L \in SUBSET Tunes : Listing(L) /\ KnobFree(k, L)
    /\ \E ev \in Evidence : FloorsAccept(ev)
    /\ Propose(h, k)
    /\ UNCHANGED <<faults, unread>>

ProposeUnread(h, k) ==
    /\ faults < MaxFaults /\ faults' = faults + 1
    /\ \E ev \in Evidence : FloorsAccept(ev)
    /\ Propose(h, k)
    /\ unread' = unread \cup {k}

(***************************************************************************)
(* propose_prompt up to the insert: bounds on the text only.               *)
(***************************************************************************)
ProposePrompt(h) == Propose(h, Prompt) /\ UNCHANGED <<faults, unread>>

InsertProposal(h) ==
    /\ handler[h].pc = "insert" /\ Len(proposals) < MaxProposals
    /\ proposals' = Append(proposals,
           [knob |-> handler[h].knob, status |-> "pending",
            at |-> handler[h].at, decided |-> None, event |-> 0])
    /\ Ends(h)
    /\ UNCHANGED <<override, prompts, events, now, faults, ghosts>>

(***************************************************************************)
(* commit_tune and commit_prompt read the row, check that it is pending    *)
(* and take the time; then four statements follow, the last one after the  *)
(* post to the channel.                                                    *)
(***************************************************************************)
BeginCommit(h, id) ==
    /\ handler[h].pc = "idle" /\ id \in DOMAIN proposals
    /\ proposals[id].status = "pending"
    /\ Goes(h, [Idle EXCEPT !.pc = "apply", !.knob = proposals[id].knob,
                            !.id = id, !.at = now])
    /\ Meet(proposals[id].knob)
    /\ UNCHANGED <<proposals, override, prompts, events, now, faults, unread>>

ApplyOverride(h) ==
    /\ handler[h].pc = "apply" /\ handler[h].knob \in Knobs
    /\ override' = [override EXCEPT ![handler[h].knob] = handler[h].id]
    /\ Next_(h, "event")
    /\ UNCHANGED <<proposals, prompts, events, now, faults, ghosts>>

(***************************************************************************)
(* append_prompt: the row id is the version; the version the proposal was  *)
(* written against is not looked at.                                       *)
(***************************************************************************)
AppendPrompt(h) ==
    /\ handler[h].pc = "apply" /\ handler[h].knob = Prompt
    /\ prompts' = Append(prompts, handler[h].id)
    /\ Next_(h, "event")
    /\ UNCHANGED <<proposals, override, events, now, faults, ghosts>>

(* Mutant: the diary is not written. *)
TellEventNothing(h) ==
    /\ handler[h].pc = "event"
    /\ Next_(h, "status")
    /\ UNCHANGED <<proposals, override, prompts, events, now, faults, ghosts>>

TellEvent(h) ==
    /\ handler[h].pc = "event" /\ Len(events) < MaxEvents
    /\ events' = Append(events, [by |-> handler[h].id, posted |-> FALSE])
    /\ handler' = [handler EXCEPT ![h].pc = "status",
                                  ![h].event = Len(events) + 1]
    /\ UNCHANGED <<proposals, override, prompts, now, faults, ghosts>>

(***************************************************************************)
(* update_proposal_status writes by id alone, whatever the status is now.  *)
(***************************************************************************)
UpdateStatus(id, status, at, event) ==
    proposals' = [proposals EXCEPT ![id].status = status,
                                   ![id].decided = at, ![id].event = event]

MarkCommitted(h) ==
    /\ handler[h].pc = "status"
    /\ UpdateStatus(handler[h].id, "committed", handler[h].at, handler[h].event)
    /\ Next_(h, "publish")
    /\ UNCHANGED <<override, prompts, events, now, faults, ghosts>>

(***************************************************************************)
(* publish_evolution stamps posted_at whether or not the channel took the  *)
(* post.                                                                   *)
(***************************************************************************)
Publish(h) ==
    /\ handler[h].pc = "publish"
    /\ events' = [events EXCEPT ![handler[h].event].posted = TRUE]
    /\ Ends(h)
    /\ UNCHANGED <<proposals, override, prompts, now, faults, ghosts>>

(***************************************************************************)
(* commit_site_change: a diary entry without a proposal.                   *)
(***************************************************************************)
CommitSite(h) ==
    /\ handler[h].pc = "idle" /\ Len(events) < MaxEvents
    /\ events' = Append(events, [by |-> 0, posted |-> FALSE])
    /\ Goes(h, [Idle EXCEPT !.pc = "publish", !.event = Len(events) + 1])
    /\ UNCHANGED <<proposals, override, prompts, now, faults, ghosts>>

(***************************************************************************)
(* revert_tune deletes the row of the knob, whoever set it, and marks the  *)
(* proposal; get_tune_proposal only knows tune proposals.                  *)
(***************************************************************************)
BeginRevert(h, id) ==
    /\ handler[h].pc = "idle" /\ id \in DOMAIN proposals
    /\ proposals[id].knob \in Knobs /\ proposals[id].status = "committed"
    /\ Goes(h, [Idle EXCEPT !.pc = "delete", !.knob = proposals[id].knob,
                            !.id = id, !.event = proposals[id].event])
    /\ Meet(proposals[id].knob)
    /\ UNCHANGED <<proposals, override, prompts, events, now, faults, unread>>

(* Mutant: the row of the knob stays. *)
DeleteOverrideForgotten(h) ==
    /\ handler[h].pc = "delete"
    /\ Next_(h, "unmark")
    /\ UNCHANGED <<proposals, override, prompts, events, now, faults, ghosts>>

DeleteOverride(h) ==
    /\ handler[h].pc = "delete"
    /\ override' = [override EXCEPT ![handler[h].knob] = 0]
    /\ Next_(h, "unmark")
    /\ UNCHANGED <<proposals, prompts, events, now, faults, ghosts>>

MarkReverted(h) ==
    /\ handler[h].pc = "unmark"
    /\ UpdateStatus(handler[h].id, "reverted", now, handler[h].event)
    /\ Ends(h)
    /\ UNCHANGED <<override, prompts, events, now, faults, ghosts>>

(***************************************************************************)
(* The next statement of the handler fails, or its process ends: it writes *)
(* nothing more.                                                           *)
(***************************************************************************)
GiveUp(h) ==
    /\ handler[h].pc # "idle" /\ faults < MaxFaults
    /\ faults' = faults + 1
    /\ disturbed' = IF handler[h].pc \in {"insert", "apply", "delete", "publish"}
                    THEN disturbed ELSE disturbed \cup {handler[h].knob}
    /\ Ends(h)
    /\ UNCHANGED <<proposals, override, prompts, events, now, unread>>

Tick ==
    /\ now < MaxTime /\ now' = now + 1
    /\ UNCHANGED <<proposals, override, prompts, events, handler, faults, ghosts>>

Serve(h) ==
    \/ InsertProposal(h) \/ ApplyOverride(h) \/ AppendPrompt(h) \/ TellEvent(h)
    \/ MarkCommitted(h) \/ Publish(h) \/ DeleteOverride(h) \/ MarkReverted(h)

Next ==
    \/ Tick
    \/ \E h \in Handlers :
         \/ \E k \in Knobs : ProposeTune(h, k) \/ ProposeUnread(h, k)
         \/ ProposePrompt(h) \/ CommitSite(h)
         \/ \E id \in Ids : BeginCommit(h, id) \/ BeginRevert(h, id)
         \/ Serve(h) \/ GiveUp(h)

Spec == Init /\ [][Next]_vars
-----------------------------------------------------------------------------
Of(k, status) == {id \in DOMAIN proposals : /\ proposals[id].knob = k
                                            /\ proposals[id].status = status}
Settled(k) == k \notin disturbed /\ ~Busy(k)

(***************************************************************************)
(* The diary has an entry, by the proposal itself, for every proposal that *)
(* was ever committed, wherever a handler stopped and whichever handlers   *)
(* met: commit_tune and commit_prompt tell before they mark.               *)
(***************************************************************************)
CommittedTold ==
    \A id \in DOMAIN proposals : proposals[id].status # "pending" =>
        /\ proposals[id].event \in DOMAIN events
        /\ events[proposals[id].event].by = id

(***************************************************************************)
(* On a knob where no two handlers met and none gave up half-way: the      *)
(* threshold in force is the one of a committed proposal, the last that    *)
(* the diary tells of the knob; a proposal is pending beside another only  *)
(* if the list could not be read, or if so many newer proposals hid it;    *)
(* and every version of the prompt belongs to its own committed proposal.  *)
(***************************************************************************)
ToldOf(k) == {e \in DOMAIN events : \E id \in DOMAIN proposals :
                                      events[e].by = id /\ proposals[id].knob = k}

Hidden(id) ==
    Cardinality({n \in Tunes \ {id} : proposals[n].at >= proposals[id].at}) >= ListLimit

InForceIsCommitted ==
    /\ \A k \in Knobs : Settled(k) =>
         /\ override[k] # 0 =>
               /\ override[k] \in Of(k, "committed")
               /\ \A e \in ToldOf(k) : e <= proposals[override[k]].event
         /\ k \notin unread =>
               \A p, q \in Of(k, "pending") : p < q => Hidden(p)
    /\ Settled(Prompt) => /\ IsInjective(prompts)
                          /\ Range(prompts) = Of(Prompt, "committed")

(***************************************************************************)
(* What the comment on revert_tune says, that it deletes the row matching  *)
(* the proposal: a committed tune stays in force while it is not reverted. *)
(***************************************************************************)
CommittedStaysInForce ==
    \A k \in Knobs : Settled(k) /\ Of(k, "committed") # {} => override[k] # 0
=============================================================================
