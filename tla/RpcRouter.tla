------------------------------- MODULE RpcRouter -------------------------------
(***************************************************************************)
(* The RPC router (ingester.rs): endpoints with a health flag, an error    *)
(* count and the time they were sidelined, each an atomic of its own, and  *)
(* the tasks that share them: the scanner, the publisher, buy tasks, the   *)
(* bots and the health tools hold one router. A request makes as many      *)
(* attempts as there are endpoints, each found round-robin from a counter  *)
(* all requests share; a health tool looks at every endpoint. One step     *)
(* here is one atomic operation of the code: the operations are relaxed,   *)
(* so a task may stop between any two of them.                             *)
(*                                                                         *)
(* Only "more than 3 errors" is ever asked of error_count, so it saturates *)
(* one above; only "at least the cooldown ago" of sidelined_at, so it is   *)
(* kept as the time since then, up to Cooldown, or Never for the stored 0. *)
(***************************************************************************)
EXTENDS Integers, FiniteSets

CONSTANTS
    N,          \* number of endpoints
    Tasks,      \* tasks that share the router, each with one call at a time
    Tools,      \* those that ask for the health of all endpoints now and then
    Tolerated,  \* errors an endpoint is allowed in rotation: 3 in the code
    Cooldown    \* SIDELINE_COOLDOWN_SECS, in ticks of the clock

ASSUME NAssumption == N \in Nat \ {0}
ASSUME ToolsAssumption == Tools \subseteq Tasks
ASSUME LimitsAssumption == Tolerated \in Nat /\ Cooldown \in Nat

Endpoints == 0..(N - 1)
Never     == -1

VARIABLES
    current,                      \* the shared round-robin counter, mod N
    errors, healthy, sidelined,   \* of each endpoint
    pc,
    start, offset,                \* of each task: where the search is
    tries,                        \* attempts of the request, 0 for a tool
    limited,                      \* the error at hand is a rate limit
    \* History, which no step reads:
    untried,                      \* of each request, the endpoints it has not
                                  \* looked at and no other has drawn since
    lost                          \* endpoints out of rotation whose time was
                                  \* wiped by a success or a reset

endpoints  == <<errors, healthy, sidelined>>
search     == <<start, offset, tries>>
history    == <<untried, lost>>
routerVars == <<current, endpoints, pc, search, limited, history>>

Recording == {"unstamp", "count", "sideline", "stamp", "limit"}
Rehab     == {"forgive", "forget", "revive"}
Reset     == {"reset errors", "reset health", "reset stamp"}
Places    == {"idle", "pick", "look", "age", "call", "gave up"}
                 \cup Recording \cup Rehab \cup Reset

RouterTypeOK ==
    /\ current \in Endpoints
    /\ errors \in [Endpoints -> 0..(Tolerated + 1)]
    /\ healthy \in [Endpoints -> BOOLEAN]
    /\ sidelined \in [Endpoints -> {Never} \cup 0..Cooldown]
    /\ pc \in [Tasks -> Places]
    /\ start \in [Tasks -> Endpoints] /\ offset \in [Tasks -> Endpoints]
    /\ tries \in [Tasks -> 0..N]
    /\ limited \in [Tasks -> BOOLEAN]
    /\ untried \in [Tasks -> SUBSET Endpoints]
    /\ lost \subseteq Endpoints

RouterInit ==
    /\ current = 0
    /\ errors = [e \in Endpoints |-> 0]
    /\ healthy = [e \in Endpoints |-> TRUE]
    /\ sidelined = [e \in Endpoints |-> Never]
    /\ pc = [t \in Tasks |-> "idle"]
    /\ start = [t \in Tasks |-> 0] /\ offset = [t \in Tasks |-> 0]
    /\ tries = [t \in Tasks |-> 0]
    /\ limited = [t \in Tasks |-> FALSE]
    /\ untried = [t \in Tasks |-> Endpoints] /\ lost = {}

\* idx in the search loop, and afterwards the endpoint the request goes to.
Idx(t) == (start[t] + offset[t]) % N

Goto(t, place) == pc' = [pc EXCEPT ![t] = place]

\* The call returns, and its locals are gone.
Return(t) ==
    /\ Goto(t, "idle")
    /\ start' = [start EXCEPT ![t] = 0] /\ offset' = [offset EXCEPT ![t] = 0]
    /\ tries' = [tries EXCEPT ![t] = 0]

-----------------------------------------------------------------------------
(* A request, and the scan of a health tool, which only looks.             *)

\* healthy_count and endpoint_stats ask is_healthy of each endpoint, and so
\* rehabilitate as a request does.
Observe(t) ==
    /\ t \in Tools /\ pc[t] = "idle"
    /\ Goto(t, "look")
    /\ UNCHANGED <<current, endpoints, search, limited, history>>

\* The endpoint the counter stands at is drawn by t: for the requests of the
\* others that endpoint has had its turn.
Drawn(t) ==
    untried' = [u \in Tasks |-> IF u = t \/ tries[u] = 0
                                THEN untried[u] ELSE untried[u] \ {current}]

\* Slip: the counter is only moved on by a request that succeeded.
PickSame(t) ==
    /\ pc[t] \in {"idle", "pick"}
    /\ Goto(t, "look")
    /\ tries' = [tries EXCEPT ![t] = @ + 1]
    /\ start' = [start EXCEPT ![t] = current]
    /\ offset' = [offset EXCEPT ![t] = 0]
    /\ Drawn(t)
    /\ UNCHANGED <<current, endpoints, limited, lost>>

\* next_client, for the first attempt of a request or a later one: fetch_add on
\* the shared counter.
Pick(t) ==
    /\ pc[t] \in {"idle", "pick"}
    /\ Goto(t, "look")
    /\ tries' = [tries EXCEPT ![t] = @ + 1]
    /\ start' = [start EXCEPT ![t] = current]
    /\ offset' = [offset EXCEPT ![t] = 0]
    /\ current' = (current + 1) % N
    /\ Drawn(t)
    /\ UNCHANGED <<endpoints, limited, lost>>

\* The endpoint at hand is usable, or is not: what the search does next.
Further(t) ==
    /\ offset[t] + 1 < N /\ Goto(t, "look")
    /\ offset' = [offset EXCEPT ![t] = @ + 1]
    /\ UNCHANGED <<start, tries>>

Usable(t) ==
    \/ tries[t] > 0 /\ Goto(t, "call") /\ UNCHANGED search
    \/ tries[t] = 0 /\ Further(t)
    \/ tries[t] = 0 /\ offset[t] + 1 = N /\ Return(t)

Unusable(t) ==
    \/ Further(t)
    \/ tries[t] = 0 /\ offset[t] + 1 = N /\ Return(t)
    \/ /\ tries[t] > 0 /\ offset[t] + 1 = N
       /\ Goto(t, "reset errors")
       /\ offset' = [offset EXCEPT ![t] = 0] /\ UNCHANGED <<start, tries>>

\* is_healthy, first half: load of the flag.
Look(t) ==
    /\ pc[t] = "look"
    /\ untried' = IF tries[t] = 0 THEN untried
                  ELSE [untried EXCEPT ![t] = @ \ {Idx(t)}]
    /\ IF healthy[Idx(t)] THEN Usable(t) ELSE Goto(t, "age") /\ UNCHANGED search
    /\ UNCHANGED <<current, endpoints, limited, lost>>

\* Slip: no probation; only a reset brings a sidelined endpoint back.
AgeNoProbation(t) ==
    /\ pc[t] = "age"
    /\ Unusable(t)
    /\ UNCHANGED <<current, endpoints, limited, history>>

\* is_healthy, second half: load of sidelined_at and the clock.
Age(t) ==
    /\ pc[t] = "age"
    /\ IF sidelined[Idx(t)] = Cooldown
       THEN Goto(t, "forgive") /\ UNCHANGED search
       ELSE Unusable(t)
    /\ UNCHANGED <<current, endpoints, limited, history>>

\* The history of a store: e is back in rotation, or the time it went out is
\* gone and, if it is out, nothing is left to end its cooldown.
Back(e)  == lost' = lost \ {e}
Wiped(e) ==
    /\ sidelined' = [sidelined EXCEPT ![e] = Never]
    /\ lost' = IF healthy[e] THEN lost ELSE lost \cup {e}
    /\ UNCHANGED healthy

\* The probationary reset: three stores, of which the flag is the last.
Probation(t) ==
    /\ \/ /\ pc[t] = "forgive" /\ Goto(t, "forget")
          /\ errors' = [errors EXCEPT ![Idx(t)] = 0]
          /\ UNCHANGED <<healthy, sidelined, search, lost>>
       \/ /\ pc[t] = "forget" /\ Goto(t, "revive")
          /\ sidelined' = [sidelined EXCEPT ![Idx(t)] = Never]
          /\ UNCHANGED <<errors, healthy, search, lost>>
       \/ /\ pc[t] = "revive" /\ Usable(t)
          /\ healthy' = [healthy EXCEPT ![Idx(t)] = TRUE]
          /\ Back(Idx(t))
          /\ UNCHANGED <<errors, sidelined>>
    /\ UNCHANGED <<current, limited, untried>>

\* All unhealthy: reset_errors of each endpoint in turn, then the first one.
ResetAll(t) ==
    /\ \/ /\ pc[t] = "reset errors" /\ Goto(t, "reset health")
          /\ errors' = [errors EXCEPT ![offset[t]] = 0]
          /\ UNCHANGED <<healthy, sidelined, offset, lost>>
       \/ /\ pc[t] = "reset health" /\ Goto(t, "reset stamp")
          /\ healthy' = [healthy EXCEPT ![offset[t]] = TRUE]
          /\ Back(offset[t])
          /\ UNCHANGED <<errors, sidelined, offset>>
       \/ /\ pc[t] = "reset stamp" /\ Wiped(offset[t])
          /\ IF offset[t] + 1 < N
             THEN /\ Goto(t, "reset errors")
                  /\ offset' = [offset EXCEPT ![t] = @ + 1]
             ELSE Goto(t, "call") /\ offset' = [offset EXCEPT ![t] = 0]
          /\ UNCHANGED errors
    /\ UNCHANGED <<current, start, tries, limited, untried>>

-----------------------------------------------------------------------------
(* The answer of the provider and what is recorded of it.                  *)

\* What is left untried is counted afresh for the next request.
Ended(t) == Return(t) /\ untried' = [untried EXCEPT ![t] = Endpoints]

\* record_success: two stores. The error count stays.
RecordSuccess(t) ==
    /\ \/ /\ pc[t] = "call" /\ Goto(t, "unstamp")
          /\ healthy' = [healthy EXCEPT ![Idx(t)] = TRUE]
          /\ Back(Idx(t))
          /\ UNCHANGED <<sidelined, search, untried>>
       \/ pc[t] = "unstamp" /\ Ended(t) /\ Wiped(Idx(t))
    /\ UNCHANGED <<current, errors, limited>>

\* record_error is over: the rate limit, the next endpoint, or no more of them.
Recorded(t) ==
    \/ limited[t] /\ Goto(t, "limit") /\ UNCHANGED search
    \/ ~limited[t] /\ tries[t] < N /\ Goto(t, "pick") /\ UNCHANGED search
    \/ ~limited[t] /\ tries[t] = N /\ Goto(t, "gave up") /\ UNCHANGED search

\* Err(last_err): the caller has an error and the request is over.
GiveUp(t) ==
    /\ pc[t] = "gave up"
    /\ Ended(t)
    /\ UNCHANGED <<current, endpoints, limited, lost>>

\* record_error: fetch_add on error_count ...
RecordError(t) ==
    /\ pc[t] = "call" /\ Goto(t, "count")
    /\ \E l \in BOOLEAN : limited' = [limited EXCEPT ![t] = l]
    /\ errors' = [errors EXCEPT ![Idx(t)] = IF @ <= Tolerated THEN @ + 1 ELSE @]
    /\ UNCHANGED <<current, healthy, sidelined, search, history>>

\* ... and a load of it ...
Count(t) ==
    /\ pc[t] = "count"
    /\ IF errors[Idx(t)] > Tolerated THEN Goto(t, "sideline") /\ UNCHANGED search
       ELSE Recorded(t)
    /\ UNCHANGED <<current, endpoints, limited, history>>

\* ... a swap of the flag, for record_error and for record_failure ...
Sideline(t) ==
    /\ pc[t] = "sideline"
    /\ healthy' = [healthy EXCEPT ![Idx(t)] = FALSE]
    /\ IF healthy[Idx(t)] THEN Goto(t, "stamp") /\ UNCHANGED search
       ELSE Recorded(t)
    /\ UNCHANGED <<current, errors, sidelined, limited, history>>

\* Slip: the flag is swapped and the time is not stored.
StampForgotten(t) ==
    /\ pc[t] = "stamp"
    /\ Recorded(t)
    /\ UNCHANGED <<current, endpoints, limited, history>>

\* ... and a store of the time.
Stamp(t) ==
    /\ pc[t] = "stamp"
    /\ sidelined' = [sidelined EXCEPT ![Idx(t)] = 0]
    /\ Back(Idx(t))
    /\ Recorded(t)
    /\ UNCHANGED <<current, errors, healthy, limited, untried>>

\* record_failure of a rate limit: the error count is raised past what is
\* tolerated, then the swap and the store of record_error once more.
RateLimit(t) ==
    /\ pc[t] = "limit" /\ Goto(t, "sideline")
    /\ errors' = [errors EXCEPT ![Idx(t)] = Tolerated + 1]
    /\ limited' = [limited EXCEPT ![t] = FALSE]
    /\ UNCHANGED <<current, healthy, sidelined, search, history>>

Tick ==
    /\ \E e \in Endpoints : sidelined[e] \in 0..(Cooldown - 1)
    /\ sidelined' = [e \in Endpoints |->
                       IF sidelined[e] \in 0..(Cooldown - 1)
                       THEN sidelined[e] + 1 ELSE sidelined[e]]
    /\ UNCHANGED <<current, errors, healthy, pc, search, limited, history>>

-----------------------------------------------------------------------------
TaskStep(t) ==
    \/ Observe(t) \/ Pick(t) \/ Look(t) \/ Age(t) \/ Probation(t) \/ ResetAll(t)
    \/ RecordSuccess(t) \/ RecordError(t) \/ Count(t) \/ Sideline(t) \/ Stamp(t)
    \/ RateLimit(t) \/ GiveUp(t)

RouterNext == (\E t \in Tasks : TaskStep(t)) \/ Tick

RouterSpec == RouterInit /\ [][RouterNext]_routerVars

\* A provider that does not answer is a failed call after RPC_CALL_TIMEOUT, and
\* the tasks are loops that issue requests in every round. A step of a task is
\* always enabled and its steps come back to "look", so this is weak fairness of
\* TaskStep(t), said of states.
RouterFairness ==
    /\ WF_routerVars(Tick)
    /\ \A t \in Tasks : []<>(pc[t] = "look") /\ []<>(pc[t] # "look")

RouterFairSpec == RouterSpec /\ RouterFairness

-----------------------------------------------------------------------------
\* The attempts of a request are counted, not the endpoints, and later requests
\* move the counter on under it. Still, when it gives up, every endpoint it did
\* not look at was handed to another request while it ran.
GaveUpAfterAll == \A t \in Tasks : pc[t] = "gave up" => untried[t] = {}

\* An endpoint that is out of rotation has the time it went out, or a task is
\* about to store it or to bring the endpoint back. The one way to lose it is a
\* success or a reset whose second store comes after the endpoint went out.
SidelineRemembered ==
    \A e \in Endpoints : ~healthy[e] /\ sidelined[e] = Never =>
        e \in lost \/ \E t \in Tasks : pc[t] \in {"stamp", "revive"} /\ Idx(t) = e

\* A rate-limit hour does not retire a provider: every endpoint that went out
\* and was not lost comes back, whatever the others answer.
EndpointReturns ==
    \A e \in Endpoints : ~healthy[e] /\ e \notin lost ~> healthy[e] \/ e \in lost

\* What the comment of SIDELINE_COOLDOWN_SECS claims, for every endpoint.
NoneRetired == \A e \in Endpoints : ~healthy[e] ~> healthy[e]
=============================================================================
