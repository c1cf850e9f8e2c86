# exciton in TLA+

exciton is a Rust service that watches new Solana tokens, publishes *calls* on
some of them, may buy and later sell each call with a real wallet, and reports
the outcome in Telegram and on a public site. These modules model the parts
whose correctness depends on several tasks, the database, the chain, the channel
and the site agreeing with each other. TLC checks them on small instances; TLAPS
proves the main ones for every instance.

    tlc -config CallTrading_safety.cfg MCCallTrading.tla
    tlapm CallTradingProofs.tla

Paths such as `scanner.rs` are under `src/src/`.

## 1. The system

### Tasks

`main.rs` builds one `Db` (a SQLite connection behind a mutex, so every SQL
statement is atomic) and starts tasks on one tokio runtime:

| task | period | writes |
|---|---|---|
| `BackgroundScanner` (scanner.rs) | ~15 s | tokens, snapshots, watchlist, calls, deliveries, digests, holdings; starts buys and card tasks |
| `spawn_buy` (notifier.rs), one per auto-call | once | calls, chain |
| card tasks: outcome of a closed call, card of a manual call | once | channel, deliveries |
| launch forensics (launch_forensics.rs), wallet traces (wallet_observer.rs), one per mint | once | newest snapshot; wallet trades |
| `Publisher` (publisher.rs) | 300 s or a kick | expires calls, wallet ledger, the edge |
| scout loop, `wallet_cache`, image generation | 300 s | receipt and detail files, cache |
| PumpPortal and Bitquery streams, discovery pollers | events | tokens, watchlist |
| alert acknowledgement, smart-wallet promotion | 60 s, 1 h | alerts, wallets |
| private and public Telegram bots, MCP server, claw HTTP API | requests | calls, cards, tunes, wallets |

They interleave at every await. They share the tables, the `RpcRouter`, the set
of mints in forensics and the publisher's `Notify`; there is no other lock. A
crash or a redeploy loses every task and keeps the tables, the files, the chain
and the channel.

### Components

| component | state | operations | what makes it correct | module |
|---|---|---|---|---|
| Call ledger and positions (db.rs, execution.rs, notifier.rs `spawn_buy`) | `calls` rows, swaps on the chain | insert, expire, close, fail, void, mark attempt, record buy and sell | one active call per mint, one buy per mint, sells match buys, verdicts stay, everything ends | CallTrading, CallLedger |
| Settling rules (scanner.rs `settle_calls`, horizon.rs) | snapshots, alerts, age of a call | event exits, collapse, trailing stop, four ladders, expiry | wins are not losses, wicks stop nothing, flat calls close | SettleLadder, SettleWatch |
| Cards, deliveries, milestones (notifier.rs, mcp.rs) | `telegram_deliveries`, messages, `peak_announced_pct` | promote, update, rebound, milestone reply, verdict, refresh, demote | a reply is told once, an auto-call has a card, no early verdict, no stale signal | CallCards, CallBoard |
| RPC router (ingester.rs) | health, error count, sideline time per endpoint; shared counter | next_client, record_*, probation, reset | a request finds a healthy endpoint, an endpoint comes back | RpcRouter |
| Signal gates (signals/mod.rs, notifier.rs `should_signal`) | threshold overrides | score, classify, gate, near-miss report, replay | what is reported or replayed is what the gate does | TokenScore, SignalGates |
| Signal tunes (mcp.rs, db.rs) | proposals, overrides, prompt history, diary | propose, commit, reject, revert | what is in force was committed and told | TuneEvidence, SignalTunes |
| Signal analysis (signals/mod.rs, launch_forensics.rs) | newest snapshot, claims on a mint | analyze_token, background forensics | one measurement at a time, what was measured stays | TokenAnalysis |
| Token registry, watchlist, discovery (db.rs, scanner.rs, main.rs, pumpportal.rs, bitquery.rs, discovery*.rs) | tokens, watchlist rows, stream freshness | insert or replace, add, rescan, evict, drop, hand off; connect, walk when stale | no row is judged unseen, the scanner walks by itself while the stream is silent | TokenRegistry |
| Publisher and Worker (publisher.rs, worker/src/index.js) | permit, tick, staging, wallet ledger, files, the edge | wake, tick phases, post, scout pass | the site catches up, due calls close, the ledger has no silent gap, receipts are frozen | SitePublisher |
| Smart wallets (wallet_observer.rs, scanner.rs, main.rs, bot.rs) | traces, observed buys, list, holdings, alerts | trace, promote, watch, unwatch, scan | a buy is told and not hidden by a crash | SmartWallets |
| Digest (notifier.rs) | one row and message per hour | tick, finalise | one message per hour, a wrap-up stays, hours close | HourDigest |
| Anchor (notifier.rs) | stored message id, forwards | bump | one anchor, below every card | AnchorBump |
| Claw agent (crates/claw) | OAuth profile, review loop | token refresh, provider fallback | one refresh at a time, no loss of the refresh token | not modelled |
| Market, metadata, rendering, pages | none of consequence | fetch, draw, serve | - | not modelled: I/O and layout |

The hard behaviours, with their lines, are the `hazards` of `PROJECT.json`.
Three shapes recur. A task reads a row, awaits the network, and writes by a key
that may name another state by then. A side effect (a swap, a message) is
followed by the write that remembers it, and the process can die in between.
Two pieces of code decide on the same thing by different rules.

## 2. Modules

**CallTrading** is the core. Variables are the columns of `calls` that decide
anything, the set of mints with a delivery row, what has become of each swap on
the chain, the program counter of each buy task and of the scanner, and a count
of faults. One action is one SQL statement with what surrounds it up to the next
await. `Examine`, `Route...`, `SendSell`, `SellOk`, `SellErr`, `ApplyVerdict`
are one iteration of the `settle_calls` loop; `BalanceOk`, `SizeOk`, `TakeSlot`,
`SendBuy`, `BuyOk`, `BuyFails` are `spawn_buy` with `execute_buy_for_call`. The
chain decides at any later time whether a sent swap lands. What the ladders say
is an arbitrary outcome here, because no rule depends on the money.

**CallLedger** is the abstract promise: a row is opened on a mint without an
active one, closed once, voided only while no money is in it; money enters a
mint once and leaves once. `ImplementsLedger` maps the columns to `held`.

**SettleLadder** is the decision as operators on a *reading* of a call;
`Rule(r)` is the first rule that fires and `Verdict` its status. **SettleWatch**
adds the history a reading is taken from: snapshots with price, confidence and
flags, alerts, the clock, the publisher's expiry. Prices are whole percents,
as every threshold is. **SettleClaims** and **CallClaims** hold statements of the
repository's own comments that the code does not keep.

**CallCards** is the card of one mint: the row, what the message shows, the
replies, the stored tier, and each task's place between its read and its write.
The ledger is reduced to "none, active, closed". The client gives up on Telegram
after 10 s (notifier.rs:599), so a send, an edit or a reply that failed may have
been done: the channel shows it and the task goes on as if it did not. Each such
case is a fault (`ReplyTimesOut` is the reply).

**CallBoard** is the abstract promise of that channel, with no task, read or
stored tier in it: an automatic call stands on a row, a row is inserted once and
never taken back, an edit, a verdict or a reply needs a row, a verdict is not
drawn while the mint's only call is open, a milestone of a call is told once and
once more at most for each fault, a delivery that was reported as failed being one
(`TellLost`). `ImplementsBoard` needs no mapping but that of
names: the variables of CallCards that are not in CallBoard are hidden.

**RpcRouter** models the endpoints one atomic operation per step, under any number
of tasks that share the router and its counter; a task makes one request at a time
(as many attempts as there are endpoints) and, if it is a tool, looks at every
endpoint's health in between. `untried` (what a request has neither looked at nor
seen handed to another) and `lost` (endpoints whose sideline time was wiped) are
history variables. `error_count`
saturates at 4 and `sidelined_at` is kept as the time since it, capped: the code
asks only "more than 3" and "at least the cooldown". `current` is kept modulo N.
`success_total`, `failure_total` and `request_count` only feed statistics and
are left out.

**TokenScore** is `Confidence::from_scores`: layer sums, caps, bonuses, class.
**SignalGates** is the three entry gates with the overrides and the operator's
knobs, `classify_near_miss`, and the replay by which a tune is judged; one action
turns a knob, another reviews the next input. Both are whole-number operators:
the products of the source are written as quotients that agree with the f64
result on every value from 0 to 100.

**TuneEvidence** is the arithmetic that ranks and accepts a tune (the closed
calls split by a threshold, two means, the newest slice held out).
**SignalTunes** is the life of a proposal. A handler is a sequence of SQL
statements with the lock released in between, so two handlers interleave, and a
statement that fails leaves what was written before it. `propose_tune` looks at the
newest `ListLimit` proposals (200 in the code) for its de-duplication and
cool-down, and at none when they cannot be read (mcp.rs:2388 is an `if let Ok`).
`disturbed` and `unread` are history variables: the knobs on which two handlers met
or one gave up half-way, and those proposed for without the list.

**TokenAnalysis** is `analyze_token` and `compute_launch_forensics`: read the
age of the newest measurement, claim the mint, insert a snapshot that carries the
old shares over, and let a background task update the newest snapshot and release
the claim. A row keeps what later readers look at.

**TokenRegistry** is how a mint becomes known and watched. An analysis is
abstracted to one of seven *readings*, with the predicates of the code on it
(favourable, trackable, removable, crowded). `Prepare`, `Rebalance`,
`AnalyseRow`, `Drop`, `Notify` are phase 1 of a scan cycle; `List`, `Analyse`,
`Insert`, `Track` phases 2, 2b and 4; `ObserveCurve`, `HandOff` phase 6. A walk of
phase 2 or 2b reads 40 or 30 signatures, fetches 12 or 8 transactions, passes over
those it cannot read and takes at most 3 mints, so `List` takes any subset of the
candidates of at most `PhaseLimit` members, the empty one included; a mint whose row
cannot be read counts as new (`ListMisread`). The inserts and additions whose result
is dropped (`let _ =`) may fail and the phase goes on; those with a `?` end the cycle
(`WriteFails`). The
stream's sink, the Bitquery sink and the poller run beside it, statement by
statement. Ages are flags that time turns, so no clock bounds a behaviour.

**SitePublisher** has the publisher's loop with its permit, its phases and the 60 s
after which a tick is dropped, the wallet-capture walk, the bundle on its way to
the Worker (which may store it late, out of order, or one key and not the other)
and the scout loop's files. A time-out is a fault: whatever can be slow is slow
when it counts as one. `work` chooses what a behaviour exercises, as the three
parts share only `calls`.

**AnchorBump** has the posts that are followed by a bump and those that are not: a
milestone reply, a mirror, and a card whose delivery row could not be written
(`CardUnrecorded`). A forward that timed out may be in the chat (`ForwardTimesOut`).

**SmartWallets**, **HourDigest** and **AnchorBump** run beside the calls and
share nothing; **MCUpkeep** runs one of the three per behaviour.

**MC...** modules extend a specification with the definitions a .cfg needs.
The modules named **...Proofs** hold the theorems of the module of that name;
**UpkeepProofs** those of the three of MCUpkeep and of RpcRouter, **SignalProofs**
those of SignalTunes, SignalGates and TokenScore. Operators commented `Slip:` or
`Mutant:` are bugs that could plausibly be written there; each property is
checked to fail under one, which is what `mutants` lists.

## 3. Runs

| run | instance | what it shows |
|---|---|---|
| trading_safety | 2 mints, 2 calls, 1 slot, 1 sell attempt, 1 fault | the invariants, `BoughtVerdictIsFinal`, `ImplementsLedger` |
| trading_live | 1 mint, 1 call, the same bounds | an armed call closes, a settle pass ends |
| settle | all horizons, 6 prices, 2 confidences, up to 3 snapshots, ages 0, 120, 135 s and 6 h | stops are seen twice, wins and losses, flat calls close |
| rpc | 2 endpoints, 2 tasks that share the router, one of them a health tool too, no tolerated error, cooldown of one tick | what a request misses was handed to another, the sideline time is kept but for late stores, endpoints return |
| cards | 1 call, 2 milestones, 2 faults, a timed-out delivery among them | replies, verdicts, demotion, `ImplementsBoard` |
| tunes | 2 handlers, 2 knobs and the prompt, 3 proposals, a list of 1 row, 2 diary entries, 1 failed statement | what is in force was committed, one pending proposal per knob but for hidden and unread ones, what was committed was told |
| gates | every token two measures away from one that passes, with one knob turned; a few tokens with every pair of turns; every momentum and distribution; every tape of 4 calls | report and replay agree with the gate |
| analysis | 1 mint, 2 analyses, 2 background tasks, 2 faults | one measurement per mint, shares are kept, claims are released |
| registry | 1 mint, 1 poller, crowded readings, walks that may pass over the mint, 1 fault | no row is dropped unseen, a silent stream is walked for ever and what is taken becomes known |
| publisher | 2 calls; or 4 signatures; or the scout loop over 2 calls; 2 faults | the site catches up, due calls close, gaps are explained, receipts frozen |
| upkeep | 1 wallet and 2 mints; or 3 hours; or 2 bumpers and 4 messages | the properties of the three parts |
| claim_VerdictsAreFinal | as trading_safety | refuted, see below |

Why the bounds reach the interesting cases. Every race in CallTrading is between two
tasks on one call, or between two calls for one slot or one mint; two calls give
both, and one fault can fall between any two steps. One slot is the smallest cap
that can be exceeded. One sell attempt makes "below the cap" and "at the cap" both
reachable. In SettleWatch a stop is a relation between a peak, an older breach and
the live price, hence three snapshots; 120 s is the grace, 135 s is the grace plus
the 15 s exclusion, and 6 h is the end of the longest window. The prices lie on both
sides of the stops, the slip, the tiers and the first takes. In RpcRouter every race
is between two tasks: over the counter, between a success and a sidelining of one
endpoint, and between two probations; two endpoints give the wrap-around. With no
tolerated error every failure takes its endpoint out, which is when the races are;
the theorems leave the tolerance open, and the same instance without the tool was
checked with one tolerated error too (2.1 million states). In CallCards one tier
cannot be retold below another, two can, and a second fault can hit the retry of the
first. Two calls on one mint are beyond a comfortable run there; milestones and
verdict tasks are keyed by the call's id or its mint, so what a second call adds is
a verdict that lands on its predecessor's card, a case `NoEarlyVerdict` leaves open
on purpose. In SignalTunes two handlers are what a lost update needs, two proposals
are what a superseded commit needs, and a list of one row with a second knob and a
third proposal is what it takes to hide a pending proposal behind a newer one and to
propose beside it. The constraint `Few` of MCSignalTunes keeps it to minutes: the
last proposal is made, and whatever is done once it is made, by one handler at a
time, so two handlers interleave over the first two proposals. In SignalGates the
inputs lie on both sides of each threshold, and pairs of them show which gate is
named first; two turns are what a row of a class in front of a global row needs. In
TokenAnalysis the second analysis arrives while the first's task computes; the time
bound is beyond the refresh age. In SitePublisher two calls let an older post
overtake a newer one, and a window of three over four signatures lets a walk miss
the oldest. In HourDigest three hours leave two to finalise. In AnchorBump four
messages are a forward, a card, its bump and one reply or second card; five were
checked too. The constants under which a run is smaller than the module allows are
`MaxFaults` and its kin, `MaxMessages`, `MaxHour`, `MaxTime`, `MaxProposals`,
`MaxEvents`, `MaxOrders`, `MaxDeletions`, `MaxFlying`, `ListLimit`, `PhaseLimit`.

The registry run has one mint, because two exceed what TLC does in minutes; the
branch "over capacity" of `FirstLookGranted` is then unreachable, and it is the
theorem `NothingDroppedUnseen` that covers it, for any set of mints.

Deadlock is checked in the rpc, cards and registry runs. In the others the instance
stops by itself: its calls are closed, its inputs reviewed, its hours over.

### Properties worth a word

- `OneBuyPerMint`. Nothing in `execute_buy_for_call` looks at the mint. What
  keeps money from entering a mint twice is that the delivery row is written
  before the call, is never deleted, and gates `process_token`.
- `SellAttemptsBounded`, `SellsRecordedPosition`: a sell can time out after Jito
  took it and be sent again; cap and counter are in one task, so both hold.
- `BoughtVerdictIsFinal` is what remains of "a verdict is final" once
  `VerdictsAreFinal` (below) is refuted.
- `StopsSeenTwice`: needs the grace, the exclusion and the floor that moves with
  the peak to agree.
- `LossyWithdrawals`: `take_pct` lets a stale snapshot book a take while the
  market is below entry; the property delimits that to takes the chain showed.
- `RepliesRepeatOnFaults`: a failed read of the tier counts as 0 and the next
  store *lowers* it, and a reply that was delivered but timed out at the client is
  not stored and is sent again; each fault still repeats a reply at most once.
- `NoEarlyVerdict`: a verdict is drawn by a task with an old status in hand.
- `OrphansDemoted`: a promotion that dies between row and call leaves a live
  signal for nothing; the end-of-cycle statement removes it.
- `GaveUpAfterAll`: a request counts its attempts and the counter is everybody's, so
  it may give up with a healthy endpoint it never looked at. What is kept is that
  every endpoint it missed was handed to another request while it ran.
- `SidelineRemembered`, `EndpointReturns`: flag and time are two relaxed atomics. The
  time of an endpoint out of rotation is there, or a task is about to store it or to
  revive the endpoint, unless the second store of a success or a reset came after the
  sidelining (`lost`); and every endpoint that is not lost comes back.
- `InForceIsCommitted` holds on knobs no two handlers met on; `disturbed` marks
  the others. The threshold in force is of a committed proposal, the last the diary
  tells of for the knob. A second proposal is pending on a knob only where the list
  could not be read (`unread`) or the first is behind `ListLimit` newer ones
  (`Hidden`); the run reaches both. `CommittedTold` holds on all knobs, since the
  diary comes before the mark.
- `NearMissAgrees`, `ReplayPredictsGate`: the thresholds are written three times.
  The replay is exact but for a global confidence floor, which no gate reads; a
  global row behind one of the class, which the gate skips and the replay demands
  too; a peak ceiling of 9999 or more, which the gate takes for none; and a holder
  share equal to its ceiling. The report has no name for a last hour beyond its
  bounds of -100 % and 10000 %, nor for the gates `Unnamed` lists with it.
- `ForensicsCarried`: the analysis that inserts a row while the task updates the
  newest one could reopen a measured token; the carry-over and the update of
  "newest" meet so that it does not.
- `FirstLookGranted`: a fresh row has no measurement, and eviction would judge
  its blanks; the snapshot that is pruned later must not undo that either.
- `SilentStreamCovered`: freshness is by events and not by the socket. It does not
  say that a silent stream leaves no gap, which is not so: a walk sees 12
  transactions. While no event comes the scanner walks for ever, whatever failed
  before, and a mint its walks take again and again becomes known.
- `SiteCatchesUp` needs the 5-minute timer: a permit can be consumed by a tick
  that had read the calls before, and a post can overtake the next.
- `GapsOnlyByFaults`: the walk stops at the first known signature, so a skipped
  one is never looked at again.
- `KnownWasTold`: alert, then holding; the other order loses a buy in a crash.
- `OneDigestPerHour`, `PastHoursClose`: a tick straddles the hour, and one hour
  is closed per tick.
- `OrphansExplained`, `AnchorBelowCards`: two bumps read the same id, and each
  deletes and sends; a forward may be delivered and reported as failed. The anchor is
  below every card the database knows, not below every message (`AlwaysAtBottom`
  below).

`VerdictLands` (the detail file gets the verdict) also passes as a property of
SitePublisher_three.cfg and is not among the listed runs.

### What the code does not keep

Each of these quotes the repository and is refuted by TLC with the command
`tlc -config <file> <module>`. The first is the listed `violation` run and the
`finding` of `PROJECT.json`; the others are kept as configurations of their own.

- `VerdictsAreFinal` (CallClaims_VerdictsAreFinal.cfg, CallClaims). A call is
  inserted, armed, and closed by the operator while its task reads the balance;
  the read fails and `record_buy_failure` (no status in its WHERE) turns
  "withdrew" into "voided".
- `PositionsCapped` (CallClaims_PositionsCapped.cfg, CallClaims). Two buy tasks
  pass `count_open_positions` before either records a signature, and both buy
  with one slot.
- `SellBeforeFlip` (CallClaims_SellBeforeFlip.cfg, CallClaims). A bought call is
  closed by the operator, the UNSAFE auto-fail or the publisher; none sells, and
  `settle_calls` lists active calls only.
- `EarlyCollapseFires` (SettleClaims_EarlyCollapseFires.cfg, SettleClaims). The
  early-collapse rule of SHORT needs `breach_confirmed`, hence a price below
  -40 %: at -30 % seen twice nothing fires.
- `StopsConfirmedAfterPeak` (SettleClaims_StopsConfirmedAfterPeak.cfg,
  SettleClaims). "Since peak" is the snapshot with the highest *confidence*; one
  from before the price peak confirms a wick.
- `NoneRetired` (RpcRouter_NoneRetired.cfg, RpcRouter). SIDELINE_COOLDOWN_SECS is there
  so that an hour of rate limits does not retire a provider for good. Between the two
  stores of one task's `record_success` (ingester.rs:62) another takes the endpoint out
  and stamps it (ingester.rs:73), and the late store wipes the time; no probation finds
  the endpoint after that, and while another endpoint answers nothing resets it.
- `AlwaysAtBottom` (AnchorBump_AlwaysAtBottom.cfg, AnchorBump). "Always at the bottom
  ... every time a new message arrives in the target chat", "after every NEW send"
  (notifier.rs:2497, notifier.rs:3136): a milestone reply (notifier.rs:2446, from
  scanner.rs:907) and the lounge mirror are new messages that bump nothing, and a card
  whose delivery row fails to be written (notifier.rs:3126) returns before the bump.
- `VerdictReachesCard` (CallCards_VerdictReachesCard.cfg, CallCards). The operator
  closes a call, the task fetches metadata, the cycle ends and
  `demote_orphaned_deliveries` demotes the row; the task finds it not active and
  returns Ok. The channel shows the call as open until an operator runs
  `refresh_card` or `backfill_cards`.
- `CommittedStaysInForce` (SignalTunes_CommittedStaysInForce.cfg, MCSignalTunes).
  A revert deletes the override of the knob, whichever proposal wrote it: the
  newer committed proposal is "committed" and not in force.
- `RankedIsAccepted` (SignalGates_RankedIsAccepted.cfg, MCSignalGates, with the
  real floors). "All candidates pre-validated against the same floors propose_tune
  enforces" (mcp.rs:3499): nine calls that lost 14 %, two that lost 1 % and
  fourteen that lost nothing are offered with an effect that rounds to 5.00, and
  `propose_tune` subtracts two rounded means, gets 4.99 and refuses. It takes a
  loss: `RankedGainsAccepted` (section 5) proves the claim for every candidate
  whose calls did not lose on average.
- `UnmeasuredNotWritten` (TokenAnalysis_UnmeasuredNotWritten.cfg, TokenAnalysis).
  Two of the three sub-computes swallow their errors, so "all three failed" never
  happens and zeros are written as a measurement (launch_forensics.rs:93).
- `CalledStayWatched` (TokenRegistry_CalledStayWatched.cfg, TokenRegistry). "Don't
  pull active-call mints off the watchlist" is kept by the drop of a rescan and
  not by the eviction of the next cycle, nor for a call opened after it was read.
- `OlderIsRecorded` (SitePublisher_OlderIsRecorded.cfg, MCSitePublisher). "Ledger
  is immutable from older onward" (publisher.rs:1459): a transaction that cannot
  be read is skipped, a newer one is recorded, and the walk stops there for good.
- `ReceiptsStayOfNewest` (SitePublisher_ReceiptsStayOfNewest.cfg, MCSitePublisher).
  Two calls of one mint share a receipt file; each pass takes it for one and then
  for the other and ends at the older (publisher.rs:1390).

Met while reading or modelling, without a configuration:

- Settling: `docs/ARCHITECTURE.md` lists other thresholds than the code (SHORT
  expires at 6 h there, at 90 min in scanner.rs; LONG stops at -70 % there, -50 %
  here). `buy_confirm_timeout_secs` is read nowhere. A verdict is applied by mint
  and can close a newer call on it. "Trailing stop extends winners indefinitely"
  does not hold against the publisher, which expires by the clock, and an expiry
  sets no exit price, so such a call is in no statistic.
- Registry: `insert_token` is an INSERT OR REPLACE (db.rs:1350) and empties the
  deployer columns and `first_seen` of a row seen before (db.rs:1390). A failing
  walk of phase 2 (`?` at scanner.rs:462) ends the cycle before settling. A
  graduation is lost by a crash after its snapshot is stored as complete
  (scanner.rs:788). A migration adds a watchlist row without a token row. The
  "observation" of a token with a holder above half (scanner.rs:1915) is evicted
  by the next cycle (scanner.rs:1783). Graduates share one list with a fixed order
  (db.rs:2818), whose tail may wait for ever. A poller whose add fails leaves a
  known token nobody watches (discovery_pollers.rs:135). Reconnect backoff is
  never reset (pumpportal.rs:239, bitquery.rs:116).
- Gates: the comment on the top-holder bonus differs from the code
  (signals/mod.rs:60); the SCALP and MOONSHOT gates ignore overrides; the comment
  on near misses (notifier.rs:65) names other edges than the code
  (notifier.rs:686).
- Publisher: a `pnl.json` torn by a crash is read as empty and its series starts
  anew (publisher.rs:594); after ten seconds of pricing the list of calls is
  published empty (publisher.rs:638) until the next tick; the Worker does not
  compare `captured_at`; `wallet_ledger` is keyed by signature, so a second mint of
  one transaction is dropped.
- Wallets and messages: an alert that cannot be written while its holding can is
  never told; `/unwatch_wallet` of a wallet without a row says it stopped tracking
  it, and a later promotion adds it; a trace that fails is never retried; a wallet
  promoted at run time is not streamed until a restart; the digest of a past hour
  is finalised with the label of the present one; concurrent bumps leave forwards
  behind.

## 4. Fairness

`CallTrading`: weak fairness of the scanner's list, of its settle steps, of arming
a call, of each buy task, of the clock and of the publisher's expiry. A task that
awaits a request goes on because every request has a time-out (15 s in
execution.rs and market.rs); the loops of scanner and publisher never return. No
fairness is given to success: sells and buys may fail for ever. That the
publisher reaches its expiry, although a tick is abandoned after 60 s, is shown by
`DueCallsClose` of SitePublisher for a bounded number of slow ticks.
`RpcRouter`: weak fairness of the clock and of each task's steps, as a call that
does not answer is a failure after its time-out, and every task is a loop that asks
for ever. A task's steps are always enabled and come back to "look", so its fairness
is written as "in `look` again and again, and out of it", which TLC checks faster.
`CallCards`: weak fairness of the scanner only; card tasks may die.
`TokenAnalysis`: weak fairness of the background tasks, whose requests time out;
not of the analyses. `TokenRegistry`: weak fairness of the scan cycle, a loop that
never returns, and of the second statement of a sink; none of the stream, the
chain or the operator. `SitePublisher`: weak fairness of the publisher's loop (it
wakes by the timer, not by the permit), of the Worker with what it accepted, and of
the scout loop; which step of several the loop takes is not chosen, and slow or
failed ones are bounded by `MaxFaults`. `SmartWallets`, `HourDigest`: weak
fairness of the pass and of the tick at the end of each scan cycle. `AnchorBump`,
`SignalTunes` and `SignalGates` have no liveness property.

## 5. Proofs

Assumptions are those on the constants, named in the modules (`MaxCalls` positive,
`NoMint` not a mint, bounds natural, `Mints` of TokenRegistry finite). TLAPS
checks, for every value of them:

- **CallTrading**. `Invariance`: `IInv` holds always. `OneBuyPerMint` is not
  inductive. It needs that a task exists for notifier rows only
  (`TasksOfAutoCalls`) and that a mint has one notifier row
  (`OneAutoCallPerMint`), which holds since such a mint is carded and the auto path
  refuses carded mints. `RowsInOrder` says that unused ids are blank, so an insert
  disturbs nothing; `ScannerAtRow` that the scanner's call is a row; `SellsInOrder`
  that a sell in progress is below the cap, which the cap needs after the failure
  is counted. From it `TypeCorrect`, `OneActive`, `OneBuy`, `RecordedBuySent`,
  `SellsRecorded`, `SellAttempts`. `BoughtVerdictFinal` and `Implements` rest on
  `StepCases`: each step is an open, a close of active rows, a void of an unbought
  row, a buy, a sell or nothing of these. The buy case of the refinement is where
  `OneBuyPerMint` is used.
- **RpcRouter** (UpkeepProofs), for any number of endpoints, tasks, tools and
  tolerated errors: `RouterTypes`; `RouterRemembers`, by cases on which store of which
  task touches the endpoint (`RememberedBy`, `OthersStay`); and `RouterTriesAll`. The
  latter needs that the last places the counter stood at, as many as the request has
  made attempts, were drawn by it or by another since it began (`Swept`), by a distance
  modulo N that a full turn exhausts.
- **SettleLadder**, for every integer price: `FloorMonotone`, `FloorBelowPeak`,
  `TrailInProfit`, `FlatIsClosed`, `RulesHaveVerdicts`. **SettleWatch**, for every
  set of prices, snapshots and instants, with any number of snapshots:
  `TrailNotAtALoss`, `FlatCallsAreClosed`, and `StopsAreSeenTwice`, whose core is
  that every rule that stops needs a breach (`StopsBreached`) and that after the
  grace a breach is confirmed by an older snapshot below the same floor.
  `SettleTypes`, and `WinsAreExplained`: the highest price of the snapshots is kept
  as an upper bound that one of them reaches (`HighestSeen`), so a take booked
  below it is one the chain had shown.
- **CallCards**. `Invariant` and from it `TypeCorrect`, `RepliesBounded`,
  `CardsBeforeCalls`, `VerdictAfterClose` and `BoardIsKept`, for any number of
  calls, tiers and faults. `RepliesRepeatOnFaults` needs `TiersTold`: tiers above
  the stored one, and those the loop has still to tell, were told once per fault at
  most; the exception is the reply that is sent and not yet stored. A reply that
  timed out after its delivery raises the count and the faults together
  (`LostReplyStep`). `AutoCallsHaveCards` (in the run as a guard of
  `CallBoard!Open`) needs that the row exists before the scanner inserts the call
  (`CardFirst`), and `NoEarlyVerdict` that no task or tool holds a verdict before
  the first close (`NoVerdictInHand`). `BoardIsKept` is the refinement of CallBoard:
  each action is one of its steps or is not seen (`TokenBoard`, `PassBoard`,
  `OtherBoard`, `CardBoard`). Beyond the above it needs that what a task has read of
  the row over its await is still true of it (`RowHeld`: a row may change, but none
  is deleted) and that the call being settled was inserted (`CurKnown`).
- **TokenAnalysis**. `Invariant`: the claims are exactly the mints of the tasks
  under way, each of one task (`ClaimsHeld`), and the newest row has what was last
  written (`Carried`). From it `TypeCorrect`, `OneCompute`, `SharesCarried`.
- **TokenRegistry**. `NothingDroppedUnseen`. No active row waits unmeasured and
  young under a class that rules it out (`Judged`): what a sink adds is never such
  a class, and a prune takes a snapshot only of an old or inactive row. Between
  the choice of the rows to evict and their eviction the tables change, but active
  rows stay active and looked-at rows stay so (`Steady`), hence `EvictJustified`
  and `DropJustified`. Which mints a walk takes does not matter (`Taken`).
- **SignalTunes**. `CommittedIsTold`: a handler about to mark a proposal holds a
  diary entry of that proposal (`HandlersHold`); entries are never removed.
  `InForceWasCommitted`: on a knob that is not disturbed one handler at most is at
  work (`Alone`) and what it has in hand is as it read it (`AsLeft`), and whenever
  it is not between two of its writes the threshold is the one of the newest
  committed proposal (`InPlace`); that proposal is the last the diary tells of
  (`LastInv`), and of two pending ones the older is behind a full list
  (`HiddenInv`). "Newest of a set" is a CHOOSE; the proof gives the element and its
  uniqueness.
- **TokenScore**. `LayerSum` folds over a finite set. No induction rule of the
  library can be used (it takes an operator), so the lemmas take a smallest set on
  which the claim fails, which a well-founded order has (`SmallestSubset`), and
  unfold the sum there: sums exist, agree, and lie between 0 and 100 times the
  number of scores (`SumOfScores`). Hence every total is a percentage
  (`ScoredIsTyped`, in `GateTypes`) and `StaircasesClear`: momentum above 70 and
  distribution above 50 make at least 62, and the pattern adds 8.
- **SignalGates**, for every token, scores and rows. `GatesAreTyped`: rows hold only
  what `validate_field_value` lets through. `NearMissIsRight` goes through `Bites`,
  the disjunction of the sixteen gates of the walk, which is "some gate is named"
  on one side and the negation of `should_signal` without its unnamed gates on the
  other. `ReplayIsExact` goes field by field: at most one row of a field applies to
  a token, and it is the one in force (`RowInForce`). `RankedGainsAccepted` rests on
  `RoundingOnce`: rounding before or after a whole number is subtracted differs
  only where the sign does. The proof attempts found two
  of the exceptions above (the h1 bounds and the shadowed global row).
- **SitePublisher**. `GapsAreExplained`: a walk leaves no hole behind what it has
  passed, nor before its last signature, and begins with a ledger that has none
  (`WalkInv`). `TakenOnce`: a receipt is none or of a call that exists, so with one
  call the pass leaves it alone.
- **SmartWallets, HourDigest, AnchorBump** (UpkeepProofs). `RecordedWasTold`: a pair
  in hand between the two writes has been told or is excused. `AnchorInvariant` and
  from it `NoOtherOrphans`, `StaysBelowCards`: the row's forward is explained, or
  every bump under way read it and will delete it; and a forward is below the last
  card, or a bump is still to forward, or the card is excused (`Bottom`).
  `DigestInvariant`: rows are linked to their messages, one per hour, and the row in
  the tick's hand exists; from it `WrapUpStays`. `OneMessagePerHour` counts: each
  message of an hour is covered by the row, deleted, or lost to a fault, and the
  last two sets are no larger than the counts of deletions and faults.

Only model-checked: all liveness, and the refutations of section 3. Every safety
property of a passing run is also a theorem; `ReceiptTakenOnce` has the premise of
one call per mint.

## 6. Limits of the models

- Reads of `calls` succeed (a failed `call_has_buy` counts as "no" in the code).
- Amounts, the daily budget and fees are left out; the budget check has the shape
  of the slot check. The executor is taken to be enabled.
- In SettleWatch a settle pass is one step; in CallTrading it is not.
- Percentages are whole: a floor hit between two integers is not distinguished.
- Relaxed atomics are interleaved in one order all tasks agree on; reordering
  between two atomics of one task is not modelled.
- A Telegram edit and the write of its row, with no await in between, are one
  step, and that write succeeds. The lounge mirror is left out. `refresh_card` is
  asked for mints that have a call.
- TokenRegistry: the order by priority inside the capacity is not modelled, nor
  which rows are due, nor which mints a walk comes upon; a failed read of the active
  call, which counts as "no call", is left out.
- SitePublisher: within a behaviour, either the site, the ledger or the files are
  exercised; what else a tick publishes has no decisions of its own.
- The three parts of MCUpkeep share no state and are not interleaved.
- Type invariants are stated in the component's module, or, for the upkeep and
  publisher modules, with the proof. They are theorems for CallTrading, CallCards,
  TokenAnalysis, RpcRouter, SettleWatch and SignalGates and part of the proved
  invariants of the other modules. No run lists them.
- SignalGates: prices and shares are whole; an unmeasured value is `None`, and the
  theorems hold for every integer where the code has floats.

### Not modelled

- Claw (crates/claw): another process with its own state, reached over HTTP. Its
  writes are requests like the operator's and appear as those.
- Main and configuration: wiring. What it fixes, the set of tasks, is in section 1.
- Market, metadata, chart and image rendering, static pages: requests and layout
  without a decision.
- The formulas of intel, scout and forecaster: floating point without state.
- Read-only commands of the bot and the MCP server.
- The balance cache, the git push, the reaping of snapshots and the historical
  backfill: one statement or one command each, read back by nothing modelled.

## 7. Plan

1. done: every component of section 1 but claw; every safety property of the runs
   as a theorem.
2. done: the abstract board that CallCards implements, with its proof. Next of
   the kind: what a post to the edge promises, for SitePublisher.
3. TokenRegistry with two mints, with the liveness of the watchlist (a graduate at
   the tail of the list), over an abstraction of the phases.
4. Read faults in CallTrading (`unwrap_or(false)`), with a new `Examine`.
5. OAuth refresh and provider fallback of claw.
