---------------------------- MODULE SettleClaims -----------------------------
(***************************************************************************)
(* Statements the repository makes about the settling rules, as formulas   *)
(* over SettleWatch. The code does not keep them.                          *)
(***************************************************************************)
EXTENDS MCSettleWatch

\* src/src/scanner.rs: "SHORT calls that drop >=25% within the first 30 minutes
\* are dead. [...] Faster than the trail floor's default -40%", with a drop that
\* an earlier snapshot the confirmation gate looks at confirms.
EarlyCollapseFires ==
    status = "active" /\ horizon = "SHORT" /\ age <= 30 * Minute =>
        \A p \in Prices :
            p <= -25 /\ (\E i \in SettledByNow :
                            snaps[i].at > PeakAt /\ snaps[i].pct <= -25)
            => Rule(Reading(p)) # "none"

\* The last snapshot of the call at the highest price; 0 if it has none.
PricePeak ==
    IF SinceCall = {} THEN 0
    ELSE CHOOSE i \in SinceCall :
            \A j \in SinceCall : snaps[j].pct < snaps[i].pct
                                  \/ (snaps[j].pct = snaps[i].pct /\ j <= i)

\* src/src/scanner.rs: "Before firing any stop-out, require AT LEAST ONE
\* post-peak snapshot also priced below the trail floor. [...] We MUST scope to
\* since peak".
StopsConfirmedAfterPeak ==
    exit.rule \in Stops /\ exit.age >= 120 =>
        \E i \in SinceCall : i > PricePeak /\ snaps[i].at <= exit.age - 15
                                /\ snaps[i].pct <= Floor(horizon, exit.peak)
=============================================================================
