---------------------------- MODULE LeaseMetrics -----------------------------
(***************************************************************************)
(* The telemetry of the refresher: the gauge token_expiry_seconds and the  *)
(* counter token_renewals_total of pkg/metrics, set in the middle and at   *)
(* the end of a round, and what an operator may conclude from them.        *)
(***************************************************************************)
EXTENDS LeaseRefresher

CONSTANT CounterWrap   \* bound: the counter is kept modulo this

ASSUME MetricsAssumption == CounterWrap \in Nat \ {0, 1}

VARIABLES
    expiry,    \* token_expiry_seconds
    renewals   \* token_renewals_total, modulo CounterWrap

telemetry   == <<expiry, renewals>>
metricsVars == <<vars, telemetry>>

(* Both collectors are registered at start-up and show 0 until they are set*)
MetricsInit == Init /\ expiry = 0 /\ renewals = 0

(* The gauge takes the ttl of the answer before the renewal is decided.    *)
GaugesCreation == expiry' = CreationTTL
GaugesLookup == expiry' = seenTTL

Inc == renewals' = (renewals + 1) % CounterWrap

(* The counter is incremented after the renewal and the login that         *)
(* replaces it, whatever became of them.                                   *)
RenewalEnds ==
    \/ RenewReturns /\ pc' # "login"
    \/ LoginReturns /\ pc' # "crashed"

CountsRenewalsOnly ==
    RenewalEnds /\ IF pc = "renew" THEN Inc ELSE UNCHANGED renewals
CountsRenewal == RenewalEnds /\ Inc

Uncounted ==
    \/ OnTick \/ OnDone \/ VaultAnswers
    \/ ReloginReturns \/ VerifyReturns
    \/ RenewReturns /\ pc' = "login"
    \/ LoginReturns /\ pc' = "crashed"
    \/ Elapse \/ Revoke \/ Outage \/ Recover \/ WithdrawCreds \/ Shutdown

MetricsNext ==
    \/ LookupReturns /\ answer = "ok" /\ GaugesLookup /\ UNCHANGED renewals
    \/ LookupReturns /\ answer # "ok" /\ UNCHANGED telemetry
    \/ CountsRenewal /\ UNCHANGED expiry
    \/ Uncounted /\ UNCHANGED telemetry

MetricsSpec     == MetricsInit /\ [][MetricsNext]_metricsVars
MetricsFairSpec == MetricsSpec /\ Fairness

-----------------------------------------------------------------------------
(* Properties.                                                             *)

(* docs/metrics.md:13, "time remaining until the current token expires":   *)
(* the gauge is set before the renewal and stands still until the next     *)
(* tick (lease.go:92), so it may promise more than the token has.  As long *)
(* as rounds succeed and no operator revokes the token, it is too high by  *)
(* an interval and a call at most - provided that no renewal shortens a    *)
(* lease: RenewSelf asks for the same increment whatever the token was     *)
(* issued with (lease.go:100), and where that is less than half of the     *)
(* lease, as the default of an hour is for leases of more than two, the    *)
(* gauge goes on showing what the token had before the renewal.            *)
GaugeNearExpiry ==
    Usable /\ Running /\ outcome \in {"skipped", "renewed"} =>
      expiry <= ttl[held] + Interval + CallBound

(* A working token is never replaced behind the back of the counter: only  *)
(* the new login after a refused lookup is not counted (lease.go:49-59),   *)
(* so a change of tokens the counter misses means that requests have       *)
(* failed.                                                                 *)
UncountedOnlyWhenDead ==
    [][held' # held /\ renewals' = renewals => ~Usable]_metricsVars

=============================================================================
