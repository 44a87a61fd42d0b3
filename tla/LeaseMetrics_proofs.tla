------------------------- MODULE LeaseMetrics_proofs -------------------------
(***************************************************************************)
(* Theorems about the telemetry of the refresher, for every setting and    *)
(* fault set of LeaseRefresher.  The telemetry only watches: a behaviour   *)
(* with it is one of LeaseRefresher, so the invariants proved of that      *)
(* module hold here.                                                       *)
(***************************************************************************)
EXTENDS LeaseMetrics, LeaseRefresher_proofs

USE DEF Running, Panics, Crash

(* Every step with telemetry is a step of the refresher, and moves the     *)
(* gauge only to the ttl a lookup has just returned.                       *)
LEMMA StepsOfRefresher ==
    ASSUME [MetricsNext]_metricsVars
    PROVE  /\ [Next]_vars
           /\ \/ LookupReturns /\ answer = "ok" /\ expiry' = seenTTL
              \/ expiry' = expiry /\ ~(LookupReturns /\ answer = "ok")
<1>1. CASE LookupReturns
  BY <1>1 DEF LookupReturns, Answered, MetricsNext, metricsVars, telemetry, vars,
     CountsRenewal, RenewalEnds, RenewReturns, LoginReturns, Uncounted, OnTick,
     OnDone, VaultAnswers, VaultLooksUp, VaultRenews, VaultLogsIn, VaultUnreachable,
     ReloginReturns, VerifyReturns, Elapse, Revoke, Outage, Recover, WithdrawCreds,
     Shutdown, GaugesLookup, Next, Returns, Evaluates, Send, EndRound, callVars,
     KeepToken, tickVars
<1>2. CASE ~LookupReturns
  BY <1>2 DEF MetricsNext, metricsVars, telemetry, vars, CountsRenewal, RenewalEnds,
     Uncounted, Next, Returns
<1>3. QED
  BY <1>1, <1>2

(* What is proved of the refresher holds of it with its telemetry.         *)
THEOREM Watches == MetricsSpec => Spec
<1>1. MetricsInit => Init
  BY DEF MetricsInit
<1>2. [MetricsNext]_metricsVars => [Next]_vars
  BY StepsOfRefresher
<1>3. QED
  BY <1>1, <1>2, PTL DEF MetricsSpec, Spec

-----------------------------------------------------------------------------
(* A renewal never leaves a token less than it had: it grants at least the *)
(* half of a lease below which it is asked for, and the maximum lifetime   *)
(* is no shorter than a lease.                                             *)
RenewalsExtend ==
    TokenKind = "service" => 2 * Increment >= CreationTTL /\ MaxTTL >= CreationTTL

(* The gauge read too high by x at most.                                   *)
Ahead(x) == expiry <= ttl[held] + x

(* How far the gauge, or the answer it will be set from, can be ahead of   *)
(* the token while a round goes on, and while the loop waits for a tick.   *)
(* As long as no tick has come, the round is no older than the ticker.     *)
LeaseWithinMax ==
    TokenKind = "service" => \A t \in live : ttl[t] <= left[t]

GaugeInRound ==
    /\ pc # "select" /\ ~tickPending => callAge <= tickAge
    /\ Usable /\ pc = "lookup" /\ answer = "ok" => seenTTL <= ttl[held] + callAge
    /\ Usable /\ pc = "renew" =>
         /\ Ahead(CallBound + callAge)
         /\ ~tickPending => Ahead(tickAge)
    /\ pc = "renew" /\ stage = "sent" => 2 * expiry < CreationTTL

GaugeInSelect ==
    Usable /\ pc = "select" /\ outcome \in {"skipped", "renewed"} =>
      /\ tickPending => Ahead(Interval + CallBound)
      /\ ~tickPending => Ahead(CallBound + tickAge)

OutcomeAtEnd ==
    /\ expiry \in Nat
    /\ pc \in Calls => outcome = "none"

GaugeInv == OutcomeAtEnd /\ LeaseWithinMax /\ GaugeInRound /\ GaugeInSelect

(* Leases stay within the maximum lifetime.                                *)
LEMMA WithinMaxStep ==
    ASSUME RenewalsExtend, TypeOK, LeaseWithinMax, [Next]_vars
    PROVE  LeaseWithinMax'
<1> USE LeaseAssumption DEF LeaseAssumption, TypeOK, RangesOK, LeaseWithinMax
<1>1. CASE VaultRenews
  BY <1>1 DEF VaultRenews, Evaluates, Renewable, Granted, AtMost, Increment, Tokens,
     envVars, loopVars, tickVars
<1>2. CASE VaultLogsIn
  <2>1. CASE UNCHANGED vaultVars
    BY <2>1 DEF vaultVars
  <2>2. CASE ~UNCHANGED vaultVars
    <3> DEFINE new == Other(held)
    <3>1. /\ new \in Tokens /\ live' = live \cup {new}
          /\ ttl'  = [ttl EXCEPT ![new] = CreationTTL]
          /\ left' = [left EXCEPT ![new] = IF TokenKind = "service" THEN MaxTTL ELSE 0]
      BY <1>2, <2>2 DEF VaultLogsIn, Tokens, Other
    <3> HIDE DEF new
    <3>2. QED
      BY <3>1, RenewalsExtend DEF RenewalsExtend
  <2>3. QED
    BY <2>1, <2>2
<1>3. CASE Elapse
  BY <1>3 DEF Elapse, Less1, Tokens
<1>4. CASE Revoke
  BY <1>4 DEF Revoke
<1>5. CASE ~(VaultRenews \/ VaultLogsIn \/ Elapse \/ Revoke)
  <2>1. UNCHANGED vaultVars
    BY <1>5 DEF Next, Returns, VaultAnswers, OnTick, OnDone, LookupReturns,
       ReloginReturns, VerifyReturns, RenewReturns, LoginReturns, VaultLooksUp,
       VaultUnreachable, Outage, Recover, WithdrawCreds, Shutdown, vars
  <2>2. QED
    BY <2>1 DEF vaultVars
<1>6. QED
  BY <1>1, <1>2, <1>3, <1>4, <1>5

LEMMA GaugeStep ==
    ASSUME RenewalsExtend, TypeOK, GaugeInv, [MetricsNext]_metricsVars
    PROVE  GaugeInv'
<1>1. /\ [Next]_vars
      /\ \/ LookupReturns /\ answer = "ok" /\ expiry' = seenTTL
         \/ expiry' = expiry /\ ~(LookupReturns /\ answer = "ok")
  BY StepsOfRefresher
<1>2. LeaseWithinMax'
  BY <1>1, WithinMaxStep DEF GaugeInv
<1> SUFFICES OutcomeAtEnd' /\ GaugeInRound' /\ GaugeInSelect'
  BY <1>2 DEF GaugeInv
<1> USE LeaseAssumption
    DEF LeaseAssumption, TypeOK, RangesOK, FlagsOK, GaugeInv, OutcomeAtEnd,
        GaugeInRound, GaugeInSelect, Ahead, Usable, Calls, Outcomes, Answers, Tokens,
        loopVars, tickVars, callVars, vaultVars, envVars
<1>3. CASE OnTick
  BY <1>1, <1>3 DEF OnTick, LookupReturns, Answered, Send
<1>4. CASE OnDone
  BY <1>1, <1>4 DEF OnDone, LookupReturns, Answered
<1>5. CASE LookupReturns /\ answer = "ok"
  BY <1>1, <1>5 DEF LookupReturns, Answered, Send, EndRound, NeedsRenewal,
     IsAuthError
<1>6. CASE LookupReturns /\ answer # "ok"
  BY <1>1, <1>6 DEF LookupReturns, Answered, Send, EndRound, IsAuthError, Panics, Crash
<1>7. CASE ReloginReturns \/ VerifyReturns \/ LoginReturns
  BY <1>1, <1>7 DEF ReloginReturns, VerifyReturns, LoginReturns, LookupReturns,
     Answered, Send, EndRound, KeepToken, InstallIssued, SwitchToken, Other
<1>8. CASE RenewReturns
  BY <1>1, <1>8 DEF RenewReturns, LookupReturns, Answered, Send, EndRound
<1>9. CASE VaultLooksUp
  BY <1>1, <1>9 DEF VaultLooksUp, LookupReturns, Answered, Evaluates, Deliver, Fault
<1>10. CASE VaultRenews
  <2>1. /\ UNCHANGED <<pc, outcome, tickPending, tickAge, callAge, seenTTL, held, live>>
        /\ pc = "renew" /\ stage = "sent" /\ stage' = "answered" /\ expiry' = expiry
    BY <1>1, <1>10 DEF VaultRenews, Evaluates, Deliver, LookupReturns, Answered
  <2>2. held \in live => ttl'[held] >= ttl[held] \/ ttl'[held] >= expiry
    BY <2>1, <1>10, RenewalsExtend DEF VaultRenews, Renewable, Granted, AtMost,
       Increment, RenewalsExtend, LeaseWithinMax
  <2>3. ttl'[held] \in Nat
    BY <1>10, <2>1 DEF VaultRenews, Granted, AtMost, Increment
  <2>4. QED
    BY <2>1, <2>2, <2>3
<1>11. CASE VaultLogsIn
  BY <1>1, <1>11 DEF VaultLogsIn, LookupReturns, Answered, Evaluates, Deliver
<1>12. CASE VaultUnreachable
  BY <1>1, <1>12 DEF VaultUnreachable, LookupReturns, Answered
<1>13. CASE Elapse
  <2>1. /\ UNCHANGED <<pc, outcome, stage, answer, seenTTL, held>> /\ expiry' = expiry
        /\ held \in live' => held \in live /\ ttl[held] = ttl'[held] + 1
        /\ ttl'[held] \in Nat
    BY <1>1, <1>13 DEF Elapse, LookupReturns, Answered, Less1, EndRound, Send
  <2>2. /\ ~(pc = "select" /\ tickPending)
        /\ \/ tickAge' = tickAge + 1 /\ tickPending' = tickPending
           \/ tickAge' = 0 /\ tickAge + 1 = Interval
                /\ (tickPending' \/ ~Running)
        /\ stage # "none" => callAge' = callAge + 1
    BY <1>13 DEF Elapse
  <2>3. ~Running => stage = "none" /\ callAge' = 0
    BY <1>13 DEF Elapse
  <2>4. QED
    BY <2>1, <2>2, <2>3
<1>14. CASE Revoke
  BY <1>1, <1>14 DEF Revoke, Fault, LookupReturns, Answered, EndRound, Send
<1>15. CASE Outage \/ Recover \/ WithdrawCreds \/ Shutdown
  BY <1>1, <1>15 DEF Outage, Recover, WithdrawCreds, Shutdown, Fault, LookupReturns,
     Answered, EndRound, Send
<1>16. CASE UNCHANGED vars
  BY <1>1, <1>16 DEF vars, LookupReturns, Answered, EndRound, Send
<1>17. QED
  BY <1>1, <1>3, <1>4, <1>5, <1>6, <1>7, <1>8, <1>9, <1>10, <1>11, <1>12, <1>13,
     <1>14, <1>15, <1>16 DEF Next, Returns, VaultAnswers

(* docs/metrics.md:13: in every setting in which renewals do not shorten a *)
(* lease, whatever else fails, the gauge of a loop whose last round went   *)
(* well is at most an interval and a call ahead of the token.              *)
THEOREM GaugeIsNear == ASSUME RenewalsExtend PROVE MetricsSpec => []GaugeNearExpiry
<1>1. MetricsInit => GaugeInv
  BY LeaseAssumption, RenewalsExtend
     DEF LeaseAssumption, RenewalsExtend, MetricsInit, Init, GaugeInv, OutcomeAtEnd,
         LeaseWithinMax, GaugeInRound, GaugeInSelect, Tokens
<1>2. TypeOK /\ GaugeInv /\ [MetricsNext]_metricsVars => GaugeInv'
  BY GaugeStep
<1>3. TypeOK /\ GaugeInv => GaugeNearExpiry
  BY LeaseAssumption
     DEF LeaseAssumption, TypeOK, RangesOK, GaugeInv, OutcomeAtEnd, GaugeInSelect,
         GaugeNearExpiry, Ahead, Usable, Tokens, Calls
<1>4. QED
  BY <1>1, <1>2, <1>3, Watches, TypeCorrect, PTL DEF MetricsSpec

-----------------------------------------------------------------------------
(* The counter, and the token of a refused lookup, which stays dead.       *)
CountInv ==
    /\ renewals \in 0..(CounterWrap - 1)
    /\ pc = "lookup" /\ answer = "autherr" => ~Usable
    /\ pc = "relogin" => ~Usable

(* An increment is visible also when the counter wraps.                    *)
LEMMA IncMoves ==
    ASSUME renewals \in 0..(CounterWrap - 1), Inc
    PROVE  renewals' # renewals /\ renewals' \in 0..(CounterWrap - 1)
<1> USE MetricsAssumption DEF MetricsAssumption
<1>1. CASE renewals + 1 < CounterWrap
  <2>1. (renewals + 1) % CounterWrap = renewals + 1
    BY <1>1
  <2>2. QED
    BY <2>1, <1>1 DEF Inc
<1>2. CASE renewals + 1 = CounterWrap
  <2>1. (renewals + 1) % CounterWrap = 0
    BY <1>2
  <2>2. QED
    BY <2>1, <1>2 DEF Inc
<1>3. QED
  BY <1>1, <1>2

LEMMA CountStep ==
    ASSUME TypeOK, CountInv, [MetricsNext]_metricsVars
    PROVE  CountInv'
<1>1. renewals' \in 0..(CounterWrap - 1)
  BY IncMoves DEF CountInv, MetricsNext, metricsVars, telemetry, CountsRenewal
<1>2. /\ pc' = "lookup" /\ answer' = "autherr" => held' \notin live'
      /\ pc' = "relogin" => held' \notin live'
  <2> USE DEF TypeOK, RangesOK, CountInv, Usable, Calls, Answers, Tokens, loopVars,
          tickVars, callVars, vaultVars, envVars
  <2>1. [Next]_vars
    BY StepsOfRefresher
  <2>2. CASE Returns \/ OnTick \/ OnDone
    BY <2>2 DEF OnTick, OnDone, Returns, LookupReturns, ReloginReturns, VerifyReturns,
       RenewReturns, LoginReturns, Answered, Send, EndRound, IsAuthError
  <2>3. CASE VaultAnswers
    BY <2>3 DEF VaultAnswers, VaultLooksUp, VaultRenews, VaultLogsIn,
       VaultUnreachable, Evaluates, Deliver, Other
  <2>4. CASE Elapse \/ Revoke
    BY <2>4 DEF Elapse, Revoke
  <2>5. CASE Outage \/ Recover \/ WithdrawCreds \/ Shutdown \/ UNCHANGED vars
    BY <2>5 DEF Outage, Recover, WithdrawCreds, Shutdown, vars
  <2>6. QED
    BY <2>1, <2>2, <2>3, <2>4, <2>5 DEF Next
<1>3. QED
  BY <1>1, <1>2 DEF CountInv, Usable

(* docs/metrics.md:14: in every setting, a change of tokens that the       *)
(* counter misses replaces a token Vault had already refused.              *)
THEOREM CountsReplacements == MetricsSpec => UncountedOnlyWhenDead
<1>1. MetricsInit => CountInv
  BY MetricsAssumption DEF MetricsAssumption, MetricsInit, Init, CountInv
<1>2. TypeOK /\ CountInv /\ [MetricsNext]_metricsVars => CountInv'
  BY CountStep
<1>3. TypeOK /\ CountInv /\ [MetricsNext]_metricsVars
        => [held' # held /\ renewals' = renewals => ~Usable]_metricsVars
  <2> SUFFICES ASSUME TypeOK, CountInv, MetricsNext, held' # held,
                      renewals' = renewals
               PROVE  ~Usable
    BY DEF metricsVars, vars
  <2>1. ~Inc
    BY IncMoves DEF CountInv
  <2>2. held' # held => ~(LoginReturns /\ pc' = "crashed")
    BY DEF LoginReturns, KeepToken, EndRound
  <2>3. ReloginReturns
    BY <2>1, <2>2
       DEF MetricsNext, CountsRenewal, LookupReturns, Uncounted, OnTick, OnDone,
           VaultAnswers, VaultLooksUp, VaultRenews, VaultLogsIn, VaultUnreachable,
           VerifyReturns, RenewReturns, Elapse, Revoke, Outage, Recover,
           WithdrawCreds, Shutdown
  <2>4. QED
    BY <2>3 DEF ReloginReturns, Answered, CountInv
<1>4. QED
  BY <1>1, <1>2, <1>3, Watches, TypeCorrect, PTL DEF MetricsSpec, UncountedOnlyWhenDead

=============================================================================
