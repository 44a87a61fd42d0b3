----------------------- MODULE LeaseRefresher_proofs -----------------------
(***************************************************************************)
(* Theorems about the token lease refresher, for every interval, call      *)
(* bound, TTL and fault set the assumptions of LeaseRefresher allow.       *)
(***************************************************************************)
EXTENDS LeaseRefresher, Integers, TLAPS

USE DEF Tokens, Other, Calls, Answers, Outcomes, Usable, AtMost, Less1,
        OutageBound, Fault, Deliver, Send, EndRound, Answered, NoteAnswer,
        Evaluates, IsAuthError, NeedsRenewal, KeepToken, SwitchToken,
        InstallIssued, Increment, Granted, Renewable,
        Running, Panics, Crash,
        loopVars, tickVars, callVars, vaultVars, envVars, observers, vars

(* The time lost answers may cost: it grows by a whole round with each.    *)
LEMMA LostTimes ==
    ASSUME NEW k \in Nat
    PROVE  /\ LostTime(k) \in Nat
           /\ LostTime(k + 1) = LostTime(k) + (IF Loses THEN OutageBound ELSE 0)
<1>1. OutageBound \in Nat
  BY LeaseAssumption DEF LeaseAssumption
<1> HIDE DEF OutageBound
<1>2. k * OutageBound \in Nat /\ (k + 1) * OutageBound = k * OutageBound + OutageBound
  BY <1>1
<1> QED BY <1>2 DEF LostTime

LEMMA LongestIsNat == LongestOutage \in Nat
BY LostTimes, LeaseAssumption DEF LeaseAssumption, LongestOutage

(* Type correctness is inductive: every step of the loop, of Vault and of  *)
(* the environment keeps each variable in its range, and a call is in      *)
(* progress exactly while the loop waits for one.                          *)
THEOREM TypeCorrect == Spec => []TypeOK
<1> USE LeaseAssumption, LongestIsNat DEF LeaseAssumption, Kinds
<1>1. Init => FlagsOK
  BY DEF Init, FlagsOK
<1>2. FlagsOK /\ [Next]_vars => FlagsOK'
  <2> SUFFICES ASSUME FlagsOK, [Next]_vars PROVE FlagsOK'
    OBVIOUS
  <2> USE DEF FlagsOK
  <2>1. CASE OnTick \/ OnDone \/ UNCHANGED vars
    BY <2>1 DEF OnTick, OnDone
  <2>2. CASE Returns
    BY <2>2 DEF Returns, LookupReturns, ReloginReturns, VerifyReturns,
                RenewReturns, LoginReturns
  <2>3. CASE VaultAnswers
    BY <2>3 DEF VaultAnswers, VaultLooksUp, VaultRenews, VaultLogsIn,
                VaultUnreachable
  <2>4. CASE Elapse \/ Revoke \/ Outage \/ Recover \/ WithdrawCreds \/ Shutdown
    BY <2>4 DEF Elapse, Revoke, Outage, Recover, WithdrawCreds, Shutdown
  <2>5. QED
    BY <2>1, <2>2, <2>3, <2>4 DEF Next
<1>3. Init => RangesOK
  BY DEF Init, RangesOK
<1>4. RangesOK /\ [Next]_vars => RangesOK'
  <2> SUFFICES ASSUME RangesOK, [Next]_vars PROVE RangesOK'
    OBVIOUS
  <2> USE DEF RangesOK
  <2>1. CASE OnTick
    BY <2>1 DEF OnTick
  <2>2. CASE OnDone
    BY <2>2 DEF OnDone
  <2>3. CASE LookupReturns
    BY <2>3 DEF LookupReturns
  <2>4. CASE ReloginReturns
    BY <2>4 DEF ReloginReturns
  <2>5. CASE VerifyReturns
    BY <2>5 DEF VerifyReturns
  <2>6. CASE RenewReturns
    BY <2>6 DEF RenewReturns
  <2>7. CASE LoginReturns
    BY <2>7 DEF LoginReturns
  <2>8. CASE VaultLooksUp
    BY <2>8 DEF VaultLooksUp
  <2>9. CASE VaultRenews
    BY <2>9 DEF VaultRenews
  <2>10. CASE VaultLogsIn
    <3>1. ttl' \in [Tokens -> Nat] /\ left' \in [Tokens -> Nat]
      BY <2>10 DEF VaultLogsIn
    <3>2. live' \in SUBSET Tokens
      <4>1. live' \subseteq live \cup {Other(held)} /\ Other(held) \in Tokens
        BY <2>10 DEF VaultLogsIn
      <4>2. QED
        BY <4>1
    <3>3. faultsLeft' \in 0..MaxFaults
      BY <2>10 DEF VaultLogsIn
    <3>4. QED
      BY <2>10, <3>1, <3>2, <3>3 DEF VaultLogsIn
  <2>11. CASE VaultUnreachable
    BY <2>11 DEF VaultUnreachable
  <2>12. CASE Elapse
    <3>1. ttl' \in [Tokens -> Nat] /\ left' \in [Tokens -> Nat]
      BY <2>12 DEF Elapse
    <3>2. live' \in SUBSET Tokens
      BY <2>12 DEF Elapse
    <3>3. tickAge' \in 0..(Interval - 1)
      BY <2>12 DEF Elapse
    <3>4. callAge' \in 0..CallBound
      BY <2>12 DEF Elapse
    <3>5. deadFor' \in 0..(LongestOutage + 1)
      BY <2>12 DEF Elapse
    <3>6. QED
      BY <2>12, <3>1, <3>2, <3>3, <3>4, <3>5 DEF Elapse
  <2>13. CASE Revoke
    BY <2>13 DEF Revoke
  <2>14. CASE Outage
    BY <2>14 DEF Outage
  <2>15. CASE Recover
    BY <2>15 DEF Recover
  <2>16. CASE WithdrawCreds
    BY <2>16 DEF WithdrawCreds
  <2>17. CASE Shutdown
    BY <2>17 DEF Shutdown
  <2>18. CASE UNCHANGED vars
    BY <2>18
  <2>19. QED
    BY <2>1, <2>2, <2>3, <2>4, <2>5, <2>6, <2>7, <2>8, <2>9, <2>10, <2>11,
       <2>12, <2>13, <2>14, <2>15, <2>16, <2>17, <2>18
       DEF Next, Returns, VaultAnswers
<1>5. QED
  BY <1>1, <1>2, <1>3, <1>4, PTL DEF Spec, TypeOK

-----------------------------------------------------------------------------
(* Without outages Vault stays reachable and the credentials stay valid.   *)
Calm == vaultUp /\ credsOk

LEMMA StaysCalm == ASSUME Sustainable PROVE Spec => []Calm
<1>1. Init => Calm
  BY DEF Init, Calm
<1>2. Calm /\ [Next]_vars => Calm'
  BY Sustainable
     DEF Sustainable, Calm, Next, Returns, VaultAnswers, OnTick, OnDone,
         LookupReturns, ReloginReturns, VerifyReturns, RenewReturns,
         LoginReturns, VaultLooksUp, VaultRenews, VaultLogsIn,
         VaultUnreachable, Elapse, Revoke, Outage, Recover, WithdrawCreds,
         Shutdown
<1>3. QED
  BY <1>1, <1>2, PTL DEF Spec

(* What a window and the reserve of windows are worth, as facts that no    *)
(* later step has to multiply for.                                         *)
LEMMA Windows ==
    ASSUME Sustainable, faultsLeft \in 0..MaxFaults
    PROVE  /\ LoginSlack \in {0, CallBound}
           /\ RoundBound = 2 * CallBound + LoginSlack
           /\ Window \in Nat /\ Window = Interval + RoundBound
           /\ Reserve \in Nat
           /\ BootTTL > Window + MaxFaults * Window
           /\ CreationTTL > 2 * (Window + Reserve)
           /\ Grant > Window + Reserve
<1> USE LeaseAssumption DEF LeaseAssumption, Sustainable, LoginSlack, RoundBound
<1>1. Window \in Nat /\ MaxFaults \in Nat /\ faultsLeft \in Nat
  BY DEF Window
<1>2. Reserve \in Nat
  BY <1>1 DEF Reserve
<1>3. \A w, m, f \in Nat : f <= m => f * w <= m * w
  OBVIOUS
<1>4. Reserve <= MaxFaults * Window /\ MaxFaults * Window \in Nat
  BY <1>1, <1>3 DEF Reserve
<1>5. Grant \in Nat
  BY DEF Grant
<1>6. QED
  BY <1>1, <1>2, <1>4, <1>5 DEF Window

(* A fault is paid for with one window of the reserve.                     *)
LEMMA ReserveStep ==
    ASSUME Sustainable, faultsLeft \in 0..MaxFaults
    PROVE  /\ faultsLeft' = faultsLeft => Reserve' = Reserve
           /\ faultsLeft' = faultsLeft - 1 => Reserve' = Reserve - Window
<1>1. Window \in Nat
  BY Windows
<1>2. \A w, f \in Int : (f - 1) * w = f * w - w
  OBVIOUS
<1>3. faultsLeft \in Int /\ Window \in Int
  BY <1>1, LeaseAssumption DEF LeaseAssumption
<1>4. (faultsLeft - 1) * Window = faultsLeft * Window - Window
  BY <1>2, <1>3
<1>5. Window' = Window
  BY DEF Window, RoundBound, LoginSlack
<1>6. QED
  BY <1>4, <1>5 DEF Reserve

(* The lease arithmetic holds when NewClient has just returned.            *)
LEMMA SlackInit == ASSUME Sustainable, Init PROVE LeaseSlack
<1>1. MaxFaults \in Nat /\ faultsLeft = MaxFaults
  BY LeaseAssumption DEF LeaseAssumption, Init
<1>2. Reserve = MaxFaults * Window
  BY <1>1 DEF Reserve
<1>3. ttl[held] = BootTTL
  BY DEF Init
<1>4. ttl[held] > RoundBound + Interval + Reserve
  BY <1>1, <1>2, <1>3, Windows, LeaseAssumption DEF LeaseAssumption
<1>5. TokenKind = "service" => \A t \in Tokens : ttl[t] <= left[t]
  BY LeaseAssumption DEF LeaseAssumption, Sustainable, Init
<1>6. QED
  BY <1>4, <1>5, Windows, LeaseAssumption
     DEF LeaseAssumption, Init, LeaseSlack, SelectSlack, LookupSlack, RenewSlack,
         LoginCallSlack, Spoiled, Covers

(* Every step of the loop and of Vault, and every unit of time, keeps it.  *)
LEMMA SlackStep ==
    ASSUME Sustainable, TypeOK, Calm, LeaseSlack, [Next]_vars
    PROVE  LeaseSlack'
<1> USE DEF SelectSlack, LookupSlack, RenewSlack, LoginCallSlack, LeaseSlack,
            Spoiled, Remaining, Covers, Capped
<1>w. /\ LoginSlack \in {0, CallBound}
      /\ RoundBound = 2 * CallBound + LoginSlack
      /\ Window \in Nat /\ Window = Interval + RoundBound
      /\ Reserve \in Nat
      /\ CreationTTL > 2 * (Window + Reserve)
      /\ Grant > Window + Reserve
  BY Windows DEF TypeOK, RangesOK
<1>r. /\ faultsLeft' = faultsLeft => Reserve' = Reserve
      /\ faultsLeft' = faultsLeft - 1 => Reserve' = Reserve - Window
  BY ReserveStep DEF TypeOK, RangesOK
<1>c. LoginSlack' = LoginSlack /\ RoundBound' = RoundBound /\ Window' = Window
      /\ Grant' = Grant
  BY DEF Window, RoundBound, LoginSlack, Grant
<1>k. /\ TokenKind = "batch" => AuthMethod # "token"
      /\ AuthMethod # "token" => LoginSlack = CallBound
      /\ Faults \subseteq {"loss", "malformed", "empty", "shutdown"}
      /\ TokenKind \in Kinds /\ (TokenKind = "service" => CreationTTL <= MaxTTL)
      /\ Grant \in Nat /\ Grant = IF TokenKind = "service" THEN Increment ELSE CreationTTL
  BY LeaseAssumption DEF LeaseAssumption, Sustainable, LoginSlack, Grant
<1> USE LeaseAssumption, <1>w, <1>r, <1>c, <1>k
    DEF LeaseAssumption, Calm, TypeOK, RangesOK, Kinds
<1>1. CASE OnTick
  BY <1>1 DEF OnTick
<1>2. CASE OnDone
  BY <1>2 DEF OnDone
<1>3. CASE LookupReturns
  BY <1>3 DEF LookupReturns
<1>4. CASE ReloginReturns
  BY <1>4 DEF ReloginReturns
<1>5. CASE VerifyReturns
  BY <1>5 DEF VerifyReturns
<1>6. CASE RenewReturns
  BY <1>6 DEF RenewReturns
<1>7. CASE LoginReturns
  <2>1. /\ pc = "login" /\ stage = "answered"
        /\ UNCHANGED <<tickAge, live, ttl, left, faultsLeft>>
    BY <1>7 DEF LoginReturns
  <2>2. CASE answer = "ok"
    <3>1. held' = Other(held) /\ ttl[held'] > 0 /\ held' \in live
      BY <1>7, <2>1, <2>2 DEF LoginReturns
    <3>2. pc' = "select" /\ tickPending' = tickPending
      BY <1>7, <2>2 DEF LoginReturns
    <3>3. SelectSlack'
      BY <2>1, <2>2, <3>1, <3>2
    <3> QED BY <2>1, <3>1, <3>2, <3>3
  <2>3. CASE answer # "ok" /\ ~Panics
    BY <1>7, <2>1, <2>3 DEF LoginReturns
  <2>4. CASE Panics
    <3>1. pc' = "crashed" /\ tickPending' = FALSE /\ stage' = "none" /\ callAge' = 0
          /\ answer' = "none"
      BY <1>7, <2>4 DEF LoginReturns
    <3>2. held' = held
      BY <1>7, <2>4 DEF LoginReturns
    <3> QED BY <2>1, <3>1, <3>2
  <2> QED BY <2>2, <2>3, <2>4
<1>8. CASE VaultLooksUp
  BY <1>8 DEF VaultLooksUp
<1>9. CASE VaultRenews
  BY <1>9 DEF VaultRenews
<1>10. CASE VaultLogsIn
  BY <1>10 DEF VaultLogsIn
<1>11. CASE VaultUnreachable
  BY <1>11 DEF VaultUnreachable
<1>12. CASE Elapse
  <2> USE <1>12 DEF Elapse
  <2>1. UNCHANGED <<pc, stage, answer, seenTTL, held, faultsLeft>>
    OBVIOUS
  <2>2. /\ stage = "none" => callAge' = 0
        /\ stage # "none" => callAge < CallBound /\ callAge' = callAge + 1
    OBVIOUS
  <2>3. \A t \in Tokens : ttl'[t] = Less1(ttl[t]) /\ left'[t] = Less1(left[t])
    OBVIOUS
  <2>4. /\ Capped => Capped'
        /\ ttl[held] > 0 => ttl'[held] = ttl[held] - 1
        /\ ttl[held] = 0 => ttl'[held] = 0
        /\ TokenKind = "service" => \A t \in Tokens : ttl'[t] <= left'[t]
    BY <2>1, <2>3
  <2>5. Running => (Usable' <=> ttl'[held] > 0)
    BY <2>1, <2>3
  <2>6. SelectSlack'
    <3>1. CASE pc = "select" /\ tickAge + 1 = Interval
      <4>1. ~tickPending /\ tickPending'
        BY <3>1
      <4>2. QED
        BY <3>1, <4>1, <2>1, <2>4
    <3>2. CASE pc = "select" /\ tickAge + 1 # Interval
      <4>1. ~tickPending /\ ~tickPending' /\ tickAge' = tickAge + 1
        BY <3>2
      <4>2. QED
        BY <3>2, <4>1, <2>1, <2>4
    <3>3. QED
      BY <3>1, <3>2, <2>1
  <2>7. pc # "select" /\ ~tickPending' => callAge' <= tickAge'
    <3>1. CASE ~Running
      BY <3>1, <2>2
    <3>2. CASE Running /\ tickAge + 1 = Interval
      BY <3>2
    <3>3. CASE Running /\ tickAge + 1 # Interval
      <4>1. ~tickPending' => ~tickPending
        BY <3>3
      <4>2. tickAge' = tickAge + 1
        BY <3>3
      <4>3. QED
        BY <3>3, <4>1, <4>2, <2>2
    <3>4. QED
      BY <3>1, <3>2, <3>3
  <2>8. pc \in {"login", "relogin"} /\ answer = "ok" =>
          /\ Other(held) \in live'
          /\ ttl'[Other(held)] = ttl[Other(held)] - 1
    OBVIOUS
  <2>9. Reserve' = Reserve
    BY <2>1
  <2>10. LookupSlack'
    BY <2>1, <2>2, <2>4, <2>9
  <2>11. RenewSlack'
    BY <2>1, <2>2, <2>4, <2>9
  <2>12. LoginCallSlack'
    BY <2>1, <2>2, <2>4, <2>8, <2>9
  <2>13. Running => Covers(0)'
    <3>1. CASE pc \in {"select", "lookup", "login", "relogin", "verify"}
      BY <3>1, <2>1, <2>2, <2>6, <2>10, <2>12
    <3>2. CASE pc = "renew"
      BY <3>2, <2>1, <2>2, <2>11
    <3>3. QED
      BY <3>1, <3>2
  <2>14. QED
    BY <2>1, <2>4, <2>5, <2>6, <2>7, <2>10, <2>11, <2>12, <2>13
<1>13. CASE Revoke \/ Outage \/ Recover \/ WithdrawCreds
  BY <1>13 DEF Revoke, Outage, Recover, WithdrawCreds
<1>14. CASE Shutdown
  BY <1>14 DEF Shutdown
<1>15. CASE UNCHANGED vars
  BY <1>15
<1>16. QED
  BY <1>1, <1>2, <1>3, <1>4, <1>5, <1>6, <1>7, <1>8, <1>9, <1>10, <1>11,
     <1>12, <1>13, <1>14, <1>15
     DEF Next, Returns, VaultAnswers

(* The token arithmetic is an invariant of the loop for every interval,    *)
(* every TTL and every number of lost or malformed answers that leave half *)
(* a lease, and a grant, for the rounds this takes.                        *)
THEOREM LeaseSlackHolds == ASSUME Sustainable PROVE Spec => []LeaseSlack
<1>1. TypeOK /\ Calm /\ LeaseSlack /\ [Next]_vars => LeaseSlack'
  BY SlackStep
<1>2. Init => LeaseSlack
  BY SlackInit
<1>3. QED
  BY <1>1, <1>2, TypeCorrect, StaysCalm, PTL DEF Spec

(* With leases and grants of that size, the token in use only ever ends    *)
(* with the maximum TTL of a service token.                                *)
THEOREM OnlyMaximumEnds == ASSUME Sustainable PROVE Spec => []ExpiresOnlyAtMaximum
<1>1. TypeOK /\ LeaseSlack => ExpiresOnlyAtMaximum
  BY DEF TypeOK, RangesOK, LeaseSlack, Covers, Capped, ExpiresOnlyAtMaximum
<1>2. QED
  BY <1>1, LeaseSlackHolds, TypeCorrect, PTL

(* So a periodic or a batch token never expires while the loop runs.       *)
THEOREM NeverExpires ==
    ASSUME Sustainable, TokenKind # "service" PROVE Spec => []TokenNeverExpires
<1>1. ExpiresOnlyAtMaximum => TokenNeverExpires
  BY TokenKind # "service" DEF ExpiresOnlyAtMaximum, TokenNeverExpires
<1>2. QED
  BY <1>1, OnlyMaximumEnds, PTL

-----------------------------------------------------------------------------
(* A round reports its outcome when it ends, not before.                   *)
ReportsAtEnd == stage # "none" => outcome = "none"

VouchedInv == ReauthVouched /\ ReportsAtEnd

(* With a method that logs in, the log never claims a re-authentication    *)
(* that Vault did not confirm.                                             *)
THEOREM LoginVouches ==
    ASSUME AuthMethod # "token" PROVE Spec => []ReauthVouched
<1> USE DEF VouchedInv, ReauthVouched, ReportsAtEnd
<1>1. Init => VouchedInv
  BY DEF Init
<1>2. TypeOK /\ VouchedInv /\ [Next]_vars => VouchedInv'
  BY AuthMethod # "token"
     DEF TypeOK, FlagsOK, RangesOK, Next, Returns, VaultAnswers, OnTick, OnDone,
         LookupReturns, ReloginReturns, VerifyReturns, RenewReturns,
         LoginReturns, VaultLooksUp, VaultRenews, VaultLogsIn,
         VaultUnreachable, Elapse, Revoke, Outage, Recover, WithdrawCreds,
         Shutdown
<1>3. QED
  BY <1>1, <1>2, TypeCorrect, PTL DEF Spec

-----------------------------------------------------------------------------
(* A token that is dead, or in the second half of its life.                *)
Due == ~Usable \/ 2 * ttl[held] < CreationTTL

(* What the loop may conclude from an answer that arrived late: a token    *)
(* found dead stays dead, one found due stays due until Vault renews it,   *)
(* which the loop learns unless the answer is lost.                        *)
DueInv ==
    /\ pc = "lookup" /\ answer = "autherr" => ~Usable
    /\ pc = "lookup" /\ answer = "ok" => ~Usable \/ seenTTL >= ttl[held]
    /\ pc = "renew" /\ answer = "none" => Due
    /\ pc = "renew" /\ answer # "ok" => Due \/ unheard
    /\ pc \in {"login", "relogin"} => Due \/ unheard

LEMMA DueStep ==
    ASSUME TypeOK, DueInv, [Next]_vars PROVE DueInv'
<1> USE LeaseAssumption
    DEF LeaseAssumption, TypeOK, RangesOK, DueInv, Due, Kinds
<1>1. CASE OnTick \/ OnDone
  BY <1>1 DEF OnTick, OnDone
<1>2. CASE LookupReturns
  BY <1>2 DEF LookupReturns
<1>3. CASE ReloginReturns \/ VerifyReturns
  BY <1>3 DEF ReloginReturns, VerifyReturns
<1>4. CASE RenewReturns
  BY <1>4 DEF RenewReturns
<1>5. CASE LoginReturns
  BY <1>5 DEF LoginReturns
<1>6. CASE VaultLooksUp
  BY <1>6 DEF VaultLooksUp
<1>7. CASE VaultRenews
  BY <1>7 DEF VaultRenews
<1>8. CASE VaultLogsIn
  BY <1>8 DEF VaultLogsIn
<1>9. CASE VaultUnreachable
  BY <1>9 DEF VaultUnreachable
<1>10. CASE Elapse
  <2>1. /\ UNCHANGED <<pc, answer, seenTTL, held, unheard>>
        /\ held \in live' => held \in live /\ ttl'[held] <= ttl[held]
    BY <1>10 DEF Elapse
  <2>2. ttl'[held] \in Nat
    BY <1>10 DEF Elapse
  <2>3. QED
    BY <2>1, <2>2
<1>11. CASE Revoke
  BY <1>11 DEF Revoke
<1>12. CASE Outage \/ Recover \/ WithdrawCreds \/ Shutdown
  BY <1>12 DEF Outage, Recover, WithdrawCreds, Shutdown
<1>13. CASE UNCHANGED vars
  BY <1>13
<1>14. QED
  BY <1>1, <1>2, <1>3, <1>4, <1>5, <1>6, <1>7, <1>8, <1>9, <1>10, <1>11,
     <1>12, <1>13
     DEF Next, Returns, VaultAnswers

(* The loop gives a token up only when it is dead or due, or in the round  *)
(* in which the answer to its renewal was lost, whatever else fails.       *)
THEOREM DropsOnlyDue == Spec => DropsOnlyDueTokens
<1>1. Init => DueInv
  BY DEF Init, DueInv
<1>2. TypeOK /\ DueInv /\ [Next]_vars => DueInv'
  BY DueStep
<1>3. TypeOK /\ DueInv /\ [Next]_vars
        => [held' # held => ~Usable \/ 2 * ttl[held] < CreationTTL \/ unheard]_vars
  BY DEF TypeOK, RangesOK, DueInv, Due, Next, Returns, VaultAnswers, OnTick,
         OnDone, LookupReturns, ReloginReturns, VerifyReturns, RenewReturns,
         LoginReturns, VaultLooksUp, VaultRenews, VaultLogsIn,
         VaultUnreachable, Elapse, Revoke, Outage, Recover, WithdrawCreds,
         Shutdown
<1>4. QED
  BY <1>1, <1>2, <1>3, TypeCorrect, PTL DEF Spec, DropsOnlyDueTokens

-----------------------------------------------------------------------------
(* The state TokenKeeper sees, unfolded.                                   *)
LEMMA KeeperFrame ==
    UNCHANGED <<pc, held, live, ttl, unheard, vaultUp, credsOk, done>>
      => UNCHANGED Keeper!keeperVars
BY DEF Keeper!keeperVars, Keeper!session, Keeper!keeper

LEMMA KeeperInit == Init => Keeper!Init
BY DEF Init, Keeper!Init

(* Each step of the loop, of Vault and of the environment is a step of     *)
(* TokenKeeper or none; only the returns of the two logins adopt a token.  *)
LEMMA KeeperStep ==
    ASSUME TypeOK, DueInv, [Next]_vars
    PROVE  [Keeper!Next]_(Keeper!keeperVars)
<1> USE DEF TypeOK, RangesOK, FlagsOK, Keeper!Works
<1>1. CASE OnTick
  <2>1. /\ UNCHANGED <<held, live, ttl, vaultUp, credsOk, done>>
        /\ pc = "select" /\ pc' = "lookup" /\ unheard' = FALSE
    BY <1>1 DEF OnTick
  <2>2. QED
    BY <2>1 DEF Keeper!Next, Keeper!Settle, Keeper!keeper
<1>2. CASE pc' # "crashed" /\ (LookupReturns \/ VerifyReturns \/ RenewReturns
                             \/ VaultLooksUp \/ VaultUnreachable)
  <2>1. /\ UNCHANGED <<held, live, ttl, unheard, vaultUp, credsOk, done>>
        /\ pc \in Calls /\ pc' \notin {"stopped", "crashed"}
    BY <1>2 DEF LookupReturns, VerifyReturns, RenewReturns, VaultLooksUp,
                VaultUnreachable
  <2>2. QED
    BY <2>1 DEF Keeper!keeperVars, Keeper!session, Keeper!keeper
<1>3. CASE pc' = "crashed" /\ Returns
  <2>1. /\ UNCHANGED <<held, live, ttl, unheard, vaultUp, credsOk, done>>
        /\ pc \in Calls
    BY <1>3 DEF Returns, LookupReturns, ReloginReturns, VerifyReturns,
                RenewReturns, LoginReturns
  <2>2. QED
    BY <1>3, <2>1 DEF Keeper!Next, Keeper!Break, Keeper!session
<1>4. CASE OnDone
  BY <1>4 DEF OnDone, Keeper!Next, Keeper!Stop, Keeper!session
<1>5. CASE pc' # "crashed" /\ (ReloginReturns \/ LoginReturns)
  <2>0. /\ UNCHANGED <<live, ttl, unheard, vaultUp, credsOk, done>>
        /\ pc \in Calls /\ pc' \notin {"stopped", "crashed"}
    BY <1>5 DEF ReloginReturns, LoginReturns
  <2>1. CASE held' = held
    BY <2>0, <2>1 DEF Keeper!keeperVars, Keeper!session, Keeper!keeper
  <2>2. CASE held' # held
    <3>1. held' = Other(held)
      BY <1>5, <2>2 DEF ReloginReturns, LoginReturns
    <3>2. Due \/ unheard
      BY <1>5 DEF ReloginReturns, LoginReturns, DueInv
    <3>3. Keeper!Adopt
      BY <2>0, <3>1, <3>2 DEF Keeper!Adopt, Keeper!keeper, Due
    <3>4. QED
      BY <3>3 DEF Keeper!Next
  <2>3. QED
    BY <2>1, <2>2
<1>6. CASE VaultRenews
  <2>1. /\ UNCHANGED <<pc, held, live, vaultUp, credsOk, done>>
        /\ vaultUp /\ pc = "renew" /\ unheard' \in BOOLEAN
    BY <1>6 DEF VaultRenews
  <2>2. CASE Renewable(held)
    BY <2>1, <2>2 DEF Keeper!Next, Keeper!Renew, Keeper!keeper
  <2>3. CASE ~Renewable(held)
    <3>1. ttl' = ttl /\ unheard' = FALSE
      BY <1>6, <2>3 DEF VaultRenews
    <3>2. QED
      BY <2>1, <3>1 DEF Keeper!Next, Keeper!Settle, Keeper!keeper
  <2>4. QED
    BY <2>2, <2>3
<1>7. CASE VaultLogsIn
  <2>0. /\ UNCHANGED <<pc, held, unheard, vaultUp, credsOk, done>>
        /\ vaultUp /\ pc \in Calls
    BY <1>7 DEF VaultLogsIn
  <2>1. CASE ~UNCHANGED vaultVars
    <3>1. /\ credsOk
          /\ live' = live \cup {Other(held)} /\ ttl'[held] = ttl[held]
      BY <1>7, <2>1 DEF VaultLogsIn
    <3>2. QED
      BY <2>0, <3>1 DEF Keeper!Next, Keeper!Issue, Keeper!keeper
  <2>2. CASE UNCHANGED vaultVars
    BY <2>0, <2>2, KeeperFrame
  <2>3. QED
    BY <2>1, <2>2
<1>8. CASE Elapse
  <2>1. /\ UNCHANGED <<pc, held, unheard, vaultUp, credsOk, done>>
        /\ live' \subseteq live /\ ttl'[held] <= ttl[held] /\ ttl'[held] \in Nat
    BY <1>8 DEF Elapse
  <2>2. 2 * ttl[held] < CreationTTL => 2 * ttl'[held] < CreationTTL
    BY <2>1, LeaseAssumption DEF LeaseAssumption
  <2>3. QED
    BY <2>1, <2>2 DEF Keeper!Next, Keeper!Age, Keeper!keeper
<1>9. CASE Revoke
  <2>1. /\ UNCHANGED <<pc, held, ttl, unheard, vaultUp, credsOk, done>>
        /\ live' = live \ {held}
    BY <1>9 DEF Revoke
  <2>2. QED
    BY <2>1 DEF Keeper!Next, Keeper!Age, Keeper!keeper
<1>10. CASE Outage \/ Recover \/ WithdrawCreds
  <2>1. /\ UNCHANGED <<pc, held, live, ttl, unheard, done>>
        /\ vaultUp' \in BOOLEAN /\ credsOk' \in {credsOk, FALSE}
    BY <1>10 DEF Outage, Recover, WithdrawCreds
  <2>2. QED
    BY <2>1 DEF Keeper!Next, Keeper!Disturb, Keeper!keeper, Keeper!session
<1>11. CASE Shutdown
  BY <1>11 DEF Shutdown, Keeper!Next, Keeper!Signal, Keeper!session
<1>12. CASE UNCHANGED vars
  BY <1>12, KeeperFrame
<1>13. CASE VaultLooksUp \/ VaultUnreachable
  BY <1>2, <1>13 DEF VaultLooksUp, VaultUnreachable
<1>14. QED
  BY <1>1, <1>2, <1>3, <1>4, <1>5, <1>6, <1>7, <1>8, <1>9, <1>10, <1>11, <1>12,
     <1>13
     DEF Next, Returns, VaultAnswers

(* The refresher implements TokenKeeper, for every interval, call bound,   *)
(* TTL and set of faults.                                                  *)
THEOREM KeepsTheToken == Spec => KeepsToken
<1>1. Init => DueInv /\ Keeper!Init
  BY KeeperInit DEF Init, DueInv
<1>2. TypeOK /\ DueInv /\ [Next]_vars => DueInv'
  BY DueStep
<1>3. TypeOK /\ DueInv /\ [Next]_vars => [Keeper!Next]_(Keeper!keeperVars)
  BY KeeperStep
<1>4. QED
  BY <1>1, <1>2, <1>3, TypeCorrect, PTL DEF Spec, KeepsToken, Keeper!Spec

-----------------------------------------------------------------------------
(* How long the plugin can have been without a usable token at each place  *)
(* of the loop: since before the tick, or only since the call in progress  *)
(* began when Vault has seen the token alive in it.  A lost answer ends    *)
(* the round as if nothing had been done in it; the time it may cost is    *)
(* added everywhere.                                                       *)
Since(n) == deadFor <= n + callAge + Lost

SelectDead ==
    pc = "select" => deadFor <= (IF tickPending THEN Interval ELSE tickAge) + Lost

CallsDead ==
    /\ pc = "lookup" /\ answer \in {"none", "autherr"} => Since(Interval)
    /\ pc = "lookup" /\ answer \notin {"none", "autherr"} => Since(0)
    /\ pc = "relogin" /\ answer \in {"none", "ok"} => Since(Interval + CallBound)
    /\ pc = "renew" => Since(CallBound)
    /\ pc = "renew" /\ answer = "ok" => Since(0)
    /\ pc = "login" /\ answer \in {"none", "ok"} => Since(2 * CallBound)
    /\ pc \in {"login", "relogin"} /\ answer \notin {"none", "ok"} => Since(0)
    /\ pc = "verify" => Since(0)

(* The token a login has brought does not expire before it is installed.   *)
Fresh ==
    pc \in {"login", "relogin"} /\ answer = "ok" =>
      Other(held) \in live /\ ttl[Other(held)] + callAge >= CreationTTL

OutageInv ==
    /\ deadFor <= OutageBound + Lost
    /\ Usable \/ ~vaultUp => deadFor = 0
    /\ credsOk /\ ~done => SelectDead /\ CallsDead
    /\ Fresh
    /\ pc # "select" /\ ~tickPending => callAge <= tickAge
    /\ pc = "stopped" => done

(* Every fault is counted once, so what lost answers may cost never        *)
(* shrinks, and grows by a whole round with every answer that is lost.     *)
LEMMA LostGrows ==
    ASSUME TypeOK, [Next]_vars
    PROVE  /\ Lost \in Nat /\ Lost' \in Nat
           /\ Lost <= Lost'
           /\ faultsLeft' = faultsLeft => Lost' = Lost
           /\ faultsLeft' # faultsLeft /\ Loses => Lost' = Lost + OutageBound
<1> DEFINE k == MaxFaults - faultsLeft
<1>1. k \in Nat /\ faultsLeft \in Nat /\ OutageBound \in Nat
  BY LeaseAssumption DEF LeaseAssumption, TypeOK, RangesOK
<1>2. faultsLeft' = faultsLeft \/ (faultsLeft > 0 /\ faultsLeft' = faultsLeft - 1)
  BY DEF Next, Returns, VaultAnswers, OnTick, OnDone, LookupReturns,
         ReloginReturns, VerifyReturns, RenewReturns, LoginReturns,
         VaultLooksUp, VaultRenews, VaultLogsIn, VaultUnreachable, Elapse,
         Revoke, Outage, Recover, WithdrawCreds, Shutdown
<1>3. Lost = LostTime(k)
  BY DEF Lost
<1> HIDE DEF OutageBound
<1>4. CASE faultsLeft' = faultsLeft
  BY <1>1, <1>3, <1>4, LostTimes DEF Lost
<1>5. CASE faultsLeft > 0 /\ faultsLeft' = faultsLeft - 1
  <2>1. MaxFaults - faultsLeft' = k + 1
    BY <1>1, <1>5, LeaseAssumption DEF LeaseAssumption
  <2>2. Lost' = LostTime(k + 1)
    BY <2>1 DEF Lost
  <2>3. LostTime(k) \in Nat
    BY <1>1, LostTimes
  <2>4. LostTime(k + 1) = LostTime(k) + (IF Loses THEN OutageBound ELSE 0)
    BY <1>1, LostTimes
  <2> HIDE DEF k
  <2>5. faultsLeft' # faultsLeft
    BY <1>1, <1>5
  <2> QED BY <1>1, <1>3, <2>2, <2>3, <2>4, <2>5
<1> QED BY <1>2, <1>4, <1>5

LEMMA OutageStep ==
    ASSUME AuthMethod # "token", CreationTTL > CallBound,
           TypeOK, OutageInv, [Next]_vars
    PROVE  OutageInv'
<1> USE LeaseAssumption, LongestIsNat, LostGrows, AuthMethod # "token",
        CreationTTL > CallBound
    DEF LeaseAssumption, TypeOK, FlagsOK, RangesOK, OutageInv, SelectDead, CallsDead,
        Since, Fresh, Loses
<1>1. CASE OnTick
  BY <1>1 DEF OnTick
<1>2. CASE OnDone
  BY <1>2 DEF OnDone
<1>3. CASE LookupReturns
  BY <1>3 DEF LookupReturns
<1>4. CASE ReloginReturns
  BY <1>4 DEF ReloginReturns
<1>5. CASE VerifyReturns
  BY <1>5 DEF VerifyReturns
<1>6. CASE RenewReturns
  BY <1>6 DEF RenewReturns
<1>7. CASE LoginReturns
  BY <1>7 DEF LoginReturns
<1>8. CASE VaultLooksUp
  BY <1>8 DEF VaultLooksUp
<1>9. CASE VaultRenews
  BY <1>9 DEF VaultRenews
<1>10. CASE VaultLogsIn
  <2>1. /\ pc \in {"login", "relogin"} /\ answer = "none" /\ answer' # "none"
        /\ UNCHANGED <<pc, held, callAge, deadFor, tickAge, tickPending, credsOk,
                      done, vaultUp>>
        /\ held \in live' <=> held \in live
    BY <1>10 DEF VaultLogsIn
  <2>2. CASE answer' = "ok"
    <3>1. Other(held) \in live' /\ ttl'[Other(held)] = CreationTTL
      BY <1>10, <2>2 DEF VaultLogsIn
    <3>2. QED
      BY <2>1, <2>2, <3>1
  <2>3. CASE answer' = "err" /\ Fault("loss")
    BY <2>1, <2>3
  <2>4. CASE ~credsOk
    BY <2>1, <2>4, <1>10 DEF VaultLogsIn
  <2>5. CASE answer' = "empty" /\ Fault("empty")
    BY <2>1, <2>5
  <2>6. QED
    BY <2>2, <2>3, <2>4, <2>5, <1>10 DEF VaultLogsIn
<1>11. CASE VaultUnreachable
  BY <1>11 DEF VaultUnreachable
<1>12. CASE Elapse
  <2> USE <1>12 DEF Elapse
  <2>1. UNCHANGED <<pc, stage, answer, held, vaultUp, credsOk, done>>
    OBVIOUS
  <2>2. /\ stage = "none" => callAge' = 0
        /\ stage # "none" => callAge < CallBound /\ callAge' = callAge + 1
    OBVIOUS
  <2>3. /\ Usable' \/ ~vaultUp \/ ~credsOk \/ done \/ ~Running => deadFor' = 0
        /\ ~Usable' => deadFor' <= deadFor + 1
        /\ deadFor' \in Nat
    OBVIOUS
  <2>4. pc # "select" /\ ~tickPending' => callAge' <= tickAge'
    <3>1. CASE ~Running
      BY <3>1, <2>2
    <3>2. CASE Running /\ tickAge + 1 = Interval
      BY <3>2
    <3>3. CASE Running /\ tickAge + 1 # Interval
      <4>1. (~tickPending' => ~tickPending) /\ tickAge' = tickAge + 1
        BY <3>3
      <4>2. QED
        BY <3>3, <4>1, <2>2
    <3>4. QED
      BY <3>1, <3>2, <3>3
  <2>5. Fresh'
    <3>1. CASE pc \in {"login", "relogin"} /\ answer = "ok"
      BY <3>1
    <3>2. CASE ~(pc \in {"login", "relogin"} /\ answer = "ok")
      BY <3>2, <2>1
    <3>3. QED
      BY <3>1, <3>2
  <2>6. CASE ~credsOk \/ done \/ ~Running
    BY <2>1, <2>3, <2>4, <2>5, <2>6
  <2>7. CASE credsOk /\ ~done /\ pc = "select"
    BY <2>1, <2>3, <2>5, <2>7
  <2>8. CASE credsOk /\ ~done /\ Running /\ pc # "select"
    <3>1. CallsDead'
      BY <2>1, <2>2, <2>3, <2>8
    <3>2. deadFor' <= OutageBound + Lost
      <4>1. pc \in {"lookup", "renew", "login", "relogin", "verify"} /\ callAge < CallBound
        BY <2>2, <2>8
      <4>2. deadFor + 1 <= Interval + 2 * CallBound + Lost
        BY <4>1, <2>8
      <4>3. QED
        BY <4>2, <2>3
    <3>3. Usable' \/ ~vaultUp' => deadFor' = 0
      BY <2>1, <2>3
    <3>4. QED
      BY <3>1, <3>2, <3>3, <2>1, <2>4, <2>5, <2>8
  <2>9. QED
    BY <2>6, <2>7, <2>8
<1>13. CASE Revoke
  BY <1>13 DEF Revoke
<1>14. CASE Outage \/ Recover \/ WithdrawCreds \/ Shutdown
  BY <1>14 DEF Outage, Recover, WithdrawCreds, Shutdown
<1>15. CASE UNCHANGED vars
  BY <1>15
<1>16. QED
  BY <1>1, <1>2, <1>3, <1>4, <1>5, <1>6, <1>7, <1>8, <1>9, <1>10, <1>11,
     <1>12, <1>13, <1>14, <1>15
     DEF Next, Returns, VaultAnswers

(* With a method that logs in, the plugin is without a usable token for at *)
(* most an interval and two calls while Vault is fine, and as much again   *)
(* for every lost answer, for every interval, call bound, kind of token    *)
(* and set of faults.                                                      *)
THEOREM OutagesAreBounded ==
    ASSUME AuthMethod # "token", CreationTTL > CallBound
    PROVE  Spec => []BoundedOutage
<1>1. Init => OutageInv
  BY LeaseAssumption, LostTimes
     DEF Lost, LeaseAssumption, Init, OutageInv, SelectDead, CallsDead, Since, Fresh
<1>2. TypeOK /\ OutageInv /\ [Next]_vars => OutageInv'
  BY OutageStep
<1>3. OutageInv => BoundedOutage
  BY DEF OutageInv, BoundedOutage
<1>4. QED
  BY <1>1, <1>2, <1>3, TypeCorrect, PTL DEF Spec

=============================================================================
