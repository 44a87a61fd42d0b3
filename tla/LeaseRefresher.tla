--------------------------- MODULE LeaseRefresher ---------------------------
(***************************************************************************)
(* The token lease refresher of pkg/vault/lease.go: a goroutine that wakes *)
(* up every Interval, looks its own Vault token up, renews the token once  *)
(* less than half of its creation TTL is left, and logs in again when      *)
(* Vault rejects the token or the renewal.                                 *)
(*                                                                         *)
(* Time is discrete (one unit is one second of the program, or any coarser *)
(* grain).  Every call to Vault has three moments: the refresher sends the *)
(* request, Vault evaluates it, the refresher gets the answer; time and    *)
(* faults may come in between, so the TTL the refresher decides on can be  *)
(* stale by up to CallBound.                                               *)
(***************************************************************************)
EXTENDS Naturals

CONSTANTS
    Interval,      \* -token-refresh-interval, the period of the ticker
    CallBound,     \* the longest a call to Vault can take, retries included
    CreationTTL,   \* creation_ttl of every token Vault issues to the plugin
    BootTTL,       \* what is left of the first token when the loop starts
    MaxTTL,        \* the maximum lifetime of a "service" token
    RenewSeconds,  \* -token-renewal, the increment asked of renew-self
    TokenKind,     \* how Vault treats the plugin's tokens, see Kinds
    AuthMethod,    \* "token", "jwt" or, for any other method, "login"
    Faults,        \* what the environment may do, see FaultKinds
    MaxFaults      \* bound: how many faults one behaviour contains

(***************************************************************************)
(* "periodic": a renewal restores the period.  "service": a renewal grants *)
(* RenewSeconds, never past MaxTTL.  "batch": cannot be renewed.           *)
(***************************************************************************)
Kinds == {"periodic", "service", "batch"}

(***************************************************************************)
(* "outage": Vault becomes unreachable or sealed.  "revoke": an operator   *)
(* revokes the token in use.  "creds": the login credentials are           *)
(* withdrawn.  "loss": Vault evaluates a request and its answer is lost.   *)
(* "malformed": a lookup answers without numeric TTLs.  "empty": a lookup  *)
(* or a login is answered with no body, which the API client returns as a  *)
(* nil secret.  "shutdown": the process gets SIGINT or SIGTERM.            *)
(***************************************************************************)
FaultKinds == {"outage", "revoke", "creds", "loss", "malformed", "empty", "shutdown"}

ASSUME LeaseAssumption ==
    /\ Interval \in Nat \ {0}       \* time.NewTicker panics on 0
    /\ CallBound \in Nat \ {0}
    /\ CreationTTL \in Nat \ {0}
    /\ BootTTL \in 1..CreationTTL
    /\ MaxTTL \in Nat
    /\ RenewSeconds \in Nat
    /\ TokenKind \in Kinds
    /\ AuthMethod \in {"token", "jwt", "login"}
    /\ CallBound <= Interval        \* 10s per attempt, 2 retries; default 60s
    /\ Faults \subseteq FaultKinds
    /\ MaxFaults \in Nat

VARIABLES
    pc,          \* where the loop is: "select", a call it waits for, "stopped",
                 \* or "crashed" with the whole process
    done,        \* ctx is cancelled
    tickPending, \* a tick waits in ticker.C, a channel of capacity 1
    tickAge,     \* time since the ticker last fired
    stage,       \* the call in progress: "none", "sent", "answered"
    callAge,     \* time since the call was sent
    answer,      \* what Vault answered
    seenTTL,     \* the ttl in the answer to a lookup
    held,        \* the token in c.Client
    live,        \* Vault: the tokens it accepts
    ttl,         \* Vault: time until a token expires
    left,        \* Vault: time until a service token reaches MaxTTL
    vaultUp,     \* Vault is reachable, unsealed and active
    credsOk,     \* the login credentials are accepted
    faultsLeft,  \* how many more faults this behaviour may contain
    outcome,     \* what the last iteration reported in the log
    vouched,     \* observer: the last answer about the held token was "ok"
    unheard,     \* observer: the answer to a renewal that took effect in this
                 \* round was lost
    deadFor      \* observer: how long the plugin has been without a usable
                 \* token although Vault and the credentials were fine

loopVars  == <<pc, outcome, vouched>>
tickVars  == <<tickPending, tickAge>>
callVars  == <<stage, callAge, answer, seenTTL>>
vaultVars == <<live, ttl, left>>
envVars   == <<done, vaultUp, credsOk>>
observers == <<unheard, deadFor>>
vars == <<loopVars, tickVars, callVars, held, vaultVars, envVars, faultsLeft,
          observers>>

(***************************************************************************)
(* Two slots are enough for the tokens: the one held and the one a login   *)
(* is about to install.  A login reuses the slot of the token given up.    *)
(***************************************************************************)
Tokens   == {1, 2}
Other(t) == IF t = 1 THEN 2 ELSE 1

Calls    == {"lookup", "renew", "login", "relogin", "verify"}
Outcomes == {"none", "failed", "skipped", "renewed", "reauthenticated"}
Answers  == {"none", "ok", "autherr", "err", "malformed", "empty"}

Usable == held \in live
Running == pc \notin {"stopped", "crashed"}

(* The time without a usable token that BoundedOutage allows: one tick and *)
(* the two calls of a re-authentication, and as much again for every       *)
(* answer that may have been lost or empty.                                *)
OutageBound == Interval + 2 * CallBound
Loses == {"loss", "empty"} \cap Faults # {}
LostTime(faults) == IF Loses THEN faults * OutageBound ELSE 0
Lost == LostTime(MaxFaults - faultsLeft)
LongestOutage == OutageBound + LostTime(MaxFaults)

AtMost(a, b) == IF a <= b THEN a ELSE b
Less1(n)     == IF n = 0 THEN 0 ELSE n - 1

-----------------------------------------------------------------------------
Init ==
    /\ pc = "select" /\ outcome = "none" /\ vouched = TRUE
    /\ tickPending = FALSE /\ tickAge = 0
    /\ stage = "none" /\ callAge = 0 /\ answer = "none" /\ seenTTL = 0
    /\ held = 1
    \* NewClient returned, so Vault has just accepted the token
    /\ live = {1}
    /\ ttl  = [t \in Tokens |-> IF t = 1 THEN BootTTL ELSE 0]
    /\ left = [t \in Tokens |->
                 IF t = 1 /\ TokenKind = "service" THEN MaxTTL ELSE 0]
    /\ done = FALSE /\ vaultUp = TRUE /\ credsOk = TRUE
    /\ faultsLeft = MaxFaults
    /\ unheard = FALSE /\ deadFor = 0

-----------------------------------------------------------------------------
(* The refresher's side of a call.                                         *)

Send(call) ==
    /\ pc' = call
    /\ stage' = "sent" /\ callAge' = 0 /\ answer' = "none" /\ seenTTL' = 0

EndRoundKeepingAnswer(result) ==
    /\ pc' = "select" /\ outcome' = result
    /\ stage' = "none" /\ callAge' = 0
    /\ UNCHANGED <<answer, seenTTL>>
EndRound(result) ==
    /\ pc' = "select" /\ outcome' = result
    /\ stage' = "none" /\ callAge' = 0 /\ answer' = "none" /\ seenTTL' = 0

Answered(call) == pc = call /\ stage = "answered"

(***************************************************************************)
(* lease.go:64 reads the data of a nil secret, client.go:146, 175 and 223  *)
(* its auth; jwt.go:108 checks.  The panic of this goroutine ends the      *)
(* process.                                                                *)
(***************************************************************************)
Panics == answer = "empty" /\ (pc = "lookup" \/ AuthMethod # "jwt")
Crash ==
    /\ pc' = "crashed" /\ tickPending' = FALSE
    /\ stage' = "none" /\ callAge' = 0 /\ answer' = "none" /\ seenTTL' = 0
    /\ UNCHANGED <<outcome, tickAge>>

(* vouched follows the answers the refresher gets.                         *)
NoteAnswer == vouched' = (answer = "ok")

(***************************************************************************)
(* select: with a tick pending and ctx done, Go takes either branch.       *)
(***************************************************************************)
OnTick ==
    /\ pc = "select" /\ tickPending
    /\ tickPending' = FALSE
    /\ Send("lookup")
    /\ outcome' = "none"
    /\ unheard' = FALSE
    /\ UNCHANGED <<vouched, tickAge, held, vaultVars, envVars, faultsLeft, deadFor>>

DoneBreaksSelectOnly ==       \* break in place of return
    /\ pc = "select" /\ done
    /\ pc' = "select"
    /\ UNCHANGED <<outcome, vouched, tickVars, callVars, held, vaultVars,
                   envVars, faultsLeft, observers>>
OnDone ==
    /\ pc = "select" /\ done
    /\ pc' = "stopped"
    /\ tickPending' = FALSE       \* ticker.Stop(): no tick is read any more
    /\ UNCHANGED <<outcome, vouched, tickAge, callVars, held, vaultVars,
                   envVars, faultsLeft, observers>>

(***************************************************************************)
(* isAuthError: only a 401 or 403 sends the lookup branch to a new login.  *)
(***************************************************************************)
AnyErrorIsAuthError(a) == a # "ok"
NoErrorIsAuthError(a)  == FALSE
IsAuthError(a) == a = "autherr"

(* ttlFloat < creationTTLFloat/2                                           *)
NeverRenews(t, creation) == FALSE
RenewsTooLate(t, creation) == 4 * t < creation
NeedsRenewal(t, creation) == 2 * t < creation

(***************************************************************************)
(* AuthMethodFunc: WithTokenAuth only sets the token it was given and      *)
(* reports success; the other methods call Vault and set the token of the  *)
(* answer.  In LeaseRefresher the verifying variant is called.             *)
(***************************************************************************)
KeepToken == UNCHANGED <<held, deadFor>>
SwitchToken ==
    /\ held' = Other(held)
    /\ deadFor' = IF held' \in live THEN 0 ELSE deadFor
InstallIssued == SwitchToken

LookupReturns ==
    /\ Answered("lookup") /\ NoteAnswer
    /\ \/ /\ IsAuthError(answer)
          /\ Send(IF AuthMethod = "token" THEN "verify" ELSE "relogin")
          /\ UNCHANGED outcome
          /\ UNCHANGED tickVars
       \/ /\ answer # "ok" /\ ~IsAuthError(answer) /\ ~Panics
          /\ EndRound("failed")
          /\ UNCHANGED tickVars
       \/ /\ answer = "ok" /\ NeedsRenewal(seenTTL, CreationTTL)
          /\ Send("renew")
          /\ UNCHANGED <<outcome, tickVars>>
       \/ /\ answer = "ok" /\ ~NeedsRenewal(seenTTL, CreationTTL)
          /\ EndRound("skipped")
          /\ UNCHANGED tickVars
       \/ Panics /\ Crash
    /\ UNCHANGED <<held, vaultVars, envVars, faultsLeft, observers>>

(* authenticateAndVerify: first the login, then a lookup with its token.   *)
ReloginReturns ==
    /\ Answered("relogin") /\ NoteAnswer
    /\ \/ /\ answer = "ok"
          /\ InstallIssued
          /\ Send("verify")
          /\ UNCHANGED <<outcome, tickVars>>
       \/ /\ answer # "ok" /\ ~Panics
          /\ KeepToken
          /\ EndRound("failed")
          /\ UNCHANGED tickVars
       \/ Panics /\ Crash /\ KeepToken
    /\ UNCHANGED <<vaultVars, envVars, faultsLeft, unheard>>

VerifyIgnoringError ==
    /\ Answered("verify") /\ NoteAnswer
    /\ EndRound("reauthenticated")
    /\ UNCHANGED <<tickVars, held, vaultVars, envVars, faultsLeft, observers>>

VerifyReturns ==
    /\ Answered("verify") /\ NoteAnswer
    /\ EndRound(IF answer = "ok" THEN "reauthenticated" ELSE "failed")
    /\ UNCHANGED <<tickVars, held, vaultVars, envVars, faultsLeft, observers>>

(* Any error of the renewal, not only an auth error, leads to a login.     *)
RenewReturns ==
    /\ Answered("renew") /\ NoteAnswer
    /\ \/ /\ answer = "ok"
          /\ EndRound("renewed")
       \/ /\ answer # "ok" /\ AuthMethod # "token"
          /\ Send("login")
          /\ UNCHANGED outcome
       \/ /\ answer # "ok" /\ AuthMethod = "token"
          /\ EndRound("reauthenticated")
    /\ UNCHANGED <<tickVars, held, vaultVars, envVars, faultsLeft, observers>>

(* The login of the renewal branch: its token is not verified.             *)
LoginReturns ==
    /\ Answered("login") /\ NoteAnswer
    /\ \/ /\ answer = "ok"
          /\ InstallIssued
          /\ EndRound("reauthenticated")
          /\ UNCHANGED tickVars
       \/ /\ answer # "ok" /\ ~Panics
          /\ KeepToken
          /\ EndRound("failed")
          /\ UNCHANGED tickVars
       \/ Panics /\ Crash /\ KeepToken
    /\ UNCHANGED <<vaultVars, envVars, faultsLeft, unheard>>

Returns ==
    \/ LookupReturns \/ ReloginReturns \/ VerifyReturns
    \/ RenewReturns \/ LoginReturns

-----------------------------------------------------------------------------
(* Vault's side of a call.                                                 *)

Fault(kind) ==
    /\ kind \in Faults /\ faultsLeft > 0
    /\ faultsLeft' = faultsLeft - 1

(* The answer reaches the client, or is lost and the request times out.    *)
Deliver(a) ==
    /\ stage' = "answered"
    /\ \/ answer' = a /\ UNCHANGED faultsLeft
       \/ answer' = "err" /\ Fault("loss")

Evaluates(calls) == pc \in calls /\ stage = "sent" /\ vaultUp

(* GET auth/token/lookup-self: an unknown or expired token gets a 403.     *)
VaultLooksUp ==
    /\ Evaluates({"lookup", "verify"})
    /\ \/ Deliver(IF Usable THEN "ok" ELSE "autherr")
       \/ \E a \in {"malformed", "empty"} :
            /\ pc = "lookup" /\ Usable /\ Fault(a)
            /\ stage' = "answered" /\ answer' = a
    /\ seenTTL' = IF answer' = "ok" THEN ttl[held] ELSE 0
    /\ UNCHANGED <<loopVars, tickVars, callAge, held, vaultVars, envVars, observers>>

(* What a renewal leaves on the token's clock.                             *)
Increment == IF RenewSeconds = 0 THEN CreationTTL ELSE RenewSeconds
Granted(t) ==
    IF TokenKind = "service" THEN AtMost(Increment, left[t]) ELSE CreationTTL

Renewable(t) == t \in live /\ TokenKind \in {"periodic", "service"}

(* PUT auth/token/renew-self                                               *)
VaultRenews ==
    /\ Evaluates({"renew"})
    /\ Deliver(IF Renewable(held) THEN "ok" ELSE "err")
    /\ ttl' = IF Renewable(held) THEN [ttl EXCEPT ![held] = Granted(held)]
                                 ELSE ttl
    /\ unheard' = (Renewable(held) /\ answer' # "ok")
    /\ UNCHANGED <<loopVars, tickVars, callAge, seenTTL, held, live, left,
                   envVars, deadFor>>

(* PUT auth/<mount>/login                                                  *)
VaultLogsIn ==
    /\ Evaluates({"login", "relogin"})
    /\ LET new == Other(held) IN
       \/ /\ credsOk /\ Deliver("ok")
          /\ live' = live \cup {new}
          /\ ttl'  = [ttl EXCEPT ![new] = CreationTTL]
          /\ left' = [left EXCEPT ![new] =
                        IF TokenKind = "service" THEN MaxTTL ELSE 0]
       \/ ~credsOk /\ Deliver("err") /\ UNCHANGED vaultVars
       \/ /\ Fault("empty") /\ stage' = "answered" /\ answer' = "empty"
          /\ UNCHANGED vaultVars
    /\ UNCHANGED <<loopVars, tickVars, callAge, seenTTL, held, envVars, observers>>

(* A connection error, a 5xx or a timeout.                                 *)
VaultUnreachable ==
    /\ pc \in Calls /\ stage = "sent" /\ ~vaultUp
    /\ stage' = "answered" /\ answer' = "err"
    /\ UNCHANGED <<loopVars, tickVars, callAge, seenTTL, held, vaultVars,
                   envVars, faultsLeft, observers>>

VaultAnswers ==
    VaultLooksUp \/ VaultRenews \/ VaultLogsIn \/ VaultUnreachable

-----------------------------------------------------------------------------
(* The environment.                                                        *)

(***************************************************************************)
(* One unit of time passes.  The loop does not sleep on a ready select,    *)
(* and no call outlives CallBound.  A tick that finds the channel full is  *)
(* dropped.                                                                *)
(***************************************************************************)
Elapse ==
    /\ ~(pc = "select" /\ (tickPending \/ done))
    /\ stage # "none" => callAge < CallBound
    /\ LET fires == tickAge + 1 = Interval IN
       /\ tickAge' = IF fires THEN 0 ELSE tickAge + 1
       /\ tickPending' = (tickPending \/ (fires /\ Running))
    /\ callAge' = IF stage = "none" THEN 0 ELSE callAge + 1
    /\ ttl'  = [t \in Tokens |-> Less1(ttl[t])]
    /\ left' = [t \in Tokens |-> Less1(left[t])]
    /\ live' = {t \in live : ttl[t] > 1}
    /\ deadFor' = IF held \in live' \/ ~vaultUp \/ ~credsOk \/ done \/ ~Running
                  THEN 0 ELSE AtMost(deadFor + 1, LongestOutage + 1)
    /\ UNCHANGED <<loopVars, stage, answer, seenTTL, held, envVars, faultsLeft,
                   unheard>>

(* An operator revokes the token the plugin holds.                         *)
Revoke ==
    /\ Fault("revoke") /\ Usable
    /\ live' = live \ {held}
    /\ UNCHANGED <<loopVars, tickVars, callVars, held, ttl, left, envVars, observers>>

Outage ==
    /\ Fault("outage") /\ vaultUp /\ vaultUp' = FALSE
    /\ deadFor' = 0
    /\ UNCHANGED <<loopVars, tickVars, callVars, held, vaultVars, done, credsOk,
                   unheard>>

Recover ==
    /\ ~vaultUp /\ vaultUp' = TRUE
    /\ UNCHANGED <<loopVars, tickVars, callVars, held, vaultVars, done, credsOk,
                   faultsLeft, observers>>

(* The secret id expires, the password or the certificate is withdrawn.    *)
WithdrawCreds ==
    /\ Fault("creds") /\ credsOk /\ credsOk' = FALSE
    /\ UNCHANGED <<loopVars, tickVars, callVars, held, vaultVars, done, vaultUp,
                   observers>>

(* shutDownSignal cancels ctx.                                             *)
Shutdown ==
    /\ Fault("shutdown") /\ ~done /\ done' = TRUE
    /\ UNCHANGED <<loopVars, tickVars, callVars, held, vaultVars, vaultUp, credsOk,
                   observers>>

Next ==
    \/ OnTick \/ OnDone \/ Returns \/ VaultAnswers
    \/ Elapse \/ Revoke \/ Outage \/ Recover \/ WithdrawCreds \/ Shutdown

Spec == Init /\ [][Next]_vars

(***************************************************************************)
(* The goroutine is scheduled and every call ends (http.Client.Timeout),   *)
(* so its steps and the answers are weakly fair, and time passes.  With a  *)
(* tick pending and ctx done, select picks a branch at random: it may take *)
(* the tick branch a few times but not forever, hence strong fairness.     *)
(* Nothing is assumed of the environment: Vault may stay down.             *)
(***************************************************************************)
Fairness ==
    /\ WF_vars(OnTick) /\ SF_vars(OnDone)
    /\ WF_vars(VaultAnswers) /\ WF_vars(Returns)
    /\ WF_vars(Elapse)

FairSpec == Spec /\ Fairness

-----------------------------------------------------------------------------
(* Properties.                                                             *)

FlagsOK ==
    /\ vouched \in BOOLEAN /\ unheard \in BOOLEAN /\ tickPending \in BOOLEAN
    /\ done \in BOOLEAN /\ vaultUp \in BOOLEAN /\ credsOk \in BOOLEAN

RangesOK ==
    /\ pc \in {"select", "stopped", "crashed"} \cup Calls
    /\ outcome \in Outcomes
    /\ tickAge \in 0..(Interval - 1)
    /\ stage \in {"none", "sent", "answered"}
    /\ stage = "none" <=> pc \in {"select", "stopped", "crashed"}
    /\ stage = "answered" <=> answer # "none"
    /\ callAge \in 0..CallBound
    /\ stage = "none" => callAge = 0
    /\ answer \in Answers /\ seenTTL \in Nat
    /\ held \in Tokens /\ live \in SUBSET Tokens
    /\ ttl \in [Tokens -> Nat] /\ left \in [Tokens -> Nat]
    /\ faultsLeft \in 0..MaxFaults
    /\ deadFor \in 0..(LongestOutage + 1)

(* Type correctness: the clocks of Vault, of the ticker and of the call    *)
(* stay in range, and the loop waits exactly when a call is in progress.   *)
TypeOK == FlagsOK /\ RangesOK

(* The promise of README.md:36, "automatic Token Renewal for avoiding      *)
(* Token expiry": as long as the loop runs, the token the plugin sends     *)
(* with its requests is one Vault accepts.                                 *)
TokenNeverExpires == Running => Usable

(* What the renewals can achieve of that promise: the token in use only    *)
(* ends with the maximum TTL of a service token, which nothing extends     *)
(* (lease.go:97-104); a periodic or a batch token does not end at all.     *)
ExpiresOnlyAtMaximum ==
    Running /\ ~Usable => TokenKind = "service" /\ left[held] = 0

(* The lease arithmetic behind it.  Where the loop stands determines how   *)
(* much of the token's TTL the rest of the round, and the wait for the     *)
(* next one, can still use up: a renewal at less than half of the creation *)
(* TTL (lease.go:97) comes in time if half of it covers an interval and a  *)
(* round of calls, and as much again for every answer that may be lost or  *)
(* malformed, and so does what the renewal grants.                         *)
LoginSlack == IF AuthMethod = "token" THEN 0 ELSE CallBound
RoundBound == 2 * CallBound + LoginSlack
Window     == Interval + RoundBound
Reserve    == faultsLeft * Window

Grant == IF TokenKind = "service" THEN Increment ELSE CreationTTL

Sustainable ==
    /\ Faults \subseteq {"loss", "malformed", "empty", "shutdown"}
    /\ TokenKind = "batch" => AuthMethod # "token"
    /\ TokenKind = "service" => CreationTTL <= MaxTTL
    /\ BootTTL > Window + MaxFaults * Window
    /\ CreationTTL > 2 * (Window + MaxFaults * Window)
    /\ Grant > Window + MaxFaults * Window

Remaining == CallBound - callAge       \* of the call in progress

(* The token has reached its maximum TTL, or still has more than n left.   *)
Capped    == TokenKind = "service" /\ ttl[held] = left[held]
Covers(n) == Capped \/ ttl[held] > n

(* A call that goes wrong with a live token has used up a fault.           *)
Spoiled == stage = "answered" /\ answer # "ok"

SelectSlack ==
    /\ pc = "select" /\ tickPending => Covers(RoundBound + Reserve)
    /\ pc = "select" /\ ~tickPending =>
          Covers(RoundBound + (Interval - tickAge) + Reserve)

LookupSlack ==
    /\ pc = "lookup" => Covers(Remaining + CallBound + LoginSlack + Reserve)
    /\ pc = "lookup" /\ Spoiled =>
          Covers(Remaining + CallBound + LoginSlack + Reserve + Window)
    /\ pc = "lookup" /\ answer = "autherr" => ttl[held] = 0
    /\ pc = "lookup" /\ answer = "ok" => seenTTL <= ttl[held] + callAge

RenewSlack ==
    /\ pc = "renew" /\ stage = "sent" => Covers(Remaining + LoginSlack + Reserve)
    /\ pc = "renew" /\ stage = "answered" =>
          \/ Capped \/ ttl[held] + callAge >= Grant
          \/ /\ TokenKind = "batch" /\ answer # "ok"
             /\ Covers(Remaining + LoginSlack + Reserve)

LoginCallSlack ==
    /\ pc = "login" => Covers(Remaining + Reserve)
    /\ pc = "login" /\ Spoiled => Covers(Remaining + Reserve + Window)
    /\ pc = "relogin" => Capped
    /\ pc \in {"login", "relogin"} /\ answer = "ok" =>
          /\ Other(held) \in live
          /\ ttl[Other(held)] + callAge >= CreationTTL
    /\ pc = "verify" => Capped \/ ttl[held] + callAge + CallBound >= CreationTTL

LeaseSlack ==
    /\ Running => Covers(0) /\ (Usable <=> ttl[held] > 0)
    /\ TokenKind = "service" => \A t \in Tokens : ttl[t] <= left[t]
    /\ SelectSlack /\ LookupSlack /\ RenewSlack /\ LoginCallSlack
    \* no tick since this round began, so none since its last call began
    /\ pc # "select" /\ ~tickPending => callAge <= tickAge

(* While Vault is reachable and the credentials are valid, the plugin is   *)
(* never without a usable token for longer than one tick of the loop and   *)
(* the two calls of a re-authentication, whatever happened before; a lost  *)
(* or empty answer costs it one more such round (lease.go:43-62,           *)
(* lease.go:97-117).                                                       *)
BoundedOutage == deadFor <= OutageBound + Lost

(* "successfully re-authenticated" is only logged when Vault has just      *)
(* accepted the credentials or the token of the new session                *)
(* (lease.go:57, lease.go:108).                                            *)
ReauthVouched == outcome = "reauthenticated" => vouched

(* The loop trades its token for a new one only when the old one is dead   *)
(* or in the second half of its life, or, in the same round, when the      *)
(* answer to a renewal that took effect was lost (lease.go:100): neither   *)
(* outages nor any other lost answer make it log in early or twice (the    *)
(* isAuthError guard, lease.go:46, and the TTL guard, lease.go:97).        *)
DropsOnlyDueTokens ==
    [][held' # held => ~Usable \/ 2 * ttl[held] < CreationTTL \/ unheard]_vars

(* The refresher implements TokenKeeper: seen from the code that shares    *)
(* the client, tokens only end, are extended by Vault, or are replaced,    *)
(* when lost or due or extended unheard, by one Vault issued; and a loop   *)
(* that has stopped or crashed does nothing.                               *)
Keeper ==
    INSTANCE TokenKeeper WITH
        Sessions <- Tokens,
        inUse    <- held,
        usable   <- Usable,
        due      <- 2 * ttl[held] < CreationTTL,
        unsure   <- unheard,
        spare    <- Other(held) \in live,
        stopped  <- pc = "stopped",
        broken   <- pc = "crashed"
KeepsToken == Keeper!Spec

(* Once Vault stays up and the credentials stay valid, the plugin gets     *)
(* back to a usable token, unless it is shutting down or an empty answer   *)
(* ends the process, which leaves it to the next one.                      *)
Recovers ==
    <>[](vaultUp /\ credsOk) => (~Usable ~> (Usable \/ done \/ pc = "crashed"))

(* After the shutdown signal the goroutine ends, even while Vault is down. *)
StopsWhenDone == done ~> ~Running

=============================================================================
