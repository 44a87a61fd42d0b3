# A TLA+ development of vault-kubernetes-kms

`vault-kubernetes-kms` is a KMS plugin for the kube-apiserver. It listens on a
unix socket for the gRPC calls of the Kubernetes KMS API (v1 and v2), has HashiCorp
Vault's transit engine encrypt and decrypt, keeps its Vault token alive in the
background, and answers health probes over HTTP. The modules here model the parts
of it whose behaviour depends on order, time or failure; TLC checks them on small
instances and TLAPS proves the main properties for every value of the constants.

Paths below are relative to the repository; `PROJECT.json` maps every definition
to the lines it models.

## 1. Inventory

| Component | State | Operations | Interacts with | Hard behaviour |
|---|---|---|---|---|
| Token lease refresher, `pkg/vault/lease.go` | the ticker, the token in the shared client | one round per tick: lookup, then renew or log in again | Vault; `shutDownSignal` through `ctx`; the RPC handlers through the token | time: stale TTLs, slow calls, max TTLs; outages, lost answers; select between tick and `ctx.Done` |
| Auth methods, `client.go`, `jwt.go` | token in the client; `AuthMethodFunc` | `NewClient` at start-up, login again for the refresher | Vault, credential files, the SPIFFE workload API | a login that is none (token auth); credentials rotated while they are read, or copied once |
| Transit client, `transit.go` | none | `Encrypt` (2 requests), `Decrypt`, `GetKeyVersion` | Vault's transit key | key rotation between two requests; the second request failing |
| KMS v1 and v2, `pkg/plugin` | none of their own | `Encrypt`, `Decrypt`, `Status`, self-check | the transit client | concurrent handlers, chains of up to four Vault requests in a handler |
| Probes, `pkg/probes` | the registered services | `/health`, `/live` | the self-checks | checks in sequence, first failure wins |
| Life cycle, `cmd/plugin.go` | phase of `NewPlugin`, listeners, temp files | start-up, signal, shutdown | everything | three kinds of exit, deferred calls that run or do not |
| Unix socket, `pkg/socket` | the file at the path | `Listen`, `Close` | an older or newer run on the node | stat, remove and bind are not atomic; stale files |
| Combined PEM, `pem.go` | two temp files | split, clean up | cert auth | half-way failures; private keys left behind |
| Flags and environment, `cmd/plugin.go`, `pkg/utils` | `Options` | parse, `validateFlags` | all | precedence, values accepted that fail later |
| HTTP transport, `pkg/http` | none | `RoundTrip` | Vault | timeouts and retries |
| Metrics, `pkg/metrics` | gauges and counters | set by refresher and handlers | dashboards | values that lag behind, counters that miss what happened |
| Deployment, `assets/vault-kubernetes-kms.yml` | a container, a host directory | liveness probe, restart, stop, kill | the kubelet, Vault through `/health` | the probe fails with Vault; what a killed run leaves on the host |
| Logging, `v2_client`, test utilities | counters, none | | | counters that say something else than what happened |

What makes each part correct:

- refresher: where the setting can sustain it, the token in use ends with its maximum TTL only; a lost
  token is replaced in bounded time once Vault is back; working tokens are kept; a
  reported re-authentication took place; the goroutine ends on shutdown; the telemetry
  is at most a round behind;
- logins: a source that is read at every login never lags behind a rotation, and half a
  rotation or an expired credential is overcome;
- request path: what was encrypted comes back; the key id of a reply is never older
  than its ciphertext; key ids never go back for a client; a self-check raises no
  alarm without a cause; every call is answered;
- life cycle: a serving run can be reached; a run that returns leaves nothing
  behind; a stale socket file never blocks a run started with the overwrite flag;
  a signalled run ends, whatever clients do;
- configuration: what `validateFlags` accepts can log in and serve, and the other way round;
- deployment: after outages, crashes and intrusions on its port the pod serves again, for good;
  only a run cut off while it serves leaves a stale socket, and only the overwrite flag removes one.

`PROJECT.json` lists the hazards at their lines, with the properties that catch them.

## 2. Modules

| Module | What it is |
|---|---|
| `TokenKeeper` | the abstract specification of the refresher: sessions, without clocks and calls |
| `LeaseRefresher` | the refresher, Vault's token store, time and faults; refines `TokenKeeper` |
| `LeaseMetrics` | the refresher with its gauge and counter (extends `LeaseRefresher`) |
| `Credentials` | logins with a credential that is rotated while they read it |
| `KmsEnvironment` | clients and transit key: the state the next two share |
| `KmsService` | the abstract specification: each call answered in one step |
| `KmsPlugin` | the handlers, one action per Vault request; refines `KmsService` |
| `PluginLifecycle` | successive and overlapping runs of the program on a node |
| `SocketFile` | the abstract specification of the pod: the file at the socket path, from run to run |
| `Pod` | the life cycle under the kubelet, with outages of Vault (extends `PluginLifecycle`); refines `SocketFile` |
| `Options` | variables, flags, validation, the login built from them, what then serves |
| `LeaseRefresher_proofs`, `LeaseMetrics_proofs`, `Credentials_proofs`, `KmsPlugin_proofs`, `PluginLifecycle_proofs`, `Pod_proofs`, `Options_proofs` | the theorems about the module of that name |

### LeaseRefresher

`LeaseRefresher(ctx, interval)` is a loop over `select`. `pc` is where it is: in the
select, waiting for one of its five calls, or stopped.

| Code | Action |
|---|---|
| `case <-ticker.C` and `LookupSelf` sent (43-44) | `OnTick` |
| lookup returned: auth error, other error, assertion or parse failure, ttl test (44-117) | `LookupReturns` |
| `authenticateAndVerify`: login, then lookup (22-31) | `ReloginReturns`, `VerifyReturns` |
| `RenewSelf` returned (100-112) | `RenewReturns` |
| `AuthMethodFunc` after a failed renewal (104-109) | `LoginReturns` |
| `case <-ctx.Done()` (119-122) | `OnDone` |

Each call has three moments: sent, evaluated by Vault (`VaultLooksUp`,
`VaultRenews`, `VaultLogsIn`, `VaultUnreachable`) and returned. `Elapse` lets one unit
of time pass between any two of them, up to `CallBound` per call, so the TTL a
decision rests on may be old, and the token may expire during a call. `Faults` names
what the environment may do in a run and `MaxFaults` bounds how often. One of them is an answer
with no body: the code takes the data or the `Auth` of a nil secret (lease.go:64, client.go:146,
175, 223; jwt.go:108 checks), and the panic ends the process (`Panics`, `Crash`). `TokenKind`
says how Vault treats the token: a periodic token is renewed to its period, a service
token up to what is left of its maximum TTL, a batch token not at all. `AuthMethod`
separates token auth, where `AuthMethodFunc` only sets the same token again
(`client.go:104-118`) and makes no call, from the methods that log in. `ticker.C` holds
one tick; further ticks are dropped.

`CallBound` has to cover a whole call with its retries: the plugin's client allows 10 s per
attempt (`pkg/http/http.go:11`) and the Vault library 60 s altogether; the client of its own
that `WithCertAuth` builds (`client.go:201`) has only the latter bound.

`Keeper == INSTANCE TokenKeeper WITH inUse <- held, usable <- Usable, due <- 2 * ttl[held] <
CreationTTL, unsure <- unheard, ...` is the refinement: sessions only end, are extended by Vault, or
are replaced, when lost or due, by one Vault issued; a keeper that stopped or crashed does nothing. A
working session that is not due is only given up after a renewal that took effect and whose answer
was lost: the observer `unheard` remembers that for the rest of the round.

`LeaseMetrics` adds the two collectors the loop sets: `GaugesLookup` in the middle of a
round (lease.go:92), `CountsRenewal` at its end (lease.go:114). Every other step leaves
them alone, so the module shows what they mean after a failure, not only after a success.

### Credentials

A credential is its generation. `disk` has the generation of the certificate and of the key:
separate files are written one after the other (`WriteFile`), a combined PEM file or a JWT is
replaced at once (`Replace`); what is replaced expires some time (`Expire`).

| Code | Action |
|---|---|
| `ParseCombinedPEMFile`, then `NewClient` (plugin.go:248, 269) | `Start` |
| the refresher calls `AuthMethodFunc` (lease.go:49, 104) | `LogIn` |
| `ConfigureTLS` loads certificate and key (client.go:203-210) | `ReadCert`, `ReadKey` |
| `source.Token`: file or SPIFFE (jwt.go:26-65, 95) | `ReadToken` |
| the login's answer, `SetToken` (client.go:217-224, jwt.go:100-113) | `Answer` |
| any of them fails: Fatal in `NewClient`, next tick in the refresher | `Fail` |

The refresher may log in although its token works (a renewal Vault refused): `LogIn` is
enabled then, but only fair once the token is gone. `Restart` is the kubelet's, where
the pod has the manifest's probe (`probed`).

### KmsEnvironment, KmsService, KmsPlugin

`req[c]` and `reply[c]` are the call in slot `c` and its reply. A call records the
key's versions when it began (`since`, `floor`) and the newest key id any client had
seen by then (`seen`): these are observers the promise is stated with. `KmsPlugin` adds
`step[c]`, the Vault request handler `c` makes next, and its local variables
(`sealed`, `keyId`, `checks`). The chains are

- Encrypt: `TransitEncrypt`, `ReadKeyVersion` (`transit.go:12-35`; v1 drops the key id);
- Decrypt: `TransitDecrypt`;
- Status: `ReadStatusKey`, then a self-check: `TransitEncrypt`, `ReadKeyVersion`,
  `TransitDecrypt` (`plugin_v2.go:36-88`);
- a probe: a self-check per registered service, in order.

`RequestFails` may end any of them with what the handler does then (`Abort`). An empty answer to
an encryption or decryption panics (`transit.go:24`, `:50`): in a gRPC handler that ends the process
and every call in progress (`EmptyAnswerPanics`, `BreakOff`), in a health probe `net/http` recovers it
and the probe fails. `Rotate`
and `Retire` change the transit key between any two requests. Base64 is a tag that
`Encode` adds and `Decode` removes, so that a forgotten decoding is visible; a number
stands for the decimal text of a version.

`KmsService` is what the kube-apiserver relies on: one step answers a call, with
versions the key had between call and answer, key id not older than the ciphertext. Faults
are a budget of the environment (`faultsLeft`): a failed reply, or a self-check that raises
the alarm, has to pay for it with a request that failed for that very call, or show a
retired version. So one fault spoils one reply, in the abstract specification and in the
code, unless it is an empty answer to a gRPC call, which may cost all of them (`Collapse`). The refinement mapping is the identity on the shared variables: `Service == INSTANCE
KmsService`, `KeepsPromise == Service!Spec`. All steps of a handler but the last are stutters.

### PluginLifecycle

`phase[r]` is where run `r` of the program is in `NewPlugin`. `Return` runs the deferred
`listener.Close` and `cleanup`; `Fatal` (zap's, i.e. `os.Exit`) and `Kill` do not.

| Code | Action |
|---|---|
| flags valid, signal handler installed (178-229) | `Start` |
| `ParseCombinedPEMFile` (245-254, `pem.go:12-53`) | `WriteCert`, `WriteKey` |
| `NewClient` (269-278) | `Login` |
| `Socket.Listen`: stat, remove, bind (`socket.go:40-59`) | `StatSocket`, `RemoveSocket`, `BindSocket` |
| `Serve` on its goroutine: accepts, or fails and is fatal (331-336) | `Receive`, `ServeFails` |
| `ListenAndServe` on its goroutine, fatal on any error (354-359) | `ListenHealth`, `PortRefused` |
| a signal cancels `ctx` (488-504) | `Signal` |
| `server.Shutdown` (361-369) | `StopHealth`, `HealthStopped` |
| `GracefulStop` (371), return | `DrainRpcs`, `Drained` |

`Fatal` in a goroutine ends the whole process wherever `NewPlugin` is. A failing `Serve` closes its
listener first, if that still works, so `ServeFails` leaves the socket file or does not. A panic of
the main goroutine (an empty answer to the first login) runs the deferred calls, unlike one of
another goroutine, which is a `Kill`.

`Unlinked` is `net.UnixListener.Close`: the first close of a listener unlinks the path,
whosever socket is there by then. A client that is connected can call until
`GracefulStop`, also when the path is no longer the run's. `forced` is the set of runs started
with `-force-socket-overwrite`: each run makes its own choice.

### Pod

`Pod` restricts `PluginLifecycle` to what one container under the kubelet does, and adds Vault
(`vaultUp`), another process of the host on the health port (`foreign`: the manifest sets
`hostNetwork`) and the kubelet's count of failed probes, which the other process may answer. `/health` succeeds when Vault serves the
plugin, and so does the login. After `FailureThreshold` failures the kubelet stops the
container (`Signal`), kills it after the grace period, and starts the next one at any end.
`Forget` recycles the name of a run that ended, unless its socket file is still there, so that
any number of restarts fits in two names. One timing assumption: with Vault up, start-up is
faster than `FailureThreshold` probe periods (30 s by default).

`Socket == INSTANCE SocketFile WITH file <- SocketAt, running <- Alive # {}, force <- forceFlag` is
the refinement: to its clients the path has no file, a live socket or a stale one. Stat, signals,
probes and requests are stutters; a run that drains is still running, without its socket.

### Options

The values of a setting are classes (empty, given, malformed, the methods and sources by
name, `TOKEN` and `FILE` for another spelling). A behaviour starts from a complete
configuration of one of the seven logins; the operator changes up to `MaxChanges` variables or
flags; then `ParseEnvs`, `ParseFlags`, `Validate`, `BuildOption`, `NewClient`, `OpenSocket` run in
order while the refresher's goroutine gets to `time.NewTicker` and the health server's to
`ListenAndServe` at their own time (`StartTicker`, `ListenHealth`).

## 3. Runs

All runs end within about two minutes; the passing `lease_` runs check `LeaseMetrics`, the refresher
with its telemetry. A run marked *violation* is a finding, see section 6.

| Run | Question | Bounds, and why they are enough |
|---|---|---|
| `lease_sized` | does the token survive to its maximum TTL where the sizing rule says so, and what does its end cost when answers are lost? | service tokens, the smallest `BootTTL`, `CreationTTL` and increment the rule allows for `Interval = 3`, `CallBound = 2` and two lost, empty or malformed answers; `MaxTTL` is just above `CreationTTL`, so that renewals that are capped and renewals that are not both happen |
| `lease_faults` | what do outages, revocations, withdrawn credentials, lost, empty and malformed answers and a maximum TTL do to the loop and its telemetry? does it keep the promise of `TokenKeeper`, recover, and stop? | three faults, so that one may hit the handling of another, at every place of the loop |
| `lease_token` | *violation*: what does token auth report after its token died? | no fault, inside the sizing rule, so that nothing but the maximum TTL ends the token |
| `lease_gauge` | *violation*: what does the gauge show when a renewal shortens the lease? | no fault, inside the sizing rule, an increment of a quarter of the lease |
| `kms_answers` | key ids, handlers and promise under rotations and a failing request; is every call answered? | two concurrent calls of either version, a rotation before, during and after each, one fault that may hit either call, or both at once |
| `life_deploy` | what do successive and overlapping runs leave to each other, and take from each other; does a shutdown end? | three runs, two at a time, any of them forcing, every fault: a crash or a run still stopping, its successor, and one more |
| `life_overlap` | *violation*: who unlinks the socket of a serving run? | two runs, no fault |
| `life_keys` | *violation*: what does a failed login leave behind? | one run |
| `options` | which configurations serve, and with which login? is a sound one ever refused, does an unsound one serve for good? | seven complete configurations, any two settings changed, as variable or flag: every pair of checks in `validateFlags` can be made to meet |
| `cert_rotation` | do logins follow a rotation, and is the token got back? | four generations: one in use, one half written, and two to expire; three other failures |
| `pem_stale` | *violation* | one rotation |
| `pod` | does the pod serve again after outages and crashes? what happens to the socket file? | two outages, two crashes and two intrusions on the health port, three probes, with the flag and without; restarts are not bounded |

The life-cycle and options runs end in states where nothing can happen (`MaxRuns` runs
ended; the one run ended) and do not check for deadlock; the others do.

Bounds: `MaxFaults` (faults in a behaviour), `MaxVersion` (rotations of the transit key), `MaxGen`
(of the credential), `MaxRuns`, `MaxInflight`, `MaxOutages`, `MaxIntrusions`, `MaxCrashes`,
`MaxChanges`; the
counter is kept modulo `CounterWrap`; `deadFor` is capped one above the largest bound it is
compared with. The clocks are finite because TTLs only count down and renewals reset them.

### Fairness

- `LeaseRefresher!FairSpec`: the goroutine's own steps and Vault's answers are weakly fair,
  since Go schedules the goroutine and `http.Client.Timeout` (`pkg/http/http.go:11`) ends
  every request. `OnDone` is strongly fair: with a tick and `ctx.Done` both ready, `select`
  chooses at random, and ticks can win a few times only. Time passes. Nothing
  is assumed of the environment: `Recovers` has "Vault stays up" as its premise.
- `KmsPlugin!FairSpec`: each handler runs on its own goroutine and its requests end.
  Clients and the operator are not fair: nobody has to call, take a reply or rotate.
- `PluginLifecycle!FairSpec`: the main goroutine, the health listener and the handlers go
  on; nobody has to start or to signal a run. `SignalEnds` rests on RPCs ending, as
  `GracefulStop` has no timeout of its own.
- `Credentials!FairSpec`: a rotation that was begun is finished; the kubelet starts what ended
  and restarts what its probe finds dead; the refresher goes on. Nobody has to rotate.
- `Pod!PodFairSpec`: outages end, nobody else keeps the health port, the kubelet does its work, the processes go on. Nobody
  has to probe or to call.
- `Options!FairSpec`: a run that was started goes on, and so do its goroutines.

## 4. Properties

`LeaseRefresher`: `ExpiresOnlyAtMaximum`, what holds of the promise that the token does not expire
(`TokenNeverExpires`, a theorem for tokens without a maximum TTL), with `LeaseSlack`, its inductive
form; `BoundedOutage` (no usable token for at most an interval and two calls while Vault is fine, and
as much again for every lost or empty answer: `Lost`); `ReauthVouched`; `DropsOnlyDueTokens` (a working
token that is not due is only replaced when the answer to its renewal was lost); `KeepsToken` (the
refinement); `Recovers`; `StopsWhenDone`.

`LeaseMetrics`: `GaugeNearExpiry` (after a round that went well the gauge promises at most an
interval and a call more than the token has, provided that no renewal shortens a lease: with the
default increment of an hour it does so for leases of more than two, which `lease_gauge` shows),
`UncountedOnlyWhenDead` (a token the counter does not account for was dead).

`Credentials`: `LoginsFollowRotation`, `LoginRecovers`, `BootRecovers`.

`KmsPlugin`: `KeyIdNeverUnderstates` (the key id is read last, so it is at least as new as
the ciphertext), `KeyIdsAdvance` (no client sees a rotation undone), `HandlersHold`,
`KeepsPromise`, `EveryCallAnswered`.

`PluginLifecycle`: `ReturnCleansUp`, `SmoothRedeployment` (for runs that have the node to
themselves), `EvictionNeedsForce` (who may take whose path), `SignalEnds`. The exits by `Fatal`
are outside `ReturnCleansUp`: `NoKeyFilesLeft`, which fails, and `OnlyCutOffsBlock` are about them.

`Pod`: `HealthyIsReachable`, `OnlyCutOffsBlock` (a stale socket is left only by a run that was killed,
refused its health port or failing to accept; a run fails on its socket only where one lies and
without the flag), `KeepsSocket` (the refinement), `PodRecovers`. `Blocked` is the exception the
documentation grants: a socket file left by a run that was cut off, and no flag. The manifest in
`assets/` mounts a host directory and does not set the flag, so one moment of another process on
port 8080, which `hostNetwork: true` makes possible, is enough to block the pod for good: the run
binds its socket first, the port is refused, and `Fatal` leaves the file.

`Options`: `LoginsAreComplete`, `ServesOnlySound` and its converse `SoundServes`, with `SoundIsAccepted`,
its safety part. Three settings that `validateFlags` accepts end the run later: an interval that is
not positive (a panic in the goroutine), a socket whose scheme is not lower case, and a health port
that is none; a run with the first or the last may serve for a moment, and `UnsoundEnds` says that
it does not last. An empty health port is accepted too, and means a port the system chooses.

Each property of a passing run has a mutant in `PROJECT.json`: a plausible bug, written
next to the definition it replaces, which violates the property under the same
configuration.

## 5. Theorems

Proved for every value of the constants that satisfies the `ASSUME` of the module.

| Theorem | States |
|---|---|
| `LeaseRefresher_proofs!TypeCorrect` | `Spec => []TypeOK` |
| `LeaseSlackHolds`, `OnlyMaximumEnds` | in the setting `Sustainable`: `Spec => []LeaseSlack`, `Spec => []ExpiresOnlyAtMaximum` |
| `NeverExpires` | in the setting `Sustainable`, tokens without a maximum TTL: `Spec => []TokenNeverExpires` |
| `LoginVouches` | with a login method: `Spec => []ReauthVouched` |
| `DropsOnlyDue` | `Spec => DropsOnlyDueTokens` |
| `KeepsTheToken` | `Spec => KeepsToken` |
| `OutagesAreBounded` | with a login method and `CreationTTL > CallBound`, whatever fails: `Spec => []BoundedOutage` |
| `LeaseMetrics_proofs!GaugeIsNear` | where renewals do not shorten a lease: `MetricsSpec => []GaugeNearExpiry` |
| `CountsReplacements` | `MetricsSpec => UncountedOnlyWhenDead` |
| `Credentials_proofs!TypeCorrect`, `FollowsRotation` | `Spec => []TypeOK`, `Spec => []LoginsFollowRotation` |
| `KmsPlugin_proofs!TypeCorrect`, `HandlersAlwaysHold` | `Spec => []TypeOK`, `Spec => []HandlersHold` |
| `NeverUnderstates`, `Advance` | `Spec => []KeyIdNeverUnderstates`, `Spec => []KeyIdsAdvance` |
| `Refinement` | `Spec => KeepsPromise` |
| `PluginLifecycle_proofs!TypeCorrect` | `Spec => []TypeOK` |
| `CleansUp` | `Spec => []ReturnCleansUp` |
| `PathIsKept` | `Spec => []EvictionNeedsForce` |
| `Redeploys` | `Spec => []SmoothRedeployment` |
| `Pod_proofs!PodTypeCorrect`, `HealthyServes` | `PodSpec => []PodTypeOK`, `PodSpec => []HealthyIsReachable` |
| `CutOffsBlock`, `SocketRefinement` | `PodSpec => []OnlyCutOffsBlock`, `PodSpec => KeepsSocket` |
| `Options_proofs!TypeCorrect`, `CompleteLogins`, `OnlySoundServes` | `Spec => []TypeOK`, `Spec => []LoginsAreComplete`, `Spec => []ServesOnlySound` |
| `SoundPasses` | `Spec => []SoundIsAccepted` |

**LeaseSlack.** That the token is usable is not inductive: one must know how much time it
has left. `LeaseSlack` says, for each place of the loop, that the TTL `Covers` what may pass
before the token's clock is set again: in the select the wait for the tick and a round; while
the lookup runs, what is left of it and the renewal, and for a batch token the login. A
service token that has reached its maximum (`Capped`: no more TTL than is left of it) is exempt,
and stays so until a login. A lookup's answer may be old by at most `callAge`, so a round that
skips the renewal leaves at least half the creation TTL less that age, which the condition
`Sustainable` puts on `CreationTTL` makes enough for another interval and round; a
renewal sets the clock to the creation TTL or, for a service token, to the increment, and a
login to the creation TTL, each less the age of its answer. The last conjunct relates the age of
a call to the age of the tick: a round that began with a tick has used up that much of the
interval. `StaysCalm` shows that Vault stays reachable in this setting. `Reserve` pays for lost, empty
and malformed answers: each `Window` (an interval and a round) of it lets one round fail.

`Sustainable` is the sizing rule for `-token-refresh-interval` and `-token-renewal`. A window is
the interval and two call timeouts, three where a failed renewal is followed by a login. Half
of the token's TTL, what is left of the first token, and for service tokens the increment each
have to exceed a window, and one more for every answer that may be lost. It is met, for instance,
by the defaults (an interval of 60 s, an increment of one hour) with calls of up to 60 s for tokens of
more than 8 minutes, 4 of them left at the start, without lost answers. `OnlyMaximumEnds` follows
as a capped token that is no longer usable has nothing left of its maximum, `NeverExpires` as other
kinds are never capped. A batch token is never renewed, so the rule asks for a login method there.
The trace of `lease_token` shows that the exemption is needed: inside the rule, a capped token ends.

**KeepsTheToken.** `DueInv` says what a late answer still proves: a token found dead stays
dead, one found due stays due until Vault renews it, and if the answer to that renewal is lost,
`unheard` holds until the login it leads to is over. With it every step of the loop is a step
of `TokenKeeper` or a stutter (`KeeperStep`, one case per action).

**OutagesAreBounded.** `OutageInv` bounds the time without a token by the place of the
loop: in the select by the age of the ticker, in a call by the age of the call and what
came before it. The bound closes because the tick that follows the death of a token finds
it dead, and the login it leads to is fresh when it is installed (hence `CreationTTL > CallBound`).
A lost or empty answer ends the round in the select, as late as the call was, so `Lost` adds a whole
round for each; `LostGrows` is all the proof needs to know of it.

**GaugeIsNear.** `StepsOfRefresher` reduces each step to one of the refresher and what it does
to the gauge (so `Watches`: `MetricsSpec => Spec`). `GaugeInv` follows the reading through the
round: no older than the call when the lookup answers, no older than the tick as long as no
other tick came. A renewal can only help, provided it does not shorten the lease:
`RenewalsExtend`, which the default increment of one hour does not satisfy for leases of more than
two hours.

**FollowsRotation.** `Followed` says that a login in progress has read nothing older than what
was whole on disk when it began; it is inductive because a rotation never lowers `Whole`, and
`ReadKey` only lets a pair through.

**Options.** `Inv` carries from stage to stage what has been established: `Parsed`, `Merged` (the
options are what the operator asks for), `Accepted`, `Built`. `AcceptedLogin` is the core: what
`ValidFlags` accepts, the switch turns into one of the seven logins. `SoundPasses` goes the other way:
a login that is completely asked for passes the checks of its method (`AskedIsValid`), so a sound
configuration passes all of them (`SoundIsValid`), and every later way to fail is outside the plugin.

**PluginInvariant.** Conjunction of the types, `HandlersHold` (what a handler holds is of
versions the key had since the call began) and the two key id properties with
their counterparts for `newest` and `stored`. One lemma per action, `Frame` for the slots an action
does not touch, `FinishStep` and `AbortStep` for the two ways a call ends. `Refinement` uses
the invariant for the last step of each handler; the other steps leave the shared variables
unchanged.

**PluginLifecycle.** `Inv` says that the open listeners are those of the runs between bind
and `GracefulStop`, that the socket at the path belongs to one of them or to a run that
was cut short, and that a run that returned has no key files; `ReturnCleansUp` follows, as
a run that returned is neither. `PathHeld` adds that an open listener has the path unless its run
overlapped another and one that forces did too, so nobody else unlinks its socket. `SoloListens`
carries what a run that is alone saw at `stat` over to `remove` and `bind`.

**Pod.** To the runs, a step of the pod is a step of the life cycle, a stutter or `Forget`
(`PodSteps`), so the invariants above carry over (`RunStep`, `ForgetStep`). The kubelet starts
a container when none is alive (`StartsAlone`), hence none ever overlaps another, and
`PathHeld` leaves a serving run its path; `PortOK` says that only a serving run listens
on the health port. For the socket file, `SocketInv` adds to `OnlyCutOffsBlock` that a run forces
exactly when the manifest says so (`FlagOK`); `PathOwner` says that an open listener has the path, so
what belongs to no live run is stale. With that each step keeps `SocketInv` and is a step of
`SocketFile` or a stutter (`SocketStep`, one lemma per kind of step: `StartSocket`, `RemoveQuiet`,
`BindSocketStep`, `DrainSocketStep`, `FatalSocketStep`, `ReturnSocketStep`, `ForgetQuiet`; `QuietStep` for
the rest). As `SocketFile` removes a stale file only under the flag, `Blocked` lasts once it holds.

Only model-checked: all liveness (`Recovers`, `StopsWhenDone`, `EveryCallAnswered`, `SignalEnds`,
`LoginRecovers`, `BootRecovers`, `SoundServes`, `UnsoundEnds`, `PodRecovers`), which is beyond the
prover. Of `SoundServes` and `PodRecovers` the safety part is proved: `SoundIsAccepted`, `KeepsSocket`.

## 6. Findings

Each is a run that TLC must find violated, stating what the repository's own text says.

1. `lease_gauge`: a renewal that asks for less than is left of a long lease shortens it, and the
   gauge shows the old lease until the next tick; docs/metrics.md:13 calls it the "time remaining until
   the current token expires".
2. `lease_token`: Vault caps the last renewals at the maximum TTL and reports success, so the token
   dies under the refresher, here with a renewal in flight; with token auth, its refusal is followed
   by "successfully re-authenticated" although nothing was sent to Vault (docs/configuration.md:261,
   README.md:36).
3. `life_overlap`: with `-force-socket-overwrite`, a run shutting down unlinks the socket its
   successor has just bound (docs/configuration.md:269, 271).
4. `life_keys`: a failed login leaves the split private key in the temp directory
   (pkg/vault/pem.go:11, cmd/plugin.go:254).
5. `pem_stale`: a login with `-cert-pem` after a rotation shows the old certificate
   (docs/configuration.md:97).

Met while modelling, without a run: a rotation inside `Client.Encrypt` gives a ciphertext the key
id of the next version, which errs on the side `KeyIdNeverUnderstates` allows; docs/configuration.md:266
and the error text at cmd/plugin.go:302 name a variable for `-force-socket-overwrite` that the program
does not read; `WithCertAuth` logs in without the namespace of `-vault-namespace`.

## 7. Not modelled

- Logging, `v2_client`, test utilities and build files: nothing a property looks at, or not part
  of the program.
- Namespaces, addresses, CA files, mounts and request paths: values that are passed on.
- The error counters and the duration histograms of `pkg/metrics`.
- Attempts and retries of one call to Vault: they happen in the Vault library. A call is
  evaluated once at most, which hides a login that is evaluated twice: it leaves one more token
  in Vault, and none in the plugin.
- Blocks of a PEM file: a file without a certificate or a key is a split that fails.
- Environment variables that are set and empty.
- The refresher and the handlers in one module: an RPC that fails because the token is dead is one
  of the faults of `KmsEnvironment`, and `BoundedOutage` says how long that can last. The end of the
  process by a panic of either is a `Kill` of `PluginLifecycle` and `Pod`.

What a next step would add: `HttpTransport`, refining the single evaluation of a call.
