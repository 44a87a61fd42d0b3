------------------------------- MODULE Options -------------------------------
(***************************************************************************)
(* The configuration of one run and what becomes of it in NewPlugin        *)
(* (cmd/plugin.go): environment variables, then flags, validateFlags, the  *)
(* auth option, the login, the refresher's ticker, the socket, the         *)
(* registered services.  Values are classes: "given" stands for any        *)
(* non-empty text.                                                         *)
(***************************************************************************)
EXTENDS Naturals

CONSTANT MaxChanges   \* bound: settings that differ from a complete configuration

ASSUME OptionsAssumption == MaxChanges \in Nat

Texts == {"vault-address", "token", "approle-role-id", "approle-secret-id",
          "userpass-username", "userpass-password", "cert-role", "cert-file",
          "cert-key", "cert-pem", "jwt-role", "jwt-token-path",
          "jwt-spiffe-audience"}
Bools  == {"disable-v1", "disable-v2", "version"}
Fields == Texts \cup Bools \cup
    {"auth-method", "jwt-token-source", "jwt-spiffe-id", "socket",
     "token-refresh-interval", "token-renewal", "health-port"}

Unset == "unset"
Empty == ""

Values(f) ==
    CASE f \in Texts -> {Empty, "given"}
      [] f \in Bools -> {"true", "false", "nonsense"}
      [] f = "auth-method" ->
           {Empty, "token", "TOKEN", "approle", "userpass", "cert", "jwt", "other"}
      [] f = "jwt-token-source" -> {"file", "FILE", "spiffe"}
      [] f = "jwt-spiffe-id" -> {Empty, "given", "nonsense"}
      [] f = "socket" -> {"unix://path", "UNIX://path", "unix://", "path"}
      [] f = "token-refresh-interval" -> {"positive", "notPositive", "nonsense"}
      [] f = "token-renewal" -> {"number", "nonsense"}
      [] f = "health-port" -> {Empty, "port", "nonsense"}

(* What an environment variable or a flag may hold; Version has no         *)
(* variable.                                                               *)
Env(f)  == {Unset} \cup IF f = "version" THEN {} ELSE Values(f) \ {Empty}
Flag(f) == {Unset} \cup Values(f)

(* The envDefault tags of Options.                                         *)
Default(f) ==
    CASE f \in Bools -> "false"
      [] f = "jwt-token-source" -> "file"
      [] f = "jwt-token-path" -> "given"
      [] f = "socket" -> "unix://path"
      [] f = "token-refresh-interval" -> "positive"
      [] f = "token-renewal" -> "number"
      [] f = "health-port" -> "port"
      [] OTHER -> Empty

Malformed(f, v) == f \in Bools \cup {"token-renewal"} /\ v = "nonsense"

VARIABLES
    env, flags,  \* the environment variables and the flags of the run
    works,       \* what the run finds working: "vault" accepts it, "pem" is readable
    changes,     \* settings changed so far, before the run is started
    stage,       \* where the run is in NewPlugin
    opts,        \* the Options struct
    option,      \* the login it builds: a method and the fields handed to it
    refresher,   \* the LeaseRefresher goroutine: "none", "started", "ticking"
    services,    \* the registered KMS API versions
    health       \* whether the health server listens

config == <<env, flags, works, changes>>
vars == <<config, stage, opts, option, refresher, services, health>>

Ends == {"envError", "flagError", "version", "invalid", "pemError", "fatalLogin",
         "fatalSocket", "fatalPort", "panic"}
Stages == {"new", "flags", "validate", "option", "login", "socket", "serving"} \cup Ends

NoOption == [method |-> "none", uses |-> {}]

-----------------------------------------------------------------------------
(* Complete settings, and the operator who changes a few of them.          *)

Logins == {
    [method |-> "token",    uses |-> {"token"}],
    [method |-> "approle",  uses |-> {"approle-role-id", "approle-secret-id"}],
    [method |-> "userpass", uses |-> {"userpass-username", "userpass-password"}],
    [method |-> "cert",     uses |-> {"cert-role", "cert-file", "cert-key"}],
    [method |-> "cert",     uses |-> {"cert-role", "cert-pem"}],
    [method |-> "jwt",      uses |-> {"jwt-role", "jwt-token-path"}],
    [method |-> "jwt",      uses |-> {"jwt-role", "jwt-spiffe-audience", "jwt-spiffe-id"}]}

Complete(login) ==
    [f \in Fields |->
       CASE f \in login.uses \cup {"vault-address"} -> "given"
         [] f = "auth-method" -> login.method
         [] f = "jwt-token-source" /\ "jwt-spiffe-id" \in login.uses -> "spiffe"
         [] OTHER -> Unset]

Init ==
    /\ env \in {Complete(login) : login \in Logins}
    /\ flags = [f \in Fields |-> Unset]
    /\ works \in SUBSET {"vault", "pem"}
    /\ changes = 0 /\ stage = "new"
    /\ opts = [f \in Fields |-> IF f \in Bools THEN "false" ELSE Empty]
    /\ option = NoOption /\ refresher = "none" /\ services = {} /\ health = FALSE

Change ==
    /\ stage = "new" /\ changes < MaxChanges /\ changes' = changes + 1
    /\ \E f \in Fields :
         \/ \E v \in Env(f) : env' = [env EXCEPT ![f] = v] /\ UNCHANGED flags
         \/ \E v \in Flag(f) : flags' = [flags EXCEPT ![f] = v] /\ UNCHANGED env
    /\ UNCHANGED <<works, stage, opts, option, refresher, services, health>>

-----------------------------------------------------------------------------
(* NewPlugin.                                                              *)

Goto(s) == stage' = s
Stop(how) ==
    stage' = how /\ UNCHANGED <<opts, option, refresher, services, health>>

ParseEnvs ==
    /\ stage = "new" /\ UNCHANGED config
    /\ \/ (\E f \in Fields : Malformed(f, env[f])) /\ Stop("envError")
       \/ /\ \A f \in Fields : ~Malformed(f, env[f])
          /\ opts' = [f \in Fields |-> IF env[f] = Unset THEN Default(f) ELSE env[f]]
          /\ Goto("flags") /\ UNCHANGED <<option, refresher, services, health>>

(* The default of every flag is what ParseEnvs left in the field.          *)
FlagDefaultLiteral(f) == Default(f)
FlagDefault(f) == opts[f]

ParseFlags ==
    /\ stage = "flags" /\ UNCHANGED config
    /\ \/ (\E f \in Fields : Malformed(f, flags[f])) /\ Stop("flagError")
       \/ /\ \A f \in Fields : ~Malformed(f, flags[f])
          /\ opts' = [f \in Fields |-> IF flags[f] = Unset THEN FlagDefault(f)
                                       ELSE flags[f]]
          /\ Goto("validate") /\ UNCHANGED <<option, refresher, services, health>>

Given(f) == opts[f] # Empty
ToLowerNothing(v) == v
ToLower(v) == IF v = "TOKEN" THEN "token" ELSE v
Method == ToLower(opts["auth-method"])

ValidJWT ==
    /\ Given("jwt-role")
    /\ \/ opts["jwt-token-source"] = "file" /\ Given("jwt-token-path")
       \/ /\ opts["jwt-token-source"] = "spiffe" /\ Given("jwt-spiffe-audience")
          /\ opts["jwt-spiffe-id"] = "given"

ValidLogin ==
    \/ Method = "token"    /\ Given("token")
    \/ Method = "approle"  /\ Given("approle-role-id") /\ Given("approle-secret-id")
    \/ Method = "userpass" /\ Given("userpass-username") /\ Given("userpass-password")
    \/ /\ Method = "cert"  /\ Given("cert-role")
       /\ Given("cert-pem") \/ (Given("cert-file") /\ Given("cert-key"))
    \/ Method = "jwt"      /\ ValidJWT

ValidFlagsWithoutVersions ==
    /\ Given("vault-address") /\ ValidLogin
    /\ opts["token-refresh-interval"] # "nonsense"
ValidFlags ==
    /\ ValidFlagsWithoutVersions
    /\ opts["disable-v1"] = "false" \/ opts["disable-v2"] = "false"

Validate ==
    /\ stage = "validate" /\ UNCHANGED config
    /\ \/ opts["version"] = "true" /\ Stop("version")
       \/ opts["version"] = "false" /\ ~ValidFlags /\ Stop("invalid")
       \/ /\ opts["version"] = "false" /\ ValidFlags
          /\ Goto("option") /\ UNCHANGED <<opts, option, refresher, services, health>>

(* The switch on the auth method; -cert-pem goes before separate files.    *)
CertFilesFirst ==
    IF Given("cert-file") THEN {"cert-file", "cert-key"} ELSE {"cert-pem"}
CertSource ==
    IF Given("cert-pem") THEN {"cert-pem"} ELSE {"cert-file", "cert-key"}

Handed ==
    CASE Method = "token"    -> {"token"}
      [] Method = "approle"  -> {"approle-role-id", "approle-secret-id"}
      [] Method = "userpass" -> {"userpass-username", "userpass-password"}
      [] Method = "cert"     -> {"cert-role"} \cup CertSource
      [] Method = "jwt"      -> {"jwt-role"} \cup
           IF opts["jwt-token-source"] = "file" THEN {"jwt-token-path"}
           ELSE {"jwt-spiffe-audience", "jwt-spiffe-id"}

BuildOption ==
    /\ stage = "option" /\ UNCHANGED config
    /\ \/ "cert-pem" \in Handed /\ "pem" \notin works /\ Stop("pemError")
       \/ /\ "cert-pem" \notin Handed \/ "pem" \in works
          /\ option' = [method |-> Method, uses |-> Handed]
          /\ Goto("login") /\ UNCHANGED <<opts, refresher, services, health>>

(* NewClient logs in; then the refresher is started.                       *)
RefreshBeforeLogin ==
    /\ stage = "login" /\ UNCHANGED <<config, opts, option, services, health>>
    /\ refresher' = "started"
    /\ Goto(IF "vault" \in works THEN "socket" ELSE "fatalLogin")
NewClient ==
    /\ stage = "login" /\ UNCHANGED config
    /\ \/ "vault" \notin works /\ Stop("fatalLogin")
       \/ /\ "vault" \in works /\ refresher' = "started"
          /\ Goto("socket") /\ UNCHANGED <<opts, option, services, health>>

(* NewSocket takes unix:// in any case, but Listen wants it in lower case. *)
OpenSocket ==
    /\ stage = "socket" /\ UNCHANGED config
    /\ \/ opts["socket"] # "unix://path" /\ Stop("fatalSocket")
       \/ /\ opts["socket"] = "unix://path"
          /\ services' = (IF opts["disable-v1"] = "false" THEN {"v1"} ELSE {})
                           \cup (IF opts["disable-v2"] = "false" THEN {"v2"} ELSE {})
          /\ Goto("serving") /\ UNCHANGED <<opts, option, refresher, health>>

(* time.NewTicker panics, and with it the process, when the interval is    *)
(* not positive; the goroutine gets to it at any time.                     *)
TickerOrNothing ==
    /\ stage \notin Ends /\ refresher = "started" /\ UNCHANGED config
    /\ refresher' = IF opts["token-refresh-interval"] = "positive" THEN "ticking" ELSE "none"
    /\ UNCHANGED <<stage, opts, option, services, health>>
StartTicker ==
    /\ stage \notin Ends /\ refresher = "started" /\ UNCHANGED config
    /\ \/ opts["token-refresh-interval"] # "positive" /\ Stop("panic")
       \/ /\ opts["token-refresh-interval"] = "positive" /\ refresher' = "ticking"
          /\ UNCHANGED <<stage, opts, option, services, health>>

(* ListenAndServe on ":" and the port, in a goroutine of its own: Fatal on *)
(* any error.  No port at all is a port the system chooses.                *)
ListenHealth ==
    /\ stage = "serving" /\ ~health /\ UNCHANGED config
    /\ \/ opts["health-port"] = "nonsense" /\ Stop("fatalPort")
       \/ /\ opts["health-port"] # "nonsense" /\ health' = TRUE
          /\ UNCHANGED <<stage, opts, option, refresher, services>>

Main == ParseEnvs \/ ParseFlags \/ Validate \/ BuildOption \/ NewClient \/ OpenSocket

Next == Change \/ Main \/ StartTicker \/ ListenHealth

Spec == Init /\ [][Next]_vars

(* A run that is started goes on, and so do its goroutines.                *)
FairSpec == Spec /\ WF_vars(Main) /\ WF_vars(StartTicker) /\ WF_vars(ListenHealth)

-----------------------------------------------------------------------------
(* Properties.                                                             *)

(* Type correctness: only a run that has logged in starts its refresher,   *)
(* and only one that has its socket registers services and serves health.  *)
TypeOK ==
    /\ \A f \in Fields : env[f] \in Env(f) /\ flags[f] \in Flag(f)
    /\ works \subseteq {"vault", "pem"} /\ changes \in 0..MaxChanges
    /\ stage \in Stages
    /\ \A f \in Fields : opts[f] \in Values(f) \cup {Empty}
    /\ option \in Logins \cup {NoOption}
    /\ refresher \in {"none", "started", "ticking"} /\ services \subseteq {"v1", "v2"}
    /\ refresher # "none" =>
          stage \in {"socket", "serving", "fatalSocket", "fatalPort", "panic"}
    /\ services # {} => stage \in {"serving", "fatalPort", "panic"}
    /\ health \in BOOLEAN /\ (health => stage \in {"serving", "panic"})

(* What the operator asks for: a flag, else a variable, else the default.  *)
Effective(f) ==
    IF flags[f] # Unset THEN flags[f] ELSE IF env[f] # Unset THEN env[f] ELSE Default(f)

Asks(login) ==
    /\ Effective("auth-method") \in {login.method} \cup
         (IF login.method = "token" THEN {"TOKEN"} ELSE {})
    /\ \A f \in login.uses : Effective(f) = "given"
    /\ login.method = "jwt" => Effective("jwt-token-source") =
         IF "jwt-token-path" \in login.uses THEN "file" ELSE "spiffe"

(* docs/configuration.md:211-250: a run logs in only with a method the     *)
(* operator asked for and everything this method needs, whatever variables *)
(* and flags say of the other methods (plugin.go:229-265, 379-470).        *)
LoginsAreComplete == option # NoOption => option \in Logins /\ Asks(option)

Enabled ==
    (IF Effective("disable-v1") = "false" THEN {"v1"} ELSE {})
      \cup (IF Effective("disable-v2") = "false" THEN {"v2"} ELSE {})

Sound ==
    /\ \A f \in Fields : ~Malformed(f, env[f]) /\ ~Malformed(f, flags[f])
    /\ Effective("version") = "false" /\ Effective("vault-address") = "given"
    /\ \E login \in Logins : Asks(login)
    /\ Enabled # {} /\ Effective("socket") = "unix://path"
    /\ Effective("token-refresh-interval") = "positive"
    /\ Effective("health-port") # "nonsense"

(* The goroutines of the run have come to their loops.                     *)
Settled == stage = "serving" /\ refresher = "ticking" /\ health

(* A run that serves, refreshes its token and answers probes was soundly   *)
(* configured, and serves exactly the API versions its operator left       *)
(* enabled: no probe succeeds for want of a service to ask (probes.go:19). *)
ServesOnlySound == Settled => Sound /\ services = Enabled

(* Conversely, a sound configuration only fails on what lies outside the   *)
(* plugin: no check on the way (plugin.go:167, 357, 379-456, socket.go:21, *)
(* lease.go:38) refuses what the operator completely asks for.             *)
SoundIsAccepted ==
    stage \in Ends /\ Sound =>
      \/ stage = "pemError" /\ "pem" \notin works
      \/ stage = "fatalLogin" /\ "vault" \notin works

(* So it gets to serve, as long as Vault accepts the login and the PEM can *)
(* be read.                                                                *)
SoundServes == stage = "flags" /\ Sound /\ works = {"vault", "pem"} ~> Settled

(* What validateFlags lets through unsound, an interval of zero            *)
(* (lease.go:38) or a port that is none (plugin.go:357), may serve for a   *)
(* moment, but never for good without a refresher or without probes: the   *)
(* run ends.                                                               *)
UnsoundEnds == stage = "serving" /\ ~Sound ~> stage \in Ends

=============================================================================
