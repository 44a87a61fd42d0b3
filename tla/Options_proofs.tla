---------------------------- MODULE Options_proofs ----------------------------
(***************************************************************************)
(* Theorems about Options, for any number of changed settings: what an     *)
(* accepted configuration guarantees of the login and of the services.     *)
(***************************************************************************)
EXTENDS Options, TLAPS

SettingsOK ==
    /\ env = [f \in Fields |-> env[f]] /\ flags = [f \in Fields |-> flags[f]]
    /\ \A f \in Fields : env[f] \in Env(f) /\ flags[f] \in Flag(f)
    /\ works \subseteq {"vault", "pem"} /\ changes \in 0..MaxChanges

(* What has been established when the run gets to a stage.                 *)
Parsed == \A f \in Fields :
    /\ opts[f] = IF env[f] = Unset THEN Default(f) ELSE env[f]
    /\ ~Malformed(f, env[f])

Merged == \A f \in Fields :
    /\ opts[f] = Effective(f) /\ opts[f] \in Values(f) \cup {Empty}
    /\ ~Malformed(f, env[f]) /\ ~Malformed(f, flags[f])

Accepted == Merged /\ opts["version"] = "false" /\ ValidFlags

Built == option = [method |-> Method, uses |-> Handed]

Progress ==
    /\ stage = "flags" => Parsed
    /\ stage = "validate" => Merged
    /\ stage = "option" => Accepted
    /\ stage \in {"login", "socket", "serving"} \/ option # NoOption =>
          Accepted /\ Built
    /\ refresher = "ticking" => opts["token-refresh-interval"] = "positive"
    /\ stage \in {"new", "flags", "validate", "option", "login"} =>
          refresher = "none" /\ services = {} /\ ~health
    /\ stage = "socket" => ~health
    /\ health => opts["health-port"] # "nonsense"
    /\ stage \in {"new", "flags", "validate", "option"} => option = NoOption
    /\ stage = "serving" =>
          opts["socket"] = "unix://path" /\ services = Enabled

Shape ==
    /\ stage \in Stages
    /\ \A f \in Fields : opts[f] \in Values(f) \cup {Empty}
    /\ refresher \in {"none", "started", "ticking"} /\ services \subseteq {"v1", "v2"}
    /\ refresher # "none" =>
          stage \in {"socket", "serving", "fatalSocket", "fatalPort", "panic"}
    /\ services # {} => stage \in {"serving", "fatalPort", "panic"}
    /\ health \in BOOLEAN /\ (health => stage \in {"serving", "panic"})

Inv == SettingsOK /\ Shape /\ Progress

-----------------------------------------------------------------------------
(* Operators.                                                              *)

LEMMA DefaultValue == \A f \in Fields : Default(f) \in Values(f) \cup {Empty}
BY DEF Fields, Texts, Bools, Default, Values, Empty

LEMMA SettingValue ==
    \A f \in Fields : Unset \notin Values(f) /\ Env(f) \subseteq Values(f) \cup {Unset}
                      /\ Flag(f) \subseteq Values(f) \cup {Unset}
<1> SUFFICES ASSUME NEW f \in Fields
             PROVE  /\ Unset \notin Values(f)
                    /\ Env(f) \subseteq Values(f) \cup {Unset}
                    /\ Flag(f) \subseteq Values(f) \cup {Unset}
  OBVIOUS
<1>1. CASE f \in Texts
  BY <1>1 DEF Values, Unset, Empty, Env, Flag
<1>2. CASE f \in Bools
  BY <1>2 DEF Texts, Bools, Values, Unset, Env, Flag
<1>3. CASE f \notin Texts \cup Bools
  <2>1. Unset \notin Values(f)
    BY <1>3 DEF Fields, Values, Unset, Empty
  <2>2. Env(f) \subseteq Values(f) \cup {Unset} /\ Flag(f) \subseteq Values(f) \cup {Unset}
    BY DEF Env, Flag
  <2> QED BY <2>1, <2>2
<1> QED BY <1>1, <1>2, <1>3

LEMMA FieldNames ==
    /\ Texts \subseteq Fields /\ Bools \subseteq Fields
    /\ {"auth-method", "jwt-token-source", "jwt-spiffe-id", "socket",
        "token-refresh-interval", "token-renewal", "health-port"} \subseteq Fields
BY DEF Fields

LEMMA TextValues == \A f \in Texts : f \in Fields /\ Values(f) = {Empty, "given"}
<1> SUFFICES ASSUME NEW f \in Texts PROVE f \in Fields /\ Values(f) = {Empty, "given"}
  OBVIOUS
<1>1. /\ f \notin Bools
      /\ f \notin {"auth-method", "jwt-token-source", "jwt-spiffe-id", "socket",
                  "token-refresh-interval", "token-renewal", "health-port"}
  BY DEF Texts, Bools
<1>2. QED
  BY <1>1, FieldNames DEF Values

(* An accepted text is given, by flag, variable or default.                *)
LEMMA GivenText ==
    ASSUME Merged, NEW f \in Texts PROVE Given(f) => Effective(f) = "given"
BY TextValues DEF Merged, Given

(* What validateFlags lets through is a login of the table that the        *)
(* operator asks for.                                                      *)
LEMMA AcceptedLogin ==
    ASSUME Accepted
    PROVE  LET login == [method |-> Method, uses |-> Handed]
           IN  login \in Logins /\ Asks(login)
<1> DEFINE login == [method |-> Method, uses |-> Handed]
<1>1. /\ Merged /\ ValidLogin
      /\ Effective("auth-method") = opts["auth-method"]
      /\ Effective("jwt-token-source") = opts["jwt-token-source"]
      /\ Effective("jwt-spiffe-id") = opts["jwt-spiffe-id"]
  BY FieldNames DEF Accepted, ValidFlags, ValidFlagsWithoutVersions, Merged
<1>2. opts["auth-method"] \in {Method} \cup IF Method = "token" THEN {"TOKEN"} ELSE {}
  BY DEF Method, ToLower
<1>3. \A f \in Texts : Given(f) => Effective(f) = "given"
  BY <1>1, GivenText
<1>4. CASE Method = "token"
  BY <1>1, <1>2, <1>3, <1>4 DEF ValidLogin, Handed, Logins, Asks, Texts
<1>5. CASE Method = "approle"
  BY <1>1, <1>2, <1>3, <1>5 DEF ValidLogin, Handed, Logins, Asks, Texts
<1>6. CASE Method = "userpass"
  BY <1>1, <1>2, <1>3, <1>6 DEF ValidLogin, Handed, Logins, Asks, Texts
<1>7. CASE Method = "cert"
  <2>1. CASE Given("cert-pem")
    <3>1. Handed = {"cert-role", "cert-pem"}
      BY <1>7, <2>1 DEF Handed, CertSource
    <3> QED BY <1>1, <1>2, <1>3, <1>7, <2>1, <3>1 DEF ValidLogin, Logins, Asks, Texts
  <2>2. CASE ~Given("cert-pem")
    <3>1. Handed = {"cert-role", "cert-file", "cert-key"}
      BY <1>7, <2>2 DEF Handed, CertSource
    <3> QED BY <1>1, <1>2, <1>3, <1>7, <2>2, <3>1 DEF ValidLogin, Logins, Asks, Texts
  <2> QED BY <2>1, <2>2
<1>8. CASE Method = "jwt"
  <2>1. CASE opts["jwt-token-source"] = "file"
    <3>1. Handed = {"jwt-role", "jwt-token-path"}
      BY <1>8, <2>1 DEF Handed
    <3> QED
      BY <1>1, <1>2, <1>3, <1>8, <2>1, <3>1 DEF ValidLogin, ValidJWT, Logins, Asks, Texts
  <2>2. CASE opts["jwt-token-source"] # "file"
    <3>1. Handed = {"jwt-role", "jwt-spiffe-audience", "jwt-spiffe-id"}
      BY <1>8, <2>2 DEF Handed
    <3>2. /\ opts["jwt-token-source"] = "spiffe" /\ Given("jwt-spiffe-audience")
          /\ opts["jwt-spiffe-id"] = "given" /\ Given("jwt-role")
      BY <1>1, <1>8, <2>2 DEF ValidLogin, ValidJWT
    <3> QED BY <1>1, <1>2, <1>3, <1>8, <3>1, <3>2 DEF Logins, Asks, Texts
  <2> QED BY <2>1, <2>2
<1>9. QED
  BY <1>1, <1>4, <1>5, <1>6, <1>7, <1>8 DEF ValidLogin

(* Conversely: what the operator asks for completely, in whichever spelling*)
(* of the method, validateFlags lets through.                              *)
LEMMA AskedIsValid ==
    ASSUME Merged, NEW login \in Logins, Asks(login)
    PROVE  ValidLogin
<1>1. \A f \in Fields : opts[f] = Effective(f)
  BY DEF Merged
<1>2. \A f \in login.uses : f \in Fields /\ opts[f] = "given"
  <2>1. login.uses \subseteq Fields
    BY FieldNames DEF Logins, Texts
  <2> QED BY <1>1, <2>1 DEF Asks
<1>3. \A f \in login.uses : Given(f)
  BY <1>2 DEF Given, Empty
<1>4. /\ opts["auth-method"] = Effective("auth-method")
      /\ opts["jwt-token-source"] = Effective("jwt-token-source")
  BY <1>1, FieldNames
<1>5. login.method \in {"token", "approle", "userpass", "cert", "jwt"}
  BY DEF Logins
<1>6. Method = login.method
  BY <1>4, <1>5 DEF Asks, Method, ToLower
<1>7. CASE login.method \in {"token", "approle", "userpass"}
  BY <1>3, <1>6, <1>7 DEF Logins, ValidLogin
<1>8. CASE login.method = "cert"
  BY <1>3, <1>6, <1>8 DEF Logins, ValidLogin
<1>9. CASE login.method = "jwt"
  <2>1. CASE "jwt-token-path" \in login.uses
    <3>1. login.uses = {"jwt-role", "jwt-token-path"}
      BY <1>9, <2>1 DEF Logins
    <3>2. opts["jwt-token-source"] = "file"
      BY <1>4, <1>9, <2>1 DEF Asks
    <3> QED BY <1>3, <1>6, <1>9, <3>1, <3>2 DEF ValidLogin, ValidJWT
  <2>2. CASE "jwt-token-path" \notin login.uses
    <3>1. login.uses = {"jwt-role", "jwt-spiffe-audience", "jwt-spiffe-id"}
      BY <1>9, <2>2 DEF Logins
    <3>2. opts["jwt-token-source"] = "spiffe" /\ opts["jwt-spiffe-id"] = "given"
      BY <1>2, <1>4, <1>9, <2>2, <3>1 DEF Asks
    <3> QED BY <1>3, <1>6, <1>9, <3>1, <3>2 DEF ValidLogin, ValidJWT
  <2> QED BY <2>1, <2>2
<1> QED BY <1>5, <1>7, <1>8, <1>9

LEMMA SoundIsValid == ASSUME Merged, Sound PROVE ValidFlags
<1>1. ValidLogin
  BY AskedIsValid DEF Sound
<1>2. /\ opts["vault-address"] = "given"
      /\ opts["token-refresh-interval"] = "positive"
      /\ opts["disable-v1"] = Effective("disable-v1")
      /\ opts["disable-v2"] = Effective("disable-v2")
  BY FieldNames DEF Merged, Sound, Texts, Bools
<1>3. opts["disable-v1"] = "false" \/ opts["disable-v2"] = "false"
  BY <1>2 DEF Sound, Enabled
<1> QED BY <1>1, <1>2, <1>3 DEF ValidFlags, ValidFlagsWithoutVersions, Given, Empty

-----------------------------------------------------------------------------
LEMMA InvInit == Init => Inv
<1> SUFFICES ASSUME Init PROVE Inv
  OBVIOUS
<1>1. PICK login \in Logins : env = Complete(login)
  BY DEF Init
<1>2. ASSUME NEW f \in Fields PROVE env[f] \in Env(f)
  <2>1. CASE f \in login.uses \cup {"vault-address"}
    <3>1. f \in Texts \/ f = "jwt-spiffe-id"
      BY <2>1 DEF Logins, Texts
    <3>5. f \notin {"auth-method", "jwt-token-source"}
      BY <3>1 DEF Texts
    <3> SUFFICES "given" \in Env(f)
      BY <1>1, <2>1, <3>5 DEF Complete
    <3>2. CASE f \in Texts
      <4>1. f # "version" /\ "given" \in Values(f) \ {Empty}
        BY <3>2, TextValues DEF Texts, Empty
      <4> QED BY <4>1 DEF Env
    <3>3. CASE f = "jwt-spiffe-id"
      BY <3>3 DEF Env, Values, Texts, Bools, Empty
    <3> QED BY <3>1, <3>2, <3>3
  <2>2. CASE f \notin login.uses \cup {"vault-address"} /\ f = "auth-method"
    <3>1. login.method \in {"token", "approle", "userpass", "cert", "jwt"}
      BY DEF Logins
    <3>2. Env("auth-method") = {Unset} \cup
            ({Empty, "token", "TOKEN", "approle", "userpass", "cert", "jwt", "other"}
               \ {Empty})
      BY DEF Env, Values, Texts, Bools
    <3>3. login.method \in Env(f)
      BY <2>2, <3>1, <3>2 DEF Empty
    <3> QED BY <1>1, <2>2, <3>3 DEF Complete
  <2>3. CASE f \notin login.uses \cup {"vault-address"} /\ f = "jwt-token-source"
    BY <1>1, <2>3 DEF Complete, Env, Values, Texts, Bools, Empty
  <2>4. CASE f \notin login.uses \cup {"vault-address", "auth-method", "jwt-token-source"}
    BY <1>1, <2>4 DEF Complete, Env
  <2> QED BY <2>1, <2>2, <2>3, <2>4
<1>3. SettingsOK
  BY <1>1, <1>2, OptionsAssumption DEF OptionsAssumption, Init, SettingsOK, Complete, Flag
<1>4. Shape
  BY DEF Init, Shape, Stages, Bools, Values, Texts, Fields, Empty
<1>5. Progress
  BY DEF Init, Progress
<1>6. QED
  BY <1>3, <1>4, <1>5 DEF Inv

(* A run that stops keeps what it knows.                                   *)
LEMMA StopStep ==
    ASSUME Inv, NEW how \in Ends, UNCHANGED config, Stop(how),
           services = {} \/ how \in {"panic", "fatalPort"}, ~health \/ how = "panic",
           refresher = "none" \/ how \in {"fatalSocket", "fatalPort", "panic"}
    PROVE  Inv'
<1> USE DEF Inv, Stop, config
<1>1. SettingsOK'
  BY DEF SettingsOK
<1>2. Shape'
  BY DEF Shape, Stages
<1>3. how \notin {"new", "flags", "validate", "option", "login", "socket", "serving"}
  BY DEF Ends
<1>4. (option # NoOption => Accepted /\ Built)'
  BY DEF Progress, Accepted, Merged, Effective, ValidFlags, ValidFlagsWithoutVersions,
         ValidLogin, ValidJWT, Given, Method, ToLower, Built, Handed, CertSource
<1>5. Progress'
  BY <1>3, <1>4 DEF Progress
<1>6. QED
  BY <1>1, <1>2, <1>5

LEMMA ChangeStep == ASSUME Inv, Change PROVE Inv'
<1>1. SettingsOK'
  BY OptionsAssumption DEF OptionsAssumption, Inv, SettingsOK, Change
<1>2. Shape' /\ Progress'
  BY DEF Inv, Shape, Progress, Change
<1>3. QED
  BY <1>1, <1>2 DEF Inv

LEMMA ParseEnvsStep == ASSUME Inv, ParseEnvs PROVE Inv'
<1> USE DEF Inv, ParseEnvs
<1>1. CASE Stop("envError")
  BY <1>1, StopStep DEF Ends, Progress
<1>2. CASE ~Stop("envError")
  <2> USE <1>2 DEF config, Goto
  <2>1. SettingsOK'
    BY DEF SettingsOK
  <2>2. \A f \in Fields : opts'[f] \in Values(f) \cup {Empty}
    BY DefaultValue, SettingValue DEF SettingsOK
  <2>3. Shape'
    BY <2>2 DEF Shape, Stages
  <2>4. Parsed'
    BY DEF Parsed
  <2>5. Progress'
    BY <2>4 DEF Progress
  <2>6. QED
    BY <2>1, <2>3, <2>5
<1>3. QED
  BY <1>1, <1>2

LEMMA ParseFlagsStep == ASSUME Inv, ParseFlags PROVE Inv'
<1> USE DEF Inv, ParseFlags
<1>1. CASE Stop("flagError")
  BY <1>1, StopStep DEF Ends, Progress
<1>2. CASE ~Stop("flagError")
  <2> USE <1>2 DEF config, Goto
  <2>1. SettingsOK'
    BY DEF SettingsOK
  <2>2. \A f \in Fields : opts'[f] \in Values(f) \cup {Empty}
    BY SettingValue DEF SettingsOK, Shape, FlagDefault
  <2>3. Shape'
    BY <2>2 DEF Shape, Stages
  <2>4. Merged'
    BY <2>2 DEF Merged, Progress, Parsed, Effective, FlagDefault
  <2>5. Progress'
    BY <2>4 DEF Progress
  <2>6. QED
    BY <2>1, <2>3, <2>5
<1>3. QED
  BY <1>1, <1>2

(* The steps after the settings were merged change neither them nor opts.  *)
LEMMA Kept ==
    ASSUME UNCHANGED <<config, opts>>
    PROVE  /\ Merged' = Merged /\ Accepted' = Accepted /\ Enabled' = Enabled
           /\ Method' = Method /\ Handed' = Handed
BY DEF config, Merged, Accepted, Effective, Enabled, ValidFlags,
       ValidFlagsWithoutVersions, ValidLogin, ValidJWT, Given, Method, ToLower,
       Handed, CertSource

LEMMA ValidateStep == ASSUME Inv, Validate PROVE Inv'
<1> USE DEF Inv, Validate
<1>1. CASE Stop("version") \/ Stop("invalid")
  BY <1>1, StopStep DEF Ends, Progress
<1>2. CASE ~(Stop("version") \/ Stop("invalid"))
  <2>1. Accepted
    BY <1>2 DEF Progress, Accepted
  <2>2. SettingsOK' /\ Shape'
    BY <1>2 DEF config, Goto, SettingsOK, Shape, Stages
  <2>3. Accepted'
    BY <1>2, <2>1, Kept
  <2>4. Progress'
    BY <1>2, <2>3 DEF Progress, Goto
  <2>5. QED
    BY <2>2, <2>4
<1>3. QED
  BY <1>1, <1>2

LEMMA BuildOptionStep == ASSUME Inv, BuildOption PROVE Inv'
<1> USE DEF Inv, BuildOption
<1>1. CASE Stop("pemError")
  BY <1>1, StopStep DEF Ends, Progress
<1>2. CASE ~Stop("pemError")
  <2>1. SettingsOK' /\ Shape'
    BY <1>2 DEF config, Goto, SettingsOK, Shape, Stages
  <2>2. Accepted' /\ Built'
    BY <1>2, Kept DEF Progress, Built
  <2>3. Progress'
    BY <1>2, <2>2 DEF Progress, Goto
  <2>4. QED
    BY <2>1, <2>3
<1>3. QED
  BY <1>1, <1>2

LEMMA NewClientStep == ASSUME Inv, NewClient PROVE Inv'
<1> USE DEF Inv, NewClient
<1>1. CASE Stop("fatalLogin")
  BY <1>1, StopStep DEF Ends, Progress
<1>2. CASE ~Stop("fatalLogin")
  <2>1. SettingsOK' /\ Shape'
    BY <1>2 DEF config, Goto, SettingsOK, Shape, Stages, Progress
  <2>2. Accepted' /\ Built'
    BY <1>2, Kept DEF Progress, Built
  <2>3. Progress'
    BY <1>2, <2>2 DEF Progress, Goto
  <2>4. QED
    BY <2>1, <2>3
<1>3. QED
  BY <1>1, <1>2

LEMMA OpenSocketStep == ASSUME Inv, OpenSocket PROVE Inv'
<1> USE DEF Inv, OpenSocket
<1>0. services = {} /\ ~health
  BY DEF Shape
<1>1. CASE Stop("fatalSocket")
  BY <1>0, <1>1, StopStep DEF Ends
<1>2. CASE ~Stop("fatalSocket")
  <2>1. SettingsOK'
    BY <1>2 DEF config, SettingsOK
  <2>2. Shape'
    BY <1>2 DEF Goto, Shape, Stages
  <2>3. Accepted' /\ Built'
    BY <1>2, Kept DEF Progress, Built
  <2>4. services' = Enabled'
    <3>1. /\ opts["disable-v1"] = Effective("disable-v1")
          /\ opts["disable-v2"] = Effective("disable-v2")
      BY FieldNames DEF Progress, Accepted, Merged, Bools
    <3>2. services' = Enabled
      BY <1>2, <3>1 DEF Enabled
    <3> QED BY <1>2, <3>2, Kept
  <2>5. Progress'
    BY <1>2, <2>3, <2>4 DEF Progress, Goto
  <2>6. QED
    BY <2>1, <2>2, <2>5
<1>3. QED
  BY <1>1, <1>2

LEMMA StartTickerStep == ASSUME Inv, StartTicker PROVE Inv'
<1> USE DEF Inv, StartTicker
<1>1. CASE Stop("panic")
  BY <1>1, StopStep DEF Ends
<1>2. CASE ~Stop("panic")
  <2>1. SettingsOK' /\ Shape'
    BY <1>2 DEF config, SettingsOK, Shape
  <2>2. /\ Accepted' = Accepted /\ Built' = Built /\ Enabled' = Enabled
        /\ stage \notin {"new", "flags", "validate", "option", "login"}
    BY <1>2, Kept DEF Built, Shape
  <2>3. Progress'
    BY <1>2, <2>2 DEF Progress
  <2>4. QED
    BY <2>1, <2>3
<1>3. QED
  BY <1>1, <1>2

LEMMA ListenHealthStep == ASSUME Inv, ListenHealth PROVE Inv'
<1> USE DEF Inv, ListenHealth
<1>1. CASE Stop("fatalPort")
  BY <1>1, StopStep DEF Ends
<1>2. CASE ~Stop("fatalPort")
  <2>1. SettingsOK' /\ Shape'
    BY <1>2 DEF config, SettingsOK, Shape
  <2>2. Accepted' = Accepted /\ Built' = Built /\ Enabled' = Enabled
    BY <1>2, Kept DEF Built
  <2>3. Progress'
    BY <1>2, <2>2 DEF Progress
  <2>4. QED
    BY <2>1, <2>3
<1>3. QED
  BY <1>1, <1>2

LEMMA InvStep == Inv /\ [Next]_vars => Inv'
<1> SUFFICES ASSUME Inv, [Next]_vars PROVE Inv'
  OBVIOUS
<1>1. CASE UNCHANGED vars
  BY <1>1, Kept
     DEF vars, config, Inv, SettingsOK, Shape, Progress, Parsed, Built
<1>2. CASE Change \/ StartTicker \/ ListenHealth
  BY <1>2, ChangeStep, StartTickerStep, ListenHealthStep
<1>3. CASE Main
  BY <1>3, ParseEnvsStep, ParseFlagsStep, ValidateStep, BuildOptionStep, NewClientStep,
     OpenSocketStep DEF Main
<1>4. QED
  BY <1>1, <1>2, <1>3 DEF Next

LEMMA Invariant == Spec => []Inv
BY InvInit, InvStep, PTL DEF Spec

-----------------------------------------------------------------------------
(* Whatever the settings, only a run that has logged in starts its         *)
(* refresher and only one with a socket registers services and answers     *)
(* probes.                                                                 *)
THEOREM TypeCorrect == Spec => []TypeOK
<1>1. Inv => option \in Logins \cup {NoOption}
  BY AcceptedLogin DEF Inv, Progress, Built
<1>2. Inv => TypeOK
  BY <1>1 DEF Inv, SettingsOK, Shape, TypeOK
<1>3. QED
  BY <1>2, Invariant, PTL

(* validateFlags (plugin.go:379) and the switch that builds the login      *)
(* (plugin.go:229, 458) agree: no login is tried with less than its method *)
(* needs, or with another method than the operator asked for.              *)
THEOREM CompleteLogins == Spec => []LoginsAreComplete
<1>1. Inv => LoginsAreComplete
  BY AcceptedLogin DEF Inv, Progress, Built, LoginsAreComplete
<1>2. QED
  BY <1>1, Invariant, PTL

(* A run that serves, refreshes and answers probes was soundly configured  *)
(* and serves the enabled API versions, at least one.                      *)
THEOREM OnlySoundServes == Spec => []ServesOnlySound
<1>1. ASSUME Inv, Settled
      PROVE  Sound /\ services = Enabled
  <2>1. /\ Accepted /\ Built /\ services = Enabled
        /\ opts["socket"] = "unix://path"
        /\ opts["token-refresh-interval"] = "positive"
        /\ opts["health-port"] # "nonsense"
    BY <1>1 DEF Inv, Progress, Settled
  <2>2. /\ \A f \in Fields : opts[f] = Effective(f)
        /\ \A f \in Fields : ~Malformed(f, env[f]) /\ ~Malformed(f, flags[f])
    BY <2>1 DEF Accepted, Merged
  <2>3. Effective("version") = "false"
    BY <2>1, <2>2, FieldNames DEF Accepted, Bools
  <2>4. Effective("vault-address") = "given"
    BY <2>1, GivenText DEF Accepted, ValidFlags, ValidFlagsWithoutVersions, Texts
  <2>5. \E login \in Logins : Asks(login)
    BY <2>1, AcceptedLogin
  <2>6. Enabled # {}
    BY <2>1, <2>2, FieldNames DEF Accepted, ValidFlags, Enabled, Bools
  <2>7. /\ Effective("socket") = "unix://path"
        /\ Effective("token-refresh-interval") = "positive"
        /\ Effective("health-port") # "nonsense"
    BY <2>1, <2>2, FieldNames
  <2>8. QED
    BY <2>1, <2>2, <2>3, <2>4, <2>5, <2>6, <2>7 DEF Sound
<1>2. Inv => ServesOnlySound
  BY <1>1 DEF ServesOnlySound
<1>3. QED
  BY <1>2, Invariant, PTL

(* A sound configuration is refused by no check of the plugin, neither in  *)
(* validateFlags (plugin.go:379) nor later by the socket (socket.go:21),   *)
(* the ticker (lease.go:38) or the health port (plugin.go:357): with OnlySoundServes, the checks accept what  *)
(* they should and nothing else.                                           *)
THEOREM SoundPasses == Spec => []SoundIsAccepted
<1>1. Init => SoundIsAccepted
  BY DEF Init, Ends, SoundIsAccepted
<1>2. Inv /\ SoundIsAccepted /\ [Next]_vars => SoundIsAccepted'
  <2> SUFFICES ASSUME Inv, SoundIsAccepted, [Next]_vars, stage' \in Ends, Sound'
               PROVE  SoundIsAccepted'
    BY DEF SoundIsAccepted
  <2>1. CASE stage \in Ends \/ UNCHANGED vars
    <3>1. UNCHANGED vars
      BY <2>1 DEF Next, Main, Change, ParseEnvs, ParseFlags, Validate, BuildOption,
         NewClient, OpenSocket, StartTicker, ListenHealth, Ends
    <3> QED
      BY <3>1 DEF vars, config, SoundIsAccepted, Sound, Asks, Effective, Enabled
  <2>2. CASE stage \notin Ends /\ ~UNCHANGED vars
    <3>1. Next /\ ~Change
      BY <2>2 DEF Change, Ends
    <3>2. Sound
      <4>1. UNCHANGED config
        BY <3>1 DEF Next, Main, ParseEnvs, ParseFlags, Validate, BuildOption, NewClient,
           OpenSocket, StartTicker, ListenHealth
      <4> QED BY <4>1 DEF config, Sound, Asks, Effective, Enabled
    <3>3. ~ParseEnvs /\ ~ParseFlags
      BY <2>2, <3>2 DEF ParseEnvs, ParseFlags, Sound, Stop, Goto, Ends
    <3>4. ~Validate
      <4>1. CASE ~Merged
        BY <4>1 DEF Validate, Inv, Progress
      <4>2. CASE Merged
        <5>1. ValidFlags /\ opts["version"] = "false"
          BY <3>2, <4>2, SoundIsValid, FieldNames DEF Merged, Sound, Bools
        <5> QED BY <5>1 DEF Validate, Goto, Ends
      <4> QED BY <4>1, <4>2
    <3>5. CASE BuildOption
      BY <3>5 DEF BuildOption, Stop, Goto, Ends, config, SoundIsAccepted
    <3>6. CASE NewClient
      BY <3>6 DEF NewClient, Stop, Goto, Ends, config, SoundIsAccepted
    <3>7. ~OpenSocket /\ ~StartTicker /\ ~ListenHealth
      <4>1. CASE stage \notin {"socket", "serving"}
        BY <2>2, <4>1 DEF OpenSocket, StartTicker, ListenHealth, Inv, Shape, Ends
      <4>2. CASE stage \in {"socket", "serving"}
        <5>1. /\ opts["socket"] = "unix://path"
              /\ opts["token-refresh-interval"] = "positive"
              /\ opts["health-port"] # "nonsense"
          BY <3>2, <4>2, FieldNames DEF Inv, Progress, Accepted, Merged, Sound
        <5> QED
          BY <2>2, <5>1 DEF OpenSocket, StartTicker, ListenHealth, Stop, Goto, Ends
      <4> QED BY <4>1, <4>2
    <3> QED BY <3>1, <3>3, <3>4, <3>5, <3>6, <3>7 DEF Next, Main
  <2> QED BY <2>1, <2>2
<1> QED BY <1>1, <1>2, Invariant, PTL DEF Spec

=============================================================================
