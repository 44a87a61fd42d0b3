----------------------------- MODULE TokenKeeper -----------------------------
(***************************************************************************)
(* What LeaseRefresher promises to the code that uses its client, without  *)
(* clocks, calls and rounds: there is a session with Vault, a new one is   *)
(* only taken from Vault while it issues any, and replaces the old one     *)
(* only when that is lost or due, or was extended without the keeper       *)
(* learning of it.                                                         *)
(***************************************************************************)
CONSTANT Sessions   \* the names of sessions

VARIABLES
    inUse,    \* the session in use
    usable,   \* Vault accepts the session in use
    due,      \* less than half of its lease is left
    unsure,   \* it was extended and the keeper has not been told
    spare,    \* Vault has issued another session that is still good
    vaultUp,  \* Vault can be reached
    credsOk,  \* Vault accepts the login credentials
    done,     \* the keeper has been told to stop
    stopped,  \* the keeper has stopped
    broken    \* the keeper has broken down

session == <<inUse, usable, due, unsure, spare>>
keeper  == <<done, stopped, broken>>
keeperVars == <<session, vaultUp, credsOk, keeper>>

Init ==
    /\ inUse \in Sessions
    /\ usable = TRUE /\ due \in BOOLEAN /\ unsure = FALSE /\ spare = FALSE
    /\ vaultUp = TRUE /\ credsOk = TRUE
    /\ done = FALSE /\ stopped = FALSE /\ broken = FALSE

Works == ~stopped /\ ~broken

(* Time passes: sessions end, none comes back.                             *)
Age ==
    /\ usable' \in BOOLEAN /\ (usable' => usable)
    /\ spare' \in BOOLEAN /\ (spare' => spare)
    /\ due' \in BOOLEAN /\ (due => due')
    /\ UNCHANGED <<inUse, unsure, vaultUp, credsOk, keeper>>

(* Vault extends the session in use, by as much as it sees fit, and tells  *)
(* the keeper or not.                                                      *)
Renew ==
    /\ vaultUp /\ usable /\ Works
    /\ due' \in BOOLEAN /\ unsure' \in BOOLEAN
    /\ UNCHANGED <<inUse, usable, spare, vaultUp, credsOk, keeper>>

(* The keeper looks at the session again.                                  *)
Settle ==
    /\ Works /\ unsure' = FALSE
    /\ UNCHANGED <<inUse, usable, due, spare, vaultUp, credsOk, keeper>>

(* Vault issues a session for valid credentials.                           *)
Issue ==
    /\ vaultUp /\ credsOk /\ Works
    /\ spare' = TRUE
    /\ UNCHANGED <<inUse, usable, due, unsure, vaultUp, credsOk, keeper>>

(* The keeper goes over to the session it was issued, be it late.          *)
Adopt ==
    /\ ~usable \/ due \/ unsure
    /\ Works
    /\ inUse' \in Sessions \ {inUse}
    /\ usable' = spare /\ spare' = usable /\ due' \in BOOLEAN
    /\ UNCHANGED <<unsure, vaultUp, credsOk, keeper>>

(* Vault, or an operator, changes what the keeper depends on.              *)
Disturb ==
    /\ vaultUp' \in BOOLEAN /\ credsOk' \in {credsOk, FALSE}
    /\ UNCHANGED <<session, keeper>>

Signal == done' = TRUE /\ UNCHANGED <<session, vaultUp, credsOk, stopped, broken>>

Stop ==
    /\ Works /\ done /\ stopped' = TRUE
    /\ UNCHANGED <<session, vaultUp, credsOk, done, broken>>

(* The keeper breaks down with the session it has.                         *)
Break ==
    /\ Works /\ broken' = TRUE
    /\ UNCHANGED <<session, vaultUp, credsOk, done, stopped>>

Next ==
    \/ Age \/ Renew \/ Settle \/ Issue \/ Adopt
    \/ Disturb \/ Signal \/ Stop \/ Break

Spec == Init /\ [][Next]_keeperVars

=============================================================================
