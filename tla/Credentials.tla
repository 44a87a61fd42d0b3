----------------------------- MODULE Credentials -----------------------------
(***************************************************************************)
(* Logins with a credential that somebody else rotates: a certificate and  *)
(* its key in two files, the kubelet's combined PEM file (split into       *)
(* temporary files once, when the run starts), or a JWT from a file or the *)
(* SPIFFE Workload API.  A credential is its generation.  Rotation goes on *)
(* while WithCertAuth and withJWTTokenSource read; what is replaced        *)
(* expires at some time.                                                   *)
(***************************************************************************)
EXTENDS Naturals

CONSTANTS
    MaxGen,      \* bound: generations of the credential
    MaxFaults    \* bound: reads, fetches and logins that fail for other reasons

ASSUME CredentialsAssumption == MaxGen \in Nat \ {0} /\ MaxFaults \in Nat

VARIABLES
    source,      \* "certFiles", "certPem" or "jwt"
    probed,      \* does the pod have the manifest's liveness probe?
    disk,        \* the generation of each part on disk
    expired,     \* generations up to this one are refused by Vault
    copy,        \* the generation in the temporary files, 0 if there are none
    run,         \* "down", "boot" (NewClient) or "refresh" (the LeaseRefresher)
    step,        \* where a login is: "idle", "cert", "key", "token", "login"
    got,         \* what the login has read of each part
    began,       \* the generation whole on disk when the login began
    token,       \* [shown, began] of the login it comes from, or NoToken
    faultsLeft

outside == <<source, probed, disk, expired>>
vars == <<outside, copy, run, step, got, began, token, faultsLeft>>

Parts == {"cert", "key"}
Sources == {"certFiles", "certPem", "jwt"}
Generation == 1..MaxGen
Both(g) == [p \in Parts |-> g]
NoToken == [shown |-> 0, began |-> 0]

Init ==
    /\ source \in Sources /\ probed \in BOOLEAN
    /\ disk = Both(1) /\ expired = 0 /\ copy = 0
    /\ run = "down" /\ step = "idle" /\ got = Both(0) /\ began = 0
    /\ token = NoToken /\ faultsLeft = MaxFaults

-----------------------------------------------------------------------------
(* The rotation.  Two files are written one after the other, in any order; *)
(* the PEM file and a JWT are replaced at once.                            *)

Whole == IF disk["cert"] <= disk["key"] THEN disk["cert"] ELSE disk["key"]

WriteFile(p) ==
    /\ source = "certFiles"
    /\ disk[p] = Whole /\ disk[p] < MaxGen
    /\ disk' = [disk EXCEPT ![p] = @ + 1]

Replace ==
    /\ source # "certFiles"
    /\ Whole < MaxGen /\ disk' = Both(Whole + 1)

Rotate ==
    /\ (\E p \in Parts : WriteFile(p)) \/ Replace
    /\ UNCHANGED <<source, probed, expired, copy, run, step, got, began, token, faultsLeft>>

(* A credential is replaced in time: never the newest whole one expires.   *)
Expire ==
    /\ \E g \in Generation : expired < g /\ g < Whole /\ expired' = g
    /\ UNCHANGED <<source, probed, disk, copy, run, step, got, began, token, faultsLeft>>

-----------------------------------------------------------------------------
(* A login: AuthMethodFunc, called by NewClient and by the refresher.      *)

FirstStep == IF source = "jwt" THEN "token" ELSE "cert"

(* The caller of a failed login exits in NewClient; the refresher goes on. *)
Fail ==
    /\ step' = "idle" /\ run' = IF run = "boot" THEN "down" ELSE run
    /\ UNCHANGED <<outside, copy, got, began, token>>

Fault ==
    /\ step # "idle" /\ faultsLeft > 0
    /\ Fail /\ faultsLeft' = faultsLeft - 1

SplitOnce ==
    IF source # "certPem" THEN 0 ELSE IF copy # 0 THEN copy ELSE Whole
Split == IF source = "certPem" THEN Whole ELSE 0

(* The run starts: -cert-pem is split, then NewClient logs in.             *)
Start ==
    /\ run = "down" /\ run' = "boot" /\ copy' = Split
    /\ step' = FirstStep /\ got' = Both(0) /\ began' = Whole
    /\ UNCHANGED <<outside, token, faultsLeft>>

(* The refresher logs in: Vault no longer knows the token, or will not     *)
(* renew it.                                                               *)
LogIn ==
    /\ run = "refresh" /\ step = "idle" /\ step' = FirstStep /\ began' = Whole
    /\ UNCHANGED <<outside, copy, run, got, token, faultsLeft>>

FileReadOnce(p) ==
    IF source = "certPem" THEN copy ELSE IF got[p] # 0 THEN got[p] ELSE disk[p]
File(p) == IF source = "certPem" THEN copy ELSE disk[p]

ReadCert ==
    /\ step = "cert" /\ step' = "key" /\ got' = [got EXCEPT !["cert"] = File("cert")]
    /\ UNCHANGED <<outside, copy, run, began, token, faultsLeft>>

(* ConfigureTLS refuses a certificate and a key that do not belong         *)
(* together: the login fails.                                              *)
ReadKey ==
    /\ step = "key" /\ UNCHANGED faultsLeft
    /\ \/ File("key") # got["cert"] /\ Fail
       \/ /\ File("key") = got["cert"] /\ step' = "login"
          /\ got' = [got EXCEPT !["key"] = File("key")]
          /\ UNCHANGED <<outside, copy, run, began, token>>

ReadToken ==
    /\ step = "token" /\ step' = "login" /\ got' = Both(File("cert"))
    /\ UNCHANGED <<outside, copy, run, began, token, faultsLeft>>

Answer ==
    /\ step = "login" /\ UNCHANGED faultsLeft
    /\ \/ got["cert"] <= expired /\ Fail
       \/ /\ got["cert"] > expired
          /\ token' = [shown |-> got["cert"], began |-> began]
          /\ run' = "refresh" /\ step' = "idle"
          /\ UNCHANGED <<outside, copy, got, began>>

Proceed == ReadCert \/ ReadKey \/ ReadToken \/ Answer

-----------------------------------------------------------------------------
(* Vault forgets the token; a probe that fails long enough restarts the    *)
(* container, with a new file system and a new process.                    *)

Lose ==
    /\ token # NoToken /\ token' = NoToken
    /\ UNCHANGED <<outside, copy, run, step, got, began, faultsLeft>>

RestartWithLogin ==
    /\ probed /\ run = "refresh" /\ token = NoToken
    /\ run' = "down"
    /\ UNCHANGED <<outside, copy, step, got, began, token, faultsLeft>>
Restart ==
    /\ probed /\ run = "refresh" /\ token = NoToken
    /\ run' = "down" /\ step' = "idle"
    /\ UNCHANGED <<outside, copy, got, began, token, faultsLeft>>

Next == Rotate \/ Expire \/ Fault \/ Start \/ LogIn \/ Proceed \/ Lose \/ Restart

Spec == Init /\ [][Next]_vars

(* A rotation that was begun is finished, the kubelet starts a container   *)
(* that ended and restarts one whose probe keeps failing, the refresher    *)
(* logs in when its token is gone, and a login ends.                       *)
FairSpec ==
    /\ Spec
    /\ WF_vars(Rotate /\ disk["cert"] # disk["key"])
    /\ WF_vars(Start) /\ WF_vars(Restart)
    /\ WF_vars(LogIn /\ token = NoToken) /\ WF_vars(Proceed)

-----------------------------------------------------------------------------
(* Properties.                                                             *)

(* Type correctness: files at most one generation apart, a login only in a *)
(* run, temporary files only of a combined PEM, and nothing Vault refuses  *)
(* among the newest credentials.                                           *)
TypeOK ==
    /\ source \in Sources /\ probed \in BOOLEAN
    /\ disk \in [Parts -> Generation] /\ \A p \in Parts : disk[p] \in {Whole, Whole + 1}
    /\ expired \in 0..MaxGen /\ expired < Whole
    /\ copy \in 0..MaxGen /\ copy <= Whole /\ (copy # 0 => source = "certPem")
    /\ run \in {"down", "boot", "refresh"}
    /\ step \in {"idle", "cert", "key", "token", "login"}
    /\ (run = "down" => step = "idle" /\ token = NoToken)
    /\ (run = "boot" => step # "idle" /\ token = NoToken)
    /\ got \in [Parts -> 0..MaxGen] /\ began \in 0..MaxGen /\ began <= Whole
    /\ token \in [shown : 0..MaxGen, began : 0..MaxGen]
    /\ faultsLeft \in 0..MaxFaults

(* jwt.go:67-68, docs/configuration.md:97, 137: a source that is read at   *)
(* every login never logs in with a credential older than what lay on disk *)
(* when that login began, however the rotation and the reads interleave.   *)
LoginsFollowRotation ==
    token # NoToken /\ source # "certPem" => token.shown >= token.began

(* The same of every source.  docs/configuration.md:97 says it of          *)
(* certificates in general; plugin.go:248 splits -cert-pem only once.      *)
RotationIsTransparent ==
    token # NoToken => token.shown >= token.began

(* A running plugin that lost its token logs in again by itself, unless    *)
(* the copy of its PEM file expired and no probe restarts it.              *)
LoginRecovers ==
    run = "refresh" /\ token = NoToken
      ~> token # NoToken \/ (source = "certPem" /\ copy <= expired /\ ~probed)

(* A run that fails at its first login is followed by one that serves,     *)
(* also when it met half a rotation or a PEM file about to expire.         *)
BootRecovers == run = "down" ~> run = "refresh"

=============================================================================
