--------------------------- MODULE KmsEnvironment ---------------------------
(***************************************************************************)
(* What surrounds the plugin: the clients of its socket and of its health  *)
(* port, and the transit key in Vault.  Shared by KmsService, the promise, *)
(* and KmsPlugin, the code.                                                *)
(***************************************************************************)
EXTENDS Naturals

CONSTANTS
    Calls,       \* slots for concurrent gRPC and HTTP calls
    Data,        \* the plaintexts (DEKs) the kube-apiserver has encrypted
    MaxVersion,  \* bound: the transit key is rotated up to this version
    Enabled,     \* the KMS API versions that are registered
    MaxFaults    \* bound: how many requests to Vault fail in one behaviour

ASSUME ServiceAssumption ==
    /\ MaxVersion \in Nat \ {0}
    /\ Enabled \in (SUBSET {"v1", "v2"}) \ {{}}   \* validateFlags
    /\ MaxFaults \in Nat

VARIABLES
    latest,  \* Vault: latest_version of the transit key
    minDec,  \* Vault: min_decryption_version of the transit key
    req,     \* req[c]: the call in slot c
    reply,   \* reply[c]: its reply
    stored,  \* the encrypted DEK the kube-apiserver keeps in etcd
    newest,  \* the largest key id any reply has carried
    faultsLeft \* how many more requests to Vault may fail

keyVars    == <<latest, minDec>>
sharedVars == <<keyVars, req, reply, stored, newest, faultsLeft>>

Versions == 1..MaxVersion

(***************************************************************************)
(* transit.go hands Vault base64 text, so that is what a ciphertext seals; *)
(* a number stands for the decimal string of a version.                    *)
(***************************************************************************)
Encode(plain) == <<"base64", plain>>
Decode(text)  == text[2]

Cipher(ver, plain) == [ver |-> ver, text |-> Encode(plain)]

(* A ciphertext the transit key did not make: Vault refuses it.            *)
Foreign == [ver |-> 0, text |-> "foreign"]

NoKeyId == 0      \* v1 replies carry none

Nothing == [kind |-> "none"]

Failed                  == [kind |-> "failed"]
Encrypted(cipher, id)   == [kind |-> "encrypted", cipher |-> cipher, keyId |-> id]
Decrypted(plain)        == [kind |-> "decrypted", plain |-> plain]
Status(healthy, id)     == [kind |-> "status", healthy |-> healthy, keyId |-> id]
Probed(healthy)         == [kind |-> "probed", healthy |-> healthy]

NamesKey(r)     == r.kind = "encrypted" /\ r.keyId # NoKeyId
CarriesKeyId(r) == NamesKey(r) \/ r.kind = "status"

-----------------------------------------------------------------------------
SharedInit ==
    /\ latest = 1 /\ minDec = 1
    /\ req = [c \in Calls |-> Nothing] /\ reply = [c \in Calls |-> Nothing]
    /\ stored = Nothing
    /\ newest = NoKeyId
    /\ faultsLeft = MaxFaults

(* What a client can ask for: the calls of the registered services.        *)
EncryptRequests == [kind : {"encrypt"}, api : Enabled, plain : Data]
DecryptRequests ==
    [kind : {"decrypt"}, api : Enabled, cipher : {Foreign} \cup
        (IF stored.kind = "none" THEN {} ELSE {stored.cipher})]
StatusRequests  == IF "v2" \in Enabled THEN [kind : {"status"}] ELSE {}
HealthRequests  == [kind : {"health"}]

Requests ==
    EncryptRequests \cup DecryptRequests \cup StatusRequests \cup HealthRequests

(* since, floor and seen record the key when the call began.               *)
Call(c, q) ==
    /\ req[c] = Nothing
    /\ req' = [req EXCEPT ![c] =
                 [ask |-> q, since |-> latest, floor |-> minDec, seen |-> newest]]
    /\ UNCHANGED <<keyVars, reply, stored, newest, faultsLeft>>

Pending(c) == req[c] # Nothing /\ reply[c] = Nothing

Answer(c, r) ==
    /\ reply' = [reply EXCEPT ![c] = r]
    /\ UNCHANGED <<keyVars, req, stored, newest>>

(* The process ends: every call it was working on breaks off.              *)
BrokenOff(q) == IF q.kind = "health" THEN Probed(FALSE) ELSE Failed
BreakOff ==
    /\ reply' = [c \in Calls |-> IF Pending(c) THEN BrokenOff(req[c].ask) ELSE reply[c]]
    /\ UNCHANGED <<keyVars, req, stored, newest>>

(* A request to Vault fails: it is sealed, denies, answers nonsense, or the*)
(* context of the call is cancelled.                                       *)
VaultFault   == faultsLeft > 0 /\ faultsLeft' = faultsLeft - 1
NoVaultFault == UNCHANGED faultsLeft

(* The client gets the reply; the kube-apiserver stores a new ciphertext.  *)
Take(c) ==
    /\ reply[c] # Nothing
    /\ stored' = IF reply[c].kind = "encrypted" THEN reply[c] ELSE stored
    /\ newest' = IF CarriesKeyId(reply[c]) /\ reply[c].keyId > newest
                 THEN reply[c].keyId ELSE newest
    /\ req' = [req EXCEPT ![c] = Nothing]
    /\ reply' = [reply EXCEPT ![c] = Nothing]
    /\ UNCHANGED <<keyVars, faultsLeft>>

(* An operator rotates the key, or retires old versions.                   *)
Rotate ==
    /\ latest < MaxVersion /\ latest' = latest + 1
    /\ UNCHANGED <<minDec, req, reply, stored, newest, faultsLeft>>

Retire ==
    /\ \E v \in (minDec + 1)..latest : minDec' = v
    /\ UNCHANGED <<latest, req, reply, stored, newest, faultsLeft>>

-----------------------------------------------------------------------------
(* Properties of the replies, whoever gives them.                          *)

(* The key id handed out with a ciphertext is never older than the key     *)
(* version that made it: data sealed by an old key is never passed off as  *)
(* the work of an older one (transit.go:19-29 reads the id last).          *)
KeyIdNeverUnderstates ==
    /\ NamesKey(stored) => stored.cipher.ver <= stored.keyId
    /\ \A c \in Calls :
         NamesKey(reply[c]) => reply[c].cipher.ver <= reply[c].keyId

(* The key ids a client sees never go back: a call that begins after some  *)
(* reply was received is not answered with an older key id than that       *)
(* reply's, so a rotation, once seen, stays seen by every later Status and *)
(* Encrypt (transit.go:65, plugin_v2.go:39).                               *)
KeyIdsAdvance ==
    \A c \in Calls : CarriesKeyId(reply[c]) => reply[c].keyId >= req[c].seen

=============================================================================
