----------------------------- MODULE KmsPlugin ------------------------------
(***************************************************************************)
(* The request path of the plugin: the KMS v1 and v2 gRPC services         *)
(* (pkg/plugin), the health and liveness probes (pkg/probes) and the       *)
(* transit client below them (pkg/vault/transit.go).  Each handler is a    *)
(* chain of requests to Vault; handlers of concurrent calls interleave     *)
(* between any two requests, and so do rotations of the transit key.       *)
(***************************************************************************)
EXTENDS KmsEnvironment

VARIABLES
    step,    \* step[c]: the Vault request call c is about to make
    sealed,  \* sealed[c]: the ciphertext its last encryption returned
    keyId,   \* keyId[c]: the key version Status read first
    checks   \* checks[c]: the self-checks it still has to pass

workVars == <<sealed, keyId, checks>>
vars == <<sharedVars, step, workVars>>

Steps == {"none", "statusKey", "encrypt", "keyVersion", "decrypt"}

(* The plaintext of a self-check, plugin_v1.go:39 and plugin_v2.go:67.     *)
Health == "health"

Init ==
    /\ SharedInit
    /\ step = [c \in Calls |-> "none"]
    /\ sealed = [c \in Calls |-> Foreign]
    /\ keyId = [c \in Calls |-> NoKeyId]
    /\ checks = [c \in Calls |-> 0]

Goto(c, s) == step' = [step EXCEPT ![c] = s]

Ask(c) == req[c].ask

FirstStep(q) ==
    CASE q.kind \in {"encrypt", "health"} -> "encrypt"
      [] q.kind = "decrypt" -> "decrypt"
      [] q.kind = "status"  -> "statusKey"

(* HealthZ asks every registered service, Status only its own.             *)
Probers(q) ==
    CASE q.kind = "health" ->
           (IF "v1" \in Enabled THEN 1 ELSE 0) + (IF "v2" \in Enabled THEN 1 ELSE 0)
      [] q.kind = "status" -> 1
      [] OTHER -> 0

Begin(c, q) ==
    /\ Call(c, q)
    /\ Goto(c, FirstStep(q))
    /\ checks' = [checks EXCEPT ![c] = Probers(q)]
    /\ UNCHANGED <<sealed, keyId>>

(* Every handler returns at once when a request to Vault fails: Encrypt    *)
(* drops the ciphertext it may already have, HealthZ skips the remaining   *)
(* probers, Status reports the failed check next to the key id it has read.*)
FinishWithoutReset(c, r) ==
    /\ Answer(c, r)
    /\ UNCHANGED <<step, workVars>>
Finish(c, r) ==
    /\ Answer(c, r)
    /\ Goto(c, "none")
    /\ sealed' = [sealed EXCEPT ![c] = Foreign]
    /\ keyId' = [keyId EXCEPT ![c] = NoKeyId]
    /\ checks' = [checks EXCEPT ![c] = 0]

Checking(c) == Ask(c).kind \in {"status", "health"}

Verdict(c, healthy) ==
    IF Ask(c).kind = "status" THEN Status(healthy, keyId[c]) ELSE Probed(healthy)

Abort(c) ==
    Finish(c, IF Checking(c) /\ step[c] # "statusKey" THEN Verdict(c, FALSE)
              ELSE Failed)

At(c, s) == step[c] = s

(* Whichever request fails, the call ends with it and asks no further.     *)
RequestFails(c) ==
    /\ ~At(c, "none") /\ VaultFault
    /\ Abort(c)

(* transit.go:24 and :50 take the data of an answer without a look whether *)
(* there is any, GetKeyVersion looks.  In the HTTP server the panic ends   *)
(* the request alone, as RequestFails does; in a gRPC handler it ends the  *)
(* process.                                                                *)
EmptyAnswerPanics(c) ==
    /\ step[c] \in {"encrypt", "decrypt"} /\ Ask(c).kind # "health"
    /\ VaultFault
    /\ BreakOff
    /\ step' = [d \in Calls |-> "none"]
    /\ sealed' = [d \in Calls |-> Foreign]
    /\ keyId' = [d \in Calls |-> NoKeyId]
    /\ checks' = [d \in Calls |-> 0]

(* GetKeyVersion: the latest version at the moment of the request.         *)
VersionOnEntry(c) == req[c].since    \* as if read before the encryption
VersionAtStart(c) == 1               \* as if cached when the plugin starts
VersionRead(c) == latest

(* Status, first request: GetKeyVersion.                                   *)
ReadCachedStatusKey(c) ==
    /\ At(c, "statusKey")
    /\ keyId' = [keyId EXCEPT ![c] = VersionAtStart(c)]
    /\ Goto(c, "encrypt")
    /\ UNCHANGED <<sharedVars, sealed, checks>>
ReadStatusKey(c) ==
    /\ At(c, "statusKey")
    /\ keyId' = [keyId EXCEPT ![c] = VersionRead(c)]
    /\ Goto(c, "encrypt")
    /\ UNCHANGED <<sharedVars, sealed, checks>>

(* Client.Encrypt, first request: Vault encrypts with the latest version.  *)
Plain(c) == IF Checking(c) THEN Health ELSE Ask(c).plain

TransitEncrypt(c) ==
    /\ At(c, "encrypt")
    /\ sealed' = [sealed EXCEPT ![c] = Cipher(latest, Plain(c))]
    /\ Goto(c, "keyVersion")
    /\ UNCHANGED <<sharedVars, keyId, checks>>

(* Client.Encrypt, second request: GetKeyVersion.  v1 drops the key id, a  *)
(* self-check goes on to decrypt.                                          *)
ReadKeyVersion(c) ==
    /\ At(c, "keyVersion") /\ NoVaultFault
    /\ \/ /\ Checking(c)
          /\ Goto(c, "decrypt")
          /\ UNCHANGED <<sharedVars, workVars>>
       \/ /\ ~Checking(c)
          /\ Finish(c, Encrypted(sealed[c], IF Ask(c).api = "v2"
                                            THEN VersionRead(c) ELSE NoKeyId))

(* Client.Decrypt: Vault refuses what its key did not make and what a      *)
(* retired version made.                                                   *)
ToDecrypt(c) == IF Checking(c) THEN sealed[c] ELSE Ask(c).cipher
Decryptable(cipher) == cipher.ver >= minDec
UndecodedText(c) == ToDecrypt(c).text
Plaintext(c) == Decode(ToDecrypt(c).text)

(* A passed check is followed by the next prober's, if there is one.       *)
CheckAgainForever(c) ==
    /\ Goto(c, "encrypt")
    /\ UNCHANGED <<sharedVars, workVars>>
ConcludeCheck(c) ==
    IF Plaintext(c) = Health /\ checks[c] > 1
    THEN /\ checks' = [checks EXCEPT ![c] = @ - 1]
         /\ Goto(c, "encrypt")
         /\ UNCHANGED <<sharedVars, sealed, keyId>>
    ELSE Finish(c, Verdict(c, Plaintext(c) = Health))

TransitDecrypt(c) ==
    /\ At(c, "decrypt") /\ NoVaultFault
    /\ \/ ~Decryptable(ToDecrypt(c)) /\ Abort(c)
       \/ Decryptable(ToDecrypt(c)) /\ Checking(c) /\ ConcludeCheck(c)
       \/ /\ Decryptable(ToDecrypt(c)) /\ ~Checking(c)
          /\ Finish(c, Decrypted(Plaintext(c)))

Handle(c) ==
    \/ ReadStatusKey(c) \/ TransitEncrypt(c) \/ ReadKeyVersion(c)
    \/ TransitDecrypt(c) \/ RequestFails(c) \/ EmptyAnswerPanics(c)

Environment ==
    /\ Rotate \/ Retire \/ \E c \in Calls : Take(c)
    /\ UNCHANGED <<step, workVars>>

Next ==
    \/ \E c \in Calls : Handle(c) \/ \E q \in Requests : Begin(c, q)
    \/ Environment

Spec == Init /\ [][Next]_vars

(* grpc-go and net/http run every handler on a goroutine of its own, and   *)
(* every request to Vault ends within the client's timeout.                *)
FairSpec == Spec /\ \A c \in Calls : WF_vars(Handle(c))

-----------------------------------------------------------------------------
(* Properties.                                                             *)

Ciphers == {Foreign} \cup [ver : Nat, text : {Encode(p) : p \in Data \cup {Health}}]

Asks ==
    [kind : {"encrypt"}, api : Enabled, plain : Data]
      \cup [kind : {"decrypt"}, api : Enabled, cipher : Ciphers]
      \cup [kind : {"status", "health"}]

CallOK(c) ==
    \/ req[c] = Nothing
    \/ /\ DOMAIN req[c] = {"ask", "since", "floor", "seen"}
       /\ Ask(c) \in Asks
       /\ req[c].since \in 1..latest
       /\ req[c].floor \in 1..minDec
       /\ req[c].seen \in 0..req[c].since

(* Type correctness: every call is of a known kind and began when the key  *)
(* was no newer than now, and a handler has a Vault request to make        *)
(* exactly while its call is pending.                                      *)
TypeOK ==
    /\ latest \in Nat \ {0} /\ minDec \in 1..latest /\ newest \in 0..latest
    /\ faultsLeft \in 0..MaxFaults
    /\ step \in [Calls -> Steps]
    /\ sealed \in [Calls -> Ciphers]
    /\ keyId \in [Calls -> 0..latest]
    /\ checks \in [Calls -> 0..2]
    /\ DOMAIN req = Calls /\ DOMAIN reply = Calls
    /\ \A c \in Calls : CallOK(c) /\ (step[c] # "none" <=> Pending(c))

(* What a handler holds between two requests is of versions the key has    *)
(* had since its call began, whatever rotations came in between.           *)
HandlerHolds(c) ==
    /\ step[c] = "statusKey" => Ask(c).kind = "status"
    /\ step[c] \in {"encrypt", "keyVersion"} =>
          Ask(c).kind \in {"encrypt", "status", "health"}
    /\ step[c] = "decrypt" => Ask(c).kind \in {"decrypt", "status", "health"}
    /\ step[c] = "keyVersion" \/ (step[c] = "decrypt" /\ Checking(c)) =>
          /\ sealed[c].ver \in req[c].since..latest
          /\ sealed[c].text = Encode(Plain(c))
    /\ step[c] \notin {"none", "statusKey"} /\ Ask(c).kind = "status" =>
          keyId[c] >= req[c].since

HandlersHold == \A c \in Calls : HandlerHolds(c)

(* The handlers keep the promise of KmsService.                            *)
Service == INSTANCE KmsService
KeepsPromise == Service!Spec

(* Every call is answered, by a reply or by an error.                      *)
EveryCallAnswered == \A c \in Calls : Pending(c) ~> ~Pending(c)

=============================================================================
