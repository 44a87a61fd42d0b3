----------------------------- MODULE KmsService -----------------------------
(***************************************************************************)
(* What the plugin promises to the kube-apiserver and to the kubelet,      *)
(* whatever the number and the order of the Vault requests behind a reply. *)
(* A call is made, is answered once in a single step, and the reply is     *)
(* taken; the answer reflects the transit key at moments of the call.      *)
(***************************************************************************)
EXTENDS KmsEnvironment

Init == SharedInit

Begin(c, q) == Call(c, q)

(***************************************************************************)
(* The ciphertext and the key id are of versions the key had during the    *)
(* call, and the key id is never older than the ciphertext.                *)
(***************************************************************************)
AnswerEncrypt(c) ==
    /\ Pending(c) /\ req[c].ask.kind = "encrypt" /\ NoVaultFault
    /\ \E ver \in req[c].since..latest : \E id \in ver..latest :
         LET cipher == Cipher(ver, req[c].ask.plain) IN
         Answer(c, Encrypted(cipher,
                             IF req[c].ask.api = "v2" THEN id ELSE NoKeyId))

(* What was sealed comes back, as long as its version may be decrypted.    *)
AnswerDecrypt(c) ==
    /\ Pending(c) /\ req[c].ask.kind = "decrypt" /\ NoVaultFault
    /\ req[c].ask.cipher.ver >= req[c].floor
    /\ Answer(c, Decrypted(Decode(req[c].ask.cipher.text)))

(***************************************************************************)
(* A self-check only fails when the version it was made with was retired   *)
(* while it ran, or at the cost of a request to Vault that failed for this *)
(* very call.                                                              *)
(***************************************************************************)
Alarm(c) == VaultFault \/ (minDec > req[c].since /\ NoVaultFault)

AnswerStatus(c) ==
    /\ Pending(c) /\ req[c].ask.kind = "status"
    /\ \E id \in req[c].since..latest :
         \/ Answer(c, Status(TRUE, id)) /\ NoVaultFault
         \/ Answer(c, Status(FALSE, id)) /\ Alarm(c)

AnswerHealth(c) ==
    /\ Pending(c) /\ req[c].ask.kind = "health"
    /\ \/ Answer(c, Probed(TRUE)) /\ NoVaultFault
       \/ Answer(c, Probed(FALSE)) /\ Alarm(c)

Fail(c) ==
    /\ Pending(c) /\ req[c].ask.kind # "health"
    /\ \/ VaultFault
       \/ /\ req[c].ask.kind = "decrypt" /\ req[c].ask.cipher.ver < minDec
          /\ NoVaultFault
    /\ Answer(c, Failed)

(***************************************************************************)
(* Every other fault costs one reply; an empty answer given to a gRPC call *)
(* may cost those of all calls.                                            *)
(***************************************************************************)
Collapse(c) ==
    /\ Pending(c) /\ req[c].ask.kind # "health"
    /\ VaultFault /\ BreakOff

Next ==
    \/ \E c \in Calls :
         \/ \E q \in Requests : Begin(c, q)
         \/ AnswerEncrypt(c) \/ AnswerDecrypt(c) \/ AnswerStatus(c)
         \/ AnswerHealth(c) \/ Fail(c) \/ Collapse(c) \/ Take(c)
    \/ Rotate \/ Retire

Spec == Init /\ [][Next]_sharedVars

=============================================================================
