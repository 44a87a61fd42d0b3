-------------------------- MODULE KmsPlugin_proofs --------------------------
(***************************************************************************)
(* Theorems about the request path of the plugin, for any number of        *)
(* concurrent calls, any plaintexts, any number of rotations, and whether  *)
(* or not requests to Vault fail.                                          *)
(***************************************************************************)
EXTENDS KmsPlugin, TLAPS

(* A reply belongs to a call that is still open, and the key id it carries *)
(* is of a version the key has had since that call began.                  *)
ReplyHolds(c) ==
    reply[c] # Nothing =>
      /\ req[c] # Nothing
      /\ reply[c].kind = "encrypted" => reply[c].cipher \in Ciphers
      /\ CarriesKeyId(reply[c]) => reply[c].keyId \in req[c].since..latest
      /\ NamesKey(reply[c]) => reply[c].cipher.ver <= reply[c].keyId

StoredHolds ==
    stored # Nothing =>
      /\ stored.kind = "encrypted" /\ stored.cipher \in Ciphers
      /\ NamesKey(stored) => stored.cipher.ver <= stored.keyId

(* Everything known of one call.                                           *)
CallInv(c) ==
    /\ step[c] \in Steps /\ sealed[c] \in Ciphers
    /\ keyId[c] \in 0..latest /\ checks[c] \in 0..2
    /\ step[c] # "none" <=> Pending(c)
    /\ CallOK(c) /\ HandlerHolds(c) /\ ReplyHolds(c)

KeyInv ==
    /\ latest \in Nat \ {0} /\ minDec \in 1..latest /\ newest \in 0..latest
    /\ faultsLeft \in 0..MaxFaults
    /\ StoredHolds

ShapeInv ==
    /\ DOMAIN req = Calls /\ DOMAIN reply = Calls
    /\ step = [c \in Calls |-> step[c]]
    /\ sealed = [c \in Calls |-> sealed[c]]
    /\ keyId = [c \in Calls |-> keyId[c]]
    /\ checks = [c \in Calls |-> checks[c]]

PluginInv == KeyInv /\ ShapeInv /\ \A c \in Calls : CallInv(c)

-----------------------------------------------------------------------------
USE DEF keyVars

LEMMA InvInit == Init => PluginInv
BY ServiceAssumption
   DEF ServiceAssumption, Init, SharedInit, PluginInv, KeyInv, StoredHolds,
       ShapeInv, CallInv, CallOK, HandlerHolds, ReplyHolds, Pending, Steps,
       Ciphers, NoKeyId, Nothing, Foreign

(* A call keeps its invariant through the steps of the others: the key     *)
(* only grows newer and the versions it may decrypt only fewer.            *)
LEMMA Frame ==
    ASSUME NEW d \in Calls, CallInv(d), KeyInv,
           req'[d] = req[d], reply'[d] = reply[d], step'[d] = step[d],
           sealed'[d] = sealed[d], keyId'[d] = keyId[d], checks'[d] = checks[d],
           latest' \in Nat, latest' >= latest,
           minDec' \in Nat, minDec' >= minDec
    PROVE  CallInv(d)'
<1> USE DEF KeyInv, Pending, Ask
<1>1. CallOK(d)'
  BY DEF CallInv, CallOK
<1>2. ReplyHolds(d)'
  BY DEF CallInv, CallOK, ReplyHolds, CarriesKeyId, NamesKey
<1>3. HandlerHolds(d)'
  BY DEF CallInv, CallOK, HandlerHolds, Checking, Plain
<1>4. QED
  BY <1>1, <1>2, <1>3 DEF CallInv

-----------------------------------------------------------------------------
(* The reply of a call that ends is sound, and frees what it held.         *)
LEMMA FinishStep ==
    ASSUME PluginInv, NEW c \in Calls, step[c] # "none", NEW r, Finish(c, r),
           r # Nothing, NoVaultFault \/ VaultFault,
           r.kind = "encrypted" => r.cipher \in Ciphers,
           CarriesKeyId(r) => r.keyId \in req[c].since..latest,
           NamesKey(r) => r.cipher.ver <= r.keyId
    PROVE  PluginInv'
<1> USE DEF PluginInv, Finish, Answer, Goto
<1>1. ShapeInv' /\ KeyInv'
  <2>1. faultsLeft' \in 0..MaxFaults
    BY ServiceAssumption
       DEF ServiceAssumption, KeyInv, NoVaultFault, VaultFault
  <2>2. QED
    BY <2>1 DEF ShapeInv, KeyInv, StoredHolds
<1>2. ASSUME NEW d \in Calls, d # c PROVE CallInv(d)'
  BY <1>2, Frame DEF ShapeInv, KeyInv
<1>3. CallInv(c)'
  <2>1. /\ req'[c] = req[c] /\ reply'[c] = r /\ step'[c] = "none"
        /\ sealed'[c] = Foreign /\ keyId'[c] = NoKeyId /\ checks'[c] = 0
    BY DEF ShapeInv
  <2>2. Pending(c)
    BY DEF CallInv
  <2>3. CallOK(c)'
    BY <2>1 DEF CallInv, CallOK, Ask
  <2>4. ReplyHolds(c)'
    BY <2>1, <2>2 DEF ReplyHolds, Pending
  <2>5. HandlerHolds(c)'
    BY <2>1 DEF HandlerHolds
  <2>6. ~Pending(c)'
    BY <2>1 DEF Pending
  <2>7. QED
    BY <2>1, <2>3, <2>4, <2>5, <2>6
       DEF CallInv, Steps, Ciphers, KeyInv, NoKeyId
<1>4. QED
  BY <1>1, <1>2, <1>3

LEMMA AbortStep ==
    ASSUME PluginInv, NEW c \in Calls, step[c] # "none", Abort(c),
           NoVaultFault \/ VaultFault
    PROVE  PluginInv'
<1>1. Finish(c, Failed) \/ (Checking(c) /\ step[c] # "statusKey"
                             /\ Finish(c, Verdict(c, FALSE)))
  BY DEF Abort
<1>2. CASE Finish(c, Failed)
  BY <1>2, FinishStep DEF Failed, Nothing, CarriesKeyId, NamesKey
<1>3. CASE Checking(c) /\ step[c] # "statusKey" /\ Finish(c, Verdict(c, FALSE))
  <2>1. Ask(c).kind = "status" => keyId[c] \in req[c].since..latest
    BY <1>3 DEF PluginInv, CallInv, HandlerHolds, CallOK, KeyInv
  <2>2. QED
    BY <1>3, <2>1, FinishStep
       DEF Verdict, Status, Probed, Nothing, CarriesKeyId, NamesKey
<1>4. QED
  BY <1>1, <1>2, <1>3

-----------------------------------------------------------------------------
(* One lemma per step of a handler.                                        *)

LEMMA BeginStep ==
    ASSUME PluginInv, NEW c \in Calls, NEW q \in Requests, Begin(c, q)
    PROVE  PluginInv'
<1> USE DEF PluginInv, Begin, Call, Goto
<1>1. ShapeInv' /\ KeyInv'
  BY DEF ShapeInv, KeyInv, StoredHolds
<1>2. ASSUME NEW d \in Calls, d # c PROVE CallInv(d)'
  BY <1>2, Frame DEF ShapeInv, KeyInv
<1>3. CallInv(c)'
  <2> DEFINE record == [ask |-> q, since |-> latest, floor |-> minDec,
                        seen |-> newest]
  <2>1. /\ req'[c] = record /\ reply'[c] = reply[c]
        /\ step'[c] = FirstStep(q) /\ checks'[c] = Probers(q)
        /\ sealed'[c] = sealed[c] /\ keyId'[c] = keyId[c]
    BY DEF ShapeInv
  <2>2. q \in Asks
    BY DEF Requests, EncryptRequests, DecryptRequests, StatusRequests,
           HealthRequests, Asks, KeyInv, StoredHolds, Ciphers, Nothing
  <2>3. record # Nothing
    BY DEF Nothing
  <2>4. reply[c] = Nothing
    BY DEF CallInv, ReplyHolds
  <2>5. Pending(c)'
    BY <2>1, <2>3, <2>4 DEF Pending
  <2>6. CallOK(c)'
    BY <2>1, <2>2 DEF CallOK, Ask, KeyInv
  <2>7. /\ FirstStep(q) \in Steps \ {"none", "keyVersion"}
        /\ Probers(q) \in 0..2
    BY <2>2 DEF FirstStep, Probers, Asks, Steps
  <2>8. ReplyHolds(c)'
    BY <2>1, <2>4 DEF ReplyHolds
  <2>9. HandlerHolds(c)'
    <3>1. /\ FirstStep(q) = "encrypt" => q.kind \in {"encrypt", "health"}
          /\ FirstStep(q) = "decrypt" => q.kind = "decrypt"
          /\ FirstStep(q) = "statusKey" => q.kind = "status"
          /\ q.kind = "status" => FirstStep(q) = "statusKey"
      BY <2>2 DEF FirstStep, Asks
    <3>2. Ask(c)' = q
      BY <2>1 DEF Ask
    <3>3. QED
      BY <2>1, <2>7, <3>1, <3>2 DEF HandlerHolds, Checking
  <2>10. QED
    BY <2>1, <2>5, <2>6, <2>7, <2>8, <2>9 DEF CallInv, KeyInv
<1>4. QED
  BY <1>1, <1>2, <1>3

LEMMA ReadStatusKeyStep ==
    ASSUME PluginInv, NEW c \in Calls, ReadStatusKey(c) PROVE PluginInv'
<1> USE DEF PluginInv, ReadStatusKey, At, Goto, VersionRead, sharedVars
<1>1. ShapeInv' /\ KeyInv'
  BY DEF ShapeInv, KeyInv, StoredHolds
<1>2. ASSUME NEW d \in Calls, d # c PROVE CallInv(d)'
  BY <1>2, Frame DEF ShapeInv, KeyInv
<1>3. CallInv(c)'
  BY DEF ShapeInv, CallInv, CallOK, HandlerHolds, ReplyHolds, CarriesKeyId,
         NamesKey, Pending, Ask, Checking, KeyInv, Steps
<1>4. QED
  BY <1>1, <1>2, <1>3

LEMMA TransitEncryptStep ==
    ASSUME PluginInv, NEW c \in Calls, TransitEncrypt(c) PROVE PluginInv'
<1> USE DEF PluginInv, TransitEncrypt, At, Goto, sharedVars
<1>1. ShapeInv' /\ KeyInv'
  BY DEF ShapeInv, KeyInv, StoredHolds
<1>2. ASSUME NEW d \in Calls, d # c PROVE CallInv(d)'
  BY <1>2, Frame DEF ShapeInv, KeyInv
<1>3. CallInv(c)'
  <2>1. Plain(c) \in Data \cup {Health}
    BY DEF CallInv, CallOK, HandlerHolds, Pending, Asks, Plain, Checking
  <2>2. Cipher(latest, Plain(c)) \in Ciphers
    BY <2>1 DEF Cipher, Ciphers, KeyInv
  <2>3. /\ sealed'[c] = Cipher(latest, Plain(c)) /\ step'[c] = "keyVersion"
        /\ UNCHANGED <<req[c], reply[c], keyId[c], checks[c], latest, minDec>>
    BY DEF ShapeInv
  <2>4. CallOK(c)' /\ ReplyHolds(c)'
    BY <2>3 DEF CallInv, CallOK, ReplyHolds, CarriesKeyId, NamesKey, Ask
  <2>5. HandlerHolds(c)'
    <3>1. req[c].since \in 1..latest
      BY DEF CallInv, CallOK, Pending
    <3>2. Plain(c)' = Plain(c) /\ Ask(c)' = Ask(c)
      BY <2>3 DEF Plain, Ask, Checking
    <3>3. QED
      BY <2>3, <3>1, <3>2 DEF CallInv, HandlerHolds, Cipher, KeyInv
  <2>6. QED
    BY <2>2, <2>3, <2>4, <2>5 DEF CallInv, Pending, Steps
<1>4. QED
  BY <1>1, <1>2, <1>3

LEMMA ReadKeyVersionStep ==
    ASSUME PluginInv, NEW c \in Calls, ReadKeyVersion(c) PROVE PluginInv'
<1> USE DEF ReadKeyVersion, At
<1>1. CASE Checking(c) /\ Goto(c, "decrypt") /\ UNCHANGED <<sharedVars, workVars>>
  <2> USE <1>1 DEF PluginInv, Goto, sharedVars, workVars
  <2>1. ShapeInv' /\ KeyInv'
    BY DEF ShapeInv, KeyInv, StoredHolds
  <2>2. ASSUME NEW d \in Calls, d # c PROVE CallInv(d)'
    BY <2>2, Frame DEF ShapeInv, KeyInv
  <2>3. CallInv(c)'
    <3>1. step'[c] = "decrypt"
      BY DEF ShapeInv
    <3>2. Plain(c)' = Plain(c) /\ Ask(c)' = Ask(c) /\ Checking(c)' = Checking(c)
      BY DEF Plain, Ask, Checking
    <3>3. HandlerHolds(c)'
      BY <3>1, <3>2 DEF CallInv, HandlerHolds, Checking
    <3>4. QED
      BY <3>1, <3>3
         DEF CallInv, CallOK, ReplyHolds, CarriesKeyId, NamesKey, Pending, Ask,
             Steps
  <2>4. QED
    BY <2>1, <2>2, <2>3
<1>2. CASE /\ ~Checking(c)
           /\ Finish(c, Encrypted(sealed[c], IF Ask(c).api = "v2"
                                            THEN VersionRead(c) ELSE NoKeyId))
  <2>1. /\ sealed[c] \in Ciphers
        /\ sealed[c].ver \in req[c].since..latest
        /\ req[c].since \in 1..latest /\ latest \in Nat
    BY DEF PluginInv, KeyInv, CallInv, CallOK, HandlerHolds, Pending
  <2>2. QED
    BY <1>2, <2>1, FinishStep
       DEF Encrypted, Nothing, CarriesKeyId, NamesKey, VersionRead, NoKeyId
<1>3. QED
  BY <1>1, <1>2

(* The request fails or is refused, the round trip of a self-check is      *)
(* judged, or the plaintext goes back to the client.                       *)
LEMMA TransitDecryptStep ==
    ASSUME PluginInv, NEW c \in Calls, TransitDecrypt(c) PROVE PluginInv'
<1> USE DEF TransitDecrypt, At
<1>1. CASE Abort(c)
  BY <1>1, AbortStep
<1>2. CASE ~Checking(c) /\ Finish(c, Decrypted(Plaintext(c)))
  BY <1>2, FinishStep DEF Decrypted, Nothing, CarriesKeyId, NamesKey
<1>3. CASE Checking(c) /\ ConcludeCheck(c)
  <2>1. CASE Finish(c, Verdict(c, Plaintext(c) = Health))
    <3>1. Ask(c).kind = "status" => keyId[c] \in req[c].since..latest
      BY DEF PluginInv, CallInv, HandlerHolds, CallOK, KeyInv, Pending
    <3>2. QED
      BY <1>3, <2>1, <3>1, FinishStep
         DEF Verdict, Status, Probed, Nothing, CarriesKeyId, NamesKey
  <2>2. CASE /\ checks[c] > 1
             /\ checks' = [checks EXCEPT ![c] = checks[c] - 1]
             /\ Goto(c, "encrypt")
             /\ UNCHANGED <<sharedVars, sealed, keyId>>
    <3> USE <2>2 DEF PluginInv, Goto, sharedVars
    <3>1. ShapeInv' /\ KeyInv'
      BY DEF ShapeInv, KeyInv, StoredHolds
    <3>2. ASSUME NEW d \in Calls, d # c PROVE CallInv(d)'
      BY <3>2, Frame DEF ShapeInv, KeyInv
    <3>3. step'[c] = "encrypt" /\ checks'[c] \in 0..2
      BY DEF ShapeInv, CallInv
    <3>4. HandlerHolds(c)'
      BY <1>3, <3>3 DEF CallInv, HandlerHolds, Checking, Ask
    <3>5. CallInv(c)'
      BY <3>3, <3>4
         DEF CallInv, CallOK, ReplyHolds, CarriesKeyId, NamesKey, Pending, Ask,
             Steps
    <3>6. QED
      BY <3>1, <3>2, <3>5
  <2>3. QED
    BY <1>3, <2>1, <2>2 DEF ConcludeCheck
<1>4. QED
  BY <1>1, <1>2, <1>3

(* All calls break off at once, and nothing is held any more.              *)
LEMMA PanicStep ==
    ASSUME PluginInv, NEW c \in Calls, EmptyAnswerPanics(c) PROVE PluginInv'
<1> USE DEF PluginInv, EmptyAnswerPanics, BreakOff
<1>1. ShapeInv' /\ KeyInv'
  <2>1. faultsLeft' \in 0..MaxFaults
    BY ServiceAssumption DEF ServiceAssumption, KeyInv, VaultFault
  <2>2. QED
    BY <2>1 DEF ShapeInv, KeyInv, StoredHolds
<1>2. ASSUME NEW d \in Calls PROVE CallInv(d)'
  <2>1. /\ req'[d] = req[d] /\ step'[d] = "none"
        /\ sealed'[d] = Foreign /\ keyId'[d] = NoKeyId /\ checks'[d] = 0
        /\ reply'[d] = IF Pending(d) THEN BrokenOff(Ask(d)) ELSE reply[d]
    BY DEF Ask
  <2>2. BrokenOff(Ask(d)) \in {Failed, Probed(FALSE)}
    BY DEF BrokenOff
  <2>3. CallOK(d)' /\ HandlerHolds(d)'
    BY <2>1 DEF CallInv, CallOK, HandlerHolds, Ask
  <2>4. ~Pending(d)'
    BY <2>1, <2>2 DEF Pending, Failed, Probed, Nothing
  <2>5. ReplyHolds(d)'
    BY <2>1, <2>2
       DEF CallInv, ReplyHolds, Pending, CarriesKeyId, NamesKey, Failed, Probed
  <2>6. QED
    BY <2>1, <2>3, <2>4, <2>5 DEF CallInv, Steps, Ciphers, KeyInv, NoKeyId
<1>3. QED
  BY <1>1, <1>2

LEMMA TakeStep ==
    ASSUME PluginInv, NEW c \in Calls, Take(c), UNCHANGED <<step, workVars>>
    PROVE  PluginInv'
<1> USE DEF PluginInv, Take, workVars
<1>1. ShapeInv'
  BY DEF ShapeInv
<1>2. KeyInv'
  BY DEF KeyInv, StoredHolds, CallInv, CallOK, ReplyHolds, CarriesKeyId,
         NamesKey, NoKeyId, Nothing
<1>3. ASSUME NEW d \in Calls, d # c PROVE CallInv(d)'
  BY <1>3, Frame DEF ShapeInv, KeyInv
<1>4. CallInv(c)'
  <2>1. req'[c] = Nothing /\ reply'[c] = Nothing /\ step'[c] = step[c]
    BY DEF ShapeInv
  <2>2. step[c] = "none"
    BY DEF CallInv, Pending
  <2>3. QED
    BY <2>1, <2>2
       DEF CallInv, CallOK, ReplyHolds, HandlerHolds, Pending, KeyInv
<1>5. QED
  BY <1>1, <1>2, <1>3, <1>4

LEMMA KeyStep ==
    ASSUME PluginInv, Rotate \/ Retire, UNCHANGED <<step, workVars>>
    PROVE  PluginInv'
<1> USE DEF PluginInv, Rotate, Retire, workVars
<1>1. ShapeInv' /\ KeyInv'
  BY DEF ShapeInv, KeyInv, StoredHolds
<1>2. ASSUME NEW d \in Calls PROVE CallInv(d)'
  BY <1>2, Frame DEF KeyInv
<1>3. QED
  BY <1>1, <1>2

-----------------------------------------------------------------------------
LEMMA InvStep == PluginInv /\ [Next]_vars => PluginInv'
<1> SUFFICES ASSUME PluginInv, [Next]_vars PROVE PluginInv'
  OBVIOUS
<1>1. ASSUME NEW c \in Calls, Handle(c) PROVE PluginInv'
  BY <1>1, ReadStatusKeyStep, TransitEncryptStep, ReadKeyVersionStep,
     TransitDecryptStep, AbortStep, PanicStep
     DEF Handle, RequestFails, At
<1>2. ASSUME NEW c \in Calls, NEW q \in Requests, Begin(c, q) PROVE PluginInv'
  BY <1>2, BeginStep
<1>3. CASE Environment
  BY <1>3, TakeStep, KeyStep DEF Environment
<1>4. CASE UNCHANGED vars
  BY <1>4
     DEF vars, sharedVars, workVars, PluginInv, KeyInv, StoredHolds, ShapeInv,
         CallInv, CallOK, HandlerHolds, ReplyHolds, CarriesKeyId, NamesKey,
         Pending, Ask, Checking, Plain
<1>5. QED
  BY <1>1, <1>2, <1>3, <1>4 DEF Next

LEMMA PluginInvariant == Spec => []PluginInv
BY InvInit, InvStep, PTL DEF Spec

(* The handlers' state is well formed in every reachable state.            *)
THEOREM TypeCorrect == Spec => []TypeOK
<1>1. PluginInv => TypeOK
  BY DEF PluginInv, KeyInv, ShapeInv, CallInv, TypeOK
<1>2. QED
  BY <1>1, PluginInvariant, PTL

(* Whatever rotations come between two requests of a handler, what it      *)
(* holds is of versions the key has had since its call began.              *)
THEOREM HandlersAlwaysHold == Spec => []HandlersHold
<1>1. PluginInv => HandlersHold
  BY DEF PluginInv, CallInv, HandlersHold
<1>2. QED
  BY <1>1, PluginInvariant, PTL

(* No key id is older than the key version of the ciphertext it comes      *)
(* with, neither in a reply nor in etcd.                                   *)
THEOREM NeverUnderstates == Spec => []KeyIdNeverUnderstates
<1>1. PluginInv => KeyIdNeverUnderstates
  BY DEF PluginInv, KeyInv, StoredHolds, CallInv, ReplyHolds,
         KeyIdNeverUnderstates, NamesKey, Nothing
<1>2. QED
  BY <1>1, PluginInvariant, PTL

(* A client never sees the key id go back.                                 *)
THEOREM Advance == Spec => []KeyIdsAdvance
<1>1. PluginInv => KeyIdsAdvance
  BY DEF PluginInv, KeyInv, CallInv, CallOK, ReplyHolds, KeyIdsAdvance,
         CarriesKeyId, NamesKey, Nothing
<1>2. QED
  BY <1>1, PluginInvariant, PTL

-----------------------------------------------------------------------------
(* Refinement: every step of a handler is an answer of KmsService or       *)
(* changes nothing its clients can see.                                    *)

USE DEF Service!Pending, Service!Answer, Service!Encode, Service!Decode,
        Service!Cipher, Service!Nothing, Service!NoKeyId, Service!Failed,
        Service!Encrypted, Service!Decrypted, Service!Status, Service!Probed,
        Service!Alarm, Service!VaultFault, Service!NoVaultFault, Service!keyVars,
        VaultFault, NoVaultFault

(* A failed self-check is an alarm the promise allows for.                 *)
LEMMA AbortRefines ==
    ASSUME PluginInv, NEW c \in Calls, step[c] # "none", Abort(c),
           \/ VaultFault
           \/ step[c] = "decrypt" /\ ~Decryptable(ToDecrypt(c)) /\ NoVaultFault
    PROVE  Service!Fail(c) \/ Service!AnswerStatus(c) \/ Service!AnswerHealth(c)
<1> USE DEF Abort, Finish, Answer, Failed, Nothing
<1>1. /\ Pending(c) /\ CallOK(c) /\ HandlerHolds(c)
      /\ latest \in Nat /\ minDec \in Nat /\ keyId[c] \in 0..latest
      /\ req[c] # Nothing
  BY DEF PluginInv, CallInv, Pending, KeyInv
<1>2. CASE ~Checking(c) \/ step[c] = "statusKey"
  <2>1. Ask(c).kind # "health"
    BY <1>1, <1>2 DEF Checking, HandlerHolds
  <2>2. \/ VaultFault
        \/ /\ Ask(c).kind = "decrypt" /\ Ask(c).cipher.ver < minDec
           /\ NoVaultFault
    BY <1>1, <1>2
       DEF HandlerHolds, Checking, Decryptable, ToDecrypt, CallOK, Asks,
           Ciphers, Foreign
  <2>3. QED
    BY <1>1, <1>2, <2>1, <2>2 DEF Service!Fail, Pending, Ask
<1>3. CASE Checking(c) /\ step[c] # "statusKey"
  <2>1. VaultFault \/ (minDec > req[c].since /\ NoVaultFault)
    BY <1>1, <1>3 DEF HandlerHolds, Decryptable, ToDecrypt, CallOK
  <2>2. CASE Ask(c).kind = "status"
    <3>1. keyId[c] \in req[c].since..latest
      BY <1>1, <1>3, <2>2 DEF HandlerHolds, CallOK
    <3>2. Service!Answer(c, Service!Status(FALSE, keyId[c]))
      BY <1>3, <2>2 DEF Verdict, Status
    <3>3. QED
      BY <1>1, <2>1, <2>2, <3>1, <3>2 DEF Service!AnswerStatus, Pending, Ask
  <2>3. CASE Ask(c).kind = "health"
    <3>1. Service!Answer(c, Service!Probed(FALSE))
      BY <1>3, <2>3 DEF Verdict, Probed
    <3>2. QED
      BY <1>1, <2>1, <2>3, <3>1 DEF Service!AnswerHealth, Pending, Ask
  <2>4. QED
    BY <1>3, <2>2, <2>3 DEF Checking
<1>4. QED
  BY <1>2, <1>3

LEMMA ReadKeyVersionRefines ==
    ASSUME PluginInv, NEW c \in Calls, ReadKeyVersion(c)
    PROVE  Service!AnswerEncrypt(c) \/ UNCHANGED sharedVars
<1>1. CASE UNCHANGED sharedVars
  BY <1>1
<1>2. CASE /\ ~Checking(c)
           /\ Finish(c, Encrypted(sealed[c], IF Ask(c).api = "v2"
                                            THEN VersionRead(c) ELSE NoKeyId))
  <2>1. /\ Pending(c) /\ CallOK(c) /\ HandlerHolds(c) /\ sealed[c] \in Ciphers
        /\ step[c] = "keyVersion" /\ latest \in Nat /\ req[c] # Nothing
        /\ NoVaultFault
    BY <1>2 DEF ReadKeyVersion, At, PluginInv, CallInv, Pending, KeyInv
  <2>2. Ask(c).kind = "encrypt"
    BY <1>2, <2>1 DEF HandlerHolds, Checking
  <2>3. /\ sealed[c].ver \in req[c].since..latest
        /\ sealed[c].text = Encode(Ask(c).plain)
    BY <1>2, <2>1 DEF HandlerHolds, Checking, Plain
  <2>4. sealed[c] = Cipher(sealed[c].ver, Ask(c).plain)
    BY <2>1, <2>3 DEF Cipher, Ciphers, Foreign, CallOK
  <2>5. latest \in sealed[c].ver..latest
    BY <2>1, <2>3 DEF CallOK
  <2>6. Service!Answer(c, Service!Encrypted(
            Service!Cipher(sealed[c].ver, req[c].ask.plain),
            IF req[c].ask.api = "v2" THEN latest ELSE Service!NoKeyId))
    BY <1>2, <2>4 DEF Finish, Answer, Encrypted, VersionRead, NoKeyId, Ask, Cipher,
                      Encode
  <2>7. QED
    BY <2>1, <2>2, <2>3, <2>5, <2>6 DEF Service!AnswerEncrypt, Pending, Ask, Nothing
<1>3. QED
  BY <1>1, <1>2 DEF ReadKeyVersion

LEMMA TransitDecryptRefines ==
    ASSUME PluginInv, NEW c \in Calls, TransitDecrypt(c)
    PROVE  \/ Service!AnswerDecrypt(c) \/ Service!AnswerStatus(c)
           \/ Service!AnswerHealth(c) \/ Service!Fail(c)
           \/ UNCHANGED sharedVars
<1>1. /\ Pending(c) /\ CallOK(c) /\ HandlerHolds(c) /\ step[c] = "decrypt"
      /\ latest \in Nat /\ minDec \in Nat /\ keyId[c] \in 0..latest
      /\ req[c] # Nothing /\ NoVaultFault
  BY DEF TransitDecrypt, At, PluginInv, CallInv, Pending, KeyInv
<1>2. CASE ~Decryptable(ToDecrypt(c)) /\ Abort(c)
  BY <1>1, <1>2, AbortRefines
<1>3. CASE /\ Decryptable(ToDecrypt(c)) /\ ~Checking(c)
           /\ Finish(c, Decrypted(Plaintext(c)))
  <2>1. Ask(c).kind = "decrypt"
    BY <1>1, <1>3 DEF HandlerHolds, Checking
  <2>2. Ask(c).cipher.ver >= req[c].floor
    BY <1>1, <1>3, <2>1
       DEF Decryptable, ToDecrypt, CallOK, Asks, Ciphers, Foreign
  <2>3. Service!Answer(c, Service!Decrypted(Service!Decode(req[c].ask.cipher.text)))
    BY <1>3 DEF Finish, Answer, Decrypted, Plaintext, ToDecrypt, Decode, Ask
  <2>4. QED
    BY <1>1, <2>1, <2>2, <2>3 DEF Service!AnswerDecrypt, Pending, Ask, Nothing
<1>4. CASE Checking(c) /\ ConcludeCheck(c)
  <2>1. CASE UNCHANGED sharedVars
    BY <2>1
  <2>2. CASE Finish(c, Verdict(c, Plaintext(c) = Health))
    <3>1. Plaintext(c) = Health
      BY <1>1, <1>4 DEF HandlerHolds, Plaintext, ToDecrypt, Plain, Encode, Decode
    <3>2. CASE Ask(c).kind = "status"
      <4>1. keyId[c] \in req[c].since..latest
        BY <1>1, <3>2 DEF HandlerHolds, CallOK
      <4>2. Service!Answer(c, Service!Status(TRUE, keyId[c]))
        BY <2>2, <3>1, <3>2 DEF Finish, Answer, Verdict, Status
      <4>3. QED
        BY <1>1, <3>2, <4>1, <4>2 DEF Service!AnswerStatus, Pending, Ask, Nothing
    <3>3. CASE Ask(c).kind = "health"
      <4>1. Service!Answer(c, Service!Probed(TRUE))
        BY <2>2, <3>1, <3>3 DEF Finish, Answer, Verdict, Probed
      <4>2. QED
        BY <1>1, <3>3, <4>1 DEF Service!AnswerHealth, Pending, Ask, Nothing
    <3>4. QED
      BY <1>4, <3>2, <3>3 DEF Checking
  <2>3. QED
    BY <1>4, <2>1, <2>2 DEF ConcludeCheck, sharedVars
<1>5. QED
  BY <1>2, <1>3, <1>4 DEF TransitDecrypt

LEMMA NextRefines ==
    PluginInv /\ [Next]_vars => [Service!Next]_(Service!sharedVars)
<1> SUFFICES ASSUME PluginInv, Next PROVE Service!Next \/ UNCHANGED sharedVars
  BY DEF vars, sharedVars, Service!sharedVars
<1>1. ASSUME NEW c \in Calls, Handle(c)
      PROVE  Service!Next \/ UNCHANGED sharedVars
  <2>1. CASE ReadStatusKey(c) \/ TransitEncrypt(c)
    BY <2>1 DEF ReadStatusKey, TransitEncrypt
  <2>2. CASE ReadKeyVersion(c)
    BY <2>2, ReadKeyVersionRefines DEF Service!Next
  <2>3. CASE TransitDecrypt(c)
    BY <2>3, TransitDecryptRefines DEF Service!Next
  <2>4. CASE RequestFails(c)
    BY <2>4, AbortRefines DEF RequestFails, At, Service!Next
  <2>5. CASE EmptyAnswerPanics(c)
    <3>1. Pending(c) /\ req[c].ask.kind # "health"
      BY <2>5 DEF EmptyAnswerPanics, PluginInv, CallInv, Ask
    <3>2. Service!BreakOff
      BY <2>5 DEF EmptyAnswerPanics, BreakOff, BrokenOff, Pending, Failed, Probed,
         Nothing, Service!BreakOff, Service!BrokenOff
    <3>3. QED
      BY <2>5, <3>1, <3>2
         DEF EmptyAnswerPanics, Pending, Nothing, Service!Collapse, Service!Next
  <2>6. QED
    BY <1>1, <2>1, <2>2, <2>3, <2>4, <2>5 DEF Handle
<1>2. ASSUME NEW c \in Calls, NEW q \in Requests, Begin(c, q) PROVE Service!Next
  <2>1. q \in Service!Requests
    BY DEF Requests, EncryptRequests, DecryptRequests, StatusRequests,
           HealthRequests, Foreign, Service!Requests, Service!EncryptRequests,
           Service!DecryptRequests, Service!StatusRequests,
           Service!HealthRequests, Service!Foreign
  <2>2. Service!Begin(c, q)
    BY <1>2 DEF Begin, Call, Nothing, Service!Begin, Service!Call
  <2>3. QED
    BY <2>1, <2>2 DEF Service!Next
<1>3. CASE Environment
  <2>1. CASE Rotate \/ Retire
    BY <2>1 DEF Rotate, Retire, Service!Rotate, Service!Retire, Service!Next
  <2>2. ASSUME NEW c \in Calls, Take(c) PROVE Service!Next
    BY <2>2
       DEF Take, CarriesKeyId, NamesKey, NoKeyId, Nothing, Service!Take,
           Service!CarriesKeyId, Service!NamesKey, Service!Next
  <2>3. QED
    BY <1>3, <2>1, <2>2 DEF Environment
<1>4. QED
  BY <1>1, <1>2, <1>3 DEF Next

(* The handlers of the plugin keep the promise of KmsService, however the  *)
(* requests of concurrent calls, rotations and failures interleave.        *)
THEOREM Refinement == Spec => KeepsPromise
<1>1. Init => Service!Init
  BY DEF Init, SharedInit, Nothing, NoKeyId, Service!Init, Service!SharedInit
<1>2. QED
  BY <1>1, NextRefines, PluginInvariant, PTL DEF Spec, KeepsPromise, Service!Spec

=============================================================================
