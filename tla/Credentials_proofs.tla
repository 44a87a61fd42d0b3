------------------------- MODULE Credentials_proofs --------------------------
(***************************************************************************)
(* Proofs about Credentials for any number of generations and faults.      *)
(* Followed is what LoginsFollowRotation needs to be inductive: a login in *)
(* progress has read nothing older than what was whole when it began; the  *)
(* rotation only ever raises what lies on disk.                            *)
(***************************************************************************)
EXTENDS Credentials, TLAPS

Followed ==
    source # "certPem" =>
      /\ step \in {"key", "login"} => began <= got["cert"]
      /\ token # NoToken => token.began <= token.shown

Inv == TypeOK /\ Followed

(* Whole is the smaller generation of the two parts.                       *)
LEMMA WholeIsLeast ==
    ASSUME NEW n \in Nat, disk \in [Parts -> 1..n]
    PROVE  Whole \in 1..n /\ \A p \in Parts : Whole <= disk[p]
BY DEF Whole, Parts

(* A rotation moves no part back and keeps the parts together.             *)
LEMMA RotationAdvances ==
    ASSUME TypeOK, Rotate
    PROVE  /\ disk' \in [Parts -> Generation]
           /\ \A p \in Parts : disk'[p] \in {Whole', Whole' + 1}
           /\ Whole <= Whole'
<1>1. CASE \E p \in Parts : WriteFile(p)
  <2>1. PICK p \in Parts : WriteFile(p)
    BY <1>1
  <2>2. QED
    BY <2>1, CredentialsAssumption DEF WriteFile, TypeOK, Whole, Parts, Generation
<1>2. CASE Replace
  BY <1>2, CredentialsAssumption DEF Replace, TypeOK, Whole, Parts, Generation, Both
<1>3. QED
  BY <1>1, <1>2 DEF Rotate

(* What a login reads is a generation, and of any source but the copy of a *)
(* PEM file it is at least what is whole now.                              *)
LEMMA ReadIsCurrent ==
    ASSUME TypeOK, NEW p \in Parts
    PROVE  /\ File(p) \in 0..MaxGen
           /\ source # "certPem" => Whole <= File(p)
BY WholeIsLeast, CredentialsAssumption DEF TypeOK, File, Generation

THEOREM InitInv == Init => Inv
BY CredentialsAssumption
   DEF Init, Inv, TypeOK, Followed, Whole, Parts, Generation, Both, NoToken, Sources

(* The steps that leave the disk, and with it Whole, alone.                *)
LEMMA WholeStays ==
    ASSUME disk' = disk
    PROVE  Whole' = Whole
BY DEF Whole

(* A failed login keeps the invariant.                                     *)
LEMMA FailKeeps ==
    ASSUME Inv, Fail, step # "idle", faultsLeft' \in 0..MaxFaults
    PROVE  Inv'
<1>1. Whole' = Whole
  BY WholeStays DEF Fail, outside
<1>2. TypeOK'
  BY <1>1 DEF Inv, TypeOK, Fail, outside
<1>3. Followed'
  BY <1>1 DEF Inv, Followed, Fail, outside
<1>4. QED
  BY <1>2, <1>3 DEF Inv

THEOREM StepInv == Inv /\ [Next]_vars => Inv'
<1> SUFFICES ASSUME Inv, [Next]_vars
             PROVE  Inv'
    OBVIOUS
<1> USE CredentialsAssumption
<1>1. TypeOK /\ Followed /\ Whole \in 1..MaxGen /\ began \in Nat
  BY WholeIsLeast DEF Inv, TypeOK, Generation
<1>2. CASE Rotate
  <2>1. /\ disk' \in [Parts -> Generation]
        /\ \A p \in Parts : disk'[p] \in {Whole', Whole' + 1}
        /\ Whole <= Whole' /\ Whole' \in 1..MaxGen
    BY <1>1, <1>2, RotationAdvances, WholeIsLeast DEF Generation, Whole, Parts
  <2>2. UNCHANGED <<source, probed, expired, copy, run, step, got, began, token, faultsLeft>>
    BY <1>2 DEF Rotate
  <2>3. TypeOK'
    BY <1>1, <2>1, <2>2 DEF TypeOK
  <2>4. Followed'
    BY <1>1, <2>2 DEF Followed
  <2>5. QED
    BY <2>3, <2>4 DEF Inv
<1>3. CASE Expire
  <2>1. Whole' = Whole
    BY <1>3, WholeStays DEF Expire
  <2>2. TypeOK'
    BY <1>1, <1>3, <2>1 DEF Expire, TypeOK, Generation
  <2>3. Followed'
    BY <1>1, <1>3, <2>1 DEF Expire, Followed
  <2>4. QED
    BY <2>2, <2>3 DEF Inv
<1>4. CASE Fault
  <2>1. faultsLeft' \in 0..MaxFaults
    BY <1>1, <1>4 DEF Fault, TypeOK
  <2>2. QED
    BY <1>4, <2>1, FailKeeps DEF Fault
<1>5. CASE Start
  <2>1. Whole' = Whole
    BY <1>5, WholeStays DEF Start, outside
  <2>2. TypeOK'
    BY <1>1, <1>5, <2>1 DEF Start, outside, TypeOK, Split, Both, FirstStep, Generation
  <2>3. Followed'
    BY <1>1, <1>5, <2>1 DEF Start, outside, TypeOK, Followed, FirstStep
  <2>4. QED
    BY <2>2, <2>3 DEF Inv
<1>6. CASE LogIn
  <2>1. Whole' = Whole
    BY <1>6, WholeStays DEF LogIn, outside
  <2>2. TypeOK'
    BY <1>1, <1>6, <2>1 DEF LogIn, outside, TypeOK, FirstStep, Generation
  <2>3. Followed'
    BY <1>1, <1>6, <2>1 DEF LogIn, outside, Followed, FirstStep
  <2>4. QED
    BY <2>2, <2>3 DEF Inv
<1>7. CASE ReadCert
  <2>1. Whole' = Whole
    BY <1>7, WholeStays DEF ReadCert, outside
  <2>2. File("cert") \in 0..MaxGen /\ (source # "certPem" => Whole <= File("cert"))
    BY <1>1, ReadIsCurrent DEF Parts
  <2>3. TypeOK'
    BY <1>1, <1>7, <2>1, <2>2 DEF ReadCert, outside, TypeOK, Parts
  <2>4. Followed'
    BY <1>1, <1>7, <2>1, <2>2 DEF ReadCert, outside, TypeOK, Followed, Parts
  <2>5. QED
    BY <2>3, <2>4 DEF Inv
<1>8. CASE ReadKey
  <2>1. CASE Fail
    <3>1. step # "idle" /\ faultsLeft' \in 0..MaxFaults
      BY <1>1, <1>8 DEF ReadKey, TypeOK
    <3>2. QED
      BY <2>1, <3>1, FailKeeps
  <2>2. CASE ~Fail
    <3>1. Whole' = Whole
      BY <1>8, <2>2, WholeStays DEF ReadKey, outside
    <3>2. File("key") \in 0..MaxGen
      BY <1>1, ReadIsCurrent DEF Parts
    <3>3. TypeOK'
      BY <1>1, <1>8, <2>2, <3>1, <3>2 DEF ReadKey, outside, TypeOK, Parts
    <3>4. Followed'
      BY <1>1, <1>8, <2>2, <3>1 DEF ReadKey, outside, TypeOK, Followed, Parts
    <3>5. QED
      BY <3>3, <3>4 DEF Inv
  <2>3. QED
    BY <2>1, <2>2
<1>9. CASE ReadToken
  <2>1. Whole' = Whole
    BY <1>9, WholeStays DEF ReadToken, outside
  <2>2. File("cert") \in 0..MaxGen /\ (source # "certPem" => Whole <= File("cert"))
    BY <1>1, ReadIsCurrent DEF Parts
  <2>3. TypeOK'
    BY <1>1, <1>9, <2>1, <2>2 DEF ReadToken, outside, TypeOK, Both
  <2>4. Followed'
    BY <1>1, <1>9, <2>1, <2>2 DEF ReadToken, outside, TypeOK, Followed, Both, Parts
  <2>5. QED
    BY <2>3, <2>4 DEF Inv
<1>10. CASE Answer
  <2>1. CASE Fail
    <3>1. step # "idle" /\ faultsLeft' \in 0..MaxFaults
      BY <1>1, <1>10 DEF Answer, TypeOK
    <3>2. QED
      BY <2>1, <3>1, FailKeeps
  <2>2. CASE ~Fail
    <3>1. Whole' = Whole
      BY <1>10, <2>2, WholeStays DEF Answer, outside
    <3>2. TypeOK'
      BY <1>1, <1>10, <2>2, <3>1 DEF Answer, outside, TypeOK, Parts
    <3>3. Followed'
      BY <1>1, <1>10, <2>2, <3>1 DEF Answer, outside, TypeOK, Followed
    <3>4. QED
      BY <3>2, <3>3 DEF Inv
  <2>3. QED
    BY <2>1, <2>2
<1>11. CASE Lose \/ Restart
  <2>1. Whole' = Whole
    BY <1>11, WholeStays DEF Lose, Restart, outside
  <2>2. TypeOK'
    BY <1>1, <1>11, <2>1 DEF Lose, Restart, outside, TypeOK, NoToken
  <2>3. Followed'
    BY <1>1, <1>11, <2>1 DEF Lose, Restart, outside, Followed
  <2>4. QED
    BY <2>2, <2>3 DEF Inv
<1>12. CASE UNCHANGED vars
  BY <1>1, <1>12 DEF vars, outside, Inv, TypeOK, Followed, Whole
<1>13. QED
  BY <1>2, <1>3, <1>4, <1>5, <1>6, <1>7, <1>8, <1>9, <1>10, <1>11, <1>12
     DEF Next, Proceed

(* The inductive invariant holds in every reachable state.                 *)
THEOREM Invariant == Spec => []Inv
<1>1. Init => Inv
  BY InitInv
<1>2. Inv /\ [Next]_vars => Inv'
  BY StepInv
<1>3. QED
  BY <1>1, <1>2, PTL DEF Spec

(* Every state is typed, however rotation, logins and restarts interleave. *)
THEOREM TypeCorrect == Spec => []TypeOK
<1>1. Inv => TypeOK
  BY DEF Inv
<1>2. QED
  BY <1>1, Invariant, PTL

(* jwt.go:67-68 and docs/configuration.md:97 for the sources that are read *)
(* at every login: WithCertAuth and withJWTTokenSource never log in with a *)
(* credential older than the one on disk when the login began.             *)
THEOREM FollowsRotation == Spec => []LoginsFollowRotation
<1>1. Inv => LoginsFollowRotation
  BY CredentialsAssumption DEF Inv, TypeOK, Followed, LoginsFollowRotation
<1>2. QED
  BY <1>1, Invariant, PTL

=============================================================================
