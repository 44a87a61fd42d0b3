------------------------------ MODULE Pod_proofs ------------------------------
(***************************************************************************)
(* Theorems about Pod, for any number of runs, outages, crashes and failed *)
(* probes.  To the runs, every step of the pod but Forget is a step of the *)
(* life cycle or none, so the invariants of the life cycle hold here too.  *)
(***************************************************************************)
EXTENDS Pod, PluginLifecycle_proofs, FiniteSetTheorems

(* Only one run is alive, so none ever overlaps another.                   *)
NeverOverlapped == overlapped = {}

(* Only a serving run listens on the health port.                          *)
PortOK == \A r \in Runs : port = r => phase[r] = "serving"

PodVarsOK ==
    /\ forceFlag \in BOOLEAN /\ vaultUp \in BOOLEAN /\ foreign \in BOOLEAN
    /\ failures \in 0..FailureThreshold
    /\ outages \in 0..MaxOutages /\ intrusions \in 0..MaxIntrusions
    /\ crashes \in 0..MaxCrashes

RunInv == Inv /\ SoloOK /\ PathHeld /\ NeverOverlapped /\ PortOK
PodInv == RunInv /\ PodVarsOK

USE LifecycleAssumption, PodAssumption
    DEF LifecycleAssumption, PodAssumption, None, Runs, Alive, Phases, Exits, Up,
        Returned, CutShort

LEMMA PodInvInit == PodInit => PodInv
<1> SUFFICES ASSUME PodInit PROVE PodInv
  OBVIOUS
<1>1. Inv
  BY InvInit DEF PodInit
<1>2. SoloOK /\ PathHeld /\ NeverOverlapped /\ PortOK
  BY DEF PodInit, Init, SoloOK, SoloListens, Solo, SmoothRedeployment, PathHeld,
     NeverOverlapped, PortOK
<1>3. PodVarsOK
  <2>1. outages \in 0..MaxOutages /\ intrusions \in 0..MaxIntrusions
    BY DEF PodInit
  <2>2. crashes \in 0..MaxCrashes /\ failures \in 0..FailureThreshold
    BY DEF PodInit
  <2> QED BY <2>1, <2>2 DEF PodInit, PodVarsOK
<1> QED BY <1>1, <1>2, <1>3 DEF PodInv, RunInv

(* The kubelet starts a container when none runs.                          *)
LEMMA StartsAlone ==
    ASSUME NEW r \in Runs, Start(r) PROVE Alive = {}
<1>1. IsFiniteSet(Runs)
  BY FS_Interval
<1>2. IsFiniteSet(Alive)
  BY <1>1, FS_Subset
<1>3. Cardinality(Alive) = 0
  BY <1>2, FS_CardinalityType DEF Start
<1> QED BY <1>2, <1>3, FS_EmptySet

(* A run that is alive is the only one.                                    *)
LEMMA Alone ==
    ASSUME RunInv, NEW r \in Alive PROVE Alive = {r}
<1>1. r \in Runs /\ Solo(r)
  BY DEF RunInv, NeverOverlapped, Solo
<1>2. \A q \in Runs : q # r => q \notin Alive
  BY <1>1 DEF RunInv, SoloOK, SoloListens
<1> QED BY <1>2

(* Steps of the life cycle.                                                *)
LEMMA RunStep == ASSUME RunInv, [Next]_vars PROVE RunInv'
<1>1. Inv' /\ SoloOK' /\ PathHeld'
  BY InvStep, SoloStep, PathHeldStep DEF RunInv
<1>2. NeverOverlapped' /\ PortOK'
  <2>1. ASSUME NEW r \in Runs, Start(r) PROVE NeverOverlapped' /\ PortOK'
    BY <2>1, StartsAlone
       DEF RunInv, Inv, TypeOK, NeverOverlapped, PortOK, Start, fileVars
  <2>2. ASSUME NEW r \in Runs, NEW how \in Exits, Die(r, how)
        PROVE  NeverOverlapped' /\ PortOK'
    BY <2>2 DEF RunInv, Inv, TypeOK, NeverOverlapped, PortOK, Die
  <2>3. ASSUME NEW r \in Runs, NEW p \in Phases, phase[r] # "serving",
               Goto(r, p), port' = port
        PROVE  NeverOverlapped' /\ PortOK'
    BY <2>3 DEF RunInv, Inv, TypeOK, NeverOverlapped, PortOK, Goto
  <2>4. ASSUME NEW r \in Runs,
               \/ WriteCert(r) \/ WriteKey(r) \/ Login(r)
               \/ StatSocket(r) \/ RemoveSocket(r) \/ BindSocket(r)
               \/ HealthStopped(r) \/ Drained(r) \/ Kill(r)
               \/ PortRefused(r) \/ ServeFails(r)
        PROVE  NeverOverlapped' /\ PortOK'
    BY <2>2, <2>3, <2>4
       DEF PortRefused, ServeFails, CloseAndDie, WriteCert, WriteKey, TempFile, Login, StatSocket, RemoveSocket, BindSocket,
           HealthStopped, DrainRpcs, Drained, Kill, Fatal, Return, fileVars
  <2>5. ASSUME NEW r \in Runs, StopHealth(r) PROVE NeverOverlapped' /\ PortOK'
    BY <2>5 DEF RunInv, Inv, TypeOK, NeverOverlapped, PortOK, StopHealth, Goto
  <2>6. ASSUME NEW r \in Runs, ListenHealth(r) PROVE NeverOverlapped' /\ PortOK'
    BY <2>2, <2>6 DEF RunInv, NeverOverlapped, PortOK, ListenHealth, Fatal, procVars
  <2>7. ASSUME NEW r \in Runs,
               Receive(r) \/ Respond(r) \/ Probe(r) \/ ProbeDone(r) \/ Signal(r)
        PROVE  NeverOverlapped' /\ PortOK'
    BY <2>7 DEF RunInv, NeverOverlapped, PortOK, Receive, Respond, Probe, ProbeDone,
       Signal, procVars, fileVars
  <2>8. CASE UNCHANGED vars
    BY <2>8 DEF RunInv, NeverOverlapped, PortOK, vars, procVars, fileVars
  <2> QED BY <2>1, <2>4, <2>5, <2>6, <2>7, <2>8 DEF Next, Main
<1> QED BY <1>1, <1>2 DEF RunInv

(* The pod forgets a run that ended: no live run notices.                  *)
LEMMA ForgetStep == ASSUME RunInv, NEW r \in Runs, Forget(r) PROVE RunInv'
<1>1. /\ phase[r] = "ended" /\ path # r
      /\ phase' = [phase EXCEPT ![r] = "off"] /\ exit' = [exit EXCEPT ![r] = "none"]
      /\ forced' = forced \ {r}
      /\ UNCHANGED <<ctxDone, overlapped, path, listening, port, tmp, inflight, probing>>
  BY DEF Forget, fileVars
<1>2. TypeOK'
  BY <1>1 DEF RunInv, Inv, TypeOK
<1>3. ListenersOK' /\ PathOK' /\ KeysOK'
  BY <1>1 DEF RunInv, Inv, TypeOK, ListenersOK, PathOK, KeysOK, TempFiles
<1>4. SoloOK'
  BY <1>1 DEF RunInv, Inv, TypeOK, SoloOK, SoloListens, Solo, SmoothRedeployment
<1>5. PathHeld' /\ NeverOverlapped' /\ PortOK'
  BY <1>1 DEF RunInv, Inv, TypeOK, PathHeld, Evicted, NeverOverlapped, PortOK
<1> QED BY <1>2, <1>3, <1>4, <1>5 DEF RunInv, Inv

(* Whatever happens to the pod, its runs make a step of the life cycle or  *)
(* are forgotten.                                                          *)
LEMMA PodSteps ==
    [PodNext]_allVars => [Next]_vars \/ \E r \in Runs : Forget(r)
<1> SUFFICES ASSUME [PodNext]_allVars PROVE [Next]_vars \/ \E r \in Runs : Forget(r)
  OBVIOUS
<1>1. CASE VaultGoes \/ VaultReturns \/ PortTaken \/ PortFreed \/ UNCHANGED allVars
  BY <1>1 DEF VaultGoes, VaultReturns, PortTaken, PortFreed, allVars
<1>2. ASSUME NEW r \in Runs,
             \/ StartContainer(r) \/ StopContainer(r) \/ KillContainer(r)
             \/ KubeletAsks(r) \/ HealthAnswer(r) \/ ProbeMissesRun(r)
      PROVE  [Next]_vars
  BY <1>2 DEF StartContainer, StopContainer, KillContainer, KubeletAsks, HealthAnswer,
     ProbeMissesRun, Next
<1>3. ASSUME NEW r \in Runs, Process(r) \/ Listens(r) \/ Works(r) \/ Crash(r)
      PROVE  [Next]_vars
  BY <1>3 DEF Process, LogsIn, Listens, Works, Crash, Next, Main
<1> QED BY <1>1, <1>2, <1>3 DEF PodNext

LEMMA PodVarsStep == ASSUME PodVarsOK, [PodNext]_allVars PROVE PodVarsOK'
<1> USE DEF podVars, budgets
<1>1. CASE VaultGoes \/ VaultReturns \/ PortTaken \/ PortFreed \/ UNCHANGED allVars
  <2>1. CASE VaultGoes
    <3>1. outages' \in 0..MaxOutages
      BY <2>1 DEF PodVarsOK, VaultGoes
    <3> QED BY <2>1, <3>1 DEF PodVarsOK, VaultGoes
  <2>2. CASE PortTaken
    <3>1. intrusions' \in 0..MaxIntrusions
      BY <2>2 DEF PodVarsOK, PortTaken
    <3> QED BY <2>2, <3>1 DEF PodVarsOK, PortTaken
  <2>3. CASE VaultReturns \/ PortFreed
    BY <2>3 DEF PodVarsOK, VaultReturns, PortFreed
  <2>4. CASE UNCHANGED allVars
    BY <2>4 DEF PodVarsOK, allVars
  <2> QED BY <1>1, <2>1, <2>2, <2>3, <2>4
<1>2. ASSUME NEW r \in Runs,
             \/ StartContainer(r) \/ StopContainer(r) \/ KillContainer(r) \/ Forget(r)
             \/ KubeletAsks(r) \/ HealthAnswer(r) \/ ProbeMissesRun(r)
      PROVE  PodVarsOK'
  BY <1>2 DEF PodVarsOK, StartContainer, StopContainer, KillContainer, Forget, KubeletAsks,
     HealthAnswer, ProbeMissesRun, Count
<1>3. ASSUME NEW r \in Runs, Process(r) \/ Listens(r) \/ Works(r) PROVE PodVarsOK'
  BY <1>3 DEF PodVarsOK, Process, Listens, Works
<1>4. ASSUME NEW r \in Runs, Crash(r) PROVE PodVarsOK'
  <2>1. crashes' \in 0..MaxCrashes
    BY <1>4 DEF PodVarsOK, Crash
  <2> QED BY <1>4, <2>1 DEF PodVarsOK, Crash
<1> QED BY <1>1, <1>2, <1>3, <1>4 DEF PodNext

LEMMA PodStep == PodInv /\ [PodNext]_allVars => PodInv'
<1> SUFFICES ASSUME PodInv, [PodNext]_allVars PROVE PodInv'
  OBVIOUS
<1>1. RunInv'
  BY PodSteps, RunStep, ForgetStep DEF PodInv
<1>2. PodVarsOK'
  BY PodVarsStep DEF PodInv
<1> QED BY <1>1, <1>2 DEF PodInv

LEMMA PodInvariant == PodSpec => []PodInv
BY PodInvInit, PodStep, PTL DEF PodSpec

(* The kubelet never has two runs of the plugin alive at once, and the     *)
(* state of the pod is well typed.                                         *)
THEOREM PodTypeCorrect == PodSpec => []PodTypeOK
<1>1. PodInv => PodTypeOK
  <2> SUFFICES ASSUME PodInv PROVE PodTypeOK
    OBVIOUS
  <2>1. Cardinality(Alive) <= 1
    <3>1. CASE Alive = {}
      BY <3>1, FS_EmptySet
    <3>2. ASSUME NEW r \in Alive PROVE Cardinality(Alive) <= 1
      <4>1. Alive = {r}
        BY Alone DEF PodInv
      <4>2. Cardinality(Alive) = 1
        BY <4>1, FS_Singleton, Zenon
      <4> QED BY <4>2
    <3> QED BY <3>1, <3>2
  <2> QED BY <2>1 DEF PodInv, PodVarsOK, RunInv, Inv, PodTypeOK
<1> QED BY <1>1, PodInvariant, PTL

(* A run that answers the probes of the kubelet is reachable at the socket *)
(* path, after any outages, crashes and restarts (plugin.go:296-376).      *)
THEOREM HealthyServes == PodSpec => []HealthyIsReachable
<1>1. PodInv => HealthyIsReachable
  BY DEF PodInv, RunInv, NeverOverlapped, PortOK, PathHeld, Evicted, HealthyIsReachable
<1> QED BY <1>1, PodInvariant, PTL

-----------------------------------------------------------------------------
(* The socket of the pod: a run is forced exactly when the manifest sets   *)
(* the flag, and only a run that was cut off leaves a stale file.          *)
FlagOK ==
    \A r \in Runs : IF phase[r] = "off" THEN r \notin forced
                                        ELSE r \in forced <=> forceFlag

SocketInv == FlagOK /\ OnlyCutOffsBlock

(* An open listener has the path, and the path of nobody alive is stale.   *)
LEMMA PathOwner ==
    ASSUME RunInv
    PROVE  /\ \A r \in listening : path = r
           /\ path \in Alive => path \in listening
           /\ SocketAt = IF path = None THEN "none"
                         ELSE IF path \in Alive THEN "live" ELSE "stale"
<1>1. \A r \in listening : path = r
  BY DEF RunInv, Inv, TypeOK, ListenersOK, PathHeld, Evicted, NeverOverlapped
<1>2. path \in Alive => path \in listening
  BY DEF RunInv, Inv, TypeOK, PathOK
<1>3. listening \subseteq Alive
  BY DEF RunInv, Inv, TypeOK
<1> QED BY <1>1, <1>2, <1>3 DEF SocketAt

(* What a step of the pod has to show.                                     *)
SocketStep == SocketInv' /\ [Socket!Next]_(Socket!socketVars)

(* Steps that neither start nor end a run, nor touch the socket.           *)
LEMMA QuietStep ==
    ASSUME PodInv, PodInv', SocketInv,
           \A r \in Runs : phase'[r] = "off" <=> phase[r] = "off",
           \A r \in Runs : phase'[r] = "ended" <=> phase[r] = "ended",
           UNCHANGED <<exit, forced, path, listening, forceFlag>>
    PROVE  SocketStep
<1>1. Alive' = Alive
  OBVIOUS
<1>2. SocketInv'
  BY <1>1 DEF SocketInv, FlagOK, OnlyCutOffsBlock, Blocked
<1>3. UNCHANGED Socket!socketVars
  BY <1>1 DEF Socket!socketVars, SocketAt
<1> QED BY <1>2, <1>3 DEF SocketStep

LEMMA GotoQuiet ==
    ASSUME PodInv, PodInv', SocketInv, NEW r \in Alive, NEW p \in Phases \ {"off", "ended"},
           Goto(r, p), UNCHANGED <<path, listening, forceFlag>>
    PROVE  SocketStep
<1>1. phase' = [phase EXCEPT ![r] = p] /\ UNCHANGED <<exit, forced>>
  BY DEF Goto
<1>2. phase \in [Runs -> Phases]
  BY DEF PodInv, RunInv, Inv, TypeOK
<1> QED BY <1>1, <1>2, QuietStep

LEMMA StartSocket ==
    ASSUME PodInv, PodInv', SocketInv, NEW r \in Runs, StartContainer(r)
    PROVE  SocketStep
<1>1. /\ phase[r] = "off" /\ phase' = [phase EXCEPT ![r] = "login"]
      /\ forced' = IF forceFlag THEN forced \cup {r} ELSE forced
      /\ UNCHANGED <<exit, path, listening, forceFlag>>
  BY DEF StartContainer, Start, fileVars
<1>2. Alive = {} /\ Alive' = {r}
  <2>1. Alive = {}
    BY StartsAlone DEF StartContainer
  <2> QED BY <1>1, <2>1 DEF PodInv, RunInv, Inv, TypeOK
<1>3. path # r
  BY <1>1 DEF PodInv, RunInv, Inv, TypeOK, PathOK
<1>4. SocketInv'
  <2>1. FlagOK'
    BY <1>1 DEF SocketInv, FlagOK, PodInv, RunInv, Inv, TypeOK
  <2>2. OnlyCutOffsBlock'
    BY <1>1, <1>2, <1>3 DEF SocketInv, OnlyCutOffsBlock, Blocked
  <2> QED BY <2>1, <2>2 DEF SocketInv
<1>5. SocketAt' = SocketAt
  BY <1>1 DEF SocketAt
<1>6. Socket!Start
  BY <1>1, <1>2, <1>5 DEF Socket!Start
<1> QED BY <1>4, <1>6 DEF SocketStep, Socket!Next

LEMMA RemoveQuiet ==
    ASSUME PodInv, PodInv', SocketInv, NEW r \in Runs, RemoveSocket(r), UNCHANGED forceFlag
    PROVE  SocketStep
<1>1. r \in Alive /\ Alive = {r} /\ phase[r] = "remove"
  BY Alone DEF RemoveSocket, PodInv
<1>2. path # None
  BY <1>1 DEF PodInv, RunInv, SoloOK, SoloListens, Solo, NeverOverlapped
<1>3. /\ phase' = [phase EXCEPT ![r] = "listen"] /\ path' = None
      /\ UNCHANGED <<exit, forced, listening>>
  BY <1>2 DEF RemoveSocket, Goto
<1>4. Alive' = {r}
  BY <1>1, <1>3 DEF PodInv, RunInv, Inv, TypeOK
<1>5. r \in forced
  BY <1>1 DEF PodInv, RunInv, PathHeld
<1>6. forceFlag
  BY <1>1, <1>5 DEF SocketInv, FlagOK
<1>7. SocketInv'
  <2>1. FlagOK'
    BY <1>1, <1>3 DEF SocketInv, FlagOK, PodInv, RunInv, Inv, TypeOK
  <2>2. OnlyCutOffsBlock'
    BY <1>3, <1>6 DEF SocketInv, OnlyCutOffsBlock, Blocked
  <2> QED BY <2>1, <2>2 DEF SocketInv
<1>8. r \notin listening
  BY <1>1 DEF PodInv, RunInv, Inv, ListenersOK
<1>9. SocketAt = "stale" /\ SocketAt' = "none"
  BY <1>1, <1>2, <1>3, <1>8 DEF SocketAt, PodInv, RunInv, Inv, TypeOK
<1>10. Socket!Overwrite
  BY <1>1, <1>4, <1>6, <1>9 DEF Socket!Overwrite
<1> QED BY <1>7, <1>10 DEF SocketStep, Socket!Next

(* A run ends: only when it is cut off may its socket be open.             *)
LEMMA FatalSocketStep ==
    ASSUME PodInv, PodInv', SocketInv, NEW r \in Alive, NEW how \in CutShort,
           Fatal(r, how), UNCHANGED forceFlag,
           how \notin CutOff => r \notin listening,
           how = "fatalSocket" => Blocked
    PROVE  SocketStep
<1>1. /\ phase' = [phase EXCEPT ![r] = "ended"] /\ exit' = [exit EXCEPT ![r] = how]
      /\ listening' = listening \ {r} /\ UNCHANGED <<forced, path>>
  BY DEF Fatal, Die
<1> phase \in [Runs -> Phases] /\ exit \in [Runs -> Exits] /\ path \in Runs \cup {None}
  BY DEF PodInv, RunInv, Inv, TypeOK
<1>2. Alive = {r} /\ Alive' = {} /\ exit[r] = "none"
  <2>1. Alive = {r}
    BY Alone DEF PodInv
  <2>2. Alive' = Alive \ {r}
    BY <1>1
  <2>3. exit[r] = "none"
    BY DEF PodInv, RunInv, Inv, TypeOK
  <2> QED BY <2>1, <2>2, <2>3
<1>3. SocketInv'
  <2>1. FlagOK'
    BY <1>1 DEF SocketInv, FlagOK, PodInv, RunInv, Inv, TypeOK
  <2>2. path \notin {None, r} => exit'[path] \in CutOff
    BY <1>1, <1>2 DEF SocketInv, OnlyCutOffsBlock, CutOff
  <2>3. path = r => exit'[r] \in CutOff
    BY <1>1, <1>2, PathOwner DEF PodInv
  <2>4. \A q \in Runs : exit'[q] = "fatalSocket" => Blocked
    BY <1>1 DEF SocketInv, OnlyCutOffsBlock
  <2>5. Blocked => Blocked'
    BY <1>1, <1>2 DEF Blocked
  <2>6. path' \notin Alive' \cup {None} => exit'[path'] \in CutOff
    BY <1>1, <2>2, <2>3
  <2>7. \A q \in Runs : exit'[q] = "fatalSocket" => Blocked'
    BY <1>1, <2>4, <2>5
  <2> QED BY <2>1, <2>6, <2>7 DEF SocketInv, OnlyCutOffsBlock, CutOff
<1>4. SocketAt' \in IF SocketAt = "live" THEN {"none", "stale"} ELSE {SocketAt}
  BY <1>1, <1>2, PathOwner DEF SocketAt, PodInv
<1>5. Socket!End
  BY <1>2, <1>4 DEF Socket!End
<1> QED BY <1>3, <1>5 DEF SocketStep, Socket!Next

LEMMA ReturnSocketStep ==
    ASSUME PodInv, PodInv', SocketInv, NEW r \in Alive,
           NEW how \in Returned \cup {"fatalServe"},
           Return(r, how) \/ CloseAndDie(r, how), UNCHANGED forceFlag
    PROVE  SocketStep
<1>1. /\ phase' = [phase EXCEPT ![r] = "ended"] /\ exit' = [exit EXCEPT ![r] = how]
      /\ listening' = listening \ {r} /\ path' = Unlinked(r) /\ UNCHANGED forced
  BY DEF Return, CloseAndDie, Die
<1> phase \in [Runs -> Phases] /\ exit \in [Runs -> Exits] /\ path \in Runs \cup {None}
  BY DEF PodInv, RunInv, Inv, TypeOK
<1>2. Alive = {r} /\ Alive' = {} /\ exit[r] = "none"
  <2>1. Alive = {r}
    BY Alone DEF PodInv
  <2>2. Alive' = Alive \ {r}
    BY <1>1
  <2>3. exit[r] = "none"
    BY DEF PodInv, RunInv, Inv, TypeOK
  <2> QED BY <2>1, <2>2, <2>3
<1>3. path' = IF path = r THEN None ELSE path
  BY <1>1, PathOwner DEF Unlinked, PodInv
<1>4. SocketInv'
  <2>1. FlagOK'
    BY <1>1 DEF SocketInv, FlagOK, PodInv, RunInv, Inv, TypeOK
  <2>2. path' # None => exit'[path'] \in CutOff
    BY <1>1, <1>2, <1>3 DEF SocketInv, OnlyCutOffsBlock, CutOff
  <2>3. \A q \in Runs : exit'[q] = "fatalSocket" => Blocked
    BY <1>1 DEF SocketInv, OnlyCutOffsBlock
  <2>4. Blocked => Blocked'
    BY <1>2, <1>3 DEF Blocked
  <2> QED BY <1>2, <2>1, <2>2, <2>3, <2>4 DEF SocketInv, OnlyCutOffsBlock, CutOff
<1>5. SocketAt' \in IF SocketAt = "live" THEN {"none", "stale"} ELSE {SocketAt}
  BY <1>1, <1>2, <1>3, PathOwner DEF SocketAt, PodInv
<1>6. Socket!End
  BY <1>2, <1>5 DEF Socket!End
<1> QED BY <1>4, <1>6 DEF SocketStep, Socket!Next

LEMMA BindSocketStep ==
    ASSUME PodInv, PodInv', SocketInv, NEW r \in Runs, BindSocket(r), UNCHANGED forceFlag
    PROVE  SocketStep
<1>1. r \in Alive /\ Alive = {r} /\ phase[r] = "listen"
  BY Alone DEF BindSocket, PodInv
<1>2. r \notin listening
  BY <1>1 DEF PodInv, RunInv, Inv, ListenersOK
<1>3. CASE path # None
  <2>1. r \notin forced
    BY <1>1, <1>3 DEF PodInv, RunInv, SoloOK, SoloListens, Solo, NeverOverlapped
  <2>2. path \notin Alive
    BY <1>1, <1>2, PathOwner DEF PodInv
  <2>3. Blocked
    BY <1>1, <1>3, <2>1, <2>2 DEF Blocked, SocketInv, FlagOK, PodInv, PodVarsOK
  <2> QED BY <1>1, <1>2, <1>3, <2>3, FatalSocketStep DEF BindSocket
<1>4. CASE path = None
  <2>1. /\ phase' = [phase EXCEPT ![r] = "serving"] /\ path' = r
        /\ listening' = listening \cup {r} /\ UNCHANGED <<exit, forced>>
    BY <1>4 DEF BindSocket, Goto
  <2>2. Alive' = {r}
    BY <1>1, <2>1 DEF PodInv, RunInv, Inv, TypeOK
  <2>3. FlagOK'
    BY <1>1, <2>1 DEF SocketInv, FlagOK, PodInv, RunInv, Inv, TypeOK
  <2>4. OnlyCutOffsBlock'
    BY <1>4, <2>1, <2>2 DEF SocketInv, OnlyCutOffsBlock, Blocked
  <2>5. SocketAt = "none" /\ SocketAt' = "live"
    <3>1. path' # None /\ path' \in listening'
      BY <2>1
    <3>2. None \notin listening
      BY DEF PodInv, RunInv, Inv, TypeOK
    <3> QED BY <1>4, <3>1, <3>2 DEF SocketAt
  <2>6. Socket!Bind
    BY <1>1, <2>2, <2>5 DEF Socket!Bind
  <2> QED BY <2>3, <2>4, <2>6 DEF SocketStep, SocketInv, Socket!Next
<1> QED BY <1>3, <1>4

LEMMA DrainSocketStep ==
    ASSUME PodInv, PodInv', SocketInv, NEW r \in Runs, phase[r] = "httpShutdown",
           DrainRpcs(r), UNCHANGED forceFlag
    PROVE  SocketStep
<1>1. r \in Alive /\ Alive = {r} /\ r \in listening /\ path = r
  BY Alone, PathOwner DEF PodInv, RunInv, Inv, ListenersOK
<1>2. /\ phase' = [phase EXCEPT ![r] = "draining"] /\ path' = None
      /\ UNCHANGED <<exit, forced>>
  BY <1>1 DEF DrainRpcs, Goto, Unlinked
<1>3. Alive' = {r}
  BY <1>1, <1>2 DEF PodInv, RunInv, Inv, TypeOK
<1>4. FlagOK'
  BY <1>1, <1>2 DEF SocketInv, FlagOK, PodInv, RunInv, Inv, TypeOK
<1>5. OnlyCutOffsBlock'
  BY <1>1, <1>2 DEF SocketInv, OnlyCutOffsBlock, Blocked
<1>6. SocketAt = "live" /\ SocketAt' = "none"
  <2>1. path # None /\ path \in listening
    BY <1>1
  <2>2. None \notin listening'
    BY DEF PodInv, RunInv, Inv, TypeOK
  <2> QED BY <1>2, <2>1, <2>2 DEF SocketAt
<1>7. Socket!Close
  BY <1>1, <1>3, <1>6 DEF Socket!Close
<1> QED BY <1>4, <1>5, <1>7 DEF SocketStep, SocketInv, Socket!Next

LEMMA ForgetQuiet ==
    ASSUME PodInv, PodInv', SocketInv, NEW r \in Runs, Forget(r) PROVE SocketStep
<1>1. /\ phase[r] = "ended" /\ path # r
      /\ phase' = [phase EXCEPT ![r] = "off"] /\ exit' = [exit EXCEPT ![r] = "none"]
      /\ forced' = forced \ {r} /\ UNCHANGED <<path, listening, forceFlag>>
  BY DEF Forget, fileVars, podVars
<1>2. Alive' = Alive
  BY <1>1 DEF PodInv, RunInv, Inv, TypeOK
<1>3. FlagOK'
  BY <1>1 DEF SocketInv, FlagOK, PodInv, RunInv, Inv, TypeOK
<1>4. OnlyCutOffsBlock'
  BY <1>1, <1>2 DEF SocketInv, OnlyCutOffsBlock, Blocked, PodInv, RunInv, Inv, TypeOK
<1>5. UNCHANGED Socket!socketVars
  BY <1>1, <1>2 DEF Socket!socketVars, SocketAt
<1> QED BY <1>3, <1>4, <1>5 DEF SocketStep, SocketInv

(* Every step of the process, case by case.                                *)
LEMMA MainSocketStep ==
    ASSUME PodInv, PodInv', SocketInv, NEW r \in Runs, UNCHANGED forceFlag,
           \/ Login(r) \/ StatSocket(r) \/ RemoveSocket(r) \/ BindSocket(r)
           \/ StopHealth(r) \/ HealthStopped(r) \/ Drained(r)
    PROVE  SocketStep
<1>1. CASE Login(r)
  <2>1. r \in Alive /\ r \notin listening
    BY <1>1 DEF Login, PodInv, RunInv, Inv, ListenersOK
  <2>2. CASE Fatal(r, "fatalLogin")
    BY <2>1, <2>2, FatalSocketStep
  <2>3. CASE Return(r, "failed")
    BY <2>1, <2>3, ReturnSocketStep
  <2>4. CASE Goto(r, "stat") /\ UNCHANGED <<fileVars, loadVars>>
    BY <2>1, <2>4, GotoQuiet DEF fileVars
  <2> QED BY <1>1, <2>2, <2>3, <2>4 DEF Login
<1>2. CASE StatSocket(r)
  <2>1. PICK p \in {"remove", "listen"} : Goto(r, p)
    BY <1>2 DEF StatSocket
  <2>2. r \in Alive /\ UNCHANGED <<path, listening>>
    BY <1>2 DEF StatSocket, fileVars
  <2> QED BY <2>1, <2>2, GotoQuiet
<1>3. CASE RemoveSocket(r)
  BY <1>3, RemoveQuiet
<1>4. CASE BindSocket(r)
  BY <1>4, BindSocketStep
<1>5. CASE StopHealth(r)
  <2>1. r \in Alive /\ Goto(r, "httpShutdown") /\ UNCHANGED <<path, listening>>
    BY <1>5 DEF StopHealth
  <2> QED BY <2>1, GotoQuiet
<1>6. CASE HealthStopped(r)
  BY <1>6, DrainSocketStep, ReturnSocketStep DEF HealthStopped
<1>7. CASE Drained(r)
  BY <1>7, ReturnSocketStep DEF Drained
<1> QED BY <1>1, <1>2, <1>3, <1>4, <1>5, <1>6, <1>7

LEMMA PodSocketStep ==
    ASSUME PodInv, PodInv', SocketInv, [PodNext]_allVars
    PROVE  SocketStep
<1>1. CASE VaultGoes \/ VaultReturns \/ PortTaken \/ PortFreed \/ UNCHANGED allVars
  BY <1>1, QuietStep DEF PortTaken, PortFreed, VaultGoes, VaultReturns, allVars, podVars, vars, procVars, fileVars
<1>2. ASSUME NEW r \in Runs, StartContainer(r) PROVE SocketStep
  BY <1>2, StartSocket
<1>3. ASSUME NEW r \in Runs,
             \/ StopContainer(r) \/ KubeletAsks(r) \/ HealthAnswer(r) \/ ProbeMissesRun(r)
             \/ Works(r)
      PROVE  SocketStep
  <2>1. UNCHANGED <<phase, exit, forced, path, listening, forceFlag>>
    BY <1>3 DEF StopContainer, Signal, KubeletAsks, Probe, HealthAnswer, ProbeDone,
       ProbeMissesRun, Works, Receive, Respond, vars, podVars, procVars, fileVars
  <2> QED BY <2>1, QuietStep
<1>4. ASSUME NEW r \in Runs, KillContainer(r) \/ Crash(r) PROVE SocketStep
  <2>1. r \in Alive /\ UNCHANGED forceFlag
    BY <1>4 DEF KillContainer, Crash, Kill, ServeFails, podVars
  <2>2. \/ Fatal(r, "killed") \/ Fatal(r, "fatalServe")
        \/ CloseAndDie(r, "fatalServe")
    BY <1>4 DEF KillContainer, Crash, Kill, ServeFails
  <2> QED BY <2>1, <2>2, FatalSocketStep, ReturnSocketStep DEF CutOff
<1>5. ASSUME NEW r \in Runs, Forget(r) PROVE SocketStep
  BY <1>5, ForgetQuiet
<1>6. ASSUME NEW r \in Runs, Process(r) PROVE SocketStep
  BY <1>6, MainSocketStep DEF Process, LogsIn, podVars
<1>7. ASSUME NEW r \in Runs, Listens(r) PROVE SocketStep
  <2>1. r \in Alive /\ port # r /\ UNCHANGED forceFlag
    BY <1>7 DEF Listens, ListenHealth, PortRefused, podVars
  <2>2. Alive = {r}
    BY <2>1, Alone DEF PodInv
  <2>3. port = None
    BY <2>1, <2>2 DEF PodInv, RunInv, Inv, TypeOK
  <2>4. CASE foreign
    BY <1>7, <2>1, <2>4, FatalSocketStep DEF Listens, PortRefused, CutOff
  <2>5. CASE ~foreign
    <3>1. UNCHANGED <<phase, exit, forced, path, listening, forceFlag>>
      BY <1>7, <2>1, <2>3, <2>5 DEF Listens, ListenHealth, procVars
    <3> QED BY <3>1, QuietStep
  <2> QED BY <2>4, <2>5
<1> QED BY <1>1, <1>2, <1>3, <1>4, <1>5, <1>6, <1>7 DEF PodNext

LEMMA SocketInit == PodInit => SocketInv /\ Socket!Init
<1> SUFFICES ASSUME PodInit PROVE SocketInv /\ Socket!Init
  OBVIOUS
<1>1. SocketInv
  BY DEF PodInit, Init, SocketInv, FlagOK, OnlyCutOffsBlock, Blocked
<1>2. SocketAt = "none" /\ Alive = {} /\ forceFlag \in BOOLEAN
  BY DEF PodInit, Init, SocketAt
<1> QED BY <1>1, <1>2 DEF Socket!Init

(* In the pod a stale socket file is only left by a run that was killed,   *)
(* refused its health port or failed to accept, and a run fails on its     *)
(* socket only where such a file lies and the flag is not set              *)
(* (socket.go:40-58, plugin.go:308, 334, 357).                             *)
THEOREM CutOffsBlock == PodSpec => []OnlyCutOffsBlock
<1>1. PodInv /\ PodInv' /\ SocketInv /\ [PodNext]_allVars => SocketInv'
  BY PodSocketStep DEF SocketStep
<1>2. SocketInv => OnlyCutOffsBlock
  BY DEF SocketInv
<1> QED BY <1>1, <1>2, SocketInit, PodInvariant, PTL DEF PodSpec

(* The pod implements SocketFile: over all restarts a live socket is only  *)
(* closed by its own run, and a stale one only goes with the flag, so      *)
(* that Blocked lasts.                                                     *)
THEOREM SocketRefinement == PodSpec => KeepsSocket
<1>1. PodInv /\ PodInv' /\ SocketInv /\ [PodNext]_allVars =>
        SocketInv' /\ [Socket!Next]_(Socket!socketVars)
  BY PodSocketStep DEF SocketStep
<1> QED BY <1>1, SocketInit, PodInvariant, PTL DEF PodSpec, KeepsSocket, Socket!Spec

=============================================================================
