----------------------- MODULE PluginLifecycle_proofs ------------------------
(***************************************************************************)
(* Theorems about PluginLifecycle, for any number of runs, alive one after *)
(* another or at once, each with or without -force-socket-overwrite.       *)
(***************************************************************************)
EXTENDS PluginLifecycle, TLAPS

Up       == {"serving", "httpShutdown"}
Returned == {"clean", "failed"}
CutShort == {"fatalLogin", "fatalSocket", "fatalPort", "fatalServe", "killed"}

(* A listener is open exactly between bind and GracefulStop.               *)
ListenersOK == listening = {r \in Runs : phase[r] \in Up}

(* The socket at the path is that of an open listener or of a run that was *)
(* cut short.                                                              *)
PathOK == path # None => path \in listening \/ exit[path] \in CutShort

KeysOK == \A r \in Runs : exit[r] \in Returned => tmp \cap TempFiles(r) = {}

Inv == TypeOK /\ ListenersOK /\ PathOK /\ KeysOK

USE LifecycleAssumption
    DEF LifecycleAssumption, None, Runs, Alive, Phases, Exits, Up, Returned, CutShort

(* No temp file is of two runs.                                            *)
LEMMA OwnFiles ==
    ASSUME NEW q, NEW r, q # r PROVE TempFiles(q) \cap TempFiles(r) = {}
BY DEF TempFiles

LEMMA InvInit == Init => Inv
BY DEF Init, Inv, TypeOK, ListenersOK, PathOK, KeysOK

(* The steps that change neither the exits nor the listeners.              *)
LEMMA StartStep == ASSUME Inv, NEW r \in Runs, Start(r) PROVE Inv'
<1>1. TypeOK'
  BY DEF Inv, TypeOK, Start, fileVars, loadVars
<1>2. ListenersOK' /\ PathOK' /\ KeysOK'
  BY DEF Inv, TypeOK, ListenersOK, PathOK, KeysOK, Start, fileVars, loadVars
<1> QED BY <1>1, <1>2 DEF Inv

LEMMA GotoStep ==
    ASSUME Inv, NEW r \in Runs, NEW p \in Phases, p \notin {"off", "ended"},
           phase[r] \notin {"off", "ended"}, phase[r] \in Up <=> p \in Up,
           Goto(r, p), UNCHANGED <<listening, inflight, probing>>,
           path' \in {path, None}, port' \in {port, None}, tmp' \subseteq tmp \cup TempFiles(r)
    PROVE  Inv'
<1>1. TypeOK'
  BY DEF Inv, TypeOK, Goto
<1>2. ListenersOK' /\ PathOK'
  BY DEF Inv, TypeOK, ListenersOK, PathOK, Goto
<1>3. KeysOK'
  BY OwnFiles DEF Inv, TypeOK, KeysOK, Goto
<1> QED BY <1>1, <1>2, <1>3 DEF Inv

(* A run that ends, in whichever way.                                      *)
LEMMA DieStep ==
    ASSUME Inv, NEW r \in Runs, NEW how \in Exits, how # "none",
           phase[r] \notin {"off", "ended"}, Die(r, how),
           path' \in {path, None}, tmp' \subseteq tmp
    PROVE  TypeOK' /\ ListenersOK'
<1>1. exit[r] = "none"
  BY DEF Inv, TypeOK
<1>2. TypeOK'
  <2>1. /\ phase' = [phase EXCEPT ![r] = "ended"]
        /\ exit' = [exit EXCEPT ![r] = how]
    BY DEF Die
  <2>2. phase' \in [Runs -> Phases] /\ exit' \in [Runs -> Exits]
    BY <2>1 DEF Inv, TypeOK
  <2>3. \A q \in Runs : phase'[q] = "ended" <=> exit'[q] # "none"
    BY <2>1 DEF Inv, TypeOK
  <2>4. Alive' = Alive \ {r}
    BY <2>1 DEF Inv, TypeOK
  <2>5. /\ ctxDone' \subseteq Alive' /\ listening' \subseteq Alive'
        /\ probing' \subseteq Alive' /\ port' \in Alive' \cup {None}
    BY <2>4 DEF Inv, TypeOK, Die
  <2>6. inflight' \in [Runs -> 0..MaxInflight]
    BY DEF Inv, TypeOK, Die
  <2>7. /\ path' \in Runs \cup {None}
        /\ tmp' \subseteq UNION {TempFiles(q) : q \in Runs}
        /\ overlapped' \subseteq Runs /\ forced' \subseteq Runs
    BY DEF Inv, TypeOK, Die
  <2> QED BY <2>2, <2>3, <2>5, <2>6, <2>7 DEF TypeOK
<1>3. ListenersOK'
  BY DEF Inv, TypeOK, ListenersOK, Die
<1> QED BY <1>2, <1>3

LEMMA FatalStep ==
    ASSUME Inv, NEW r \in Runs, NEW how \in CutShort,
           phase[r] \notin {"off", "ended"}, Fatal(r, how)
    PROVE  Inv'
<1>1. TypeOK' /\ ListenersOK'
  BY DieStep DEF Fatal
<1>2. exit[r] = "none" /\ exit' = [exit EXCEPT ![r] = how]
  BY DEF Inv, TypeOK, Fatal, Die
<1>3. PathOK' /\ KeysOK'
  BY <1>2 DEF Inv, TypeOK, PathOK, KeysOK, Fatal, Die
<1> QED BY <1>1, <1>3 DEF Inv

LEMMA ReturnStep ==
    ASSUME Inv, NEW r \in Runs, NEW how \in Returned,
           phase[r] \notin {"off", "ended"}, Return(r, how)
    PROVE  Inv'
<1>1. TypeOK' /\ ListenersOK'
  BY DieStep DEF Return, Unlinked
<1>2. exit[r] = "none" /\ exit' = [exit EXCEPT ![r] = how]
  BY DEF Inv, TypeOK, Return, Die
<1>3. PathOK'
  BY <1>2 DEF Inv, TypeOK, PathOK, Return, Unlinked, Die
<1>4. KeysOK'
  BY <1>2 DEF Inv, TypeOK, KeysOK, Return
<1> QED BY <1>1, <1>3, <1>4 DEF Inv

LEMMA CloseAndDieStep ==
    ASSUME Inv, NEW r \in Runs, NEW how \in CutShort,
           phase[r] \notin {"off", "ended"}, CloseAndDie(r, how)
    PROVE  Inv'
<1>1. TypeOK' /\ ListenersOK'
  BY DieStep DEF CloseAndDie, Unlinked
<1>2. exit[r] = "none" /\ exit' = [exit EXCEPT ![r] = how]
  BY DEF Inv, TypeOK, CloseAndDie, Die
<1>3. PathOK'
  BY <1>2 DEF Inv, TypeOK, PathOK, CloseAndDie, Unlinked, Die
<1>4. KeysOK'
  BY <1>2 DEF Inv, TypeOK, KeysOK, CloseAndDie
<1> QED BY <1>1, <1>3, <1>4 DEF Inv

LEMMA BindStep == ASSUME Inv, NEW r \in Runs, BindSocket(r) PROVE Inv'
<1>1. CASE path # None
  BY <1>1, FatalStep DEF BindSocket
<1>2. CASE path = None
  <2>1. phase' = [phase EXCEPT ![r] = "serving"] /\ exit' = exit
    BY <1>2 DEF BindSocket, Goto
  <2>2. TypeOK'
    BY <1>2, <2>1 DEF Inv, TypeOK, BindSocket, Goto, loadVars
  <2>3. ListenersOK' /\ PathOK' /\ KeysOK'
    BY <1>2, <2>1 DEF Inv, TypeOK, ListenersOK, PathOK, KeysOK,
       BindSocket, loadVars
  <2> QED BY <2>2, <2>3 DEF Inv
<1> QED BY <1>1, <1>2

LEMMA ListenHealthStep == ASSUME Inv, NEW r \in Runs, ListenHealth(r) PROVE Inv'
<1>1. CASE port # None
  BY <1>1, FatalStep DEF ListenHealth
<1>2. CASE port = None
  BY <1>2 DEF Inv, TypeOK, ListenersOK, PathOK, KeysOK,
     ListenHealth, procVars, loadVars
<1> QED BY <1>1, <1>2

LEMMA DrainStep ==
    ASSUME Inv, NEW r \in Runs, phase[r] = "httpShutdown", DrainRpcs(r)
    PROVE  Inv'
<1>1. phase' = [phase EXCEPT ![r] = "draining"] /\ exit' = exit
  BY DEF DrainRpcs, Goto
<1>2. TypeOK'
  BY <1>1 DEF Inv, TypeOK, DrainRpcs, Unlinked, Goto, loadVars
<1>3. ListenersOK' /\ PathOK'
  BY <1>1 DEF Inv, TypeOK, ListenersOK, PathOK, DrainRpcs, Unlinked
<1>4. KeysOK'
  BY <1>1 DEF Inv, KeysOK, DrainRpcs, loadVars
<1> QED BY <1>2, <1>3, <1>4 DEF Inv

(* Calls and health requests.                                              *)
LEMMA LoadStep ==
    ASSUME Inv, NEW r \in Runs,
           Receive(r) \/ Respond(r) \/ Probe(r) \/ ProbeDone(r)
    PROVE  Inv'
<1>1. UNCHANGED <<procVars, fileVars>>
  BY DEF Receive, Respond, Probe, ProbeDone
<1>2. inflight' \in [Runs -> 0..MaxInflight]
  <2>1. CASE Receive(r)
    BY <2>1 DEF Inv, TypeOK, Receive
  <2>2. CASE Respond(r)
    BY <2>2 DEF Inv, TypeOK, Respond
  <2>3. CASE Probe(r) \/ ProbeDone(r)
    BY <2>3 DEF Inv, TypeOK, Probe, ProbeDone
  <2> QED BY <2>1, <2>2, <2>3
<1>3. probing' \subseteq Alive
  <2>1. CASE Receive(r) \/ Respond(r)
    BY <2>1 DEF Inv, TypeOK, Receive, Respond
  <2>2. CASE Probe(r)
    BY <2>2 DEF Inv, TypeOK, Probe
  <2>3. CASE ProbeDone(r)
    BY <2>3 DEF Inv, TypeOK, ProbeDone
  <2> QED BY <2>1, <2>2, <2>3
<1> QED
  BY <1>1, <1>2, <1>3 DEF Inv, TypeOK, ListenersOK, PathOK, KeysOK,
     procVars, fileVars

LEMMA SignalStep == ASSUME Inv, NEW r \in Runs, Signal(r) PROVE Inv'
BY DEF Inv, TypeOK, ListenersOK, PathOK, KeysOK, Signal,
   fileVars, loadVars

LEMMA InvStep == Inv /\ [Next]_vars => Inv'
<1> SUFFICES ASSUME Inv, [Next]_vars PROVE Inv'
  OBVIOUS
<1>1. ASSUME NEW r \in Runs, Start(r) PROVE Inv'
  BY <1>1, StartStep
<1>2. ASSUME NEW r \in Runs, WriteCert(r) \/ WriteKey(r) PROVE Inv'
  <2>1. CASE Return(r, "failed")
    BY <1>2, <2>1, ReturnStep DEF WriteCert, WriteKey
  <2>2. CASE ~Return(r, "failed")
    <3>1. \E p \in {"pemKey", "login"} : Goto(r, p)
      BY <1>2, <2>2 DEF WriteCert, WriteKey, TempFile
    <3>2. /\ phase[r] \in {"pemCert", "pemKey"} /\ tmp' \subseteq tmp \cup TempFiles(r)
          /\ UNCHANGED <<path, listening, port, loadVars>>
      BY <1>2, <2>2 DEF WriteCert, WriteKey, TempFile, TempFiles
    <3> QED BY <3>1, <3>2, GotoStep DEF loadVars
  <2> QED BY <2>1, <2>2
<1>3. ASSUME NEW r \in Runs, Login(r) PROVE Inv'
  <2>1. CASE Fatal(r, "fatalLogin")
    BY <1>3, <2>1, FatalStep DEF Login
  <2>2. CASE Return(r, "failed")
    BY <1>3, <2>2, ReturnStep DEF Login
  <2>3. CASE Goto(r, "stat") /\ UNCHANGED <<fileVars, loadVars>>
    BY <1>3, <2>3, GotoStep DEF Login, fileVars, loadVars
  <2> QED BY <1>3, <2>1, <2>2, <2>3 DEF Login
<1>4. ASSUME NEW r \in Runs, StatSocket(r) PROVE Inv'
  <2>1. PICK p \in {"remove", "listen"} : Goto(r, p)
    BY <1>4 DEF StatSocket
  <2> QED BY <1>4, <2>1, GotoStep DEF StatSocket, fileVars, loadVars
<1>5. ASSUME NEW r \in Runs, RemoveSocket(r) PROVE Inv'
  <2>1. CASE path = None
    BY <1>5, <2>1, FatalStep DEF RemoveSocket
  <2>2. CASE path # None
    BY <1>5, <2>2, GotoStep DEF RemoveSocket, loadVars
  <2> QED BY <2>1, <2>2
<1>6. ASSUME NEW r \in Runs, BindSocket(r) PROVE Inv'
  BY <1>6, BindStep
<1>7. ASSUME NEW r \in Runs, StopHealth(r) PROVE Inv'
  BY <1>7, GotoStep DEF StopHealth, loadVars
<1>8. ASSUME NEW r \in Runs, HealthStopped(r) PROVE Inv'
  BY <1>8, DrainStep, ReturnStep DEF HealthStopped
<1>9. ASSUME NEW r \in Runs, Drained(r) PROVE Inv'
  BY <1>9, ReturnStep DEF Drained
<1>10. ASSUME NEW r \in Runs, ListenHealth(r) PROVE Inv'
  BY <1>10, ListenHealthStep
<1>11. ASSUME NEW r \in Runs,
              Receive(r) \/ Respond(r) \/ Probe(r) \/ ProbeDone(r)
       PROVE  Inv'
  BY <1>11, LoadStep
<1>12. ASSUME NEW r \in Runs, Signal(r) PROVE Inv'
  BY <1>12, SignalStep
<1>13. ASSUME NEW r \in Runs, Kill(r) PROVE Inv'
  BY <1>13, FatalStep DEF Kill
<1>14. ASSUME NEW r \in Runs, PortRefused(r) \/ ServeFails(r) PROVE Inv'
  BY <1>14, FatalStep, CloseAndDieStep DEF PortRefused, ServeFails
<1>15. CASE UNCHANGED vars
  BY <1>15 DEF Inv, TypeOK, ListenersOK, PathOK, KeysOK, vars,
     procVars, fileVars, loadVars
<1> QED
  BY <1>1, <1>2, <1>3, <1>4, <1>5, <1>6, <1>7, <1>8, <1>9, <1>10, <1>11, <1>12,
     <1>13, <1>14, <1>15 DEF Next, Main

LEMMA Invariant == Spec => []Inv
BY InvInit, InvStep, PTL DEF Spec

(* Every reachable state of the life cycle is well typed: only live runs   *)
(* hold the port, a listener or work.                                      *)
THEOREM TypeCorrect == Spec => []TypeOK
<1>1. Inv => TypeOK
  BY DEF Inv
<1> QED BY <1>1, Invariant, PTL

(* A run that returns, with or without an error, has removed its socket    *)
(* file and its key files (plugin.go:254, plugin.go:308).                  *)
THEOREM CleansUp == Spec => []ReturnCleansUp
<1>1. Inv => ReturnCleansUp
  BY DEF Inv, TypeOK, ListenersOK, PathOK, KeysOK, ReturnCleansUp
<1> QED BY <1>1, Invariant, PTL

-----------------------------------------------------------------------------
(* With -force-socket-overwrite, a run that is alone finds at each step of *)
(* Listen what it left there at the step before.                           *)
Solo(r) == phase[r] \notin {"off", "ended"} /\ r \notin overlapped

SoloListens ==
    \A r \in Runs :
      /\ Solo(r) => \A q \in Runs : q # r => phase[q] \in {"off", "ended"}
      /\ Solo(r) /\ phase[r] = "remove" => path # None
      /\ Solo(r) /\ phase[r] = "listen" => r \notin forced \/ path = None

SoloOK == SoloListens /\ SmoothRedeployment

LEMMA SoloStep ==
    ASSUME Inv, SoloOK, [Next]_vars
    PROVE  SoloOK'
<1>1. ASSUME NEW r \in Runs, Start(r) PROVE SoloOK'
  <2>1. /\ phase[r] = "off" /\ exit' = exit /\ path' = path
        /\ \E p \in {"pemCert", "login"} : phase' = [phase EXCEPT ![r] = p]
        /\ forced' \subseteq forced \cup {r} /\ exit[r] = "none"
    BY <1>1 DEF Inv, TypeOK, Start, fileVars
  <2>2. overlapped \subseteq overlapped'
    BY <1>1 DEF Start
  <2>3. ASSUME NEW q \in Runs, Solo(q)' PROVE q = r /\ Alive = {}
    <3>1. CASE Alive = {}
      BY <2>1, <2>3, <3>1 DEF Inv, TypeOK, Solo
    <3>2. CASE Alive # {}
      BY <1>1, <2>1, <2>3, <3>2 DEF Inv, TypeOK, Start, Solo
    <3> QED BY <3>1, <3>2
  <2>4. SoloListens'
    BY <2>1, <2>3 DEF Inv, TypeOK, SoloListens, Solo
  <2>5. SmoothRedeployment'
    BY <2>1, <2>2 DEF SoloOK, SmoothRedeployment
  <2> QED BY <2>4, <2>5 DEF SoloOK
<1>2. ASSUME NEW r \in Runs, NEW how \in Exits, phase[r] \notin {"off", "ended"},
             Die(r, how),
             r \in forced /\ how = "fatalSocket" => r \in overlapped
      PROVE  SoloOK'
  <2>1. phase' = [phase EXCEPT ![r] = "ended"] /\ exit' = [exit EXCEPT ![r] = how]
        /\ overlapped' = overlapped /\ forced' = forced
    BY <1>2 DEF Die
  <2>2. ASSUME NEW q \in Runs, Solo(q)' PROVE q # r /\ Solo(q)
    BY <2>1, <2>2 DEF Inv, TypeOK, Solo
  <2>3. \A q \in Runs : ~Solo(q)'
    BY <1>2, <2>2 DEF SoloOK, SoloListens
  <2>4. SmoothRedeployment'
    BY <1>2, <2>1 DEF Inv, TypeOK, SoloOK, SmoothRedeployment
  <2> QED BY <2>3, <2>4 DEF SoloOK, SoloListens
<1>3. ASSUME NEW r \in Runs, NEW how \in Exits \ {"fatalSocket"},
             phase[r] \notin {"off", "ended"},
             Fatal(r, how) \/ Return(r, how) \/ CloseAndDie(r, how)
      PROVE  SoloOK'
  BY <1>2, <1>3 DEF Fatal, Return, CloseAndDie
<1>4. ASSUME NEW r \in Runs, NEW p \in Phases \ {"off", "ended"},
             phase[r] \notin {"off", "ended"}, Goto(r, p),
             Solo(r) /\ p = "remove" => path' # None,
             Solo(r) /\ p = "listen" => r \notin forced \/ path' = None
      PROVE  SoloOK'
  <2>1. phase' = [phase EXCEPT ![r] = p] /\ exit' = exit
        /\ overlapped' = overlapped /\ forced' = forced
    BY <1>4 DEF Goto
  <2>2. \A q \in Runs : Solo(q)' => q = r
    BY <1>4, <2>1 DEF Inv, TypeOK, SoloOK, SoloListens, Solo
  <2> QED
    BY <1>4, <2>1, <2>2 DEF Inv, TypeOK, SoloOK, SoloListens, SmoothRedeployment, Solo
<1>5. ASSUME NEW r \in Runs, WriteCert(r) \/ WriteKey(r) \/ Login(r) \/ StopHealth(r)
      PROVE  SoloOK'
  BY <1>3, <1>4, <1>5 DEF WriteCert, WriteKey, TempFile, Login, StopHealth
<1>6. ASSUME NEW r \in Runs, StatSocket(r) PROVE SoloOK'
  <2>1. CASE path # None /\ Goto(r, "remove")
    BY <1>4, <1>6, <2>1 DEF StatSocket, fileVars
  <2>2. CASE (path = None \/ r \notin forced) /\ Goto(r, "listen")
    BY <1>4, <1>6, <2>2 DEF StatSocket, fileVars
  <2> QED BY <1>6, <2>1, <2>2 DEF StatSocket
<1>7. ASSUME NEW r \in Runs, RemoveSocket(r) PROVE SoloOK'
  <2>1. CASE path # None
    BY <1>4, <1>7, <2>1 DEF RemoveSocket
  <2>2. CASE path = None
    BY <1>2, <1>7, <2>2 DEF RemoveSocket, Fatal, SoloOK, SoloListens, Solo
  <2> QED BY <2>1, <2>2
<1>8. ASSUME NEW r \in Runs, BindSocket(r) PROVE SoloOK'
  <2>1. CASE path # None
    BY <1>2, <1>8, <2>1 DEF BindSocket, Fatal, SoloOK, SoloListens, Solo
  <2>2. CASE path = None
    BY <1>4, <1>8, <2>2 DEF BindSocket
  <2> QED BY <2>1, <2>2
<1>9. ASSUME NEW r \in Runs, HealthStopped(r) \/ Drained(r) PROVE SoloOK'
  <2>1. ASSUME DrainRpcs(r), phase[r] = "httpShutdown" PROVE SoloOK'
    BY <1>4, <2>1 DEF DrainRpcs
  <2> QED BY <1>3, <1>9, <2>1 DEF HealthStopped, Drained
<1>10. ASSUME NEW r \in Runs, ListenHealth(r) PROVE SoloOK'
  <2>1. CASE port # None
    BY <1>3, <1>10, <2>1 DEF ListenHealth
  <2>2. CASE port = None
    BY <1>10, <2>2 DEF ListenHealth, procVars, SoloOK, SoloListens, SmoothRedeployment, Solo
  <2> QED BY <2>1, <2>2
<1>11. ASSUME NEW r \in Runs,
              Receive(r) \/ Respond(r) \/ Probe(r) \/ ProbeDone(r) \/ Signal(r)
       PROVE  SoloOK'
  BY <1>11 DEF Receive, Respond, Probe, ProbeDone, Signal, procVars, fileVars,
     SoloOK, SoloListens, SmoothRedeployment, Solo
<1>12. ASSUME NEW r \in Runs, Kill(r) \/ PortRefused(r) \/ ServeFails(r)
       PROVE  SoloOK'
  BY <1>3, <1>12 DEF Kill, PortRefused, ServeFails
<1>13. CASE UNCHANGED vars
  BY <1>13 DEF vars, procVars, fileVars, SoloOK, SoloListens, SmoothRedeployment, Solo
<1> QED
  BY <1>1, <1>5, <1>6, <1>7, <1>8, <1>9, <1>10, <1>11, <1>12, <1>13 DEF Next, Main

LEMMA SoloInvariant == Spec => []SoloOK
<1>1. Init => SoloOK
  BY DEF Init, SoloOK, SoloListens, Solo, SmoothRedeployment
<1>2. Inv /\ SoloOK /\ [Next]_vars => SoloOK'
  BY SoloStep
<1> QED BY <1>1, <1>2, Invariant, PTL DEF Spec

(* With -force-socket-overwrite, a run that is alive alone never fails on  *)
(* its socket, whatever runs that crashed have left at the path            *)
(* (docs/configuration.md:271, socket.go:42-58).                           *)
THEOREM Redeploys == Spec => []SmoothRedeployment
<1>1. SoloOK => SmoothRedeployment
  BY DEF SoloOK
<1> QED BY <1>1, SoloInvariant, PTL

-----------------------------------------------------------------------------
(* Whoever has an open listener has the path too, unless it was alive      *)
(* together with another run and one that forces had company.              *)
Evicted(r) == r \in overlapped /\ forced \cap overlapped # {}

PathHeld ==
    \A r \in Runs :
      /\ phase[r] = "remove" => r \in forced
      /\ phase[r] \in Up /\ path # r => Evicted(r)

LEMMA PathHeldStep ==
    ASSUME Inv, SoloOK, PathHeld, [Next]_vars
    PROVE  PathHeld'
<1>1. ASSUME NEW r \in Runs, NEW p \in Phases \ {"remove"},
             phase' = [phase EXCEPT ![r] = p], path' = path,
             forced \subseteq forced', overlapped \subseteq overlapped',
             p \in Up => phase[r] \in Up
      PROVE  PathHeld'
  BY <1>1 DEF Inv, TypeOK, PathHeld, Evicted
<1>2. ASSUME NEW r \in Runs, NEW p \in Phases \ ({"remove"} \cup Up),
             phase' = [phase EXCEPT ![r] = p], path' = Unlinked(r),
             UNCHANGED <<forced, overlapped>>
      PROVE  PathHeld'
  <2>1. CASE r \notin listening
    BY <1>1, <1>2, <2>1 DEF Unlinked
  <2>2. CASE r \in listening
    <3>1. ASSUME NEW q \in Runs, q # r, phase[q] \in Up PROVE Evicted(q)
      <4>1. CASE path # q
        BY <3>1, <4>1 DEF PathHeld
      <4>2. CASE path = q
        BY <2>2, <3>1, <4>2
           DEF Inv, ListenersOK, PathHeld, Evicted, SoloOK, SoloListens, Solo
      <4> QED BY <4>1, <4>2
    <3> QED BY <1>2, <3>1 DEF Inv, TypeOK, PathHeld, Evicted
  <2> QED BY <2>1, <2>2
<1>3. ASSUME NEW r \in Runs, Start(r) PROVE PathHeld'
  BY <1>1, <1>3 DEF Start, fileVars
<1>4. ASSUME NEW r \in Runs, NEW how \in Exits, Fatal(r, how) PROVE PathHeld'
  BY <1>1, <1>4 DEF Fatal, Die
<1>5. ASSUME NEW r \in Runs, NEW how \in Exits, Return(r, how) \/ CloseAndDie(r, how)
      PROVE  PathHeld'
  BY <1>2, <1>5 DEF Return, CloseAndDie, Die
<1>6. ASSUME NEW r \in Runs,
             WriteCert(r) \/ WriteKey(r) \/ Login(r) \/ StopHealth(r)
      PROVE  PathHeld'
  BY <1>1, <1>4, <1>5, <1>6
     DEF WriteCert, WriteKey, TempFile, Login, StopHealth, Goto, fileVars
<1>7. ASSUME NEW r \in Runs, StatSocket(r) PROVE PathHeld'
  <2>1. CASE Goto(r, "listen")
    BY <1>1, <1>7, <2>1 DEF StatSocket, Goto, fileVars
  <2>2. CASE r \in forced /\ Goto(r, "remove")
    BY <1>7, <2>2 DEF Inv, TypeOK, PathHeld, Evicted, StatSocket, Goto, fileVars
  <2> QED BY <1>7, <2>1, <2>2 DEF StatSocket
<1>8. ASSUME NEW r \in Runs, RemoveSocket(r) PROVE PathHeld'
  <2>1. CASE path = None
    BY <1>4, <1>8, <2>1 DEF RemoveSocket
  <2>2. CASE path # None
    <3>1. /\ phase[r] = "remove" /\ r \in forced
          /\ phase' = [phase EXCEPT ![r] = "listen"]
          /\ UNCHANGED <<forced, overlapped>>
      BY <1>8, <2>2 DEF RemoveSocket, Goto, PathHeld
    <3>2. ASSUME NEW q \in Runs, phase[q] \in Up PROVE Evicted(q)
      BY <3>1, <3>2 DEF Evicted, SoloOK, SoloListens, Solo
    <3> QED BY <3>1, <3>2 DEF Inv, TypeOK, PathHeld, Evicted
  <2> QED BY <2>1, <2>2
<1>9. ASSUME NEW r \in Runs, BindSocket(r) PROVE PathHeld'
  <2>1. CASE path # None
    BY <1>4, <1>9, <2>1 DEF BindSocket
  <2>2. CASE path = None
    BY <1>9, <2>2 DEF Inv, TypeOK, PathHeld, Evicted, BindSocket, Goto
  <2> QED BY <2>1, <2>2
<1>10. ASSUME NEW r \in Runs, HealthStopped(r) \/ Drained(r) PROVE PathHeld'
  <2>1. ASSUME DrainRpcs(r) PROVE PathHeld'
    BY <1>2, <2>1 DEF DrainRpcs, Goto
  <2> QED BY <1>5, <1>10, <2>1 DEF HealthStopped, Drained
<1>11. ASSUME NEW r \in Runs, ListenHealth(r) PROVE PathHeld'
  <2>1. CASE port # None
    BY <1>4, <1>11, <2>1 DEF ListenHealth
  <2>2. CASE port = None
    BY <1>11, <2>2 DEF PathHeld, Evicted, ListenHealth, procVars
  <2> QED BY <2>1, <2>2
<1>12. ASSUME NEW r \in Runs,
              Receive(r) \/ Respond(r) \/ Probe(r) \/ ProbeDone(r) \/ Signal(r)
       PROVE  PathHeld'
  BY <1>12 DEF PathHeld, Evicted, Receive, Respond, Probe, ProbeDone, Signal,
     procVars, fileVars
<1>13. ASSUME NEW r \in Runs, Kill(r) \/ PortRefused(r) \/ ServeFails(r)
       PROVE  PathHeld'
  BY <1>4, <1>5, <1>13 DEF Kill, PortRefused, ServeFails
<1>14. CASE UNCHANGED vars
  BY <1>14 DEF PathHeld, Evicted, vars, procVars, fileVars
<1> QED
  BY <1>3, <1>6, <1>7, <1>8, <1>9, <1>10, <1>11, <1>12, <1>13, <1>14 DEF Next, Main

(* A serving run can be reached at the socket path unless it overlapped    *)
(* with another and a run that forces did too: neither Listen              *)
(* (socket.go:40) nor the two closes of a listener (plugin.go:308,         *)
(* plugin.go:371) take the path otherwise.                                 *)
THEOREM PathIsKept == Spec => []EvictionNeedsForce
<1>1. Init => PathHeld
  BY DEF Init, PathHeld
<1>2. Inv /\ SoloOK /\ PathHeld /\ [Next]_vars => PathHeld'
  BY PathHeldStep
<1>3. PathHeld => EvictionNeedsForce
  BY DEF PathHeld, Evicted, EvictionNeedsForce
<1> QED BY <1>1, <1>2, <1>3, Invariant, SoloInvariant, PTL DEF Spec

=============================================================================
