-------------------------- MODULE PluginLifecycle ---------------------------
(***************************************************************************)
(* NewPlugin (cmd/plugin.go) from its validated flags to its exit, for     *)
(* successive and overlapping runs of the program on one node: they share  *)
(* the path of the unix socket, the health port and the temp directory.    *)
(* Three kinds of exit differ in what they leave behind: returning runs    *)
(* the deferred calls (listener.Close, cleanup), zap's Fatal and a kill do *)
(* not.                                                                    *)
(***************************************************************************)
EXTENDS Naturals, FiniteSets

CONSTANTS
    MaxRuns,        \* bound: how many times the program is started
    Parallel,       \* how many runs may be alive at once
    CombinedPem,    \* -cert-pem: the auth method splits a PEM into temp files
    Faults,         \* what may go wrong, see FaultKinds
    MaxInflight     \* bound: RPCs in progress per run

(* "login": NewClient fails; "pem": the PEM cannot be split; "port": the   *)
(* health port cannot be listened on for a reason outside the plugin: it   *)
(* is malformed, or held by another process of the host, whose network the *)
(* manifest asks for; "serve": accepting connections fails; "kill": a      *)
(* SIGKILL or a panic; "slowProbe": a health request outlives the shutdown *)
(* timeout, as it may when Vault is slow.                                  *)
FaultKinds == {"login", "pem", "port", "serve", "kill", "slowProbe"}

ASSUME LifecycleAssumption ==
    /\ MaxRuns \in Nat /\ Parallel \in Nat /\ MaxInflight \in Nat
    /\ CombinedPem \in BOOLEAN
    /\ Faults \subseteq FaultKinds

Runs == 1..MaxRuns
None == 0

Phases == {"off", "pemCert", "pemKey", "login", "stat", "remove", "listen", "serving",
           "httpShutdown", "draining", "ended"}

(* NewPlugin returns nil ("clean") or an error ("failed"), or never.       *)
Exits == {"none", "clean", "failed", "fatalLogin", "fatalSocket", "fatalPort",
          "fatalServe", "killed"}

VARIABLES
    phase,     \* phase[r]: where run r is in NewPlugin
    exit,      \* exit[r]: how run r ended
    ctxDone,   \* the runs whose context a signal has cancelled
    forced,    \* the runs started with -force-socket-overwrite
    overlapped,\* observer: the runs that were alive together with another
    path,      \* the run whose socket is bound at the path, or None
    listening, \* the runs whose listener is open
    port,      \* the run that listens on the health port, or None
    tmp,       \* the temp files: a run's certificate, a run's key
    inflight,  \* inflight[r]: RPCs run r is working on
    probing    \* the runs that work on a health request

procVars == <<phase, exit, ctxDone, forced, overlapped>>
fileVars == <<path, listening, port, tmp>>
loadVars == <<inflight, probing>>
vars == <<procVars, fileVars, loadVars>>

TempFiles(r) == {"cert", "key"} \X {r}

Alive == {r \in Runs : phase[r] \notin {"off", "ended"}}

Init ==
    /\ phase = [r \in Runs |-> "off"] /\ exit = [r \in Runs |-> "none"]
    /\ ctxDone = {} /\ forced = {} /\ overlapped = {}
    /\ path = None /\ listening = {} /\ port = None /\ tmp = {}
    /\ inflight = [r \in Runs |-> 0] /\ probing = {}

Goto(r, p) ==
    /\ phase' = [phase EXCEPT ![r] = p]
    /\ UNCHANGED <<exit, ctxDone, forced, overlapped>>

(* The process is gone, and with it its sockets; a socket file stays.      *)
Die(r, how) ==
    /\ phase' = [phase EXCEPT ![r] = "ended"]
    /\ exit' = [exit EXCEPT ![r] = how]
    /\ ctxDone' = ctxDone \ {r}
    /\ listening' = listening \ {r}
    /\ port' = IF port = r THEN None ELSE port
    /\ inflight' = [inflight EXCEPT ![r] = 0]
    /\ probing' = probing \ {r}
    /\ UNCHANGED <<forced, overlapped>>

(* zap.L().Fatal calls os.Exit: no deferred call runs.                     *)
FatalLogsOnly(r, how) ==
    /\ exit' = [exit EXCEPT ![r] = how]
    /\ UNCHANGED <<phase, ctxDone, forced, overlapped, fileVars, loadVars>>
Fatal(r, how) == Die(r, how) /\ UNCHANGED <<path, tmp>>

(***************************************************************************)
(* net.UnixListener.Close unlinks the path, whosever socket is there, the  *)
(* first time it is called.                                                *)
(***************************************************************************)
UnlinkAlways(r) == None
Unlinked(r) == IF r \in listening THEN None ELSE path

CloseAndDie(r, how) == Die(r, how) /\ path' = Unlinked(r) /\ UNCHANGED tmp

(* return: the deferred listener.Close and cleanup run, or                 *)
(* ParseCombinedPEMFile removes what it wrote before it failed.            *)
Return(r, how) ==
    /\ Die(r, how)
    /\ path' = Unlinked(r)
    /\ tmp' = tmp \ TempFiles(r)

-----------------------------------------------------------------------------
(* Start-up.                                                               *)

Start(r) ==
    /\ phase[r] = "off" /\ \A q \in Runs : q < r => phase[q] # "off"
    /\ Cardinality(Alive) < Parallel
    /\ phase' = [phase EXCEPT ![r] = IF CombinedPem THEN "pemCert" ELSE "login"]
    /\ forced' \in {forced, forced \cup {r}}
    /\ overlapped' = IF Alive = {} THEN overlapped
                     ELSE overlapped \cup Alive \cup {r}
    /\ UNCHANGED <<exit, ctxDone>>
    /\ UNCHANGED <<fileVars, loadVars>>

(* ParseCombinedPEMFile reads the PEM, then writes two temp files.         *)
TempFile(r, kind, next) ==
    \/ /\ tmp' = tmp \cup {<<kind, r>>} /\ Goto(r, next)
       /\ UNCHANGED <<path, listening, port, loadVars>>
    \/ "pem" \in Faults /\ Return(r, "failed")

WriteCert(r) == phase[r] = "pemCert" /\ TempFile(r, "cert", "pemKey")
WriteKeyKeepingCert(r) ==       \* as if its failure left the certificate behind
    phase[r] = "pemKey" /\
    (TempFile(r, "key", "login") \/ CloseAndDie(r, "failed"))
WriteKey(r)  == phase[r] = "pemKey" /\ TempFile(r, "key", "login")

(* NewClient logs in and looks the token up; then the refresher starts.    *)
(* An error is fatal; an empty answer panics (client.go:146), and a panic  *)
(* of this goroutine runs the deferred calls.                              *)
Login(r) ==
    /\ phase[r] = "login"
    /\ \/ Goto(r, "stat") /\ UNCHANGED <<fileVars, loadVars>>
       \/ "login" \in Faults /\ (Fatal(r, "fatalLogin") \/ Return(r, "failed"))

(* Socket.Listen: stat, remove and bind are three system calls.            *)
StatWithoutForce(r) ==
    /\ phase[r] = "stat"
    /\ Goto(r, "listen")
    /\ UNCHANGED <<fileVars, loadVars>>
StatIgnoringFlag(r) ==
    /\ phase[r] = "stat"
    /\ Goto(r, IF path # None THEN "remove" ELSE "listen")
    /\ UNCHANGED <<fileVars, loadVars>>
StatSocket(r) ==
    /\ phase[r] = "stat"
    /\ \/ path # None /\ r \in forced /\ Goto(r, "remove")
       \/ (path = None \/ r \notin forced) /\ Goto(r, "listen")
    /\ UNCHANGED <<fileVars, loadVars>>

RemoveSocket(r) ==
    /\ phase[r] = "remove"
    /\ \/ /\ path # None
          /\ path' = None
          /\ Goto(r, "listen")
          /\ UNCHANGED <<listening, port, tmp, loadVars>>
       \/ path = None /\ Fatal(r, "fatalSocket")

BindSocket(r) ==
    /\ phase[r] = "listen"
    /\ \/ /\ path = None
          /\ path' = r /\ listening' = listening \cup {r}
          /\ Goto(r, "serving")
          /\ UNCHANGED <<port, tmp, loadVars>>
       \/ path # None /\ Fatal(r, "fatalSocket")      \* EADDRINUSE

(* ListenAndServe runs on a goroutine of its own; after Shutdown it does   *)
(* not listen any more.  Any error of it is fatal.                         *)
ListenHealth(r) ==
    /\ phase[r] = "serving" /\ port # r
    /\ \/ /\ port = None /\ port' = r
          /\ UNCHANGED <<procVars, path, listening, tmp, loadVars>>
       \/ port # None /\ Fatal(r, "fatalPort")

PortRefused(r) ==
    /\ "port" \in Faults
    /\ phase[r] = "serving" /\ port # r
    /\ Fatal(r, "fatalPort")

-----------------------------------------------------------------------------
(* Service and shutdown.                                                   *)

(* A client that reached run r through the path stays connected until the  *)
(* run closes its listener.                                                *)
Receive(r) ==
    /\ r \in listening /\ inflight[r] < MaxInflight
    /\ inflight' = [inflight EXCEPT ![r] = @ + 1]
    /\ UNCHANGED <<procVars, fileVars, probing>>

Respond(r) ==
    /\ inflight[r] > 0
    /\ inflight' = [inflight EXCEPT ![r] = @ - 1]
    /\ UNCHANGED <<procVars, fileVars, probing>>

Probe(r) ==
    /\ port = r /\ r \notin probing /\ probing' = probing \cup {r}
    /\ UNCHANGED <<procVars, fileVars, inflight>>

ProbeDone(r) ==
    /\ r \in probing /\ probing' = probing \ {r}
    /\ UNCHANGED <<procVars, fileVars, inflight>>

(* Serve, on a goroutine of its own, returns an error; gRPC's Serve closes *)
(* the listener on its way out, if that still works.                       *)
ServeFails(r) ==
    /\ "serve" \in Faults
    /\ phase[r] \in {"serving", "httpShutdown"}
    /\ Fatal(r, "fatalServe") \/ CloseAndDie(r, "fatalServe")

(* shutDownSignal takes one signal, from the moment it is installed; start-*)
(* up goes on until NewPlugin waits for ctx.Done.                          *)
Signal(r) ==
    /\ r \in Alive \ ctxDone
    /\ ctxDone' = ctxDone \cup {r}
    /\ UNCHANGED <<phase, exit, forced, overlapped, fileVars, loadVars>>

(* server.Shutdown closes the health port, then waits for its requests.    *)
StopHealthKeepingPort(r) ==
    /\ phase[r] = "serving" /\ r \in ctxDone
    /\ Goto(r, "httpShutdown")
    /\ UNCHANGED <<fileVars, loadVars>>
StopHealth(r) ==
    /\ phase[r] = "serving" /\ r \in ctxDone
    /\ Goto(r, "httpShutdown")
    /\ port' = IF port = r THEN None ELSE port
    /\ UNCHANGED <<path, listening, tmp, loadVars>>

(* GracefulStop closes the listener first, then waits for the RPCs.        *)
DrainKeepingListener(r) ==
    /\ Goto(r, "draining")
    /\ UNCHANGED <<fileVars, loadVars>>
DrainRpcs(r) ==
    /\ Goto(r, "draining")
    /\ path' = Unlinked(r) /\ listening' = listening \ {r}
    /\ UNCHANGED <<port, tmp, loadVars>>

(* On a timeout NewPlugin returns the error without calling GracefulStop.  *)
HealthStopped(r) ==
    /\ phase[r] = "httpShutdown"
    /\ \/ r \notin probing /\ DrainRpcs(r)
       \/ r \in probing /\ "slowProbe" \in Faults /\ Return(r, "failed")

Drained(r) ==
    /\ phase[r] = "draining" /\ inflight[r] = 0
    /\ Return(r, "clean")

(* SIGKILL after the grace period, the OOM killer, a panic of any other    *)
(* goroutine: the refresher or a gRPC handler given an empty answer.       *)
Kill(r) ==
    /\ "kill" \in Faults /\ r \in Alive
    /\ Fatal(r, "killed")

Main(r) ==
    \/ WriteCert(r) \/ WriteKey(r) \/ Login(r)
    \/ StatSocket(r) \/ RemoveSocket(r) \/ BindSocket(r)
    \/ StopHealth(r) \/ HealthStopped(r) \/ Drained(r)

Next ==
    \E r \in Runs :
      \/ Start(r) \/ Main(r) \/ ListenHealth(r) \/ PortRefused(r) \/ ServeFails(r)
      \/ Receive(r) \/ Respond(r) \/ Probe(r) \/ ProbeDone(r)
      \/ Signal(r) \/ Kill(r)

Spec == Init /\ [][Next]_vars

(* The goroutines are scheduled; RPCs and health requests end because      *)
(* every request to Vault does.  Nobody has to call, start or stop a run.  *)
FairSpec ==
    Spec /\ \A r \in Runs :
      /\ WF_vars(Main(r)) /\ WF_vars(ListenHealth(r))
      /\ WF_vars(Respond(r)) /\ WF_vars(ProbeDone(r))

-----------------------------------------------------------------------------
(* Properties.                                                             *)

(* Type correctness: only live runs hold the port, the listener or work.   *)
TypeOK ==
    /\ phase \in [Runs -> Phases] /\ exit \in [Runs -> Exits]
    /\ \A r \in Runs : phase[r] = "ended" <=> exit[r] # "none"
    /\ ctxDone \subseteq Alive /\ listening \subseteq Alive
    /\ path \in Runs \cup {None} /\ port \in Alive \cup {None}
    /\ tmp \subseteq UNION {TempFiles(r) : r \in Runs} /\ probing \subseteq Alive
    /\ overlapped \subseteq Runs /\ forced \subseteq Runs
    /\ inflight \in [Runs -> 0..MaxInflight]

(* A run that returns has removed its socket file and its key files,       *)
(* whichever step it returned from (the defers of plugin.go:254 and :308), *)
(* so only a run that was cut short leaves a stale socket to a later one.  *)
ReturnCleansUp ==
    \A r \in Runs : exit[r] \in {"clean", "failed"} =>
        path # r /\ tmp \cap TempFiles(r) = {}

(* docs/configuration.md:269, "This will delete whatever filetype exists   *)
(* at the value specified in -socket": what takes the socket of a serving  *)
(* run is Listen on behalf of the flag, and nothing else.                  *)
LosesSocketOnlyByForce ==
    [][\A r \in Runs :
         phase[r] = "serving" /\ phase'[r] = "serving" /\ path = r /\ path' # r =>
           \E q \in forced : phase[q] = "remove" /\ phase'[q] = "listen"]_vars

(* docs/configuration.md:271: with -force-socket-overwrite, whatever the   *)
(* earlier runs left behind, a run that has the node to itself binds its   *)
(* socket.                                                                 *)
SmoothRedeployment ==
    \A r \in forced : exit[r] = "fatalSocket" => r \in overlapped

(* A serving run loses its path only where a run with                      *)
(* -force-socket-overwrite was alive together with another one: neither    *)
(* Listen nor the two closes of a listener take the path of a run that has *)
(* the node to itself, nor of any run while nobody forces                  *)
(* (socket.go:40, plugin.go:308, plugin.go:371).                           *)
EvictionNeedsForce ==
    \A r \in Runs : phase[r] = "serving" /\ path # r =>
      r \in overlapped /\ forced \cap overlapped # {}

(* pem.go:11, "The caller must invoke the returned cleanup function when   *)
(* the temp files are no longer needed", which plugin.go:254 defers: a run *)
(* that ends by itself leaves no private key behind.                       *)
NoKeyFilesLeft ==
    \A r \in Runs : exit[r] \notin {"none", "killed"} => <<"key", r>> \notin tmp

(* A signalled run ends, while clients keep calling.                       *)
SignalEnds == \A r \in Runs : r \in ctxDone ~> phase[r] = "ended"

=============================================================================
