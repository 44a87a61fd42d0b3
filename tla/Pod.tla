--------------------------------- MODULE Pod ---------------------------------
(***************************************************************************)
(* The plugin as the manifest deploys it (assets/vault-kubernetes-kms.yml):*)
(* one container that the kubelet restarts when it ends, and stops when    *)
(* its /health fails, which it does as long as Vault does not serve the    *)
(* plugin.  The runs are those of PluginLifecycle, one at a time.  The     *)
(* socket lies on the host, so what a run leaves there outlives it, and    *)
(* the health port is one of the host (hostNetwork), so another process of *)
(* the host may hold it.                                                   *)
(***************************************************************************)
EXTENDS PluginLifecycle

CONSTANTS
    FailureThreshold, \* failed probes after which the kubelet stops the container
    MaxOutages,       \* bound: how often Vault goes away
    MaxIntrusions,    \* bound: how often another process takes the health port
    MaxCrashes        \* bound: how often a run is cut off without notice

ASSUME PodAssumption ==
    /\ FailureThreshold \in Nat \ {0}
    /\ MaxOutages \in Nat /\ MaxIntrusions \in Nat /\ MaxCrashes \in Nat
    /\ Parallel = 1 /\ MaxRuns >= 2 /\ ~CombinedPem
    /\ Faults = {"login", "port", "serve", "kill", "slowProbe"}

VARIABLES
    forceFlag,    \* does the manifest set -force-socket-overwrite?
    vaultUp,      \* does Vault serve the plugin?
    foreign,      \* does another process of the host hold the health port?
    failures,     \* probes that failed in a row
    outages, intrusions, crashes  \* how many may still come

budgets == <<outages, intrusions, crashes>>
podVars == <<forceFlag, vaultUp, foreign, failures, budgets>>
allVars == <<vars, podVars>>

PodInit ==
    /\ Init
    /\ forceFlag \in BOOLEAN /\ vaultUp \in BOOLEAN
    /\ foreign = FALSE /\ failures = 0
    /\ outages = MaxOutages /\ intrusions = MaxIntrusions /\ crashes = MaxCrashes

-----------------------------------------------------------------------------
(* Vault and the host.                                                     *)

VaultGoes ==
    /\ vaultUp /\ outages > 0
    /\ vaultUp' = FALSE /\ outages' = outages - 1
    /\ UNCHANGED <<vars, forceFlag, foreign, failures, intrusions, crashes>>

VaultReturns ==
    /\ ~vaultUp /\ vaultUp' = TRUE
    /\ UNCHANGED <<vars, forceFlag, foreign, failures, budgets>>

PortTaken ==
    /\ port = None /\ ~foreign /\ intrusions > 0
    /\ foreign' = TRUE /\ intrusions' = intrusions - 1
    /\ UNCHANGED <<vars, forceFlag, vaultUp, failures, outages, crashes>>

PortFreed ==
    /\ foreign /\ foreign' = FALSE
    /\ UNCHANGED <<vars, forceFlag, vaultUp, failures, budgets>>

-----------------------------------------------------------------------------
(* The kubelet.                                                            *)

StartContainer(r) ==
    /\ Start(r)
    /\ forced' = IF forceFlag THEN forced \cup {r} ELSE forced
    /\ failures' = 0
    /\ UNCHANGED <<forceFlag, vaultUp, foreign, budgets>>

Count(ok) == failures' = IF ok THEN 0
                         ELSE IF failures < FailureThreshold THEN failures + 1 ELSE failures

(* /health encrypts and decrypts with Vault: it succeeds if Vault serves.  *)
KubeletAsks(r) == Probe(r) /\ UNCHANGED podVars
HealthAnswer(r) ==
    /\ ProbeDone(r) /\ Count(vaultUp)
    /\ UNCHANGED <<forceFlag, vaultUp, foreign, budgets>>

(* The run does not listen on the port yet: the probe is refused, or       *)
(* answered by the other process, somehow.  Timing: with Vault up,         *)
(* start-up takes less than FailureThreshold probe periods, 30 s by        *)
(* default.                                                                *)
ProbeMissesRun(r) ==
    /\ r \in Alive /\ port # r /\ (~vaultUp \/ foreign)
    /\ \E ok \in {FALSE, foreign} : Count(ok)
    /\ UNCHANGED <<vars, forceFlag, vaultUp, foreign, budgets>>

StopContainer(r) ==
    /\ failures = FailureThreshold /\ Signal(r)
    /\ UNCHANGED podVars

(* The grace period is over.                                               *)
KillContainer(r) ==
    /\ r \in ctxDone /\ Kill(r)
    /\ UNCHANGED podVars

(* A run that ended is of no interest, unless its socket file is there.    *)
Forget(r) ==
    /\ phase[r] = "ended" /\ path # r
    /\ phase' = [phase EXCEPT ![r] = "off"] /\ exit' = [exit EXCEPT ![r] = "none"]
    /\ forced' = forced \ {r}
    /\ UNCHANGED <<ctxDone, overlapped, fileVars, inflight, probing, podVars>>

-----------------------------------------------------------------------------
(* The container.                                                          *)

(* NewClient succeeds exactly when Vault serves it.                        *)
LogsIn(r) == Login(r) /\ (exit'[r] = "none" <=> vaultUp)

Process(r) ==
    /\ \/ LogsIn(r) \/ StatSocket(r) \/ RemoveSocket(r) \/ BindSocket(r)
       \/ StopHealth(r) \/ HealthStopped(r) \/ Drained(r)
    /\ UNCHANGED podVars

(* Of two processes only one can listen on the port.                       *)
Listens(r) ==
    /\ IF foreign THEN PortRefused(r) ELSE ListenHealth(r)
    /\ UNCHANGED podVars
Works(r) == (Receive(r) \/ Respond(r)) /\ UNCHANGED podVars

Crash(r) ==
    /\ crashes > 0 /\ crashes' = crashes - 1
    /\ Kill(r) \/ ServeFails(r)
    /\ UNCHANGED <<forceFlag, vaultUp, foreign, failures, outages, intrusions>>

PodNext ==
    \/ VaultGoes \/ VaultReturns \/ PortTaken \/ PortFreed
    \/ \E r \in Runs :
         \/ StartContainer(r) \/ StopContainer(r) \/ KillContainer(r) \/ Forget(r)
         \/ KubeletAsks(r) \/ HealthAnswer(r) \/ ProbeMissesRun(r)
         \/ Process(r) \/ Listens(r) \/ Works(r) \/ Crash(r)

PodSpec == PodInit /\ [][PodNext]_allVars

(* An outage ends, and nobody keeps the port of the plugin; the kubelet    *)
(* restarts, stops and in the end kills its container; the goroutines are  *)
(* scheduled and their requests end.                                       *)
PodFairSpec ==
    /\ PodSpec /\ WF_allVars(VaultReturns) /\ WF_allVars(PortFreed)
    /\ \A r \in Runs :
         /\ WF_allVars(StartContainer(r)) /\ WF_allVars(StopContainer(r))
         /\ WF_allVars(KillContainer(r)) /\ WF_allVars(Forget(r))
         /\ WF_allVars(Process(r)) /\ WF_allVars(Listens(r))
         /\ WF_allVars(Works(r) /\ Respond(r)) /\ WF_allVars(HealthAnswer(r))

-----------------------------------------------------------------------------
(* Properties.                                                             *)

(* Type correctness: one run at a time, probed from its start.             *)
PodTypeOK ==
    /\ TypeOK /\ Cardinality(Alive) <= 1
    /\ forceFlag \in BOOLEAN /\ vaultUp \in BOOLEAN /\ foreign \in BOOLEAN
    /\ failures \in 0..FailureThreshold
    /\ outages \in 0..MaxOutages /\ intrusions \in 0..MaxIntrusions
    /\ crashes \in 0..MaxCrashes

(* While a run answers probes, and so keeps itself from being restarted,   *)
(* clients reach it at the socket path (plugin.go:296-376): /health never  *)
(* looks at the socket, the order of start-up and shutdown has to do.      *)
HealthyIsReachable == \A r \in Runs : port = r => path = r

Ready ==
    \E r \in Runs : phase[r] = "serving" /\ path = r /\ port = r /\ r \notin ctxDone

(* A socket file that no run owns, in the way of a manifest without        *)
(* -force-socket-overwrite.                                                *)
Blocked == ~forceFlag /\ path # None /\ path \notin Alive

(* The ways a run ends in the middle of its service.                       *)
CutOff == {"killed", "fatalPort", "fatalServe"}

(* All that can keep the pod from its socket: a stale file is left by a    *)
(* run that was cut off while it served, that is killed, refused its       *)
(* health port or failing to accept, and by no failed login, failed bind   *)
(* or shutdown that timed out; and a run fails on its socket only where    *)
(* such a file lies and the flag is not set (socket.go:40-58,              *)
(* plugin.go:277, 302, 308, 334, 357).                                     *)
OnlyCutOffsBlock ==
    /\ path \notin Alive \cup {None} => exit[path] \in CutOff
    /\ \A r \in Runs : exit[r] = "fatalSocket" => Blocked

(* The socket at the path, in the terms of SocketFile.                     *)
SocketAt == CASE path = None -> "none"
              [] path \in listening -> "live"
              [] OTHER -> "stale"

(* To its clients the pod is a SocketFile: whichever system calls, signals *)
(* and restarts there are, a live socket is only taken away by its own run *)
(* and a stale one only on behalf of the flag (socket.go:40-58,            *)
(* plugin.go:308, plugin.go:371).                                          *)
Socket ==
    INSTANCE SocketFile WITH
        file    <- SocketAt,
        running <- Alive # {},
        force   <- forceFlag
KeepsSocket == Socket!Spec

(* docs/configuration.md:271: once outages, crashes and intrusions are     *)
(* over, the pod serves for good, unless a run that was cut off left its   *)
(* socket file and the flag is not set; restarts by the liveness probe     *)
(* during an outage do not lead to more of them (plugin.go:273, 296,       *)
(* 300-308, 357, 361-376).                                                 *)
PodRecovers == <>[](Ready \/ Blocked)

=============================================================================
