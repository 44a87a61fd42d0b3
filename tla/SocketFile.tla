----------------------------- MODULE SocketFile ------------------------------
(***************************************************************************)
(* The file at the socket path of a node as the clients of the plugin see  *)
(* it, from one run of the plugin to the next: without phases, signals,    *)
(* probes and requests.  It is what Pod promises: no run takes the socket  *)
(* of another, and what a run that was cut off leaves behind is only       *)
(* removed on behalf of -force-socket-overwrite, so that without the flag  *)
(* it is there for good.                                                   *)
(***************************************************************************)

VARIABLES
    file,      \* "none"; "live": somebody accepts at it; "stale": nobody does
    running,   \* a run of the plugin is alive
    force      \* -force-socket-overwrite is set

socketVars == <<file, running, force>>

Init ==
    /\ file = "none" /\ running = FALSE
    /\ force \in BOOLEAN

(* One run at a time.                                                      *)
Start ==
    /\ ~running /\ running' = TRUE
    /\ UNCHANGED <<file, force>>

Overwrite ==
    /\ running /\ force
    /\ file = "stale" /\ file' = "none"
    /\ UNCHANGED <<running, force>>

Bind ==
    /\ running
    /\ file = "none" /\ file' = "live"
    /\ UNCHANGED <<running, force>>

(* The run goes on without its socket: it answers what it has received.    *)
Close ==
    /\ running
    /\ file = "live" /\ file' = "none"
    /\ UNCHANGED <<running, force>>

(* A run that ends with its socket open removes the file or not.           *)
End ==
    /\ running /\ running' = FALSE
    /\ file' \in IF file = "live" THEN {"none", "stale"} ELSE {file}
    /\ UNCHANGED force

Next == Start \/ Overwrite \/ Bind \/ Close \/ End

Spec == Init /\ [][Next]_socketVars

=============================================================================
