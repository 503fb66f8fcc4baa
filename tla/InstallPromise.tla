---------------------------- MODULE InstallPromise ----------------------------
(***************************************************************************)
(* What an install session promises its user, without processes or pipes:  *)
(* success is announced only for a container that holds the whole system,  *)
(* failure only for one that does not, and a session announces once.       *)
(***************************************************************************)
VARIABLES
  session,   \* idle, running, succeeded, failed
  container  \* what this session did to it: untouched, partial, installed

vars == <<session, container>>

TypeOK == /\ session \in {"idle", "running", "succeeded", "failed"}
          /\ container \in {"untouched", "partial", "installed"}

Init == session = "idle" /\ container = "untouched"

Start == /\ session = "idle"
         /\ session' = "running"
         /\ container' = "untouched"

Damage == /\ session = "running"
          /\ container = "untouched"
          /\ container' = "partial"
          /\ UNCHANGED session

Complete == /\ session = "running"
            /\ container = "partial"
            /\ container' = "installed"
            /\ UNCHANGED session

Announce == /\ session = "running"
            /\ session' = IF container = "installed" THEN "succeeded" ELSE "failed"
            /\ UNCHANGED container

Leave == /\ session \in {"succeeded", "failed"}
         /\ session' = "idle"
         /\ UNCHANGED container

\* Power loss: unsynced data may have reached the flash after all.
Crash == /\ session' = "idle"
         /\ \/ UNCHANGED container
            \/ container = "partial" /\ container' = "installed"

Next == Start \/ Damage \/ Complete \/ Announce \/ Leave \/ Crash

Spec == Init /\ [][Next]_vars
=============================================================================
