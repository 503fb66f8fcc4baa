--------------------------- MODULE MCInstallSession ---------------------------
(***************************************************************************)
(* Model checking of InstallSession, and the refinement mapping to         *)
(* InstallPromise.                                                         *)
(***************************************************************************)
EXTENDS InstallInvariant

\* The mock of the simulator installs nothing and is no session at all.
sessionBar ==
  IF ~present THEN "idle"
  ELSE IF ui = "progress" THEN (IF failed THEN "failed" ELSE "running")
  ELSE IF ui = "done" THEN "succeeded"
  ELSE "idle"

containerBar ==
  IF runs \notin touched THEN "untouched"
  ELSE IF owner = runs /\ Items \subseteq durable THEN "installed"
  ELSE "partial"

Promise == INSTANCE InstallPromise
             WITH session <- sessionBar, container <- containerBar

\* Wizard, pipe, installers and container together keep the promise: one
\* verdict per session, and the right one.
KeepsPromise == Promise!Spec
=============================================================================
