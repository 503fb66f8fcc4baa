---------------------------- MODULE InstallSession ----------------------------
(***************************************************************************)
(* The install wizard and the prp-install processes it launches, together. *)
(***************************************************************************)
EXTENDS PrpInstall, PrpWizard

CONSTANTS
  RetryWaits,    \* does the user retry only once the last installer has exited?
  PowerMayFail   \* may the power be lost at any moment?

ASSUME SessionAssumption == /\ RetryWaits \in BOOLEAN
                            /\ PowerMayFail \in BOOLEAN

vars == <<installVars, wizardVars, pipeVars>>

Init == PipeInit /\ InstallInit /\ WizardInit

\* fork() and exec of prp-install by the wizard.
Launch(r) == /\ RetryWaits => \A q \in Runs : ~Active(q)
             /\ StartInstall(r)
             /\ Spawn(r)
             /\ UNCHANGED <<mountVars, contentVars>>

\* wizard_close signals the child it still knows of, and waits for it.
CloseWizard == /\ Close
               /\ pc' = IF pid # NoRun /\ Active(pid)
                        THEN [pc EXCEPT ![pid] = "killed"] ELSE pc
               /\ UNCHANGED <<failedAt, mountVars, contentVars>>

WizardStep == \/ Show \/ Next_cb \/ Back_cb
              \/ StartFails \/ StartMock \/ MockDone

Poll(r) == PollVerdict(r) \/ PollEof(r, pc[r] \in Gone)

PowerLoss == /\ PowerMayFail
             /\ LosePower
             /\ ui' = "closed"
             /\ failed' = FALSE
             /\ timer' = "none"
             /\ pid' = NoRun
             /\ fd' = NoRun
             /\ out' = [r \in Runs |-> << >>]
             /\ UNCHANGED <<runs, present>>

Next == \/ WizardStep /\ UNCHANGED installVars
        \/ CloseWizard
        \/ PowerLoss
        \/ StaleWriteBack /\ UNCHANGED <<wizardVars, pipeVars>>
        \/ \E r \in Runs : \/ Launch(r)
                           \/ Poll(r) /\ UNCHANGED installVars
                           \/ InstallerStep(r) /\ UNCHANGED wizardVars

Spec == Init /\ [][Next]_vars

\* LVGL keeps calling a timer that is set, and a running process proceeds (the
\* commands it waits for end).  Nothing is assumed of the user or the power.
Fairness == /\ WF_vars(MockDone /\ UNCHANGED installVars)
            /\ \A r \in Runs :
                 /\ WF_vars(Poll(r) /\ UNCHANGED installVars)
                 /\ WF_vars(InstallerStep(r) /\ UNCHANGED wizardVars)

FairSpec == Spec /\ Fairness

-----------------------------------------------------------------------------
(* Properties. *)

\* Every variable holds a value of its type.
TypeOK == PipeTypeOK /\ InstallTypeOK /\ WizardTypeOK

\* "PeacockOS installed" is shown only when the whole system (base, flavor,
\* assembly, boot files, network hand-over) is on the flash: pulling the
\* battery on the done page loses nothing.  The simulator's mock is exempt.
DoneIsDurable == ui = "done" /\ present => Items \subseteq durable

\* The progress page offers the way back after a failure only for an install
\* that did not complete: a finished system is never called a failure.
NoFalseFailure == failed => ~(owner = runs /\ Items \subseteq durable)

\* An installer that ran to its exit has unmounted what it mounted and
\* detached its loop device, whichever step failed and whatever an earlier
\* attempt left mounted under it; only what the kernel itself refused to let
\* go may stay, for the trap ignores that.
ExitCleansUp ==
  \A r \in Runs \ refused : pc[r] = "exited" => Clear(r) /\ r \notin attached

\* lk2nd boots the container as soon as extlinux.conf is there, so at every
\* instant of a reinstall its presence implies a complete root file system.  An
\* install that a power loss cut off is exempt: the first sync comes after
\* extlinux.conf, so any part of what was written may have reached the flash.
BootableIsComplete ==
  BootItems \subseteq written /\ (owner = NoRun \/ pc[owner] # "killed") =>
    {"base", "flavor", "assembled"} \subseteq written

\* No installer dies while the wizard still follows it: the buttons that
\* close the wizard, which would SIGTERM the child past its EXIT trap, are
\* out of reach until there is a verdict.
NeverCutOff ==
  [][\A r \in Runs : Active(r) /\ pc'[r] = "killed" => ~HasReader(r)]_vars

\* An install that was started comes to an end the user can act on: the done
\* page, or a failure with the way back, unless the power is lost first.
EveryInstallEnds == ui = "progress" ~> ui # "progress" \/ failed
=============================================================================
