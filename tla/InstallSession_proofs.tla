------------------------ MODULE InstallSession_proofs ------------------------
(***************************************************************************)
(* Proofs about InstallSession, for every number of installs and with      *)
(* failures, SIGPIPE and power losses at every step: its types, that no    *)
(* installer is cut off, that no complete install is called a failure, the *)
(* properties that rest on the inductive invariants of InstallInvariant,   *)
(* and the refinement of InstallPromise (KeepsPromise).                    *)
(***************************************************************************)
EXTENDS MCInstallSession, SequenceTheorems, TLAPS

LEMMA SeqPop == ASSUME NEW S, NEW s \in Seq(S), s # << >>
                PROVE SubSeq(s, 1, Len(s) - 1) \in Seq(S)
  OBVIOUS

LEMMA SeqPush == ASSUME NEW S, NEW s \in Seq(S), NEW x \in S
                 PROVE Append(s, x) \in Seq(S)
  BY AppendProperties

LEMMA UmountType ==
  ASSUME mounts \in Seq(Layers), refused \subseteq Runs, NEW part, Umount(part)
  PROVE  mounts' \in Seq(Layers) /\ refused' \subseteq Runs
  <1>1. CASE TopOfKind(part)
    <2>1. /\ mounts' = mounts \/ mounts' = SubSeq(mounts, 1, Len(mounts) - 1)
          /\ refused' = refused \/ refused' = refused \cup {mounts[Len(mounts)][1]}
      BY <1>1 DEF Umount
    <2>2. mounts # << >>
      BY <1>1 DEF TopOfKind
    <2>3. mounts[Len(mounts)] \in Layers
      BY <2>2
    <2>4. mounts[Len(mounts)][1] \in Runs
      BY <2>3 DEF Layers
    <2>5. QED
      BY <2>1, <2>2, <2>4, SeqPop
  <1>2. CASE ~TopOfKind(part)
    BY <1>2 DEF Umount
  <1>3. QED
    BY <1>1, <1>2

LEMMA SeqNone == ASSUME NEW S PROVE << >> \in Seq(S)
  BY EmptySeq

\* A verdict line written to a pipe, and a pipe that is closed or opened,
\* leave pipes.
LEMMA WriteType ==
  ASSUME PipeTypeOK, NEW r \in Runs, NEW line \in Verdicts, Write(r, line)
  PROVE  PipeTypeOK'
  <1>1. Append(out[r], line) \in Seq(Verdicts)
    BY SeqPush DEF PipeTypeOK
  <1>2. QED
    BY <1>1 DEF PipeTypeOK, Write

LEMMA CloseType ==
  ASSUME PipeTypeOK, NEW r \in Runs, ClosePipe(r)
  PROVE  PipeTypeOK'
  BY SeqNone DEF PipeTypeOK, ClosePipe

LEMMA TypeInit == Init => TypeOK
  <1> SUFFICES ASSUME Init PROVE TypeOK
    OBVIOUS
  <1>1. PipeTypeOK
    BY SeqNone DEF Init, PipeInit, PipeTypeOK
  <1>2. InstallTypeOK
    BY SeqNone DEF Init, InstallInit, InstallTypeOK, Steps
  <1>3. WizardTypeOK
    <2>1. 0 \in 0 .. MaxRuns
      BY MaxRunsAssumption
    <2>2. QED
      BY <2>1 DEF Init, WizardInit, WizardTypeOK, Uis
  <1>4. QED
    BY <1>1, <1>2, <1>3 DEF TypeOK

LEMMA WizardType == TypeOK /\ WizardStep /\ UNCHANGED installVars => TypeOK'
  <1> USE DEF TypeOK, PipeTypeOK, InstallTypeOK, WizardTypeOK, installVars,
              processVars, mountVars, contentVars, pipeVars
  <1> SUFFICES ASSUME TypeOK, WizardStep, UNCHANGED installVars PROVE TypeOK'
    OBVIOUS
  <1>1. CASE Show
    BY <1>1 DEF Show, Uis
  <1>2. CASE Next_cb
    BY <1>2 DEF Next_cb, TurnPage, Pages, Uis
  <1>3. CASE Back_cb
    BY <1>3 DEF Back_cb, TurnPage, Pages, Uis
  <1>4. CASE StartFails \/ StartMock \/ MockDone
    BY <1>4 DEF StartFails, StartMock, MockDone, Uis
  <1>5. QED
    BY <1>1, <1>2, <1>3, <1>4 DEF WizardStep

LEMMA InstallerType ==
  ASSUME TypeOK, NEW r \in Runs, InstallerStep(r), UNCHANGED wizardVars
  PROVE  TypeOK'
  <1> USE DEF TypeOK, PipeTypeOK, InstallTypeOK, WizardTypeOK, wizardVars,
              installVars, processVars, mountVars, contentVars, pipeVars,
              Goto, Say
  <1>1. CASE CheckNetwork(r) \/ ResolvePackages(r) \/ ResolveTarget(r) \/ CheckIndex(r)
    BY <1>1 DEF CheckNetwork, ResolvePackages, ResolveTarget, CheckIndex,
                Steps, Silent, Printing
  <1>2. CASE WriteGpt(r) \/ AttachLoop(r)
    BY <1>2 DEF WriteGpt, AttachLoop, Steps, Silent, Printing
  <1>3. CASE MkfsBoot(r) \/ MkfsRoot(r)
    BY <1>3 DEF MkfsBoot, MkfsRoot, Wipe, Steps, Silent, Printing
  <1>4. CASE MountRoot(r) \/ MountBoot(r)
    <2>1. <<r, "root">> \in Layers /\ <<r, "boot">> \in Layers
      BY DEF Layers
    <2>2. /\ Append(mounts, <<r, "root">>) \in Seq(Layers)
          /\ Append(mounts, <<r, "boot">>) \in Seq(Layers)
      <3>1. mounts \in Seq(Layers)
        OBVIOUS
      <3>2. QED
        BY ONLY <2>1, <3>1, SeqPush
    <2>3. QED
      BY <1>4, <2>2 DEF MountRoot, MountBoot, Steps, Silent, Printing
  <1>5. CASE InstallBase(r) \/ Assemble(r) \/ StageBootloader(r)
               \/ SkipBootloader(r) \/ SaveNetwork(r)
    BY <1>5 DEF InstallBase, Assemble, StageBootloader, SkipBootloader,
             SaveNetwork,
                PutUnchecked, Put, Items, RootItems, BootItems, Steps, Silent, Printing
  <1>6. CASE ApplyFlavor(r)
    <2>1. PipeTypeOK'
      BY <1>6, WriteType DEF ApplyFlavor, Verdicts
    <2>2. InstallTypeOK'
      BY <1>6 DEF ApplyFlavor, PutUnchecked, Put, Items, RootItems, BootItems,
               Steps, Silent,
                  Printing
    <2>3. QED
      BY <2>1, <2>2
  <1>7. CASE HookSync(r) \/ FinalSync(r)
    BY <1>7 DEF HookSync, FinalSync, Sync, Steps, Silent, Printing
  <1>8. CASE DoneOk(r)
    BY <1>8, WriteType DEF DoneOk, Verdicts, Steps, Cleanup
  <1>9. CASE StepFails(r)
    <2>1. PipeTypeOK'
      BY <1>9, WriteType DEF StepFails, ChildError, Verdicts
    <2>2. InstallTypeOK'
      BY <1>9 DEF StepFails, FailEffect, Wipe, Steps, Printing, Failable
    <2>3. QED
      BY <2>1, <2>2
  <1>10. CASE Fail(r)
    BY <1>10, WriteType DEF Fail, Verdicts, Steps, Cleanup, Gone
  <1>11. CASE SigPipe(r)
    BY <1>11 DEF SigPipe, Steps, Gone
  <1>12. CASE UmountBoot(r) \/ UmountRoot(r)
    <2>1. mounts' \in Seq(Layers) /\ refused' \subseteq Runs
      BY <1>12, UmountType DEF UmountBoot, UmountRoot
    <2>2. QED
      BY <1>12, <2>1 DEF UmountBoot, UmountRoot, Steps, Cleanup
  <1>13. CASE Detach(r)
    BY <1>13 DEF Detach, Steps, Gone
  <1>14. QED
    BY <1>1, <1>2, <1>3, <1>4, <1>5, <1>6, <1>7, <1>8, <1>9, <1>10, <1>11,
       <1>12, <1>13 DEF InstallerStep

LEMMA CloseWizardType == TypeOK /\ CloseWizard => TypeOK'
  BY DEF TypeOK, PipeTypeOK, InstallTypeOK, WizardTypeOK, mountVars, contentVars,
         CloseWizard, Close, Uis, Steps, Gone

LEMMA PowerLossType == TypeOK /\ PowerLoss => TypeOK'
  <1> SUFFICES ASSUME TypeOK, PowerLoss PROVE TypeOK'
    OBVIOUS
  <1>1. PipeTypeOK'
    BY SeqNone DEF PowerLoss, PipeTypeOK
  <1>2. InstallTypeOK'
    BY SeqNone DEF TypeOK, InstallTypeOK, PowerLoss, LosePower, Steps, Gone
  <1>3. WizardTypeOK'
    BY DEF TypeOK, WizardTypeOK, PowerLoss, Uis
  <1>4. QED
    BY <1>1, <1>2, <1>3 DEF TypeOK

LEMMA LaunchType ==
  ASSUME TypeOK, NEW r \in Runs, Launch(r)
  PROVE  TypeOK'
  <1>1. r \in 0 .. MaxRuns
    BY MaxRunsAssumption DEF Runs
  <1>2. QED
    BY <1>1 DEF TypeOK, PipeTypeOK, InstallTypeOK, WizardTypeOK, mountVars,
                contentVars, Launch, StartInstall, Spawn, Goto, OpenPipe, Uis,
                Steps, Printing

LEMMA PollType ==
  ASSUME TypeOK, NEW r \in Runs, Poll(r), UNCHANGED installVars
  PROVE  TypeOK'
  <1>1. PICK ok \in BOOLEAN : Finish(r, ok)
    BY DEF Poll, PollVerdict, PollEof
  <1>2. PipeTypeOK'
    BY <1>1, CloseType DEF Finish, TypeOK
  <1>3. WizardTypeOK'
    BY <1>1 DEF Finish, Uis, TypeOK, WizardTypeOK
  <1>4. InstallTypeOK'
    BY DEF TypeOK, InstallTypeOK, installVars, processVars, mountVars, contentVars
  <1>5. QED
    BY <1>2, <1>3, <1>4 DEF TypeOK

LEMMA StutterType == TypeOK /\ UNCHANGED vars => TypeOK'
  BY DEF vars, TypeOK, PipeTypeOK, InstallTypeOK, WizardTypeOK, installVars,
         wizardVars, pipeVars, processVars, mountVars, contentVars

LEMMA StaleType ==
  ASSUME TypeOK, StaleWriteBack, UNCHANGED <<wizardVars, pipeVars>>
  PROVE  TypeOK'
  BY DEF TypeOK, PipeTypeOK, InstallTypeOK, WizardTypeOK, StaleWriteBack,
         wizardVars, pipeVars, processVars, mountVars

LEMMA NextType == TypeOK /\ [Next]_vars => TypeOK'
  <1> SUFFICES ASSUME TypeOK, [Next]_vars PROVE TypeOK'
    OBVIOUS
  <1>1. CASE WizardStep /\ UNCHANGED installVars
    BY <1>1, WizardType
  <1>2. CASE CloseWizard
    BY <1>2, CloseWizardType
  <1>3. CASE PowerLoss
    BY <1>3, PowerLossType
  <1>4. ASSUME NEW r \in Runs, Launch(r) PROVE TypeOK'
    BY <1>4, LaunchType
  <1>5. ASSUME NEW r \in Runs, Poll(r), UNCHANGED installVars PROVE TypeOK'
    BY <1>5, PollType
  <1>6. ASSUME NEW r \in Runs, InstallerStep(r), UNCHANGED wizardVars
        PROVE  TypeOK'
    BY <1>6, InstallerType
  <1>7. CASE StaleWriteBack /\ UNCHANGED <<wizardVars, pipeVars>>
    BY <1>7, StaleType
  <1>8. CASE UNCHANGED vars
    BY <1>8, StutterType
  <1>9. QED
    BY <1>1, <1>2, <1>3, <1>4, <1>5, <1>6, <1>7, <1>8 DEF Next

\* Every variable keeps its type, whatever the switches say.
THEOREM TypeCorrect == Spec => []TypeOK
  <1>1. Init => TypeOK
    BY TypeInit
  <1>2. TypeOK /\ [Next]_vars => TypeOK'
    BY NextType
  <1>3. QED
    BY <1>1, <1>2, PTL DEF Spec

-----------------------------------------------------------------------------
(* NeverCutOff. *)

\* A step of one run leaves the other runs and the choice of pipe alone.
LEMMA StepIsLocal ==
  ASSUME TypeOK, NEW r \in Runs, InstallerStep(r)
  PROVE  /\ Active(r)
         /\ fd' = fd
         /\ \A q \in Runs \ {r} : /\ pc'[q] = pc[q] /\ out'[q] = out[q]
                                  /\ failedAt'[q] = failedAt[q]
  <1> USE DEF TypeOK, PipeTypeOK, InstallTypeOK, Goto, Say, Write, pipeVars,
              Active, Gone
  <1>1. CASE \/ CheckNetwork(r) \/ ResolvePackages(r) \/ ResolveTarget(r)
             \/ WriteGpt(r) \/ AttachLoop(r) \/ MkfsBoot(r) \/ MkfsRoot(r)
             \/ MountRoot(r) \/ MountBoot(r) \/ CheckIndex(r)
    BY <1>1 DEF CheckNetwork, ResolvePackages, ResolveTarget, WriteGpt,
                AttachLoop, MkfsBoot, MkfsRoot, MountRoot, MountBoot, CheckIndex
  <1>2. CASE \/ InstallBase(r) \/ ApplyFlavor(r) \/ Assemble(r)
             \/ StageBootloader(r) \/ SkipBootloader(r) \/ HookSync(r)
             \/ SaveNetwork(r)
             \/ FinalSync(r)
    BY <1>2 DEF InstallBase, ApplyFlavor, Assemble, StageBootloader,
             SkipBootloader, HookSync,
                SaveNetwork, FinalSync
  <1>3. CASE DoneOk(r) \/ Fail(r) \/ SigPipe(r)
    BY <1>3 DEF DoneOk, Fail, SigPipe, Printing
  <1>4. CASE StepFails(r)
    BY <1>4 DEF StepFails, ChildError, Failable
  <1>5. CASE UmountBoot(r) \/ UmountRoot(r) \/ Detach(r)
    BY <1>5 DEF UmountBoot, UmountRoot, Detach
  <1>6. QED
    BY <1>1, <1>2, <1>3, <1>4, <1>5 DEF InstallerStep

\* Only a shell that nobody listens to is killed in a step of its own.
LEMMA KilledUnheard ==
  ASSUME TypeOK, NEW r \in Runs, InstallerStep(r), pc'[r] = "killed"
  PROVE  ~HasReader(r)
  <1> USE DEF TypeOK, InstallTypeOK, Goto, Say
  <1>1. CASE \/ CheckNetwork(r) \/ ResolvePackages(r) \/ ResolveTarget(r)
             \/ WriteGpt(r) \/ AttachLoop(r) \/ MkfsBoot(r) \/ MkfsRoot(r)
             \/ MountRoot(r) \/ MountBoot(r) \/ CheckIndex(r)
    BY <1>1 DEF CheckNetwork, ResolvePackages, ResolveTarget, WriteGpt,
                AttachLoop, MkfsBoot, MkfsRoot, MountRoot, MountBoot, CheckIndex
  <1>2. CASE \/ InstallBase(r) \/ ApplyFlavor(r) \/ Assemble(r)
             \/ StageBootloader(r) \/ SkipBootloader(r) \/ HookSync(r)
             \/ SaveNetwork(r)
             \/ FinalSync(r) \/ DoneOk(r)
    BY <1>2 DEF InstallBase, ApplyFlavor, Assemble, StageBootloader,
             SkipBootloader, HookSync,
                SaveNetwork, FinalSync, DoneOk
  <1>3. CASE Fail(r) \/ StepFails(r) \/ UmountBoot(r) \/ UmountRoot(r) \/ Detach(r)
    BY <1>3 DEF Fail, StepFails, UmountBoot, UmountRoot, Detach
  <1>4. CASE SigPipe(r)
    BY <1>4 DEF SigPipe
  <1>5. QED
    BY <1>1, <1>2, <1>3, <1>4 DEF InstallerStep

\* The page's buttons come only after install_finish.
LEMMA SignalNext == NothingToSignal /\ [Next]_vars => NothingToSignal'
  <1> SUFFICES ASSUME NothingToSignal, [Next]_vars PROVE NothingToSignal'
    OBVIOUS
  <1> USE DEF NothingToSignal
  <1>1. CASE WizardStep
    <2>1. CASE Show
      BY <2>1 DEF Show
    <2>2. CASE Next_cb \/ Back_cb
      BY <2>2 DEF Next_cb, Back_cb, TurnPage, Pages
    <2>3. CASE StartFails \/ StartMock \/ MockDone
      BY <2>3 DEF StartFails, StartMock, MockDone
    <2>4. QED
      BY <1>1, <2>1, <2>2, <2>3 DEF WizardStep
  <1>2. CASE CloseWizard \/ PowerLoss
    BY <1>2 DEF CloseWizard, Close, PowerLoss
  <1>3. ASSUME NEW r \in Runs, Launch(r) PROVE NothingToSignal'
    BY <1>3 DEF Launch, StartInstall
  <1>4. ASSUME NEW r \in Runs, Poll(r) PROVE NothingToSignal'
    BY <1>4 DEF Poll, PollVerdict, PollEof, Finish
  <1>5. CASE UNCHANGED wizardVars
    BY <1>5 DEF wizardVars
  <1>6. QED
    BY <1>1, <1>2, <1>3, <1>4, <1>5 DEF Next, vars

\* A step that kills a run which had a reader is a power loss.
LEMMA OnlyPowerCutsOff ==
  ASSUME TypeOK, NothingToSignal, ~PowerMayFail, [Next]_vars,
         NEW r \in Runs, Active(r), pc'[r] = "killed"
  PROVE  ~HasReader(r)
  <1> USE DEF TypeOK, InstallTypeOK
  <1>1. pc[r] # "killed"
    BY DEF Active, Gone
  <1>2. CASE UNCHANGED pc
    BY <1>1, <1>2
  <1>3. CASE CloseWizard
    BY <1>1, <1>3 DEF CloseWizard, Close, NothingToSignal
  <1>4. CASE PowerLoss
    BY <1>4 DEF PowerLoss
  <1>5. ASSUME NEW q \in Runs, Launch(q) PROVE FALSE
    BY <1>1, <1>5 DEF Launch, Spawn, Goto
  <1>6. ASSUME NEW q \in Runs, InstallerStep(q), q # r PROVE FALSE
    BY <1>1, <1>6, StepIsLocal
  <1>7. CASE InstallerStep(r)
    BY <1>7, KilledUnheard
  <1>8. QED
    BY <1>2, <1>3, <1>4, <1>5, <1>6, <1>7
       DEF Next, vars, installVars, processVars, StaleWriteBack

\* No installer is killed while the wizard follows it, unless the power is lost:
\* wizard_close has nothing to signal, and a shell that has a reader gets no
\* SIGPIPE.
THEOREM InstallerRunsOn == ~PowerMayFail => (Spec => NeverCutOff)
  <1> SUFFICES ASSUME ~PowerMayFail PROVE Spec => NeverCutOff
    OBVIOUS
  <1>1. Init => NothingToSignal
    BY DEF Init, WizardInit, NothingToSignal
  <1>2. NothingToSignal /\ [Next]_vars => NothingToSignal'
    BY SignalNext
  <1> DEFINE HeardLives == \A r \in Runs :
               Active(r) /\ pc'[r] = "killed" => ~HasReader(r)
  <1>3. TypeOK /\ NothingToSignal /\ [Next]_vars => HeardLives
    BY OnlyPowerCutsOff
  <1>4. Spec => []TypeOK
    BY TypeCorrect
  <1>5. TypeOK /\ NothingToSignal /\ [Next]_vars => [HeardLives]_vars
    BY <1>3
  <1>6. QED
    BY <1>1, <1>2, <1>4, <1>5, PTL DEF Spec, NeverCutOff

-----------------------------------------------------------------------------
(* NoFalseFailure. *)

\* The container changes hands only to the run that takes the step, and only its
\* owner adds to it.
LEMMA StepOnContainer ==
  ASSUME TypeOK, NEW r \in Runs, InstallerStep(r)
  PROVE  /\ owner' = owner \/ owner' = r
         /\ owner' # r => Present' \subseteq Present
  <1> USE DEF contentVars, Present
  <1>1. CASE UNCHANGED <<owner, written, durable>>
    BY <1>1
  <1>2. CASE MkfsBoot(r) \/ MkfsRoot(r)
    BY <1>2 DEF MkfsBoot, MkfsRoot, Wipe
  <1>3. CASE InstallBase(r) \/ ApplyFlavor(r) \/ Assemble(r)
               \/ StageBootloader(r) \/ SkipBootloader(r) \/ SaveNetwork(r)
    BY <1>3 DEF InstallBase, ApplyFlavor, Assemble, StageBootloader,
             SkipBootloader, SaveNetwork,
                PutUnchecked, Put, Lands
  <1>4. CASE HookSync(r) \/ FinalSync(r)
    BY <1>4 DEF HookSync, FinalSync, Sync
  <1>5. CASE StepFails(r)
    BY <1>5 DEF StepFails, FailEffect, Wipe
  <1>6. CASE \/ CheckNetwork(r) \/ ResolvePackages(r) \/ ResolveTarget(r)
             \/ WriteGpt(r) \/ AttachLoop(r) \/ MountRoot(r) \/ MountBoot(r)
             \/ CheckIndex(r)
    BY <1>1, <1>6 DEF CheckNetwork, ResolvePackages, ResolveTarget, WriteGpt,
         AttachLoop, MountRoot, MountBoot, CheckIndex
  <1>7. CASE DoneOk(r) \/ Fail(r) \/ SigPipe(r)
               \/ UmountBoot(r) \/ UmountRoot(r) \/ Detach(r)
    BY <1>1, <1>7 DEF DoneOk, Fail, SigPipe, UmountBoot, UmountRoot, Detach
  <1>8. QED
    BY <1>2, <1>3, <1>4, <1>5, <1>6, <1>7 DEF InstallerStep

\* Another run's step leaves what is known of run q.
LEMMA OthersKeepFailure ==
  ASSUME TypeOK, FailureInv, NEW r \in Runs, InstallerStep(r),
         NEW q \in Runs, q # r
  PROVE  Incomplete(q)' /\ Truthful(q)'
  <1>1. /\ fd' = fd /\ pc'[q] = pc[q] /\ out'[q] = out[q]
        /\ failedAt'[q] = failedAt[q]
    BY StepIsLocal
  <1>2. owner' = q => owner = q /\ Present' \subseteq Present
    BY StepOnContainer
  <1>3. owner # q => owner' # q
    BY StepOnContainer
  <1>4. Incomplete(q) /\ Truthful(q)
    BY DEF FailureInv
  <1>5. Incomplete(q)'
    BY <1>1, <1>2, <1>3, <1>4 DEF Incomplete
  <1>6. Truthful(q)'
    BY <1>1, <1>4 DEF Truthful
  <1>7. QED
    BY <1>5, <1>6

\* What the run that takes the step has put on the container.
LEMMA OwnIncomplete ==
  ASSUME TypeOK, FailureInv, NEW r \in Runs, InstallerStep(r)
  PROVE  Incomplete(r)'
  <1>1. Incomplete(r) /\ Truthful(r)
    BY DEF FailureInv
  <1>2. failedAt[r] # "none" => pc[r] \in Ending
    BY <1>1 DEF Truthful
  <1> USE DEF Incomplete, BeforeMkfs, BeforeLoop, Present, Ending, Cleanup, Gone,
              Goto, Say, contentVars, TypeOK, InstallTypeOK
  <1>3. CASE CheckNetwork(r) \/ ResolvePackages(r) \/ ResolveTarget(r)
    BY <1>1, <1>2, <1>3 DEF CheckNetwork, ResolvePackages, ResolveTarget
  <1>4. CASE WriteGpt(r) \/ AttachLoop(r)
    BY <1>1, <1>2, <1>4 DEF WriteGpt, AttachLoop
  <1>5. CASE MkfsBoot(r) \/ MkfsRoot(r)
    BY <1>1, <1>2, <1>5 DEF MkfsBoot, MkfsRoot, Wipe, BootItems, RootItems, Items
  <1>6. CASE MountRoot(r) \/ MountBoot(r) \/ CheckIndex(r)
    BY <1>1, <1>2, <1>6 DEF MountRoot, MountBoot, CheckIndex
  <1>7. CASE InstallBase(r) \/ ApplyFlavor(r) \/ Assemble(r)
               \/ StageBootloader(r) \/ SkipBootloader(r)
    BY <1>1, <1>2, <1>7 DEF InstallBase, ApplyFlavor, Assemble, StageBootloader,
                            SkipBootloader, PutUnchecked, Put
  <1>8. CASE HookSync(r) \/ FinalSync(r)
    BY <1>1, <1>2, <1>8 DEF HookSync, FinalSync, Sync
  <1>9. CASE SaveNetwork(r)
    BY <1>1, <1>2, <1>9 DEF SaveNetwork, PutUnchecked, Put
  <1>10. CASE DoneOk(r) \/ Fail(r) \/ SigPipe(r)
    BY <1>1, <1>2, <1>10 DEF DoneOk, Fail, SigPipe, Printing
  <1>11. CASE StepFails(r)
    <2>1. pc[r] \in Failable /\ pc'[r] = "fail" /\ FailEffect(r)
      BY <1>11 DEF StepFails
    <2>2. owner' = r => ~(Items \subseteq Present')
      <3>1. CASE UNCHANGED contentVars \/ UNCHANGED <<owner, written, durable>>
        BY <1>1, <2>1, <3>1 DEF Failable, Items, BootItems, RootItems
      <3>2. CASE pc[r] = "mkfs_boot" /\ Wipe(r, BootItems)
        BY <3>2 DEF Wipe, Items, BootItems, RootItems
      <3>3. CASE pc[r] = "mkfs_root" /\ Wipe(r, RootItems)
        BY <3>3 DEF Wipe, Items, BootItems, RootItems
      <3>4. QED
        BY <2>1, <3>1, <3>2, <3>3 DEF FailEffect
    <2>3. QED
      BY <2>1, <2>2
  <1>12. CASE UmountBoot(r) \/ UmountRoot(r) \/ Detach(r)
    BY <1>1, <1>2, <1>12 DEF UmountBoot, UmountRoot, Detach
  <1>13. QED
    BY <1>3, <1>4, <1>5, <1>6, <1>7, <1>8, <1>9, <1>10, <1>11, <1>12
       DEF InstallerStep

\* A line appended to a pipe leaves the first one first.
LEMMA HeadOfAppend ==
  ASSUME NEW S, NEW s \in Seq(S), NEW x \in S
  PROVE  /\ Append(s, x) # << >>
         /\ Head(Append(s, x)) = IF s = << >> THEN x ELSE Head(s)
  <1>1. Append(s, x) # << >> /\ Head(Append(s, x)) = Append(s, x)[1]
    OBVIOUS
  <1>2. CASE s = << >>
    BY <1>1, <1>2
  <1>3. CASE s # << >>
    <2>1. Len(s) >= 1
      BY <1>3
    <2>2. Append(s, x)[1] = s[1]
      BY <2>1
    <2>3. Head(s) = s[1]
      BY <1>3
    <2>4. QED
      BY <1>1, <1>3, <2>2, <2>3
  <1>4. QED
    BY <1>2, <1>3

\* What the run that takes the step has said.
LEMMA OwnTruthful ==
  ASSUME TypeOK, FailureInv, NEW r \in Runs, InstallerStep(r)
  PROVE  Truthful(r)'
  <1>1. /\ Truthful(r) /\ fd' = fd /\ Active(r)
        /\ fd = r => pc'[r] # "killed"
    BY StepIsLocal, KilledUnheard DEF FailureInv, HasReader
  <1>2. out[r] \in Seq(Verdicts)
    BY DEF TypeOK, PipeTypeOK
  <1>3. \A line \in Verdicts :
          Write(r, line) => /\ out'[r] # << >> /\ fd = r
                            /\ Head(out'[r]) = IF out[r] = << >> THEN line
                                               ELSE Head(out[r])
    BY <1>2, HeadOfAppend DEF Write, HasReader, TypeOK, PipeTypeOK
  <1>4. "done" \in Verdicts /\ "error" \in Verdicts
    BY DEF Verdicts
  <1> USE DEF Truthful, Ending, Cleanup, Gone, Goto, Say, pipeVars, Active,
              InstallTypeOK, TypeOK
  <1> HIDE DEF PipeTypeOK, WizardTypeOK
  <1>5. CASE \/ CheckNetwork(r) \/ ResolvePackages(r) \/ ResolveTarget(r)
             \/ WriteGpt(r) \/ AttachLoop(r) \/ MkfsBoot(r) \/ MkfsRoot(r)
             \/ MountRoot(r) \/ MountBoot(r) \/ CheckIndex(r)
    BY <1>1, <1>5 DEF CheckNetwork, ResolvePackages, ResolveTarget, WriteGpt,
         AttachLoop, MkfsBoot, MkfsRoot, MountRoot, MountBoot, CheckIndex
  <1>6. CASE \/ InstallBase(r) \/ Assemble(r) \/ StageBootloader(r)
             \/ SkipBootloader(r) \/ HookSync(r)
             \/ SaveNetwork(r) \/ FinalSync(r)
    BY <1>1, <1>6 DEF InstallBase, Assemble, StageBootloader, SkipBootloader,
             HookSync,
         SaveNetwork, FinalSync
  <1>7. CASE ApplyFlavor(r)
    BY <1>1, <1>3, <1>4, <1>7 DEF ApplyFlavor
  <1>8. CASE DoneOk(r)
    BY <1>1, <1>3, <1>4, <1>8 DEF DoneOk
  <1>9. CASE StepFails(r)
    <2>1. pc'[r] = "fail" /\ failedAt'[r] # "none"
      BY <1>9 DEF StepFails, Failable
    <2>2. QED
      BY <1>1, <2>1
  <1>10. CASE Fail(r)
    <2>1. pc[r] = "fail" /\ failedAt'[r] = failedAt[r]
          /\ pc'[r] \in {"exited", "umount_boot"}
      BY <1>10 DEF Fail
    <2>2. QED
      BY <1>1, <2>1
  <1>11. CASE SigPipe(r)
    BY <1>1, <1>11 DEF SigPipe, HasReader
  <1>12. CASE UmountBoot(r) \/ UmountRoot(r) \/ Detach(r)
    BY <1>1, <1>12 DEF UmountBoot, UmountRoot, Detach
  <1>13. QED
    BY <1>5, <1>6, <1>7, <1>8, <1>9, <1>10, <1>11, <1>12 DEF InstallerStep

LEMMA InstallerKeepsFailure ==
  ASSUME TypeOK, FailureInv, NEW r \in Runs, InstallerStep(r),
         UNCHANGED wizardVars
  PROVE  FailureInv'
  <1>1. \A q \in Runs : Incomplete(q)' /\ Truthful(q)'
    BY OwnIncomplete, OwnTruthful, OthersKeepFailure
  <1>2. fd' = fd /\ runs' = runs /\ failed' = failed
    BY StepIsLocal DEF wizardVars
  <1>3. failed => failedAt'[runs] # "none"
    <2> SUFFICES ASSUME failed PROVE failedAt'[runs] # "none"
      OBVIOUS
    <2>1. runs \in Runs /\ failedAt[runs] # "none"
      BY DEF FailureInv
    <2>2. CASE runs # r
      BY <2>1, <2>2, StepIsLocal
    <2>3. CASE runs = r
      <3>1. pc[r] \in Ending
        BY <2>1, <2>3 DEF FailureInv, Truthful
      <3>2. failedAt'[r] = failedAt[r] \/ StepFails(r)
        BY DEF InstallerStep, CheckNetwork, ResolvePackages, ResolveTarget,
               WriteGpt, AttachLoop, MkfsBoot, MkfsRoot, MountRoot, MountBoot,
               CheckIndex, InstallBase, ApplyFlavor, Assemble, StageBootloader,
               SkipBootloader,
               HookSync, SaveNetwork, FinalSync, DoneOk, Fail, SigPipe,
               UmountBoot, UmountRoot, Detach, Say, Goto
      <3>3. ~StepFails(r)
        BY <3>1 DEF StepFails, Failable, Ending, Cleanup, Gone
      <3>4. QED
        BY <2>1, <2>3, <3>2, <3>3
    <2>4. QED
      BY <2>2, <2>3
  <1>4. QED
    BY <1>1, <1>2, <1>3 DEF FailureInv

\* The verdict the page shows is the run's own.
LEMMA PollKeepsFailure ==
  ASSUME TypeOK, FailureInv, NEW r \in Runs, Poll(r), UNCHANGED installVars
  PROVE  FailureInv'
  <1>1. PICK ok \in BOOLEAN : /\ Finish(r, ok)
                              /\ fd = r
                              /\ ~ok => failedAt[r] # "none"
    <2>1. Truthful(r)
      BY DEF FailureInv
    <2>2. ASSUME PollVerdict(r), Head(out[r]) # "done"
          PROVE  failedAt[r] # "none"
      BY <2>1, <2>2 DEF Truthful, PollVerdict, HasReader
    <2>3. ASSUME PollEof(r, pc[r] \in Gone)
          PROVE  failedAt[r] # "none"
      BY <2>1, <2>3 DEF Truthful, PollEof, HasReader
    <2>4. QED
      BY <2>2, <2>3 DEF Poll, PollVerdict, PollEof, HasReader
  <1>2. r = runs /\ runs' = runs /\ fd' = NoRun /\ failed' = ~ok
    BY <1>1, MaxRunsAssumption
       DEF FailureInv, Finish, ClosePipe, Runs, NoRun
  <1>3. UNCHANGED <<pc, failedAt, owner, written, durable>>
    BY DEF installVars, processVars, contentVars
  <1>4. out' = [out EXCEPT ![r] = << >>] /\ r \notin {q \in Runs : q = NoRun}
    BY <1>1, MaxRunsAssumption DEF Finish, ClosePipe, Runs, NoRun
  <1>5. \A q \in Runs : Incomplete(q)'
    BY <1>3 DEF FailureInv, Incomplete, Present
  <1>6. \A q \in Runs : Truthful(q)'
    <2> SUFFICES ASSUME NEW q \in Runs PROVE Truthful(q)'
      OBVIOUS
    <2>1. Truthful(q) /\ NoRun # q
      BY MaxRunsAssumption DEF FailureInv, Runs, NoRun
    <2>2. out'[q] = out[q] \/ out'[q] = << >>
      BY <1>4 DEF TypeOK, PipeTypeOK
    <2>3. QED
      BY <1>2, <1>3, <2>1, <2>2 DEF Truthful
  <1>7. QED
    BY <1>1, <1>2, <1>3, <1>5, <1>6 DEF FailureInv

LEMMA LaunchKeepsFailure ==
  ASSUME TypeOK, FailureInv, NEW r \in Runs, Launch(r)
  PROVE  FailureInv'
  <1>1. /\ fd' = r /\ runs' = r /\ ~failed' /\ out' = out
        /\ pc[r] = "idle" /\ pc' = [pc EXCEPT ![r] = "net"]
        /\ UNCHANGED <<failedAt, owner, written, durable>>
    BY DEF Launch, StartInstall, OpenPipe, Spawn, Goto, contentVars
  <1>2. \A q \in Runs : Incomplete(q)'
    BY <1>1 DEF FailureInv, Incomplete, Present, BeforeMkfs, BeforeLoop, TypeOK,
                InstallTypeOK
  <1>3. \A q \in Runs : Truthful(q)'
    BY <1>1 DEF FailureInv, Truthful, TypeOK, InstallTypeOK, Ending, Cleanup, Gone
  <1>4. QED
    BY <1>1, <1>2, <1>3 DEF FailureInv

\* Closing the page and losing the power: nobody reads any more.
LEMMA EndKeepsFailure ==
  ASSUME TypeOK, FailureInv, CloseWizard \/ PowerLoss
  PROVE  FailureInv'
  <1>1. fd' = NoRun /\ ~failed' /\ failedAt' = failedAt /\ owner' = owner
    BY DEF CloseWizard, Close, PowerLoss, LosePower, contentVars
  <1>2. Present' \subseteq Present
    BY DEF CloseWizard, PowerLoss, LosePower, Present, contentVars
  <1>3. \A q \in Runs : /\ pc'[q] = pc[q] \/ (Active(q) /\ pc'[q] = "killed")
                        /\ out'[q] = out[q] \/ out'[q] = << >>
    BY DEF CloseWizard, Close, PowerLoss, LosePower, TypeOK, InstallTypeOK
  <1>4. \A q \in Runs : Incomplete(q)'
    BY <1>1, <1>2, <1>3
       DEF FailureInv, Incomplete, Active, BeforeMkfs, BeforeLoop, Gone
  <1>5. \A q \in Runs : Truthful(q)'
    <2> SUFFICES ASSUME NEW q \in Runs PROVE Truthful(q)'
      OBVIOUS
    <2>1. Truthful(q) /\ NoRun # q
      BY MaxRunsAssumption DEF FailureInv, Runs, NoRun
    <2>2. QED
      BY <1>1, <1>3, <2>1 DEF Truthful, Active, Ending, Gone
  <1>6. QED
    BY <1>1, <1>4, <1>5 DEF FailureInv

LEMMA WizardKeepsFailure ==
  ASSUME TypeOK, FailureInv, WizardStep, UNCHANGED installVars
  PROVE  FailureInv'
  <1>1. UNCHANGED <<runs, out, fd, pc, failedAt, owner, written, durable>>
    BY DEF WizardStep, Show, Next_cb, Back_cb, TurnPage, StartFails, StartMock,
           MockDone, installVars, processVars, contentVars, pipeVars
  <1>2. failed' => failed
    BY DEF WizardStep, Show, Next_cb, Back_cb, TurnPage, StartFails, StartMock,
           MockDone
  <1>3. QED
    BY <1>1, <1>2 DEF FailureInv, Incomplete, Truthful, Present

\* A stale write completes nothing.
LEMMA StaleKeepsFailure ==
  ASSUME FailureInv, StaleWriteBack, UNCHANGED <<wizardVars, pipeVars>>
  PROVE  FailureInv'
  <1>1. UNCHANGED <<runs, failed, out, fd, pc, failedAt, owner>>
    BY DEF StaleWriteBack, wizardVars, pipeVars, processVars
  <1>2. Present' \subseteq Present
    BY DEF StaleWriteBack, Present
  <1>3. QED
    BY <1>1, <1>2 DEF FailureInv, Incomplete, Truthful

LEMMA FailureInit == Init => FailureInv
  <1> SUFFICES ASSUME Init PROVE FailureInv
    OBVIOUS
  <1>1. /\ \A r \in Runs : pc[r] = "idle" /\ out[r] = << >> /\ failedAt[r] = "none"
        /\ fd = NoRun /\ ~failed /\ owner = NoRun
    BY DEF Init, PipeInit, InstallInit, WizardInit
  <1>2. \A r \in Runs : r # NoRun
    BY MaxRunsAssumption DEF Runs, NoRun
  <1>3. QED
    BY <1>1, <1>2 DEF FailureInv, Incomplete, Truthful

\* A run that failed has said so, and has left the container incomplete.
THEOREM FailureInvCorrect == Spec => []FailureInv
  <1>1. Init => FailureInv
    BY FailureInit
  <1>2. TypeOK /\ FailureInv /\ [Next]_vars => FailureInv'
    <2> SUFFICES ASSUME TypeOK, FailureInv, [Next]_vars PROVE FailureInv'
      OBVIOUS
    <2>1. CASE WizardStep /\ UNCHANGED installVars
      BY <2>1, WizardKeepsFailure
    <2>2. CASE CloseWizard \/ PowerLoss
      BY <2>2, EndKeepsFailure
    <2>3. ASSUME NEW r \in Runs, Launch(r) PROVE FailureInv'
      BY <2>3, LaunchKeepsFailure
    <2>4. ASSUME NEW r \in Runs, Poll(r), UNCHANGED installVars PROVE FailureInv'
      BY <2>4, PollKeepsFailure
    <2>5. ASSUME NEW r \in Runs, InstallerStep(r), UNCHANGED wizardVars
          PROVE  FailureInv'
      BY <2>5, InstallerKeepsFailure
    <2>6. CASE StaleWriteBack /\ UNCHANGED <<wizardVars, pipeVars>>
      BY <2>6, StaleKeepsFailure
    <2>7. CASE UNCHANGED vars
      BY <2>7 DEF vars, installVars, wizardVars, pipeVars, processVars,
                  contentVars, FailureInv, Incomplete, Truthful, Present
    <2>8. QED
      BY <2>1, <2>2, <2>3, <2>4, <2>5, <2>6, <2>7 DEF Next
  <1>3. Spec => []TypeOK
    BY TypeCorrect
  <1>4. QED
    BY <1>1, <1>2, <1>3, PTL DEF Spec

\* The way back after a failure is offered only for an install that is not
\* complete, whoever prints which verdict, whichever writes are lost, and with
\* any number of installs at once.
THEOREM FailureIsReal == Spec => []NoFalseFailure
  <1>1. FailureInv => NoFalseFailure
    BY DEF FailureInv, Incomplete, NoFalseFailure, Present
  <1>2. Spec => []FailureInv
    BY FailureInvCorrect
  <1>3. QED
    BY <1>1, <1>2, PTL

-----------------------------------------------------------------------------
(* DoneIsDurable. *)

RunInv(r) == Alone(r) /\ OnTarget(r) /\ Installed(r) /\ Reported(r)

\* The runs that a step of run r is not about stay as they are.
LEMMA OtherRuns ==
  ASSUME TypeOK, DurableInv, NEW r \in Runs, InstallerStep(r),
         UNCHANGED wizardVars, NEW q \in Runs, q # r
  PROVE  RunInv(q)'
  <1>1. /\ Active(r) /\ r = runs
        /\ fd' = fd /\ runs' = runs
        /\ pc'[q] = pc[q] /\ out'[q] = out[q]
    BY StepIsLocal DEF DurableInv, Alone, wizardVars
  <1>2. ~Active(q) /\ q # runs
    BY <1>1 DEF DurableInv, Alone
  <1>3. fd # q
    BY <1>2, MaxRunsAssumption DEF DurableInv, Following, Runs, NoRun
  <1>4. out[q] = << >>
    BY <1>3 DEF DurableInv, Alone
  <1>5. pc'[q] \in Gone \cup {"idle"} /\ out'[q] = << >>
    BY <1>1, <1>2, <1>4 DEF Active
  <1>6. Alone(q)'
    BY <1>5 DEF Alone, Active
  <1>7. OnTarget(q)' /\ Installed(q)'
    BY <1>5 DEF OnTarget, Installed, Gone, Populating, FromFlavor, FromAssemble,
                FromBootloader, FromHookSync, FromFinalSync, FromFinish
  <1>8. Reported(q)'
    BY <1>5 DEF Reported
  <1>9. QED
    BY <1>6, <1>7, <1>8 DEF RunInv

\* Printing an ERROR line does not put a DONE into the pipe.
LEMMA ErrorIsNotDone ==
  ASSUME PipeTypeOK, NEW r \in Runs, Write(r, "error"),
         \E i \in DOMAIN out'[r] : out'[r][i] = "done"
  PROVE  \E i \in DOMAIN out[r] : out[r][i] = "done"
  <1>1. out'[r] = Append(out[r], "error") /\ out[r] \in Seq(Verdicts)
    BY DEF PipeTypeOK, Write
  <1>2. PICK i \in DOMAIN out'[r] : out'[r][i] = "done"
    OBVIOUS
  <1>3. i \in 1 .. Len(out[r])
    BY <1>1, <1>2
  <1>4. out[r][i] = "done"
    BY <1>1, <1>2, <1>3
  <1>5. QED
    BY <1>1, <1>3, <1>4

\* A run that has not reported finds its pipe without a DONE.
LEMMA Unreported ==
  ASSUME DurableInv, NEW r \in Runs, pc[r] \notin Cleanup \cup Gone
  PROVE  ~\E i \in DOMAIN out[r] : out[r][i] = "done"
  BY DEF DurableInv, Reported

\* The run that takes the step.
LEMMA OwnRun ==
  ASSUME TypeOK, DurableInv, HonestSession, NEW r \in Runs, InstallerStep(r),
         UNCHANGED wizardVars
  PROVE  RunInv(r)'
  <1> DEFINE Steady == out'[r] = out[r] \/ Write(r, "error")
  <1>1. runs = r /\ runs' = r /\ fd' = fd
    BY StepIsLocal DEF DurableInv, Alone, wizardVars
  <1>2. OnTarget(r) /\ Installed(r) /\ Reported(r) /\ Alone(r)
    BY DEF DurableInv
  <1>3. Alone(r)'
    <2>1. CASE out'[r] = out[r]
      BY <1>1, <1>2, <2>1 DEF Alone
    <2>2. CASE HasReader(r)
      BY <1>1, <2>2 DEF Alone, HasReader
    <2>3. out'[r] = out[r] \/ HasReader(r)
      BY DEF InstallerStep, CheckNetwork, ResolvePackages, ResolveTarget,
             WriteGpt, AttachLoop, MkfsBoot, MkfsRoot, MountRoot, MountBoot,
             CheckIndex, InstallBase, ApplyFlavor, Assemble, StageBootloader,
             SkipBootloader,
             HookSync, SaveNetwork, FinalSync, DoneOk, StepFails, ChildError,
             Fail, SigPipe, UmountBoot, UmountRoot, Detach, Say, Write, pipeVars
    <2>4. QED
      BY <2>1, <2>2, <2>3
  <1> USE DEF OnTarget, Installed, Reported, Populating, FromFlavor,
              FromAssemble, FromBootloader, FromHookSync, FromFinalSync,
              FromFinish, Goto, Say, mountVars, contentVars, pipeVars, TypeOK,
              InstallTypeOK
  <1>4. CASE CheckNetwork(r) \/ ResolvePackages(r) \/ ResolveTarget(r)
    BY <1>2, <1>4, <1>3, Unreported
       DEF RunInv, CheckNetwork, ResolvePackages, ResolveTarget, Cleanup, Gone
  <1>5. CASE WriteGpt(r) \/ AttachLoop(r) \/ MkfsBoot(r) \/ MkfsRoot(r)
    BY <1>2, <1>5, <1>3, Unreported
       DEF RunInv, WriteGpt, AttachLoop, MkfsBoot, MkfsRoot, Wipe, Cleanup, Gone
  <1>6. CASE MountRoot(r)
    BY <1>2, <1>6, <1>3, Unreported DEF RunInv, MountRoot, Cleanup, Gone
  <1>7. CASE MountBoot(r)
    <2>1. Lands(r)'
      <3>1. mounts \in Seq(Layers) /\ mounts' = Append(mounts, <<r, "boot">>)
        BY <1>7 DEF MountBoot
      <3>2. mounts' # << >> /\ mounts'[Len(mounts')] = <<r, "boot">>
        BY <3>1
      <3>3. owner' = r
        BY <1>2, <1>7 DEF MountBoot
      <3>4. QED
        BY <3>2, <3>3 DEF Lands, TopIs
    <2>2. QED
      BY <1>2, <1>7, <1>3, <2>1, Unreported DEF RunInv, MountBoot, Cleanup, Gone
  <1>8. CASE CheckIndex(r)
    BY <1>2, <1>8, <1>3, Unreported
       DEF RunInv, CheckIndex, Cleanup, Gone, Lands, TopIs
  <1>9. CASE InstallBase(r)
    BY <1>2, <1>9, <1>3, Unreported
       DEF RunInv, InstallBase, Put, Cleanup, Gone, Lands, TopIs
  <1>10. CASE ApplyFlavor(r)
    BY <1>2, <1>10, <1>3, Unreported
       DEF RunInv, ApplyFlavor, PutUnchecked, Put, Cleanup, Gone, Lands, TopIs,
           HonestSession
  <1>11. CASE Assemble(r)
    BY <1>2, <1>11, <1>3, Unreported
       DEF RunInv, Assemble, PutUnchecked, Put, Cleanup, Gone, Lands, TopIs, HonestSession
  <1>12. CASE StageBootloader(r) \/ SkipBootloader(r) \/ SaveNetwork(r)
    BY <1>2, <1>12, <1>3, Unreported
       DEF RunInv, StageBootloader, SkipBootloader, SaveNetwork, PutUnchecked,
           Put, Cleanup,
           Gone, Lands, TopIs, HonestSession
  <1>13. CASE HookSync(r)
    BY <1>2, <1>13, <1>3, Unreported
       DEF RunInv, HookSync, Sync, Cleanup, Gone, Lands, TopIs
  <1>14. CASE FinalSync(r)
    <2>1. Items \subseteq written
      BY <1>2, <1>14 DEF FinalSync, Items, RootItems, BootItems
    <2>2. QED
      BY <1>2, <1>14, <1>3, <2>1, Unreported
         DEF RunInv, FinalSync, Sync, Cleanup, Gone
  <1>15. CASE DoneOk(r)
    BY <1>2, <1>15, <1>3 DEF RunInv, DoneOk, Cleanup
  <1>16. CASE StepFails(r)
    <2>1. pc'[r] = "fail"
      BY <1>16 DEF StepFails
    <2>2. ~\E i \in DOMAIN out[r] : out[r][i] = "done"
      BY <1>16, Unreported DEF StepFails, Failable, Cleanup, Gone
    <2>3. Write(r, "error") \/ out' = out
      BY <1>16 DEF StepFails, ChildError
    <2>4. Reported(r)'
      BY <2>2, <2>3, ErrorIsNotDone
    <2>5. QED
      BY <2>1, <2>4, <1>3 DEF RunInv
  <1>17. CASE Fail(r)
    <2>1. pc'[r] \in {"exited", "umount_boot"}
      BY <1>17 DEF Fail
    <2>2. ~\E i \in DOMAIN out[r] : out[r][i] = "done"
      BY <1>17, Unreported DEF Fail, Cleanup, Gone
    <2>3. Reported(r)'
      BY <1>17, <2>2, ErrorIsNotDone DEF Fail
    <2>4. QED
      BY <2>1, <2>3, <1>3 DEF RunInv
  <1>18. CASE SigPipe(r)
    BY <1>2, <1>18, <1>3 DEF RunInv, SigPipe, Gone
  <1>19. CASE UmountBoot(r) \/ UmountRoot(r) \/ Detach(r)
    BY <1>2, <1>19, <1>3
       DEF RunInv, UmountBoot, UmountRoot, Detach, Cleanup, Gone
  <1>20. QED
    BY <1>4, <1>5, <1>6, <1>7, <1>8, <1>9, <1>10, <1>11, <1>12, <1>13, <1>14,
       <1>15, <1>16, <1>17, <1>18, <1>19 DEF InstallerStep

\* While the done page is up, an installer only unmounts.
LEMMA SettledStep ==
  ASSUME TypeOK, DurableInv, NEW r \in Runs, InstallerStep(r),
         UNCHANGED wizardVars
  PROVE  Settled'
  <1> SUFFICES ASSUME ui = "done", present
               PROVE  /\ Items \subseteq durable'
                      /\ \A q \in Runs : Active(q)' => pc'[q] \in Cleanup
    BY DEF Settled, wizardVars
  <1>1. /\ Active(r) /\ pc[r] \in Cleanup
        /\ Items \subseteq durable
        /\ \A q \in Runs : Active(q) => pc[q] \in Cleanup
    BY StepIsLocal DEF DurableInv, Settled
  <1>2. UmountBoot(r) \/ UmountRoot(r) \/ Detach(r)
    BY <1>1 DEF InstallerStep, CheckNetwork, ResolvePackages, ResolveTarget,
                WriteGpt, AttachLoop, MkfsBoot, MkfsRoot, MountRoot, MountBoot,
                CheckIndex, InstallBase, ApplyFlavor, Assemble,
                StageBootloader, SkipBootloader,
                HookSync, SaveNetwork, FinalSync, DoneOk, StepFails, Fail,
                SigPipe, Say, Goto, Cleanup, Failable, Printing
  <1>3. durable' = durable /\ pc'[r] \in Cleanup \cup Gone
    BY <1>2 DEF UmountBoot, UmountRoot, Detach, Goto, contentVars, Cleanup, Gone,
                TypeOK, InstallTypeOK
  <1>4. \A q \in Runs \ {r} : pc'[q] = pc[q]
    BY StepIsLocal
  <1>5. QED
    BY <1>1, <1>3, <1>4 DEF Active

LEMMA InstallerKeeps ==
  ASSUME TypeOK, DurableInv, HonestSession, NEW r \in Runs, InstallerStep(r),
         UNCHANGED wizardVars
  PROVE  DurableInv'
  <1>1. \A q \in Runs : RunInv(q)'
    BY OwnRun, OtherRuns
  <1>2. Following'
    BY StepIsLocal DEF DurableInv, Following, wizardVars
  <1>3. Settled'
    BY SettledStep
  <1>4. QED
    BY <1>1, <1>2, <1>3 DEF DurableInv, RunInv

\* A callback that touches neither the processes nor the container.
LEMMA WizardKeeps ==
  ASSUME TypeOK, DurableInv, WizardStep, UNCHANGED installVars
  PROVE  DurableInv'
  <1> USE DEF installVars, processVars, mountVars, contentVars, pipeVars
  <1>1. UNCHANGED <<runs, present, out, fd, pc, written, durable, owner, mounts>>
    BY DEF WizardStep, Show, Next_cb, Back_cb, TurnPage, StartFails, StartMock,
           MockDone
  <1>2. \A r \in Runs : Alone(r)' /\ OnTarget(r)' /\ Installed(r)' /\ Reported(r)'
    BY <1>1 DEF DurableInv, Alone, OnTarget, Installed, Reported, Lands, TopIs,
                Active
  <1>3. ui \in {"progress"} => (ui' = ui /\ failed' = failed) \/ timer = "mock"
    BY DEF WizardStep, Show, Next_cb, Back_cb, TurnPage, Pages, StartFails,
           StartMock, MockDone
  <1>4. Following'
    BY <1>1, <1>3 DEF DurableInv, Following, WizardStep, Show, Next_cb, Back_cb,
                      TurnPage, StartFails, StartMock, MockDone
  <1>5. ui' = "done" /\ present => ui = "done"
    BY DEF DurableInv, Following, WizardStep, Show, Next_cb, Back_cb, TurnPage,
           Pages, StartFails, StartMock, MockDone
  <1>6. Settled'
    BY <1>1, <1>5 DEF DurableInv, Settled, Active
  <1>7. QED
    BY <1>2, <1>4, <1>6 DEF DurableInv

\* The launch finds every earlier run ended and no pipe open.
LEMMA LaunchKeeps ==
  ASSUME TypeOK, DurableInv, HonestSession, NEW r \in Runs, Launch(r)
  PROVE  DurableInv'
  <1>1. /\ pc' = [pc EXCEPT ![r] = "net"]
        /\ \A q \in Runs : ~Active(q)
        /\ UNCHANGED <<out, written, durable, owner, mounts, present>>
        /\ fd' = r /\ runs' = r /\ ui' = "progress" /\ ~failed' /\ present
        /\ timer' = "poll" /\ fd = NoRun
    BY DEF Launch, HonestSession, StartInstall, OpenPipe, Spawn, Goto, mountVars,
           contentVars, DurableInv, Following
  <1>2. \A q \in Runs : out[q] = << >>
    BY <1>1, MaxRunsAssumption DEF DurableInv, Alone, Runs, NoRun
  <1>3. \A q \in Runs : pc'[q] \in Gone \cup {"idle", "net"} /\ (q # r => ~Active(q)')
    BY <1>1 DEF Active, TypeOK, InstallTypeOK
  <1>4. \A q \in Runs : Alone(q)' /\ Reported(q)'
    BY <1>1, <1>2, <1>3 DEF Alone, Reported
  <1>5. \A q \in Runs : OnTarget(q)' /\ Installed(q)'
    BY <1>3 DEF OnTarget, Installed, Gone, Populating, FromFlavor, FromAssemble,
                FromBootloader, FromHookSync, FromFinalSync, FromFinish
  <1>6. Following' /\ Settled'
    BY <1>1 DEF Following, Settled
  <1>7. QED
    BY <1>4, <1>5, <1>6 DEF DurableInv

\* A success is announced for a DONE, and a DONE was printed after the sync.
LEMMA PollKeeps ==
  ASSUME TypeOK, DurableInv, NEW r \in Runs, Poll(r), UNCHANGED installVars
  PROVE  DurableInv'
  <1> USE DEF installVars, processVars, mountVars, contentVars
  <1>1. PICK ok \in BOOLEAN : /\ Finish(r, ok)
                              /\ HasReader(r)
                              /\ ok => out[r] # << >> /\ Head(out[r]) = "done"
    BY DEF Poll, PollVerdict, PollEof
  <1>2. /\ UNCHANGED <<runs, present, pc, written, durable, owner, mounts>>
        /\ fd = r /\ fd' = NoRun /\ out' = [out EXCEPT ![r] = << >>]
        /\ timer' = "none"
        /\ ui' = IF ok THEN "done" ELSE ui
    BY <1>1 DEF Finish, ClosePipe, HasReader
  <1>3. r = runs /\ ui = "progress" /\ present
    BY <1>2, MaxRunsAssumption DEF DurableInv, Following, Runs, NoRun
  <1>4. \A q \in Runs : out'[q] = << >>
    BY <1>2, <1>3 DEF DurableInv, Alone, TypeOK, PipeTypeOK
  <1>5. \A q \in Runs : Alone(q)' /\ OnTarget(q)' /\ Installed(q)' /\ Reported(q)'
    BY <1>2, <1>4 DEF DurableInv, Alone, OnTarget, Installed, Reported, Lands,
                      TopIs, Active
  <1>6. Following'
    BY <1>2 DEF Following
  <1>7. ok => Items \subseteq durable /\ pc[r] \in Cleanup \cup Gone
    <2>1. out[r] \in Seq(Verdicts)
      BY DEF TypeOK, PipeTypeOK
    <2>2. SUFFICES ASSUME ok PROVE \E i \in DOMAIN out[r] : out[r][i] = "done"
      BY DEF DurableInv, Reported
    <2>3. out[r] # << >> /\ Head(out[r]) = "done"
      BY <1>1, <2>2
    <2>4. 1 \in DOMAIN out[r] /\ out[r][1] = "done"
      BY <2>1, <2>3
    <2>5. QED
      BY <2>4
  <1>8. Settled'
    <2> SUFFICES ASSUME ok
                 PROVE  /\ Items \subseteq durable'
                        /\ \A q \in Runs : Active(q)' => pc'[q] \in Cleanup
      BY <1>2, <1>3 DEF Settled
    <2>1. \A q \in Runs : Active(q) => q = r
      BY <1>3 DEF DurableInv, Alone
    <2>2. QED
      BY <1>2, <1>7, <2>1 DEF Active
  <1>9. QED
    BY <1>5, <1>6, <1>8 DEF DurableInv

\* Closing the page and losing the power only end what was running.
LEMMA EndKeeps ==
  ASSUME TypeOK, DurableInv, CloseWizard \/ PowerLoss
  PROVE  DurableInv'
  <1>1. fd' = NoRun /\ ui' = "closed" /\ timer' = "none"
    BY DEF CloseWizard, Close, PowerLoss
  <1>2. Following' /\ Settled'
    BY <1>1 DEF Following, Settled
  <1>3. CASE CloseWizard
    <2>1. fd = NoRun
      BY <1>3 DEF CloseWizard, Close, DurableInv, Following
    <2>2. \A r \in Runs : out[r] = << >>
      BY <2>1, MaxRunsAssumption DEF DurableInv, Alone, Runs, NoRun
    <2>3. /\ UNCHANGED <<out, runs, owner, written, durable, mounts>>
          /\ \A r \in Runs : pc'[r] = pc[r] \/ pc'[r] = "killed"
      BY <1>3 DEF CloseWizard, Close, mountVars, contentVars, TypeOK, InstallTypeOK,
                  WizardTypeOK
    <2>4. \A r \in Runs : Alone(r)' /\ Reported(r)'
      BY <2>2, <2>3 DEF DurableInv, Alone, Reported, Active, Gone
    <2>5. \A r \in Runs : OnTarget(r)' /\ Installed(r)'
      BY <2>3 DEF DurableInv, OnTarget, Installed, Lands, TopIs, Populating,
                  FromFlavor, FromAssemble, FromBootloader, FromHookSync,
                  FromFinalSync, FromFinish
    <2>6. QED
      BY <1>2, <2>4, <2>5 DEF DurableInv
  <1>4. CASE PowerLoss
    <2>1. \A r \in Runs : out'[r] = << >> /\ pc'[r] \in Gone \cup {"idle"}
      BY <1>4 DEF PowerLoss, LosePower, Active, Gone
    <2>2. \A r \in Runs : Alone(r)' /\ Reported(r)'
      BY <2>1 DEF Alone, Reported, Active
    <2>3. \A r \in Runs : OnTarget(r)' /\ Installed(r)'
      BY <2>1 DEF OnTarget, Installed, Gone, Populating, FromFlavor, FromAssemble,
                  FromBootloader, FromHookSync, FromFinalSync, FromFinish
    <2>4. QED
      BY <1>2, <2>2, <2>3 DEF DurableInv
  <1>5. QED
    BY <1>3, <1>4

LEMMA DurableInit == Init => DurableInv
  <1> SUFFICES ASSUME Init PROVE DurableInv
    OBVIOUS
  <1>1. /\ \A r \in Runs : pc[r] = "idle" /\ out[r] = << >>
        /\ fd = NoRun /\ ui = "closed" /\ timer = "none"
    BY DEF Init, PipeInit, InstallInit, WizardInit
  <1>2. \A r \in Runs : Alone(r) /\ Reported(r)
    BY <1>1 DEF Alone, Reported, Active
  <1>3. \A r \in Runs : OnTarget(r) /\ Installed(r)
    BY <1>1 DEF OnTarget, Installed, Populating, FromFlavor, FromAssemble,
                FromBootloader, FromHookSync, FromFinalSync, FromFinish
  <1>4. Following /\ Settled
    BY <1>1 DEF Following, Settled
  <1>5. QED
    BY <1>2, <1>3, <1>4 DEF DurableInv

LEMMA DurableNext ==
  ASSUME HonestSession
  PROVE  TypeOK /\ DurableInv /\ [Next]_vars => DurableInv'
  <1> SUFFICES ASSUME TypeOK, DurableInv, [Next]_vars PROVE DurableInv'
    OBVIOUS
  <1>1. CASE WizardStep /\ UNCHANGED installVars
    BY <1>1, WizardKeeps
  <1>2. CASE CloseWizard \/ PowerLoss
    BY <1>2, EndKeeps
  <1>3. ASSUME NEW r \in Runs, Launch(r) PROVE DurableInv'
    BY <1>3, LaunchKeeps
  <1>4. ASSUME NEW r \in Runs, Poll(r), UNCHANGED installVars PROVE DurableInv'
    BY <1>4, PollKeeps
  <1>5. ASSUME NEW r \in Runs, InstallerStep(r), UNCHANGED wizardVars
        PROVE  DurableInv'
    BY <1>5, InstallerKeeps
  <1>6. CASE UNCHANGED vars
    BY <1>6 DEF vars, installVars, wizardVars, pipeVars, processVars, mountVars,
                contentVars, DurableInv, Alone, OnTarget, Installed, Reported,
                Lands, TopIs, Active, Following, Settled
  <1>7. ~StaleWriteBack
    BY DEF HonestSession, StaleWriteBack
  <1>8. QED
    BY <1>1, <1>2, <1>3, <1>4, <1>5, <1>6, <1>7 DEF Next

\* What the wizard reads as DONE always means a durable system, for every
\* number of installs.
THEOREM DurableInvCorrect == HonestSession => (Spec => []DurableInv)
  <1> SUFFICES ASSUME HonestSession PROVE Spec => []DurableInv
    OBVIOUS
  <1>1. Init => DurableInv
    BY DurableInit
  <1>2. TypeOK /\ DurableInv /\ [Next]_vars => DurableInv'
    BY DurableNext
  <1>3. Spec => []TypeOK
    BY TypeCorrect
  <1>4. QED
    BY <1>1, <1>2, <1>3, PTL DEF Spec

\* "PeacockOS installed" is never shown for a system that is not on the flash,
\* provided peacock-oobe keeps its verdicts to itself, the unchecked writes
\* succeed and stay, the ramdisk has the bootloader hook, and a retry waits for
\* the failed installer to end (HonestSession).
THEOREM DoneMeansDurable == HonestSession => (Spec => []DoneIsDurable)
  <1> SUFFICES ASSUME HonestSession PROVE Spec => []DoneIsDurable
    OBVIOUS
  <1>1. DurableInv => DoneIsDurable
    BY DEF DurableInv, Settled, DoneIsDurable
  <1>2. Spec => []DurableInv
    BY DurableInvCorrect
  <1>3. QED
    BY <1>1, <1>2, PTL

-----------------------------------------------------------------------------
(* ExitCleansUp. *)

\* A sequence without its last element.
LEMMA PopLeaves ==
  ASSUME NEW S, NEW s \in Seq(S), s # << >>, NEW t,
         t = SubSeq(s, 1, Len(s) - 1)
  PROVE  /\ Len(t) = Len(s) - 1
         /\ \A i \in 1 .. Len(t) : t[i] = s[i]
  <1> DEFINE n == Len(s) - 1
  <1>1. n \in Nat /\ n + 1 = Len(s)
    OBVIOUS
  <1>2. \A i \in 1 .. n : s[i] \in S
    OBVIOUS
  <1>3. t = SubSeq(s, 1, n)
    OBVIOUS
  <1> HIDE DEF n
  <1>4. 1 \in Int /\ n \in Int
    BY <1>1
  <1>5. /\ Len(SubSeq(s, 1, n)) = IF 1 <= n THEN n - 1 + 1 ELSE 0
        /\ \A i \in 1 .. (n - 1 + 1) : SubSeq(s, 1, n)[i] = s[1 + i - 1]
    BY ONLY <1>2, <1>4, SubSeqProperties
  <1>6. Len(t) = n
    BY ONLY <1>1, <1>3, <1>5
  <1>7. \A i \in 1 .. n : i \in 1 .. (n - 1 + 1) /\ 1 + i - 1 = i
    BY <1>1
  <1>8. \A i \in 1 .. n : t[i] = s[i]
    BY ONLY <1>3, <1>5, <1>7
  <1>9. QED
    BY <1>6, <1>8 DEF n

\* umount takes off the topmost layer, or nothing: because that layer is not at
\* this path, or because it is busy.
LEMMA UmountPops ==
  ASSUME mounts \in Seq(Layers), NEW part, Umount(part)
  PROVE  /\ refused \subseteq refused'
         /\ \/ /\ mounts' = mounts
               /\ TopOfKind(part) => mounts[Len(mounts)][1] \in refused'
            \/ /\ TopOfKind(part)
               /\ mounts # << >>
               /\ mounts[Len(mounts)][2] = part
               /\ Len(mounts') = Len(mounts) - 1
               /\ \A i \in 1 .. Len(mounts') : mounts'[i] = mounts[i]
               /\ mounts' \in Seq(Layers)
  <1>1. CASE TopOfKind(part) /\ refused' = refused
    <2>1. mounts # << >> /\ mounts[Len(mounts)][2] = part
      BY <1>1 DEF TopOfKind
    <2>2. mounts' = SubSeq(mounts, 1, Len(mounts) - 1)
          \/ (mounts' = mounts /\ mounts[Len(mounts)][1] \in refused')
      BY <1>1 DEF Umount
    <2>3. CASE mounts' = SubSeq(mounts, 1, Len(mounts) - 1)
      <3>1. /\ Len(mounts') = Len(mounts) - 1
            /\ \A i \in 1 .. Len(mounts') : mounts'[i] = mounts[i]
        BY <2>1, <2>3, PopLeaves
      <3>2. QED
        BY <1>1, <2>1, <2>3, <3>1, SeqPop
    <2>4. QED
      BY <1>1, <2>2, <2>3
  <1>2. CASE TopOfKind(part) /\ refused' # refused
    BY <1>2 DEF Umount
  <1>3. CASE ~TopOfKind(part)
    BY <1>3 DEF Umount
  <1>4. QED
    BY <1>1, <1>2, <1>3

\* The stack of mounts only grows by a layer of the run that mounts it.
LEMMA ClearStays ==
  ASSUME TypeOK, NEW q \in Runs, Clear(q),
         NEW r \in Runs, r # q, NEW part,
         \/ mounts' = mounts
         \/ mounts' = Append(mounts, <<r, part>>)
         \/ Umount(part)
  PROVE  Clear(q)'
  <1> mounts \in Seq(Layers)
    BY DEF TypeOK, InstallTypeOK
  <1> USE DEF Clear
  <1>1. CASE mounts' = mounts
    BY <1>1
  <1>2. CASE mounts' = Append(mounts, <<r, part>>)
    <2>1. Len(mounts') = Len(mounts) + 1
      BY <1>2
    <2>2. \A i \in 1 .. Len(mounts) : mounts'[i] = mounts[i]
      BY <1>2
    <2>3. mounts'[Len(mounts) + 1] = <<r, part>>
      BY <1>2
    <2>4. DOMAIN mounts' = 1 .. (Len(mounts) + 1)
      BY <1>2
    <2>5. \A i \in DOMAIN mounts' : i \in 1 .. Len(mounts) \/ i = Len(mounts) + 1
      BY <2>4
    <2>6. QED
      BY <2>2, <2>3, <2>5
  <1>3. CASE Umount(part)
    BY <1>3, UmountPops
  <1>4. QED
    BY <1>1, <1>2, <1>3

\* What a step of a run may do to the mounts and the loop devices.
LEMMA StepOnMounts ==
  ASSUME NEW r \in Runs, InstallerStep(r)
  PROVE  /\ \E part : \/ mounts' = mounts
                      \/ mounts' = Append(mounts, <<r, part>>)
                      \/ Umount(part)
         /\ attached' \subseteq attached \cup {r}
         /\ refused \subseteq refused'
  <1> USE DEF mountVars
  <1>1. CASE MountRoot(r) \/ MountBoot(r)
    BY <1>1 DEF MountRoot, MountBoot
  <1>2. CASE UmountBoot(r) \/ UmountRoot(r)
    BY <1>2 DEF UmountBoot, UmountRoot, Umount
  <1>3. CASE StepFails(r)
    BY <1>3 DEF StepFails, FailEffect
  <1>4. CASE AttachLoop(r) \/ Detach(r)
    BY <1>4 DEF AttachLoop, Detach
  <1>5. CASE ~(MountRoot(r) \/ MountBoot(r) \/ UmountBoot(r) \/ UmountRoot(r)
               \/ StepFails(r) \/ AttachLoop(r) \/ Detach(r))
    BY <1>5 DEF InstallerStep, CheckNetwork, ResolvePackages, ResolveTarget,
         WriteGpt, MkfsBoot, MkfsRoot, CheckIndex, InstallBase, ApplyFlavor,
         Assemble, StageBootloader, SkipBootloader, HookSync, SaveNetwork,
         FinalSync, DoneOk,
         Fail, SigPipe
  <1>6. QED
    BY <1>1, <1>2, <1>3, <1>4, <1>5

RunClean(r) == OneAtATime(r) /\ Mounted(r) /\ LoopHeld(r) /\ NothingYet(r)

LEMMA OthersClean ==
  ASSUME TypeOK, CleanInv, NEW r \in Runs, InstallerStep(r),
         UNCHANGED wizardVars, NEW q \in Runs, q # r
  PROVE  RunClean(q)'
  <1>1. Active(r) /\ r = runs /\ runs' = runs /\ pc'[q] = pc[q] /\ ~Active(q)
    BY StepIsLocal DEF CleanInv, OneAtATime, wizardVars
  <1>2. pc[q] \in Gone \cup {"idle"}
    BY <1>1 DEF Active
  <1> DEFINE Tidy == pc[q] = "idle" \/ (pc[q] = "exited" /\ q \notin refused)
  <1>3. Tidy => Clear(q) /\ q \notin attached
    BY DEF CleanInv, Mounted, LoopHeld, BeforeMount, BeforeMkfs, BeforeLoop
  <1>4. Tidy => Clear(q)' /\ q \notin attached'
    BY <1>3, StepOnMounts, ClearStays
  <1>5. OneAtATime(q)
    BY DEF CleanInv
  <1>6. OneAtATime(q)'
    BY <1>1, <1>5 DEF OneAtATime, Active
  <1>7. refused \subseteq refused'
    BY StepOnMounts
  <1>8. Mounted(q)' /\ LoopHeld(q)' /\ NothingYet(q)'
    BY <1>1, <1>2, <1>4, <1>7 DEF Mounted, LoopHeld, NothingYet, BeforeMount,
                                  BeforeMkfs, BeforeLoop, Gone
  <1>9. QED
    BY <1>6, <1>8 DEF RunClean

LEMMA MountRootOnTop ==
  ASSUME TypeOK, NEW r \in Runs, MountRoot(r), Clear(r)
  PROVE  RootOnTop(r)'
  <1> mounts \in Seq(Layers)
    BY DEF TypeOK, InstallTypeOK
  <1>1. mounts' = Append(mounts, <<r, "root">>)
    BY DEF MountRoot
  <1>2. Len(mounts') = Len(mounts) + 1 /\ mounts' # << >>
        /\ mounts'[Len(mounts')] = <<r, "root">>
    BY <1>1
  <1>3. \A i \in 1 .. Len(mounts) : mounts'[i] = mounts[i]
    BY <1>1
  <1>4. \A i \in 1 .. (Len(mounts') - 1) : mounts'[i][1] # r
    BY <1>2, <1>3 DEF Clear
  <1>5. QED
    BY <1>2, <1>4 DEF RootOnTop, TopIs

LEMMA MountBootOnTop ==
  ASSUME TypeOK, NEW r \in Runs, MountBoot(r), RootOnTop(r)
  PROVE  BothOnTop(r)'
  <1> mounts \in Seq(Layers)
    BY DEF TypeOK, InstallTypeOK
  <1>1. mounts' = Append(mounts, <<r, "boot">>)
    BY DEF MountBoot
  <1>2. Len(mounts') = Len(mounts) + 1 /\ mounts' # << >>
        /\ mounts'[Len(mounts')] = <<r, "boot">>
    BY <1>1
  <1>3. \A i \in 1 .. Len(mounts) : mounts'[i] = mounts[i]
    BY <1>1
  <1>4. Len(mounts) >= 1 /\ mounts[Len(mounts)] = <<r, "root">>
        /\ \A i \in 1 .. (Len(mounts) - 1) : mounts[i][1] # r
    BY DEF RootOnTop, TopIs
  <1>5. mounts'[Len(mounts') - 1] = <<r, "root">> /\ Len(mounts') >= 2
    BY <1>2, <1>3, <1>4
  <1>6. \A i \in 1 .. (Len(mounts') - 2) : mounts'[i][1] # r
    BY <1>2, <1>3, <1>4
  <1>7. QED
    BY <1>2, <1>5, <1>6 DEF BothOnTop, TopIs

\* The trap takes the layers off in the order opposite to mounting.
LEMMA UmountBothOnTop ==
  ASSUME TypeOK, NEW r \in Runs, Umount("boot"),
         Clear(r) \/ RootOnTop(r) \/ BothOnTop(r), r \notin refused'
  PROVE  Clear(r)' \/ RootOnTop(r)'
  <1> mounts \in Seq(Layers)
    BY DEF TypeOK, InstallTypeOK
  <1>1. CASE Clear(r)
    BY <1>1, UmountPops DEF Clear
  <1>2. CASE RootOnTop(r)
    <2>1. mounts' = mounts
      BY <1>2, UmountPops DEF RootOnTop, TopIs, TopOfKind
    <2>2. QED
      BY <1>2, <2>1 DEF RootOnTop, TopIs
  <1>3. CASE BothOnTop(r)
    <2>1. /\ Len(mounts') = Len(mounts) - 1
          /\ \A i \in 1 .. Len(mounts') : mounts'[i] = mounts[i]
          /\ mounts' \in Seq(Layers)
      BY <1>3, UmountPops DEF BothOnTop, TopIs, TopOfKind
    <2>2. /\ Len(mounts) >= 2 /\ mounts[Len(mounts) - 1] = <<r, "root">>
          /\ \A i \in 1 .. (Len(mounts) - 2) : mounts[i][1] # r
      BY <1>3 DEF BothOnTop
    <2>3. Len(mounts') >= 1 /\ mounts'[Len(mounts')] = <<r, "root">>
      BY <2>1, <2>2
    <2>4. \A i \in 1 .. (Len(mounts') - 1) : mounts'[i][1] # r
      BY <2>1, <2>2
    <2>5. mounts' # << >>
      BY <2>1, <2>3
    <2>6. QED
      BY <2>3, <2>4, <2>5 DEF RootOnTop, TopIs
  <1>4. QED
    BY <1>1, <1>2, <1>3

LEMMA UmountRootOnTop ==
  ASSUME TypeOK, NEW r \in Runs, Umount("root"), Clear(r) \/ RootOnTop(r),
         r \notin refused'
  PROVE  Clear(r)'
  <1> mounts \in Seq(Layers)
    BY DEF TypeOK, InstallTypeOK
  <1>1. CASE Clear(r)
    BY <1>1, UmountPops DEF Clear
  <1>2. CASE RootOnTop(r)
    <2>1. /\ Len(mounts') = Len(mounts) - 1
          /\ \A i \in 1 .. Len(mounts') : mounts'[i] = mounts[i]
          /\ mounts' \in Seq(Layers)
      BY <1>2, UmountPops DEF RootOnTop, TopIs, TopOfKind
    <2>2. \A i \in 1 .. (Len(mounts) - 1) : mounts[i][1] # r
      BY <1>2 DEF RootOnTop
    <2>3. QED
      BY <2>1, <2>2 DEF Clear
  <1>3. QED
    BY <1>1, <1>2

LEMMA OwnClean ==
  ASSUME TypeOK, CleanInv, NEW r \in Runs, InstallerStep(r),
         UNCHANGED wizardVars
  PROVE  RunClean(r)'
  <1>1. r = runs /\ runs' = runs /\ runs \in Nat
    BY StepIsLocal, MaxRunsAssumption
       DEF CleanInv, OneAtATime, wizardVars, TypeOK, WizardTypeOK
  <1>2. OneAtATime(r)'
    BY <1>1 DEF OneAtATime
  <1>3. Mounted(r) /\ LoopHeld(r) /\ NothingYet(r)
    BY DEF CleanInv
  <1> USE <1>2, <1>3 DEF RunClean, Mounted, LoopHeld, NothingYet, BeforeMount,
              BeforeMkfs, BeforeLoop, BeforeTrap, Goto, Say, mountVars
  <1>4. pc \in [Runs -> Steps] /\ failedAt \in [Runs -> Failable \cup {"none"}]
    BY DEF TypeOK, InstallTypeOK
  <1>5. UNCHANGED mounts => /\ Clear(r) => Clear(r)'
                            /\ RootOnTop(r) => RootOnTop(r)'
                            /\ BothOnTop(r) => BothOnTop(r)'
    BY DEF Clear, RootOnTop, BothOnTop, TopIs
  <1>6. CASE \/ CheckNetwork(r) \/ ResolvePackages(r) \/ ResolveTarget(r)
             \/ WriteGpt(r) \/ AttachLoop(r) \/ MkfsBoot(r) \/ MkfsRoot(r)
             \/ CheckIndex(r)
    BY <1>4, <1>5, <1>6 DEF CheckNetwork, ResolvePackages, ResolveTarget,
         WriteGpt, AttachLoop, MkfsBoot, MkfsRoot, CheckIndex
  <1>7. CASE \/ InstallBase(r) \/ ApplyFlavor(r) \/ Assemble(r)
             \/ StageBootloader(r) \/ SkipBootloader(r) \/ HookSync(r)
             \/ SaveNetwork(r)
             \/ FinalSync(r) \/ DoneOk(r)
    BY <1>4, <1>5, <1>7 DEF InstallBase, ApplyFlavor, Assemble,
             StageBootloader, SkipBootloader,
         HookSync, SaveNetwork, FinalSync, DoneOk
  <1>8. CASE MountRoot(r)
    BY <1>4, <1>8, MountRootOnTop DEF MountRoot
  <1>9. CASE MountBoot(r)
    BY <1>4, <1>9, MountBootOnTop DEF MountBoot
  <1>10. CASE StepFails(r)
    <2>1. pc'[r] = "fail" /\ failedAt'[r] = pc[r] /\ pc[r] \in Failable
          /\ UNCHANGED mounts
      BY <1>4, <1>10 DEF StepFails
    <2>2. Clear(r) \/ RootOnTop(r) \/ BothOnTop(r)
      BY <2>1 DEF Failable
    <2>3. pc[r] \in BeforeTrap => attached' = attached
      BY <1>10 DEF StepFails, FailEffect
    <2>4. QED
      BY <1>5, <2>1, <2>2, <2>3
  <1>11. CASE Fail(r)
    BY <1>4, <1>5, <1>11 DEF Fail
  <1>12. CASE SigPipe(r)
    BY <1>4, <1>12 DEF SigPipe
  <1>13. CASE UmountBoot(r)
    BY <1>4, <1>13, UmountBothOnTop DEF UmountBoot
  <1>14. CASE UmountRoot(r)
    <2>1. refused \subseteq refused'
      BY StepOnMounts
    <2>2. QED
      BY <1>4, <1>14, <2>1, UmountRootOnTop DEF UmountRoot
  <1>15. CASE Detach(r)
    BY <1>4, <1>5, <1>15 DEF Detach
  <1>16. QED
    BY <1>6, <1>7, <1>8, <1>9, <1>10, <1>11, <1>12, <1>13, <1>14, <1>15
       DEF InstallerStep

LEMMA LaunchClean ==
  ASSUME TypeOK, CleanInv, RetryWaits, NEW r \in Runs, Launch(r)
  PROVE  CleanInv'
  <1>1. /\ pc' = [pc EXCEPT ![r] = "net"] /\ pc[r] = "idle"
        /\ \A q \in Runs : ~Active(q)
        /\ UNCHANGED <<failedAt, mounts, attached, refused>>
        /\ r = runs + 1 /\ runs' = r /\ runs \in Nat
    BY MaxRunsAssumption DEF Launch, StartInstall, Spawn, Goto, mountVars, TypeOK,
       WizardTypeOK
  <1>2. pc \in [Runs -> Steps] /\ Runs \subseteq Nat
    BY MaxRunsAssumption DEF TypeOK, InstallTypeOK, Runs
  <1> SUFFICES ASSUME NEW q \in Runs PROVE RunClean(q)'
    BY DEF CleanInv, RunClean
  <1>3. OneAtATime(q) /\ Mounted(q) /\ LoopHeld(q)
    BY DEF CleanInv
  <1>4. OneAtATime(q)'
    BY <1>1, <1>2, <1>3 DEF OneAtATime, Active
  <1>5. pc[q] \in Gone \cup {"idle"}
    BY <1>1 DEF Active
  <1>6. pc[q] = "idle" \/ (pc[q] = "exited" /\ q \notin refused) =>
          Clear(q)' /\ q \notin attached'
    BY <1>1, <1>3 DEF Mounted, LoopHeld, BeforeMount, BeforeMkfs, BeforeLoop,
             Clear
  <1>7. pc'[q] = pc[q] \/ (pc'[q] = "net" /\ pc[q] = "idle")
    BY <1>1, <1>2
  <1>8. refused' = refused /\ pc[q] \in {"idle", "exited", "killed"}
    BY <1>1, <1>5 DEF Gone
  <1>9. Mounted(q)' /\ LoopHeld(q)' /\ NothingYet(q)'
    BY <1>6, <1>7, <1>8 DEF Mounted, LoopHeld, NothingYet, BeforeMount,
             BeforeMkfs,
                      BeforeLoop, Gone
  <1>10. QED
    BY <1>4, <1>9 DEF RunClean

LEMMA EndClean ==
  ASSUME TypeOK, CleanInv, CloseWizard \/ PowerLoss
  PROVE  CleanInv'
  <1> SUFFICES ASSUME NEW q \in Runs PROVE RunClean(q)'
    BY DEF CleanInv, RunClean
  <1>1. OneAtATime(q) /\ Mounted(q) /\ LoopHeld(q) /\ NothingYet(q)
    BY DEF CleanInv
  <1>2. pc'[q] = pc[q] \/ (Active(q) /\ pc'[q] = "killed")
    BY DEF CloseWizard, Close, PowerLoss, LosePower, TypeOK, InstallTypeOK
  <1>3. runs' = runs /\ failedAt' = failedAt
    BY DEF CloseWizard, Close, PowerLoss, LosePower
  <1>4. OneAtATime(q)'
    BY <1>1, <1>2, <1>3 DEF OneAtATime, Active, Gone
  <1>5. CASE CloseWizard
    BY <1>1, <1>2, <1>3, <1>4, <1>5
       DEF CloseWizard, mountVars, RunClean, Mounted, LoopHeld, NothingYet, Clear,
           RootOnTop, BothOnTop, TopIs, BeforeMount, BeforeMkfs, BeforeLoop, Gone
  <1>6. CASE PowerLoss
    <2>1. mounts' = << >> /\ attached' = {} /\ pc'[q] \in Gone \cup {"idle"}
      BY <1>6 DEF PowerLoss, LosePower, Active, Gone, TypeOK, InstallTypeOK
    <2>2. Clear(q)' /\ q \notin attached'
      BY <2>1 DEF Clear
    <2>3. QED
      BY <1>4, <2>1, <2>2 DEF RunClean, Mounted, LoopHeld, NothingYet, BeforeMount,
         BeforeMkfs, BeforeLoop, Gone
  <1>7. QED
    BY <1>5, <1>6

\* What only the wizard does concerns no mount.
LEMMA QuietClean ==
  ASSUME CleanInv, UNCHANGED <<pc, failedAt, mounts, attached, refused, runs>>
  PROVE  CleanInv'
  BY DEF CleanInv, OneAtATime, Mounted, LoopHeld, NothingYet, Clear, RootOnTop,
         BothOnTop, TopIs, Active

LEMMA CleanInit == Init => CleanInv
  <1> SUFFICES ASSUME Init, NEW r \in Runs PROVE RunClean(r)
    BY DEF CleanInv, RunClean
  <1>1. pc[r] = "idle" /\ mounts = << >> /\ attached = {} /\ runs = 0
    BY DEF Init, InstallInit, WizardInit
  <1>2. Clear(r)
    BY <1>1 DEF Clear
  <1>3. QED
    BY <1>1, <1>2 DEF RunClean, OneAtATime, Mounted, LoopHeld, NothingYet, Active,
       BeforeMount, BeforeMkfs, BeforeLoop

\* What is mounted and attached at every step of the script.
THEOREM CleanInvCorrect == RetryWaits => (Spec => []CleanInv)
  <1> SUFFICES ASSUME RetryWaits PROVE Spec => []CleanInv
    OBVIOUS
  <1>1. Init => CleanInv
    BY CleanInit
  <1>2. TypeOK /\ CleanInv /\ [Next]_vars => CleanInv'
    <2> SUFFICES ASSUME TypeOK, CleanInv, [Next]_vars PROVE CleanInv'
      OBVIOUS
    <2>1. CASE WizardStep /\ UNCHANGED installVars
      <3>1. runs' = runs
        BY <2>1 DEF WizardStep, Show, Next_cb, Back_cb, TurnPage, StartFails,
                    StartMock, MockDone
      <3>2. QED
        BY <2>1, <3>1, QuietClean DEF installVars, processVars, mountVars
    <2>2. CASE CloseWizard \/ PowerLoss
      BY <2>2, EndClean
    <2>3. ASSUME NEW r \in Runs, Launch(r) PROVE CleanInv'
      BY <2>3, LaunchClean
    <2>4. ASSUME NEW r \in Runs, Poll(r), UNCHANGED installVars PROVE CleanInv'
      BY <2>4, QuietClean DEF Poll, PollVerdict, PollEof, Finish, installVars,
         processVars, mountVars
    <2>5. ASSUME NEW r \in Runs, InstallerStep(r), UNCHANGED wizardVars
          PROVE  CleanInv'
      <3>1. \A q \in Runs : RunClean(q)'
        BY <2>5, OwnClean, OthersClean
      <3>2. QED
        BY <3>1 DEF CleanInv, RunClean
    <2>6. CASE UNCHANGED vars
      BY <2>6, QuietClean DEF vars, installVars, wizardVars, processVars, mountVars
    <2>7. CASE StaleWriteBack /\ UNCHANGED wizardVars
      BY <2>7, QuietClean DEF StaleWriteBack, wizardVars, processVars, mountVars
    <2>8. QED
      BY <2>1, <2>2, <2>3, <2>4, <2>5, <2>6, <2>7 DEF Next
  <1>3. Spec => []TypeOK
    BY TypeCorrect
  <1>4. QED
    BY <1>1, <1>2, <1>3, PTL DEF Spec

\* An installer that ran to its exit leaves no mount and no loop device behind
\* but those the kernel refused to let go, whichever step failed and whatever an
\* attempt that was cut off or refused left mounted below, provided a retry
\* waits for the installer before it.
THEOREM ExitIsClean == RetryWaits => (Spec => []ExitCleansUp)
  <1> SUFFICES ASSUME RetryWaits PROVE Spec => []ExitCleansUp
    OBVIOUS
  <1>1. CleanInv => ExitCleansUp
    BY DEF CleanInv, Mounted, LoopHeld, Clear, ExitCleansUp
  <1>2. Spec => []CleanInv
    BY CleanInvCorrect
  <1>3. QED
    BY <1>1, <1>2, PTL

-----------------------------------------------------------------------------
(* BootableIsComplete. *)

\* The writes and syncs of a run that does not own the container miss it.
LEMMA OnlyOwnerFills ==
  ASSUME TypeOK, BootInv, NEW r \in Runs, InstallerStep(r)
  PROVE  \/ owner' = r
         \/ UNCHANGED <<owner, written, durable>>
  <1>1. CASE UNCHANGED contentVars
    BY <1>1 DEF contentVars
  <1>2. CASE WriteGpt(r)
    BY <1>2 DEF WriteGpt
  <1>3. CASE MkfsBoot(r) \/ MkfsRoot(r)
    BY <1>3 DEF MkfsBoot, MkfsRoot, Wipe
  <1>4. CASE InstallBase(r) \/ ApplyFlavor(r) \/ Assemble(r)
               \/ StageBootloader(r) \/ SkipBootloader(r) \/ SaveNetwork(r)
    BY <1>4 DEF InstallBase, ApplyFlavor, Assemble, StageBootloader,
             SkipBootloader, SaveNetwork,
                PutUnchecked, Put, Lands, contentVars
  <1>5. CASE HookSync(r) \/ FinalSync(r)
    <2>1. owner = r
      BY <1>5 DEF HookSync, FinalSync, Goto, BootInv, BootableLast, AfterBootable
    <2>2. QED
      BY <1>5, <2>1 DEF HookSync, FinalSync, Sync
  <1>6. CASE StepFails(r)
    BY <1>6 DEF StepFails, FailEffect, Wipe, contentVars
  <1>7. CASE \/ CheckNetwork(r) \/ ResolvePackages(r) \/ ResolveTarget(r)
             \/ AttachLoop(r) \/ MountRoot(r) \/ MountBoot(r) \/ CheckIndex(r)
             \/ DoneOk(r) \/ Fail(r) \/ SigPipe(r)
             \/ UmountBoot(r) \/ UmountRoot(r) \/ Detach(r)
    BY <1>1, <1>7 DEF CheckNetwork, ResolvePackages, ResolveTarget, AttachLoop,
         MountRoot, MountBoot, CheckIndex, DoneOk, Fail, SigPipe, UmountBoot,
         UmountRoot, Detach
  <1>8. QED
    BY <1>2, <1>3, <1>4, <1>5, <1>6, <1>7 DEF InstallerStep

\* A run that populates the target has its own layers on top.
LEMMA OwnTarget ==
  ASSUME CleanInv, BootInv, NEW r \in Runs,
         pc[r] \in {"base", "flavor", "assemble", "bootloader", "save"}
  PROVE  Lands(r)
  <1>1. BothOnTop(r)
    BY DEF CleanInv, Mounted
  <1>2. owner = r
    BY DEF BootInv, BootableLast, BeforeBootable, AfterBootable
  <1>3. QED
    BY <1>1, <1>2 DEF Lands, BothOnTop

LEMMA OthersBoot ==
  ASSUME TypeOK, CleanInv, BootInv, NEW r \in Runs, InstallerStep(r),
         NEW q \in Runs, q # r
  PROVE  BootableLast(q)'
  <1>1. Active(r) /\ pc'[q] = pc[q] /\ ~Active(q)
    BY StepIsLocal DEF CleanInv, OneAtATime
  <1>2. pc[q] \in Gone \cup {"idle"}
    BY <1>1 DEF Active
  <1>3. owner' = q => UNCHANGED <<owner, written, durable>>
    BY OnlyOwnerFills
  <1>4. BootableLast(q)
    BY DEF BootInv
  <1>5. owner' = q /\ pc[q] = "exited" => Safe'
    BY <1>3, <1>4 DEF BootableLast, Safe, Present
  <1>6. QED
    BY <1>1, <1>2, <1>5
       DEF BootableLast, BeforeBootable, AfterBootable, Cleanup, Gone

LEMMA OwnBoot ==
  ASSUME TypeOK, CleanInv, FailureInv, BootInv, ~WritesMayFail,
         NEW r \in Runs, InstallerStep(r)
  PROVE  durable' \subseteq written' /\ BootableLast(r)'
  <1>1. BootableLast(r) /\ Incomplete(r) /\ durable \subseteq written
    BY DEF BootInv, FailureInv
  <1>2. pc \in [Runs -> Steps] /\ Runs \subseteq Nat
    BY MaxRunsAssumption DEF TypeOK, InstallTypeOK, Runs
  <1> USE <1>1, <1>2 DEF BootableLast, BeforeBootable, AfterBootable, Cleanup,
              Gone, RootFs, Present, Goto, Say
  <1>3. CASE CheckNetwork(r) \/ ResolvePackages(r) \/ ResolveTarget(r)
               \/ WriteGpt(r) \/ AttachLoop(r)
    <2>1. /\ UNCHANGED <<owner, written, durable>> /\ pc[r] \in BeforeMkfs
          /\ pc'[r] \in BeforeMkfs
      BY <1>3 DEF CheckNetwork, ResolvePackages, ResolveTarget, WriteGpt,
         AttachLoop, BeforeMkfs, BeforeLoop, contentVars
    <2>2. QED
      BY <2>1 DEF Incomplete, BeforeMkfs, BeforeLoop
  <1>4. CASE MkfsBoot(r)
    BY <1>4 DEF MkfsBoot, Wipe, BootItems
  <1>5. CASE MkfsRoot(r)
    BY <1>5 DEF MkfsRoot, Wipe, RootItems
  <1>6. CASE MountRoot(r) \/ MountBoot(r) \/ CheckIndex(r)
    BY <1>6 DEF MountRoot, MountBoot, CheckIndex, contentVars
  <1>7. CASE InstallBase(r)
    BY <1>7, OwnTarget DEF InstallBase, Put
  <1>8. CASE ApplyFlavor(r)
    BY <1>8, OwnTarget DEF ApplyFlavor, PutUnchecked, Put
  <1>9. CASE Assemble(r)
    BY <1>9, OwnTarget DEF Assemble, PutUnchecked, Put
  <1>10. CASE StageBootloader(r)
    BY <1>10, OwnTarget DEF StageBootloader, PutUnchecked, Put
  <1>11. CASE HookSync(r) \/ FinalSync(r)
    BY <1>11 DEF HookSync, FinalSync, Sync, Safe
  <1>12. CASE SaveNetwork(r)
    BY <1>12, OwnTarget DEF SaveNetwork, PutUnchecked, Put, Safe, BootItems
  <1>13. CASE DoneOk(r)
    BY <1>13 DEF DoneOk, contentVars, Safe
  <1>14. CASE StepFails(r)
    <2>1. pc[r] \in Failable /\ pc'[r] = "fail" /\ FailEffect(r)
      BY <1>14 DEF StepFails
    <2>2. CASE UNCHANGED <<owner, written, durable>>
      <3>1. pc[r] \in BeforeMkfs \cup BeforeBootable
        BY <2>1 DEF Failable, BeforeMkfs, BeforeLoop
      <3>2. owner = r => "extlinux" \notin Present
        BY <3>1 DEF Incomplete
      <3>3. QED
        BY <2>1, <2>2, <3>2 DEF Safe, BootItems
    <2>3. CASE Wipe(r, BootItems)
      BY <2>1, <2>3 DEF Wipe, Safe, BootItems
    <2>4. CASE pc[r] = "mkfs_root" /\ Wipe(r, RootItems)
      BY <2>1, <2>4 DEF Wipe, Safe, BootItems, RootItems
    <2>5. QED
      BY <2>1, <2>2, <2>3, <2>4 DEF FailEffect, contentVars
  <1>15. CASE Fail(r)
    BY <1>15 DEF Fail, contentVars, Safe
  <1>16. CASE SigPipe(r)
    BY <1>16 DEF SigPipe, contentVars
  <1>17. CASE UmountBoot(r) \/ UmountRoot(r) \/ Detach(r)
    BY <1>17 DEF UmountBoot, UmountRoot, Detach, contentVars, Safe
  <1>18. CASE SkipBootloader(r)
    BY <1>18 DEF SkipBootloader, contentVars, Safe, BootItems
  <1>19. QED
    BY <1>3, <1>4, <1>5, <1>6, <1>7, <1>8, <1>9, <1>10, <1>11, <1>12, <1>13,
       <1>14, <1>15, <1>16, <1>17, <1>18 DEF InstallerStep

LEMMA InstallerBoot ==
  ASSUME TypeOK, CleanInv, FailureInv, BootInv, ~WritesMayFail,
         NEW r \in Runs, InstallerStep(r)
  PROVE  BootInv'
  <1>1. \A q \in Runs : BootableLast(q)'
    BY OwnBoot, OthersBoot
  <1>2. owner' = NoRun => Safe'
    <2>1. r # NoRun
      BY MaxRunsAssumption DEF Runs, NoRun
    <2>2. QED
      BY <2>1, OnlyOwnerFills DEF BootInv, Safe, Present
  <1>3. durable' \subseteq written'
    BY OwnBoot
  <1>4. QED
    BY <1>1, <1>2, <1>3 DEF BootInv

\* A launch, the end of the page and a power loss take nothing away.
LEMMA OutsideBoot ==
  ASSUME TypeOK, FailureInv, BootInv, 
         (\E r \in Runs : Launch(r)) \/ CloseWizard \/ PowerLoss
  PROVE  BootInv'
  <1>1. /\ owner' = owner
        /\ durable' \subseteq written'
        /\ durable \subseteq durable'
        /\ Present' \subseteq Present
    BY DEF Launch, CloseWizard, PowerLoss, LosePower, contentVars, BootInv, Present
  <1>2. Safe => Safe'
    BY <1>1 DEF Safe
  <1>3. ASSUME NEW q \in Runs PROVE BootableLast(q)'
    <2>1. BootableLast(q) /\ Incomplete(q)
      BY DEF BootInv, FailureInv
    <2>2. CASE (\E r \in Runs : Launch(r)) \/ CloseWizard
      <3>1. UNCHANGED <<owner, written, durable>>
        BY <2>2 DEF Launch, CloseWizard, contentVars
      <3>2. pc'[q] = pc[q] \/ pc'[q] = "killed" \/ (pc[q] = "idle" /\ pc'[q] = "net")
        BY <2>2 DEF Launch, Spawn, Goto, CloseWizard, TypeOK, InstallTypeOK
      <3>3. pc[q] = "idle" => owner # q
        BY <2>1 DEF Incomplete, BeforeMkfs, BeforeLoop
      <3>4. QED
        BY <2>1, <3>1, <3>2, <3>3 DEF BootableLast, BeforeBootable, AfterBootable,
           Cleanup, Safe, Present, Gone
    <2>3. CASE PowerLoss
      <3>1. pc'[q] \in Gone \cup {"idle"} /\ (pc'[q] = "exited" => pc[q] = "exited")
        BY <2>3 DEF PowerLoss, LosePower, Active, Gone, TypeOK, InstallTypeOK
      <3>2. QED
        BY <1>1, <1>2, <2>1, <3>1 DEF BootableLast, BeforeBootable, AfterBootable,
           Cleanup, Gone
    <2>4. QED
      BY <2>2, <2>3
  <1>4. QED
    BY <1>1, <1>2, <1>3 DEF BootInv

\* The order in which the parts of a bootable system come to be.
THEOREM BootInvCorrect ==
  RetryWaits /\ ~WritesMayFail /\ ~StaleMayWrite => (Spec => []BootInv)
  <1> SUFFICES ASSUME RetryWaits, ~WritesMayFail, ~StaleMayWrite
               PROVE  Spec => []BootInv
    OBVIOUS
  <1>1. Init => BootInv
    <2> SUFFICES ASSUME Init PROVE BootInv
      OBVIOUS
    <2>1. /\ \A r \in Runs : pc[r] = "idle"
          /\ owner = NoRun /\ durable = written /\ written \in {{}, Items}
      BY DEF Init, InstallInit
    <2>2. Safe
      BY <2>1 DEF Safe, Present, Items, BootItems, RootItems, RootFs
    <2>3. QED
      BY <2>1, <2>2 DEF BootInv, BootableLast, BeforeBootable, AfterBootable, Cleanup
  <1>2. TypeOK /\ CleanInv /\ FailureInv /\ BootInv /\ [Next]_vars => BootInv'
    <2> SUFFICES ASSUME TypeOK, CleanInv, FailureInv, BootInv, [Next]_vars
                 PROVE  BootInv'
      OBVIOUS
    <2>1. CASE UNCHANGED <<pc, contentVars>>
      BY <2>1 DEF contentVars, BootInv, BootableLast, Safe, Present
    <2>2. CASE (\E r \in Runs : Launch(r)) \/ CloseWizard \/ PowerLoss
      BY <2>2, OutsideBoot
    <2>3. ASSUME NEW r \in Runs, InstallerStep(r) PROVE BootInv'
      BY <2>3, InstallerBoot
    <2>4. QED
      BY <2>1, <2>2, <2>3 DEF Next, vars, installVars, processVars, StaleWriteBack
  <1>3. Spec => []TypeOK
    BY TypeCorrect
  <1>4. Spec => []CleanInv
    BY CleanInvCorrect
  <1>5. Spec => []FailureInv
    BY FailureInvCorrect
  <1>6. QED
    BY <1>1, <1>2, <1>3, <1>4, <1>5, PTL DEF Spec

\* Whenever extlinux.conf is on the container so is a complete root file system,
\* at every step of every reinstall, provided no unchecked write is lost, no
\* mount left behind writes over the new file systems, and a retry waits for
\* the installer before it.
THEOREM BootableMeansComplete ==
  RetryWaits /\ ~WritesMayFail /\ ~StaleMayWrite => (Spec => []BootableIsComplete)
  <1> SUFFICES ASSUME RetryWaits, ~WritesMayFail, ~StaleMayWrite
               PROVE  Spec => []BootableIsComplete
    OBVIOUS
  <1>1. TypeOK /\ FailureInv /\ BootInv => BootableIsComplete
    <2> SUFFICES ASSUME TypeOK, FailureInv, BootInv,
                        BootItems \subseteq written,
                        owner = NoRun \/ pc[owner] # "killed"
                 PROVE  RootFs \subseteq written
      BY DEF BootableIsComplete, RootFs
    <2>1. CASE owner = NoRun
      BY <2>1 DEF BootInv, Safe, Present
    <2>2. CASE owner \in Runs /\ pc[owner] # "killed"
      <3>1. pc[owner] \in Steps /\ Incomplete(owner) /\ BootableLast(owner)
        BY <2>2 DEF TypeOK, InstallTypeOK, FailureInv, BootInv
      <3>2. pc[owner] \in BeforeBootable \cup AfterBootable \cup Cleanup
                          \cup {"fail", "exited"}
        BY <2>2, <3>1 DEF Incomplete, Steps, Silent, Printing, Cleanup, Gone,
           BeforeMkfs, BeforeLoop, BeforeBootable, AfterBootable
      <3>3. "extlinux" \in Present
        BY DEF BootItems, Present
      <3>4. pc[owner] \in BeforeBootable => FALSE
        BY <3>1, <3>3 DEF BootableLast
      <3>5. pc[owner] \in AfterBootable => RootFs \subseteq written
        BY <3>1, <3>3 DEF BootableLast, AfterBootable, RootFs, BootInv, Safe,
                 BootItems
      <3>6. pc[owner] \in Cleanup \cup {"fail", "exited"} => RootFs \subseteq written
        BY <3>1 DEF BootableLast, Safe, Present, BootInv
      <3>7. QED
        BY <3>2, <3>4, <3>5, <3>6
    <2>3. QED
      BY <2>1, <2>2 DEF TypeOK, InstallTypeOK
  <1>2. Spec => []TypeOK
    BY TypeCorrect
  <1>3. Spec => []FailureInv
    BY FailureInvCorrect
  <1>4. Spec => []BootInv
    BY BootInvCorrect
  <1>5. QED
    BY <1>1, <1>2, <1>3, <1>4, PTL

-----------------------------------------------------------------------------
(* Who reads, and what was touched. *)

\* The run that takes a step and is still at work has its reader.
LEMMA OwnAttended ==
  ASSUME TypeOK, DurableInv, BootInv, SessionInv, HonestSession,
         NEW r \in Runs, InstallerStep(r)
  PROVE  Attended(r)'
  <1>1. Attended(r) /\ BootableLast(r) /\ Active(r) /\ fd' = fd
    BY StepIsLocal DEF SessionInv, BootInv
  <1>2. pc \in [Runs -> Steps]
    BY DEF TypeOK, InstallTypeOK
  <1> DEFINE SaysDone(o) == \E i \in DOMAIN o : o[i] = "done"
             Working == {"loop", "mkfs_boot"} \cup BeforeBootable \cup AfterBootable
  <1> USE DEF Goto, Say
  <1>3. CASE pc[r] \in Ending
    <2>1. Fail(r) \/ SigPipe(r) \/ UmountBoot(r) \/ UmountRoot(r) \/ Detach(r)
      BY <1>1, <1>3 DEF InstallerStep, CheckNetwork, ResolvePackages, ResolveTarget,
         WriteGpt, AttachLoop, MkfsBoot, MkfsRoot, MountRoot, MountBoot, CheckIndex,
         InstallBase, ApplyFlavor, Assemble, StageBootloader, SkipBootloader,
         HookSync, SaveNetwork,
         FinalSync, DoneOk, StepFails, Ending, Cleanup, Gone, Failable
    <2>2. pc'[r] \in Ending /\ UNCHANGED <<owner, touched>>
          /\ (out' = out \/ Write(r, "error"))
      BY <1>2, <2>1 DEF Fail, SigPipe, UmountBoot, UmountRoot, Detach, Ending, Cleanup,
         Gone, contentVars, pipeVars
    <2>3. SaysDone(out'[r]) => SaysDone(out[r])
      BY <2>2, ErrorIsNotDone DEF TypeOK
    <2>4. QED
      BY <1>1, <2>2, <2>3 DEF Attended, Ending, Cleanup, Gone, BeforeBootable,
         AfterBootable
  <1>4. CASE pc[r] \notin Ending
    <2>1. fd = r /\ out[r] = << >>
      BY <1>1, <1>4 DEF Attended
    <2>2. pc'[r] # "idle"
      BY <1>2 DEF InstallerStep, CheckNetwork, ResolvePackages, ResolveTarget,
         WriteGpt, AttachLoop, MkfsBoot, MkfsRoot, MountRoot, MountBoot, CheckIndex,
         InstallBase, ApplyFlavor, Assemble, StageBootloader, SkipBootloader,
         HookSync, SaveNetwork,
         FinalSync, DoneOk, StepFails, Fail, SigPipe, UmountBoot, UmountRoot, Detach
    <2> USE <2>1, <2>2, <1>2 DEF BeforeBootable, AfterBootable, Ending, Cleanup, Gone,
                contentVars, pipeVars
    <2>3. CASE CheckNetwork(r) \/ ResolvePackages(r) \/ ResolveTarget(r) \/ WriteGpt(r)
      BY <1>1, <2>3 DEF Attended, CheckNetwork, ResolvePackages, ResolveTarget,
         WriteGpt
    <2>4. CASE AttachLoop(r) \/ MkfsBoot(r) \/ MkfsRoot(r) \/ MountRoot(r)
                 \/ MountBoot(r) \/ CheckIndex(r)
      BY <1>1, <2>4 DEF Attended, AttachLoop, MkfsBoot, MkfsRoot, Wipe, MountRoot,
         MountBoot, CheckIndex
    <2>5. CASE InstallBase(r) \/ ApplyFlavor(r) \/ Assemble(r)
                 \/ StageBootloader(r) \/ SkipBootloader(r)
                 \/ SaveNetwork(r)
      BY <1>1, <2>5 DEF Attended, InstallBase, ApplyFlavor, Assemble,
         StageBootloader, SkipBootloader, SaveNetwork, PutUnchecked, Put,
         HonestSession
    <2>6. CASE HookSync(r) \/ FinalSync(r)
      BY <1>1, <2>6 DEF Attended, HookSync, FinalSync, Sync
    <2>7. CASE DoneOk(r)
      <3>1. owner = r /\ r \in touched
        BY <1>1, <2>7 DEF DoneOk, BootableLast, Attended
      <3>2. pc'[r] = "umount_boot" /\ UNCHANGED <<owner, touched>>
        BY <2>7 DEF DoneOk
      <3>3. QED
        BY <1>1, <3>1, <3>2 DEF Attended
    <2>8. CASE StepFails(r)
      <3>1. pc'[r] = "fail" /\ (out' = out \/ Write(r, "error"))
        BY <2>8 DEF StepFails, ChildError
      <3>2. ~SaysDone(out'[r])
        BY <3>1, ErrorIsNotDone DEF TypeOK
      <3>3. QED
        BY <1>1, <3>1, <3>2 DEF Attended
    <2>9. CASE SigPipe(r)
      BY <2>9 DEF SigPipe, HasReader
    <2>10. QED
      BY <1>4, <2>3, <2>4, <2>5, <2>6, <2>7, <2>8, <2>9
         DEF InstallerStep, Fail, UmountBoot, UmountRoot, Detach
  <1>5. QED
    BY <1>3, <1>4

LEMMA InstallerAttended ==
  ASSUME TypeOK, DurableInv, BootInv, SessionInv, HonestSession,
         NEW r \in Runs, InstallerStep(r)
  PROVE  SessionInv'
  <1> SUFFICES ASSUME NEW q \in Runs, q # r PROVE Attended(q)'
    BY OwnAttended DEF SessionInv
  <1>1. Active(r) /\ r = runs /\ fd' = fd /\ pc'[q] = pc[q] /\ out'[q] = out[q]
    BY StepIsLocal DEF DurableInv, Alone
  <1>2. ~Active(q) /\ fd # q
    BY <1>1, MaxRunsAssumption DEF DurableInv, Alone, Following, Runs, NoRun
  <1>3. out[q] = << >>
    BY <1>2 DEF DurableInv, Alone
  <1>4. touched' \subseteq touched \cup {r}
    BY DEF InstallerStep, CheckNetwork, ResolvePackages, ResolveTarget, WriteGpt,
       AttachLoop, MkfsBoot, MkfsRoot, Wipe, MountRoot, MountBoot, CheckIndex,
       InstallBase, ApplyFlavor, Assemble, StageBootloader, SkipBootloader,
       HookSync, SaveNetwork,
       FinalSync, Sync, Put, PutUnchecked, DoneOk, StepFails, FailEffect, Fail,
       SigPipe, UmountBoot, UmountRoot, Detach, contentVars
  <1>5. Attended(q)
    BY DEF SessionInv
  <1>6. pc[q] \in Gone \cup {"idle"}
    BY <1>2 DEF Active
  <1>7. QED
    BY <1>1, <1>3, <1>4, <1>5, <1>6 DEF Attended, Active, Gone, BeforeBootable,
       AfterBootable

LEMMA LaunchAttended ==
  ASSUME TypeOK, DurableInv, SessionInv, HonestSession, NEW r \in Runs, Launch(r)
  PROVE  SessionInv'
  <1> SUFFICES ASSUME NEW q \in Runs PROVE Attended(q)'
    BY DEF SessionInv
  <1>1. /\ pc' = [pc EXCEPT ![r] = "net"] /\ ~Active(q)
        /\ fd' = r /\ UNCHANGED <<out, touched, owner>>
    BY DEF Launch, HonestSession, StartInstall, OpenPipe, Spawn, Goto, contentVars
  <1>2. out[q] = << >>
    <2>1. fd = NoRun
      BY DEF DurableInv, Following, Launch, StartInstall
    <2>2. QED
      BY <2>1, MaxRunsAssumption DEF DurableInv, Alone, Runs, NoRun
  <1>3. Attended(q) /\ pc[q] \in Gone \cup {"idle"}
    BY <1>1 DEF SessionInv, Active
  <1>4. pc'[q] = IF q = r THEN "net" ELSE pc[q]
    BY <1>1 DEF TypeOK, InstallTypeOK
  <1>5. QED
    BY <1>1, <1>2, <1>3, <1>4 DEF Attended, Active, Gone, BeforeBootable,
       AfterBootable

\* The wizard lets go of a pipe only when the run has nothing left to install.
LEMMA PollAttended ==
  ASSUME TypeOK, DurableInv, SessionInv, NEW r \in Runs, Poll(r),
         UNCHANGED installVars
  PROVE  SessionInv'
  <1> SUFFICES ASSUME NEW q \in Runs PROVE Attended(q)'
    BY DEF SessionInv
  <1>1. Attended(q) /\ Attended(r)
    BY DEF SessionInv
  <1>2. /\ fd = r /\ out' = [out EXCEPT ![r] = << >>]
        /\ UNCHANGED <<pc, touched, owner>>
        /\ pc[r] \in Ending
    BY <1>1 DEF Poll, PollVerdict, PollEof, Finish, ClosePipe, HasReader, Attended,
       Ending, installVars, processVars, contentVars
  <1>3. r = runs /\ (Active(q) => q = r)
    BY <1>2, MaxRunsAssumption DEF DurableInv, Following, Alone, Runs, NoRun
  <1>4. out'[q] = out[q] \/ out'[q] = << >>
    BY <1>2 DEF TypeOK, PipeTypeOK
  <1>5. QED
    BY <1>1, <1>2, <1>3, <1>4 DEF Attended, Active

LEMMA EndAttended ==
  ASSUME TypeOK, DurableInv, SessionInv, CloseWizard \/ PowerLoss
  PROVE  SessionInv'
  <1> SUFFICES ASSUME NEW q \in Runs PROVE Attended(q)'
    BY DEF SessionInv
  <1>1. Attended(q) /\ UNCHANGED <<touched, owner>>
    BY DEF SessionInv, CloseWizard, PowerLoss, LosePower, contentVars
  <1>2. CASE CloseWizard
    <2>1. fd = NoRun /\ fd' = NoRun /\ out' = out
      BY <1>2 DEF CloseWizard, Close, DurableInv, Following
    <2>2. pc'[q] = pc[q] \/ pc'[q] = "killed"
      BY <1>2 DEF CloseWizard, Close, TypeOK, InstallTypeOK
    <2>3. QED
      BY <1>1, <2>1, <2>2 DEF Attended, Active, Gone, Ending, BeforeBootable,
         AfterBootable
  <1>3. CASE PowerLoss
    <2>1. out'[q] = << >>
      BY <1>3 DEF PowerLoss
    <2>2. pc'[q] \in Gone \cup {"idle"} /\ (pc'[q] = "idle" => pc[q] = "idle")
      BY <1>3 DEF PowerLoss, LosePower, Active, Gone, TypeOK, InstallTypeOK
    <2>3. QED
      BY <1>1, <2>1, <2>2 DEF Attended, Active, Gone, BeforeBootable,
         AfterBootable
  <1>4. QED
    BY <1>2, <1>3

\* Who reads, who has touched the container and who says DONE.
THEOREM SessionInvCorrect == HonestSession => (Spec => []SessionInv)
  <1> SUFFICES ASSUME HonestSession PROVE Spec => []SessionInv
    OBVIOUS
  <1>1. Init => SessionInv
    BY DEF Init, PipeInit, InstallInit, SessionInv, Attended, Active,
       BeforeBootable, AfterBootable
  <1>2. TypeOK /\ DurableInv /\ BootInv /\ SessionInv /\ [Next]_vars => SessionInv'
    <2> SUFFICES ASSUME TypeOK, DurableInv, BootInv, SessionInv, [Next]_vars
                 PROVE  SessionInv'
      OBVIOUS
    <2>1. CASE UNCHANGED <<pipeVars, pc, touched, owner>>
      BY <2>1 DEF pipeVars, SessionInv, Attended, Active
    <2>2. CASE WizardStep /\ UNCHANGED installVars
      BY <2>1, <2>2 DEF WizardStep, Show, Next_cb, Back_cb, TurnPage, StartFails,
         StartMock, MockDone, installVars, processVars, contentVars
    <2>3. CASE CloseWizard \/ PowerLoss
      BY <2>3, EndAttended
    <2>4. ASSUME NEW r \in Runs, Launch(r) PROVE SessionInv'
      BY <2>4, LaunchAttended
    <2>5. ASSUME NEW r \in Runs, Poll(r), UNCHANGED installVars PROVE SessionInv'
      BY <2>5, PollAttended
    <2>6. ASSUME NEW r \in Runs, InstallerStep(r) PROVE SessionInv'
      BY <2>6, InstallerAttended
    <2>7. QED
      BY <2>1, <2>2, <2>3, <2>4, <2>5, <2>6 DEF Next, vars, installVars, processVars,
         contentVars, HonestSession, StaleWriteBack
  <1>3. Spec => []TypeOK
    BY TypeCorrect
  <1>4. Spec => []DurableInv
    BY DurableInvCorrect
  <1>5. Spec => []BootInv
    BY BootInvCorrect DEF HonestSession
  <1>6. QED
    BY <1>1, <1>2, <1>3, <1>4, <1>5, PTL DEF Spec

-----------------------------------------------------------------------------
(* KeepsPromise. *)

SessionIInv == TypeOK /\ DurableInv /\ FailureInv /\ BootInv /\ SessionInv

\* A run at work is the session the promise speaks of.
LEMMA InstallerPromise ==
  ASSUME SessionIInv, NEW r \in Runs, InstallerStep(r), UNCHANGED wizardVars
  PROVE  [Promise!Next]_Promise!vars
  <1> USE DEF SessionIInv
  <1>1. r = runs /\ runs' = runs /\ sessionBar' = sessionBar
    BY StepIsLocal DEF DurableInv, Alone, wizardVars, sessionBar
  <1>2. CASE UNCHANGED <<touched, owner, durable>>
    BY <1>1, <1>2 DEF Promise!vars, containerBar
  <1>3. CASE ~UNCHANGED <<touched, owner, durable>>
    <2>1. /\ Incomplete(r) /\ Attended(r) /\ BootableLast(r)
      BY DEF FailureInv, SessionInv, BootInv
    <2>2. \/ WriteGpt(r) \/ MkfsBoot(r) \/ MkfsRoot(r) \/ HookSync(r)
          \/ FinalSync(r) \/ StepFails(r)
      BY <1>3 DEF InstallerStep, CheckNetwork, ResolvePackages, ResolveTarget,
         AttachLoop, MountRoot, MountBoot, CheckIndex, InstallBase, ApplyFlavor,
         Assemble, StageBootloader, SkipBootloader, SaveNetwork, PutUnchecked,
         Put, DoneOk, Fail,
         SigPipe, UmountBoot, UmountRoot, Detach, contentVars
    <2>3. Active(r) /\ pc[r] \notin Ending
      BY <2>2 DEF WriteGpt, MkfsBoot, MkfsRoot, HookSync, FinalSync, StepFails,
         Say, Goto, Active, Ending, Cleanup, Gone, Failable
    <2>4. sessionBar = "running"
      BY <2>1, <2>3, MaxRunsAssumption
         DEF Attended, DurableInv, Following, sessionBar, Runs, NoRun
    <2>5. \/ /\ pc[r] = "gpt" /\ touched' = touched \cup {r}
             /\ UNCHANGED <<owner, durable>>
          \/ /\ touched' = touched
             /\ \/ pc[r] = "mkfs_boot" /\ Wipe(r, BootItems)
                \/ pc[r] = "mkfs_root" /\ Wipe(r, RootItems)
                \/ pc[r] \in {"hook_sync", "final_sync"} /\ Sync
      BY <1>3, <2>2 DEF WriteGpt, MkfsBoot, MkfsRoot, HookSync, FinalSync, StepFails,
         FailEffect, Wipe, Sync, Say, Goto, contentVars
    <2>6. CASE /\ pc[r] = "gpt" /\ touched' = touched \cup {r}
               /\ UNCHANGED <<owner, durable>>
      <3>1. owner # r
        BY <2>1, <2>6 DEF Incomplete, BeforeMkfs, BeforeLoop
      <3>2. containerBar' = "partial" /\ containerBar \in {"untouched", "partial"}
        BY <1>1, <2>6, <3>1 DEF containerBar
      <3>3. QED
        BY <1>1, <2>4, <3>2 DEF Promise!Next, Promise!Damage, Promise!vars
    <2>7. CASE /\ touched' = touched
               /\ \/ pc[r] = "mkfs_boot" /\ Wipe(r, BootItems)
                  \/ pc[r] = "mkfs_root" /\ Wipe(r, RootItems)
                  \/ pc[r] \in {"hook_sync", "final_sync"} /\ Sync
      <3>1. r \in touched
        BY <2>1, <2>7 DEF Attended, BeforeBootable, AfterBootable
      <3>2. owner = r /\ Items \subseteq durable => pc[r] = "final_sync"
        BY <2>1, <2>7 DEF Incomplete, Present, BeforeMkfs, BeforeLoop, Items,
           RootItems, BootItems
      <3>3. pc[r] = "final_sync" /\ owner = r /\ Items \subseteq durable =>
              owner' = r /\ Items \subseteq durable'
        BY <2>7 DEF Sync, BootInv
      <3>4. containerBar = "installed" => containerBar' = "installed"
        BY <1>1, <3>1, <3>2, <3>3, <2>7 DEF containerBar
      <3>5. containerBar \in {"partial", "installed"}
            /\ containerBar' \in {"partial", "installed"}
        BY <1>1, <2>7, <3>1 DEF containerBar
      <3>6. QED
        BY <1>1, <2>4, <3>4, <3>5 DEF Promise!Next, Promise!Complete, Promise!vars
    <2>8. QED
      BY <2>5, <2>6, <2>7
  <1>4. QED
    BY <1>2, <1>3

LEMMA LaunchPromise ==
  ASSUME SessionIInv, NEW r \in Runs, Launch(r)
  PROVE  Promise!Start
  <1>1. r \notin touched /\ touched' = touched
    BY DEF SessionIInv, SessionInv, Attended, Launch, Spawn, Goto, contentVars
  <1>2. /\ ui = "confirm" /\ present /\ present' = present /\ ui' = "progress"
        /\ ~failed' /\ runs' = r
    BY DEF Launch, StartInstall
  <1>3. QED
    BY <1>1, <1>2 DEF Promise!Start, sessionBar, containerBar

\* The verdict on the page is the one the container deserves.
LEMMA PollPromise ==
  ASSUME SessionIInv, NEW r \in Runs, Poll(r), UNCHANGED installVars
  PROVE  Promise!Announce
  <1> USE DEF SessionIInv
  <1>1. PICK ok \in BOOLEAN : /\ Finish(r, ok)
                              /\ fd = r
                              /\ ok => out[r] # << >> /\ Head(out[r]) = "done"
    BY DEF Poll, PollVerdict, PollEof, HasReader
  <1>2. r = runs /\ ui = "progress" /\ present /\ ~failed
    BY <1>1, MaxRunsAssumption DEF DurableInv, Following, Runs, NoRun
  <1>3. /\ UNCHANGED <<touched, owner, durable, written, runs, present>>
        /\ ui' = (IF ok THEN "done" ELSE ui) /\ failed' = ~ok
    BY <1>1 DEF Finish, installVars, contentVars
  <1>4. containerBar' = containerBar /\ sessionBar = "running"
    BY <1>2, <1>3 DEF containerBar, sessionBar
  <1>5. CASE ok
    <2>1. out[r] \in Seq(Verdicts)
      BY DEF TypeOK, PipeTypeOK
    <2>2. out[r] # << >> /\ Head(out[r]) = "done"
      BY <1>1, <1>5
    <2>3. 1 \in DOMAIN out[r] /\ out[r][1] = "done"
      BY <2>1, <2>2
    <2>4. owner = r /\ r \in touched /\ Items \subseteq durable
      BY <2>3 DEF SessionInv, Attended, DurableInv, Reported
    <2>5. containerBar = "installed"
      BY <1>2, <2>4 DEF containerBar
    <2>6. sessionBar' = "succeeded"
      BY <1>2, <1>3, <1>5 DEF sessionBar
    <2>7. QED
      BY <1>4, <2>5, <2>6 DEF Promise!Announce
  <1>6. CASE ~ok
    <2>1. FailureInv'
      BY PollKeepsFailure
    <2>2. failedAt'[runs'] # "none" /\ Incomplete(runs)' /\ runs' = runs
      BY <1>2, <1>3, <1>6, <2>1 DEF FailureInv
    <2>3. ~(owner = runs /\ Items \subseteq durable)
      BY <1>3, <2>2 DEF Incomplete, Present
    <2>4. containerBar # "installed"
      BY <2>3 DEF containerBar
    <2>5. sessionBar' = "failed"
      BY <1>2, <1>3, <1>6 DEF sessionBar
    <2>6. QED
      BY <1>4, <2>4, <2>5 DEF Promise!Announce
  <1>7. QED
    BY <1>5, <1>6

LEMMA EndPromise ==
  ASSUME SessionIInv, CloseWizard \/ PowerLoss
  PROVE  [Promise!Next]_Promise!vars
  <1>1. ui' = "closed" /\ runs' = runs /\ touched' = touched /\ owner' = owner
        /\ present' = present
    BY DEF CloseWizard, Close, PowerLoss, LosePower, contentVars
  <1>2. sessionBar' = "idle"
    BY <1>1 DEF sessionBar
  <1>3. CASE CloseWizard
    <2>1. containerBar' = containerBar
      BY <1>1, <1>3 DEF CloseWizard, contentVars, containerBar
    <2>2. sessionBar \in {"idle", "succeeded", "failed"}
      BY <1>3 DEF CloseWizard, Close, sessionBar
    <2>3. QED
      BY <1>2, <2>1, <2>2 DEF Promise!Next, Promise!Leave, Promise!vars
  <1>4. CASE PowerLoss
    <2>1. durable \subseteq durable'
      BY <1>4 DEF PowerLoss, LosePower
    <2>2. containerBar' = containerBar
          \/ (containerBar = "partial" /\ containerBar' = "installed")
      BY <1>1, <2>1 DEF containerBar
    <2>3. QED
      BY <1>2, <2>2 DEF Promise!Next, Promise!Crash
  <1>5. QED
    BY <1>3, <1>4

\* Turning pages, and the simulator's mock, are no session.
LEMMA WizardPromise ==
  ASSUME SessionIInv, ~StartMayFail, WizardStep, UNCHANGED installVars
  PROVE  UNCHANGED Promise!vars
  <1>1. containerBar' = containerBar
    BY DEF WizardStep, Show, Next_cb, Back_cb, TurnPage, StartFails, StartMock,
       MockDone, installVars, contentVars, containerBar
  <1>2. timer = "mock" => ~present
    BY DEF SessionIInv, DurableInv, Following
  <1>3. sessionBar' = sessionBar
    BY <1>2 DEF WizardStep, Show, Next_cb, Back_cb, TurnPage, Pages, StartFails,
       StartMock, MockDone, sessionBar
  <1>4. QED
    BY <1>1, <1>3 DEF Promise!vars

\* Wizard, pipe, installers and container together implement the promise of
\* InstallPromise, for every number of installs and with a failure, a SIGPIPE or
\* a power loss at any step: one verdict per session, and the right one.
THEOREM SessionKeepsPromise ==
  HonestSession /\ ~StartMayFail => (Spec => KeepsPromise)
  <1> SUFFICES ASSUME HonestSession, ~StartMayFail PROVE Spec => KeepsPromise
    OBVIOUS
  <1>1. Init => Promise!Init
    BY MaxRunsAssumption DEF Init, InstallInit, WizardInit, Promise!Init, sessionBar,
       containerBar
  <1>2. SessionIInv /\ [Next]_vars => [Promise!Next]_Promise!vars
    <2> SUFFICES ASSUME SessionIInv, [Next]_vars
                 PROVE  [Promise!Next]_Promise!vars
      OBVIOUS
    <2>1. CASE WizardStep /\ UNCHANGED installVars
      BY <2>1, WizardPromise
    <2>2. CASE CloseWizard \/ PowerLoss
      BY <2>2, EndPromise
    <2>3. ASSUME NEW r \in Runs, Launch(r) PROVE Promise!Start
      BY <2>3, LaunchPromise
    <2>4. ASSUME NEW r \in Runs, Poll(r), UNCHANGED installVars
          PROVE  Promise!Announce
      BY <2>4, PollPromise
    <2>5. ASSUME NEW r \in Runs, InstallerStep(r), UNCHANGED wizardVars
          PROVE  [Promise!Next]_Promise!vars
      BY <2>5, InstallerPromise
    <2>6. CASE UNCHANGED vars
      BY <2>6 DEF vars, installVars, wizardVars, contentVars, Promise!vars,
         sessionBar, containerBar
    <2>7. ~StaleWriteBack
      BY DEF HonestSession, StaleWriteBack
    <2>8. QED
      BY <2>1, <2>2, <2>3, <2>4, <2>5, <2>6, <2>7 DEF Next, Promise!Next
  <1>3. Spec => []SessionIInv
    <2>1. Spec => []TypeOK
      BY TypeCorrect
    <2>2. Spec => []DurableInv
      BY DurableInvCorrect
    <2>3. Spec => []FailureInv
      BY FailureInvCorrect
    <2>4. Spec => []BootInv
      BY BootInvCorrect DEF HonestSession
    <2>5. Spec => []SessionInv
      BY SessionInvCorrect
    <2>6. QED
      BY <2>1, <2>2, <2>3, <2>4, <2>5, PTL DEF SessionIInv
  <1>4. QED
    BY <1>1, <1>2, <1>3, PTL DEF Spec, KeepsPromise, Promise!Spec
=============================================================================
