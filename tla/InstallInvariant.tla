--------------------------- MODULE InstallInvariant ---------------------------
(***************************************************************************)
(* Why the properties of InstallSession hold: the inductive invariants,    *)
(* each with the switches it needs.  InstallSession_proofs proves them.    *)
(***************************************************************************)
EXTENDS InstallSession

\* What may be on the container after a power loss.
Present == written \cup durable

BeforeLoop == {"idle", "net", "resolve", "target", "gpt", "loop"}
BeforeMkfs == BeforeLoop \cup {"mkfs_boot"}
BeforeMount == BeforeMkfs \cup {"mkfs_root", "mount_root"}
Ending == {"fail"} \cup Cleanup \cup Gone

-----------------------------------------------------------------------------
(* NeverCutOff: without a power loss no buttons can reach a running child. *)

\* wizard_close never finds a child to signal: the buttons that close the page
\* are there only after install_finish has forgotten the pid.
NothingToSignal == /\ pid # NoRun => ui = "progress" /\ ~failed
                   /\ timer = "mock" => pid = NoRun

-----------------------------------------------------------------------------
(* NoFalseFailure, whatever the switches say. *)

\* The first mke2fs takes extlinux.conf away, the second one what the hand-over
\* wrote last; a run that has failed gives neither back.
Incomplete(r) ==
  /\ pc[r] \in BeforeMkfs => owner # r
  /\ owner = r =>
       /\ pc[r] = "mkfs_root" => "extlinux" \notin Present
       /\ pc[r] \in {"mount_root", "mount_boot", "index", "base", "flavor",
                     "assemble", "bootloader", "hook_sync", "save"} =>
            "creds" \notin Present
       /\ failedAt[r] # "none" => ~(Items \subseteq Present)

\* What a run says in its first verdict line, and that it says something.
Truthful(r) ==
  /\ pc[r] = "idle" => out[r] = << >>
  /\ failedAt[r] # "none" => pc[r] \in Ending
  /\ pc[r] = "fail" => failedAt[r] # "none"
  /\ fd = r =>
       /\ pc[r] # "killed"
       /\ out[r] = << >> \/ Head(out[r]) = "done" \/ failedAt[r] # "none"
       /\ pc[r] \in Cleanup \cup Gone /\ failedAt[r] = "none" => out[r] # << >>

FailureInv ==
  /\ \A r \in Runs : Incomplete(r) /\ Truthful(r)
  /\ fd # NoRun => fd = runs
  /\ failed => runs \in Runs /\ failedAt[runs] # "none"

-----------------------------------------------------------------------------
(* ExitCleansUp, when a retry waits for the installer before it. *)

\* Run r's layers are the topmost ones, and it has no others.
RootOnTop(r) == /\ TopIs(<<r, "root">>)
                /\ \A i \in 1 .. (Len(mounts) - 1) : mounts[i][1] # r
BothOnTop(r) == /\ Len(mounts) >= 2
                /\ TopIs(<<r, "boot">>)
                /\ mounts[Len(mounts) - 1] = <<r, "root">>
                /\ \A i \in 1 .. (Len(mounts) - 2) : mounts[i][1] # r

Mounted(r) ==
  /\ pc[r] \in BeforeMount => Clear(r)
  /\ pc[r] \in {"detach", "exited"} /\ r \notin refused => Clear(r)
  /\ pc[r] = "mount_boot" => RootOnTop(r)
  /\ pc[r] \in {"index", "base", "flavor", "assemble", "bootloader", "hook_sync",
                "save", "final_sync", "finish"} => BothOnTop(r)
  /\ pc[r] \in {"fail", "umount_boot"} => Clear(r) \/ RootOnTop(r) \/ BothOnTop(r)
  /\ pc[r] = "umount_root" /\ r \notin refused => Clear(r) \/ RootOnTop(r)

LoopHeld(r) == /\ pc[r] \in BeforeLoop => r \notin attached
               /\ pc[r] = "exited" /\ r \notin refused => r \notin attached

\* A failure before the trap is set leaves nothing to clean up.
NothingYet(r) == pc[r] = "fail" /\ failedAt[r] \in BeforeTrap =>
                   Clear(r) /\ r \notin attached

OneAtATime(r) == /\ Active(r) => r = runs
                 /\ r > runs => pc[r] = "idle"

CleanInv == \A r \in Runs : /\ OneAtATime(r)
                             /\ Mounted(r)
                             /\ LoopHeld(r)
                             /\ NothingYet(r)

-----------------------------------------------------------------------------
(* BootableIsComplete, when in addition no unchecked write is lost and no *)
(* mount that was left behind writes over the new file systems.          *)

RootFs == {"base", "flavor", "assembled"}

\* Not bootable, or complete, and a power loss makes no difference.
Safe == BootItems \subseteq Present => RootFs \subseteq durable

BeforeBootable == {"mkfs_root", "mount_root", "mount_boot", "index", "base",
                   "flavor", "assemble", "bootloader"}
AfterBootable == {"hook_sync", "save", "final_sync", "finish"}

\* From its first mke2fs on the container is run r's, and extlinux.conf comes
\* last.
BootableLast(r) ==
  /\ pc[r] \in BeforeBootable \cup AfterBootable => owner = r
  /\ pc[r] \in BeforeBootable => "extlinux" \notin Present
  /\ pc[r] \in {"flavor", "assemble", "bootloader", "hook_sync"} => "base" \in written
  /\ pc[r] \in {"assemble", "bootloader", "hook_sync"} => "flavor" \in written
  /\ pc[r] \in {"bootloader", "hook_sync"} => "assembled" \in written
  /\ pc[r] \in AfterBootable \ {"hook_sync"} => Safe
  /\ owner = r /\ pc[r] \in Cleanup \cup {"fail", "exited"} => Safe

BootInv == /\ durable \subseteq written
           /\ owner = NoRun => Safe
           /\ \A r \in Runs : BootableLast(r)

-----------------------------------------------------------------------------
(* DoneIsDurable, and the session as a whole. *)

\* peacock-oobe keeps to its own pipe, the writes of the assemble step reach
\* the file system and stay there, the hook is in the ramdisk, and a retry
\* starts after the failed installer has ended.
HonestSession == /\ ~ApplyPrintsDone /\ ~WritesMayFail
                 /\ ~HookMayBeMissing /\ ~StaleMayWrite
                 /\ RetryWaits

FromFinish == {"finish"}
FromFinalSync == {"final_sync"} \cup FromFinish
FromHookSync == {"hook_sync", "save"} \cup FromFinalSync
FromBootloader == {"bootloader"} \cup FromHookSync
FromAssemble == {"assemble"} \cup FromBootloader
FromFlavor == {"flavor"} \cup FromAssemble

\* The steps whose writes must land in the target.
Populating == {"index", "base"} \cup (FromFlavor \ FromFinalSync)

\* Only the last launched run is alive, and only its pipe is open.
Alone(r) == /\ Active(r) => r = runs
            /\ out[r] # << >> => fd = r

OnTarget(r) == /\ pc[r] \in {"mount_root", "mount_boot"} => owner = r
               /\ pc[r] \in Populating => Lands(r)

Installed(r) == /\ pc[r] \in FromFlavor => "base" \in written
                /\ pc[r] \in FromAssemble => "flavor" \in written
                /\ pc[r] \in FromBootloader => "assembled" \in written
                /\ pc[r] \in FromHookSync => "extlinux" \in written
                /\ pc[r] \in FromFinalSync => "creds" \in written
                /\ pc[r] \in FromFinish => Items \subseteq durable

Reported(r) == (\E i \in DOMAIN out[r] : out[r][i] = "done") =>
                 Items \subseteq durable /\ pc[r] \in Cleanup \cup Gone

\* The wizard reads a pipe only on the progress page of the last run.
Following == /\ fd # NoRun => fd = runs /\ ui = "progress" /\ present /\ ~failed
             /\ timer = "mock" => ~present

\* On the done page whatever still runs only unmounts.
Settled == ui = "done" /\ present =>
             /\ Items \subseteq durable
             /\ \A r \in Runs : Active(r) => pc[r] \in Cleanup

\* Every DONE the wizard reads, or will read, was printed by the only living
\* run after its own sync covered all that it installed.
DurableInv == /\ \A r \in Runs : /\ Alone(r)
                                 /\ OnTarget(r)
                                 /\ Installed(r)
                                 /\ Reported(r)
              /\ Following
              /\ Settled

\* A run works only while the wizard reads its pipe, marks the container as its
\* own before anything else, and says DONE of nothing else.
Attended(r) == /\ Active(r) /\ pc[r] \notin Ending => fd = r
               /\ out[r] # << >> => pc[r] \in Ending
               /\ pc[r] = "idle" => r \notin touched
               /\ pc[r] \in {"loop", "mkfs_boot"} \cup BeforeBootable \cup AfterBootable =>
                    r \in touched
               /\ (\E i \in DOMAIN out[r] : out[r][i] = "done") =>
                    owner = r /\ r \in touched

SessionInv == \A r \in Runs : Attended(r)
=============================================================================
