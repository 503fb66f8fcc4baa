------------------------------ MODULE PrpInstall ------------------------------
(***************************************************************************)
(* prp-install (initramfs/rootfs/usr/bin/prp-install) and its bootloader   *)
(* hook: the shell process that wipes the target container, installs the   *)
(* base and the flavor into it and reports over the pipe.  Several runs    *)
(* may exist at once: a second launch does not wait for the first process. *)
(*                                                                         *)
(* The container is modelled by what a boot needs of it (Items): what the  *)
(* mounted file systems hold (written) and what has reached the flash      *)
(* (durable).  /mnt/peacock-target is a stack of mounts, as in the kernel: *)
(* a path resolves to the topmost layer, umount removes the topmost layer. *)
(***************************************************************************)
EXTENDS InstallPipe

CONSTANTS
  ApplyPrintsDone,   \* does peacock-oobe --apply end with a DONE line of its own?
  WritesMayFail,     \* may a write the script does not check be lost (ENOSPC)?
  HookMayBeMissing,  \* may the ramdisk lack prp-install-bootloader?
  CleanupMayFail,    \* may the kernel refuse (EBUSY) what the trap asks for?
  StaleMayWrite      \* may a mount left behind write over newer file systems?

ASSUME SwitchAssumption == /\ ApplyPrintsDone \in BOOLEAN
                           /\ WritesMayFail \in BOOLEAN
                           /\ HookMayBeMissing \in BOOLEAN
                           /\ CleanupMayFail \in BOOLEAN
                           /\ StaleMayWrite \in BOOLEAN

VARIABLES
  pc,        \* pc[r]: the step of the script that run r executes
  failedAt,  \* failedAt[r]: the step whose failure run r reports
  attached,  \* the runs whose loop device is attached to the container
  mounts,    \* the stack of mounts at /mnt/peacock-target, bottom first
  refused,   \* history: the runs one of whose mounts or loops was kept busy
  touched,   \* the runs that have written to the container
  owner,     \* the run whose mke2fs made the current file systems, or NoRun
  written,   \* the items present in the container's file systems
  durable    \* those of them that are on the flash

processVars == <<pc, failedAt>>
mountVars == <<attached, mounts, refused>>
contentVars == <<touched, owner, written, durable>>
installVars == <<processVars, mountVars, contentVars>>

RootItems == {"base", "flavor", "assembled", "creds"}
BootItems == {"extlinux"}
Items == RootItems \cup BootItems

Silent == {"loop", "mkfs_root", "mount_root", "mount_boot", "hook_sync",
           "final_sync"}
Failable == {"net", "resolve", "target", "gpt", "loop", "mkfs_boot",
             "mkfs_root", "mount_root", "mount_boot", "index", "base",
             "flavor", "bootloader"}
Printing == {"net", "resolve", "target", "gpt", "mkfs_boot", "index", "base",
             "flavor", "assemble", "bootloader", "save", "finish", "fail"}
Cleanup == {"umount_boot", "umount_root", "detach"}
Gone == {"exited", "killed"}
Steps == {"idle"} \cup Silent \cup Printing \cup Cleanup \cup Gone

\* The steps that run before "trap cleanup EXIT".
BeforeTrap == {"net", "resolve"}

Layers == Runs \X {"root", "boot"}

InstallTypeOK ==
  /\ pc \in [Runs -> Steps]
  /\ failedAt \in [Runs -> Failable \cup {"none"}]
  /\ attached \subseteq Runs
  /\ mounts \in Seq(Layers)
  /\ refused \subseteq Runs
  /\ touched \subseteq Runs
  /\ owner \in Runs \cup {NoRun}
  /\ written \subseteq Items
  /\ durable \subseteq Items

\* The container holds either foreign data or a complete earlier install.
InstallInit ==
  /\ pc = [r \in Runs |-> "idle"]
  /\ failedAt = [r \in Runs |-> "none"]
  /\ attached = {}
  /\ mounts = << >>
  /\ refused = {}
  /\ touched = {}
  /\ owner = NoRun
  /\ written \in {{}, Items}
  /\ durable = written

Active(r) == pc[r] \notin Gone \cup {"idle"}

-----------------------------------------------------------------------------
(* One step of the script that succeeds. *)

Goto(r, from, to) == /\ pc[r] = from
                     /\ pc' = [pc EXCEPT ![r] = to]
                     /\ UNCHANGED failedAt

\* A step that prints: the reader must still be there (see SigPipe).
Say(r, from, to) == HasReader(r) /\ Goto(r, from, to)

TopIs(layer) == mounts # << >> /\ mounts[Len(mounts)] = layer

\* A file written below /mnt/peacock-target by run r reaches the container
\* only through r's own mounts, on the file systems r made.
Lands(r) == owner = r /\ TopIs(<<r, "boot">>)

Put(r, item) == /\ written' = IF Lands(r) THEN written \cup {item} ELSE written
                /\ UNCHANGED <<touched, owner, durable>>

\* A write whose failure is ignored: the script goes on either way.
PutUnchecked(r, item) == \/ Put(r, item)
                         \/ WritesMayFail /\ UNCHANGED contentVars

Sync == /\ durable' = written
        /\ UNCHANGED <<touched, owner, written>>

CheckNetwork(r) == /\ Say(r, "net", "resolve")
                   /\ UNCHANGED <<mountVars, contentVars, pipeVars>>

ResolvePackages(r) == /\ Say(r, "resolve", "target")
                      /\ UNCHANGED <<mountVars, contentVars, pipeVars>>

ResolveTarget(r) == /\ Say(r, "target", "gpt")
                    /\ UNCHANGED <<mountVars, contentVars, pipeVars>>

WriteGpt(r) == /\ Say(r, "gpt", "loop")
               /\ touched' = touched \cup {r}
               /\ UNCHANGED <<owner, written, durable, mountVars, pipeVars>>

AttachLoop(r) == /\ Goto(r, "loop", "mkfs_boot")
                 /\ attached' = attached \cup {r}
                 /\ UNCHANGED <<mounts, refused, contentVars, pipeVars>>

\* mke2fs replaces the file system that held the given items.
Wipe(r, items) == /\ owner' = r
                  /\ written' = written \ items
                  /\ durable' = durable \ items
                  /\ UNCHANGED touched

\* (mutant of MkfsBoot) the old boot files survive the first mke2fs.
MkfsBootKeepsBoot(r) == /\ Say(r, "mkfs_boot", "mkfs_root")
                        /\ Wipe(r, RootItems)
                        /\ UNCHANGED <<mountVars, pipeVars>>

MkfsBoot(r) == /\ Say(r, "mkfs_boot", "mkfs_root")
               /\ Wipe(r, BootItems)
               /\ UNCHANGED <<mountVars, pipeVars>>

MkfsRoot(r) == /\ Goto(r, "mkfs_root", "mount_root")
               /\ Wipe(r, RootItems)
               /\ UNCHANGED <<mountVars, pipeVars>>

MountRoot(r) == /\ Goto(r, "mount_root", "mount_boot")
                /\ mounts' = Append(mounts, <<r, "root">>)
                /\ UNCHANGED <<attached, refused, contentVars, pipeVars>>

MountBoot(r) == /\ Goto(r, "mount_boot", "index")
                /\ mounts' = Append(mounts, <<r, "boot">>)
                /\ UNCHANGED <<attached, refused, contentVars, pipeVars>>

\* ftr sync into the target's own db, then ftr info device-<codename>.
CheckIndex(r) == /\ Say(r, "index", "base")
                 /\ UNCHANGED <<mountVars, contentVars, pipeVars>>

InstallBase(r) == /\ Say(r, "base", "flavor")
                  /\ Put(r, "base")
                  /\ UNCHANGED <<mountVars, pipeVars>>

\* peacock-oobe --apply inherits the pipe as its standard output; what
\* apply_flavor_glue writes after it is not checked.
ApplyFlavor(r) == /\ Say(r, "flavor", "assemble")
                  /\ PutUnchecked(r, "flavor")
                  /\ IF ApplyPrintsDone THEN Write(r, "done")
                                        ELSE UNCHANGED pipeVars
                  /\ UNCHANGED mountVars

Assemble(r) == /\ Say(r, "assemble", "bootloader")
               /\ PutUnchecked(r, "assembled")
               /\ UNCHANGED <<mountVars, pipeVars>>

StageBootloader(r) == /\ Say(r, "bootloader", "hook_sync")
                      /\ PutUnchecked(r, "extlinux")
                      /\ UNCHANGED <<mountVars, pipeVars>>

\* No prp-install-bootloader: a WARN line, and the script goes on.
SkipBootloader(r) == /\ HookMayBeMissing
                     /\ Say(r, "bootloader", "save")
                     /\ UNCHANGED <<mountVars, contentVars, pipeVars>>

HookSync(r) == /\ Goto(r, "hook_sync", "save")
               /\ Sync
               /\ UNCHANGED <<mountVars, pipeVars>>

SaveNetwork(r) == /\ Say(r, "save", "final_sync")
                  /\ PutUnchecked(r, "creds")
                  /\ UNCHANGED <<mountVars, pipeVars>>

\* (mutant of FinalSync) the sync before DONE is forgotten.
FinalSyncForgotten(r) == /\ Goto(r, "final_sync", "finish")
                         /\ UNCHANGED <<mountVars, contentVars, pipeVars>>

FinalSync(r) == /\ Goto(r, "final_sync", "finish")
                /\ Sync
                /\ UNCHANGED <<mountVars, pipeVars>>

DoneOk(r) == /\ Say(r, "finish", "umount_boot")
             /\ Write(r, "done")
             /\ UNCHANGED <<mountVars, contentVars>>

-----------------------------------------------------------------------------
(* Failure, the EXIT trap, and death by SIGPIPE. *)

\* What a failing step may already have done to the container.
FailEffect(r) ==
  \/ UNCHANGED <<contentVars, attached>>
  \/ /\ pc[r] = "gpt"
     /\ touched' = touched \cup {r}
     /\ UNCHANGED <<owner, written, durable, attached>>
  \/ /\ pc[r] = "loop"  \* attached, but the partitions did not appear
     /\ attached' = attached \cup {r}
     /\ UNCHANGED contentVars
  \/ pc[r] = "mkfs_boot" /\ Wipe(r, BootItems) /\ UNCHANGED attached
  \/ pc[r] = "mkfs_root" /\ Wipe(r, RootItems) /\ UNCHANGED attached

\* The bootloader hook prints an ERROR line of its own before it exits 1; a
\* blueprint action run by peacock-oobe does when it ends through bp_fail.
ChildError(r) ==
  \/ pc[r] \in {"flavor", "bootloader"} /\ Write(r, "error")
  \/ pc[r] # "bootloader" /\ UNCHANGED pipeVars

StepFails(r) ==
  /\ pc[r] \in Failable
  /\ pc[r] \in Silent \/ HasReader(r)
  /\ pc' = [pc EXCEPT ![r] = "fail"]
  /\ failedAt' = [failedAt EXCEPT ![r] = pc[r]]
  /\ FailEffect(r)
  /\ ChildError(r)
  /\ UNCHANGED <<mounts, refused>>

\* fail(): print ERROR and exit 1, which runs the trap once it is set.
Fail(r) ==
  /\ Say(r, "fail", IF failedAt[r] \in BeforeTrap THEN "exited" ELSE "umount_boot")
  /\ Write(r, "error")
  /\ UNCHANGED <<mountVars, contentVars>>

\* A print into a pipe nobody reads: the shell dies of SIGPIPE, which runs
\* no EXIT trap.
SigPipe(r) ==
  /\ pc[r] \in Printing
  /\ ~HasReader(r)
  /\ pc' = [pc EXCEPT ![r] = "killed"]
  /\ UNCHANGED <<failedAt, mountVars, contentVars, pipeVars>>

TopOfKind(part) == mounts # << >> /\ mounts[Len(mounts)][2] = part

\* umount of one of the two paths; its failure is ignored.
Umount(part) ==
  \/ /\ mounts' = IF TopOfKind(part) THEN SubSeq(mounts, 1, Len(mounts) - 1)
                                      ELSE mounts
     /\ UNCHANGED refused
  \/ /\ CleanupMayFail /\ TopOfKind(part)
     /\ refused' = refused \cup {mounts[Len(mounts)][1]}
     /\ UNCHANGED mounts

\* (mutant of UmountBoot) the trap unmounts the root below a mounted /boot.
UmountBootTooLate(r) == /\ Goto(r, "umount_boot", "umount_root")
                        /\ Umount("root")
                        /\ UNCHANGED <<attached, contentVars, pipeVars>>

UmountBoot(r) == /\ Goto(r, "umount_boot", "umount_root")
                 /\ Umount("boot")
                 /\ UNCHANGED <<attached, contentVars, pipeVars>>

UmountRoot(r) == /\ Goto(r, "umount_root", "detach")
                 /\ Umount("root")
                 /\ UNCHANGED <<attached, contentVars, pipeVars>>

Clear(r) == \A i \in DOMAIN mounts : mounts[i][1] # r

\* losetup -d, whose failure is ignored too.  The kernel keeps a loop device
\* that has a partition mounted.
Detach(r) == /\ Goto(r, "detach", "exited")
             /\ \/ /\ attached' = IF Clear(r) THEN attached \ {r} ELSE attached
                   /\ UNCHANGED refused
                \/ /\ CleanupMayFail /\ r \in attached
                   /\ refused' = refused \cup {r}
                   /\ UNCHANGED attached
             /\ UNCHANGED <<mounts, contentVars, pipeVars>>

-----------------------------------------------------------------------------
Spawn(r) == Goto(r, "idle", "net")

InstallerStep(r) ==
  \/ CheckNetwork(r) \/ ResolvePackages(r) \/ ResolveTarget(r)
  \/ WriteGpt(r) \/ AttachLoop(r) \/ MkfsBoot(r) \/ MkfsRoot(r)
  \/ MountRoot(r) \/ MountBoot(r) \/ CheckIndex(r)
  \/ InstallBase(r) \/ ApplyFlavor(r) \/ Assemble(r)
  \/ StageBootloader(r) \/ SkipBootloader(r) \/ HookSync(r)
  \/ SaveNetwork(r) \/ FinalSync(r) \/ DoneOk(r) \/ StepFails(r) \/ Fail(r) \/ SigPipe(r)
  \/ UmountBoot(r) \/ UmountRoot(r) \/ Detach(r)

\* The kernel writes back a mount of an earlier run, over the blocks that the
\* last mke2fs gave to newer files.
StaleWriteBack ==
  /\ StaleMayWrite
  /\ owner # NoRun /\ \E i \in DOMAIN mounts : mounts[i][1] # owner
  /\ \E lost \in SUBSET written : /\ written' = written \ lost
                                  /\ durable' = durable \ lost
  /\ UNCHANGED <<processVars, mountVars, touched, owner>>

\* Kernel and flash across a power loss: mounts and loops are gone, and of the
\* items not yet synced any subset has reached the flash.
LosePower ==
  /\ pc' = [r \in Runs |-> IF Active(r) THEN "killed" ELSE pc[r]]
  /\ attached' = {}
  /\ mounts' = << >>
  /\ \E kept \in SUBSET (written \ durable) : written' = durable \cup kept
  /\ durable' = written'
  /\ UNCHANGED <<failedAt, refused, touched, owner>>
=============================================================================
