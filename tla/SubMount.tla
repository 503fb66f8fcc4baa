------------------------------- MODULE SubMount -------------------------------
(***************************************************************************)
(* mount_subparts (initramfs/rootfs/usr/lib/prp/subparts-mount.sh): mounts *)
(* the two file systems inside the container partition, boot and root, by  *)
(* whatever the kernel offers: its own partition nodes, device-mapper, a   *)
(* partitioned loop device, loop devices at an offset, and last the        *)
(* implicit loops of mount(8).  init calls it once at boot, while the GUI  *)
(* is up already, and the GUI's "Mount system" button at any time.         *)
(*                                                                         *)
(* A file system is named by its partition.  Sizes, offsets and the names  *)
(* of device nodes are left out, and so is the log file.                   *)
(***************************************************************************)
EXTENDS Naturals, Sequences, SequencesExt

CONSTANTS
  MaxCalls,   \* bound: how often the function is called
  MaxLoops,   \* loop devices of the kernel (8 nodes in the code)
  InTurn,     \* does a call begin only when the one before has returned?
  MayBeBusy   \* may an umount fail because someone works below the mount?

ASSUME CallsAssumption == /\ MaxCalls \in Nat \ {0}
                          /\ MaxLoops \in Nat
                          /\ {InTurn, MayBeBusy} \subseteq BOOLEAN

VARIABLES
  at,      \* at[c]: how far call c has come
  src,     \* src[c]: boot_src and root_src
  main,    \* main[c]: main_loop, or NoLoop
  picked,  \* picked[c]: the loop find_free_loop has just answered
  tools,   \* the programs this system has
  nodes,   \* partitions the kernel shows as block devices of their own
  dm,      \* the device-mapper devices prp_peacock_boot and _root
  loops,   \* what each loop device exposes
  auto,    \* loop devices that go when they are no longer used
  mnt,     \* the stacks of mounts at /mnt/peacock_boot and /mnt/peacock_root
  alias    \* the links <userdata>s0 and s1

callVars == <<at, src, main, picked, tools>>
loopVars == <<loops, auto>>
deviceVars == <<nodes, dm, loopVars>>
vars == <<callVars, deviceVars, mnt, alias>>

Calls == 1..MaxCalls
Parts == {"boot", "root"}
Loops == 1..MaxLoops
NoLoop == 0

\* A block device by its name: a partition node, a device-mapper device,
\* partition `part` of loop `loop`, all of loop `loop`, or a link to one.
Device(via, loop, part) == [via |-> via, loop |-> loop, part |-> part]
NoSrc == Device("none", NoLoop, "boot")
Sources == {NoSrc} \cup [via : {"node", "dm", "part", "loop", "link"},
                         loop : Loops \cup {NoLoop}, part : Parts]

\* A loop device has no partition of its own.
WholeLoop(l) == Device("loop", l, "boot")

Done == {"ok", "failed"}
Places == {"idle", "umount", "nodes", "dm", "main", "main loop", "pick root",
           "root loop", "pick boot", "boot loop", "alias", "mount boot",
           "mount root", "cleanup"} \cup Done

Init == /\ at = [c \in Calls |-> "idle"]
        /\ src = [c \in Calls |-> [p \in Parts |-> NoSrc]]
        /\ main = [c \in Calls |-> NoLoop]
        /\ picked = [c \in Calls |-> NoLoop]
        /\ tools \in SUBSET {"dmsetup", "losetup"}
        /\ nodes = {}
        /\ dm = [p \in Parts |-> "none"]
        /\ loops = [l \in Loops |-> "free"]
        /\ auto = {}
        /\ mnt = [p \in Parts |-> << >>]
        /\ alias = [p \in Parts |-> NoSrc]

-----------------------------------------------------------------------------
(* The kernel's block devices. *)

\* A link is followed; one that names itself leads nowhere.
Target(s) == IF s.via = "link" THEN alias[s.part] ELSE s

\* The file system that is read through device d, if any.
Content(d) ==
  CASE d.via = "node" -> d.part
    [] d.via = "dm" /\ dm[d.part] = "live" -> d.part
    [] d.via = "part" /\ loops[d.loop] = "disk" -> d.part
    [] d.via = "loop" -> loops[d.loop]
    [] OTHER -> "nothing"

Exists(d) == \/ d.via \in {"node", "loop"}
             \/ d.via = "dm" /\ dm[d.part] # "none"
             \/ d.via = "part" /\ loops[d.loop] = "disk"

MountedFrom(mounts) == {m.src : m \in UNION {Range(mounts[p]) : p \in Parts}}
InUse(l) == \E s \in MountedFrom(mnt) : s.loop = l

\* losetup -d: a loop in use stays until it no longer is.
Detach(l) == /\ loops' = IF InUse(l) THEN loops ELSE [loops EXCEPT ![l] = "free"]
             /\ auto' = IF InUse(l) THEN auto \cup {l} ELSE auto \ {l}

\* losetup -d, then losetup, which refuses a loop that is still bound.
Attach(l, what) == /\ ~InUse(l)
                   /\ loops' = [loops EXCEPT ![l] = what]
                   /\ auto' = auto \ {l}

\* dmsetup remove -f: a device in use keeps its name and answers with errors.
Removed == [p \in Parts |->
              IF dm[p] # "none" /\ Device("dm", NoLoop, p) \in MountedFrom(mnt)
              THEN "dead" ELSE "none"]

-----------------------------------------------------------------------------
(* One call. *)

Goto(c, from, to) == at[c] = from /\ at' = [at EXCEPT ![c] = to]

\* resolve_userdata_dev finds no container, or it holds no GPT.
Refuse(c) == /\ Goto(c, "idle", "failed")
             /\ \A d \in Calls : d < c => at[d] # "idle"
             /\ InTurn => \A d \in Calls : d < c => at[d] \in Done
             /\ UNCHANGED <<src, main, picked, tools, deviceVars, mnt, alias>>

Begin(c) == /\ Goto(c, "idle", "umount")
            /\ \A d \in Calls : d < c => at[d] # "idle"
            /\ InTurn => \A d \in Calls : d < c => at[d] \in Done
            /\ UNCHANGED <<src, main, picked, tools, deviceVars, mnt, alias>>

\* umount takes the topmost mount; its loop device may go with it.
Umount(c) ==
  /\ Goto(c, "umount", "nodes")
  /\ \E busy \in SUBSET {p \in Parts : mnt[p] # << >>} :
       /\ MayBeBusy \/ busy = {}
       /\ mnt' = [p \in Parts |-> IF p \in busy \/ mnt[p] = << >>
                                  THEN mnt[p] ELSE Front(mnt[p])]
       /\ LET gone == {l \in auto : \A s \in MountedFrom(mnt') : s.loop # l}
          IN  /\ loops' = [l \in Loops |-> IF l \in gone THEN "free" ELSE loops[l]]
              /\ auto' = auto \ gone
  /\ alias' = [p \in Parts |-> NoSrc]
  /\ UNCHANGED <<src, main, picked, tools, nodes, dm>>

\* Four looks, a second apart, for the kernel's nodes or another call's links.
Nodes(c) ==
  /\ Goto(c, "nodes", "dm")
  /\ \E more \in SUBSET Parts : nodes' = nodes \cup more
  /\ src' = [src EXCEPT ![c] =
       [p \in Parts |-> IF p \in nodes' THEN Device("node", NoLoop, p)
                        ELSE IF Exists(alias[p]) THEN Device("link", NoLoop, p)
                        ELSE NoSrc]]
  /\ UNCHANGED <<main, picked, tools, dm, loopVars, mnt, alias>>

Missing(c) == {p \in Parts : src[c][p] = NoSrc}

\* Both devices are made anew when either partition is missing; one whose node
\* does not appear is made in vain.
DmMap(c) ==
  /\ Goto(c, "dm", "main")
  /\ "dmsetup" \in tools /\ Missing(c) # {}
  /\ \E made \in SUBSET {p \in Parts : Removed[p] = "none"} :
       /\ dm' = [p \in Parts |-> IF p \in made THEN "live" ELSE Removed[p]]
       /\ \E seen \in SUBSET (made \cap Missing(c)) :
            src' = [src EXCEPT ![c] =
              [p \in Parts |-> IF p \in seen THEN Device("dm", NoLoop, p) ELSE @[p]]]
  /\ UNCHANGED <<main, picked, tools, nodes, loopVars, mnt, alias>>

\* No dmsetup, nothing missing, or the size of the container is unknown.
DmSkip(c) == /\ Goto(c, "dm", "main")
             /\ UNCHANGED <<src, main, picked, tools, deviceVars, mnt, alias>>

\* (mutant of FreeLoop) a loop is taken without a look at what it is bound to
FreeLoopAny(skip) == IF MaxLoops = 0 THEN NoLoop ELSE 1

\* find_free_loop: the first one that is not bound, nor the one to skip.
FreeLoop(skip) ==
  LET free == {l \in Loops \ {skip} : loops[l] = "free"}
  IN  IF free = {} THEN NoLoop ELSE CHOOSE l \in free : \A k \in free : l <= k

\* A loop is looked for, and bound in a later step.
Pick(c, wanted, skip, from, to, otherwise) ==
  LET l == FreeLoop(skip)
      takes == wanted /\ "losetup" \in tools /\ l # NoLoop
  IN  /\ Goto(c, from, IF takes THEN to ELSE otherwise)
      /\ picked' = [picked EXCEPT ![c] = IF takes THEN l ELSE NoLoop]
      /\ UNCHANGED <<src, main, tools, deviceVars, mnt, alias>>

PickMain(c) ==
  Pick(c, Missing(c) # {}, NoLoop, "main", "main loop", "pick root")

\* losetup -P: a partition that shows up replaces even a source found before.
MainLoop(c) ==
  /\ Goto(c, "main loop", "pick root")
  /\ \/ /\ Attach(picked[c], "disk")
        /\ main' = [main EXCEPT ![c] = picked[c]]
        /\ \E seen \in SUBSET Parts :
             src' = [src EXCEPT ![c] =
               [p \in Parts |-> IF p \in seen
                                THEN Device("part", picked[c], p) ELSE @[p]]]
     \/ Detach(picked[c]) /\ UNCHANGED <<main, src>>
  /\ UNCHANGED <<picked, tools, nodes, dm, mnt, alias>>

\* loop_attach_labeled: the loop is kept only when blkid finds the label.  Its
\* tries of the second offset, after a detach of the first, are this one step:
\* with calls in turn nobody else sees the loop in between.
LabeledLoop(c, p, from, to) ==
  /\ Goto(c, from, to)
  /\ \/ /\ Attach(picked[c], p)
        /\ src' = [src EXCEPT ![c][p] = WholeLoop(picked[c])]
        /\ UNCHANGED picked
     \/ /\ Detach(picked[c])
        /\ picked' = [picked EXCEPT ![c] = NoLoop]
        /\ UNCHANGED src
  /\ UNCHANGED <<main, tools, nodes, dm, mnt, alias>>

PickRoot(c) == Pick(c, src[c]["root"] = NoSrc, main[c],
                    "pick root", "root loop", "pick boot")
RootLoop(c) == LabeledLoop(c, "root", "root loop", "pick boot")

\* After RootLoop, picked is root_loop.
PickBoot(c) == Pick(c, src[c]["boot"] = NoSrc /\ FreeLoop(picked[c]) # main[c],
                    picked[c], "pick boot", "boot loop", "alias")
BootLoop(c) == LabeledLoop(c, "boot", "boot loop", "alias")

Alias(c) ==
  /\ Goto(c, "alias", "mount boot")
  /\ alias' = 
       [p \in Parts |-> IF Exists(Target(src[c][p])) THEN src[c][p] ELSE alias[p]]
  /\ UNCHANGED <<src, main, picked, tools, deviceVars, mnt>>

OnTop(p, d) == mnt[p] # << >> /\ Last(mnt[p]).src = d

\* A mount of device d, which then shows the file system `holds`.  The kernel
\* refuses the device that is on top of the mount point already.
Push(p, d, holds) ==
  /\ ~OnTop(p, d)
  /\ mnt' = [mnt EXCEPT ![p] = Append(@, [src |-> d, holds |-> holds])]

MountSrc(c, p) == LET d == Target(src[c][p])
                  IN  /\ Content(d) \in Parts
                      /\ Push(p, d, Content(d))
                      /\ UNCHANGED loopVars

\* mount -o loop,offset=...
MountOffset(p) == LET l == FreeLoop(NoLoop)
                  IN  /\ l # NoLoop
                      /\ Push(p, WholeLoop(l), p)
                      /\ loops' = [loops EXCEPT ![l] = p]
                      /\ auto' = auto \cup {l}

MountBoot(c) == /\ Goto(c, "mount boot", "mount root")
                /\ \/ MountSrc(c, "boot")
                   \/ MountOffset("boot")
                   \/ UNCHANGED <<mnt, loopVars>>
                /\ UNCHANGED <<src, main, picked, tools, nodes, dm, alias>>

MountRoot(c) == /\ Goto(c, "mount root", "ok")
                /\ MountSrc(c, "root") \/ MountOffset("root")
                /\ UNCHANGED <<src, main, picked, tools, nodes, dm, alias>>

\* (mutant of NoRoot) whether the root was mounted is not looked at
NoRootIsOk(c) == /\ Goto(c, "mount root", "ok")
                 /\ UNCHANGED <<src, main, picked, tools, deviceVars, mnt, alias>>

NoRoot(c) == /\ Goto(c, "mount root", "cleanup")
             /\ UNCHANGED <<src, main, picked, tools, deviceVars, mnt, alias>>

\* dmsetup remove -f of both devices.
Cleanup(c) == /\ Goto(c, "cleanup", "failed")
              /\ dm' = IF "dmsetup" \in tools THEN Removed ELSE dm
              /\ UNCHANGED <<src, main, picked, tools, nodes, loopVars, mnt, alias>>

-----------------------------------------------------------------------------
Call(c) == \/ Refuse(c) \/ Begin(c) \/ Umount(c) \/ Nodes(c)
           \/ DmMap(c) \/ DmSkip(c) \/ PickMain(c) \/ MainLoop(c)
           \/ PickRoot(c) \/ RootLoop(c) \/ PickBoot(c) \/ BootLoop(c)
           \/ Alias(c) \/ MountBoot(c) \/ MountRoot(c) \/ NoRoot(c) \/ Cleanup(c)

Next == \E c \in Calls : Call(c)

Spec == Init /\ [][Next]_vars

-----------------------------------------------------------------------------
(* Properties. *)

TypeOK == /\ at \in [Calls -> Places]
          /\ src \in [Calls -> [Parts -> Sources]]
          /\ {main, picked} \subseteq [Calls -> Loops \cup {NoLoop}]
          /\ tools \subseteq {"dmsetup", "losetup"}
          /\ nodes \subseteq Parts
          /\ dm \in [Parts -> {"none", "live", "dead"}]
          /\ loops \in [Loops -> {"free", "disk"} \cup Parts]
          /\ auto \subseteq Loops
          /\ mnt \in [Parts -> Seq([src : Sources, holds : Parts])]
          /\ alias \in [Parts -> Sources]

\* What is mounted as the root is the root file system, and what is mounted
\* as boot is boot, whichever mechanisms worked and whichever devices earlier
\* calls have left behind.
RightFs == \A p \in Parts : \A m \in Range(mnt[p]) : m.holds = p

\* Once a call has returned 0, and until the next one begins, what is on top
\* at the root's mount point is the root file system and can be read.
SuccessIsMounted ==
  \A c \in Calls :
    at[c] = "ok" /\ (\A d \in Calls : d > c => at[d] = "idle") =>
      mnt["root"] # << >> /\ Content(Last(mnt["root"]).src) = "root"

\* subparts-mount.sh:608, "Clean up failed dm mappings": a device below a mounted
\* file system is not taken away.
MountedStaysWhole ==
  [][\A p \in Parts : \A m \in Range(mnt[p]) \cap Range(mnt[p])' :
       Content(m.src) = m.holds => Content(m.src)' = m.holds]_vars
=============================================================================
