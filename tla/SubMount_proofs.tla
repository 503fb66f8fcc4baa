---------------------------- MODULE SubMount_proofs ----------------------------
(***************************************************************************)
(* Proofs about mount_subparts, for every number of calls one after the    *)
(* other and of loop devices: what is mounted where, and what a success    *)
(* means.                                                                  *)
(***************************************************************************)
EXTENDS SubMount, SequenceTheorems, WellFoundedInduction, TLAPS

-----------------------------------------------------------------------------
(* The operators the steps are built from. *)

\* A set of natural numbers has a least one.
LEMMA LeastNumber ==
  ASSUME NEW S, S \subseteq Nat, S # {}
  PROVE  \E l \in S : \A k \in S : l <= k
  <1>1. \E x \in S : \A y \in S : ~(<<y, x>> \in OpToRel(<, Nat))
    BY WFMin, NatLessThanWellFounded
  <1>2. PICK x \in S : \A y \in S : ~(<<y, x>> \in OpToRel(<, Nat))
    BY <1>1
  <1>3. \A y \in S : <<y, x>> \in Nat \X Nat /\ (y < x => <<y, x>> \in OpToRel(<, Nat))
    BY DEF OpToRel
  <1>4. \A y \in S : ~(y < x)
    BY <1>2, <1>3
  <1>5. QED
    BY <1>4

\* find_free_loop answers with a loop that is bound to nothing, or not at all.
LEMMA FreeLoopIsFree ==
  ASSUME NEW skip, FreeLoop(skip) # NoLoop
  PROVE  /\ FreeLoop(skip) \in Loops
         /\ loops[FreeLoop(skip)] = "free"
  <1> DEFINE free == {l \in Loops \ {skip} : loops[l] = "free"}
  <1>1. free # {} /\ free \subseteq Nat
    BY CallsAssumption DEF FreeLoop, Loops
  <1>2. \E l \in free : \A k \in free : l <= k
    BY <1>1, LeastNumber
  <1>3. FreeLoop(skip) = CHOOSE l \in free : \A k \in free : l <= k
    BY <1>1 DEF FreeLoop
  <1>4. FreeLoop(skip) \in free
    BY <1>2, <1>3
  <1>5. QED
    BY <1>4

\* The stack without its topmost mount.
LEMMA FrontOfStack ==
  ASSUME NEW S, NEW s \in Seq(S), s # << >>
  PROVE  Front(s) \in Seq(S) /\ Range(Front(s)) \subseteq Range(s)
  <1> DEFINE n == Len(s) - 1
  <1>1. n \in Nat /\ n + 1 = Len(s) /\ 1 \in Int /\ n \in Int
    OBVIOUS
  <1>2. \A i \in 1 .. n : s[i] \in S /\ i \in DOMAIN s
    OBVIOUS
  <1>3. Front(s) = SubSeq(s, 1, n)
    BY DEF Front
  <1> HIDE DEF n
  <1>4. /\ SubSeq(s, 1, n) \in Seq(S)
        /\ Len(SubSeq(s, 1, n)) = IF 1 <= n THEN n - 1 + 1 ELSE 0
        /\ \A i \in 1 .. (n - 1 + 1) : SubSeq(s, 1, n)[i] = s[1 + i - 1]
    BY ONLY <1>1, <1>2, SubSeqProperties
  <1>5. DOMAIN Front(s) = 1 .. n
    BY <1>1, <1>3, <1>4
  <1>6. \A i \in 1 .. n : i \in 1 .. (n - 1 + 1) /\ 1 + i - 1 = i
    BY <1>1
  <1>7. \A i \in 1 .. n : Front(s)[i] = s[i]
    BY ONLY <1>3, <1>4, <1>6
  <1>8. QED
    BY <1>2, <1>3, <1>4, <1>5, <1>7 DEF Range

\* The stack with one mount more.
LEMMA PushOnStack ==
  ASSUME NEW S, NEW s \in Seq(S), NEW m \in S
  PROVE  /\ Append(s, m) \in Seq(S)
         /\ Append(s, m) # << >>
         /\ Last(Append(s, m)) = m
         /\ Range(Append(s, m)) \subseteq Range(s) \cup {m}
  <1>1. /\ Append(s, m) \in Seq(S)
        /\ Len(Append(s, m)) = Len(s) + 1
        /\ \A i \in 1 .. Len(s) : Append(s, m)[i] = s[i]
        /\ Append(s, m)[Len(s) + 1] = m
    BY AppendProperties
  <1>2. \A i \in DOMAIN Append(s, m) : i \in 1 .. Len(s) \/ i = Len(s) + 1
    BY <1>1
  <1>3. DOMAIN s = 1 .. Len(s)
    OBVIOUS
  <1>4. QED
    BY <1>1, <1>2, <1>3 DEF Range, Last

LEMMA DeviceType ==
  /\ NoSrc \in Sources
  /\ \A via \in {"node", "dm", "part", "loop", "link"},
        l \in Loops \cup {NoLoop}, p \in Parts : Device(via, l, p) \in Sources
  BY DEF Sources, Device, NoSrc, Parts

-----------------------------------------------------------------------------
(* Types. *)

Mounts == [src : Sources, holds : Parts]

LEMMA TypeInit == Init => TypeOK
  <1> SUFFICES ASSUME Init PROVE TypeOK
    OBVIOUS
  <1>1. /\ at \in [Calls -> Places] /\ src \in [Calls -> [Parts -> Sources]]
        /\ {main, picked} \subseteq [Calls -> Loops \cup {NoLoop}]
        /\ tools \subseteq {"dmsetup", "losetup"}
    BY DeviceType DEF Init, Places
  <1>2. /\ nodes \subseteq Parts /\ dm \in [Parts -> {"none", "live", "dead"}]
        /\ loops \in [Loops -> {"free", "disk"} \cup Parts]
        /\ auto \subseteq Loops
        /\ alias \in [Parts -> Sources]
    BY DeviceType DEF Init
  <1>3. mnt \in [Parts -> Seq([src : Sources, holds : Parts])]
    BY EmptySeq DEF Init
  <1>4. QED
    BY <1>1, <1>2, <1>3 DEF TypeOK

LEMMA RemovedType ==
  ASSUME dm \in [Parts -> {"none", "live", "dead"}]
  PROVE  Removed \in [Parts -> {"none", "live", "dead"}]
  BY DEF Removed

LEMMA PickType ==
  ASSUME TypeOK, NEW c \in Calls, NEW wanted, NEW skip, NEW from,
         NEW to \in Places, NEW otherwise \in Places,
         Pick(c, wanted, skip, from, to, otherwise)
  PROVE  TypeOK'
  <1> DEFINE l == FreeLoop(skip)
             takes == wanted /\ "losetup" \in tools /\ l # NoLoop
  <1>1. (IF takes THEN l ELSE NoLoop) \in Loops \cup {NoLoop}
    BY FreeLoopIsFree
  <1>2. /\ at' = [at EXCEPT ![c] = IF takes THEN to ELSE otherwise]
        /\ picked' = [picked EXCEPT ![c] = IF takes THEN l ELSE NoLoop]
        /\ UNCHANGED <<src, main, tools, deviceVars, mnt, alias>>
    BY DEF Pick, Goto
  <1> HIDE DEF l, takes
  <1>3. QED
    BY <1>1, <1>2 DEF TypeOK, deviceVars, loopVars

LEMMA LoopStepType ==
  ASSUME TypeOK, NEW l \in Loops, NEW what \in {"disk"} \cup Parts,
         Attach(l, what) \/ Detach(l)
  PROVE  /\ loops' \in [Loops -> {"free", "disk"} \cup Parts]
         /\ auto' \subseteq Loops
  BY DEF TypeOK, Attach, Detach

\* A loop that a call has chosen is a loop.
Chosen(c) == at[c] \in {"main loop", "root loop", "boot loop"} => picked[c] \in Loops

\* One call finds other sources.
LEMMA NewSources ==
  ASSUME src \in [Calls -> [Parts -> Sources]], NEW c \in Calls,
         NEW f \in [Parts -> Sources], src' = [src EXCEPT ![c] = f]
  PROVE  src' \in [Calls -> [Parts -> Sources]]
  OBVIOUS

LEMMA LabeledType ==
  ASSUME TypeOK, NEW c \in Calls, Chosen(c), NEW p \in Parts, NEW to \in Places,
         \E from \in {"root loop", "boot loop"} : LabeledLoop(c, p, from, to)
  PROVE  TypeOK'
  <1>1. /\ picked[c] \in Loops
        /\ at' = [at EXCEPT ![c] = to]
        /\ Attach(picked[c], p) \/ Detach(picked[c])
        /\ src' = [src EXCEPT ![c][p] = WholeLoop(picked[c])] \/ src' = src
        /\ picked' = picked \/ picked' = [picked EXCEPT ![c] = NoLoop]
        /\ UNCHANGED <<main, tools, nodes, dm, mnt, alias>>
    BY DEF LabeledLoop, Goto, Chosen
  <1>2. WholeLoop(picked[c]) \in Sources
    BY <1>1, DeviceType DEF WholeLoop, Parts
  <1>3. loops' \in [Loops -> {"free", "disk"} \cup Parts] /\ auto' \subseteq Loops
    BY <1>1, LoopStepType
  <1>4. src' \in [Calls -> [Parts -> Sources]]
    <2>1. [src[c] EXCEPT ![p] = WholeLoop(picked[c])] \in [Parts -> Sources]
      BY <1>2 DEF TypeOK
    <2>2. QED
      BY <1>1, <2>1, NewSources DEF TypeOK
  <1>5. at' \in [Calls -> Places]
    BY <1>1 DEF TypeOK
  <1>6. {main', picked'} \subseteq [Calls -> Loops \cup {NoLoop}]
    BY <1>1 DEF TypeOK
  <1>7. QED
    BY <1>1, <1>3, <1>4, <1>5, <1>6 DEF TypeOK

LEMMA PushType ==
  ASSUME TypeOK, NEW p \in Parts, NEW d \in Sources, NEW holds \in Parts,
         Push(p, d, holds)
  PROVE  mnt' \in [Parts -> Seq(Mounts)]
  <1>1. [src |-> d, holds |-> holds] \in Mounts
    BY DEF Mounts
  <1>2. mnt[p] \in Seq(Mounts)
    BY DEF TypeOK, Mounts
  <1>3. Append(mnt[p], [src |-> d, holds |-> holds]) \in Seq(Mounts)
    BY <1>1, <1>2, PushOnStack
  <1>4. QED
    BY <1>3 DEF Push, TypeOK, Mounts

LEMMA MountType ==
  ASSUME TypeOK, NEW c \in Calls, NEW p \in Parts, MountSrc(c, p) \/ MountOffset(p)
  PROVE  /\ mnt' \in [Parts -> Seq(Mounts)]
         /\ loops' \in [Loops -> {"free", "disk"} \cup Parts]
         /\ auto' \subseteq Loops
  <1>1. CASE MountSrc(c, p)
    <2>1. Target(src[c][p]) \in Sources
      BY DEF TypeOK, Target, Sources, NoSrc, Device
    <2>2. QED
      BY <1>1, <2>1, PushType DEF MountSrc, loopVars, TypeOK
  <1>2. CASE MountOffset(p)
    <2> DEFINE l == FreeLoop(NoLoop)
    <2>1. l \in Loops /\ WholeLoop(l) \in Sources
      BY <1>2, FreeLoopIsFree, DeviceType DEF MountOffset, WholeLoop, Parts
    <2>2. /\ Push(p, WholeLoop(l), p)
          /\ loops' = [loops EXCEPT ![l] = p]
          /\ auto' = auto \cup {l}
      BY <1>2 DEF MountOffset
    <2> HIDE DEF l
    <2>3. QED
      BY <2>1, <2>2, PushType DEF TypeOK
  <1>3. QED
    BY <1>1, <1>2

LEMMA ChosenInit == Init => \A c \in Calls : Chosen(c)
  BY DEF Init, Chosen

LEMMA ChosenNext ==
  ASSUME TypeOK, \A c \in Calls : Chosen(c), [Next]_vars
  PROVE  \A c \in Calls : Chosen(c)'
  <1> USE DEF Chosen, Goto
  <1>1. CASE UNCHANGED vars
    BY <1>1 DEF vars, callVars
  <1>2. ASSUME NEW c \in Calls, Call(c) PROVE \A q \in Calls : Chosen(q)'
    <2>1. \A q \in Calls \ {c} : at'[q] = at[q] /\ picked'[q] = picked[q]
      BY <1>2 DEF TypeOK, Call, Refuse, Begin, Umount, Nodes, DmMap, DmSkip, PickMain,
         MainLoop, PickRoot, RootLoop, PickBoot, BootLoop, LabeledLoop, Pick, Alias,
         MountBoot, MountRoot, NoRoot, Cleanup
    <2>2. Chosen(c)'
      <3>1. ASSUME NEW wanted, NEW skip, NEW from, NEW to,
                   NEW otherwise \in {"pick root", "pick boot", "alias"},
                   Pick(c, wanted, skip, from, to, otherwise)
            PROVE  Chosen(c)'
        BY <3>1, FreeLoopIsFree DEF Pick, TypeOK
      <3>2. CASE PickMain(c) \/ PickRoot(c) \/ PickBoot(c)
        BY <3>1, <3>2 DEF PickMain, PickRoot, PickBoot
      <3>3. CASE ~(PickMain(c) \/ PickRoot(c) \/ PickBoot(c))
        <4>1. at'[c] \notin {"main loop", "root loop", "boot loop"}
          BY <1>2, <3>3 DEF TypeOK, Call, Refuse, Begin, Umount, Nodes, DmMap, DmSkip,
             MainLoop, RootLoop, BootLoop, LabeledLoop, Alias, MountBoot, MountRoot,
             NoRoot, Cleanup
        <4>2. QED
          BY <4>1
      <3>4. QED
        BY <3>2, <3>3
    <2>3. QED
      BY <2>1, <2>2
  <1>3. QED
    BY <1>1, <1>2 DEF Next

LEMMA CallType ==
  ASSUME TypeOK, NEW c \in Calls, Chosen(c), Call(c)
  PROVE  TypeOK'
  <1> USE DEF Goto, Places, Done, deviceVars, loopVars
  <1>1. CASE Refuse(c) \/ Begin(c) \/ DmSkip(c) \/ NoRoot(c)
    BY <1>1 DEF TypeOK, Refuse, Begin, DmSkip, NoRoot
  <1>2. CASE Umount(c)
    <2>1. PICK busy \in SUBSET {p \in Parts : mnt[p] # << >>} :
            mnt' = [p \in Parts |-> IF p \in busy \/ mnt[p] = << >>
                                    THEN mnt[p] ELSE Front(mnt[p])]
      BY <1>2 DEF Umount
    <2>2. \A p \in Parts : mnt[p] \in Seq(Mounts)
      BY DEF TypeOK, Mounts
    <2>3. \A p \in Parts : mnt[p] # << >> => Front(mnt[p]) \in Seq(Mounts)
      BY <2>2, FrontOfStack
    <2>4. mnt' \in [Parts -> Seq(Mounts)]
      BY <2>1, <2>2, <2>3
    <2>5. loops' \in [Loops -> {"free", "disk"} \cup Parts] /\ auto' \subseteq Loops
      BY <1>2 DEF Umount, TypeOK
    <2>6. alias' \in [Parts -> Sources]
      BY <1>2, DeviceType DEF Umount
    <2>7. QED
      BY <1>2, <2>4, <2>5, <2>6 DEF Umount, TypeOK, Mounts
  <1>3. CASE Nodes(c)
    <2>1. src' \in [Calls -> [Parts -> Sources]]
      BY <1>3, DeviceType DEF Nodes, TypeOK
    <2>2. QED
      BY <1>3, <2>1 DEF Nodes, TypeOK
  <1>4. CASE DmMap(c)
    <2>1. src' \in [Calls -> [Parts -> Sources]]
      <3>1. PICK seen \in SUBSET Parts : src' = [src EXCEPT ![c] =
              [p \in Parts |-> IF p \in seen THEN Device("dm", NoLoop, p)
                                             ELSE src[c][p]]]
        BY <1>4 DEF DmMap
      <3>2. [p \in Parts |-> IF p \in seen THEN Device("dm", NoLoop, p)
                                           ELSE src[c][p]] \in [Parts -> Sources]
        BY DeviceType DEF TypeOK
      <3>3. QED
        BY <3>1, <3>2, NewSources DEF TypeOK
    <2>2. dm' \in [Parts -> {"none", "live", "dead"}]
      <3>1. PICK made : dm' = [p \in Parts |-> IF p \in made THEN "live"
                                                             ELSE Removed[p]]
        BY <1>4 DEF DmMap
      <3>2. Removed \in [Parts -> {"none", "live", "dead"}]
        BY RemovedType DEF TypeOK
      <3>3. QED
        BY <3>1, <3>2
    <2>3. QED
      BY <1>4, <2>1, <2>2 DEF DmMap, TypeOK
  <1>5. CASE PickMain(c) \/ PickRoot(c) \/ PickBoot(c)
    BY <1>5, PickType DEF PickMain, PickRoot, PickBoot
  <1>6. CASE MainLoop(c)
    <2>1. picked[c] \in Loops
      BY <1>6 DEF MainLoop, Chosen
    <2>2. src' \in [Calls -> [Parts -> Sources]]
      <3>1. CASE src' = src
        BY <3>1 DEF TypeOK
      <3>2. CASE src' # src
        <4>1. PICK seen \in SUBSET Parts : src' = [src EXCEPT ![c] =
                [p \in Parts |-> IF p \in seen THEN Device("part", picked[c], p)
                                               ELSE src[c][p]]]
          BY <1>6, <3>2 DEF MainLoop
        <4>2. [p \in Parts |-> IF p \in seen THEN Device("part", picked[c], p)
                                             ELSE src[c][p]] \in [Parts -> Sources]
          BY <2>1, DeviceType DEF TypeOK
        <4>3. QED
          BY <4>1, <4>2, NewSources DEF TypeOK
      <3>3. QED
        BY <3>1, <3>2
    <2>3. loops' \in [Loops -> {"free", "disk"} \cup Parts] /\ auto' \subseteq Loops
      BY <1>6, <2>1, LoopStepType DEF MainLoop
    <2>4. main' \in [Calls -> Loops \cup {NoLoop}] /\ at' \in [Calls -> Places]
      BY <1>6, <2>1 DEF MainLoop, TypeOK
    <2>5. QED
      BY <1>6, <2>2, <2>3, <2>4 DEF MainLoop, TypeOK
  <1>7. CASE RootLoop(c)
    BY <1>7, LabeledType DEF RootLoop, Parts
  <1>8. CASE BootLoop(c)
    BY <1>8, LabeledType DEF BootLoop, Parts
  <1>9. CASE Alias(c)
    BY <1>9 DEF Alias, TypeOK
  <1>10. CASE MountBoot(c)
    <2>1. /\ mnt' \in [Parts -> Seq(Mounts)]
          /\ loops' \in [Loops -> {"free", "disk"} \cup Parts]
          /\ auto' \subseteq Loops
      BY <1>10, MountType DEF MountBoot, Parts, TypeOK, Mounts
    <2>2. QED
      BY <1>10, <2>1 DEF MountBoot, TypeOK, Mounts
  <1>11. CASE MountRoot(c)
    <2>1. /\ mnt' \in [Parts -> Seq(Mounts)]
          /\ loops' \in [Loops -> {"free", "disk"} \cup Parts]
          /\ auto' \subseteq Loops
      BY <1>11, MountType DEF MountRoot, Parts
    <2>2. QED
      BY <1>11, <2>1 DEF MountRoot, TypeOK, Mounts
  <1>12. CASE Cleanup(c)
    BY <1>12, RemovedType DEF Cleanup, TypeOK
  <1>13. QED
    BY <1>1, <1>2, <1>3, <1>4, <1>5, <1>6, <1>7, <1>8, <1>9, <1>10, <1>11, <1>12
       DEF Call

\* Every variable keeps its type, whether calls overlap or not.
THEOREM TypeCorrect == Spec => []TypeOK
  <1> DEFINE AllChosen == \A c \in Calls : Chosen(c)
  <1>1. Init => TypeOK /\ AllChosen
    BY TypeInit, ChosenInit
  <1>2. TypeOK /\ AllChosen /\ [Next]_vars => TypeOK' /\ AllChosen'
    <2> SUFFICES ASSUME TypeOK, AllChosen, [Next]_vars PROVE TypeOK' /\ AllChosen'
      OBVIOUS
    <2>1. AllChosen'
      BY ChosenNext
    <2>2. TypeOK'
      <3>1. CASE UNCHANGED vars
        BY <3>1 DEF vars, callVars, deviceVars, loopVars, TypeOK
      <3>2. QED
        BY <3>1, CallType DEF Next
    <2>3. QED
      BY <2>1, <2>2
  <1>3. QED
    BY <1>1, <1>2, PTL DEF Spec
-----------------------------------------------------------------------------
(* RightFs and SuccessIsMounted, for calls that take turns. *)

\* A source s leads to the file system p: it is not a link, and a whole loop
\* device is bound, according to `bound`, to that file system.
Bears(bound, s, p) ==
  \/ s = NoSrc
  \/ s.via \in {"node", "dm", "part"} /\ s.part = p
  \/ s.via = "loop" /\ s.loop \in Loops /\ bound[s.loop] = p

InOrder == \A c, d \in Calls : d < c /\ at[c] # "idle" => at[d] \in Done

\* A call that has not looked yet has no source, and while it looks there is no
\* link of an earlier call it could mistake for one.
Fresh(c) == at[c] \in {"idle", "umount", "nodes"} =>
              src[c] = [p \in Parts |-> NoSrc]
Unlinked(c) == at[c] = "nodes" => alias = [p \in Parts |-> NoSrc]

\* The loop chosen in the step before is still free.
Held(c) == at[c] \in {"main loop", "root loop", "boot loop"} =>
             picked[c] \in Loops /\ loops[picked[c]] = "free"

Named(c) == at[c] \notin Done => \A p \in Parts : Bears(loops, src[c][p], p)

RunsAlone(c) == Fresh(c) /\ Unlinked(c) /\ Held(c) /\ Named(c)

TurnInv == /\ InOrder
           /\ \A c \in Calls : RunsAlone(c)
           /\ RightFs
           /\ SuccessIsMounted

\* Binding a free loop leaves what the sources lead to.
LEMMA BearsStays ==
  ASSUME TypeOK, NEW s, NEW p \in Parts, Bears(loops, s, p),
         NEW l \in Loops, loops[l] = "free",
         loops' = loops \/ \E what : loops' = [loops EXCEPT ![l] = what]
  PROVE  Bears(loops', s, p)
  BY DEF Bears, TypeOK, Parts

\* A call that takes a step is the only one under way.
LEMMA OthersRest ==
  ASSUME TypeOK, TurnInv, InTurn, NEW c \in Calls, Call(c)
  PROVE  /\ at[c] \notin Done /\ at'[c] # "idle"
         /\ \A d \in Calls : d < c => at[d] \in Done
         /\ \A d \in Calls : d > c => at[d] = "idle"
         /\ \A q \in Calls \ {c} : /\ at'[q] = at[q]
                                   /\ src'[q] = src[q]
  <1> USE DEF Goto, TypeOK, Done
  <1>1. /\ at[c] \notin Done
        /\ at[c] = "idle" => \A d \in Calls : d < c => at[d] \in Done
    BY DEF Call, Refuse, Begin, Umount, Nodes, DmMap, DmSkip, PickMain, MainLoop,
       PickRoot, RootLoop, PickBoot, BootLoop, LabeledLoop, Pick, Alias, MountBoot,
       MountRoot, NoRoot, Cleanup
  <1>2. at'[c] # "idle" /\ \A q \in Calls \ {c} : at'[q] = at[q]
    BY DEF Call, Refuse, Begin, Umount, Nodes, DmMap, DmSkip, PickMain, MainLoop,
       PickRoot, RootLoop, PickBoot, BootLoop, LabeledLoop, Pick, Alias, MountBoot,
       MountRoot, NoRoot, Cleanup
  <1>3. \A q \in Calls \ {c} : src'[q] = src[q]
    BY DEF Call, Refuse, Begin, Umount, Nodes, DmMap, DmSkip, PickMain, MainLoop,
       PickRoot, RootLoop, PickBoot, BootLoop, LabeledLoop, Pick, Alias, MountBoot,
       MountRoot, NoRoot, Cleanup
  <1>4. \A d \in Calls : d < c => at[d] \in Done
    BY <1>1 DEF TurnInv, InOrder
  <1>5. \A d \in Calls : d > c => at[d] = "idle"
    BY <1>1, CallsAssumption DEF TurnInv, InOrder, Calls
  <1>6. QED
    BY <1>1, <1>2, <1>3, <1>4, <1>5

LEMMA OrderStays ==
  ASSUME TypeOK, TurnInv, InTurn, NEW c \in Calls, Call(c)
  PROVE  InOrder'
  <1> SUFFICES ASSUME NEW a \in Calls, NEW b \in Calls, b < a, at'[a] # "idle"
               PROVE  at'[b] \in Done
    BY DEF InOrder, Done
  <1>1. CASE a = c
    BY <1>1, OthersRest, CallsAssumption DEF Calls
  <1>2. CASE b = c
    BY <1>2, OthersRest, CallsAssumption DEF Calls
  <1>3. CASE a # c /\ b # c
    BY <1>3, OthersRest DEF TurnInv, InOrder
  <1>4. QED
    BY <1>1, <1>2, <1>3

LEMMA OthersAlone ==
  ASSUME TypeOK, TurnInv, InTurn, NEW c \in Calls, Call(c),
         NEW q \in Calls, q # c
  PROVE  RunsAlone(q)'
  <1>1. at'[q] = at[q] /\ src'[q] = src[q] /\ at[q] \in Done \cup {"idle"}
    BY OthersRest, CallsAssumption DEF Calls
  <1>2. Fresh(q)
    BY DEF TurnInv, RunsAlone
  <1>3. at[q] = "idle" => \A p \in Parts : src'[q][p] = NoSrc
    BY <1>1, <1>2 DEF Fresh
  <1>4. Fresh(q)' /\ Unlinked(q)' /\ Held(q)'
    BY <1>1, <1>2 DEF Fresh, Unlinked, Held, Done
  <1>5. Named(q)'
    BY <1>1, <1>3 DEF Named, Bears, Done
  <1>6. QED
    BY <1>4, <1>5 DEF RunsAlone

\* Choosing a loop.
LEMMA PickAlone ==
  ASSUME TypeOK, NEW c \in Calls, Named(c), at[c] \notin Done,
         NEW wanted, NEW skip, NEW from,
         NEW to \in {"main loop", "root loop", "boot loop"},
         NEW otherwise \in {"pick root", "pick boot", "alias"},
         Pick(c, wanted, skip, from, to, otherwise)
  PROVE  RunsAlone(c)'
  <1> DEFINE l == FreeLoop(skip)
             takes == wanted /\ "losetup" \in tools /\ l # NoLoop
  <1>1. takes => l \in Loops /\ loops[l] = "free"
    BY FreeLoopIsFree
  <1>2. /\ at' = [at EXCEPT ![c] = IF takes THEN to ELSE otherwise]
        /\ picked' = [picked EXCEPT ![c] = IF takes THEN l ELSE NoLoop]
        /\ UNCHANGED <<src, loops>>
    BY DEF Pick, Goto, deviceVars, loopVars
  <1> HIDE DEF l, takes
  <1>3. at'[c] = (IF takes THEN to ELSE otherwise) /\ (takes => picked'[c] = l)
    BY <1>2 DEF TypeOK
  <1>4. Held(c)'
    BY <1>1, <1>2, <1>3 DEF Held
  <1>5. Fresh(c)' /\ Unlinked(c)'
    BY <1>3 DEF Fresh, Unlinked
  <1>6. Named(c)'
    BY <1>2 DEF Named
  <1>7. QED
    BY <1>4, <1>5, <1>6 DEF RunsAlone

\* Binding it.
LEMMA LabeledAlone ==
  ASSUME TypeOK, NEW c \in Calls, Named(c), Held(c), NEW part \in Parts,
         NEW from \in {"root loop", "boot loop"}, NEW to \in {"pick boot", "alias"},
         LabeledLoop(c, part, from, to)
  PROVE  RunsAlone(c)'
  <1> DEFINE l == picked[c]
  <1>1. at[c] = from /\ at'[c] = to /\ l \in Loops /\ loops[l] = "free"
    BY DEF LabeledLoop, Goto, Held, TypeOK
  <1>2. \/ /\ loops' = [loops EXCEPT ![l] = part]
           /\ src' = [src EXCEPT ![c][part] = WholeLoop(l)]
        \/ /\ loops' = loops \/ loops' = [loops EXCEPT ![l] = "free"]
           /\ src' = src
    BY DEF LabeledLoop, Attach, Detach
  <1> HIDE DEF l
  <1>3. \A p \in Parts : Bears(loops', src[c][p], p)
    BY <1>1, <1>2, BearsStays DEF Named, Done
  <1>4. \A p \in Parts : \/ src'[c][p] = src[c][p]
                         \/ p = part /\ src'[c][p] = WholeLoop(l) /\ loops'[l] = p
    <2>1. CASE src' = src
      BY <2>1
    <2>2. CASE /\ loops' = [loops EXCEPT ![l] = part]
               /\ src' = [src EXCEPT ![c][part] = WholeLoop(l)]
      <3>1. loops'[l] = part
        BY <1>1, <2>2 DEF TypeOK
      <3>2. src'[c] = [src[c] EXCEPT ![part] = WholeLoop(l)]
        BY <2>2 DEF TypeOK
      <3>3. src[c] \in [Parts -> Sources]
        BY DEF TypeOK
      <3>4. QED
        BY <3>1, <3>2, <3>3
    <2>3. QED
      BY <1>2, <2>1, <2>2
  <1>5. ASSUME NEW p \in Parts PROVE Bears(loops', src'[c][p], p)
    <2>1. CASE src'[c][p] = src[c][p]
      BY <1>3, <2>1
    <2>2. CASE p = part /\ src'[c][p] = WholeLoop(l) /\ loops'[l] = p
      <3>1. WholeLoop(l).via = "loop" /\ WholeLoop(l).loop = l
        BY DEF WholeLoop, Device
      <3>2. src'[c][p].via = "loop" /\ src'[c][p].loop = l /\ l \in Loops
            /\ loops'[l] = p
        BY <1>1, <2>2, <3>1
      <3>3. QED
        BY ONLY <3>2 DEF Bears
    <2>3. QED
      BY <1>4, <2>1, <2>2
  <1>6. QED
    BY <1>1, <1>5 DEF RunsAlone, Fresh, Unlinked, Held, Named

LEMMA OwnAlone ==
  ASSUME TypeOK, TurnInv, InTurn, NEW c \in Calls, Call(c)
  PROVE  RunsAlone(c)'
  <1>1. Fresh(c) /\ Unlinked(c) /\ Held(c) /\ Named(c) /\ at[c] \notin Done
    BY OthersRest DEF TurnInv, RunsAlone
  <1>2. \A p \in Parts : Bears(loops, src[c][p], p)
    BY <1>1 DEF Named
  <1> USE DEF RunsAlone, Fresh, Unlinked, Held, Named, Goto, Done, deviceVars, loopVars
  <1>3. CASE Refuse(c) \/ Begin(c)
    <2>1. at'[c] \in {"failed", "umount"} /\ src' = src /\ loops' = loops
          /\ at[c] = "idle"
      BY <1>3 DEF Refuse, Begin, TypeOK
    <2>2. QED
      BY <1>1, <1>2, <2>1
  <1>4. CASE Umount(c)
    <2>1. at'[c] = "nodes" /\ src'[c] = [p \in Parts |-> NoSrc]
          /\ alias' = [p \in Parts |-> NoSrc]
      BY <1>1, <1>4 DEF Umount, TypeOK
    <2>2. \A p \in Parts : Bears(loops', src'[c][p], p)
      BY <2>1 DEF Bears
    <2>3. QED
      BY <2>1, <2>2
  <1>5. CASE Nodes(c)
    <2>1. \A p \in Parts : ~Exists(alias[p])
      BY <1>1, <1>5 DEF Nodes, Exists, NoSrc, Device
    <2>2. \A p \in Parts : src'[c][p] \in {NoSrc, Device("node", NoLoop, p)}
      BY <1>5, <2>1 DEF Nodes, TypeOK
    <2>3. \A p \in Parts : Bears(loops', src'[c][p], p)
      BY <2>2 DEF Bears, Device
    <2>4. at'[c] = "dm"
      BY <1>5 DEF Nodes, TypeOK
    <2>5. QED
      BY <2>3, <2>4
  <1>6. CASE DmMap(c)
    <2>1. PICK seen : src' = [src EXCEPT ![c] =
            [p \in Parts |-> IF p \in seen THEN Device("dm", NoLoop, p)
                                           ELSE src[c][p]]]
      BY <1>6 DEF DmMap
    <2>2. \A p \in Parts : src'[c][p] \in {src[c][p], Device("dm", NoLoop, p)}
      BY <2>1 DEF TypeOK
    <2>3. loops' = loops /\ at'[c] = "main"
      BY <1>6 DEF DmMap, TypeOK
    <2>4. \A p \in Parts : Bears(loops', src'[c][p], p)
      BY <1>2, <2>2, <2>3 DEF Bears, Device
    <2>5. QED
      BY <2>3, <2>4
  <1>7. CASE DmSkip(c) \/ Alias(c) \/ NoRoot(c)
    <2>1. at'[c] \in {"main", "mount boot", "cleanup"} /\ src' = src /\ loops' = loops
      BY <1>7 DEF DmSkip, Alias, NoRoot, TypeOK
    <2>2. QED
      BY <1>2, <2>1
  <1>8. CASE PickMain(c) \/ PickRoot(c) \/ PickBoot(c)
    BY <1>1, <1>8, PickAlone DEF PickMain, PickRoot, PickBoot
  <1>9. CASE MainLoop(c)
    <2> DEFINE l == picked[c]
    <2>1. at'[c] = "pick root" /\ l \in Loops /\ loops[l] = "free"
          /\ (loops' = loops \/ \E what : loops' = [loops EXCEPT ![l] = what])
      BY <1>1, <1>9 DEF MainLoop, Attach, Detach, TypeOK
    <2>2. \A p \in Parts : src'[c][p] \in {src[c][p], Device("part", l, p)}
      <3>1. CASE src' = src
        BY <3>1
      <3>2. CASE src' # src
        <4>1. PICK seen : src' = [src EXCEPT ![c] =
                [p \in Parts |-> IF p \in seen THEN Device("part", l, p)
                                               ELSE src[c][p]]]
          BY <1>9, <3>2 DEF MainLoop
        <4>2. QED
          BY <4>1 DEF TypeOK
      <3>3. QED
        BY <3>1, <3>2
    <2> HIDE DEF l
    <2>3. \A p \in Parts : Bears(loops', src[c][p], p)
      BY <1>2, <2>1, BearsStays
    <2>4. \A p \in Parts : Bears(loops', src'[c][p], p)
      BY <2>2, <2>3 DEF Bears, Device
    <2>5. QED
      BY <2>1, <2>4
  <1>10. CASE RootLoop(c) \/ BootLoop(c)
    BY <1>1, <1>10, LabeledAlone DEF RootLoop, BootLoop, Parts
  <1>11. CASE MountBoot(c)
    <2>1. at'[c] = "mount root" /\ src' = src
      BY <1>11 DEF MountBoot, TypeOK
    <2>2. CASE loops' = loops
      BY <1>2, <2>1, <2>2
    <2>3. CASE MountOffset("boot")
      <3>1. FreeLoop(NoLoop) \in Loops /\ loops[FreeLoop(NoLoop)] = "free"
        BY <2>3, FreeLoopIsFree DEF MountOffset
      <3>2. \A p \in Parts : Bears(loops', src[c][p], p)
        BY <1>2, <2>3, <3>1, BearsStays DEF MountOffset
      <3>3. QED
        BY <2>1, <3>2
    <2>4. QED
      BY <1>11, <2>2, <2>3 DEF MountBoot, MountSrc
  <1>12. CASE MountRoot(c) \/ Cleanup(c)
    BY <1>12 DEF MountRoot, Cleanup, TypeOK
  <1>13. QED
    BY <1>3, <1>4, <1>5, <1>6, <1>7, <1>8, <1>9, <1>10, <1>11, <1>12 DEF Call

\* A source that leads anywhere leads to its own file system.
LEMMA RightContent ==
  ASSUME NEW c \in Calls, NEW p \in Parts, Bears(loops, src[c][p], p),
         Content(Target(src[c][p])) \in Parts
  PROVE  Content(Target(src[c][p])) = p
  <1> DEFINE s == src[c][p]
  <1>1. s.via \in {"none", "node", "dm", "part", "loop"}
    BY DEF Bears, NoSrc, Device
  <1>2. Target(s) = s
    BY <1>1 DEF Target
  <1>3. CASE s = NoSrc
    BY <1>2, <1>3 DEF Content, NoSrc, Device, Parts
  <1>4. CASE s.via \in {"node", "dm", "part"} /\ s.part = p
    BY <1>2, <1>4 DEF Content, Parts
  <1>5. CASE s.via = "loop" /\ loops[s.loop] = p
    BY <1>2, <1>5 DEF Content
  <1>6. QED
    BY <1>3, <1>4, <1>5 DEF Bears

\* Content, with the state of the devices as arguments.
Shows(mapped, bound, d) ==
  CASE d.via = "node" -> d.part
    [] d.via = "dm" /\ mapped[d.part] = "live" -> d.part
    [] d.via = "part" /\ bound[d.loop] = "disk" -> d.part
    [] d.via = "loop" -> bound[d.loop]
    [] OTHER -> "nothing"

\* What one mount adds.
LEMMA MountAdds ==
  ASSUME TypeOK, NEW c \in Calls, NEW p \in Parts, Bears(loops, src[c][p], p),
         dm' = dm, MountSrc(c, p) \/ MountOffset(p)
  PROVE  \E m \in Mounts : /\ m.holds = p
                          /\ mnt' = [mnt EXCEPT ![p] = Append(mnt[p], m)]
                          /\ Shows(dm', loops', m.src) = p
  <1>1. CASE MountSrc(c, p)
    <2> DEFINE d == Target(src[c][p])
               m == [src |-> d, holds |-> Content(d)]
    <2>1. d \in Sources
      BY DEF TypeOK, Target, Sources, NoSrc, Device
    <2>2. Content(d) = p
      BY <1>1, RightContent DEF MountSrc
    <2>3. mnt' = [mnt EXCEPT ![p] = Append(mnt[p], m)] /\ loops' = loops
      BY <1>1 DEF MountSrc, Push, loopVars
    <2>4. Content(d) = Shows(dm, loops, d)
      BY DEF Content, Shows
    <2> HIDE DEF d
    <2>5. m \in Mounts /\ m.holds = p /\ m.src = d
      BY <2>1, <2>2 DEF Mounts
    <2>6. Shows(dm', loops', m.src) = p
      BY <2>2, <2>3, <2>4, <2>5
    <2>7. QED
      BY <2>3, <2>5, <2>6
  <1>2. CASE MountOffset(p)
    <2> DEFINE l == FreeLoop(NoLoop)
               m == [src |-> WholeLoop(l), holds |-> p]
    <2>1. l \in Loops
      BY <1>2, FreeLoopIsFree DEF MountOffset
    <2>2. mnt' = [mnt EXCEPT ![p] = Append(mnt[p], m)]
          /\ loops' = [loops EXCEPT ![l] = p]
      BY <1>2 DEF MountOffset, Push
    <2> HIDE DEF l
    <2>3. m \in Mounts
      BY <2>1, DeviceType DEF Mounts, WholeLoop, Parts
    <2>4. Shows(dm', loops', WholeLoop(l)) = p
      BY <2>1, <2>2 DEF Shows, WholeLoop, Device, TypeOK
    <2>5. QED
      BY <2>2, <2>3, <2>4
  <1>3. QED
    BY <1>1, <1>2

\* What a step of a call mounts, and what it leaves.
LEMMA MountStep ==
  ASSUME TypeOK, TurnInv, InTurn, NEW c \in Calls, Call(c)
  PROVE  \A p \in Parts : \A m \in Range(mnt'[p]) : m \in Range(mnt[p]) \/ m.holds = p
  <1>1. \A p \in Parts : mnt[p] \in Seq(Mounts)
    BY DEF TypeOK, Mounts
  <1>2. \A p \in Parts : Bears(loops, src[c][p], p)
    BY OthersRest DEF TurnInv, RunsAlone, Named
  <1>3. CASE mnt' = mnt
    BY <1>3
  <1>4. CASE Umount(c)
    <2>1. \A p \in Parts : mnt'[p] = mnt[p]
                           \/ (mnt[p] # << >> /\ mnt'[p] = Front(mnt[p]))
      BY <1>4 DEF Umount
    <2>2. QED
      BY <1>1, <2>1, FrontOfStack
  <1>5. ASSUME NEW q \in Parts, dm' = dm, MountSrc(c, q) \/ MountOffset(q),
               NEW p \in Parts
        PROVE  \A m \in Range(mnt'[p]) : m \in Range(mnt[p]) \/ m.holds = p
    <2>1. PICK m \in Mounts : /\ m.holds = q
                             /\ mnt' = [mnt EXCEPT ![q] = Append(mnt[q], m)]
      BY <1>2, <1>5, MountAdds
    <2>2. CASE p = q
      <3>1. mnt'[p] = Append(mnt[p], m)
        BY <2>1, <2>2 DEF TypeOK
      <3>2. Range(mnt'[p]) \subseteq Range(mnt[p]) \cup {m}
        BY <1>1, <3>1, PushOnStack
      <3>3. QED
        BY <2>1, <2>2, <3>2
    <2>3. CASE p # q
      BY <2>1, <2>3 DEF TypeOK
    <2>4. QED
      BY <2>2, <2>3
  <1>6. CASE MountBoot(c) \/ MountRoot(c)
    <2>1. "boot" \in Parts /\ "root" \in Parts
      BY DEF Parts
    <2>2. QED
      BY <1>3, <1>5, <1>6, <2>1 DEF MountBoot, MountRoot
  <1>7. CASE ~(Umount(c) \/ MountBoot(c) \/ MountRoot(c))
    BY <1>3, <1>7 DEF Call, Refuse, Begin, Nodes, DmMap, DmSkip, PickMain, MainLoop,
       PickRoot, RootLoop, PickBoot, BootLoop, LabeledLoop, Pick, Alias, NoRoot,
       Cleanup
  <1>8. QED
    BY <1>4, <1>6, <1>7

\* A call that returns 0 has just mounted the root.
LEMMA SuccessStep ==
  ASSUME TypeOK, TurnInv, InTurn, NEW c \in Calls, Call(c)
  PROVE  SuccessIsMounted'
  <1> SUFFICES ASSUME NEW e \in Calls, at'[e] = "ok",
                      \A d \in Calls : d > e => at'[d] = "idle"
               PROVE  mnt'["root"] # << >> /\ Content(Last(mnt["root"]).src)' = "root"
    BY DEF SuccessIsMounted
  <1>1. /\ at[c] \notin Done /\ at'[c] # "idle"
        /\ \A d \in Calls : d > c => at[d] = "idle"
        /\ \A q \in Calls \ {c} : at'[q] = at[q]
    BY OthersRest
  <1>2. e = c
    <2>1. CASE e < c
      BY <1>1, <2>1, CallsAssumption DEF Calls
    <2>2. CASE e > c
      BY <1>1, <2>2, CallsAssumption DEF Calls
    <2>3. QED
      BY <2>1, <2>2, CallsAssumption DEF Calls
  <1>3. MountRoot(c)
    BY <1>1, <1>2 DEF Call, Refuse, Begin, Umount, Nodes, DmMap, DmSkip, PickMain,
       MainLoop, PickRoot, RootLoop, PickBoot, BootLoop, LabeledLoop, Pick, Alias,
       MountBoot, NoRoot, Cleanup, Goto, TypeOK
  <1>4. Bears(loops, src[c]["root"], "root")
    BY <1>1 DEF TurnInv, RunsAlone, Named, Parts
  <1>5. "root" \in Parts /\ dm' = dm
    BY <1>3 DEF Parts, MountRoot
  <1>6. PICK m \in Mounts :
          /\ mnt' = [mnt EXCEPT !["root"] = Append(mnt["root"], m)]
          /\ Shows(dm', loops', m.src) = "root"
    BY <1>3, <1>4, <1>5, MountAdds DEF MountRoot
  <1>7. mnt["root"] \in Seq(Mounts) /\ mnt'["root"] = Append(mnt["root"], m)
    BY <1>5, <1>6 DEF TypeOK, Mounts
  <1>8. mnt'["root"] # << >> /\ Last(mnt'["root"]) = m
    BY <1>7, PushOnStack
  <1>9. Content(Last(mnt["root"]).src)' = Shows(dm', loops', Last(mnt'["root"]).src)
    BY DEF Content, Shows
  <1>10. QED
    BY <1>6, <1>8, <1>9

LEMMA TurnNext ==
  ASSUME InTurn, TypeOK, TurnInv, [Next]_vars
  PROVE  TurnInv'
  <1>1. CASE UNCHANGED vars
    <2>1. /\ at' = at /\ src' = src /\ picked' = picked /\ alias' = alias
          /\ dm' = dm /\ loops' = loops /\ mnt' = mnt
      BY <1>1 DEF vars, callVars, deviceVars, loopVars
    <2>2. InOrder' /\ RightFs'
      BY <2>1 DEF TurnInv, InOrder, RightFs
    <2>3. \A c \in Calls : RunsAlone(c)'
      BY <2>1 DEF TurnInv, RunsAlone, Fresh, Unlinked, Held, Named
    <2>4. SuccessIsMounted'
      BY <2>1 DEF TurnInv, SuccessIsMounted, Content
    <2>5. QED
      BY <2>2, <2>3, <2>4 DEF TurnInv
  <1>2. ASSUME NEW c \in Calls, Call(c) PROVE TurnInv'
    <2>1. InOrder'
      BY <1>2, OrderStays
    <2>2. \A q \in Calls : RunsAlone(q)'
      BY <1>2, OwnAlone, OthersAlone
    <2>3. RightFs'
      BY <1>2, MountStep DEF TurnInv, RightFs
    <2>4. SuccessIsMounted'
      BY <1>2, SuccessStep
    <2>5. QED
      BY <2>1, <2>2, <2>3, <2>4 DEF TurnInv
  <1>3. QED
    BY <1>1, <1>2 DEF Next

LEMMA TurnInit == Init => TurnInv
  <1> SUFFICES ASSUME Init PROVE TurnInv
    OBVIOUS
  <1>1. \A c \in Calls : at[c] = "idle" /\ src[c] = [p \in Parts |-> NoSrc]
    BY DEF Init
  <1>2. InOrder
    BY <1>1 DEF InOrder
  <1>3. \A c \in Calls : RunsAlone(c)
    BY <1>1 DEF RunsAlone, Fresh, Unlinked, Held, Named, Bears
  <1>4. RightFs
    BY DEF Init, RightFs, Range
  <1>5. SuccessIsMounted
    BY <1>1 DEF SuccessIsMounted
  <1>6. QED
    BY <1>2, <1>3, <1>4, <1>5 DEF TurnInv

\* What the sources of the call under way lead to, for calls that take turns.
THEOREM TurnInvCorrect == InTurn => (Spec => []TurnInv)
  <1> SUFFICES ASSUME InTurn PROVE Spec => []TurnInv
    OBVIOUS
  <1>1. Init => TurnInv
    BY TurnInit
  <1>2. TypeOK /\ TurnInv /\ [Next]_vars => TurnInv'
    BY TurnNext
  <1>3. Spec => []TypeOK
    BY TypeCorrect
  <1>4. QED
    BY <1>1, <1>2, <1>3, PTL DEF Spec

\* Each mount point only ever shows its own file system, for every number of
\* calls and loop devices, whichever mechanisms fail and whatever earlier calls
\* have left behind, provided the calls take turns.
THEOREM MountsAreRight == InTurn => (Spec => []RightFs)
  <1> SUFFICES ASSUME InTurn PROVE Spec => []RightFs
    OBVIOUS
  <1>1. TurnInv => RightFs
    BY DEF TurnInv
  <1>2. Spec => []TurnInv
    BY TurnInvCorrect
  <1>3. QED
    BY <1>1, <1>2, PTL

\* A call that returned 0 leaves a readable root file system on top of the
\* root's mount point, until the next call begins.
THEOREM SuccessMeansMounted == InTurn => (Spec => []SuccessIsMounted)
  <1> SUFFICES ASSUME InTurn PROVE Spec => []SuccessIsMounted
    OBVIOUS
  <1>1. TurnInv => SuccessIsMounted
    BY DEF TurnInv
  <1>2. Spec => []TurnInv
    BY TurnInvCorrect
  <1>3. QED
    BY <1>1, <1>2, PTL
=============================================================================
