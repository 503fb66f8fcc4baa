-------------------------- MODULE OobeWizard_proofs --------------------------
(***************************************************************************)
(* Proofs about the first-boot wizard.  bp_phase_order, for every          *)
(* blueprint and every length of emitted[]: requirements come first, no    *)
(* stage comes twice, and the stages left out are exactly those that are   *)
(* stuck on a cycle; nothing else touches its result.  The pages, for      *)
(* every blueprint: types, where passwords go, what peacock-oobe works     *)
(* with, what the last page says, and that every page behind this one is   *)
(* answered.                                                               *)
(***************************************************************************)
EXTENDS OobeWizard, FiniteSetTheorems, WellFoundedInduction, TLAPS

-----------------------------------------------------------------------------
(* bp_phase_order. *)


\* The stages that can be taken at all.
Takable == Scanned \cap Wanted

Left == Takable \ emitted

LEMMA LenOfBlueprint ==
  ASSUME OrderTypeOK PROVE Len(bp) \in Nat /\ Scanned \subseteq Index
  BY BlueprintAssumption DEF OrderTypeOK, Scanned, Index

\* The blueprint, and so what is to be ordered, never changes.
LEMMA SameBlueprint ==
  ASSUME [OrderNext]_orderVars
  PROVE  bp' = bp /\ Takable' = Takable /\ Wanted' = Wanted /\ Index' = Index
  BY DEF OrderNext, orderVars, BeginPass, Return, Take, Skip, EndPass,
         Takable, Wanted, Index, Scanned

\* out[] holds the stages flagged in emitted[], each of them once.
OrderIsEmitted ==
  /\ \A p \in DOMAIN order : order[p] \in emitted
  /\ \A k \in emitted : \E p \in DOMAIN order : order[p] = k
  /\ EachOnce

LEMMA OrderTypeStep ==
  ASSUME OrderTypeOK, [OrderNext]_orderVars
  PROVE  OrderTypeOK'
  <1> USE LenOfBlueprint, SameBlueprint
  <1>1. CASE BeginPass
    <2>1. pass < Len(bp) + 1 /\ Len(bp) \in Nat
      BY <1>1 DEF BeginPass, Looping
    <2>2. pass' \in 0..Len(bp') /\ i' \in 1..(Len(bp') + 1)
      BY <1>1, <2>1 DEF BeginPass, OrderTypeOK
    <2>3. QED
      BY <1>1, <2>2 DEF BeginPass, OrderTypeOK, Takable, Index
  <1>2. CASE Return
    BY <1>2 DEF Return, OrderTypeOK, Takable, Index, Scanned, Wanted
  <1>3. CASE Take
    BY <1>3 DEF Take, Takes, OrderTypeOK, Takable, Index, Scanned, Wanted
  <1>4. CASE Skip
    BY <1>4 DEF Skip, OrderTypeOK, Takable, Index, Scanned, Wanted
  <1>5. CASE EndPass
    BY <1>5 DEF EndPass, OrderTypeOK, Takable, Index, Scanned, Wanted
  <1>6. CASE UNCHANGED orderVars
    BY <1>6 DEF orderVars, OrderTypeOK, Takable, Index, Scanned, Wanted
  <1>7. QED
    BY <1>1, <1>2, <1>3, <1>4, <1>5, <1>6 DEF OrderNext

\* A stuck set can never be entered: the first of it to be taken would need
\* another of it to be taken before.
StuckIsLeft == \A S \in SUBSET Takable : Stuck(S) => S \cap emitted = {}

\* Every pass but the last takes a stage.
PassesTake ==
  /\ at = "pass" => Len(order) >= pass
  /\ at = "stage" => Len(order) >= pass
  /\ at = "stage" /\ progress => Len(order) > pass

\* A pass that took nothing so far saw only stages held back by one another.
HeldBack ==
  at = "stage" /\ ~progress =>
    \A k \in Left : k < i => \E j \in Left : Requires(k, j)

OrderInv ==
  /\ OrderTypeOK
  /\ OrderIsEmitted
  /\ RequirementsFirst
  /\ StuckIsLeft
  /\ PassesTake
  /\ HeldBack
  /\ at = "done" => Stuck(Left)

LEMMA InitOrderInv == OrderInit => OrderInv
  <1> SUFFICES ASSUME OrderInit PROVE OrderInv
    OBVIOUS
  <1>1. Len(bp) \in Nat
    BY BlueprintAssumption DEF OrderInit
  <1>2. OrderTypeOK
    <2>1. 0 \in 0..(Len(bp) + 1) /\ 1 \in 1..(Len(bp) + 1)
      BY <1>1
    <2>2. pass \in 0..(IF at = "stage" THEN Len(bp) ELSE Len(bp) + 1)
      BY <2>1 DEF OrderInit
    <2>3. order \in Seq(Index)
      BY DEF OrderInit
    <2>4. QED
      BY <2>1, <2>2, <2>3 DEF OrderInit, OrderTypeOK
  <1>3. OrderIsEmitted /\ RequirementsFirst
    BY DEF OrderInit, OrderIsEmitted, EachOnce, RequirementsFirst
  <1>4. StuckIsLeft /\ PassesTake /\ HeldBack
    BY DEF OrderInit, StuckIsLeft, PassesTake, HeldBack
  <1>5. QED
    BY <1>2, <1>3, <1>4 DEF OrderInv, OrderInit

LEMMA IntervalFromOne ==
  ASSUME NEW n \in Nat
  PROVE  IsFiniteSet(1..n) /\ Cardinality(1..n) = n
  <1>1. /\ IsFiniteSet(1..n)
        /\ Cardinality(1..n) = IF 1 > n THEN 0 ELSE n - 1 + 1
    BY FS_Interval
  <1>2. QED
    BY <1>1

\* The count never exceeds what was wanted, and reaches it only when every
\* stage of the phase is taken.
LEMMA Counting ==
  ASSUME OrderTypeOK, OrderIsEmitted
  PROVE  /\ Len(order) <= Len(bp)
         /\ Len(order) >= Cardinality(Wanted) => Left = {}
  <1>1. Len(bp) \in Nat /\ Len(order) \in Nat
    BY LenOfBlueprint DEF OrderTypeOK
  <1>2. order \in Bijection(1..Len(order), emitted)
    <2>1. DOMAIN order = 1..Len(order) /\ order \in [1..Len(order) -> emitted]
      BY DEF OrderTypeOK, OrderIsEmitted
    <2>2. QED
      BY <2>1 DEF OrderIsEmitted, EachOnce, Bijection, Injection, IsInjective,
                  Surjection
  <1>3. IsFiniteSet(emitted) /\ Cardinality(emitted) = Len(order)
    <2>1. IsFiniteSet(1..Len(order)) /\ Cardinality(1..Len(order)) = Len(order)
      BY <1>1, IntervalFromOne
    <2>2. ExistsBijection(1..Len(order), emitted)
      BY <1>2 DEF ExistsBijection
    <2>3. QED
      BY <2>1, <2>2, FS_Bijection
  <1>4. IsFiniteSet(Index) /\ Cardinality(Index) = Len(bp)
    BY <1>1, IntervalFromOne DEF Index
  <1>5. IsFiniteSet(Wanted) /\ Cardinality(Wanted) <= Len(bp)
    BY <1>4, FS_Subset DEF Wanted
  <1>6. /\ Cardinality(emitted) <= Cardinality(Wanted)
        /\ Cardinality(Wanted) = Cardinality(emitted) => Wanted = emitted
    BY <1>5, FS_Subset DEF OrderTypeOK
  <1>7. Cardinality(Wanted) \in Nat
    BY <1>5, FS_CardinalityType
  <1>8. QED
    BY <1>1, <1>3, <1>5, <1>6, <1>7 DEF Left, Takable

\* Taking stage i keeps what is said of out[].
LEMMA TakeKeepsOrder ==
  ASSUME OrderInv, Take
  PROVE  OrderIsEmitted' /\ RequirementsFirst' /\ StuckIsLeft'
  <1>1. /\ i \in Takable /\ i \notin emitted /\ Ready(i)
        /\ order' = Append(order, i) /\ emitted' = emitted \cup {i}
        /\ bp' = bp
    BY DEF Take, Takes, Takable
  <1>2. /\ Len(order) \in Nat /\ DOMAIN order = 1..Len(order)
        /\ DOMAIN order' = 1..(Len(order) + 1)
        /\ \A p \in DOMAIN order : order'[p] = order[p]
        /\ order'[Len(order) + 1] = i
    BY <1>1, LenOfBlueprint DEF OrderInv, OrderTypeOK, Takable
  <1>3. OrderIsEmitted'
    BY <1>1, <1>2 DEF OrderInv, OrderIsEmitted, EachOnce
  <1>4. RequirementsFirst'
    <2> SUFFICES ASSUME NEW p \in DOMAIN order', NEW k \in Takable,
                        Requires(order'[p], k)
                 PROVE  \E q \in 1..(p - 1) : order'[q] = k
      BY <1>1 DEF RequirementsFirst, Requires, Takable, Scanned, Wanted, Index
    <2>1. CASE p \in DOMAIN order
      <3>1. PICK q \in 1..(p - 1) : order[q] = k
        BY <1>2, <2>1 DEF OrderInv, RequirementsFirst, Takable
      <3>2. q \in DOMAIN order
        BY <1>2, <2>1
      <3>3. QED
        BY <1>2, <3>1, <3>2
    <2>2. CASE p = Len(order) + 1
      <3>1. k \in emitted
        BY <1>1, <1>2, <2>2 DEF Ready, Takable
      <3>2. PICK q \in DOMAIN order : order[q] = k
        BY <3>1 DEF OrderInv, OrderIsEmitted
      <3>3. q \in 1..(p - 1) /\ order'[q] = k
        BY <1>2, <2>2, <3>2
      <3>4. QED
        BY <3>3
    <2>3. QED
      BY <1>2, <2>1, <2>2
  <1>5. StuckIsLeft'
    <2>a. Takable' = Takable /\ \A S : Stuck(S)' <=> Stuck(S)
      BY <1>1 DEF Stuck, Requires, Takable, Scanned, Wanted, Index
    <2>b. SUFFICES ASSUME NEW S \in SUBSET Takable, Stuck(S), i \in S
                   PROVE  FALSE
      BY <1>1, <2>a DEF OrderInv, StuckIsLeft
    <2>1. PICK j \in S : Requires(i, j)
      BY <2>b DEF Stuck
    <2>2. j \in emitted
      BY <1>1, <2>b, <2>1 DEF Ready, Takable
    <2>3. QED
      BY <2>b, <2>2 DEF OrderInv, StuckIsLeft
  <1>6. QED
    BY <1>3, <1>4, <1>5

\* Every other step leaves out[] alone.
LEMMA RestKeepsOrder ==
  ASSUME OrderInv, bp' = bp, emitted' = emitted, order' = order
  PROVE  /\ OrderIsEmitted' /\ RequirementsFirst' /\ StuckIsLeft'
         /\ Left' = Left /\ (Stuck(Left)' <=> Stuck(Left))
         /\ \A k, j : Requires(k, j)' <=> Requires(k, j)
  BY DEF OrderInv, OrderIsEmitted, EachOnce, RequirementsFirst, StuckIsLeft,
         Stuck, Requires, Left, Takable, Scanned, Wanted, Index

\* The loop over the stages ends beyond the last one it may look at.
LEMMA ScannedIsPassed ==
  ASSUME OrderTypeOK, i \notin Scanned
  PROVE  \A k \in Scanned : k < i
  <1>1. i \in 1..(Len(bp) + 1) /\ ~(i \in Index /\ i <= Cap) /\ Len(bp) \in Nat
    BY LenOfBlueprint DEF Scanned, OrderTypeOK
  <1>2. \A k \in Scanned : k \in 1..Len(bp) /\ k <= Cap
    BY DEF Scanned, Index
  <1>3. QED
    BY <1>1, <1>2, BlueprintAssumption DEF Index

\* The outer loop is left only with nothing left: the limit on passes is never
\* what ends it.
LEMMA ReturnsFull ==
  ASSUME OrderInv, Return
  PROVE  Left = {}
  <1>1. Len(order) \in Nat /\ Len(bp) \in Nat /\ pass \in Nat
    BY LenOfBlueprint DEF OrderInv, OrderTypeOK
  <1>2. Cardinality(Wanted) \in Nat
    <2>1. IsFiniteSet(Index)
      BY <1>1, IntervalFromOne DEF Index
    <2>2. QED
      BY <2>1, FS_Subset, FS_CardinalityType DEF Wanted
  <1>3. Len(order) <= Len(bp) /\ Len(order) >= pass
    BY Counting DEF Return, OrderInv, PassesTake
  <1>4. Len(order) >= Cardinality(Wanted)
    BY <1>1, <1>2, <1>3 DEF Return, Looping
  <1>5. QED
    BY <1>4, Counting DEF OrderInv

LEMMA NextOrderInv ==
  ASSUME OrderInv, [OrderNext]_orderVars
  PROVE  OrderInv'
  <1>1. OrderTypeOK'
    BY OrderTypeStep DEF OrderInv
  <1>2. Len(order) \in Nat /\ Len(bp) \in Nat /\ pass \in Nat /\ i \in Nat
    BY LenOfBlueprint DEF OrderInv, OrderTypeOK
  <1>3. CASE BeginPass
    <2>1. OrderIsEmitted' /\ RequirementsFirst' /\ StuckIsLeft'
      BY <1>3, RestKeepsOrder DEF BeginPass
    <2>2. PassesTake'
      BY <1>2, <1>3 DEF BeginPass, OrderInv, PassesTake
    <2>3. HeldBack'
      <3>1. Left' \subseteq Index' /\ i' = 1
        BY <1>3 DEF BeginPass, Left, Takable, Scanned
      <3>2. \A k \in Left' : ~(k < i')
        BY <1>2, <1>3, <3>1 DEF BeginPass, Index
      <3>3. QED
        BY <3>2 DEF HeldBack
    <2>4. QED
      BY <1>1, <1>3, <2>1, <2>2, <2>3 DEF OrderInv, BeginPass
  <1>4. CASE Return
    <2>1. OrderIsEmitted' /\ RequirementsFirst' /\ StuckIsLeft' /\ Left' = Left
      BY <1>4, RestKeepsOrder DEF Return
    <2>3. Stuck(Left)'
      BY <1>4, <2>1, ReturnsFull DEF Stuck
    <2>4. PassesTake' /\ HeldBack'
      BY <1>4 DEF Return, PassesTake, HeldBack
    <2>5. QED
      BY <1>1, <2>1, <2>3, <2>4 DEF OrderInv
  <1>5. CASE Take
    <2>1. OrderIsEmitted' /\ RequirementsFirst' /\ StuckIsLeft'
      BY <1>5, TakeKeepsOrder
    <2>2. Len(order') = Len(order) + 1
      BY <1>5 DEF Take, OrderInv, OrderTypeOK
    <2>3. PassesTake'
      BY <1>2, <1>5, <2>2 DEF Take, OrderInv, PassesTake
    <2>4. HeldBack'
      BY <1>5 DEF Take, HeldBack
    <2>5. QED
      BY <1>1, <1>5, <2>1, <2>3, <2>4 DEF OrderInv, Take
  <1>6. CASE Skip
    <2>1. /\ OrderIsEmitted' /\ RequirementsFirst' /\ StuckIsLeft'
          /\ Left' = Left
          /\ \A k, j : Requires(k, j)' <=> Requires(k, j)
      BY <1>6, RestKeepsOrder DEF Skip
    <2>2. PassesTake'
      BY <1>6 DEF Skip, OrderInv, PassesTake
    <2>3. HeldBack'
      <3> SUFFICES ASSUME ~progress, NEW k \in Left, k < i + 1
                   PROVE  \E j \in Left : Requires(k, j)
        BY <1>6, <2>1 DEF Skip, HeldBack
      <3>1. CASE k < i
        BY <1>6, <3>1 DEF Skip, OrderInv, HeldBack
      <3>2. CASE k = i
        <4>1. ~Ready(k)
          BY <1>6, <3>2 DEF Skip, Takes, Left, Takable
        <4>2. PICK j \in Takable : Requires(k, j) /\ j \notin emitted
          BY <4>1 DEF Ready, Takable
        <4>3. QED
          BY <4>2 DEF Left
      <3>3. k \in Nat
        BY <1>2 DEF Left, Takable, Scanned, Index
      <3>4. QED
        BY <1>2, <3>1, <3>2, <3>3
    <2>4. QED
      BY <1>1, <1>6, <2>1, <2>2, <2>3 DEF OrderInv, Skip
  <1>7. CASE EndPass
    <2>1. OrderIsEmitted' /\ RequirementsFirst' /\ StuckIsLeft' /\ Left' = Left
      BY <1>7, RestKeepsOrder DEF EndPass
    <2>2. PassesTake'
      BY <1>2, <1>7 DEF EndPass, OrderInv, PassesTake
    <2>3. HeldBack'
      BY <1>7 DEF EndPass, HeldBack
    <2>4. at' = "done" => Stuck(Left)'
      <3> SUFFICES ASSUME ~progress PROVE Stuck(Left)
        BY <1>7, RestKeepsOrder DEF EndPass
      <3>1. \A k \in Left : k < i
        BY <1>7, ScannedIsPassed DEF EndPass, Left, Takable, OrderInv
      <3>2. QED
        BY <1>7, <3>1 DEF EndPass, OrderInv, HeldBack, Stuck
    <2>5. QED
      BY <1>1, <2>1, <2>2, <2>3, <2>4 DEF OrderInv
  <1>8. CASE UNCHANGED orderVars
    <2>1. /\ OrderIsEmitted' /\ RequirementsFirst' /\ StuckIsLeft'
          /\ Left' = Left /\ (Stuck(Left)' <=> Stuck(Left))
          /\ \A k, j : Requires(k, j)' <=> Requires(k, j)
      BY <1>8, RestKeepsOrder DEF orderVars
    <2>2. PassesTake' /\ HeldBack'
      BY <1>8, <2>1 DEF orderVars, OrderInv, PassesTake, HeldBack
    <2>3. QED
      BY <1>1, <1>8, <2>1, <2>2 DEF OrderInv, orderVars
  <1>9. QED
    BY <1>3, <1>4, <1>5, <1>6, <1>7, <1>8 DEF OrderNext

THEOREM OrderInvCorrect == OrderSpec => []OrderInv
  <1>1. OrderInv /\ [OrderNext]_orderVars => OrderInv'
    BY NextOrderInv
  <1>2. QED
    BY <1>1, InitOrderInv, PTL DEF OrderSpec

\* A stage is taken after every stage it requires, for every blueprint.
THEOREM PagesFollowRequirements == OrderSpec => []RequirementsFirst
  <1>1. OrderInv => RequirementsFirst
    BY DEF OrderInv
  <1>2. QED
    BY <1>1, OrderInvCorrect, PTL

\* No stage is taken twice.
THEOREM NoStageTwice == OrderSpec => []EachOnce
  <1>1. OrderInv => EachOnce
    BY DEF OrderInv, OrderIsEmitted
  <1>2. QED
    BY <1>1, OrderInvCorrect, PTL

\* The caller's out[] is not written past its end: for every blueprint with
\* no more stages of the phase than it has room for (RoomAssumption).
THEOREM NothingPastOut == OrderSpec => [](Len(order) <= Room)
  <1>1. ASSUME OrderInv PROVE Len(order) <= Room
    <2>1. /\ OrderTypeOK /\ OrderIsEmitted /\ bp \in Blueprints
          /\ Len(bp) \in Nat /\ Len(order) \in Nat /\ Room \in Nat
      BY <1>1, LenOfBlueprint, RoomAssumption DEF OrderInv, OrderTypeOK
    <2>2. DOMAIN order = 1..Len(order) /\ order \in [1..Len(order) -> Takable]
      BY <2>1 DEF OrderTypeOK, OrderIsEmitted, Takable
    <2>3. order \in Injection(1..Len(order), Takable)
      BY <2>1, <2>2 DEF OrderIsEmitted, EachOnce, Injection, IsInjective
    <2>4. Takable \in SUBSET (1..Len(bp))
      BY DEF Takable, Scanned, Index
    <2>5. IsFiniteSet(Takable) /\ Cardinality(Takable) \in Nat
      BY <2>1, <2>4, IntervalFromOne, FS_Subset, FS_CardinalityType
    <2>6. Cardinality(1..Len(order)) <= Cardinality(Takable)
      BY <2>3, <2>5, FS_Injection
    <2>7. Takable = {k \in 1..Len(bp) : k <= Cap /\ bp[k].phase = Phase}
      BY DEF Takable, Scanned, Wanted, Index
    <2>8. Cardinality(Takable) <= Room
      BY <2>1, <2>7, RoomAssumption
    <2>9. Cardinality(1..Len(order)) = Len(order)
      BY <2>1, IntervalFromOne
    <2>10. QED
      BY <2>1, <2>5, <2>6, <2>8, <2>9
  <1>2. QED
    BY <1>1, OrderInvCorrect, PTL

\* What the function leaves out is exactly what no order could contain.
THEOREM OnlyStuckAreDropped == OrderSpec => []DropsOnlyStuck
  <1>1. ASSUME OrderInv PROVE DropsOnlyStuck
    <2> SUFFICES ASSUME at = "done", NEW k \in Takable
                 PROVE  k \notin emitted <=>
                          \E S \in SUBSET Takable : k \in S /\ Stuck(S)
      BY DEF DropsOnlyStuck, Takable
    <2>1. ASSUME k \notin emitted
          PROVE  \E S \in SUBSET Takable : k \in S /\ Stuck(S)
      BY <1>1, <2>1 DEF OrderInv, Left
    <2>2. ASSUME NEW S \in SUBSET Takable, k \in S, Stuck(S)
          PROVE  k \notin emitted
      BY <1>1, <2>2 DEF OrderInv, StuckIsLeft
    <2>3. QED
      BY <2>1, <2>2
  <1>2. QED
    BY <1>1, OrderInvCorrect, PTL

-----------------------------------------------------------------------------
(* The order of the file. *)

InFileOrder == \A k, j \in Takable : Requires(k, j) => j < k

\* The first pass takes every stage it comes to.
FileOrderInv ==
  InFileOrder =>
    /\ \A p, q \in DOMAIN order : p < q => order[p] < order[q]
    /\ pass = 0 /\ at = "pass" => emitted = {}
    /\ pass = 0 /\ at = "stage" => emitted = {k \in Takable : k < i}
    /\ pass > 0 \/ at = "done" => emitted = Takable

LEMMA InitFileOrder == OrderInit => FileOrderInv
  BY DEF OrderInit, FileOrderInv

LEMMA NextFileOrder ==
  ASSUME OrderInv, FileOrderInv, [OrderNext]_orderVars
  PROVE  FileOrderInv'
  <1>1. Len(order) \in Nat /\ Len(bp) \in Nat /\ pass \in Nat /\ i \in Nat
    BY LenOfBlueprint DEF OrderInv, OrderTypeOK
  <1>2. Takable' = Takable /\ (InFileOrder' <=> InFileOrder)
    BY SameBlueprint DEF InFileOrder, Requires
  <1>3. Takable \subseteq Nat
    BY DEF Takable, Scanned, Index
  <1> SUFFICES ASSUME InFileOrder PROVE FileOrderInv'
    BY <1>2 DEF FileOrderInv
  <1>4. CASE BeginPass
    <2>1. {k \in Takable : k < 1} = {}
      BY DEF Takable, Scanned, Index
    <2>2. QED
      BY <1>2, <1>4, <2>1 DEF BeginPass, FileOrderInv
  <1>5. CASE Return
    <2>1. emitted = Takable
      BY <1>5, ReturnsFull DEF Left, OrderInv, OrderTypeOK, Takable
    <2>2. QED
      BY <1>1, <1>2, <1>5, <2>1 DEF Return, FileOrderInv
  <1>6. CASE Take
    <2>1. /\ i \in Takable /\ i \notin emitted
          /\ order' = Append(order, i) /\ emitted' = emitted \cup {i}
          /\ i' = i + 1 /\ pass' = pass /\ at = "stage" /\ at' = "stage"
      BY <1>6 DEF Take, Takes, Takable
    <2>2. pass = 0 /\ emitted = {k \in Takable : k < i}
      BY <1>1, <2>1 DEF FileOrderInv
    <2>3. emitted' = {k \in Takable : k < i'}
      <3>1. \A k \in Takable : k < i' <=> k < i \/ k = i
        BY <1>1, <1>3, <2>1
      <3>2. QED
        BY <2>1, <2>2, <3>1
    <2>4. ASSUME NEW p \in DOMAIN order', NEW q \in DOMAIN order', p < q
          PROVE  order'[p] < order'[q]
      <3>1. /\ DOMAIN order = 1..Len(order)
            /\ DOMAIN order' = 1..(Len(order) + 1)
            /\ \A r \in DOMAIN order : order'[r] = order[r]
            /\ order'[Len(order) + 1] = i
        BY <2>1, <1>1 DEF OrderInv, OrderTypeOK
      <3>2. CASE q \in DOMAIN order
        BY <1>1, <2>4, <3>1, <3>2 DEF FileOrderInv
      <3>3. CASE q = Len(order) + 1
        <4>1. p \in DOMAIN order
          BY <1>1, <2>4, <3>1, <3>3
        <4>2. order[p] \in emitted
          BY <4>1 DEF OrderInv, OrderIsEmitted
        <4>3. QED
          BY <2>2, <3>1, <3>3, <4>1, <4>2
      <3>4. QED
        BY <1>1, <3>1, <3>2, <3>3
    <2>5. QED
      BY <1>1, <1>2, <2>1, <2>2, <2>3, <2>4 DEF FileOrderInv
  <1>7. CASE Skip
    <2>1. CASE pass = 0
      <3>1. emitted = {k \in Takable : k < i} /\ i \in Scanned
        BY <1>7, <2>1 DEF Skip, FileOrderInv
      <3>2. i \notin Takable
        <4> SUFFICES ASSUME i \in Takable PROVE Takes(i)
          BY <1>7 DEF Skip
        <4>1. Ready(i)
          BY <3>1 DEF Ready, InFileOrder, Takable
        <4>2. QED
          BY <1>1, <3>1, <4>1 DEF Takes, Takable
      <3>3. {k \in Takable : k < i + 1} = {k \in Takable : k < i}
        <4>1. \A k \in Takable : k < i + 1 <=> k < i
          BY <1>1, <1>3, <3>2
        <4>2. QED
          BY <4>1
      <3>4. QED
        BY <1>2, <1>7, <2>1, <3>1, <3>3 DEF Skip, FileOrderInv
    <2>2. CASE pass > 0
      BY <1>2, <1>7, <2>2 DEF Skip, FileOrderInv
    <2>3. QED
      BY <1>1, <2>1, <2>2
  <1>8. CASE EndPass
    <2>1. pass = 0 => emitted = Takable
      <3> SUFFICES ASSUME pass = 0 PROVE \A k \in Takable : k < i
        BY <1>8 DEF EndPass, FileOrderInv
      <3>1. QED
        BY <1>8, ScannedIsPassed DEF EndPass, OrderInv, Takable
    <2>2. QED
      BY <1>1, <1>2, <1>8, <2>1 DEF EndPass, FileOrderInv
  <1>9. CASE UNCHANGED orderVars
    BY <1>2, <1>9 DEF orderVars, FileOrderInv
  <1>10. QED
    BY <1>4, <1>5, <1>6, <1>7, <1>8, <1>9 DEF OrderNext

\* A file that is in order is shown in its order, and completely.
THEOREM FileOrderIsKept == OrderSpec => []KeepsFileOrder
  <1>1. OrderInv /\ FileOrderInv /\ [OrderNext]_orderVars => FileOrderInv'
    BY NextFileOrder
  <1>2. OrderInv /\ FileOrderInv => KeepsFileOrder
    BY DEF FileOrderInv, KeepsFileOrder, InFileOrder, Takable
  <1>3. QED
    BY <1>1, <1>2, InitFileOrder, OrderInvCorrect, PTL DEF OrderSpec

-----------------------------------------------------------------------------
(* The pages in that order. *)

\* The wizard's steps are steps of bp_phase_order or leave it alone.
THEOREM WizardOrders == Spec => OrderSpec
  <1>1. Init => OrderInit
    BY DEF Init
  <1>2. Ordering => OrderNext
    BY DEF Ordering
  <1>3. Show \/ NextWelcome \/ NextStage \/ Back => UNCHANGED orderVars
    BY DEF Show, NextWelcome, NextStage, Back
  <1>4. StartApply \/ StartFails \/ StartMock \/ MockDone => UNCHANGED orderVars
    BY DEF StartApply, StartFails, StartMock, EnterProgress, MockDone
  <1>5. Poll \/ Continue \/ ChildStep => UNCHANGED orderVars
    BY DEF Poll, PollLine, PollEof, Continue, ChildStep
  <1>6. UNCHANGED vars => UNCHANGED orderVars
    BY DEF vars
  <1>7. [Next]_vars => [OrderNext]_orderVars
    BY <1>2, <1>3, <1>4, <1>5, <1>6 DEF Next
  <1>8. QED
    BY <1>1, <1>7, PTL DEF Spec, OrderSpec

\* The wizard's pages, for every blueprint: each after the pages it requires,
\* none twice, none missing but those on a cycle and behind one.
THEOREM WizardPages ==
  Spec => [](RequirementsFirst /\ EachOnce /\ DropsOnlyStuck /\ KeepsFileOrder)
  BY WizardOrders, PagesFollowRequirements, NoStageTwice, OnlyStuckAreDropped,
     FileOrderIsKept, PTL

-----------------------------------------------------------------------------
(* Loops: what a recursion over 0..N computes. *)

\* A set of natural numbers has a least one.
LEMMA LeastNumber ==
  ASSUME NEW S, S \subseteq Nat, S # {}
  PROVE  \E l \in S : \A k \in S : l <= k
  <1>1. \E x \in S : \A y \in S : ~(<<y, x>> \in OpToRel(<, Nat))
    BY WFMin, NatLessThanWellFounded
  <1>2. PICK x \in S : \A y \in S : ~(<<y, x>> \in OpToRel(<, Nat))
    BY <1>1
  <1>3. \A y \in S : <<y, x>> \in Nat \X Nat /\ (y < x => <<y, x>> \in OpToRel(<, Nat))
    BY DEF OpToRel
  <1>4. \A y \in S : ~(y < x)
    BY <1>2, <1>3
  <1>5. QED
    BY <1>4

\* What a loop has computed after round n is in the n-th set, if every round
\* leads from one set to the next.
LEMMA LoopStays ==
  ASSUME NEW N \in Nat, NEW inv, NEW after,
         after[0] \in inv[0],
         \A n \in 1..N : after[n - 1] \in inv[n - 1] => after[n] \in inv[n]
  PROVE  after[N] \in inv[N]
  <1> DEFINE bad == {n \in 0..N : after[n] \notin inv[n]}
  <1> SUFFICES ASSUME bad # {} PROVE FALSE
    OBVIOUS
  <1>1. bad \subseteq Nat
    OBVIOUS
  <1>2. PICK l \in bad : \A k \in bad : l <= k
    BY <1>1, LeastNumber
  <1>3. l # 0
    OBVIOUS
  <1>4. l \in 1..N /\ l - 1 \in 0..N /\ ~(l <= l - 1)
    BY <1>3
  <1>5. after[l - 1] \in inv[l - 1]
    BY <1>2, <1>4
  <1>6. QED
    BY <1>4, <1>5

\* f holds what a loop over the first N numbers has computed after each round.
LoopOf(N, D, start, round, f) ==
  /\ f \in [0..N -> D]
  /\ f[0] = start
  /\ \A n \in 1..N : f[n] = round[n][f[n - 1]]

\* A loop over the first N numbers has a result: its recursion is well defined.
LEMMA LoopRuns ==
  ASSUME NEW N \in Nat, NEW D, NEW start \in D, NEW round \in [1..N -> [D -> D]]
  PROVE  \E f : LoopOf(N, D, start, round, f)
  <1> DEFINE Runs(k, f) == LoopOf(k, D, start, round, f)
  <1> USE DEF LoopOf
  <1>1. Runs(0, [n \in 0..0 |-> start])
    OBVIOUS
  <1>2. ASSUME NEW l \in 1..N, NEW f, Runs(l - 1, f)
        PROVE  \E g : Runs(l, g)
    <2> DEFINE g == [n \in 0..l |-> IF n = l THEN round[l][f[l - 1]] ELSE f[n]]
    <2>1. g \in [0..l -> D]
      <3>1. f[l - 1] \in D /\ \A n \in 0..l : n # l => n \in 0..(l - 1)
        BY <1>2
      <3>2. round[l][f[l - 1]] \in D
        BY <3>1
      <3>3. QED
        BY <1>2, <3>1, <3>2
    <2>2. g[0] = start
      BY <1>2
    <2>3. \A n \in 1..l : g[n] = round[n][g[n - 1]]
      <3>1. \A n \in 1..l : n - 1 \in 0..l /\ n - 1 # l
        OBVIOUS
      <3>2. \A n \in 1..l : n # l => n \in 1..(l - 1) /\ n \in 0..l
        OBVIOUS
      <3>3. l \in 0..l
        OBVIOUS
      <3>4. QED
        BY <1>2, <3>1, <3>2, <3>3
    <2>4. QED
      BY <2>1, <2>2, <2>3
  <1>3. \E f : Runs(N, f)
    <2> HIDE DEF Runs
    <2> DEFINE bad == {k \in 0..N : ~\E f : Runs(k, f)}
    <2> SUFFICES ASSUME bad # {} PROVE FALSE
      OBVIOUS
    <2>1. bad \subseteq Nat
      OBVIOUS
    <2>2. PICK l \in bad : \A k \in bad : l <= k
      BY <2>1, LeastNumber
    <2>3. l # 0
      BY <1>1
    <2>4. l \in 1..N /\ l - 1 \in 0..N /\ ~(l <= l - 1)
      BY <2>3
    <2>5. \E f : Runs(l - 1, f)
      BY <2>2, <2>4
    <2>6. QED
      BY <1>2, <2>4, <2>5
  <1>4. QED
    BY <1>3


-----------------------------------------------------------------------------
(* Capturing and rendering. *)

\* The fields of all stages, and the keys of those that are not passwords.
AllFields == UNION {Range(s.fields) : s \in Stages}
OpenKeys == {f.key : f \in {g \in AllFields : g.type # "password"}}

\* Stores with some of these keys; as secrets, no more of them than fit.
AnswersOver(keys) == UNION {[J -> Values] : J \in SUBSET keys}
SecretsOver(keys) ==
  {s \in AnswersOver(keys) : /\ IsFiniteSet(DOMAIN s)
                             /\ Cardinality(DOMAIN s) <= MaxSecrets}

\* What capture_stage_fields has got after each round.
Captures == [ok : BOOLEAN, store : AnswersOver(OpenKeys),
             secrets : SecretsOver(PasswordKeys)]

LEMMA KeysOfFields ==
  ASSUME NEW f \in AllFields
  PROVE  /\ f.key \in Keys
         /\ f.type = "password" => f.key \in PasswordKeys
         /\ f.type # "password" => f.key \in OpenKeys
  BY DEF AllFields, Keys, PasswordKeys, OpenKeys

\* Every key is asked for in the open or as a password.
LEMMA AllTheKeys ==
  Keys = OpenKeys \cup PasswordKeys
  BY DEF AllFields, Keys, PasswordKeys, OpenKeys

\* Setting an answer adds its key and no other.
LEMMA SetAnswerType ==
  ASSUME NEW K, NEW ans \in AnswersOver(K), NEW k \in K, NEW v \in Values
  PROVE  /\ SetAnswer(ans, k, v) \in AnswersOver(K)
         /\ DOMAIN SetAnswer(ans, k, v) = DOMAIN ans \cup {k}
  <1>1. PICK J \in SUBSET K : ans \in [J -> Values]
    BY DEF AnswersOver
  <1>2. SetAnswer(ans, k, v) \in [J \cup {k} -> Values]
    BY <1>1 DEF SetAnswer
  <1>3. QED
    BY <1>1, <1>2 DEF AnswersOver

\* A new secret is taken only while there is room.
LEMMA SetSecretType ==
  ASSUME MaxSecrets \in Nat, NEW K, NEW s \in SecretsOver(K), NEW k \in K, NEW v \in Values,
         k \in DOMAIN s \/ Cardinality(DOMAIN s) < MaxSecrets
  PROVE  SetAnswer(s, k, v) \in SecretsOver(K)
  <1>1. s \in AnswersOver(K) /\ IsFiniteSet(DOMAIN s) /\ Cardinality(DOMAIN s) <= MaxSecrets
    BY DEF SecretsOver
  <1>2. /\ SetAnswer(s, k, v) \in AnswersOver(K)
        /\ DOMAIN SetAnswer(s, k, v) = DOMAIN s \cup {k}
    <2>1. SetAnswer(s, k, v) \in AnswersOver(K)
      BY <1>1, SetAnswerType
    <2>2. DOMAIN SetAnswer(s, k, v) = DOMAIN s \cup {k}
      BY DEF SetAnswer
    <2>3. QED
      BY <2>1, <2>2
  <1>3. IsFiniteSet(DOMAIN s \cup {k})
    BY <1>1, FS_AddElement
  <1>4. Cardinality(DOMAIN s \cup {k}) <= MaxSecrets
    <2>1. CASE k \in DOMAIN s
      <3>1. DOMAIN s \cup {k} = DOMAIN s
        BY <2>1
      <3>2. QED
        BY <1>1, <3>1
    <2>2. CASE k \notin DOMAIN s
      <3>1. Cardinality(DOMAIN s \cup {k}) = Cardinality(DOMAIN s) + 1
        BY <1>1, <2>2, FS_AddElement
      <3>2. Cardinality(DOMAIN s) \in Nat
        BY <1>1, FS_CardinalityType
      <3>3. QED
        BY <2>2, <3>1, <3>2
    <2>3. QED
      BY <2>1, <2>2
  <1>5. QED
    BY <1>2, <1>3, <1>4 DEF SecretsOver

\* One field more: an open answer to the store, a password to the secrets.
LEMMA CaptureFieldType ==
  ASSUME MaxSecrets \in Nat, NEW c \in Captures, NEW f \in AllFields, NEW v \in Values
  PROVE  CaptureField(c, f, v) \in Captures
  <1>1. /\ c.store \in AnswersOver(OpenKeys) /\ c.secrets \in SecretsOver(PasswordKeys)
        /\ c.ok \in BOOLEAN
    BY DEF Captures
  <1>2. f.type # "password" =>
          [c EXCEPT !.store = SetAnswer(@, f.key, v)] \in Captures
    BY <1>1, KeysOfFields, SetAnswerType DEF Captures
  <1>3. f.type = "password" /\ (\/ f.key \in DOMAIN c.secrets
                                \/ Cardinality(DOMAIN c.secrets) < MaxSecrets) =>
          [c EXCEPT !.secrets = SetAnswer(@, f.key, v)] \in Captures
    BY <1>1, KeysOfFields, SetSecretType DEF Captures
  <1>4. [c EXCEPT !.ok = FALSE] \in Captures
    BY <1>1 DEF Captures
  <1>5. QED
    BY <1>2, <1>3, <1>4 DEF CaptureField

\* Only a stage's page has fields.
FieldsOf(p) == IF p \in StagePages THEN Fields(p) ELSE << >>

\* render_stage_fields is a loop over the fields of the page.
LEMMA RenderedLoop ==
  ASSUME NEW S, NEW p, FieldsOf(p) \in Seq(S), NEW ans
  PROVE  \E after : /\ after[0] = << >>
                    /\ \A n \in 1..Len(FieldsOf(p)) :
                         after[n] = AddWidget(after[n - 1], FieldsOf(p)[n], ans)
                    /\ Rendered(p, ans) = after[Len(FieldsOf(p))]
  <1> DEFINE fields == FieldsOf(p)
             N == Len(fields)
             D == Seq(S)
             start == << >>
             round == [n \in 1..N |-> [w \in D |-> AddWidget(w, fields[n], ans)]]
             Is(after) == after = [n \in 0..N |->
                            IF n = 0 THEN << >>
                                     ELSE AddWidget(after[n - 1], fields[n], ans)]
  <1>1. N \in Nat
    OBVIOUS
  <1>2. start \in D
    OBVIOUS
  <1>3. \A n \in 1..N, w \in D : AddWidget(w, fields[n], ans) \in D
    BY DEF AddWidget
  <1> HIDE DEF N, D
  <1>4. round \in [1..N -> [D -> D]]
    BY <1>3
  <1>5. \A n \in 1..N, w \in D : round[n][w] = AddWidget(w, fields[n], ans)
    OBVIOUS
  <1> HIDE DEF round, start
  <1>6. \E f : LoopOf(N, D, start, round, f)
    BY <1>1, <1>2, <1>4, LoopRuns
  <1>7. \E f : Is(f)
    <2>1. PICK f : LoopOf(N, D, start, round, f)
      BY <1>6
    <2>2. \A n \in 0..N : n # 0 => n \in 1..N /\ f[n - 1] \in D
      BY <1>1, <2>1 DEF LoopOf
    <2>3. f = [n \in 0..N |-> IF n = 0 THEN << >>
                                      ELSE AddWidget(f[n - 1], fields[n], ans)]
      BY <1>5, <2>1, <2>2 DEF start, LoopOf
    <2>4. QED
      BY <2>3
  <1> DEFINE after == CHOOSE g : Is(g)
  <1>8. Is(after)
    BY <1>7
  <1>9. Rendered(p, ans) = after[N]
    BY DEF Rendered, FieldsOf, N
  <1> HIDE DEF after
  <1>10. after[0] = << >>
    BY <1>1, <1>8
  <1>11. \A n \in 1..N : after[n] = AddWidget(after[n - 1], fields[n], ans)
    <2>1. \A n \in 1..N : n \in 0..N /\ n # 0
      BY <1>1
    <2>2. QED
      BY <1>8, <2>1
  <1>12. QED
    BY <1>9, <1>10, <1>11 DEF N

\* Rendering a page makes widgets for fields of that page, as many as fit.
LEMMA RenderedType ==
  ASSUME NEW p, NEW ans, NEW S,
         p \in StagePages => Fields(p) \in Seq(S)
  PROVE  Rendered(p, ans) \in Seq(S) /\ Len(Rendered(p, ans)) <= MaxWidgets
  <1> DEFINE fields == FieldsOf(p)
             N == Len(fields)
             D == {w \in Seq(S) : Len(w) <= MaxWidgets}
             inv == [n \in 0..N |-> D]
  <1>1. fields \in Seq(S)
    BY DEF FieldsOf
  <1>2. PICK after : /\ after[0] = << >>
                     /\ \A n \in 1..N :
                          after[n] = AddWidget(after[n - 1], fields[n], ans)
                     /\ Rendered(p, ans) = after[N]
    BY <1>1, RenderedLoop
  <1> HIDE DEF fields
  <1>3. << >> \in D
    BY WizardAssumption
  <1>4. \A n \in 1..N, w \in D : AddWidget(w, fields[n], ans) \in D
    <2> SUFFICES ASSUME NEW n \in 1..N, NEW w \in D
                 PROVE  AddWidget(w, fields[n], ans) \in D
      OBVIOUS
    <2>1. fields[n] \in S /\ w \in Seq(S) /\ Len(w) \in Nat
      BY <1>1
    <2>2. Append(w, fields[n]) \in Seq(S) /\ Len(Append(w, fields[n])) = Len(w) + 1
      BY <2>1
    <2>3. QED
      BY <2>2, WizardAssumption DEF AddWidget
  <1>5. N \in Nat
    BY <1>1
  <1> HIDE DEF N, D
  <1>6. \A n \in 1..N : inv[n] = D /\ inv[n - 1] = D
    BY <1>5
  <1>7. inv[0] = D /\ inv[N] = D
    BY <1>5
  <1> HIDE DEF inv
  <1>8. \A n \in 1..N : after[n - 1] \in inv[n - 1] => after[n] \in inv[n]
    BY <1>4, <1>2, <1>6
  <1>9. after[N] \in inv[N]
    BY <1>3, <1>5, <1>2, <1>7, <1>8, LoopStays
  <1>10. QED
    BY <1>2, <1>7, <1>9 DEF D

\* What is known before the first field of a page is captured.
Nothing == [ok |-> TRUE, store |-> store, secrets |-> secrets]

\* capture_stage_fields is a loop over the widgets, and keeps the types
\* whichever field is rejected.
LEMMA CaptureLoop ==
  ASSUME store \in AnswersOver(OpenKeys), secrets \in SecretsOver(PasswordKeys),
         shown \in Seq(AllFields), NEW typed \in [1..Len(shown) -> Values]
  PROVE  \E after : /\ after \in [0..Len(shown) -> Captures]
                    /\ after[0] = Nothing
                    /\ \A n \in 1..Len(shown) :
                         after[n] = CaptureField(after[n - 1], shown[n], typed[n])
                    /\ Capture(typed) = after[Len(shown)]
  <1> DEFINE N == Len(shown)
             round == [n \in 1..N |->
                         [c \in Captures |-> CaptureField(c, shown[n], typed[n])]]
             Is(after) == after = [n \in 0..N |->
                            IF n = 0 THEN Nothing
                            ELSE CaptureField(after[n - 1], shown[n], typed[n])]
             inv == [n \in 0..N |-> Captures]
  <1>1. N \in Nat
    OBVIOUS
  <1>2. Nothing \in Captures
    BY DEF Captures, Nothing
  <1>3. \A n \in 1..N, c \in Captures :
          CaptureField(c, shown[n], typed[n]) \in Captures
    <2>1. \A n \in 1..N : shown[n] \in AllFields /\ typed[n] \in Values
      OBVIOUS
    <2>2. QED
      BY <2>1, CaptureFieldType, WizardAssumption
  <1> HIDE DEF N
  <1>4. round \in [1..N -> [Captures -> Captures]]
    BY <1>3
  <1>5. \A n \in 1..N, c \in Captures :
          round[n][c] = CaptureField(c, shown[n], typed[n])
    OBVIOUS
  <1> HIDE DEF round
  <1>6. PICK f : LoopOf(N, Captures, Nothing, round, f)
    BY <1>1, <1>2, <1>4, LoopRuns
  <1>7. \E g : Is(g)
    <2>1. \A n \in 0..N : n # 0 => n \in 1..N /\ f[n - 1] \in Captures
      BY <1>1, <1>6 DEF LoopOf
    <2>2. f = [n \in 0..N |->
                 IF n = 0 THEN Nothing
                 ELSE CaptureField(f[n - 1], shown[n], typed[n])]
      BY <1>5, <1>6, <2>1 DEF LoopOf
    <2>3. QED
      BY <2>2
  <1> DEFINE after == CHOOSE g : Is(g)
  <1>8. Is(after)
    BY <1>7
  <1>9. Capture(typed) = after[N]
    BY DEF Capture, Nothing, N
  <1> HIDE DEF after
  <1>10. after[0] = Nothing /\ DOMAIN after = 0..N
    BY <1>1, <1>8
  <1>11. \A n \in 1..N : after[n] = CaptureField(after[n - 1], shown[n], typed[n])
    <2>1. \A n \in 1..N : n \in 0..N /\ n # 0
      BY <1>1
    <2>2. QED
      BY <1>8, <2>1
  <1>12. \A n \in 0..N : after[n] \in Captures
    <2> SUFFICES ASSUME NEW n \in 0..N PROVE after[n] \in Captures
      OBVIOUS
    <2>1. \A m \in 1..n : m \in 1..N /\ inv[m - 1] = Captures /\ inv[m] = Captures
      BY <1>1
    <2>2. inv[0] = Captures /\ inv[n] = Captures /\ n \in Nat
      BY <1>1
    <2> HIDE DEF inv
    <2>3. \A m \in 1..n : after[m - 1] \in inv[m - 1] => after[m] \in inv[m]
      BY <1>3, <1>11, <2>1
    <2>4. after[n] \in inv[n]
      BY <1>2, <1>10, <2>2, <2>3, LoopStays
    <2>5. QED
      BY <2>2, <2>4
  <1>13. after \in [0..N -> Captures]
    BY <1>8, <1>10, <1>12
  <1>14. QED
    BY <1>9, <1>10, <1>11, <1>13 DEF N

\* A whole page, whichever of its fields is rejected.
LEMMA CaptureType ==
  ASSUME store \in AnswersOver(OpenKeys), secrets \in SecretsOver(PasswordKeys),
         shown \in Seq(AllFields), NEW typed \in [1..Len(shown) -> Values]
  PROVE  Capture(typed) \in Captures
  <1>1. Len(shown) \in 0..Len(shown)
    OBVIOUS
  <1>2. QED
    BY <1>1, CaptureLoop

-----------------------------------------------------------------------------
(* Types, and where passwords go. *)

\* Before the order is known there is no page; once peacock-oobe was started
\* the way back is closed; and passwords are only among the secrets.
WizardInv ==
  /\ store \in AnswersOver(OpenKeys)
  /\ secrets \in SecretsOver(PasswordKeys)
  /\ file \in {NoAnswers, OldAnswers} \cup [answers : AnswersOver(OpenKeys)]
  /\ shown \in Seq(AllFields)
  /\ at # "done" => ~root /\ page = 0 /\ child = "none" /\ timer = "none"
  /\ timer # "none" => page = PageProgress
  /\ child # "none" => page \in {PageProgress, PageDone}

LEMMA PageNumbers ==
  ASSUME OrderTypeOK
  PROVE  /\ NStages \in Nat /\ StagePages = 1..NStages
         /\ PageConfirm = NStages + 1 /\ PageProgress = NStages + 2
         /\ PageDone = NStages + 3
  BY DEF OrderTypeOK, NStages, StagePages, PageConfirm, PageProgress, PageDone

\* A page's fields are the fields of a stage.
LEMMA FieldsOfPage ==
  ASSUME OrderTypeOK, NEW p \in StagePages
  PROVE  /\ Fields(p) \in Seq(Range(Fields(p)))
         /\ Range(Fields(p)) \subseteq AllFields
  <1>1. order[p] \in Index
    BY DEF OrderTypeOK, StagePages, NStages
  <1>2. bp[order[p]] \in Stages
    BY <1>1, BlueprintAssumption DEF OrderTypeOK, Index
  <1>3. QED
    BY <1>2, WizardAssumption DEF Fields, AllFields

\* The widgets of a page, whatever the answers.
LEMMA RenderedFields ==
  ASSUME OrderTypeOK, NEW p, NEW ans
  PROVE  /\ Rendered(p, ans) \in Seq(AllFields)
         /\ Len(Rendered(p, ans)) <= MaxWidgets
         /\ Rendered(p, ans) # << >> =>
              p \in StagePages /\ Range(Rendered(p, ans)) \subseteq Range(Fields(p))
  <1>1. CASE p \in StagePages
    <2>1. Rendered(p, ans) \in Seq(Range(Fields(p)))
          /\ Len(Rendered(p, ans)) <= MaxWidgets
      BY <1>1, RenderedType, FieldsOfPage, WizardAssumption
    <2>2. Rendered(p, ans) \in Seq(AllFields)
      BY <1>1, <2>1, FieldsOfPage
    <2>3. Range(Rendered(p, ans)) \subseteq Range(Fields(p))
      BY <2>1 DEF Range
    <2>4. QED
      BY <1>1, <2>1, <2>2, <2>3
  <1>2. CASE p \notin StagePages
    <2>1. Rendered(p, ans) \in Seq({}) /\ Len(Rendered(p, ans)) <= MaxWidgets
      BY <1>2, RenderedType, WizardAssumption
    <2>2. Rendered(p, ans) = << >>
      BY <2>1
    <2>3. QED
      BY <2>1, <2>2
  <1>3. QED
    BY <1>1, <1>2

LEMMA AnswersType ==
  ASSUME NEW keys \in SUBSET Keys, NEW ans \in AnswersOver(keys)
  PROVE  IsAnswers(ans)
  BY DEF AnswersOver, IsAnswers, Range

\* The part of the state that the pages are about, after a step.
PagesOK == /\ root \in BOOLEAN
           /\ page \in 0..PageDone
           /\ shown \in Seq(AllFields)
           /\ shown # << >> => /\ page \in StagePages
                               /\ Range(shown) \subseteq Range(Fields(page))
           /\ Len(shown) <= MaxWidgets

LEMMA InitWizard == Init => TypeOK /\ WizardInv
  <1> SUFFICES ASSUME Init PROVE TypeOK /\ WizardInv
    OBVIOUS
  <1>1. OrderTypeOK
    BY InitOrderInv DEF Init, OrderInv
  <1>2. Empty \in AnswersOver({}) /\ DOMAIN Empty = {}
    BY DEF Empty, AnswersOver
  <1>3. \A keys : Empty \in SecretsOver(keys) /\ Empty \in AnswersOver(keys)
    <2>1. \A keys : Empty \in AnswersOver(keys)
      BY <1>2 DEF AnswersOver
    <2>2. IsFiniteSet(DOMAIN Empty) /\ Cardinality(DOMAIN Empty) = 0
      BY <1>2, FS_EmptySet
    <2>3. 0 <= MaxSecrets
      BY WizardAssumption
    <2>4. QED
      BY <2>1, <2>2, <2>3 DEF SecretsOver
  <1>4. page \in 0..PageDone /\ logged \in 0..LogLines /\ says \in 0..MaxSays
    BY <1>1, PageNumbers, WizardAssumption DEF Init, WizardInit
  <1>5. Len(shown) <= MaxWidgets /\ shown \in Seq(AllFields)
    BY WizardAssumption DEF Init, WizardInit
  <1>6. IsAnswers(store) /\ IsAnswers(secrets)
    BY <1>3, AnswersType, AllTheKeys DEF Init, WizardInit
  <1>7. Cardinality(DOMAIN secrets) <= MaxSecrets
    BY <1>3 DEF Init, WizardInit, SecretsOver
  <1>8. TypeOK
    <2>1. lines \in Seq({"say", "DONE", "ERROR"})
      BY DEF Init, WizardInit
    <2>2. shown = << >> /\ root = FALSE /\ present \in BOOLEAN /\ told = FALSE
      BY DEF Init, WizardInit
    <2>3. timer = "none" /\ child = "none" /\ outcome = "none"
      BY DEF Init, WizardInit
    <2>4. QED
      BY <1>1, <1>4, <1>5, <1>6, <1>7, <2>1, <2>2, <2>3 DEF TypeOK
  <1>9. WizardInv
    BY <1>3, <1>5 DEF Init, WizardInit, WizardInv
  <1>10. QED
    BY <1>8, <1>9

\* Every callback that only turns pages.
LEMMA PageSteps ==
  ASSUME OrderTypeOK, TypeOK, WizardInv,
         Show \/ NextWelcome \/ NextStage \/ Back \/ Continue
  PROVE  TypeOK' /\ WizardInv'
  <1>1. UNCHANGED <<orderVars, present, applyVars, childVars>> /\ at = "done"
    BY DEF Show, NextWelcome, NextStage, Back, Continue, WizardInv
  <1>2. /\ NStages' = NStages /\ StagePages' = StagePages /\ PageDone' = PageDone
        /\ PageConfirm' = PageConfirm /\ PageProgress' = PageProgress
        /\ \A p : Fields(p)' = Fields(p)
    BY <1>1 DEF orderVars, NStages, StagePages, PageDone, PageConfirm,
                PageProgress, Fields
  <1>3. /\ store' \in AnswersOver(OpenKeys)
        /\ secrets' \in SecretsOver(PasswordKeys)
    <2>1. CASE NextStage
      <3>1. PICK typed \in [1..Len(shown) -> Values] :
              store' = Capture(typed).store /\ secrets' = Capture(typed).secrets
        BY <2>1 DEF NextStage
      <3>2. Capture(typed) \in Captures
        BY CaptureType DEF WizardInv
      <3>3. QED
        BY <3>1, <3>2 DEF Captures
    <2>2. CASE Show \/ NextWelcome \/ Back \/ Continue
      BY <2>2 DEF Show, NextWelcome, Back, Continue, WizardInv
    <2>3. QED
      BY <2>1, <2>2
  <1>4. PagesOK'
    <2>1. CASE UNCHANGED <<page, shown>> /\ root' \in BOOLEAN
      BY <1>2, <2>1 DEF PagesOK, TypeOK, WizardInv
    <2>2. CASE \E p \in 0..PageDone : GoTo(p)
      <3>1. PICK p \in 0..PageDone : GoTo(p)
        BY <2>2
      <3>2. /\ page' = p /\ shown' = Rendered(p, store') /\ root' \in BOOLEAN
        BY <3>1 DEF GoTo, TypeOK
      <3>3. QED
        BY <1>2, <3>2, RenderedFields DEF PagesOK
    <2>3. CASE Show \/ Continue
      BY <2>1, <2>3 DEF Show, Continue
    <2>4. CASE NextWelcome
      BY <2>2, <2>4, PageNumbers DEF NextWelcome
    <2>5. CASE Back
      <3>1. page - 1 \in 0..PageDone
        BY <2>5, PageNumbers DEF Back
      <3>2. QED
        BY <2>2, <2>5, <3>1 DEF Back
    <2>6. CASE NextStage
      <3>1. page + 1 \in 0..PageDone
        BY <2>6, PageNumbers DEF NextStage
      <3>2. GoTo(page + 1) \/ UNCHANGED <<root, page, shown>>
        BY <2>6 DEF NextStage
      <3>3. QED
        BY <2>1, <2>2, <3>1, <3>2 DEF TypeOK
    <2>7. QED
      BY <2>3, <2>4, <2>5, <2>6
  <1>5. IsAnswers(store') /\ IsAnswers(secrets')
        /\ Cardinality(DOMAIN secrets') <= MaxSecrets
    BY <1>3, AnswersType, AllTheKeys DEF SecretsOver
  <1>6. TypeOK'
    <2>1. OrderTypeOK'
      BY <1>1 DEF TypeOK, OrderTypeOK, orderVars, Index, Scanned, Wanted
    <2>2. IsAnswers(store)' /\ IsAnswers(secrets)'
      BY <1>5 DEF IsAnswers, Keys
    <2>3. QED
      BY <1>1, <1>4, <1>5, <2>1, <2>2
      DEF TypeOK, PagesOK, applyVars, logVars, childVars
  <1>7. (child = "none" /\ timer = "none") \/ UNCHANGED page
    <2>1. page = 0 \/ page \in StagePages \/ page \in 1..PageConfirm =>
            page \notin {PageProgress, PageDone}
      BY PageNumbers
    <2>2. QED
      BY <2>1 DEF Show, NextWelcome, NextStage, Back, Continue, WizardInv
  <1>8. WizardInv'
    BY <1>1, <1>2, <1>3, <1>4, <1>7
    DEF WizardInv, PagesOK, orderVars, applyVars, childVars
  <1>9. QED
    BY <1>6, <1>8

\* Every step of bp_phase_order, while there is no page.
LEMMA OrderingSteps ==
  ASSUME OrderTypeOK, OrderTypeOK', TypeOK, WizardInv, Ordering
  PROVE  TypeOK' /\ WizardInv'
  <1>1. at # "done" /\ UNCHANGED <<pageVars, present, applyVars, childVars>>
    BY DEF Ordering, OrderNext, BeginPass, Return, Take, Skip, EndPass
  <1>2. ~root /\ page = 0 /\ child = "none" /\ timer = "none"
    BY <1>1 DEF WizardInv
  <1>3. page' \in 0..PageDone'
    BY <1>1, <1>2, PageNumbers
    DEF pageVars, PageDone, NStages, OrderTypeOK
  <1>4. shown = << >>
    BY <1>2, PageNumbers DEF TypeOK
  <1>5. TypeOK'
    BY <1>1, <1>3, <1>4
    DEF TypeOK, IsAnswers, Keys, pageVars, applyVars, logVars, childVars
  <1>6. WizardInv'
    BY <1>1, <1>2 DEF WizardInv, pageVars, applyVars, childVars
  <1>7. QED
    BY <1>5, <1>6

\* wlog never counts more lines than fit.
LEMMA WlogType ==
  ASSUME logged \in 0..LogLines, NEW n \in Nat, Wlog(n)
  PROVE  logged' \in 0..LogLines
  BY WizardAssumption DEF Wlog, Fits

\* parse_apply_line knows every line that is read.
LEMMA PollLineCases ==
  ASSUME TypeOK, PollLine
  PROVE  /\ timer = "poll" /\ lines # << >> /\ lines' = Tail(lines)
         /\ Tail(lines) \in Seq({"say", "DONE", "ERROR"})
         /\ UNCHANGED <<orderVars, present, file, child, says, used, outcome>>
         /\ \/ Head(lines) = "say" /\ Wlog(1) /\ UNCHANGED <<told, timer, pageVars>>
            \/ Head(lines) = "DONE" /\ FinishOk
            \/ Head(lines) = "ERROR" /\ FinishSnag(1)
  <1>1. lines \in Seq({"say", "DONE", "ERROR"}) /\ lines # << >>
    BY DEF TypeOK, PollLine
  <1>2. /\ Head(lines) \in {"say", "DONE", "ERROR"}
        /\ Tail(lines) \in Seq({"say", "DONE", "ERROR"})
    BY <1>1
  <1>3. \/ Head(lines) = "say" /\ Wlog(1) /\ UNCHANGED <<told, timer, pageVars>>
        \/ Head(lines) = "DONE" /\ FinishOk
        \/ Head(lines) = "ERROR" /\ FinishSnag(1)
    BY <1>2 DEF PollLine
  <1>4. QED
    BY <1>2, <1>3 DEF PollLine

\* The progress page, its timers, and the end of the setup: the order, the
\* answers and the secrets stay as they are.
LEMMA ProgressSteps ==
  ASSUME OrderTypeOK, TypeOK, WizardInv,
         StartApply \/ StartFails \/ StartMock \/ MockDone \/ Poll
  PROVE  TypeOK' /\ WizardInv'
  <1>1. UNCHANGED <<orderVars, root, store, secrets, present>>
    BY PollLineCases DEF StartApply, StartFails, StartMock, EnterProgress, MockDone,
                         Poll, PollEof, FinishOk, FinishSnag, pageVars
  <1>2. /\ NStages' = NStages /\ StagePages' = StagePages /\ PageDone' = PageDone
        /\ PageConfirm' = PageConfirm /\ PageProgress' = PageProgress
        /\ \A p : Fields(p)' = Fields(p)
    BY <1>1 DEF orderVars, NStages, StagePages, PageDone, PageConfirm,
                PageProgress, Fields
  <1>3. at = "done"
    BY DEF StartApply, StartFails, StartMock, EnterProgress, MockDone, Poll,
           PollLine, PollEof, WizardInv
  <1>4. PageProgress \in 0..PageDone /\ PageDone \in 0..PageDone
    BY PageNumbers
  <1>5. \/ page' = PageProgress /\ shown' = << >>
        \/ page' = PageDone /\ shown' = shown /\ timer # "none" /\ timer' = "none"
        \/ page' = page /\ shown' = shown
    <2>1. CASE StartApply \/ StartFails \/ StartMock
      BY <2>1 DEF StartApply, StartFails, StartMock, EnterProgress
    <2>2. CASE MockDone
      BY <2>2 DEF MockDone
    <2>3. CASE PollLine
      BY <2>3, PollLineCases DEF FinishOk, FinishSnag, pageVars
    <2>4. CASE PollEof
      BY <2>4 DEF PollEof, FinishSnag, pageVars
    <2>5. QED
      BY <2>1, <2>2, <2>3, <2>4 DEF Poll
  <1>6. /\ logged' \in 0..LogLines /\ told' \in BOOLEAN
        /\ timer' \in {"none", "poll", "mock"}
    <2>1. 0 \in 0..LogLines /\ 1 \in 0..LogLines /\ 2 \in 0..LogLines
      BY WizardAssumption
    <2>2. CASE StartApply \/ StartFails \/ StartMock
      BY <2>1, <2>2 DEF StartApply, StartFails, StartMock, EnterProgress, TypeOK
    <2>3. CASE MockDone
      BY <2>3 DEF MockDone, logVars, TypeOK
    <2>4. CASE PollLine
      <3>1. \/ Wlog(1) /\ UNCHANGED <<told, timer>>
            \/ UNCHANGED logVars /\ timer' = "none"
            \/ FinishSnag(1)
        BY <2>4, PollLineCases DEF FinishOk
      <3>2. FinishSnag(1) => /\ timer' = "none" /\ Wlog(3)
                             /\ told' \in BOOLEAN
        BY DEF FinishSnag, Fits
      <3>3. QED
        BY <3>1, <3>2, WlogType DEF TypeOK, logVars
    <2>5. CASE PollEof
      <3>1. timer' = "none" /\ Wlog(3) /\ told' \in BOOLEAN
        BY <2>5 DEF PollEof, FinishSnag, Fits
      <3>2. QED
        BY <3>1, WlogType DEF TypeOK
    <2>6. QED
      BY <2>2, <2>3, <2>4, <2>5 DEF Poll
  <1>7. /\ lines' \in Seq({"say", "DONE", "ERROR"})
        /\ child' \in {"none", "forked", "applying", "ending", "gone"}
        /\ says' \in 0..MaxSays /\ outcome' \in {"none", "applied", "refused"}
    <2>1. 0 \in 0..MaxSays
      BY WizardAssumption
    <2>2. CASE StartApply
      BY <2>1, <2>2 DEF StartApply
    <2>3. CASE PollLine
      BY <2>3, PollLineCases DEF TypeOK
    <2>4. CASE UNCHANGED childVars
      BY <2>4 DEF childVars, TypeOK
    <2>5. QED
      BY <2>2, <2>3, <2>4 DEF StartFails, StartMock, MockDone, Poll, PollEof
  <1>8. file' \in {NoAnswers, OldAnswers} \cup [answers : AnswersOver(OpenKeys)]
    <2>1. [answers |-> store] \in [answers : AnswersOver(OpenKeys)]
      BY DEF WizardInv
    <2>2. QED
      BY <2>1 DEF StartApply, StartFails, StartMock, MockDone, Poll, PollLine,
                  PollEof, SaveAnswers, WizardInv
  <1>9. page' \in 0..PageDone /\ shown' \in Seq(AllFields)
    <2>1. page \in 0..PageDone /\ shown \in Seq(AllFields)
      BY DEF TypeOK, WizardInv
    <2>2. << >> \in Seq(AllFields)
      OBVIOUS
    <2>3. QED
      BY <1>4, <1>5, <2>1, <2>2
  <1>10. Len(shown') <= MaxWidgets
    BY <1>5, WizardAssumption DEF TypeOK
  <1>11. shown' # << >> => page' \in StagePages
                           /\ Range(shown') \subseteq Range(Fields(page'))
    <2>1. CASE page' = page /\ shown' = shown
      BY <2>1 DEF TypeOK
    <2>2. CASE shown' = << >>
      BY <2>2
    <2>3. CASE shown' = shown /\ timer # "none"
      <3>1. page = PageProgress /\ PageProgress \notin StagePages
        BY <2>3, PageNumbers DEF WizardInv
      <3>2. QED
        BY <2>3, <3>1 DEF TypeOK
    <2>4. QED
      BY <1>5, <2>1, <2>2, <2>3
  <1>12. timer' # "none" => page' = PageProgress
    <2>1. CASE StartApply \/ StartFails \/ StartMock
      BY <2>1 DEF StartApply, StartFails, StartMock, EnterProgress
    <2>2. CASE MockDone \/ PollEof
      BY <2>2 DEF MockDone, PollEof, FinishSnag
    <2>3. CASE PollLine
      BY <2>3, PollLineCases DEF FinishOk, FinishSnag, pageVars, WizardInv
    <2>4. QED
      BY <2>1, <2>2, <2>3 DEF Poll
  <1>13. child' # "none" => page' \in {PageProgress, PageDone}
    <2>1. CASE UNCHANGED child
      BY <1>5, <2>1 DEF WizardInv
    <2>2. CASE StartApply
      BY <2>2 DEF StartApply, EnterProgress
    <2>3. QED
      BY <2>1, <2>2 DEF StartFails, StartMock, MockDone, Poll, PollLine, PollEof,
                        childVars
  <1>14. TypeOK'
    <2>1. OrderTypeOK'
      BY <1>1 DEF TypeOK, OrderTypeOK, orderVars, Index, Scanned, Wanted
    <2>2. /\ IsAnswers(store)' /\ IsAnswers(secrets)'
          /\ Cardinality(DOMAIN secrets') <= MaxSecrets
      BY <1>1 DEF TypeOK, IsAnswers, Keys
    <2>3. page' \in 0..PageDone' /\ root' \in BOOLEAN /\ present' \in BOOLEAN
      BY <1>1, <1>2, <1>9 DEF TypeOK
    <2>4. shown' # << >> => page' \in StagePages'
                            /\ Range(shown') \subseteq Range(Fields(page)')
      BY <1>1, <1>11 DEF orderVars, StagePages, NStages, Fields
    <2>5. QED
      BY <1>6, <1>7, <1>10, <2>1, <2>2, <2>3, <2>4 DEF TypeOK
  <1>15. WizardInv'
    BY <1>1, <1>2, <1>3, <1>8, <1>9, <1>12, <1>13 DEF WizardInv, orderVars
  <1>16. QED
    BY <1>14, <1>15

\* The child touches nothing of the wizard but its pipe.
LEMMA ChildSteps ==
  ASSUME OrderTypeOK, TypeOK, WizardInv, ChildStep
  PROVE  TypeOK' /\ WizardInv'
  <1>1. UNCHANGED <<orderVars, pageVars, present, applyVars>> /\ child # "none"
    BY DEF ChildStep, ChildReads, ChildSays, ChildVerdict, ChildExits
  <1>2. /\ NStages' = NStages /\ StagePages' = StagePages /\ PageDone' = PageDone
        /\ PageProgress' = PageProgress /\ \A p : Fields(p)' = Fields(p)
    BY <1>1 DEF orderVars, NStages, StagePages, PageDone, PageProgress, Fields
  <1>3. child' \in {"none", "forked", "applying", "ending", "gone"}
    BY DEF ChildStep, ChildReads, ChildSays, ChildVerdict, ChildExits, TypeOK
  <1>4. outcome' \in {"none", "applied", "refused"}
    BY DEF ChildStep, ChildReads, ChildSays, ChildVerdict, ChildExits, TypeOK
  <1>5. says' \in 0..MaxSays
    BY WizardAssumption
    DEF ChildStep, ChildReads, ChildSays, ChildVerdict, ChildExits, TypeOK
  <1>6. lines' \in Seq({"say", "DONE", "ERROR"})
    <2>1. \A line \in {"say", "DONE", "ERROR"} :
            Says(line) => lines' \in Seq({"say", "DONE", "ERROR"})
      BY DEF Says, TypeOK
    <2>2. lines' = lines => lines' \in Seq({"say", "DONE", "ERROR"})
      BY DEF TypeOK
    <2>3. QED
      BY <2>1, <2>2 DEF ChildStep, ChildReads, ChildSays, ChildVerdict, ChildExits
  <1>7. TypeOK'
    <2>1. OrderTypeOK'
      BY <1>1 DEF TypeOK, OrderTypeOK, orderVars, Index, Scanned, Wanted
    <2>2. IsAnswers(store)' /\ IsAnswers(secrets)'
      BY <1>1 DEF TypeOK, IsAnswers, Keys, pageVars
    <2>3. Range(Fields(page)') = Range(Fields(page))
      BY <1>1 DEF orderVars, pageVars, Fields
    <2>4. QED
      BY <1>1, <1>2, <1>3, <1>4, <1>5, <1>6, <2>1, <2>2, <2>3
      DEF TypeOK, pageVars, applyVars, logVars
  <1>8. WizardInv'
    BY <1>1, <1>2 DEF WizardInv, orderVars, pageVars, applyVars
  <1>9. QED
    BY <1>7, <1>8

LEMMA WizardInductive ==
  ASSUME OrderTypeOK, OrderTypeOK', TypeOK, WizardInv, [Next]_vars
  PROVE  TypeOK' /\ WizardInv'
  <1>1. CASE UNCHANGED vars
    <2>1. UNCHANGED <<orderVars, pageVars, present, applyVars, childVars>>
      BY <1>1 DEF vars
    <2>2. TypeOK'
      BY <2>1 DEF TypeOK, IsAnswers, Keys, orderVars, pageVars, applyVars, logVars,
                  childVars, PageDone, StagePages, NStages, Fields
    <2>3. WizardInv'
      BY <2>1 DEF WizardInv, orderVars, pageVars, applyVars, childVars, PageDone,
                  PageProgress, NStages
    <2>4. QED
      BY <2>2, <2>3
  <1>2. QED
    BY <1>1, OrderingSteps, PageSteps, ProgressSteps, ChildSteps DEF Next

\* Every variable of the wizard keeps its type, and WizardInv holds.
THEOREM WizardTypes == Spec => [](TypeOK /\ WizardInv)
  <1>1. OrderInv => OrderTypeOK
    BY DEF OrderInv
  <1>2. Spec => []OrderInv
    BY WizardOrders, OrderInvCorrect, PTL
  <1>3. OrderTypeOK /\ OrderTypeOK' /\ TypeOK /\ WizardInv /\ [Next]_vars
          => TypeOK' /\ WizardInv'
    BY WizardInductive
  <1>4. QED
    BY <1>1, <1>2, <1>3, InitWizard, PTL DEF Spec

\* No stage asks in the open for a key that a stage asks for as a password.
KeysApart == OpenKeys \cap PasswordKeys = {}

\* What was captured as a password is neither in the store nor in the file,
\* for every blueprint that keeps its keys apart and every way through the
\* pages.
THEOREM PasswordsStayOut == KeysApart => (Spec => []SecretsStayOut)
  <1> SUFFICES ASSUME KeysApart PROVE Spec => []SecretsStayOut
    OBVIOUS
  <1>1. \A ans \in AnswersOver(OpenKeys) : DOMAIN ans \cap PasswordKeys = {}
    BY DEF AnswersOver, KeysApart
  <1>2. WizardInv => SecretsStayOut
    BY <1>1 DEF WizardInv, SecretsStayOut
  <1>3. QED
    BY <1>2, WizardTypes, PTL

-----------------------------------------------------------------------------
(* What peacock-oobe works with. *)

\* Until it has read them, the file holds the answers that are confirmed.
ApplyInv ==
  /\ child = "none" => used = NoAnswers
  /\ child = "forked" => file = [answers |-> store]
  /\ AppliesWhatWasConfirmed

LEMMA ApplyInductive ==
  ASSUME ~SaveMayFail, OrderTypeOK, TypeOK, WizardInv, ApplyInv, [Next]_vars
  PROVE  ApplyInv'
  <1>1. CASE UNCHANGED <<store, secrets, file, child, used>>
    BY <1>1 DEF ApplyInv, AppliesWhatWasConfirmed
  <1>2. CASE Ordering
    BY <1>1, <1>2 DEF Ordering, pageVars, applyVars, childVars
  <1>3. CASE NextStage
    <2>1. child = "none" /\ UNCHANGED <<child, used, file>>
      BY <1>3, PageNumbers DEF NextStage, WizardInv, childVars, applyVars
    <2>2. QED
      BY <2>1 DEF ApplyInv, AppliesWhatWasConfirmed
  <1>4. CASE Show \/ NextWelcome \/ Back \/ Continue
    BY <1>1, <1>4 DEF Show, NextWelcome, Back, Continue, applyVars, childVars
  <1>5. CASE StartApply
    BY <1>5 DEF StartApply, EnterProgress, SaveAnswers, ApplyInv,
                AppliesWhatWasConfirmed
  <1>6. CASE StartFails
    BY <1>6, PageNumbers DEF StartFails, EnterProgress, SaveAnswers, childVars,
                             ApplyInv, AppliesWhatWasConfirmed
  <1>7. CASE StartMock \/ MockDone
    BY <1>1, <1>7 DEF StartMock, MockDone, EnterProgress, childVars
  <1>8. CASE PollLine
    BY <1>1, <1>8, PollLineCases DEF FinishOk, FinishSnag, pageVars
  <1>9. CASE PollEof
    BY <1>1, <1>9 DEF PollEof, FinishSnag, pageVars, childVars
  <1>10. CASE ChildStep
    BY <1>10 DEF ChildStep, ChildReads, ChildSays, ChildVerdict, ChildExits,
                 pageVars, applyVars, ApplyInv, AppliesWhatWasConfirmed
  <1>11. CASE UNCHANGED vars
    BY <1>1, <1>11 DEF vars, pageVars, applyVars, childVars
  <1>12. QED
    BY <1>2, <1>3, <1>4, <1>5, <1>6, <1>7, <1>8, <1>9, <1>10, <1>11 DEF Next, Poll

\* peacock-oobe works with the answers the confirm page showed, for every
\* blueprint and every way through the pages, when the save succeeds.
THEOREM ConfirmedIsApplied == ~SaveMayFail => (Spec => []AppliesWhatWasConfirmed)
  <1> SUFFICES ASSUME ~SaveMayFail PROVE Spec => []AppliesWhatWasConfirmed
    OBVIOUS
  <1>1. Init => ApplyInv
    BY DEF Init, WizardInit, ApplyInv, AppliesWhatWasConfirmed
  <1>2. TypeOK /\ WizardInv /\ ApplyInv /\ [Next]_vars => ApplyInv'
    BY ApplyInductive DEF TypeOK
  <1>3. ApplyInv => AppliesWhatWasConfirmed
    BY DEF ApplyInv
  <1>4. QED
    BY <1>1, <1>2, <1>3, WizardTypes, PTL DEF Spec

-----------------------------------------------------------------------------
(* What the last page says. *)

\* A verdict that was not read yet is still among the lines, and nothing else
\* says DONE or ERROR.
VerdictInv ==
  /\ child \in {"none", "forked", "applying"} => outcome = "none"
  /\ timer = "poll" /\ outcome = "applied" => "DONE" \in Range(lines)
  /\ "DONE" \in Range(lines) => outcome = "applied"
  /\ "ERROR" \in Range(lines) => outcome = "refused"
  /\ timer = "mock" => ~present
  /\ told => child \in {"ending", "gone"}
  /\ VerdictIsTrue


LEMMA RangeOfTail ==
  ASSUME NEW S, NEW s \in Seq(S), s # << >>
  PROVE  /\ Range(Tail(s)) \subseteq Range(s)
         /\ \A x \in Range(s) : x # Head(s) => x \in Range(Tail(s))
  <1>1. /\ Len(Tail(s)) = Len(s) - 1 /\ Len(s) \in Nat /\ Head(s) = s[1]
        /\ \A k \in 1..(Len(s) - 1) : Tail(s)[k] = s[k + 1]
    OBVIOUS
  <1>2. DOMAIN Tail(s) = 1..(Len(s) - 1) /\ DOMAIN s = 1..Len(s)
    OBVIOUS
  <1>3. \A k \in 1..(Len(s) - 1) : k + 1 \in 1..Len(s)
    BY <1>1
  <1>4. \A k \in 1..Len(s) : k # 1 => k - 1 \in 1..(Len(s) - 1) /\ k - 1 + 1 = k
    BY <1>1
  <1>5. \A k \in 1..Len(s) : k # 1 => s[k] = Tail(s)[k - 1]
    BY <1>1, <1>4
  <1>6. \A k \in 1..(Len(s) - 1) : Tail(s)[k] \in Range(s)
    BY <1>1, <1>2, <1>3 DEF Range
  <1>7. \A k \in 1..Len(s) : k # 1 => s[k] \in Range(Tail(s))
    BY <1>2, <1>4, <1>5 DEF Range
  <1>8. Range(Tail(s)) \subseteq Range(s)
    BY <1>2, <1>6 DEF Range
  <1>9. ASSUME NEW x \in Range(s), x # Head(s) PROVE x \in Range(Tail(s))
    <2>1. PICK k \in 1..Len(s) : x = s[k]
      BY <1>2 DEF Range
    <2>2. QED
      BY <1>1, <1>7, <1>9, <2>1
  <1>10. QED
    BY <1>8, <1>9

LEMMA RangeOfAppend ==
  ASSUME NEW S, NEW s \in Seq(S), NEW x
  PROVE  Range(Append(s, x)) = Range(s) \cup {x}
  <1>1. /\ Len(Append(s, x)) = Len(s) + 1 /\ Len(s) \in Nat
        /\ \A k \in 1..Len(s) : Append(s, x)[k] = s[k]
        /\ Append(s, x)[Len(s) + 1] = x
    OBVIOUS
  <1>2. DOMAIN Append(s, x) = 1..(Len(s) + 1) /\ DOMAIN s = 1..Len(s)
    OBVIOUS
  <1>3. \A k \in 1..(Len(s) + 1) : k \in 1..Len(s) \/ k = Len(s) + 1
    BY <1>1
  <1>4. 1..Len(s) \subseteq 1..(Len(s) + 1) /\ Len(s) + 1 \in 1..(Len(s) + 1)
    BY <1>1
  <1>5. QED
    BY <1>1, <1>2, <1>3, <1>4 DEF Range

\* The pages before the progress page say nothing of an outcome.
LEMMA VerdictPages ==
  ASSUME OrderTypeOK, OrderTypeOK', TypeOK, WizardInv, VerdictInv,
         Ordering \/ Show \/ NextWelcome \/ NextStage \/ Back \/ Continue
  PROVE  VerdictInv'
  <1>1. UNCHANGED <<present, applyVars, childVars>>
    BY DEF Ordering, Show, NextWelcome, NextStage, Back, Continue
  <1>2. page' = PageDone' => page = PageDone
    <2>1. CASE Ordering
      <3>1. page' = 0
        BY <2>1 DEF Ordering, OrderNext, BeginPass, Return, Take, Skip, EndPass,
                    WizardInv, pageVars
      <3>2. PageDone' # 0
        BY DEF OrderTypeOK, PageDone, NStages
      <3>3. QED
        BY <3>1, <3>2
    <2>2. CASE Show \/ NextWelcome \/ NextStage \/ Back \/ Continue
      <3>1. PageDone' = PageDone
        BY <2>2 DEF Show, NextWelcome, NextStage, Back, Continue, orderVars,
                    PageDone, NStages
      <3>2. \/ page' = page
            \/ NextWelcome /\ page' = 1
            \/ NextStage /\ page' = page + 1
            \/ Back /\ page' = page - 1
        BY <2>2 DEF Show, NextWelcome, NextStage, Back, Continue, GoTo
      <3>3. QED
        BY <3>1, <3>2, PageNumbers DEF NextStage, Back
    <2>3. QED
      BY <2>1, <2>2
  <1>3. QED
    BY <1>1, <1>2 DEF VerdictInv, VerdictIsTrue, applyVars, logVars, childVars

\* A line is read: if it is not the verdict, the verdict is still to come.
LEMMA VerdictPoll ==
  ASSUME OrderTypeOK, TypeOK, WizardInv, VerdictInv, PollLine \/ PollEof
  PROVE  VerdictInv'
  <1>1. PageDone' = PageDone /\ PageProgress # PageDone /\ timer = "poll"
    BY PollLineCases, PageNumbers DEF PollEof, orderVars, PageDone, NStages
  <1>2. CASE PollLine
    <2>1. /\ UNCHANGED <<present, child, outcome>>
          /\ Range(lines') \subseteq Range(lines)
          /\ \A x \in Range(lines) : x # Head(lines) => x \in Range(lines')
          /\ Head(lines) \in Range(lines)
      <3>1. lines \in Seq({"say", "DONE", "ERROR"}) /\ lines # << >>
        BY <1>2, PollLineCases DEF TypeOK
      <3>2. Head(lines) \in Range(lines)
        BY <3>1 DEF Range
      <3>3. QED
        BY <1>2, <3>1, <3>2, PollLineCases, RangeOfTail
    <2>2. CASE Head(lines) = "say" /\ UNCHANGED <<told, timer, pageVars>>
      BY <1>1, <2>1, <2>2 DEF VerdictInv, VerdictIsTrue, pageVars
    <2>3. CASE Head(lines) = "DONE" /\ FinishOk
      BY <1>1, <2>1, <2>3 DEF VerdictInv, VerdictIsTrue, FinishOk, logVars
    <2>4. CASE Head(lines) = "ERROR" /\ FinishSnag(1)
      <3>1. outcome = "refused" /\ child \in {"ending", "gone"}
        BY <2>1, <2>4 DEF VerdictInv, TypeOK
      <3>2. QED
        BY <1>1, <2>1, <2>4, <3>1 DEF VerdictInv, VerdictIsTrue, FinishSnag, pageVars
    <2>5. QED
      BY <1>2, <2>2, <2>3, <2>4, PollLineCases
  <1>3. CASE PollEof
    <2>1. UNCHANGED <<present, childVars, pageVars>> /\ timer' = "none"
      BY <1>3 DEF PollEof, FinishSnag
    <2>2. outcome # "applied" /\ child = "gone"
      BY <1>3 DEF PollEof, VerdictInv, Range
    <2>3. QED
      BY <1>1, <2>1, <2>2 DEF VerdictInv, VerdictIsTrue, childVars, pageVars
  <1>4. QED
    BY <1>2, <1>3

\* A new setup, or none.
LEMMA VerdictStart ==
  ASSUME OrderTypeOK, TypeOK, WizardInv, VerdictInv,
         StartApply \/ StartFails \/ StartMock \/ MockDone
  PROVE  VerdictInv'
  <1>1. PageDone' = PageDone /\ PageProgress # PageDone
    BY PageNumbers DEF StartApply, StartFails, StartMock, EnterProgress, MockDone,
                       orderVars, PageDone, NStages
  <1>2. CASE StartApply
    BY <1>1, <1>2 DEF StartApply, EnterProgress, VerdictInv, VerdictIsTrue, Range
  <1>3. CASE StartFails
    BY <1>1, <1>3 DEF StartFails, EnterProgress, VerdictInv, VerdictIsTrue, childVars
  <1>4. CASE StartMock
    BY <1>1, <1>4 DEF StartMock, EnterProgress, VerdictInv, VerdictIsTrue, childVars
  <1>5. CASE MockDone
    BY <1>1, <1>5 DEF MockDone, VerdictInv, VerdictIsTrue, childVars, logVars
  <1>6. QED
    BY <1>2, <1>3, <1>4, <1>5

\* The child's lines.
LEMMA VerdictChild ==
  ASSUME TypeOK, WizardInv, VerdictInv, ChildStep
  PROVE  VerdictInv'
  <1>1. UNCHANGED <<page, present, timer, told>> /\ PageDone' = PageDone
    BY DEF ChildStep, pageVars, applyVars, logVars, orderVars, PageDone, NStages
  <1>2. lines \in Seq({"say", "DONE", "ERROR"})
    BY DEF TypeOK
  <1>3. \A line : Says(line) =>
          /\ Range(lines') \subseteq Range(lines) \cup {line}
          /\ timer = "poll" => line \in Range(lines')
    BY <1>2, RangeOfAppend DEF Says
  <1>4. CASE ChildReads \/ ChildExits
    BY <1>1, <1>4 DEF ChildReads, ChildExits, VerdictInv, VerdictIsTrue
  <1>5. CASE ChildSays
    <2>1. Range(lines') \subseteq Range(lines) \cup {"say"}
      BY <1>3, <1>5 DEF ChildSays
    <2>2. outcome = "none" /\ UNCHANGED <<child, outcome>>
      BY <1>5 DEF ChildSays, VerdictInv
    <2>3. QED
      BY <1>1, <2>1, <2>2 DEF VerdictInv, VerdictIsTrue
  <1>6. CASE ChildVerdict
    <2>1. outcome = "none" /\ ~told /\ child' = "ending"
      BY <1>6 DEF ChildVerdict, VerdictInv
    <2>2. "DONE" \notin Range(lines) /\ "ERROR" \notin Range(lines)
          /\ ~(page = PageDone /\ present)
      BY <2>1 DEF VerdictInv, VerdictIsTrue
    <2>3. \/ outcome' = "applied" /\ Says("DONE")
          \/ outcome' = "refused" /\ Says("ERROR")
      BY <1>6 DEF ChildVerdict
    <2>4. QED
      BY <1>1, <1>3, <2>1, <2>2, <2>3 DEF VerdictInv, VerdictIsTrue
  <1>7. QED
    BY <1>4, <1>5, <1>6 DEF ChildStep

\* "You're ready to go" is said only of a setup that was applied, and the snag
\* line only of one that was not, for every blueprint and however much
\* peacock-oobe prints.
THEOREM VerdictIsReal == Spec => []VerdictIsTrue
  <1>1. OrderInv => OrderTypeOK
    BY DEF OrderInv
  <1>2. Spec => []OrderInv
    BY WizardOrders, OrderInvCorrect, PTL
  <1>3. Init => VerdictInv
    <2> SUFFICES ASSUME Init PROVE VerdictInv
      OBVIOUS
    <2>1. PageDone # 0
      BY InitOrderInv, PageNumbers DEF Init, OrderInv
    <2>2. QED
      BY <2>1 DEF Init, WizardInit, VerdictInv, VerdictIsTrue, Range
  <1>4. OrderTypeOK /\ OrderTypeOK' /\ TypeOK /\ WizardInv /\ VerdictInv
          /\ [Next]_vars => VerdictInv'
    <2> SUFFICES ASSUME OrderTypeOK, OrderTypeOK', TypeOK, WizardInv, VerdictInv,
                        [Next]_vars
                 PROVE  VerdictInv'
      OBVIOUS
    <2>1. CASE UNCHANGED vars
      BY <2>1 DEF vars, orderVars, pageVars, applyVars, logVars, childVars,
                  VerdictInv, VerdictIsTrue, PageDone, NStages
    <2>2. QED
      BY <2>1, VerdictPages, VerdictPoll, VerdictStart, VerdictChild DEF Next, Poll
  <1>5. VerdictInv => VerdictIsTrue
    BY DEF VerdictInv
  <1>6. QED
    BY <1>1, <1>2, <1>3, <1>4, <1>5, WizardTypes, PTL DEF Spec

-----------------------------------------------------------------------------
(* What was asked is answered. *)

OpenFields == {f \in AskedFields(bp) : f.type # "password"}
SecretFields == {f \in AskedFields(bp) : f.type = "password"}

\* Answers that one of these fields asked for and accepted.
Accepted(ans, fields) ==
  \A key \in DOMAIN ans : \E f \in fields : f.key = key /\ ~Rejects(f, ans[key])

AllAccepted(c) == Accepted(c.store, OpenFields) /\ Accepted(c.secrets, SecretFields)

\* Where the answer to f is kept.
KeptIn(f, c) == IF f.type = "password" THEN c.secrets ELSE c.store

Answered(f, c) == f.key \in DOMAIN KeptIn(f, c)

\* The pages behind this one are answered.
BehindAnswered ==
  \A p \in StagePages :
    p < page => \A f \in Range(Fields(p)) :
                  Holds(f.when, store) => Answered(f, Nothing) \/ MayStayEmpty(f)

\* This page has a widget for every field that needs one.
PageComplete ==
  page \in StagePages =>
    \A f \in Range(Fields(page)) :
      Holds(f.when, store) => f \in Range(shown) \/ MayStayEmpty(f)

\* And answers are kept only if they were accepted.
AnswerInv == AllAccepted(Nothing) /\ BehindAnswered /\ PageComplete

\* AskedStages names what bp_phase_order may take.
LEMMA AskedIsTakable == AskedStages(bp) = Takable
  BY DEF AskedStages, Takable, Scanned, Wanted, Index

\* Every page is that of a stage, and none of two.
LEMMA PageStages ==
  ASSUME OrderInv
  PROVE  /\ \A p \in StagePages : /\ order[p] \in AskedStages(bp)
                                  /\ Range(Fields(p)) \subseteq AskedFields(bp)
         /\ \A p, q \in StagePages : order[p] = order[q] => p = q
  <1>1. DOMAIN order = StagePages
    BY DEF OrderInv, OrderTypeOK, StagePages, NStages
  <1>2. \A p \in StagePages : order[p] \in AskedStages(bp)
    BY <1>1, AskedIsTakable DEF OrderInv, OrderTypeOK, OrderIsEmitted, Takable
  <1>3. \A p, q \in StagePages : order[p] = order[q] => p = q
    BY <1>1 DEF OrderInv, OrderIsEmitted, EachOnce
  <1>4. QED
    BY <1>2, <1>3 DEF AskedFields, Fields

\* Two fields with one key are one field; what a `when` looks at comes before.
LEMMA FieldsApart ==
  ASSUME AsksWell(bp), NEW k \in AskedStages(bp), NEW j \in AskedStages(bp),
         NEW f \in Range(bp[k].fields), NEW g \in Range(bp[j].fields)
  PROVE  /\ f.key = g.key => f = g /\ j = k
         /\ \A atom \in f.when :
              atom.key = g.key => j # k /\ ComesBefore(bp, j, k)
  <1>1. /\ f.key = g.key => f = g /\ j = k
        /\ (\E atom \in f.when : atom.key = g.key) => j # k /\ ComesBefore(bp, j, k)
    <2> HIDE DEF ComesBefore
    <2>1. \A m, n \in AskedStages(bp) :
            \A d \in Range(bp[m].fields), e \in Range(bp[n].fields) :
              /\ d.key = e.key => d = e /\ n = m
              /\ (\E atom \in d.when : atom.key = e.key) =>
                   n # m /\ ComesBefore(bp, n, m)
      BY DEF AsksWell
    <2>2. QED
      BY <2>1
  <1>2. QED
    BY <1>1

\* So a key leads back to the field that asked.
LEMMA OneFieldPerKey ==
  ASSUME AsksWell(bp), NEW f \in AskedFields(bp), NEW g \in AskedFields(bp),
         f.key = g.key
  PROVE  f = g
  <1>1. PICK k \in AskedStages(bp), j \in AskedStages(bp) :
          f \in Range(bp[k].fields) /\ g \in Range(bp[j].fields)
    BY DEF AskedFields
  <1>2. QED
    BY <1>1, FieldsApart

\* What a `when` looks at was asked on an earlier page.
LEMMA WhenLooksBack ==
  ASSUME OrderInv, AsksWell(bp), NEW p \in StagePages, NEW q \in StagePages,
         NEW f \in Range(Fields(p)), NEW g \in Range(Fields(q)),
         NEW atom \in f.when, atom.key = g.key
  PROVE  q < p
  <1> DEFINE S == {order[r] : r \in 1..p}
  <1>1. /\ NStages \in Nat /\ StagePages = 1..NStages
        /\ DOMAIN order = StagePages /\ 1..p \subseteq StagePages /\ p \in 1..p
    BY PageNumbers DEF OrderInv, OrderTypeOK, StagePages, NStages
  <1>2. /\ order[p] \in AskedStages(bp) /\ order[q] \in AskedStages(bp)
        /\ S \subseteq AskedStages(bp)
    BY <1>1, PageStages
  <1>3. order[q] # order[p] /\ ComesBefore(bp, order[q], order[p])
    <2>1. f \in Range(bp[order[p]].fields) /\ g \in Range(bp[order[q]].fields)
      BY DEF Fields
    <2>2. QED
      BY <1>2, <2>1, FieldsApart
  <1>4. ASSUME NEW m \in S, NEW n \in AskedStages(bp),
               bp[n].id # NoId /\ bp[n].id \in bp[m].requires
        PROVE  n \in S
    <2>1. PICK r \in 1..p : m = order[r]
      OBVIOUS
    <2>2. n \in Scanned \cap Wanted /\ Requires(order[r], n)
      BY <1>4, <2>1, AskedIsTakable DEF Takable, Requires
    <2>3. PICK t \in 1..(r - 1) : order[t] = n
      BY <1>1, <2>2 DEF OrderInv, RequirementsFirst
    <2>4. t \in 1..p
      BY <1>1
    <2>5. QED
      BY <2>3, <2>4
  <1>5. order[p] \in S
    BY <1>1
  <1>6. order[q] \in S
    BY <1>2, <1>3, <1>4, <1>5 DEF ComesBefore
  <1>7. PICK r \in 1..p : order[q] = order[r]
    BY <1>6
  <1>8. q = r /\ q # p
    BY <1>1, <1>3, <1>7, PageStages
  <1>9. QED
    BY <1>1, <1>8

\* So answers to this page do not change what was asked up to it.
LEMMA SameWhen ==
  ASSUME OrderInv, AsksWell(bp), page \in StagePages, NEW ans, NEW new,
         \A key : (\A g \in Range(Fields(page)) : key # g.key) =>
                    Answer(new, key) = Answer(ans, key),
         NEW p \in StagePages, p <= page, NEW f \in Range(Fields(p))
  PROVE  Holds(f.when, new) <=> Holds(f.when, ans)
  <1>1. ~(page < p)
    BY PageNumbers DEF OrderInv
  <1>2. \A atom \in f.when : \A g \in Range(Fields(page)) : atom.key # g.key
    BY <1>1, WhenLooksBack
  <1>3. \A atom \in f.when : Answer(new, atom.key) = Answer(ans, atom.key)
    BY <1>2
  <1>4. QED
    BY <1>3 DEF Holds

\* A field whose `when` holds gets a widget if its page has room.
LEMMA RenderedFinds ==
  ASSUME OrderTypeOK, NEW p \in StagePages, NEW ans,
         NEW n \in DOMAIN Fields(p), n <= MaxWidgets, Holds(Fields(p)[n].when, ans)
  PROVE  Fields(p)[n] \in Range(Rendered(p, ans))
  <1> DEFINE S == Range(Fields(p))
             N == Len(Fields(p))
             Due(m) == m <= MaxWidgets /\ Holds(Fields(p)[m].when, ans)
             inv == [k \in 0..N |->
                       {w \in Seq(S) : /\ Len(w) <= k
                                       /\ \A m \in 1..k : Due(m) =>
                                            Fields(p)[m] \in Range(w)}]
  <1>1. Fields(p) \in Seq(S) /\ FieldsOf(p) = Fields(p) /\ N \in Nat
    BY FieldsOfPage DEF FieldsOf
  <1>2. PICK after : /\ after[0] = << >>
                     /\ \A k \in 1..N :
                          after[k] = AddWidget(after[k - 1], Fields(p)[k], ans)
                     /\ Rendered(p, ans) = after[N]
    <2> HIDE DEF S
    <2>1. FieldsOf(p) \in Seq(S)
      BY <1>1
    <2>2. \E after : /\ after[0] = << >>
                     /\ \A k \in 1..Len(FieldsOf(p)) :
                          after[k] = AddWidget(after[k - 1], FieldsOf(p)[k], ans)
                     /\ Rendered(p, ans) = after[Len(FieldsOf(p))]
      BY <2>1, RenderedLoop
    <2>3. QED
      BY <1>1, <2>2
  <1>3. after[0] \in inv[0]
    BY <1>1, <1>2
  <1>4. ASSUME NEW k \in 1..N, after[k - 1] \in inv[k - 1]
        PROVE  after[k] \in inv[k]
    <2> DEFINE w == after[k - 1]
    <2>1. k - 1 \in 0..N /\ k \in 0..N
      BY <1>1
    <2>2. /\ w \in Seq(S) /\ Len(w) <= k - 1 /\ Len(w) \in Nat
          /\ \A m \in 1..(k - 1) : Due(m) => Fields(p)[m] \in Range(w)
      BY <1>4, <2>1
    <2>3. Fields(p)[k] \in S
      BY <1>1
    <2>4. \A m \in 1..k : m \in 1..(k - 1) \/ m = k
      BY <1>1
    <2> HIDE DEF w, S
    <2>5. /\ Append(w, Fields(p)[k]) \in Seq(S)
          /\ Len(Append(w, Fields(p)[k])) = Len(w) + 1
          /\ Range(Append(w, Fields(p)[k])) = Range(w) \cup {Fields(p)[k]}
      BY <2>2, <2>3, RangeOfAppend
    <2>6. Due(k) => Len(w) < MaxWidgets
      BY <2>2, <1>1, WizardAssumption
    <2>7. after[k] = AddWidget(w, Fields(p)[k], ans)
      BY <1>2 DEF w
    <2>8. /\ after[k] \in Seq(S) /\ Len(after[k]) <= k
          /\ \A m \in 1..k : Due(m) => Fields(p)[m] \in Range(after[k])
      <3>1. CASE Holds(Fields(p)[k].when, ans) /\ Len(w) < MaxWidgets
        <4>1. after[k] = Append(w, Fields(p)[k])
          BY <2>7, <3>1 DEF AddWidget
        <4>2. Len(w) + 1 <= k
          BY <2>2
        <4>3. QED
          BY <2>2, <2>4, <2>5, <4>1, <4>2
      <3>2. CASE ~(Holds(Fields(p)[k].when, ans) /\ Len(w) < MaxWidgets)
        <4>1. after[k] = w /\ ~Due(k)
          BY <2>6, <2>7, <3>2 DEF AddWidget
        <4>2. Len(w) <= k
          BY <2>2
        <4>3. QED
          BY <2>2, <2>4, <4>1, <4>2
      <3>3. QED
        BY <3>1, <3>2
    <2>9. QED
      BY <2>1, <2>8
  <1> HIDE DEF inv
  <1>5. after[N] \in inv[N]
    BY <1>1, <1>3, <1>4, LoopStays
  <1>6. n \in 1..N /\ N \in 0..N
    BY <1>1
  <1>7. QED
    BY <1>2, <1>5, <1>6 DEF inv

\* A page as it is rendered has all the widgets it needs.
LEMMA NothingMissing ==
  ASSUME OrderInv, AsksWell(bp), NEW p \in StagePages, NEW ans,
         NEW f \in Range(Fields(p)), Holds(f.when, ans)
  PROVE  f \in Range(Rendered(p, ans)) \/ MayStayEmpty(f)
  <1>1. PICK n \in DOMAIN Fields(p) : f = Fields(p)[n]
    BY DEF Range
  <1>2. order[p] \in AskedStages(bp) /\ n \in Nat
    BY PageStages, FieldsOfPage DEF OrderInv
  <1>3. CASE n <= MaxWidgets
    BY <1>1, <1>3, RenderedFinds DEF OrderInv
  <1>4. CASE n > MaxWidgets
    BY <1>1, <1>2, <1>4 DEF AsksWell, Fields
  <1>5. MaxWidgets \in Nat
    BY WizardAssumption
  <1>6. QED
    BY <1>2, <1>3, <1>4, <1>5

\* What is known of the captured answers after n fields of this page.
CapturedSoFar(c, n) ==
  /\ AllAccepted(c)
  /\ DOMAIN store \subseteq DOMAIN c.store
  /\ DOMAIN secrets \subseteq DOMAIN c.secrets
  /\ \A key : (\A g \in Range(Fields(page)) : key # g.key) =>
                Answer(c.store, key) = Answer(store, key)
  /\ c.ok => \A m \in 1..n : Answered(shown[m], c)

\* There is room for every password that is asked for.
LEMMA RoomForSecret ==
  ASSUME AsksWell(bp), NEW c \in Captures, AllAccepted(c),
         NEW f \in AskedFields(bp), f.type = "password",
         f.key \notin DOMAIN c.secrets
  PROVE  Cardinality(DOMAIN c.secrets) < MaxSecrets
  <1> DEFINE D == DOMAIN c.secrets
             Asked == AskedSecrets(bp)
  <1>1. IsFiniteSet(D)
    BY DEF Captures, SecretsOver
  <1>2. IsFiniteSet(Asked) /\ Cardinality(Asked) <= MaxSecrets
    BY DEF AsksWell
  <1>3. D \cup {f.key} \subseteq Asked
    <2>1. \A key \in D : \E g \in AskedFields(bp) : g.key = key /\ g.type = "password"
      BY DEF AllAccepted, Accepted, SecretFields
    <2>2. QED
      BY <2>1 DEF AskedSecrets
  <1> HIDE DEF D, Asked
  <1>4. Cardinality(D \cup {f.key}) = Cardinality(D) + 1
    BY <1>1, FS_AddElement DEF D
  <1>5. Cardinality(D \cup {f.key}) <= Cardinality(Asked)
    BY <1>2, <1>3, FS_Subset
  <1>6. Cardinality(D) \in Nat /\ Cardinality(Asked) \in Nat /\ MaxSecrets \in Nat
    BY <1>1, <1>2, FS_CardinalityType, WizardAssumption
  <1>7. QED
    BY <1>2, <1>4, <1>5, <1>6 DEF D

\* One more answer that was accepted.
LEMMA AcceptedAdds ==
  ASSUME NEW ans, NEW fields, Accepted(ans, fields),
         NEW f \in fields, NEW v, ~Rejects(f, v)
  PROVE  /\ Accepted(SetAnswer(ans, f.key, v), fields)
         /\ DOMAIN SetAnswer(ans, f.key, v) = DOMAIN ans \cup {f.key}
  <1> DEFINE new == SetAnswer(ans, f.key, v)
  <1>1. /\ DOMAIN new = DOMAIN ans \cup {f.key}
        /\ new[f.key] = v
        /\ \A key \in DOMAIN ans : key # f.key => new[key] = ans[key]
    BY DEF SetAnswer
  <1> HIDE DEF new
  <1>2. Accepted(new, fields)
    <2> SUFFICES ASSUME NEW key \in DOMAIN new
                 PROVE  \E g \in fields : g.key = key /\ ~Rejects(g, new[key])
      BY DEF Accepted
    <2>1. CASE key = f.key
      BY <1>1, <2>1
    <2>2. CASE key # f.key
      BY <1>1, <2>2 DEF Accepted
    <2>3. QED
      BY <2>1, <2>2
  <1>3. QED
    BY <1>1, <1>2 DEF new

\* An answer under one key leaves the others as they are.
LEMMA OtherAnswers ==
  ASSUME NEW ans, NEW k, NEW v, NEW key, key # k
  PROVE  Answer(SetAnswer(ans, k, v), key) = Answer(ans, key)
  <1>1. key \in DOMAIN SetAnswer(ans, k, v) <=> key \in DOMAIN ans
    BY Zenon DEF SetAnswer
  <1>2. key \in DOMAIN ans => SetAnswer(ans, k, v)[key] = ans[key]
    BY Zenon DEF SetAnswer
  <1>3. QED
    BY <1>1, <1>2, Zenon DEF Answer

\* One field more: nothing is lost, and what is kept was accepted.
LEMMA CaptureKeepsField ==
  ASSUME AsksWell(bp), NEW n \in Nat \ {0}, NEW c \in Captures,
         CapturedSoFar(c, n - 1), NEW f \in AskedFields(bp), f = shown[n],
         f \in Range(Fields(page)), NEW v
  PROVE  CapturedSoFar(CaptureField(c, f, v), n)
  <1> DEFINE d == CaptureField(c, f, v)
             inStore == [c EXCEPT !.store = SetAnswer(@, f.key, v)]
             inSecrets == [c EXCEPT !.secrets = SetAnswer(@, f.key, v)]
  <1>1. \A m \in 1..n : m \in 1..(n - 1) \/ m = n
    OBVIOUS
  <1>2. /\ inStore.store = SetAnswer(c.store, f.key, v)
        /\ inStore.secrets = c.secrets /\ inStore.ok = c.ok
        /\ inSecrets.secrets = SetAnswer(c.secrets, f.key, v)
        /\ inSecrets.store = c.store /\ inSecrets.ok = c.ok
    BY DEF Captures
  <1> HIDE DEF inStore, inSecrets
  <1>3. CASE ~d.ok
    <2>1. d.store = c.store /\ d.secrets = c.secrets
      <3>1. d = c \/ d = [c EXCEPT !.ok = FALSE] \/ (c.ok /\ d \in {inStore, inSecrets, c})
        BY Zenon DEF CaptureField, inStore, inSecrets
      <3>2. CASE d = c \/ d = [c EXCEPT !.ok = FALSE]
        BY <3>2 DEF Captures
      <3>3. CASE c.ok /\ d \in {inStore, inSecrets, c}
        BY <1>2, <1>3, <3>3
      <3>4. QED
        BY <3>1, <3>2, <3>3
    <2>2. QED
      BY <1>3, <2>1 DEF CapturedSoFar, AllAccepted
  <1>4. CASE d.ok
    <2>1. c.ok /\ ~Rejects(f, v)
      <3>1. c.ok
        BY <1>4 DEF CaptureField
      <3>2. ASSUME Rejects(f, v) PROVE FALSE
        <4>1. d = [c EXCEPT !.ok = FALSE]
          BY <3>1, <3>2 DEF CaptureField
        <4>2. QED
          BY <1>4, <4>1 DEF Captures
      <3>3. QED
        BY <3>1, <3>2
    <2>2. CASE f.type # "password"
      <3>1. d = inStore
        BY <2>1, <2>2 DEF CaptureField, inStore
      <3>2. /\ Accepted(d.store, OpenFields) /\ DOMAIN d.store = DOMAIN c.store \cup {f.key}
            /\ d.secrets = c.secrets
        <4>1. Accepted(c.store, OpenFields) /\ f \in OpenFields
          BY <2>2 DEF CapturedSoFar, AllAccepted, OpenFields
        <4>2. /\ Accepted(SetAnswer(c.store, f.key, v), OpenFields)
              /\ DOMAIN SetAnswer(c.store, f.key, v) = DOMAIN c.store \cup {f.key}
          BY <2>1, <4>1, AcceptedAdds
        <4>3. QED
          BY <1>2, <3>1, <4>2
      <3>3. \A key : (\A g \in Range(Fields(page)) : key # g.key) =>
                       Answer(d.store, key) = Answer(store, key)
        BY <1>2, <3>1, OtherAnswers DEF CapturedSoFar
      <3>4. \A m \in 1..n : Answered(shown[m], d)
        BY <1>1, <2>1, <2>2, <3>2 DEF CapturedSoFar, Answered, KeptIn
      <3>5. QED
        BY <3>2, <3>3, <3>4 DEF CapturedSoFar, AllAccepted
    <2>3. CASE f.type = "password"
      <3>1. \/ f.key \in DOMAIN c.secrets
            \/ Cardinality(DOMAIN c.secrets) < MaxSecrets
        BY <2>3, RoomForSecret DEF CapturedSoFar
      <3>2. d = inSecrets
        BY <2>1, <2>3, <3>1 DEF CaptureField, inSecrets
      <3>3. /\ Accepted(d.secrets, SecretFields)
            /\ DOMAIN d.secrets = DOMAIN c.secrets \cup {f.key}
            /\ d.store = c.store
        <4>1. Accepted(c.secrets, SecretFields) /\ f \in SecretFields
          BY <2>3 DEF CapturedSoFar, AllAccepted, SecretFields
        <4>2. /\ Accepted(SetAnswer(c.secrets, f.key, v), SecretFields)
              /\ DOMAIN SetAnswer(c.secrets, f.key, v) = DOMAIN c.secrets \cup {f.key}
          BY <2>1, <4>1, AcceptedAdds
        <4>3. QED
          BY <1>2, <3>2, <4>2
      <3>4. \A m \in 1..n : Answered(shown[m], d)
        BY <1>1, <2>1, <2>3, <3>3 DEF CapturedSoFar, Answered, KeptIn
      <3>5. QED
        BY <3>3, <3>4 DEF CapturedSoFar, AllAccepted
    <2>4. QED
      BY <2>2, <2>3
  <1>5. QED
    BY <1>3, <1>4

\* A whole page.
LEMMA CaptureKeeps ==
  ASSUME OrderInv, TypeOK, WizardInv, AsksWell(bp), AnswerInv, page \in StagePages,
         NEW typed \in [1..Len(shown) -> Values]
  PROVE  CapturedSoFar(Capture(typed), Len(shown))
  <1> DEFINE N == Len(shown)
             inv == [n \in 0..N |-> {c \in Captures : CapturedSoFar(c, n)}]
  <1>1. N \in Nat /\ shown \in Seq(AllFields)
    BY DEF WizardInv
  <1>2. PICK after : /\ after \in [0..N -> Captures]
                     /\ after[0] = Nothing
                     /\ \A n \in 1..N :
                          after[n] = CaptureField(after[n - 1], shown[n], typed[n])
                     /\ Capture(typed) = after[N]
    BY CaptureLoop DEF WizardInv
  <1>3. \A n \in 1..N : /\ n \in 0..N /\ n - 1 \in 0..N /\ n \in Nat \ {0}
                        /\ shown[n] \in Range(Fields(page))
    <2>1. \A n \in 1..N : shown[n] \in Range(shown) /\ shown # << >>
      BY <1>1 DEF Range
    <2>2. QED
      BY <1>1, <2>1 DEF TypeOK
  <1>4. after[0] \in inv[0]
    <2>1. CapturedSoFar(Nothing, 0)
      BY DEF CapturedSoFar, Nothing, AnswerInv
    <2>2. QED
      BY <1>1, <1>2, <2>1
  <1>5. \A n \in 1..N : after[n - 1] \in inv[n - 1] => after[n] \in inv[n]
    <2> SUFFICES ASSUME NEW n \in 1..N, after[n - 1] \in inv[n - 1]
                 PROVE  after[n] \in inv[n]
      OBVIOUS
    <2>1. after[n - 1] \in Captures /\ CapturedSoFar(after[n - 1], n - 1)
      BY <1>3
    <2>2. shown[n] \in AskedFields(bp)
      BY <1>3, PageStages
    <2>3. CapturedSoFar(CaptureField(after[n - 1], shown[n], typed[n]), n)
      BY <1>3, <2>1, <2>2, CaptureKeepsField
    <2>4. after[n] \in Captures /\ CapturedSoFar(after[n], n)
      BY <1>2, <1>3, <2>3
    <2>5. QED
      BY <1>3, <2>4
  <1> HIDE DEF inv
  <1>6. after[N] \in inv[N]
    BY <1>1, <1>4, <1>5, LoopStays
  <1>7. QED
    BY <1>1, <1>2, <1>6 DEF inv

\* Turning a page without new answers.
LEMMA AnswersAndPages ==
  ASSUME OrderInv, AsksWell(bp), AnswerInv, UNCHANGED <<orderVars, store, secrets>>,
         \A p \in StagePages : p < page' => p < page,
         page' \in StagePages => \/ shown' = Rendered(page', store)
                                 \/ UNCHANGED <<page, shown>>
  PROVE  AnswerInv'
  <1>1. /\ StagePages' = StagePages /\ bp' = bp /\ store' = store /\ Nothing' = Nothing
        /\ \A p : Fields(p)' = Fields(p)
    BY DEF orderVars, StagePages, NStages, Fields, Nothing
  <1>2. AllAccepted(Nothing)'
    BY <1>1 DEF AnswerInv, AllAccepted, Accepted, OpenFields, SecretFields
  <1>3. BehindAnswered'
    BY <1>1 DEF AnswerInv, BehindAnswered, Answered, KeptIn
  <1>4. PageComplete'
    <2>1. Fields(page)' = Fields(page')
      BY DEF orderVars, Fields
    <2>2. CASE page' \notin StagePages
      BY <1>1, <2>2 DEF PageComplete
    <2>3. CASE UNCHANGED <<page, shown>>
      BY <1>1, <2>3 DEF AnswerInv, PageComplete
    <2>4. CASE page' \in StagePages /\ shown' = Rendered(page', store)
      <3>1. \A f \in Range(Fields(page')) :
              Holds(f.when, store) => f \in Range(shown') \/ MayStayEmpty(f)
        BY <2>4, NothingMissing
      <3>2. QED
        BY <1>1, <2>1, <3>1 DEF PageComplete
    <2>5. QED
      BY <2>2, <2>3, <2>4
  <1>5. QED
    BY <1>2, <1>3, <1>4 DEF AnswerInv

\* Next on a stage's page.
LEMMA AnswersAndNext ==
  ASSUME OrderInv, TypeOK, WizardInv, AsksWell(bp), AnswerInv, NextStage
  PROVE  AnswerInv'
  <1>1. PICK typed \in [1..Len(shown) -> Values] :
          /\ store' = Capture(typed).store /\ secrets' = Capture(typed).secrets
          /\ IF Capture(typed).ok THEN GoTo(page + 1)
                                  ELSE UNCHANGED <<root, page, shown>>
    BY DEF NextStage
  <1> DEFINE c == Capture(typed)
  <1>2. page \in StagePages /\ UNCHANGED orderVars
    BY DEF NextStage
  <1>3. CapturedSoFar(c, Len(shown))
    BY <1>2, CaptureKeeps
  <1>4. /\ StagePages' = StagePages /\ bp' = bp /\ \A p : Fields(p)' = Fields(p)
        /\ StagePages = 1..NStages /\ NStages \in Nat
    BY <1>2, PageNumbers DEF orderVars, StagePages, NStages, Fields, OrderInv
  <1> HIDE DEF c
  <1>5. store' = c.store /\ Nothing'.store = c.store /\ Nothing'.secrets = c.secrets
    BY <1>1 DEF c, Nothing
  <1>6. AllAccepted(Nothing)'
    BY <1>3, <1>4, <1>5 DEF CapturedSoFar, AllAccepted, Accepted, OpenFields,
                            SecretFields
  <1>7. \A p \in StagePages : p <= page =>
          \A f \in Range(Fields(p)) : Holds(f.when, store') => Holds(f.when, store)
    BY <1>2, <1>3, <1>5, SameWhen DEF CapturedSoFar
  <1>8. \A f : Answered(f, Nothing) \/ Answered(f, c) => Answered(f, Nothing')
    BY <1>3, <1>5 DEF CapturedSoFar, Answered, KeptIn, Nothing
  <1>9. \A p \in StagePages : p < page =>
          \A f \in Range(Fields(p)) :
            Holds(f.when, store') => Answered(f, Nothing') \/ MayStayEmpty(f)
    <2>1. \A p \in StagePages : p < page => p <= page
      BY <1>2, <1>4
    <2>2. QED
      BY <1>7, <1>8, <2>1 DEF AnswerInv, BehindAnswered
  <1>10. \A f \in Range(Fields(page)) :
           Holds(f.when, store') => f \in Range(shown) \/ MayStayEmpty(f)
    <2>1. page <= page
      BY <1>2, <1>4
    <2>2. QED
      BY <1>2, <1>7, <2>1 DEF AnswerInv, PageComplete
  <1>11. \A f : Answered(f, Nothing)' <=> Answered(f, Nothing')
    BY DEF Answered, KeptIn
  <1>12. CASE ~c.ok
    <2>1. page' = page /\ shown' = shown
      BY <1>1, <1>12 DEF c
    <2>2. Fields(page)' = Fields(page)
      BY <1>2, <2>1 DEF orderVars, Fields
    <2>3. BehindAnswered'
      BY <1>4, <1>9, <1>11, <2>1 DEF BehindAnswered
    <2>4. PageComplete'
      BY <1>10, <2>1, <2>2 DEF PageComplete
    <2>5. QED
      BY <1>6, <2>3, <2>4 DEF AnswerInv
  <1>13. CASE c.ok
    <2>1. page' = page + 1 /\ shown' = Rendered(page + 1, store')
      BY <1>1, <1>13 DEF c, GoTo
    <2>2. \A f \in Range(Fields(page)) :
            Holds(f.when, store') => Answered(f, Nothing') \/ MayStayEmpty(f)
      <3> SUFFICES ASSUME NEW f \in Range(Fields(page)), f \in Range(shown)
                   PROVE  Answered(f, Nothing')
        BY <1>10
      <3>1. PICK m \in 1..Len(shown) : f = shown[m]
        BY DEF Range, WizardInv
      <3>2. QED
        BY <1>3, <1>8, <1>13, <3>1 DEF CapturedSoFar
    <2>3. \A p \in StagePages : p < page + 1 => p < page \/ p = page
      BY <1>2, <1>4
    <2>4. BehindAnswered'
      BY <1>4, <1>9, <1>11, <2>1, <2>2, <2>3 DEF BehindAnswered
    <2>5. PageComplete'
      <3>1. Fields(page)' = Fields(page + 1)
        BY <1>2, <2>1 DEF orderVars, Fields
      <3>2. page + 1 \in StagePages =>
              \A f \in Range(Fields(page + 1)) :
                Holds(f.when, store') => f \in Range(shown') \/ MayStayEmpty(f)
        BY <2>1, NothingMissing
      <3>3. QED
        BY <1>4, <2>1, <3>1, <3>2 DEF PageComplete
    <2>6. QED
      BY <1>6, <2>4, <2>5 DEF AnswerInv
  <1>14. QED
    BY <1>12, <1>13

\* Every step.
LEMMA AnswersAreKept ==
  ASSUME OrderInv, OrderInv', TypeOK, WizardInv, AsksWell(bp), AnswerInv,
         [Next]_vars
  PROVE  AnswerInv'
  <1>1. /\ StagePages = 1..NStages /\ NStages \in Nat
        /\ PageConfirm = NStages + 1 /\ PageProgress = NStages + 2
        /\ PageDone = NStages + 3 /\ page \in 0..PageDone
    BY PageNumbers DEF OrderInv, TypeOK
  <1>2. CASE Ordering
    <2>1. page' = 0 /\ UNCHANGED <<store, secrets>> /\ bp' = bp
      BY <1>2 DEF Ordering, OrderNext, BeginPass, Return, Take, Skip, EndPass,
                  WizardInv, pageVars
    <2>2. StagePages' = 1..NStages' /\ NStages' \in Nat
      BY DEF OrderInv, OrderTypeOK, StagePages, NStages
    <2>3. page' \notin StagePages' /\ \A p \in StagePages' : ~(p < page')
      BY <2>1, <2>2
    <2>4. AllAccepted(Nothing)'
      BY <2>1 DEF AnswerInv, AllAccepted, Accepted, OpenFields, SecretFields, Nothing
    <2>5. QED
      BY <2>3, <2>4 DEF AnswerInv, BehindAnswered, PageComplete
  <1>3. CASE NextStage
    BY <1>3, AnswersAndNext
  <1>4. CASE UNCHANGED <<orderVars, store, secrets, page, shown>>
    BY <1>4, AnswersAndPages
  <1>5. CASE NextWelcome
    <2>1. page' = 1 /\ shown' = Rendered(1, store) /\ UNCHANGED <<orderVars, store, secrets>>
      BY <1>5 DEF NextWelcome, GoTo
    <2>2. \A p \in StagePages : ~(p < 1)
      BY <1>1
    <2>3. QED
      BY <2>1, <2>2, AnswersAndPages
  <1>6. CASE Back
    <2>1. /\ page' = page - 1 /\ shown' = Rendered(page - 1, store)
          /\ UNCHANGED <<orderVars, store, secrets>>
      BY <1>6 DEF Back, GoTo
    <2>2. \A p \in StagePages : p < page - 1 => p < page
      BY <1>1
    <2>3. QED
      BY <2>1, <2>2, AnswersAndPages
  <1>7. CASE /\ page \in {PageConfirm, PageProgress}
             /\ page' \in {PageProgress, PageDone}
             /\ UNCHANGED <<orderVars, store, secrets>>
    <2>1. page' \notin StagePages /\ \A p \in StagePages : p < page
      BY <1>1, <1>7
    <2>2. QED
      BY <1>7, <2>1, AnswersAndPages
  <1>8. CASE StartApply \/ StartFails \/ StartMock
    BY <1>7, <1>8 DEF StartApply, StartFails, StartMock, EnterProgress
  <1>9. CASE MockDone
    BY <1>7, <1>9 DEF MockDone, WizardInv
  <1>10. CASE PollLine
    <2>1. timer = "poll" /\ UNCHANGED orderVars
      BY <1>10 DEF PollLine
    <2>2. CASE UNCHANGED pageVars
      BY <1>4, <2>1, <2>2 DEF pageVars
    <2>3. CASE FinishOk
      BY <1>7, <2>1, <2>3 DEF FinishOk, WizardInv
    <2>4. QED
      BY <1>10, <2>2, <2>3, PollLineCases DEF FinishSnag
  <1>11. CASE PollEof
    BY <1>4, <1>11 DEF PollEof, FinishSnag, pageVars
  <1>12. CASE Show \/ Continue \/ ChildStep \/ UNCHANGED vars
    BY <1>4, <1>12 DEF Show, Continue, ChildStep, vars, pageVars
  <1>13. QED
    BY <1>2, <1>3, <1>5, <1>6, <1>8, <1>9, <1>10, <1>11, <1>12 DEF Next, Poll

\* An answer that was accepted, or that may be missing, is not rejected.
LEMMA AcceptedIsEnough ==
  ASSUME OrderInv, AsksWell(bp), AnswerInv
  PROVE  AnsweredSoFar
  <1> SUFFICES ASSUME NEW p \in StagePages, p < page,
                      NEW f \in Range(Fields(p)), Holds(f.when, store)
               PROVE  ~Rejects(f, Answer(IF f.type = "password" THEN secrets
                                                               ELSE store, f.key))
    BY DEF AnsweredSoFar
  <1> DEFINE ans == IF f.type = "password" THEN secrets ELSE store
  <1>1. f \in AskedFields(bp) /\ ans = KeptIn(f, Nothing)
    BY PageStages DEF KeptIn, Nothing
  <1>2. CASE f.key \in DOMAIN ans
    <2>1. PICK g \in AskedFields(bp) : g.key = f.key /\ ~Rejects(g, ans[f.key])
      BY <1>2 DEF AnswerInv, AllAccepted, Accepted, OpenFields, SecretFields, Nothing
    <2>2. g = f
      BY <1>1, <2>1, OneFieldPerKey
    <2>3. Answer(ans, f.key) = ans[f.key]
      BY <1>2, Zenon DEF Answer
    <2>4. QED
      BY <2>1, <2>2, <2>3
  <1>3. CASE f.key \notin DOMAIN ans
    <2>1. MayStayEmpty(f)
      BY <1>1, <1>3 DEF AnswerInv, BehindAnswered, Answered
    <2>2. ~Rejects(f, Answer(ans, f.key))
      BY <1>3, <2>1, Zenon DEF MayStayEmpty, Answer
    <2>3. QED
      BY <2>2
  <1>4. QED
    BY <1>2, <1>3

\* Whatever way Back and Next are pressed, the pages behind this one are
\* answered as they would be asked now, for every blueprint that asks well.
THEOREM PagesBehindAreAnswered == Spec => [](AsksWell(bp) => AnsweredSoFar)
  <1>1. OrderInv /\ AsksWell(bp) /\ AnswerInv => AnsweredSoFar
    BY AcceptedIsEnough
  <1>2. Init => AnswerInv
    <2> SUFFICES ASSUME Init PROVE AnswerInv
      OBVIOUS
    <2>1. /\ page = 0 /\ DOMAIN Nothing.store = {} /\ DOMAIN Nothing.secrets = {}
      BY DEF Init, WizardInit, Nothing, Empty
    <2>2. \A p \in StagePages : p \in 1..NStages
      BY DEF StagePages
    <2>3. page \notin StagePages /\ \A p \in StagePages : ~(p < page)
      BY <2>1, <2>2, InitOrderInv, PageNumbers DEF Init, OrderInv
    <2>4. QED
      BY <2>1, <2>3 DEF AnswerInv, AllAccepted, Accepted, BehindAnswered, PageComplete
  <1>3. OrderInv /\ OrderInv' /\ TypeOK /\ WizardInv /\ (AsksWell(bp) => AnswerInv)
          /\ [Next]_vars => (AsksWell(bp) => AnswerInv)'
    <2> SUFFICES ASSUME OrderInv, OrderInv', TypeOK, WizardInv,
                        AsksWell(bp) => AnswerInv, [Next]_vars, AsksWell(bp')
                 PROVE  AnswerInv'
      BY DEF AsksWell, AskedStages, AskedFields, AskedSecrets, ComesBefore
    <2>1. bp' = bp
      BY DEF Next, vars, orderVars, Ordering, OrderNext, BeginPass, Return, Take,
             Skip, EndPass, Show, NextWelcome, NextStage, Back, StartApply,
             StartFails, StartMock, EnterProgress, MockDone, Poll, PollLine,
             PollEof, Continue, ChildStep
    <2>2. QED
      BY <2>1, AnswersAreKept
  <1>4. Spec => []OrderInv
    BY WizardOrders, OrderInvCorrect, PTL
  <1>5. QED
    BY <1>1, <1>2, <1>3, <1>4, WizardTypes, PTL DEF Spec
=============================================================================
