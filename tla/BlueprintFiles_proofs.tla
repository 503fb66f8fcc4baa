------------------------- MODULE BlueprintFiles_proofs -------------------------
(***************************************************************************)
(* Proofs about the files blueprint.c keeps, for every number of versions  *)
(* on the mirror and every set of answers: what is used was verified, and  *)
(* what was saved is whole.                                                *)
(***************************************************************************)
EXTENDS BlueprintFiles, TLAPS

-----------------------------------------------------------------------------
(* The inductive invariants. *)

\* During a call the mirror has what it had when the call began, or newer; a
\* data file that was downloaded is no older either, though its signature may
\* be; and nothing reaches the caller's use that does not verify.
FetchInv ==
  /\ at # "idle" => mirror.data >= since
  /\ at \in {"sig", "verify", "use"} => /\ data[caller] \in Versions
                                        /\ data[caller] >= since
  /\ at = "use" => Verified

\* When nothing is lost on the way to the disk, the file that is about to be
\* renamed is the store that was to be saved.
SaveInv ==
  /\ save.step # "idle" => save.store \in Answers
  /\ save.step = "rename" => tmp = save.store
  /\ SavedIsWhole

-----------------------------------------------------------------------------
(* Types.  That a page uses no torn file is part of FetchInv, so the types   *)
(* are inductive only with it.                                             *)

LEMMA InitType == Init => TypeOK
  <1> SUFFICES ASSUME Init PROVE TypeOK
    OBVIOUS
  <1>1. 1 \in Versions
    BY FilesAssumption DEF Versions
  <1>2. QED
    BY <1>1 DEF Init, TypeOK, Callers, NotSaving

LEMMA PublishType ==
  ASSUME TypeOK, Publish
  PROVE  TypeOK'
  <1>1. mirror.data \in Versions /\ mirror.sig \in Versions
    BY DEF TypeOK
  <1>2. mirror.data < MaxVersion => mirror.data + 1 \in Versions
    BY <1>1, FilesAssumption DEF Versions
  <1>3. mirror' \in [data : Versions, sig : Versions]
    BY <1>1, <1>2 DEF Publish, TypeOK
  <1>4. QED
    BY <1>3 DEF TypeOK, Publish, fetchVars, useVars, saveVars

\* The call of bp_fetch_verify and what the two callers do with its answer.
LEMMA FetchType ==
  ASSUME TypeOK, FetchInv,
         \/ Options \/ OptionsCached \/ OobeShow
         \/ FetchData \/ FetchSig \/ Verify \/ UseFlavors \/ UseBlueprint
  PROVE  TypeOK'
  <1>1. mirror.data \in Versions /\ mirror.sig \in Versions
    BY DEF TypeOK
  <1>2. CASE Options \/ OptionsCached \/ OobeShow
    BY <1>1, <1>2 DEF TypeOK, Options, OptionsCached, OobeShow, Begin, Callers,
                      fetchVars, useVars, saveVars
  <1>3. CASE FetchData
    BY <1>1, <1>3 DEF TypeOK, FetchData, GiveUp, useVars, saveVars
  <1>4. CASE FetchSig
    BY <1>1, <1>4 DEF TypeOK, FetchSig, GiveUp, useVars, saveVars
  <1>5. CASE Verify
    BY <1>5 DEF TypeOK, Verify, GiveUp, useVars, saveVars
  <1>6. CASE UseFlavors \/ UseBlueprint
    <2>1. data[caller] \in Versions
      BY <1>6 DEF UseFlavors, UseBlueprint, FetchInv
    <2>2. QED
      BY <1>6, <2>1 DEF TypeOK, UseFlavors, UseBlueprint, GiveUp, saveVars
  <1>7. QED
    BY <1>2, <1>3, <1>4, <1>5, <1>6

LEMMA SaveType ==
  ASSUME TypeOK, (\E store \in Answers : SaveOpen(store)) \/ SaveWrite \/ SaveRename
  PROVE  TypeOK'
  BY DEF TypeOK, SaveOpen, SaveWrite, SaveRename, NotSaving, fetchVars, useVars

-----------------------------------------------------------------------------
(* Fetching and verifying. *)

LEMMA CallInv ==
  ASSUME TypeOK, FetchInv,
         \/ Options \/ OptionsCached \/ OobeShow
         \/ FetchData \/ FetchSig \/ Verify \/ UseFlavors \/ UseBlueprint
  PROVE  FetchInv'
  <1>1. mirror.data \in Versions /\ Versions \subseteq Nat
    BY FilesAssumption DEF TypeOK, Versions
  <1>2. CASE Options \/ OptionsCached \/ OobeShow
    <2>1. CASE OptionsCached
      BY <2>1 DEF OptionsCached, FetchInv, Verified, fetchVars
    <2>2. CASE Options \/ OobeShow
      <3>1. at' = "data" /\ since' = mirror.data /\ mirror' = mirror
        BY <2>2 DEF Options, OobeShow, Begin
      <3>2. \A n \in Nat : n >= n
        OBVIOUS
      <3>3. QED
        BY <1>1, <3>1, <3>2 DEF FetchInv
    <2>3. QED
      BY <1>2, <2>1, <2>2
  <1>3. CASE FetchData
    <2>1. CASE GiveUp
      BY <1>3, <2>1 DEF GiveUp, FetchInv
    <2>2. CASE data' = [data EXCEPT ![caller] = mirror.data] /\ at' = "sig"
               /\ UNCHANGED <<caller, since, useVars>>
      BY <1>1, <1>3, <2>2 DEF FetchData, FetchInv, TypeOK
    <2>3. QED
      BY <1>3, <2>1, <2>2 DEF FetchData
  <1>4. CASE FetchSig
    BY <1>4 DEF FetchSig, GiveUp, FetchInv
  <1>5. CASE Verify
    BY <1>5 DEF Verify, GiveUp, FetchInv, Verified
  <1>6. CASE UseFlavors \/ UseBlueprint
    BY <1>6 DEF UseFlavors, UseBlueprint, GiveUp, FetchInv
  <1>7. QED
    BY <1>2, <1>3, <1>4, <1>5, <1>6

LEMMA FilesInductive ==
  ASSUME TypeOK, FetchInv, [Next]_vars
  PROVE  TypeOK' /\ FetchInv'
  <1>1. CASE Publish
    <2>1. mirror.data \in Nat /\ since \in Nat /\ mirror'.data >= mirror.data
      BY <1>1, FilesAssumption DEF Publish, TypeOK, Versions
    <2>2. mirror'.data \in Nat
      BY <1>1, <2>1 DEF Publish, TypeOK
    <2>3. mirror.data >= since => mirror'.data >= since
      BY <2>1, <2>2
    <2>4. FetchInv'
      BY <1>1, <2>3 DEF Publish, FetchInv, Verified, fetchVars
    <2>5. QED
      BY <1>1, <2>4, PublishType
  <1>2. CASE \/ Options \/ OptionsCached \/ OobeShow
             \/ FetchData \/ FetchSig \/ Verify \/ UseFlavors \/ UseBlueprint
    BY <1>2, FetchType, CallInv
  <1>3. CASE (\E store \in Answers : SaveOpen(store)) \/ SaveWrite \/ SaveRename
    <2>1. UNCHANGED <<mirror, key, fetchVars>>
      BY <1>3 DEF SaveOpen, SaveWrite, SaveRename
    <2>2. FetchInv'
      BY <2>1 DEF FetchInv, Verified, fetchVars
    <2>3. QED
      BY <1>3, <2>2, SaveType
  <1>4. CASE Restart
    BY <1>4 DEF Restart, TypeOK, FetchInv, NotSaving
  <1>5. CASE UNCHANGED vars
    BY <1>5 DEF TypeOK, FetchInv, Verified, vars, fetchVars, useVars, saveVars
  <1>6. QED
    BY <1>1, <1>2, <1>3, <1>4, <1>5 DEF Next

\* Whatever the mirror publishes meanwhile and whichever download fails: the
\* files have their types and a call keeps what it has found out.
THEOREM FilesCorrect == Spec => [](TypeOK /\ FetchInv)
  <1>1. Init => FetchInv
    BY DEF Init, FetchInv
  <1>2. QED
    BY <1>1, InitType, FilesInductive, PTL DEF Spec

\* What a page gets to use is a whole file with its own signature, and one
\* that was on the mirror during the call.
THEOREM VerifiedIsUsed == Spec => OnlyVerifiedIsUsed
  <1>1. TypeOK /\ FetchInv /\ [Next]_vars =>
          [/\ flavors' \notin {flavors, NoFile} => Verified /\ flavors' >= since
           /\ blueprint' \notin {blueprint, NoFile} => Verified /\ blueprint' >= since]_vars
    <2> SUFFICES ASSUME TypeOK, FetchInv, [Next]_vars
                 PROVE  /\ flavors' \notin {flavors, NoFile}
                              => Verified /\ flavors' >= since
                        /\ blueprint' \notin {blueprint, NoFile}
                              => Verified /\ blueprint' >= since
      OBVIOUS
    <2>1. \/ UseFlavors \/ UseBlueprint
          \/ /\ flavors' \in {flavors, NoFile}
             /\ blueprint' \in {blueprint, NoFile}
      BY DEF Next, Publish, Options, OptionsCached, OobeShow, Begin, FetchData,
             FetchSig, Verify, GiveUp, SaveOpen, SaveWrite, SaveRename, Restart,
             vars, useVars
    <2>2. CASE UseFlavors
      BY <2>2 DEF UseFlavors, GiveUp, FetchInv
    <2>3. CASE UseBlueprint
      BY <2>3 DEF UseBlueprint, FetchInv
    <2>4. QED
      BY <2>1, <2>2, <2>3
  <1>2. QED
    BY <1>1, FilesCorrect, PTL DEF Spec, OnlyVerifiedIsUsed

-----------------------------------------------------------------------------
(* Saving. *)

\* The steps of the save, and the end of the program between any two of them.
LEMMA SaveInductive ==
  ASSUME ~DiskMayFill, SaveInv, [Next]_vars
  PROVE  SaveInv'
  <1>1. CASE \E store \in Answers : SaveOpen(store)
    BY <1>1 DEF SaveOpen, SaveInv, SavedIsWhole
  <1>2. CASE SaveWrite
    BY <1>2 DEF SaveWrite, SaveInv, SavedIsWhole
  <1>3. CASE SaveRename
    <2>1. save.store \in Answers /\ tmp = save.store
      BY <1>3 DEF SaveRename, SaveInv
    <2>2. tmp # Torn
      BY <2>1, FilesAssumption
    <2>3. QED
      BY <1>3, <2>2 DEF SaveRename, SaveInv, SavedIsWhole, NotSaving
  <1>4. CASE Restart
    BY <1>4 DEF Restart, SaveInv, SavedIsWhole, NotSaving
  <1>5. CASE UNCHANGED saveVars
    BY <1>5 DEF saveVars, SaveInv, SavedIsWhole
  <1>6. QED
    BY <1>1, <1>2, <1>3, <1>4, <1>5
    DEF Next, Publish, Options, OptionsCached, OobeShow, Begin, FetchData, FetchSig,
        Verify, UseFlavors, UseBlueprint, vars

\* Wherever the program is ended, the answers file is absent or wholly one
\* store, on a disk that takes what is written.
THEOREM AnswersAreWhole == ~DiskMayFill => (Spec => []SavedIsWhole)
  <1> SUFFICES ASSUME ~DiskMayFill PROVE Spec => []SavedIsWhole
    OBVIOUS
  <1>1. Init => SaveInv
    BY FilesAssumption DEF Init, SaveInv, SavedIsWhole, NotSaving
  <1>2. SaveInv => SavedIsWhole
    BY DEF SaveInv
  <1>3. SaveInv /\ [Next]_vars => SaveInv'
    BY SaveInductive
  <1>4. QED
    BY <1>1, <1>2, <1>3, PTL DEF Spec
=============================================================================
