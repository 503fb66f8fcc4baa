---------------------------- MODULE BlueprintFiles ----------------------------
(***************************************************************************)
(* The files blueprint.c keeps: a signed file and its signature, which     *)
(* bp_fetch_verify downloads in two requests, and the answers, which       *)
(* bp_answers_save writes beside the old ones and renames.  The callers    *)
(* are the options page (prp_wizard.c, the list of flavors) and the start  *)
(* of the first-boot wizard (oobe_wizard.c, configure.toml).  The mirror   *)
(* publishes a file and its signature one after the other.                 *)
(***************************************************************************)
EXTENDS Naturals, FiniteSets

CONSTANTS
  MaxVersion,   \* bound: how often the mirror is updated
  Bare,         \* the versions whose index lists no flavor
  Answers,      \* stores that can be saved
  NoFile,       \* a file that is not there
  Torn,         \* a file that was cut short
  DiskMayFill   \* may a write of the answers be lost?

ASSUME FilesAssumption ==
  /\ MaxVersion \in Nat \ {0} /\ Bare \subseteq Nat
  /\ DiskMayFill \in BOOLEAN
  /\ NoFile # Torn
  /\ {NoFile, Torn} \cap (Nat \cup Answers) = {}

VARIABLES
  mirror,        \* the versions of the published file and of its signature
  key,           \* is the public key on this system?
  at,            \* where bp_fetch_verify or its caller is; "idle": in LVGL
  caller,        \* "flavors" (render_options) or "configure" (prp_oobe_show)
  since,         \* (ghost) the version published when the call began
  data, sig,     \* per caller, the files at out_path and out_path.sig
  flavors,       \* W.flavors_buf: the version it comes from, or NoFile
  offered,       \* the list of the dropdown: a version, or NoFile: cfg.flavors
  blueprint,     \* W.bp of the first-boot wizard, or NoFile: no stages
  save,          \* what bp_answers_save has still to do
  tmp, answers   \* <path>.tmp and <path>

fetchVars == <<at, caller, since, data, sig>>
useVars == <<flavors, offered, blueprint>>
saveVars == <<save, tmp, answers>>
vars == <<mirror, key, fetchVars, useVars, saveVars>>

Versions == 1..MaxVersion
Callers == {"flavors", "configure"}
NotSaving == [step |-> "idle", store |-> NoFile]

Init == /\ mirror = [data |-> 1, sig |-> 1]
        /\ key \in BOOLEAN
        /\ at = "idle" /\ caller = "flavors" /\ since = 1
        /\ data = [c \in Callers |-> NoFile]
        /\ sig = [c \in Callers |-> NoFile]
        /\ flavors = NoFile /\ offered = NoFile /\ blueprint = NoFile
        /\ save = NotSaving /\ tmp = NoFile /\ answers = NoFile

-----------------------------------------------------------------------------
(* The mirror. *)

Publish == /\ \/ /\ mirror.data = mirror.sig /\ mirror.data < MaxVersion
                 /\ mirror' = [mirror EXCEPT !.data = @ + 1]
              \/ /\ mirror.sig < mirror.data
                 /\ mirror' = [mirror EXCEPT !.sig = mirror.data]
           /\ UNCHANGED <<key, fetchVars, useVars, saveVars>>

-----------------------------------------------------------------------------
(* Fetching and verifying.  Each download is a child that is waited for.   *)

Idle == at = "idle" /\ save = NotSaving

Begin(c) == /\ at' = "data" /\ caller' = c /\ since' = mirror.data
            /\ UNCHANGED <<mirror, key, data, sig, saveVars>>

\* render_options, with a base URL: fetched until it succeeds once.
Options == /\ Idle /\ flavors = NoFile
           /\ Begin("flavors")
           /\ UNCHANGED useVars

OptionsCached == /\ Idle /\ flavors # NoFile
                 /\ offered' = flavors
                 /\ UNCHANGED <<mirror, key, fetchVars, flavors, blueprint,
                                saveVars>>

\* prp_oobe_show, with a base URL and a key.
OobeShow == /\ Idle
            /\ Begin("configure")
            /\ blueprint' = NoFile
            /\ UNCHANGED <<flavors, offered>>

\* What the caller does with -1: the built-in list, no stages.
GiveUp == /\ at' = "idle"
          /\ offered' = IF caller = "flavors" THEN NoFile ELSE offered
          /\ UNCHANGED <<caller, since, flavors, blueprint>>

\* curl, or wget where there is no curl; a failed one may leave a part.
FetchData ==
  /\ at = "data"
  /\ \/ /\ data' = [data EXCEPT ![caller] = mirror.data]
        /\ at' = "sig"
        /\ UNCHANGED <<caller, since, useVars>>
     \/ /\ data' \in {data, [data EXCEPT ![caller] = Torn]}
        /\ GiveUp
  /\ UNCHANGED <<mirror, key, sig, saveVars>>

\* (mutant of FetchSig) a signature that is there will do
FetchSigOrOld ==
  /\ at = "sig"
  /\ \/ /\ sig' = [sig EXCEPT ![caller] = mirror.sig]
        /\ at' = "verify"
        /\ UNCHANGED <<caller, since, useVars, data>>
     \/ /\ sig[caller] # NoFile
        /\ at' = "use"
        /\ UNCHANGED <<sig, caller, since, useVars, data>>
  /\ UNCHANGED <<mirror, key, saveVars>>

FetchSig ==
  /\ at = "sig"
  /\ \/ /\ sig' = [sig EXCEPT ![caller] = mirror.sig]
        /\ at' = "verify"
        /\ UNCHANGED <<caller, since, useVars>>
     \/ /\ sig' \in {sig, [sig EXCEPT ![caller] = Torn]}
        /\ GiveUp
  /\ UNCHANGED <<mirror, key, data, saveVars>>

\* bp_verify_file: a readable key, a whole signature blob by that key, and the
\* data it was made for.
Verified == key /\ sig[caller] \in Versions /\ data[caller] = sig[caller]

Verify ==
  /\ at = "verify"
  /\ IF Verified
     THEN /\ at' = "use"
          /\ UNCHANGED <<data, caller, since, useVars>>
     ELSE /\ data' = [data EXCEPT ![caller] = NoFile]
          /\ GiveUp
  /\ UNCHANGED <<mirror, key, sig, saveVars>>

\* The rest of bp_fetch_flavors; an index that lists nothing is a failure.
UseFlavors ==
  /\ at = "use" /\ caller = "flavors"
  /\ IF data[caller] \in Bare
     THEN GiveUp
     ELSE /\ at' = "idle"
          /\ flavors' = data[caller] /\ offered' = data[caller]
          /\ UNCHANGED <<caller, since, blueprint>>
  /\ UNCHANGED <<mirror, key, data, sig, saveVars>>

\* bp_load of the verified file.
UseBlueprint ==
  /\ at = "use" /\ caller = "configure"
  /\ at' = "idle"
  /\ blueprint' = data[caller]
  /\ UNCHANGED <<mirror, key, caller, since, data, sig, flavors, offered,
                 saveVars>>

-----------------------------------------------------------------------------
(* bp_answers_save. *)

\* (mutant of SaveOpen) the answers are written in place
SaveOpenInPlace(store) ==
  /\ Idle
  /\ tmp' = Torn /\ answers' = Torn
  /\ save' = [step |-> "write", store |-> store]
  /\ UNCHANGED <<mirror, key, fetchVars, useVars>>

\* fopen(tmp, "w"); where it fails nothing happens, and the caller does not look.
SaveOpen(store) ==
  /\ Idle
  /\ tmp' = Torn
  /\ save' = [step |-> "write", store |-> store]
  /\ UNCHANGED <<mirror, key, fetchVars, useVars, answers>>

\* The fprintfs and fclose, none of them checked.
SaveWrite ==
  /\ save.step = "write"
  /\ \/ tmp' = save.store
     \/ DiskMayFill /\ tmp' = Torn
  /\ save' = [save EXCEPT !.step = "rename"]
  /\ UNCHANGED <<mirror, key, fetchVars, useVars, answers>>

SaveRename ==
  /\ save.step = "rename"
  /\ answers' = tmp /\ tmp' = NoFile
  /\ save' = NotSaving
  /\ UNCHANGED <<mirror, key, fetchVars, useVars>>

-----------------------------------------------------------------------------
\* The program ends anywhere and is started again: its memory is lost, the
\* files stay.
Restart == /\ at' = "idle" /\ save' = NotSaving
           /\ flavors' = NoFile /\ offered' = NoFile /\ blueprint' = NoFile
           /\ UNCHANGED <<mirror, key, caller, since, data, sig, tmp, answers>>

Next == \/ Publish
        \/ Options \/ OptionsCached \/ OobeShow
        \/ FetchData \/ FetchSig \/ Verify \/ UseFlavors \/ UseBlueprint
        \/ \E store \in Answers : SaveOpen(store)
        \/ SaveWrite \/ SaveRename
        \/ Restart

Spec == Init /\ [][Next]_vars

-----------------------------------------------------------------------------
(* Properties. *)

TypeOK ==
  /\ mirror \in [data : Versions, sig : Versions]
  /\ key \in BOOLEAN
  /\ at \in {"idle", "data", "sig", "verify", "use"}
  /\ caller \in Callers /\ since \in Versions
  /\ data \in [Callers -> Versions \cup {NoFile, Torn}]
  /\ sig \in [Callers -> Versions \cup {NoFile, Torn}]
  /\ {flavors, offered, blueprint} \subseteq Versions \cup {NoFile}
  /\ save \in [step : {"idle", "write", "rename"}, store : Answers \cup {NoFile}]
  /\ {tmp, answers} \subseteq Answers \cup {NoFile, Torn}

\* "Returns 0 only on a verified download" (blueprint.h): what a page gets to use
\* is a whole file, with its own signature under the key, and one that was on
\* the mirror during the call, not the leavings of an earlier one.
OnlyVerifiedIsUsed ==
  [][/\ flavors' \notin {flavors, NoFile} => Verified /\ flavors' >= since
     /\ blueprint' \notin {blueprint, NoFile} => Verified /\ blueprint' >= since]_vars

\* "write atomically via <path>.tmp" (bp_answers_save): at every moment, wherever
\* the program was ended, the answers file is absent or wholly one store.
SavedIsWhole == answers # Torn
=============================================================================
