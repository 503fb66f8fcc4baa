----------------------------- MODULE InputDevices -----------------------------
(***************************************************************************)
(* How prp_gui.c finds its two input devices: main picks a touch device,   *)
(* trying for a while, then once a power key, and its loop looks for a     *)
(* touch device as long as there is none.  The kernel adds and removes     *)
(* nodes at any time.  A node is the n of /dev/input/event<n>; what its    *)
(* ioctls tell of it is a record: abs and mt (coordinates), btn            *)
(* (BTN_TOUCH), direct, keys, and what its name says: touchName (the score *)
(* of it), powerName, hints (how many of the configured hints it has).     *)
(***************************************************************************)
EXTENDS Integers, FiniteSets, FiniteSetsExt

CONSTANTS
  Nodes,      \* a set of event numbers
  Kinds,      \* the devices there can be
  MaxTries,   \* how often main looks for a touch device, 30
  MaxRemove,  \* bound: how often a node goes away
  None        \* no path

ASSUME InputAssumption ==
  /\ Nodes \subseteq Nat /\ IsFiniteSet(Nodes) /\ None \notin Nodes
  /\ MaxTries \in Nat \ {0} /\ MaxRemove \in Nat
  \* score_touch_name and power_hint_score
  /\ \A d \in Kinds : d.touchName \in {-8, -2, 0, 6} /\ d.hints \in 0..128

VARIABLES
  device,    \* what is behind each node
  present,   \* the nodes that are there
  removed,   \* how often a node went away
  config,    \* cfg.input and cfg.power_input, or None
  at,        \* where main is
  tries,     \* looks left
  path,      \* ev_path: main's, and then that of try_late_touch_attach
  touch,     \* the node touches are read from: g_touch_attached
  power      \* the node the power key is read from: g_pwr_fd

kernelVars == <<device, present, removed, config>>
inputVars == <<kernelVars, at, tries, path, touch, power>>

InputTypeOK ==
  /\ device \in [Nodes -> Kinds]
  /\ present \subseteq Nodes /\ removed \in 0..MaxRemove
  /\ config \in [touch : Nodes \cup {None}, power : Nodes \cup {None}]
  /\ at \in {"configured", "look", "attach", "power", "loop", "late"}
  /\ tries \in 0..MaxTries
  /\ {path, touch, power} \subseteq Nodes \cup {None}

InputInit ==
  /\ device \in [Nodes -> Kinds]
  /\ present \in SUBSET Nodes /\ removed = 0
  /\ config \in [touch : Nodes \cup {None}, power : Nodes \cup {None}]
  /\ at = "configured" /\ tries = MaxTries
  /\ path = None /\ touch = None /\ power = None

-----------------------------------------------------------------------------
(* The kernel. *)

Add(n) == /\ n \notin present
          /\ present' = present \cup {n}
          /\ UNCHANGED <<device, removed, config, at, tries, path, touch, power>>

Remove(n) == /\ n \in present /\ removed < MaxRemove
             /\ present' = present \ {n}
             /\ removed' = removed + 1
             /\ UNCHANGED <<device, config, at, tries, path, touch, power>>

-----------------------------------------------------------------------------
(* The scores. *)

Count(b, points) == IF b THEN points ELSE 0

\* pick_touch_event's two `continue`s
TouchCandidate(d) ==
  /\ d.abs \/ d.mt
  /\ d.direct \/ d.btn \/ d.mt \/ d.touchName > 0

TouchScore(d) == Count(d.direct, 8) + Count(d.btn, 4) + Count(d.mt, 3)
                   + Count(d.abs, 2) + d.touchName

\* (mutant of PowerScore) any key that wakes the device is as good
PowerScoreWakes(d) ==
  Count(d.keys \cap {"power", "wakeup"} # {}, 10) + Count("sleep" \in d.keys, 1)
    + Count(d.powerName, 4) + 8 * d.hints

PowerScore(d) == Count("power" \in d.keys, 10) + Count("wakeup" \in d.keys, 2)
                   + Count("sleep" \in d.keys, 1) + Count(d.powerName, 4)
                   + 8 * d.hints

\* The lowest of the nodes with the best score.
Best(score) ==
  Min({n \in DOMAIN score : \A m \in DOMAIN score : score[m] <= score[n]})

PickTouch ==
  LET candidates == {n \in present : TouchCandidate(device[n])}
  IN  IF candidates = {} THEN None ELSE Best([n \in candidates |-> TouchScore(device[n])])

\* Every node that has keys is a candidate; main wants a score above 0.
PickPower(exclude) ==
  LET candidates == {n \in present \ {exclude} : device[n].keys # {}}
  IN  IF \A n \in candidates : PowerScore(device[n]) <= 0 THEN None
      ELSE Best([n \in candidates |-> PowerScore(device[n])])

-----------------------------------------------------------------------------
(* main. *)

Goes(where) == at' = where /\ UNCHANGED kernelVars

\* evdev_set_file of the configured path, where there is one.
Configured ==
  /\ at = "configured"
  /\ IF config.touch \in present
     THEN path' = config.touch /\ touch' = path' /\ Goes("power")
     ELSE Goes("look") /\ UNCHANGED <<path, touch>>
  /\ UNCHANGED <<tries, power>>

\* One look: what is not found leaves ev_path as it is.
Look ==
  /\ at = "look"
  /\ IF tries = 0 THEN Goes("power") /\ UNCHANGED <<tries, path>>
     ELSE /\ tries' = tries - 1
          /\ IF PickTouch = None THEN Goes("look") /\ UNCHANGED path
                                 ELSE Goes("attach") /\ path' = PickTouch
  /\ UNCHANGED <<touch, power>>

Attach ==
  /\ at = "attach"
  /\ IF path \in present THEN touch' = path /\ Goes("power")
                         ELSE Goes("look") /\ UNCHANGED touch
  /\ UNCHANGED <<tries, path, power>>

\* The power key, once; a configured path is the only one tried.
OpenPower ==
  /\ at = "power"
  /\ power' = IF config.power = None THEN PickPower(path)
              ELSE IF config.power \in present THEN config.power ELSE None
  /\ path' = None
  /\ Goes("loop")
  /\ UNCHANGED <<tries, touch>>

\* (mutant of LateLook) a look that finds nothing is the last
LateLookOnce ==
  /\ at = "loop" /\ touch = None /\ tries = 0
  /\ IF PickTouch = None THEN tries' = MaxTries /\ UNCHANGED <<path, kernelVars, at>>
                         ELSE path' = PickTouch /\ Goes("late") /\ UNCHANGED tries
  /\ UNCHANGED <<touch, power>>

\* try_late_touch_attach, once a second.
LateLook ==
  /\ at = "loop" /\ touch = None
  /\ PickTouch # None
  /\ path' = PickTouch
  /\ Goes("late")
  /\ UNCHANGED <<tries, touch, power>>

LateAttach ==
  /\ at = "late"
  /\ touch' = IF path \in present THEN path ELSE None
  /\ Goes("loop")
  /\ UNCHANGED <<tries, path, power>>

-----------------------------------------------------------------------------
Main == Configured \/ Look \/ Attach \/ OpenPower \/ LateLook \/ LateAttach
InputNext == Main \/ (\E n \in Nodes : Add(n) \/ Remove(n))

\* main's loop never blocks, and the kernel keeps it running.
InputSpec == InputInit /\ [][InputNext]_inputVars /\ WF_inputVars(Main)

-----------------------------------------------------------------------------
(* Properties. *)

\* "Input nodes can appear slightly after fbdev/UI startup": whenever a touch
\* device comes, and however often one is pulled while it is being opened, one
\* is attached in the end, if from some time on there is one.
TouchComes ==
  <>[](\E n \in present : TouchCandidate(device[n])) => <>(touch # None)

\* Without a hint from the configuration, the device taken for the power key is
\* one that has the key, if any is there that is no touch device; and it is
\* not the device touches are read from by then.
PowerKeyIsRead ==
  [][at = "power" /\ at' = "loop" /\ config.power = None
       /\ (\A n \in Nodes : device[n].hints = 0) =>
       /\ power' # None => power' # touch
       /\ (\E n \in present \ {touch} :
             "power" \in device[n].keys /\ ~TouchCandidate(device[n])) =>
            power' # None /\ "power" \in device[power'].keys]_inputVars
=============================================================================
