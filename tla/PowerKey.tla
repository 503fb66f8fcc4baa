------------------------------- MODULE PowerKey -------------------------------
(***************************************************************************)
(* The power key and its menu: power_key_poll in gui/prp_gui.c reads what  *)
(* the input device has queued and brings up the menu of gui/prp_ui.c once *)
(* the key has been down for 800 ms.  The key, its device and the clock    *)
(* run on while the GUI does something else.                               *)
(***************************************************************************)
EXTENDS Integers, Sequences

CONSTANTS
  HoldTime,     \* ticks of the clock before the menu comes (800 ms in the code)
  MaxKeys       \* events the device holds unread

ASSUME KeyAssumption == HoldTime \in Nat \ {0} /\ MaxKeys \in Nat \ {0}

VARIABLES
  key,          \* is the key held down?
  held,         \* for how long, HoldTime at most
  asked,        \* has a poll found this press long enough?
  keys,         \* events of the device not read yet
  down,         \* g_pwr_down
  since,        \* now_ms() - g_pwr_down_ms while down, HoldTime at most
  shown,        \* g_pwr_menu_shown
  menu          \* is the power menu up (g_pwr_overlay)?

keyVars == <<key, held, asked>>
pollVars == <<keys, down, since, shown>>

KeyInit == /\ key = FALSE /\ held = 0 /\ asked = FALSE
           /\ keys = << >> /\ down = FALSE /\ since = 0 /\ shown = FALSE
           /\ menu = FALSE

(* The user and the device.  "other" is any event that is neither the press *)
(* nor the release of the key: a report, a repeat, another key.             *)

Event(e) == Len(keys) < MaxKeys /\ keys' = Append(keys, e)

Press == /\ ~key
         /\ Event("press")
         /\ key' = TRUE /\ held' = 0 /\ asked' = FALSE
         /\ UNCHANGED <<down, since, shown, menu>>

Release == /\ key
           /\ Event("release")
           /\ key' = FALSE /\ held' = 0 /\ asked' = FALSE
           /\ UNCHANGED <<down, since, shown, menu>>

OtherEvent == Event("other") /\ UNCHANGED <<keyVars, down, since, shown, menu>>

\* One more tick, up to the time that matters.
Later(t) == IF t < HoldTime THEN t + 1 ELSE t

ClockTick == /\ held' = IF key THEN Later(held) ELSE held
             /\ since' = IF down THEN Later(since) ELSE since
             /\ <<held, since>>' # <<held, since>>
             /\ UNCHANGED <<key, asked, keys, down, shown, menu>>

(* power_key_poll: every queued event, then the clock. *)

\* The presses and releases in the queue, by their place.
Presses(q) == {i \in DOMAIN q : q[i] \in {"press", "release"}}

\* Is the last of them a press?
EndsDown(q) == \E i \in Presses(q) :
                 q[i] = "press" /\ \A n \in Presses(q) : n <= i

\* (mutant of AfterEvents) every event of the device restarts the clock
AfterEventsRestart(q) ==
  [down |-> IF Presses(q) = {} THEN down ELSE EndsDown(q),
   since |-> IF q = << >> THEN since ELSE 0,
   shown |-> Presses(q) = {} /\ shown]

\* The flags after the events of q.
AfterEvents(q) ==
  IF Presses(q) = {}
  THEN [down |-> down, since |-> since, shown |-> shown]
  ELSE [down |-> EndsDown(q), since |-> 0, shown |-> FALSE]

\* prp_ui_power_menu_show, which leaves an open menu alone.
MenuShow == menu' = TRUE

\* What the poll does with the flags once q was read.
Decide(q) ==
  LET f == AfterEvents(q)
      long == f.down /\ ~f.shown /\ f.since >= HoldTime
  IN  /\ down' = f.down
      /\ since' = f.since
      /\ shown' = (f.shown \/ long)
      /\ IF long THEN MenuShow ELSE UNCHANGED menu
      /\ asked' = (asked \/ long)

\* (mutant of PowerKeyPoll) one event per call
PowerKeyPollOne ==
  /\ IF keys = << >> THEN Decide(keys) /\ UNCHANGED keys
                     ELSE Decide(<<Head(keys)>>) /\ keys' = Tail(keys)
  /\ UNCHANGED <<key, held>>

PowerKeyPoll == Decide(keys) /\ keys' = << >> /\ UNCHANGED <<key, held>>

\* power_menu_hide: Cancel, the background, or before a command is run.
MenuHide == menu /\ menu' = FALSE /\ UNCHANGED <<keyVars, pollVars>>

KeyTypeOK == /\ {key, asked, down, shown, menu} \subseteq BOOLEAN
             /\ {held, since} \subseteq 0..HoldTime
             /\ keys \in Seq({"press", "release", "other"}) /\ Len(keys) <= MaxKeys
=============================================================================
