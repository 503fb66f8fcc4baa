----------------------------- MODULE RecoveryGui -----------------------------
(***************************************************************************)
(* The main loop of gui/prp_gui.c: the power key is polled, the job's pipe *)
(* is read, and then LVGL runs the callbacks of what the user touched.     *)
(***************************************************************************)
EXTENDS GuiJob, PowerKey

guiVars == <<keyVars, pollVars, menu>>
vars == <<pc, jobVars, logVars, guiVars>>

Init == JobInit /\ KeyInit

PollKey == /\ pc = "keys"
           /\ PowerKeyPoll
           /\ pc' = "read"
           /\ UNCHANGED <<jobVars, logVars>>

\* lv_timer_handler returns and the loop starts over.
TurnDone == /\ pc = "timers"
            /\ pc' = "keys"
            /\ UNCHANGED <<jobVars, logVars, guiVars>>

\* May the user ask for one more command?
MayAsk == pc = "timers" /\ Job < MaxJobs /\ said < MaxSaid

\* ui_btn_cb: a button of the main page, out of reach below the menu.
ButtonClicked(c) == /\ MayAsk
                    /\ ~menu
                    /\ StartCmd(c)
                    /\ UNCHANGED guiVars

\* power_menu_cmd_cb closes the menu before it runs the command.
PowerItemClicked == /\ MayAsk
                    /\ MenuHide
                    /\ StartCmd("reboot")

\* Cancel, or a touch beside the menu.
MenuDismissed == /\ pc = "timers"
                 /\ MenuHide
                 /\ UNCHANGED <<pc, jobVars, logVars>>

\* appbar_long_press_cb
BarHeld == /\ pc = "timers"
           /\ ~menu
           /\ MenuShow
           /\ UNCHANGED <<pc, jobVars, logVars, keyVars, pollVars>>

Loop == \/ PollKey
        \/ TurnDone
        \/ /\ Fork \/ ForkFails \/ NoJob \/ ReadSome \/ ReadAgain \/ ReadEof
           /\ UNCHANGED guiVars

User == \/ \E c \in {"terminal", "work"} : ButtonClicked(c)
        \/ PowerItemClicked
        \/ MenuDismissed
        \/ BarHeld

Up == pc # "down"

Process(j) == \/ MachineDown(j) /\ Up /\ UNCHANGED <<logVars, guiVars>>
              \/ /\ Background(j) \/ Redirect(j) \/ ShellExits(j) \/ ShellEnded(j)
                 /\ Up
                 /\ UNCHANGED <<pc, logVars, guiVars>>

Write == Up /\ Output /\ UNCHANGED <<pc, logVars, guiVars>>

Clock == Up /\ ClockTick /\ UNCHANGED <<pc, jobVars, logVars>>

Key == /\ Up
       /\ Press \/ Release \/ OtherEvent
       /\ UNCHANGED <<pc, jobVars, logVars>>

Next == Loop \/ User \/ Write \/ Clock \/ Key \/ \E j \in DOMAIN proc : Process(j)

Spec == Init /\ [][Next]_vars

FairSpec == Spec /\ WF_vars(Loop) /\ WF_vars(Clock)

-----------------------------------------------------------------------------
TypeOK == LogTypeOK /\ JobTypeOK /\ KeyTypeOK

\* start_cmd refuses a command while one runs, so that the reboot of the
\* power menu never cuts off another command that is still at work, such as
\* the mount of the sub-partitions.
RebootIsAlone == pc = "down" => \A j \in DOMAIN proc : Holds(j) => j = Job

\* The main loop takes a job for ended only when no process of its command
\* holds the pipe any more and all that they printed has been shown.
EndIsTheEnd == [][running /\ ~running' => pipe = 0 /\ ~Holds(Job)]_vars

\* power_key_poll brings up the menu only for a key that has been held down
\* for 800 ms and still is, and once for a press, however long the main loop
\* was away and whatever the input device queued meanwhile.
MenuIsMeant ==
  [][PollKey /\ menu' /\ ~menu => key /\ held = HoldTime /\ ~asked]_vars

\* A job whose processes have let go of the pipe ends, so that the next
\* command is not refused as "[busy]".
JobEndIsNoticed == (running /\ ~Holds(Job)) ~> (~running \/ pc = "down")

\* A command that runs, silent or not, leaves the UI its turns.
UiGetsTurns == []<>(pc \in {"timers", "down"})

\* A power key held down long enough brings up the menu.
HeldKeyIsSeen ==
  (key /\ held = HoldTime) ~> (menu \/ asked \/ ~key \/ pc = "down")
=============================================================================
