------------------------------ MODULE PrpWizard ------------------------------
(***************************************************************************)
(* The on-device install wizard (gui/prp_wizard.c): its pages, the child   *)
(* it forks and the 150 ms timer that reads the child's pipe.  The choices *)
(* the pages collect (flavor, disk, Wi-Fi text) are passed through and     *)
(* left out.  Every callback runs to completion on the one LVGL thread, so *)
(* each is one action.                                                     *)
(***************************************************************************)
EXTENDS InstallPipe

CONSTANT StartMayFail  \* may pipe() or fork() fail?

ASSUME StartAssumption == StartMayFail \in BOOLEAN

VARIABLES
  ui,       \* "closed" (W.root is NULL) or the page W.step shows
  failed,   \* is the "Back to recovery" button on the progress page?
  timer,    \* W.prog_timer: none, install_poll or prog_timer_cb
  pid,      \* W.install_pid: the run it is the parent of, or NoRun
  runs,     \* how many installers were forked so far
  present   \* is prp-install on this system?  (not in the simulator)

wizardVars == <<ui, failed, timer, pid, runs, present>>

Pages == <<"welcome", "network", "options", "confirm", "progress", "done">>
Uis == {"closed", "welcome", "network", "options", "confirm", "progress", "done"}

WizardTypeOK ==
  /\ ui \in Uis
  /\ failed \in BOOLEAN
  /\ timer \in {"none", "poll", "mock"}
  /\ pid \in Runs \cup {NoRun}
  /\ runs \in 0 .. MaxRuns
  /\ present \in BOOLEAN

WizardInit ==
  /\ ui = "closed"
  /\ failed = FALSE
  /\ timer = "none"
  /\ pid = NoRun
  /\ runs = 0
  /\ present \in BOOLEAN

\* prp_wizard_show: nothing while a wizard is open.
Show == /\ ui = "closed"
        /\ ui' = "welcome"
        /\ failed' = FALSE
        /\ timer' = "none"
        /\ pid' = NoRun
        /\ UNCHANGED <<runs, present, pipeVars>>

TurnPage(from, to) == /\ ui = from
                      /\ ui' = to
                      /\ UNCHANGED <<failed, timer, pid, runs, present, pipeVars>>

\* The footer is hidden on the progress and done pages.
Next_cb == \E i \in 1 .. 3 : TurnPage(Pages[i], Pages[i + 1])
Back_cb == \E i \in 2 .. 4 : TurnPage(Pages[i], Pages[i - 1])

\* "Install" on the confirm page; the installer itself starts with Spawn.
StartInstall(r) ==
  /\ ui = "confirm"
  /\ present
  /\ r = runs + 1
  /\ ui' = "progress"
  /\ failed' = FALSE
  /\ timer' = "poll"
  /\ pid' = r
  /\ runs' = r
  /\ OpenPipe(r)
  /\ UNCHANGED present

\* pipe() or fork() failed: the page is up, with no timer and no button.
StartFails ==
  /\ StartMayFail
  /\ ui = "confirm"
  /\ present
  /\ ui' = "progress"
  /\ failed' = FALSE
  /\ pid' = NoRun
  /\ UNCHANGED <<timer, runs, present, pipeVars>>

StartMock ==
  /\ ui = "confirm"
  /\ ~present
  /\ ui' = "progress"
  /\ failed' = FALSE
  /\ timer' = "mock"
  /\ pid' = NoRun
  /\ UNCHANGED <<runs, present, pipeVars>>

\* prog_timer_cb after its last step.
MockDone ==
  /\ timer = "mock"
  /\ timer' = "none"
  /\ ui' = "done"
  /\ UNCHANGED <<failed, pid, runs, present, pipeVars>>

\* (mutant of Finish) a failure ends without the "Back to recovery" button.
FinishNoWayBack(r, ok) ==
  /\ ClosePipe(r)
  /\ pid' = NoRun /\ timer' = "none" /\ failed' = FALSE
  /\ ui' = IF ok THEN "done" ELSE ui
  /\ UNCHANGED <<runs, present>>

\* install_finish: the pipe is closed and the pid forgotten after a waitpid
\* that does not wait; only the verdict differs.
Finish(r, ok) ==
  /\ ClosePipe(r)
  /\ pid' = NoRun
  /\ timer' = "none"
  /\ ui' = IF ok THEN "done" ELSE ui
  /\ failed' = ~ok
  /\ UNCHANGED <<runs, present>>

\* (mutant of PollVerdict) any verdict line ends the page as a success.
PollVerdictBlind(r) ==
  timer = "poll" /\ HasReader(r) /\ out[r] # << >> /\ Finish(r, TRUE)

\* install_poll finds a verdict line.
PollVerdict(r) ==
  /\ timer = "poll"
  /\ HasReader(r)
  /\ out[r] # << >>
  /\ Finish(r, Head(out[r]) = "done")

\* (mutant of PollEof) the exit is noticed before the pipe is drained.
PollEofUndrained(r, writerGone) ==
  timer = "poll" /\ HasReader(r) /\ writerGone /\ Finish(r, FALSE)

\* install_poll finds the end of file: nothing unread, no writer left.
PollEof(r, writerGone) ==
  /\ timer = "poll"
  /\ HasReader(r)
  /\ out[r] = << >>
  /\ writerGone
  /\ Finish(r, FALSE)

\* (mutant of Close) the progress page has a way out while it installs.
CloseAnytime ==
  /\ ui \in {"done", "progress"}
  /\ ui' = "closed" /\ failed' = FALSE /\ timer' = "none"
  /\ pid' = NoRun /\ fd' = NoRun
  /\ UNCHANGED <<out, runs, present>>

\* The buttons of the done page, and "Back to recovery": wizard_close, with
\* the pid it would still signal given to the caller.
Close ==
  /\ ui = "done" \/ (ui = "progress" /\ failed)
  /\ ui' = "closed"
  /\ failed' = FALSE
  /\ timer' = "none"
  /\ pid' = NoRun
  /\ fd' = NoRun
  /\ UNCHANGED <<out, runs, present>>
=============================================================================
