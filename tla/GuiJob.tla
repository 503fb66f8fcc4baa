-------------------------------- MODULE GuiJob --------------------------------
(***************************************************************************)
(* The command runner of gui/prp_gui.c: start_cmd forks a shell with its   *)
(* output on a pipe, and the main loop reads that pipe, without blocking,  *)
(* between two calls of the UI.  The shells, and what they leave in the    *)
(* background, run beside it.                                              *)
(***************************************************************************)
EXTENDS UiLog

CONSTANTS
  MaxJobs,      \* shells forked in a session
  MaxSaid,      \* characters after which the shells print no more
  PipeSize,     \* characters the pipe holds
  ReadSize,     \* characters of one read (512 in the code)
  StartMayFail  \* may pipe() or fork() fail?

ASSUME JobAssumption == /\ {MaxJobs, MaxSaid, PipeSize} \subseteq Nat
                        /\ ReadSize \in Chunks
                        /\ StartMayFail \in BOOLEAN

VARIABLES
  pc,           \* where the main loop is
  running,      \* g_job.running; the job is the last element of proc
  want,         \* the command start_cmd is about to fork
  proc,         \* the shells forked, each with what it left in the background
  pipe          \* unread characters of the job's pipe

jobVars == <<running, want, proc, pipe>>

\* "terminal" leaves a process in the background, "reboot" takes the
\* machine down, "work" stands for the other commands.
Commands == {"terminal", "work", "reboot"}

JobInit == /\ LogInit
           /\ pc = "keys" /\ running = FALSE /\ want = "none"
           /\ proc = << >> /\ pipe = 0

Job == Len(proc)
\* Does command j still hold the writing end of its pipe?
Holds(j) == proc[j].shell = "runs" \/ proc[j].behind

-----------------------------------------------------------------------------
(* The commands. *)

Output == /\ running /\ Holds(Job)
          /\ pipe < PipeSize
          /\ said + pipe < MaxSaid
          /\ pipe' = pipe + 1
          /\ UNCHANGED <<running, want, proc>>

Shell(j, s, b) == /\ proc' = [proc EXCEPT ![j].shell = s, ![j].behind = b]
                  /\ UNCHANGED <<running, want, pipe>>

\* `... &`: the shell ends, the process it forked still has the pipe until
\* it has opened its terminal.
Background(j) == /\ proc[j].shell = "runs" /\ proc[j].cmd = "terminal"
                 /\ Shell(j, "closing", TRUE)

Redirect(j) == proc[j].behind /\ Shell(j, proc[j].shell, FALSE)

\* A process that ends closes its files first and can be waited for later.
ShellExits(j) == /\ proc[j].shell = "runs" /\ proc[j].cmd # "terminal"
                 /\ Shell(j, "closing", FALSE)

ShellEnded(j) == proc[j].shell = "closing" /\ Shell(j, "zombie", proc[j].behind)

\* `busybox reboot -f` at the end of the reboot command.
MachineDown(j) == /\ proc[j].shell = "runs" /\ proc[j].cmd = "reboot"
                  /\ pc' = "down"
                  /\ UNCHANGED jobVars

-----------------------------------------------------------------------------
(* start_cmd, called from a button's callback. *)

\* (mutant of StartCmd) without the busy check
StartCmdAlways(c) == /\ LogAppend(1)
                     /\ pc' = "fork" /\ want' = c
                     /\ UNCHANGED <<running, proc, pipe>>

StartCmd(c) ==
  /\ LogAppend(1)
  /\ IF running THEN UNCHANGED <<pc, want>>
                ELSE pc' = "fork" /\ want' = c
  /\ UNCHANGED <<running, proc, pipe>>

Fork == /\ pc = "fork"
        /\ proc' = Append(proc, [cmd |-> want, shell |-> "runs", behind |-> FALSE])
        /\ running' = TRUE
        /\ pipe' = 0
        /\ pc' = "timers" /\ want' = "none"
        /\ UNCHANGED logVars

ForkFails == /\ StartMayFail
             /\ pc = "fork"
             /\ LogAppend(1)
             /\ pc' = "timers" /\ want' = "none"
             /\ UNCHANGED <<running, proc, pipe>>

-----------------------------------------------------------------------------
(* The main loop reads the job's pipe. *)

NoJob == /\ pc = "read" /\ ~running
         /\ pc' = "timers"
         /\ UNCHANGED <<jobVars, logVars>>

ReadSome == /\ pc = "read" /\ running
            /\ pipe > 0
            /\ LET n == IF pipe < ReadSize THEN pipe ELSE ReadSize
               IN  LogAppend(n) /\ pipe' = pipe - n
            /\ UNCHANGED <<pc, running, want, proc>>

\* (mutant of ReadAgain) without O_NONBLOCK read waits for the command
ReadAgainBlocks == /\ pc = "read" /\ running
                   /\ pipe = 0 /\ ~Holds(Job)
                   /\ pc' = "timers"
                   /\ UNCHANGED <<jobVars, logVars>>

ReadAgain == /\ pc = "read" /\ running
             /\ pipe = 0 /\ Holds(Job)
             /\ pc' = "timers"
             /\ UNCHANGED <<jobVars, logVars>>

\* The job is over: the shell is reaped if it can be waited for already,
\* and its end is said with the exit code, or else without.
EndJob == /\ running' = FALSE
          /\ pipe' = 0
          /\ proc' = IF proc[Job].shell = "zombie"
                     THEN [proc EXCEPT ![Job].shell = "reaped"] ELSE proc
          /\ LogAppend(1)
          /\ pc' = "timers"
          /\ UNCHANGED want

\* (mutant of ReadEof) the end of the shell is taken for the end of the job
ReadEofOnExit == /\ pc = "read" /\ running
                 /\ proc[Job].shell = "zombie" \/ (pipe = 0 /\ ~Holds(Job))
                 /\ EndJob

\* (mutant of ReadEof) end of file is taken for "nothing to read yet"
ReadEofIgnored == /\ pc = "read" /\ running
                  /\ pipe = 0 /\ ~Holds(Job)
                  /\ pc' = "timers"
                  /\ UNCHANGED <<jobVars, logVars>>

ReadEof == /\ pc = "read" /\ running
           /\ pipe = 0 /\ ~Holds(Job)
           /\ EndJob

\* A command that was forked: its shell, and whether a process it left
\* behind still has the pipe.
Forked == [cmd : Commands, behind : BOOLEAN,
           shell : {"runs", "closing", "zombie", "reaped"}]

JobTypeOK ==
  /\ pc \in {"keys", "read", "timers", "fork", "down"}
  /\ running \in BOOLEAN
  /\ want \in Commands \cup {"none"}
  /\ proc \in Seq(Forked)
  /\ Job <= MaxJobs
  /\ pipe \in 0..PipeSize
=============================================================================
