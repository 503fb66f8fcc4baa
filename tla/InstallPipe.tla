----------------------------- MODULE InstallPipe -----------------------------
(***************************************************************************)
(* The pipe between the install wizard (gui/prp_wizard.c) and the          *)
(* prp-install process it forks.  Every launch is a run of its own, with a *)
(* pipe of its own; the wizard holds at most one read end.                 *)
(*                                                                         *)
(* STEP, PROGRESS and LOG lines only redraw the page, so the pipe keeps    *)
(* only the lines that decide the outcome; that a process prints at all    *)
(* still matters, because a print without a reader is fatal (SIGPIPE).     *)
(***************************************************************************)
EXTENDS Naturals, Sequences

CONSTANT MaxRuns  \* bound: how many installs the user launches

ASSUME MaxRunsAssumption == MaxRuns \in Nat \ {0}

VARIABLES
  out,  \* out[r]: the verdict lines of run r that the wizard has not read
  fd    \* W.install_fd: the run whose pipe the wizard reads, or NoRun (-1)

pipeVars == <<out, fd>>

Runs == 1 .. MaxRuns
NoRun == 0

Verdicts == {"error", "done"}

PipeTypeOK == /\ out \in [Runs -> Seq(Verdicts)]
              /\ fd \in Runs \cup {NoRun}

PipeInit == /\ out = [r \in Runs |-> << >>]
            /\ fd = NoRun

HasReader(r) == fd = r

Write(r, line) == /\ HasReader(r)
                  /\ out' = [out EXCEPT ![r] = Append(@, line)]
                  /\ UNCHANGED fd

\* pipe() and fork(): the wizard keeps the read end of a fresh pipe.
OpenPipe(r) == /\ fd' = r
               /\ UNCHANGED out

\* close(W.install_fd): what was not read is lost.
ClosePipe(r) == /\ fd' = NoRun
                /\ out' = [out EXCEPT ![r] = << >>]
=============================================================================
