-------------------------- MODULE RecoveryGui_proofs --------------------------
(***************************************************************************)
(* Proofs about the main GUI: first the log buffer on its own, for every   *)
(* size of buffer and chunk and however many allocations fail, then that   *)
(* the main loop uses it as specified, and that a reboot cuts off no       *)
(* other command; and about its input devices, for every set of nodes,     *)
(* every choice of devices behind them and every way they come and go: the *)
(* device taken for the power key has one.                                 *)
(***************************************************************************)
EXTENDS RecoveryGui, InputDevices, SequenceTheorems, WellFoundedInduction, TLAPS

-----------------------------------------------------------------------------
(* The log buffer. *)

\* The sequence t ends in m, and counts up to it.
CountsUpTo(t, m) == \A i \in 1..Len(t) : t[i] = m - Len(t) + i

\* So does its newest part, which is as long as was asked for.
LEMMA NewestElements ==
  ASSUME NEW t \in Seq(Nat), NEW k \in 0..Len(t)
  PROVE  /\ Newest(t, k) \in Seq(Nat)
         /\ Len(Newest(t, k)) = k
         /\ \A m \in Nat : CountsUpTo(t, m) => CountsUpTo(Newest(t, k), m)
<1>1. /\ Newest(t, k) \in Seq(Nat)
      /\ Len(Newest(t, k)) = k
      /\ \A i \in 1..k : Newest(t, k)[i] = t[Len(t) - k + i]
  BY DEF Newest
<1>2. ASSUME NEW m \in Nat, CountsUpTo(t, m), NEW i \in 1..k
      PROVE  Newest(t, k)[i] = m - k + i
  <2>1. Len(t) - k + i \in 1..Len(t) OBVIOUS
  <2>2. t[Len(t) - k + i] = m - Len(t) + (Len(t) - k + i)
    BY <1>2, <2>1 DEF CountsUpTo
  <2> QED BY <1>1, <2>2
<1> QED BY <1>1, <1>2 DEF CountsUpTo

\* And the sequence with the next n numbers added.
LEMMA JoinedElements ==
  ASSUME NEW t \in Seq(Nat), NEW m \in Nat, NEW n \in Nat
  PROVE  LET j == t \o [i \in 1..n |-> m + i]
         IN  /\ j \in Seq(Nat)
             /\ Len(j) = Len(t) + n
             /\ CountsUpTo(t, m) => CountsUpTo(j, m + n)
<1> DEFINE s == [i \in 1..n |-> m + i]
           j == t \o s
<1>1. s \in Seq(Nat) /\ Len(s) = n OBVIOUS
<1>2. j \in Seq(Nat) /\ Len(j) = Len(t) + n
  BY <1>1, ConcatProperties
<1>3. \A i \in 1..Len(t) + n : j[i] = IF i <= Len(t) THEN t[i] ELSE s[i - Len(t)]
  BY <1>1, ConcatProperties
<1>4. ASSUME CountsUpTo(t, m), NEW i \in 1..Len(t) + n
      PROVE  j[i] = (m + n) - (Len(t) + n) + i
  <2>1. CASE i <= Len(t)
    <3>1. j[i] = t[i] BY <1>3, <2>1
    <3>2. t[i] = m - Len(t) + i BY <1>4, <2>1 DEF CountsUpTo
    <3> QED BY <3>1, <3>2
  <2>2. CASE i > Len(t)
    <3>1. j[i] = s[i - Len(t)] BY <1>3, <2>2
    <3>2. i - Len(t) \in 1..n BY <2>2
    <3>3. s[i - Len(t)] = m + (i - Len(t)) BY <3>2
    <3> QED BY <3>1, <3>3
  <2> QED BY <2>1, <2>2
<1> QED BY <1>2, <1>4 DEF CountsUpTo

\* What is left of the text before the chunk is added.
LEMMA BoundedText ==
  ASSUME LogAssumption, LogTypeOK
  PROVE  /\ Bounded \in Seq(Nat)
         /\ Len(Bounded) <= MaxKeep
         /\ Len(Bounded) <= Len(text)
         /\ Len(Bounded) = Len(text) \/ Len(Bounded) >= MaxKeep \div 2
         /\ CountsUpTo(text, said) => CountsUpTo(Bounded, said)
<1>1. MaxKeep \in Nat /\ MaxKeep \div 2 \in 0..MaxKeep
  BY DEF LogAssumption
<1>2. text \in Seq(Nat) /\ said \in Nat BY DEF LogTypeOK
<1>3. CASE Len(text) > MaxKeep
  <2>1. MaxKeep \div 2 \in 0..Len(text) BY <1>1, <1>2, <1>3
  <2>2. Bounded = Newest(text, MaxKeep \div 2) BY <1>3 DEF Bounded
  <2> QED BY <1>1, <1>2, <1>3, <2>1, <2>2, NewestElements
<1>4. CASE ~(Len(text) > MaxKeep)
  BY <1>1, <1>2, <1>4 DEF Bounded
<1> QED BY <1>3, <1>4

\* A chunk always fits into the largest allocation, and therefore into the
\* one the code asks for.
LEMMA NewCapSuffices ==
  ASSUME LogAssumption, LogTypeOK, NEW n \in Chunks
  PROVE  /\ NewCap(n) \in Buffer..MaxCap
         /\ Fits(Bounded, n, NewCap(n))
<1>1. Buffer \in 1..MaxCap
  BY DEF LogAssumption, LogTypeOK, Buffer
<1>2. Fits(Bounded, n, MaxCap)
  BY BoundedText DEF LogAssumption, Chunks, Fits
<1>3. \A c \in Enough(n) : c \in Buffer..MaxCap /\ Fits(Bounded, n, c)
  BY DEF Doublings, Enough
<1>4. CASE Enough(n) = {}
  BY <1>1, <1>2, <1>4 DEF NewCap, LogAssumption
<1>5. CASE Enough(n) # {}
  <2>1. NewCap(n) \in Enough(n) BY <1>5 DEF NewCap
  <2> QED BY <1>3, <2>1
<1> QED BY <1>4, <1>5

\* So the second cut of prp_ui_log_append is never made.
LEMMA CutIsBounded ==
  ASSUME LogAssumption, LogTypeOK, NEW n \in Chunks
  PROVE  Cut(n) = Bounded
  BY NewCapSuffices DEF Cut

\* The text after a chunk was added.
LEMMA JoinedText ==
  ASSUME LogAssumption, LogTypeOK, NEW n \in Chunks
  PROVE  LET j == Bounded \o Fresh(n)
         IN  /\ j \in Seq(Nat)
             /\ Len(j) = Len(Bounded) + n
             /\ CountsUpTo(text, said) => CountsUpTo(j, said + n)
<1>1. n \in Nat /\ said \in Nat
  BY DEF LogAssumption, Chunks, LogTypeOK
<1> QED BY <1>1, BoundedText, JoinedElements DEF Fresh

LogInv == LogTypeOK /\ LogFits /\ LogIsRecent

\* LogIsRecent says that the text counts up to what was said.
LEMMA RecentCounts ==
  ASSUME LogTypeOK
  PROVE  LogIsRecent <=>
           (short = 0 => /\ CountsUpTo(text, said)
                         /\ Len(text) = said \/ Len(text) >= MaxKeep \div 2)
<1>1. DOMAIN text = 1..Len(text) BY DEF LogTypeOK
<1> QED BY <1>1 DEF LogIsRecent, CountsUpTo

LEMMA LongEnough ==
  ASSUME NEW a \in Nat, NEW b \in Nat, NEW n \in Nat, NEW m \in Nat, NEW h \in Nat,
         a = b \/ a >= h, b = m \/ b >= h
  PROVE  a + n = m + n \/ a + n >= h
  OBVIOUS

\* A chunk that is added keeps the invariant, if the capacity is enough.
LEMMA AddedChunk ==
  ASSUME LogAssumption, LogInv, NEW n \in Chunks, NEW c \in 1..MaxCap,
         Fits(Bounded, n, c), cap' = c, text' = Bounded \o Fresh(n),
         said' = said + n, short' = short
  PROVE  LogInv'
<1>1. n \in Nat /\ said \in Nat /\ short \in Nat /\ MaxCap \in Nat /\ MaxKeep \div 2 \in Nat
  BY DEF LogAssumption, Chunks, LogInv, LogTypeOK
<1>2. text \in Seq(Nat) /\ Bounded \in Seq(Nat)
  BY BoundedText DEF LogInv, LogTypeOK
<1>3. /\ text' \in Seq(Nat)
      /\ Len(text') = Len(Bounded) + n
      /\ CountsUpTo(text, said) => CountsUpTo(text', said')
  BY JoinedText DEF LogInv
<1>4. LogTypeOK'
  BY <1>1, <1>3 DEF LogTypeOK
<1>5. LogFits'
  BY <1>1, <1>2, <1>3 DEF LogFits, Fits
<1>6. ASSUME short' = 0
      PROVE  /\ CountsUpTo(text', said')
             /\ Len(text') = said' \/ Len(text') >= MaxKeep \div 2
  <2>1. /\ CountsUpTo(text, said)
        /\ Len(text) = said \/ Len(text) >= MaxKeep \div 2
    BY <1>6, RecentCounts DEF LogInv
  <2>2. Len(Bounded) = Len(text) \/ Len(Bounded) >= MaxKeep \div 2
    BY BoundedText DEF LogInv
  <2>3. CountsUpTo(text', said') BY <1>3, <2>1
  <2>4. Len(text') = Len(Bounded) + n /\ Len(Bounded) \in Nat /\ Len(text) \in Nat
    BY <1>2, <1>3
  <2> QED BY <1>1, <2>1, <2>2, <2>3, <2>4, LongEnough, SMTT(30)
<1>7. LogIsRecent'
  <2>1. DOMAIN text' = 1..Len(text') BY <1>3
  <2> QED BY <1>6, <2>1 DEF LogIsRecent, CountsUpTo
<1> QED BY <1>4, <1>5, <1>7 DEF LogInv

\* prp_ui_log_append keeps the invariant, whichever way it takes.
LEMMA AppendKeepsLog ==
  ASSUME LogAssumption, LogInv, NEW n \in Chunks, LogAppend(n)
  PROVE  LogInv'
<1>1. /\ n \in Nat \ {0} /\ said \in Nat /\ said' = said + n
      /\ short \in Nat /\ MaxCap \in Nat /\ cap \in 0..MaxCap
      /\ Buffer \in 1..MaxCap
      /\ text \in Seq(Nat) /\ Bounded \in Seq(Nat) /\ Len(Bounded) <= Len(text)
  BY BoundedText DEF LogAssumption, Chunks, LogInv, LogTypeOK, LogAppend, Buffer
<1>2. CASE NoBuffer
  <2>1. LogTypeOK' BY <1>1, <1>2 DEF NoBuffer, LogTypeOK
  <2>2. LogFits' BY <1>2 DEF NoBuffer, LogInv, LogFits
  <2>3. LogIsRecent' BY <1>1, <1>2 DEF NoBuffer, LogIsRecent
  <2> QED BY <2>1, <2>2, <2>3 DEF LogInv
<1>3. CASE Put(n)
  BY <1>1, <1>3, AddedChunk DEF Put
<1>4. CASE GrowAndPut(n)
  <2>1. Cut(n) = Bounded BY CutIsBounded DEF LogInv
  <2>2. PICK c \in Grown(n) :
          /\ cap' = c
          /\ IF Fits(Bounded, n, c)
             THEN text' = Bounded \o Fresh(n) /\ UNCHANGED short
             ELSE text' = Bounded /\ short' = short + 1
    BY <1>4, <2>1 DEF GrowAndPut
  <2>3. NewCap(n) \in Buffer..MaxCap /\ Fits(Bounded, n, NewCap(n))
    BY NewCapSuffices DEF LogInv
  <2>4. c \in {NewCap(n), Buffer} BY DEF Grown
  <2>5. c \in 1..MaxCap BY <1>1, <2>3, <2>4
  <2>6. CASE Fits(Bounded, n, c)
    BY <1>1, <2>2, <2>5, <2>6, AddedChunk
  <2>7. CASE ~Fits(Bounded, n, c)
    <3>1. c = Buffer BY <2>3, <2>4, <2>7
    <3>2. text' = Bounded /\ short' = short + 1 /\ cap' = Buffer
      BY <2>2, <2>7, <3>1
    <3>3. LogTypeOK' BY <1>1, <3>2 DEF LogTypeOK
    <3>4. text # << >> => Len(text) < Buffer
      BY <1>1 DEF LogInv, LogFits, Buffer
    <3>5. LogFits' BY <1>1, <3>2, <3>4 DEF LogFits
    <3>6. LogIsRecent' BY <1>1, <3>2 DEF LogIsRecent
    <3> QED BY <3>3, <3>5, <3>6 DEF LogInv
  <2> QED BY <2>6, <2>7
<1> QED BY <1>2, <1>3, <1>4 DEF LogAppend

LEMMA LogStart == ASSUME LogAssumption, LogInit PROVE LogInv
<1>1. text = << >> /\ cap = 0 /\ said = 0 /\ short = 0 /\ MaxCap \in Nat
  BY DEF LogAssumption, LogInit
<1> QED BY <1>1 DEF LogInv, LogTypeOK, LogFits, LogIsRecent

\* The log buffer used on its own, with any chunks: its text stays within
\* the allocation, and while memory lasts it shows the newest part of what
\* was said without a gap.
THEOREM LogInvCorrect == LogSpec => []LogInv
<1>1. LogInit => LogInv BY LogAssumption, LogStart
<1>2. LogInv /\ [\E n \in Chunks : LogAppend(n)]_logVars => LogInv'
  <2> SUFFICES ASSUME LogInv, [\E n \in Chunks : LogAppend(n)]_logVars
               PROVE  LogInv'
    OBVIOUS
  <2>1. CASE \E n \in Chunks : LogAppend(n)
    BY <2>1, LogAssumption, AppendKeepsLog
  <2>2. CASE UNCHANGED logVars
    BY <2>2 DEF logVars, LogInv, LogTypeOK, LogFits, LogIsRecent
  <2> QED BY <2>1, <2>2
<1> QED BY <1>1, <1>2, PTL DEF LogSpec

\* Without a failing allocation nothing that is said is ever dropped.
THEOREM NothingIsDropped == MemFailures = 0 => (LogSpec => [](short = 0))
<1> SUFFICES ASSUME MemFailures = 0 PROVE LogSpec => [](short = 0)
  OBVIOUS
<1>1. LogInit => short = 0 BY DEF LogInit
<1>2. LogInv /\ short = 0 /\ [\E n \in Chunks : LogAppend(n)]_logVars
        => (short = 0)'
  <2> SUFFICES ASSUME LogInv, short = 0,
                      [\E n \in Chunks : LogAppend(n)]_logVars
               PROVE  short' = 0
    OBVIOUS
  <2>1. ASSUME NEW n \in Chunks, LogAppend(n) PROVE short' = 0
    <3>1. NewCap(n) \in Buffer..MaxCap /\ Fits(Bounded, n, NewCap(n)) /\ Cut(n) = Bounded
      BY LogAssumption, NewCapSuffices, CutIsBounded DEF LogInv
    <3>2. Grown(n) \subseteq {NewCap(n)} BY <3>1 DEF Grown
    <3>3. ~NoBuffer BY DEF NoBuffer
    <3>4. CASE Put(n) BY <3>4 DEF Put
    <3>5. CASE GrowAndPut(n) BY <3>1, <3>2, <3>5 DEF GrowAndPut
    <3> QED BY <2>1, <3>3, <3>4, <3>5 DEF LogAppend
  <2> QED BY <2>1 DEF logVars
<1> QED BY <1>1, <1>2, LogInvCorrect, PTL DEF LogSpec

-----------------------------------------------------------------------------
(* The main loop. *)

\* The main loop appends one line, or what it has just read.
LEMMA LoopUsesLog ==
  ASSUME JobAssumption, LogAssumption, pipe \in Nat, [Next]_vars
  PROVE  /\ [\E n \in Chunks : LogAppend(n)]_logVars
         /\ pipe' \in Nat
<1>1. 1 \in Chunks /\ Chunks \subseteq Nat \ {0} /\ ReadSize \in Chunks
  BY DEF JobAssumption, LogAssumption, Chunks
<1>2. CASE Loop
  <2>1. CASE PollKey BY <2>1 DEF PollKey, jobVars
  <2>2. CASE TurnDone BY <2>2 DEF TurnDone, jobVars
  <2>3. CASE Fork BY <2>3 DEF Fork
  <2>4. CASE ForkFails BY <1>1, <2>4 DEF ForkFails
  <2>5. CASE NoJob BY <2>5 DEF NoJob, jobVars
  <2>6. CASE ReadSome
    <3> DEFINE n == IF pipe < ReadSize THEN pipe ELSE ReadSize
    <3>1. n \in Chunks /\ n <= pipe
      BY <1>1, <2>6 DEF ReadSome, Chunks, LogAssumption
    <3>2. LogAppend(n) /\ pipe' = pipe - n BY <2>6 DEF ReadSome
    <3> QED BY <1>1, <3>1, <3>2
  <2>7. CASE ReadAgain BY <2>7 DEF ReadAgain, jobVars
  <2>8. CASE ReadEof BY <1>1, <2>8 DEF ReadEof, EndJob
  <2> QED BY <1>2, <2>1, <2>2, <2>3, <2>4, <2>5, <2>6, <2>7, <2>8 DEF Loop
<1>3. CASE User
  BY <1>1, <1>3 DEF User, ButtonClicked, PowerItemClicked, MenuDismissed, BarHeld,
                    StartCmd, jobVars
<1>4. CASE Write
  BY <1>4 DEF Write, Output
<1>5. CASE Clock \/ Key
  BY <1>5 DEF Clock, Key, jobVars
<1>6. CASE \E j \in DOMAIN proc : Process(j)
  BY <1>6 DEF Process, MachineDown, Background, Redirect, ShellExits, ShellEnded,
              Shell, jobVars
<1>7. CASE UNCHANGED vars
  BY <1>7 DEF vars, jobVars
<1> QED BY <1>2, <1>3, <1>4, <1>5, <1>6, <1>7 DEF Next

\* The main loop only ever appends chunks that the log buffer is made for.
THEOREM GuiUsesLog == Spec => LogSpec
<1>1. Init => LogInit /\ pipe \in Nat BY DEF Init, JobInit
<1>2. pipe \in Nat /\ [Next]_vars
        => [\E n \in Chunks : LogAppend(n)]_logVars /\ (pipe \in Nat)'
  BY JobAssumption, LogAssumption, LoopUsesLog
<1> QED BY <1>1, <1>2, PTL DEF Spec, LogSpec

\* In the running GUI the text and its NUL stay within the allocation.
THEOREM LogFitsAlways == Spec => []LogFits
<1>1. LogInv => LogFits BY DEF LogInv
<1> QED BY <1>1, GuiUsesLog, LogInvCorrect, PTL

\* And the log page shows the newest part of what was said.
THEOREM LogKeepsTail == Spec => []LogIsRecent
<1>1. LogInv => LogIsRecent BY DEF LogInv
<1> QED BY <1>1, GuiUsesLog, LogInvCorrect, PTL

-----------------------------------------------------------------------------
(* Commands one at a time. *)

\* Whatever holds the writing end of a pipe belongs to the job the main loop
\* follows; between start_cmd's busy check and its fork there is no job.
JobInv == /\ proc \in Seq(Forked)
          /\ want \in Commands \cup {"none"}
          /\ running \in BOOLEAN
          /\ pc = "fork" => ~running /\ want \in Commands
          /\ \A j \in 1..Len(proc) : Holds(j) => running /\ j = Len(proc)

\* A step of a process changes only its own entry.
LEMMA ShellStep ==
  ASSUME proc \in Seq(Forked), NEW j \in 1..Len(proc), NEW b \in BOOLEAN,
         NEW s \in {"runs", "closing", "zombie", "reaped"}, Shell(j, s, b)
  PROVE  /\ proc' \in Seq(Forked)
         /\ Len(proc') = Len(proc)
         /\ \A i \in 1..Len(proc) : i # j => proc'[i] = proc[i]
         /\ proc'[j].shell = s /\ proc'[j].behind = b
<1> DEFINE p == [proc[j] EXCEPT !.shell = s, !.behind = b]
<1>1. proc[j] \in Forked OBVIOUS
<1>2. p \in Forked /\ p.shell = s /\ p.behind = b BY <1>1 DEF Forked
<1>3. proc' = [proc EXCEPT ![j] = p] BY DEF Shell
<1> HIDE DEF p
<1> QED BY <1>2, <1>3

\* No process gets hold of a pipe again once it has let it go.
LEMMA ProcessKeepsJob ==
  ASSUME JobInv, NEW j \in DOMAIN proc, Process(j)
  PROVE  JobInv'
<1>1. proc \in Seq(Forked) /\ j \in 1..Len(proc) /\ proc[j] \in Forked
  BY DEF JobInv
<1>2. CASE MachineDown(j)
  BY <1>2 DEF MachineDown, jobVars, JobInv, Holds
<1>3. ASSUME NEW s \in {"runs", "closing", "zombie", "reaped"}, NEW b \in BOOLEAN,
             Shell(j, s, b), s = "runs" \/ b => Holds(j), UNCHANGED pc
      PROVE  JobInv'
  <2>1. /\ proc' \in Seq(Forked)
        /\ Len(proc') = Len(proc)
        /\ \A i \in 1..Len(proc) : i # j => proc'[i] = proc[i]
        /\ proc'[j].shell = s /\ proc'[j].behind = b
    BY <1>1, <1>3, ShellStep
  <2>2. UNCHANGED <<running, want>> BY <1>3 DEF Shell
  <2>3. ASSUME NEW i \in 1..Len(proc), Holds(i)'
        PROVE  Holds(i)
    BY <1>3, <2>1, <2>3 DEF Holds
  <2> QED BY <1>3, <2>1, <2>2, <2>3 DEF JobInv
<1>4. CASE Background(j) /\ UNCHANGED pc
  BY <1>3, <1>4 DEF Background, Holds
<1>5. CASE Redirect(j) /\ UNCHANGED pc
  BY <1>1, <1>3, <1>5 DEF Redirect, Forked, Holds
<1>6. CASE ShellExits(j) /\ UNCHANGED pc
  BY <1>3, <1>6 DEF ShellExits
<1>7. CASE ShellEnded(j) /\ UNCHANGED pc
  BY <1>1, <1>3, <1>7 DEF ShellEnded, Forked, Holds
<1> QED BY <1>2, <1>4, <1>5, <1>6, <1>7 DEF Process

\* No more than one command is at work, whatever the user touches and
\* whenever processes print, stay behind and end.
THEOREM OneJobAtATime == Spec => []JobInv
<1>1. Init => JobInv
  <2> SUFFICES ASSUME Init PROVE JobInv
    OBVIOUS
  <2>1. pc = "keys" /\ running = FALSE /\ want = "none" /\ proc = << >>
    BY DEF Init, JobInit
  <2>2. proc \in Seq(Forked) /\ Len(proc) = 0 BY <2>1
  <2>3. \A j \in 1..Len(proc) : Holds(j) => running /\ j = Len(proc)
    BY <2>2
  <2>4. running \in BOOLEAN /\ (pc = "fork" => ~running /\ want \in Commands)
    BY <2>1
  <2> QED BY <2>1, <2>2, <2>3, <2>4 DEF JobInv
<1>2. JobInv /\ [Next]_vars => JobInv'
  <2> SUFFICES ASSUME JobInv, [Next]_vars PROVE JobInv'
    OBVIOUS
  <2>1. CASE PollKey \/ TurnDone \/ NoJob \/ ReadSome \/ ReadAgain
    BY <2>1 DEF PollKey, TurnDone, NoJob, ReadSome, ReadAgain, jobVars, JobInv, Holds
  <2>2. CASE Fork
    <3> DEFINE new == [cmd |-> want, shell |-> "runs", behind |-> FALSE]
    <3>1. new \in Forked BY <2>2 DEF Fork, JobInv, Forked
    <3>2. proc' = Append(proc, new) /\ running' = TRUE /\ pc' = "timers" /\ want' = "none"
      BY <2>2 DEF Fork
    <3>3. /\ proc' \in Seq(Forked) /\ Len(proc') = Len(proc) + 1
          /\ \A i \in 1..Len(proc) : proc'[i] = proc[i]
      BY <3>1, <3>2 DEF JobInv
    <3>4. \A i \in 1..Len(proc) : ~Holds(i)' BY <2>2, <3>3 DEF Fork, JobInv, Holds
    <3> QED BY <3>2, <3>3, <3>4 DEF JobInv
  <2>3. CASE ForkFails
    BY <2>3 DEF ForkFails, JobInv, Holds
  <2>4. CASE ReadEof
    <3>1. /\ proc \in Seq(Forked) /\ running /\ ~Holds(Job)
          /\ running' = FALSE /\ pc' = "timers" /\ want' = want
      BY <2>4 DEF ReadEof, EndJob, JobInv
    <3>2. \A i \in 1..Len(proc) : ~Holds(i) BY <3>1 DEF JobInv, Job
    <3>3. CASE proc' = proc
      BY <3>1, <3>2, <3>3 DEF JobInv, Holds
    <3>4. CASE /\ proc[Job].shell = "zombie"
               /\ proc' = [proc EXCEPT ![Job].shell = "reaped"]
      <4>1. CASE Job \in 1..Len(proc)
        <5> DEFINE p == [proc[Job] EXCEPT !.shell = "reaped"]
        <5>0. proc[Job] \in Forked BY <3>1, <4>1
        <5>1. p \in Forked /\ p.shell = "reaped" /\ p.behind = proc[Job].behind
          BY <5>0 DEF Forked
        <5>2. proc' = [proc EXCEPT ![Job] = p] BY <3>4
        <5> HIDE DEF p
        <5>3. proc' \in Seq(Forked) /\ Len(proc') = Len(proc)
          BY <3>1, <4>1, <5>1, <5>2
        <5>4. \A i \in 1..Len(proc) : ~Holds(i)'
          BY <3>1, <3>2, <4>1, <5>1, <5>2 DEF Holds
        <5> QED BY <3>1, <5>3, <5>4 DEF JobInv
      <4>2. CASE Job \notin 1..Len(proc)
        <5>1. proc' = proc BY <3>1, <3>4, <4>2
        <5> QED BY <3>1, <3>2, <5>1 DEF JobInv, Holds
      <4> QED BY <4>1, <4>2
    <3> QED BY <2>4, <3>3, <3>4 DEF ReadEof, EndJob
  <2>5. CASE User
    BY <2>5 DEF User, ButtonClicked, PowerItemClicked, MenuDismissed, BarHeld, StartCmd,
                jobVars, JobInv, Holds, Commands, MayAsk
  <2>6. CASE Write \/ Clock \/ Key
    BY <2>6 DEF Write, Output, Clock, Key, jobVars, JobInv, Holds
  <2>7. CASE \E j \in DOMAIN proc : Process(j)
    BY <2>7, ProcessKeepsJob
  <2>8. CASE UNCHANGED vars
    BY <2>8 DEF vars, jobVars, JobInv, Holds
  <2> QED BY <2>1, <2>2, <2>3, <2>4, <2>5, <2>6, <2>7, <2>8 DEF Next, Loop
<1> QED BY <1>1, <1>2, PTL DEF Spec

\* So the reboot of the power menu cuts off no other command.
THEOREM RebootCutsNothingOff == Spec => []RebootIsAlone
<1>1. JobInv => RebootIsAlone BY DEF JobInv, RebootIsAlone, Job
<1> QED BY <1>1, OneJobAtATime, PTL

\* A job's end is not noticed before its output was read to the end and nobody
\* can write any more, whatever it leaves in the background.
THEOREM EndIsNoticedLast == Spec => EndIsTheEnd
<1>1. [Next]_vars => (running /\ ~running' => pipe = 0 /\ ~Holds(Job))
  <2> SUFFICES ASSUME [Next]_vars, running, ~running'
               PROVE  pipe = 0 /\ ~Holds(Job)
    OBVIOUS
  <2>1. CASE Loop
    BY <2>1 DEF Loop, PollKey, TurnDone, Fork, ForkFails, NoJob, ReadSome, ReadAgain,
                ReadEof, jobVars
  <2>2. CASE User \/ Write \/ Clock \/ Key
    BY <2>2 DEF User, ButtonClicked, PowerItemClicked, MenuDismissed, BarHeld, StartCmd,
                Write, Output, Clock, Key, jobVars
  <2>3. CASE \E j \in DOMAIN proc : Process(j)
    BY <2>3 DEF Process, MachineDown, Background, Redirect, ShellExits, ShellEnded,
                Shell, jobVars
  <2>4. CASE UNCHANGED vars
    BY <2>4 DEF vars, jobVars
  <2>5. QED
    BY <2>1, <2>2, <2>3, <2>4 DEF Next
<1>2. QED
  BY <1>1, PTL DEF Spec, EndIsTheEnd

-----------------------------------------------------------------------------
(* The power key. *)

KeyOrOther == {"press", "release", "other"}

KeyTypes ==
  /\ key \in BOOLEAN /\ asked \in BOOLEAN /\ down \in BOOLEAN /\ shown \in BOOLEAN
  /\ held \in 0..HoldTime /\ since \in 0..HoldTime
  /\ keys \in Seq(KeyOrOther)

\* What was read is what the key does, and the clock of the GUI never runs
\* ahead of the press.
AllRead == (down <=> key) /\ (down => since <= held /\ (asked => shown))

\* What is queued last is what the key does, and nobody asked about it yet.
SomeUnread == (EndsDown(keys) <=> key) /\ ~asked

KeyInv == /\ KeyTypes
          /\ Presses(keys) = {} => AllRead
          /\ Presses(keys) # {} => SomeUnread

\* Of an event more in the queue, a press or release is the last of them.
LEMMA EventAdded ==
  ASSUME NEW q \in Seq(KeyOrOther), NEW e \in KeyOrOther,
         NEW r, r = Append(q, e)
  PROVE  /\ r \in Seq(KeyOrOther)
         /\ e = "other" => /\ Presses(r) = Presses(q)
                           /\ EndsDown(r) <=> EndsDown(q)
         /\ e # "other" => /\ Presses(r) # {}
                           /\ EndsDown(r) <=> e = "press"
<1>1. /\ r \in Seq(KeyOrOther) /\ DOMAIN q = 1..Len(q) /\ Len(q) \in Nat
      /\ DOMAIN r = 1..Len(q) + 1
      /\ r[Len(q) + 1] = e
      /\ \A i \in 1..Len(q) : r[i] = q[i]
  OBVIOUS
<1>2. CASE e = "other"
  <2>1. Presses(r) = Presses(q)
    BY <1>1, <1>2 DEF Presses
  <2>2. \A i \in Presses(q) : r[i] = q[i]
    BY <1>1 DEF Presses
  <2>3. QED
    BY <1>1, <1>2, <2>1, <2>2 DEF EndsDown
<1>3. CASE e # "other"
  <2>1. /\ Len(q) + 1 \in Presses(r)
        /\ \A i \in Presses(r) : i \in Nat /\ i <= Len(q) + 1
    BY <1>1, <1>3 DEF Presses, KeyOrOther
  <2>2. EndsDown(r) <=> e = "press"
    BY <1>1, <2>1 DEF EndsDown
  <2>3. QED
    BY <1>1, <1>3, <2>1, <2>2
<1>4. QED
  BY <1>2, <1>3

\* KeyInv is inductive.
LEMMA KeyInductive ==
  ASSUME KeyInv, [Next]_vars
  PROVE  KeyInv'
<1>1. HoldTime \in Nat \ {0}
  BY KeyAssumption
<1>2. CASE PollKey
  <2>1. Presses(keys') = {}
    BY <1>2 DEF PollKey, PowerKeyPoll, Presses
  <2>2. CASE Presses(keys) = {}
    <3>1. AfterEvents(keys) = [down |-> down, since |-> since, shown |-> shown]
      BY <2>2 DEF AfterEvents
    <3>2. QED
      BY <1>1, <1>2, <2>1, <2>2, <3>1 DEF PollKey, PowerKeyPoll, Decide,
         KeyInv, KeyTypes, AllRead, SomeUnread
  <2>3. CASE Presses(keys) # {}
    <3>1. AfterEvents(keys) = [down |-> EndsDown(keys), since |-> 0, shown |-> FALSE]
      BY <2>3 DEF AfterEvents
    <3>2. EndsDown(keys) \in BOOLEAN
      BY DEF EndsDown
    <3>3. /\ down' = EndsDown(keys) /\ since' = 0 /\ shown' = FALSE
          /\ UNCHANGED <<key, held, asked>> /\ keys' = << >>
      BY <1>1, <1>2, <2>3, <3>1 DEF PollKey, PowerKeyPoll, Decide,
         KeyInv, KeyTypes, AllRead, SomeUnread
    <3>4. keys' \in Seq(KeyOrOther)
      BY <3>3
    <3>5. KeyTypes'
      <4>1. key' \in BOOLEAN /\ asked' \in BOOLEAN /\ down' \in BOOLEAN /\ shown' \in BOOLEAN
        BY <3>2, <3>3 DEF KeyInv, KeyTypes
      <4>2. held' \in 0..HoldTime /\ since' \in 0..HoldTime
        BY <1>1, <3>3 DEF KeyInv, KeyTypes
      <4>3. QED
        BY <3>4, <4>1, <4>2 DEF KeyTypes
    <3>6. EndsDown(keys) <=> key
      BY <2>3 DEF KeyInv, SomeUnread
    <3>7. ~asked /\ held \in 0..HoldTime
      BY <2>3 DEF KeyInv, SomeUnread, KeyTypes
    <3>8. AllRead'
      BY <1>1, <3>3, <3>6, <3>7 DEF AllRead
    <3>9. QED
      BY <2>1, <3>5, <3>8 DEF KeyInv, Presses
  <2>4. QED
    BY <2>2, <2>3
<1>3. CASE Key
  <2>1. ASSUME Press PROVE KeyInv'
    <3>1. keys' = Append(keys, "press") /\ keys \in Seq(KeyOrOther)
      BY <2>1 DEF Press, Event, KeyInv, KeyTypes
    <3>2. keys' \in Seq(KeyOrOther) /\ Presses(keys') # {} /\ EndsDown(keys')
      BY <3>1, EventAdded DEF KeyOrOther
    <3>3. QED
      <4>1. /\ key' = TRUE /\ held' = 0 /\ asked' = FALSE
            /\ UNCHANGED <<down, since, shown>>
        BY <2>1 DEF Press
      <4>2. KeyTypes'
        <5>1. key' \in BOOLEAN /\ asked' \in BOOLEAN /\ down' \in BOOLEAN /\ shown' \in BOOLEAN
          BY <4>1 DEF KeyInv, KeyTypes
        <5>2. held' \in 0..HoldTime /\ since' \in 0..HoldTime
          BY <1>1, <4>1 DEF KeyInv, KeyTypes
        <5>3. QED
          BY <3>2, <5>1, <5>2 DEF KeyTypes
      <4>3. SomeUnread'
        BY <3>2, <4>1 DEF SomeUnread, EndsDown, Presses
      <4>4. QED
        BY <3>2, <4>2, <4>3 DEF KeyInv, Presses
  <2>2. ASSUME Release PROVE KeyInv'
    <3>1. keys' = Append(keys, "release") /\ keys \in Seq(KeyOrOther)
      BY <2>2 DEF Release, Event, KeyInv, KeyTypes
    <3>2. keys' \in Seq(KeyOrOther) /\ Presses(keys') # {} /\ ~EndsDown(keys')
      BY <3>1, EventAdded DEF KeyOrOther
    <3>3. QED
      <4>1. /\ key' = FALSE /\ held' = 0 /\ asked' = FALSE
            /\ UNCHANGED <<down, since, shown>>
        BY <2>2 DEF Release
      <4>2. KeyTypes'
        <5>1. key' \in BOOLEAN /\ asked' \in BOOLEAN /\ down' \in BOOLEAN /\ shown' \in BOOLEAN
          BY <4>1 DEF KeyInv, KeyTypes
        <5>2. held' \in 0..HoldTime /\ since' \in 0..HoldTime
          BY <1>1, <4>1 DEF KeyInv, KeyTypes
        <5>3. QED
          BY <3>2, <5>1, <5>2 DEF KeyTypes
      <4>3. SomeUnread'
        BY <3>2, <4>1 DEF SomeUnread, EndsDown, Presses
      <4>4. QED
        BY <3>2, <4>2, <4>3 DEF KeyInv, Presses
  <2>3. ASSUME OtherEvent PROVE KeyInv'
    <3>1. keys' = Append(keys, "other") /\ keys \in Seq(KeyOrOther)
      BY <2>3 DEF OtherEvent, Event, KeyInv, KeyTypes
    <3>2. /\ keys' \in Seq(KeyOrOther) /\ Presses(keys') = Presses(keys)
          /\ EndsDown(keys') <=> EndsDown(keys)
      BY <3>1, EventAdded DEF KeyOrOther
    <3>3. UNCHANGED <<key, held, asked, down, since, shown>>
      BY <2>3 DEF OtherEvent, keyVars
    <3>4. KeyTypes'
      BY <3>2, <3>3 DEF KeyInv, KeyTypes
    <3>5. /\ AllRead => AllRead'
          /\ SomeUnread => SomeUnread'
      BY <3>2, <3>3 DEF AllRead, SomeUnread, EndsDown, Presses
    <3>6. QED
      BY <3>2, <3>4, <3>5 DEF KeyInv, Presses
  <2>4. QED
    BY <1>3, <2>1, <2>2, <2>3 DEF Key
<1>4. CASE Clock
  BY <1>1, <1>4 DEF Clock, ClockTick, Later, KeyInv, KeyTypes, AllRead,
     SomeUnread, Presses, EndsDown
<1>5. CASE UNCHANGED <<keyVars, pollVars>>
  BY <1>5 DEF keyVars, pollVars, KeyInv, KeyTypes, AllRead, SomeUnread, Presses, EndsDown
<1>6. CASE Loop \/ User \/ Write \/ \E j \in DOMAIN proc : Process(j)
  BY <1>2, <1>5, <1>6 DEF Loop, TurnDone, User, ButtonClicked, PowerItemClicked,
     MenuDismissed, MenuHide, BarHeld, Write, Process, guiVars
<1>7. QED
  BY <1>3, <1>4, <1>5, <1>6 DEF Next, vars, guiVars

\* The key's device, its queue and the poll agree.
THEOREM KeyInvCorrect == Spec => []KeyInv
<1>1. Init => KeyInv
  <2> SUFFICES ASSUME Init PROVE KeyInv
    OBVIOUS
  <2>1. Presses(keys) = {}
    BY DEF Init, KeyInit, Presses
  <2>2. /\ key = FALSE /\ asked = FALSE /\ down = FALSE /\ shown = FALSE
        /\ held = 0 /\ since = 0 /\ keys = << >>
    BY DEF Init, KeyInit
  <2>3. held \in 0..HoldTime /\ since \in 0..HoldTime
    BY <2>2, KeyAssumption
  <2>4. QED
    BY <2>1, <2>2, <2>3, EmptySeq DEF KeyInv, KeyTypes, AllRead
<1>2. QED
  BY <1>1, KeyInductive, PTL DEF Spec

\* The menu comes by itself only for a key that has been held down long enough
\* and still is, and once for a press, for every hold time and length of the
\* device's queue, and however long the main loop was away.
THEOREM MenuNeedsLongPress == Spec => MenuIsMeant
<1>1. KeyInv /\ [Next]_vars
        => (PollKey /\ menu' /\ ~menu => key /\ held = HoldTime /\ ~asked)
  <2> SUFFICES ASSUME KeyInv, PollKey, menu', ~menu
               PROVE  key /\ held = HoldTime /\ ~asked
    OBVIOUS
  <2>1. HoldTime \in Nat \ {0}
    BY KeyAssumption
  <2>2. LET f == AfterEvents(keys) IN f.down /\ ~f.shown /\ f.since >= HoldTime
    BY DEF PollKey, PowerKeyPoll, Decide
  <2>3. CASE Presses(keys) = {}
    <3>1. AfterEvents(keys) = [down |-> down, since |-> since, shown |-> shown]
      BY <2>3 DEF AfterEvents
    <3>2. QED
      BY <2>1, <2>2, <2>3, <3>1 DEF KeyInv, KeyTypes, AllRead
  <2>4. CASE Presses(keys) # {}
    BY <2>1, <2>2, <2>4 DEF AfterEvents
  <2>5. QED
    BY <2>3, <2>4
<1>2. QED
  BY <1>1, KeyInvCorrect, PTL DEF Spec, MenuIsMeant

-----------------------------------------------------------------------------
(* The input devices. *)

\* A set of natural numbers has a least one.
LEMMA LeastNumber ==
  ASSUME NEW S, S \subseteq Nat, S # {}
  PROVE  \E l \in S : \A k \in S : l <= k
  <1>1. \E x \in S : \A y \in S : ~(<<y, x>> \in OpToRel(<, Nat))
    BY WFMin, NatLessThanWellFounded
  <1>2. PICK x \in S : \A y \in S : ~(<<y, x>> \in OpToRel(<, Nat))
    BY <1>1
  <1>3. \A y \in S : <<y, x>> \in Nat \X Nat /\ (y < x => <<y, x>> \in OpToRel(<, Nat))
    BY DEF OpToRel
  <1>4. \A y \in S : ~(y < x)
    BY <1>2, <1>3
  <1>5. QED
    BY <1>4

\* Of nodes whose scores are bounded, Best is one, and none has a better score.
LEMMA BestIsBest ==
  ASSUME NEW C, C \subseteq Nat, C # {}, NEW score \in [C -> Int],
         NEW top \in Int, \A n \in C : score[n] <= top
  PROVE  /\ Best(score) \in C
         /\ \A n \in C : score[n] <= score[Best(score)]
  <1> DEFINE below == {top - score[n] : n \in C}
             best == {n \in DOMAIN score : \A m \in DOMAIN score : score[m] <= score[n]}
  <1>1. below \subseteq Nat /\ below # {}
    <2>1. \A n \in C : top - score[n] \in Nat
      OBVIOUS
    <2>2. QED
      BY <2>1
  <1>2. PICK l \in below : \A k \in below : l <= k
    BY <1>1, LeastNumber
  <1>3. PICK n \in C : l = top - score[n]
    BY <1>2
  <1>4. ASSUME NEW m \in C PROVE score[m] <= score[n]
    <2>1. l <= top - score[m]
      BY <1>2
    <2>2. QED
      BY <1>3, <2>1
  <1>5. n \in best /\ best \subseteq Nat
    BY <1>4
  <1>6. PICK b \in best : \A k \in best : b <= k
    BY <1>5, LeastNumber
  <1>7. Min(best) \in best
    BY <1>6 DEF Min
  <1>8. Best(score) = Min(best)
    BY DEF Best
  <1>9. QED
    BY <1>7, <1>8

-----------------------------------------------------------------------------
(* What main has found when it looks for the power key. *)

LEMMA PickTouchType ==
  ASSUME InputTypeOK
  PROVE  \/ PickTouch = None
         \/ PickTouch \in present /\ TouchCandidate(device[PickTouch])
  <1> DEFINE C == {n \in present : TouchCandidate(device[n])}
             score == [n \in C |-> TouchScore(device[n])]
  <1>1. CASE C = {}
    BY <1>1 DEF PickTouch
  <1>2. CASE C # {}
    <2>1. C \subseteq Nat /\ C \subseteq present
      BY InputAssumption DEF InputTypeOK
    <2>2. ASSUME NEW n \in C PROVE score[n] \in Int /\ score[n] <= 23
      <3>1. device[n] \in Kinds
        BY DEF InputTypeOK
      <3>2. device[n].touchName \in Int /\ device[n].touchName <= 6
        BY <3>1, InputAssumption
      <3>3. score[n] = TouchScore(device[n])
        OBVIOUS
      <3>4. QED
        BY <3>2, <3>3 DEF TouchScore, Count
    <2>3. score \in [C -> Int] /\ 23 \in Int /\ \A n \in C : score[n] <= 23
      <3>1. \A n \in C : TouchScore(device[n]) \in Int
        BY <2>2
      <3>2. QED
        BY <2>2, <3>1
    <2>4. PickTouch = Best(score)
      BY <1>2 DEF PickTouch
    <2>5. Best(score) \in C
      <3> HIDE DEF C, score
      <3>1. QED
        BY <1>2, <2>1, <2>3, BestIsBest
    <2>6. QED
      BY <2>4, <2>5
  <1>3. QED
    BY <1>1, <1>2

\* Without hints a node has a score above 7 only for the key itself.
LEMMA PowerScores ==
  ASSUME NEW d \in Kinds
  PROVE  /\ PowerScore(d) \in 0..1041
         /\ d.hints = 0 => ("power" \in d.keys <=> PowerScore(d) >= 10)
  BY InputAssumption, SMTT(40) DEF PowerScore, Count

\* pick_power_event: a candidate, and without hints one with the key if any
\* has it.
LEMMA PickPowerIsRight ==
  ASSUME InputTypeOK
  PROVE  /\ PickPower(path) = None \/ PickPower(path) \in present \ {path}
         /\ /\ \A n \in Nodes : device[n].hints = 0
            /\ \E n \in present \ {path} : "power" \in device[n].keys
            =>
              /\ PickPower(path) # None
              /\ "power" \in device[PickPower(path)].keys
  <1> DEFINE C == {n \in present \ {path} : device[n].keys # {}}
             score == [n \in C |-> PowerScore(device[n])]
  <1>1. C \subseteq Nat /\ C \subseteq Nodes /\ C \subseteq present \ {path} /\ None \notin C
    BY InputAssumption DEF InputTypeOK
  <1>2. \A n \in C : score[n] = PowerScore(device[n])
    OBVIOUS
  <1>3. \A n \in C : /\ score[n] \in 0..1041
                     /\ device[n].hints = 0 =>
                          ("power" \in device[n].keys <=> score[n] >= 10)
    <2>1. \A n \in C : device[n] \in Kinds
      BY <1>1 DEF InputTypeOK
    <2>2. QED
      BY <1>2, <2>1, PowerScores
  <1>4. score \in [C -> Int]
    <2>1. \A n \in C : PowerScore(device[n]) \in Int
      <3> HIDE DEF score
      <3>1. QED
        BY <1>2, <1>3
    <2>2. QED
      BY <2>1
  <1>5. CASE \A n \in C : PowerScore(device[n]) <= 0
    <2>1. PickPower(path) = None
      BY <1>5 DEF PickPower
    <2>2. ASSUME \A n \in Nodes : device[n].hints = 0
          PROVE  \A n \in present \ {path} : "power" \notin device[n].keys
      <3>1. \A n \in present \ {path} : "power" \in device[n].keys => n \in C
        OBVIOUS
      <3>2. \A n \in C : score[n] <= 0
        BY <1>2, <1>5
      <3> HIDE DEF C, score
      <3>3. \A n \in C : ~(score[n] >= 10)
        BY <1>3, <3>2, SMTT(40)
      <3>4. QED
        BY <1>1, <1>3, <2>2, <3>1, <3>3
    <2>3. QED
      BY <2>1, <2>2
  <1>6. CASE \E n \in C : ~(PowerScore(device[n]) <= 0)
    <2>1. PickPower(path) = Best(score)
      BY <1>6 DEF PickPower
    <2>2. /\ Best(score) \in C
          /\ \A n \in C : score[n] <= score[Best(score)]
      <3>1. C # {}
        BY <1>6
      <3> HIDE DEF C, score
      <3> DEFINE top == 1041
      <3>2. top \in Int /\ \A n \in C : score[n] <= top
        BY <1>3
      <3> HIDE DEF top
      <3>3. C \subseteq Nat
        BY <1>1
      <3>4. Best(score) \in C
        BY <1>4, <3>1, <3>2, <3>3, BestIsBest
      <3>5. \A n \in C : score[n] <= score[Best(score)]
        BY <1>4, <3>1, <3>2, <3>3, BestIsBest
      <3>6. QED
        BY <3>4, <3>5
    <2>3. ASSUME \A m \in Nodes : device[m].hints = 0,
                 NEW n \in present \ {path}, "power" \in device[n].keys
          PROVE  "power" \in device[Best(score)].keys
      <3>1. n \in C
        BY <2>3
      <3> HIDE DEF C, score
      <3>2. score[n] >= 10 /\ score[n] <= score[Best(score)]
        BY <1>1, <1>3, <2>2, <2>3, <3>1, ZenonT(60)
      <3>3. score[Best(score)] \in Int /\ score[n] \in Int
        BY <1>4, <2>2, <3>1
      <3>4. score[Best(score)] >= 10
        BY <3>2, <3>3
      <3>5. QED
        BY <1>1, <1>3, <2>2, <2>3, <3>4, ZenonT(60)
    <2>4. QED
      BY <1>1, <2>1, <2>2, <2>3
  <1>7. QED
    BY <1>5, <1>6

-----------------------------------------------------------------------------
\* ev_path, until the power key is looked for: empty, the device touches are
\* read from, or at least a touch device.
PathInv ==
  /\ at = "configured" => path = None /\ touch = None
  /\ at = "attach" => path # None
  /\ at \in {"look", "attach"} => touch = None
  /\ at \in {"look", "attach", "power"} =>
       path = None \/ path = touch \/ TouchCandidate(device[path])
  /\ at = "power" => touch \in {None, path}

\* Types and PathInv are inductive.
LEMMA PathInductive ==
  ASSUME InputTypeOK, PathInv, [InputNext]_inputVars
  PROVE  InputTypeOK' /\ PathInv'
  <1> USE DEF InputTypeOK, PathInv, kernelVars
  <1>1. CASE Configured
    BY <1>1 DEF Configured, Goes
  <1>2. CASE Look
    <2>1. MaxTries \in Nat /\ (tries # 0 => tries - 1 \in 0..MaxTries)
      BY InputAssumption
    <2>2. QED
      BY <1>2, <2>1, PickTouchType DEF Look, Goes
  <1>3. CASE Attach
    BY <1>3 DEF Attach, Goes
  <1>4. CASE OpenPower
    BY <1>4, PickPowerIsRight DEF OpenPower, Goes
  <1>5. CASE LateLook
    BY <1>5, PickTouchType DEF LateLook, Goes
  <1>6. CASE LateAttach
    BY <1>6 DEF LateAttach, Goes
  <1>7. CASE \E n \in Nodes : Add(n) \/ Remove(n)
    <2>1. MaxRemove \in Nat /\ (removed < MaxRemove => removed + 1 \in 0..MaxRemove)
      BY InputAssumption
    <2>2. QED
      BY <1>7, <2>1 DEF Add, Remove
  <1>8. CASE UNCHANGED inputVars
    BY <1>8 DEF inputVars
  <1>9. QED
    BY <1>1, <1>2, <1>3, <1>4, <1>5, <1>6, <1>7, <1>8 DEF InputNext, Main

\* Every variable keeps its type, and ev_path what is said of it.
THEOREM DevicesCorrect == InputSpec => [](InputTypeOK /\ PathInv)
  <1>1. InputInit => InputTypeOK /\ PathInv
    BY InputAssumption DEF InputInit, InputTypeOK, PathInv
  <1>2. QED
    BY <1>1, PathInductive, PTL DEF InputSpec

\* The device read for the power key is not the touch device, and has the key
\* if any other node has it, for every set of nodes and every device, among
\* them touchscreens that wake the phone, and however nodes come and go.
THEOREM PowerKeyIsFound == InputSpec => PowerKeyIsRead
  <1>1. InputTypeOK /\ PathInv /\ [InputNext]_inputVars =>
          (at = "power" /\ at' = "loop" /\ config.power = None
             /\ (\A n \in Nodes : device[n].hints = 0) =>
             /\ power' # None => power' # touch
             /\ (\E n \in present \ {touch} :
                   "power" \in device[n].keys /\ ~TouchCandidate(device[n])) =>
                  power' # None /\ "power" \in device[power'].keys)
    <2> SUFFICES ASSUME InputTypeOK, PathInv, [InputNext]_inputVars, at = "power", at' = "loop",
                        config.power = None, \A n \in Nodes : device[n].hints = 0
                 PROVE  /\ power' # None => power' # touch
                        /\ (\E n \in present \ {touch} :
                              "power" \in device[n].keys /\ ~TouchCandidate(device[n])) =>
                             power' # None /\ "power" \in device[power'].keys
      OBVIOUS
    <2>1. power' = PickPower(path)
      BY DEF InputNext, Main, Configured, Look, Attach, OpenPower, LateLook, LateAttach,
         Goes, Add, Remove, inputVars
    <2>2. power' # None => power' # touch
      BY <2>1, PickPowerIsRight, InputAssumption DEF InputTypeOK, PathInv
    <2>3. ASSUME NEW n \in present \ {touch}, "power" \in device[n].keys,
                 ~TouchCandidate(device[n])
          PROVE  power' # None /\ "power" \in device[power'].keys
      <3>1. n # path
        BY <2>3, InputAssumption DEF InputTypeOK, PathInv
      <3>2. QED
        BY <2>1, <2>3, <3>1, PickPowerIsRight
    <2>4. QED
      BY <2>2, <2>3
  <1>2. QED
    BY <1>1, DevicesCorrect, PTL DEF InputSpec, PowerKeyIsRead
=============================================================================
