------------------------------ MODULE LineReader ------------------------------
(***************************************************************************)
(* How the install wizard and the first-boot wizard cut a child's output   *)
(* into lines: install_poll (gui/prp_wizard.c) and apply_poll              *)
(* (gui/oobe_wizard.c) read up to RdSize bytes into rd[] and move them one *)
(* by one into ibuf[]; a newline, or a full ibuf[], ends the line.  Both   *)
(* copies of the code are the same.  A NUL among the bytes is left out.    *)
(***************************************************************************)
EXTENDS Naturals, Sequences

CONSTANTS
  Chars,     \* the characters of a line
  NL,        \* '\n'
  Verdicts,  \* the lines that end the reading: DONE, ERROR
  IbufSize,  \* sizeof ibuf, 512
  RdSize,    \* sizeof rd, 256
  PipeSize,  \* what the kernel's pipe holds
  MaxLine,   \* bound: the longest line a child prints
  MaxBytes,  \* bound: bytes a child prints
  MaxRuns    \* bound: children

ASSUME ReaderAssumption ==
  /\ NL \notin Chars
  /\ {IbufSize, RdSize, PipeSize} \subseteq Nat \ {0}
  /\ {MaxLine, MaxBytes, MaxRuns} \subseteq Nat
  /\ << >> \notin Verdicts

VARIABLES
  writer,   \* is there a process that can still write?
  line,     \* what it has written of the line it is at
  written,  \* how many bytes it has written
  pipe,     \* bytes in the pipe
  rd,       \* bytes of rd[] that the loop has not looked at
  ibuf,     \* the text in ibuf[0 .. ilen-1]
  fd,       \* is W.install_fd / W.apply_fd open?
  taken,    \* the lines handed to parse_install_line / parse_apply_line
  runs      \* children so far

writerVars == <<writer, line, written>>
readerVars == <<rd, ibuf, fd, taken>>
vars == <<writerVars, pipe, readerVars, runs>>

Init == /\ writer = FALSE /\ line = << >> /\ written = 0
        /\ pipe = << >>
        /\ rd = << >> /\ ibuf = << >> /\ fd = FALSE /\ taken = << >>
        /\ runs = 0

\* start_real_install, start_real_apply: pipe, fork, W.ilen = 0.
Start == /\ ~fd /\ ~writer /\ runs < MaxRuns
         /\ runs' = runs + 1
         /\ writer' = TRUE /\ line' = << >> /\ written' = 0
         /\ pipe' = << >>
         /\ fd' = TRUE /\ rd' = << >> /\ ibuf' = << >> /\ taken' = << >>

-----------------------------------------------------------------------------
(* The child: any text, in writes of any size. *)

WriteChar(c) == /\ writer /\ fd
                /\ written < MaxBytes /\ Len(pipe) < PipeSize
                /\ c \in Chars => Len(line) < MaxLine
                /\ pipe' = Append(pipe, c)
                /\ line' = IF c = NL THEN << >> ELSE Append(line, c)
                /\ written' = written + 1
                /\ UNCHANGED <<writer, readerVars, runs>>

\* It ends, possibly in the middle of a line, or by SIGPIPE.
WriterEnds == /\ writer
              /\ writer' = FALSE
              /\ UNCHANGED <<line, written, pipe, readerVars, runs>>

-----------------------------------------------------------------------------
(* The poll timer.  The loop over rd[] is one step per byte; the timer is  *)
(* not called again before it is over.                                     *)

Shorter(m, n) == IF m < n THEN m ELSE n

\* (mutant of Read) a line does not survive the end of a read
ReadAfresh == /\ fd /\ rd = << >> /\ pipe # << >>
              /\ LET n == Shorter(Len(pipe), RdSize)
                 IN  /\ rd' = SubSeq(pipe, 1, n)
                     /\ pipe' = SubSeq(pipe, n + 1, Len(pipe))
              /\ ibuf' = << >>
              /\ UNCHANGED <<writerVars, fd, taken, runs>>

\* (mutant of Read) waits, as fread does, until rd[] can be filled
ReadFull == /\ fd /\ rd = << >> /\ pipe # << >>
            /\ Len(pipe) >= RdSize \/ ~writer
            /\ LET n == Shorter(Len(pipe), RdSize)
               IN  /\ rd' = SubSeq(pipe, 1, n)
                   /\ pipe' = SubSeq(pipe, n + 1, Len(pipe))
            /\ UNCHANGED <<writerVars, ibuf, fd, taken, runs>>

\* n = read(fd, rd, sizeof rd) > 0
Read == /\ fd /\ rd = << >> /\ pipe # << >>
        /\ LET n == Shorter(Len(pipe), RdSize)
           IN  /\ rd' = SubSeq(pipe, 1, n)
               /\ pipe' = SubSeq(pipe, n + 1, Len(pipe))
        /\ UNCHANGED <<writerVars, ibuf, fd, taken, runs>>

Full == Len(ibuf) + 1 >= IbufSize

\* The byte that finds ibuf[] full is dropped with the newlines.
KeepByte == /\ fd /\ rd # << >>
            /\ Head(rd) # NL /\ ~Full
            /\ ibuf' = Append(ibuf, Head(rd))
            /\ rd' = Tail(rd)
            /\ UNCHANGED <<writerVars, pipe, fd, taken, runs>>

\* parse_*_line, unless the line is empty; a verdict closes the pipe, and the
\* rest of rd[] is lost with it.
EndLine == /\ fd /\ rd # << >>
           /\ Head(rd) = NL \/ Full
           /\ taken' = IF ibuf = << >> THEN taken ELSE Append(taken, ibuf)
           /\ ibuf' = << >>
           /\ IF ibuf \in Verdicts
              THEN fd' = FALSE /\ rd' = << >> /\ pipe' = << >>
              ELSE rd' = Tail(rd) /\ UNCHANGED <<fd, pipe>>
           /\ UNCHANGED <<writerVars, runs>>

\* read() returns 0: what is left in ibuf was never ended and is not a line.
Eof == /\ fd /\ rd = << >> /\ pipe = << >> /\ ~writer
       /\ fd' = FALSE
       /\ UNCHANGED <<writerVars, pipe, rd, ibuf, taken, runs>>

Poll == Read \/ KeepByte \/ EndLine \/ Eof

Next == \/ Start
        \/ \E c \in Chars \cup {NL} : WriteChar(c)
        \/ WriterEnds
        \/ Poll

Spec == Init /\ [][Next]_vars

\* LVGL calls the timer every 150 ms; nothing is assumed of the child.
FairSpec == Spec /\ WF_vars(Poll)

-----------------------------------------------------------------------------
(* Properties. *)

\* ibuf[] never holds more than fits beside its closing NUL (W.ibuf[W.ilen] is
\* written at every line end), and rd[] no more than one read.
BufferFits ==
  /\ Len(ibuf) < IbufSize
  /\ Len(rd) <= RdSize
  /\ ibuf \in Seq(Chars)
=============================================================================
