----------------------------- MODULE MCLineReader -----------------------------
(***************************************************************************)
(* Model checking of LineReader: a small alphabet, and the refinement      *)
(* mapping to LineChannel.                                                 *)
(***************************************************************************)
EXTENDS LineReader

CONSTANTS a, d

MCChars == {a, d}
MCVerdicts == {<<d>>, <<d, d, d>>}

\* A text as it is read aloud, by a reader who needs no buffer: the non-empty
\* lines that a newline has ended, and the rest.
Hears(said, c) ==
  IF c # NL THEN [said EXCEPT !.rest = Append(@, c)]
  ELSE [ended |-> IF said.rest = << >> THEN said.ended ELSE Append(said.ended, said.rest),
        rest |-> << >>]

Said(text) ==
  LET after[n \in 0..Len(text)] ==
        IF n = 0 THEN [ended |-> << >>, rest |-> << >>] ELSE Hears(after[n - 1], text[n])
  IN  after[Len(text)]

Line == UNION {[1..n -> Chars] : n \in 1..MaxLine}
Text == ibuf \o rd \o pipe

Channel == INSTANCE LineChannel WITH
  chan <- IF fd THEN Said(Text).ended ELSE << >>,
  got <- taken,
  open <- fd

\* For lines that fit, the readers are the channel of whole lines the other
\* modules take them for, wherever a read, the pipe or ibuf[] ends.
KeepsLines == Channel!Spec

\* And what a child has said in whole lines arrives, whether or not it says more:
\* the reader never waits for another byte.
LinesArrive == Channel!Fairness
=============================================================================
