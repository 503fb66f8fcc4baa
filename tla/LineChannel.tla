----------------------------- MODULE LineChannel -----------------------------
(***************************************************************************)
(* What the wizards' line readers promise, and what InstallPipe and        *)
(* OobeWizard build on: a channel of whole lines.  A line that was written *)
(* arrives once, in order and unchanged, however the bytes were cut into   *)
(* writes and reads; a verdict ends the channel, and so does the end of    *)
(* file once every whole line has arrived.                                 *)
(***************************************************************************)
EXTENDS Naturals, Sequences

CONSTANTS
  Line,     \* the lines that can be said
  Verdicts  \* those that make the reader close its end

VARIABLES
  chan,  \* whole lines that were said and have not arrived
  got,   \* the lines that have arrived, since the channel was opened
  open   \* does the reader hold its end?

chanVars == <<chan, got, open>>

Init == chan = << >> /\ got = << >> /\ open = FALSE

Open == /\ ~open
        /\ open' = TRUE
        /\ chan' = << >>
        /\ got' = << >>

Say == /\ open
       /\ \E line \in Line : chan' = Append(chan, line)
       /\ UNCHANGED <<got, open>>

Arrive == /\ open /\ chan # << >>
          /\ got' = Append(got, Head(chan))
          /\ IF Head(chan) \in Verdicts
             THEN open' = FALSE /\ chan' = << >>
             ELSE open' = TRUE /\ chan' = Tail(chan)

EndOfFile == /\ open /\ chan = << >>
             /\ open' = FALSE
             /\ UNCHANGED <<chan, got>>

Next == Open \/ Say \/ Arrive \/ EndOfFile

Spec == Init /\ [][Next]_chanVars

\* What was said arrives; nothing is promised of a writer that stays silent.
Fairness == WF_chanVars(Arrive)
=============================================================================
