-------------------------------- MODULE UiLog --------------------------------
(***************************************************************************)
(* The log page's buffer (prp_ui_log_append in gui/prp_ui.c): text on the  *)
(* heap, allocated on the first call, doubled when it is too small and cut *)
(* to its newest half of max_keep when it has grown past that.  What is    *)
(* said is numbered character by character, so the text is a sequence of   *)
(* those numbers.                                                          *)
(***************************************************************************)
EXTENDS Integers, Sequences

CONSTANTS
  InitCap,      \* the first allocation (8192 in the code)
  MaxKeep,      \* longest text before the next cut (32768)
  MaxCap,       \* largest allocation (131072)
  MaxChunk,     \* longest chunk a caller appends (1023)
  MemFailures   \* how often malloc and realloc may return NULL

ASSUME LogAssumption == /\ {InitCap, MaxKeep, MaxCap, MaxChunk} \subseteq Nat \ {0}
                        /\ InitCap <= MaxCap
                        /\ MaxKeep + MaxChunk < MaxCap
                        /\ MemFailures \in Nat

VARIABLES
  text,         \* g_log_buf[0 .. g_log_len-1]
  cap,          \* g_log_cap, 0 without a buffer
  said,         \* how many characters were said so far
  short         \* how many chunks were lost for want of memory

logVars == <<text, cap, said, short>>

Chunks == 1..MaxChunk

LogInit == text = << >> /\ cap = 0 /\ said = 0 /\ short = 0

Newest(t, k) == SubSeq(t, Len(t) - k + 1, Len(t))
Fresh(n) == [i \in 1..n |-> said + i]

\* (mutant of Fits) without room for the closing NUL
FitsTightly(t, n, c) == Len(t) + n <= c

\* (mutant of Bounded) memmove forgotten: the oldest half is kept
BoundedOldest == IF Len(text) > MaxKeep THEN SubSeq(text, 1, MaxKeep \div 2)
                                        ELSE text

Fits(t, n, c) == Len(t) + n + 1 <= c

Buffer == IF cap = 0 THEN InitCap ELSE cap

Bounded == IF Len(text) > MaxKeep THEN Newest(text, MaxKeep \div 2) ELSE text

\* The capacity is doubled until the chunk fits, but MaxCap is the limit.
Powers == {2^k : k \in 0..MaxCap}
Doublings == {Buffer * p : p \in Powers} \cap Buffer..MaxCap
Enough(n) == {c \in Doublings : /\ Fits(Bounded, n, c)
                                /\ c = Buffer \/ ~Fits(Bounded, n, c \div 2)}
NewCap(n) == IF Enough(n) = {} THEN MaxCap ELSE CHOOSE c \in Enough(n) : TRUE

Cut(n) == IF ~Fits(Bounded, n, NewCap(n)) /\ Bounded # << >>
          THEN Newest(Bounded, Len(Bounded) \div 2)
          ELSE Bounded

\* The capacities the reallocation may leave.
Grown(n) == LET ok == Fits(Cut(n), n, NewCap(n))
            IN  {c \in {NewCap(n), Buffer} : IF c = NewCap(n) THEN ok ELSE short < MemFailures \/ ~ok}

\* Without a first allocation nothing can be kept.
NoBuffer == /\ cap = 0
            /\ short < MemFailures
            /\ short' = short + 1
            /\ UNCHANGED <<text, cap>>

Put(n) == /\ Fits(Bounded, n, Buffer)
          /\ text' = Bounded \o Fresh(n)
          /\ cap' = Buffer
          /\ UNCHANGED short

\* A chunk that does not fit after all is dropped.
GrowAndPut(n) ==
  /\ ~Fits(Bounded, n, Buffer)
  /\ \E c \in Grown(n) :
       /\ cap' = c
       /\ IF Fits(Cut(n), n, c)
          THEN text' = Cut(n) \o Fresh(n) /\ UNCHANGED short
          ELSE text' = Cut(n) /\ short' = short + 1

LogAppend(n) == /\ said' = said + n
                /\ NoBuffer \/ Put(n) \/ GrowAndPut(n)

LogSpec == LogInit /\ [][\E n \in Chunks : LogAppend(n)]_logVars

-----------------------------------------------------------------------------
LogTypeOK == /\ text \in Seq(Nat)
             /\ cap \in 0..MaxCap
             /\ said \in Nat
             /\ short \in Nat

\* The text and its closing NUL stay within the allocation, whatever the
\* sizes of the chunks and whichever allocations fail: prp_ui_log_append
\* writes g_log_buf[g_log_len] after every cut and every append.
LogFits == text # << >> => Len(text) < cap

\* prp_ui_log_append retains the tail: as long as memory does not run out,
\* the log page shows the newest characters said, without a gap, and at
\* least half of max_keep of them once that many were said.
LogIsRecent ==
  short = 0 => /\ \A i \in DOMAIN text : text[i] = said - Len(text) + i
               /\ Len(text) = said \/ Len(text) >= MaxKeep \div 2
=============================================================================
