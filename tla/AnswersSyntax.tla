---------------------------- MODULE AnswersSyntax ----------------------------
(***************************************************************************)
(* An answer's way through the answers file: bp_answers_save               *)
(* (gui/blueprint.c) writes  key = "value"  as it is, and bp_answers_load  *)
(* reads the line with the TOML parser (gui/toml.c).  A value is a         *)
(* sequence of characters: "\"", "\\", "'", "#", "CR" for the control       *)
(* characters, the letter "t" an escape can name, "x" for those it cannot, *)
(* and "TAB".  A text field holds one line, so no line end is among them;  *)
(* \u escapes are left out.                                                *)
(***************************************************************************)
EXTENDS Integers, Sequences, FiniteSets, FiniteSetsExt

CONSTANTS
  Unreadable,  \* the file does not parse: bp_answers_load's empty store
  Missing      \* the line parses, but its value is no string: no such answer

DQ == "\""
BS == "\\"
Apostrophe == "'"
Hash == "#"
NL == "NL"
Return == "CR"
Tab == "TAB"
Control == {Return}              \* U+0000..1F and 7F, but for the tab
Escapes == {"t", DQ, BS}         \* of "btnfr\"\\"
Escaped(c) == IF c = "t" THEN Tab ELSE c

\* The line the value is written in, from its opening quote on, and what
\* follows: other lines, whose quotes come in pairs.
Written(value) == <<DQ>> \o value \o <<DQ, NL, "x">>

Run(text, p, c) == \A k \in 0..2 : p + k <= Len(text) /\ text[p + k] = c

\* The character at p is behind an odd number of backslashes.
IsEscaped(text, first, p) ==
  LET plain == {n \in first..(p - 1) : text[n] # BS}
      last == IF plain = {} THEN first - 1 ELSE Max(plain)
  IN  (p - 1 - last) % 2 = 1

\* The loops over escapes in scan_string.
BadEscape(text, first, last) ==
  \E p \in first..last : IsEscaped(text, first, p) /\ text[p] \notin Escapes

\* scan_string, a text that begins with one quote: the closing quote, or 0.
CloseBasic(text) ==
  LET stops == {p \in 2..Len(text) :
                  text[p] \in {DQ, NL} /\ ~IsEscaped(text, 2, p)}
      stop == Min(stops)
  IN  IF \/ stops = {} \/ text[stop] # DQ
         \/ BadEscape(text, 2, stop - 1)
         \/ \E p \in 2..(stop - 1) : ~IsEscaped(text, 2, p) /\ Run(text, p, Apostrophe)
      THEN 0 ELSE stop

\* scan_string, a text that begins with three quotes: the first of the three
\* that close it, or 0.
CloseTriple(text) ==
  LET ends == {p \in 4..Len(text) : Run(text, p, DQ) /\ text[p - 1] # BS}
      first == Min(ends)
      end == CHOOSE p \in first..Len(text) :
               /\ \A k \in first..(p + 2) : text[k] = DQ
               /\ p + 3 > Len(text) \/ text[p + 3] # DQ
  IN  IF ends = {} \/ BadEscape(text, 4, end - 1)
         \/ IsEscaped(text, 4, end) THEN 0 ELSE end

\* (mutant of Normalised) read as a literal string, escapes and all
NormalisedLiteral(text, first, last, multiline) == SubSeq(text, first, last)

\* toml_rtos, norm_basic_str: the escapes are resolved; a control character is
\* an error, but in a multi-line string line ends are none.  (scan_string has
\* refused a string that ends within an escape.)
Normalised(text, first, last, multiline) ==
  LET from[p \in first..(last + 1)] ==
        IF p > last THEN << >>
        ELSE IF p < last /\ text[p] = BS THEN <<Escaped(text[p + 1])>> \o from[p + 2]
        ELSE <<text[p]>> \o from[p + 1]
      bad == {p \in first..last : text[p] \in Control}
  IN  IF bad # {} /\ ~multiline THEN Missing ELSE from[first]

\* After the value only white space and a comment may follow on the line.
LineEnds(text, p) ==
  \E end \in p..Len(text) : /\ text[end] \in {NL, Hash}
                            /\ \A n \in p..(end - 1) : text[n] \in {" ", Return, Tab}

\* What bp_answers_load finds for the key.
ReadBack(value) ==
  LET text == Written(value)
      triple == Run(text, 1, DQ)
      close == IF triple THEN CloseTriple(text) ELSE CloseBasic(text)
      after == IF triple THEN close + 3 ELSE close + 1
  IN  IF close = 0 \/ ~LineEnds(text, after) THEN Unreadable
      ELSE IF triple THEN Normalised(text, 4, close - 1, TRUE)
                     ELSE Normalised(text, 2, close - 1, FALSE)

\* The values the file can carry.
Plain(value) ==
  /\ \A n \in DOMAIN value : value[n] \notin {DQ, BS} \cup Control
  /\ \A n \in DOMAIN value : ~Run(value, n, Apostrophe)
=============================================================================
