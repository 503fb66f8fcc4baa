----------------------------- MODULE Expressions -----------------------------
(***************************************************************************)
(* The two little languages of a blueprint (gui/blueprint.c): `when`       *)
(* expressions over the answers, and ${key} templates.  A text is a        *)
(* sequence of characters; what the languages do not tell apart (a letter, *)
(* a word) is one character.  What does not fit into a buffer is cut, and  *)
(* what is left of it is evaluated.                                        *)
(***************************************************************************)
EXTENDS Integers, Sequences, FiniteSets, FiniteSetsExt

CONSTANTS
  MaxExpr,  \* characters of a `when` that bp_when_eval looks at, 511
  MaxAtom,  \* characters of a comparison that eval_atom looks at, 255
  MaxKey    \* the longest key a template can name, 127

ASSUME LimitsAssumption == {MaxExpr, MaxAtom, MaxKey} \subseteq Nat

Blank == " "
Bar == "|"
Ampersand == "&"
Equals == "="
Bang == "!"
Quotes == {"\"", "'"}

\* bp_answers_get, where NULL is read as ""
Lookup(ans, key) == IF key \in DOMAIN ans THEN ans[key] ELSE << >>

\* snprintf into a buffer for max characters and the final zero
Held(text, max) == IF Len(text) <= max THEN text ELSE SubSeq(text, 1, max)

-----------------------------------------------------------------------------
(* `when`. *)

\* (mutant of Parts) the last part is lost
PartsButLast(text, sep) ==
  LET cuts == {0} \cup {n \in DOMAIN text : text[n] = sep}
      runs == {p \in cuts \X cuts :
                 p[1] + 1 < p[2] /\ \A r \in cuts : r <= p[1] \/ r >= p[2]}
  IN  {SubSeq(text, p[1] + 1, p[2] - 1) : p \in runs}

\* strtok_r: the runs of characters other than the separator.
Parts(text, sep) ==
  LET cuts == {0, Len(text) + 1} \cup {n \in DOMAIN text : text[n] = sep}
      runs == {p \in cuts \X cuts :
                 p[1] + 1 < p[2] /\ \A r \in cuts : r <= p[1] \/ r >= p[2]}
  IN  {SubSeq(text, p[1] + 1, p[2] - 1) : p \in runs}

\* trim
Trim(text) ==
  LET kept == {n \in DOMAIN text : text[n] # Blank}
  IN  IF kept = {} THEN << >> ELSE SubSeq(text, Min(kept), Max(kept))

Unquote(text) ==
  IF Len(text) >= 2 /\ text[1] \in Quotes /\ text[Len(text)] = text[1]
  THEN SubSeq(text, 2, Len(text) - 1)
  ELSE text

\* strstr: where the pair of characters occurs
Places(text, a, b) == {n \in 1..(Len(text) - 1) : text[n] = a /\ text[n + 1] = b}

\* eval_atom; `==` is looked for before `!=`, a text with neither is true.  The
\* copies of the key and the value are as large as the buffer they come from.
EvalAtom(atom, ans) ==
  LET buf == Held(atom, MaxAtom)
      equal == Places(buf, Equals, Equals)
      other == Places(buf, Bang, Equals)
      op == Min(IF equal # {} THEN equal ELSE other)
      key == Trim(SubSeq(buf, 1, op - 1))
      val == Unquote(Trim(SubSeq(buf, op + 2, Len(buf))))
  IN  \/ equal \cup other = {}
      \/ (Lookup(ans, key) = val) = (equal # {})

\* bp_when_eval; a term is a part of the buffer and fits into its own copy.
WhenEval(expr, ans) ==
  \/ expr = << >>
  \/ \E term \in Parts(Held(expr, MaxExpr), Bar) :
       /\ Parts(term, Ampersand) # {}
       /\ \A atom \in Parts(term, Ampersand) : EvalAtom(atom, ans)

-----------------------------------------------------------------------------
(* Templates. *)

Dollar == "$"
OpenBrace == "{"
CloseBrace == "}"

\* (mutant of KeyEnd) the last `}` ends the key
KeyEndLast(text, p) ==
  LET ends == {n \in (p + 2)..Len(text) : text[n] = CloseBrace}
  IN  IF /\ p < Len(text) /\ text[p] = Dollar /\ text[p + 1] = OpenBrace
         /\ ends # {} /\ Max(ends) - (p + 2) <= MaxKey
      THEN Max(ends) ELSE 0

\* Where the key that begins with `${` at p ends, or 0: not a key.
KeyEnd(text, p) ==
  LET ends == {n \in (p + 2)..Len(text) : text[n] = CloseBrace}
  IN  IF /\ p < Len(text) /\ text[p] = Dollar /\ text[p + 1] = OpenBrace
         /\ ends # {} /\ Min(ends) - (p + 2) <= MaxKey
      THEN Min(ends) ELSE 0

\* bp_expand: one pass; the values put in are not looked at again.
Expand(text, ans) ==
  LET from[p \in 1..(Len(text) + 1)] ==
        IF p > Len(text) THEN << >>
        ELSE LET close == KeyEnd(text, p)
             IN  IF close # 0
                 THEN Lookup(ans, SubSeq(text, p + 2, close - 1)) \o from[close + 1]
                 ELSE <<text[p]>> \o from[p + 1]
  IN  from[1]
=============================================================================
