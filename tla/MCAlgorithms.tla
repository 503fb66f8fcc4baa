----------------------------- MODULE MCAlgorithms -----------------------------
(***************************************************************************)
(* The pure functions of the code, each called once with an input of a     *)
(* bounded set and compared with what it is for.  A behaviour is one call. *)
(***************************************************************************)
EXTENDS Expressions, AnswersSyntax, Panel, Choices, SequencesExt

CONSTANTS
  TargetCap,  \* size of enumerate_install_targets' buffer, 2048
  Pending     \* the call has not returned

VARIABLES
  call,   \* the function and its input
  result  \* what it returned, or Pending

vars == <<call, result>>

UpTo(S, n) == UNION {[1..m -> S] : m \in 0..n}
Join(parts, sep) ==
  FlattenSeq([n \in DOMAIN parts |-> IF n = 1 THEN parts[n] ELSE sep \o parts[n]])

-----------------------------------------------------------------------------
(* `when`: a formula in disjunctive normal form, and how it is written. *)

Atoms == [key : {<<"k">>, <<"l">>}, val : {<< >>, <<"x">>, <<"x", Blank, "x">>},
          negated : BOOLEAN]
ShortAtoms == {a \in Atoms : Len(a.val) <= 1}
FormulasWith(a) == {<<t, <<a>>>> : t \in UpTo(ShortAtoms, 2) \ {<< >>}}
Formulas == {<<t>> : t \in UpTo(Atoms, 2) \ {<< >>}}
              \cup UNION {FormulasWith(a) : a \in ShortAtoms}
Styles == [gap : {<< >>, <<Blank>>}, quote : {<< >>, <<"\"">>, <<"'">>}]

AtomText(a, s) == a.key \o s.gap \o (IF a.negated THEN <<Bang, Equals>> ELSE <<Equals, Equals>>)
                    \o s.gap \o s.quote \o a.val \o s.quote
Around(gap, sep) == gap \o <<sep, sep>> \o gap
TermText(t, s) == Join([n \in DOMAIN t |-> AtomText(t[n], s)], Around(s.gap, Ampersand))
FormulaText(f, s) == Join([n \in DOMAIN f |-> TermText(f[n], s)], Around(s.gap, Bar))

\* The text is one that the code's buffers hold, its comparisons with the blanks
\* around them too.
AtomFits(a, s) == Len(AtomText(a, s)) + 2 * Len(s.gap) <= MaxAtom
Fits(f, s) == /\ Len(FormulaText(f, s)) <= MaxExpr
              /\ \A t \in Range(f) : \A a \in Range(t) : AtomFits(a, s)

Stores == [{<<"k">>} -> {<< >>, <<"x">>}] \cup {(<<"l">> :> <<"x", Blank, "x">>)}

Meaning(f, ans) ==
  \E t \in Range(f) : \A a \in Range(t) : (Lookup(ans, a.key) = a.val) # a.negated

WhenCalls == [f : {"when"}, formula : Formulas, style : Styles, ans : Stores]

-----------------------------------------------------------------------------
(* Templates: literal characters and keys, and perhaps an unclosed key. *)

Segments == [kind : {"text"}, body : {<<"a">>, <<Dollar>>, <<CloseBrace>>}]
              \cup [kind : {"key"}, body : {<<"k">>, <<"l">>, <<"k", "k">>}]
Tails == {<< >>, <<Dollar, OpenBrace, "k">>}
SegmentText(s) == IF s.kind = "text" THEN s.body ELSE <<Dollar, OpenBrace>> \o s.body \o <<CloseBrace>>
SegmentValue(s, ans) ==
  IF s.kind = "key" /\ Len(s.body) <= MaxKey THEN Lookup(ans, s.body) ELSE SegmentText(s)
Template(segments) == FlattenSeq([n \in DOMAIN segments |-> SegmentText(segments[n])])
FilledIn(segments, ans) ==
  FlattenSeq([n \in DOMAIN segments |-> SegmentValue(segments[n], ans)])
Fillings == [{<<"k">>} -> {<< >>, <<"x">>, <<Dollar, OpenBrace, "l", CloseBrace>>}]

ExpandCalls == [f : {"expand"}, segments : UpTo(Segments, 3), tail : Tails, ans : Fillings]

-----------------------------------------------------------------------------
(* Answers, partitions, the screen. *)

Typed == {DQ, BS, Apostrophe, Hash, "t", "x", Return}
ASSUME AnswersAssumption == \A v \in UpTo(Typed, 4) : v \notin {Unreadable, Missing}
AnswerCalls == [f : {"answer"}, value : UpTo(Typed, 4)]

Names == {<<"a">>, <<"b", "a">>, <<"b", "b", "a">>}
Partitions(disk) == {disk \o <<SP>> \o name : name \in Names}
Targets == Partitions(<<"d", "6">>) \cup Partitions(<<"d", "6", "0">>)
ASSUME TargetsAssumption ==
  EOL \notin {SP, "a", "b", "d", "6", "0"} /\ TargetCap \in Nat /\ TargetCap > 24
TargetCalls == UNION {[f : {"target"}, lines : [1..m -> Targets], pick : 1..m] : m \in 1..3}

Panels == {[width |-> w, height |-> h, line |-> (w + o) * b + pad, mem |-> ((w + o) * b + pad) * (h + o),
            bytes |-> b, xoff |-> o, yoff |-> o] :
             w \in 1..4, h \in 1..3, b \in {2, 3}, pad \in 0..1, o \in 0..1}
Percents == {50, 100, 250}
Areas(w, h) == {a \in [x1 : 0..(w - 1), x2 : 0..(w - 1), y1 : 0..(h - 1), y2 : 0..(h - 1)] :
                  a.x1 <= a.x2 /\ a.y1 <= a.y2}
FlushCallsOn(fb, pct) ==
  [f : {"flush"}, fb : {fb}, pct : {pct},
   area : Areas(Logical(fb, Factor(pct)).width, Logical(fb, Factor(pct)).height)]
FlushCalls == UNION {FlushCallsOn(fb, pct) : fb \in Panels, pct \in Percents}
TouchCallsOn(w) == [f : {"touch"}, width : {w}, pct : {200, 250, 300}, raw : 0..(w - 1)]
TouchCalls == UNION {TouchCallsOn(w) : w \in 3..8}

-----------------------------------------------------------------------------
Calls == WhenCalls \cup ExpandCalls \cup AnswerCalls
           \cup TargetCalls \cup FlushCalls \cup TouchCalls

Init == call \in Calls /\ result = Pending

Returns(f, value) == call.f = f /\ result = Pending /\ result' = value /\ UNCHANGED call

Next ==
  \/ call.f = "when" /\ Returns("when", WhenEval(FormulaText(call.formula, call.style), call.ans))
  \/ call.f = "expand"
     /\ Returns("expand", Expand(Template(call.segments) \o call.tail, call.ans))
  \/ call.f = "answer" /\ Returns("answer", ReadBack(call.value))
  \/ call.f = "target"
     /\ LET options == TargetList(call.lines, TargetCap)
        IN  Returns("target", IF call.pick <= Count(options)
                              THEN FirstWord(Selected(options, call.pick, 64)) ELSE << >>)
  \/ call.f = "flush" /\ Returns("flush", Flush(call.fb, Factor(call.pct), call.area))
  \/ call.f = "touch"
     /\ Returns("touch", Touched(call.raw, Factor(call.pct), call.width \div Factor(call.pct)))

Spec == Init /\ [][Next]_vars

-----------------------------------------------------------------------------
(* Properties. *)

Returned(f) == call.f = f /\ result # Pending

\* A `when` that is written as documented ("key OP value joined by && / ||")
\* shows its field exactly when the formula holds, however it is spaced and
\* quoted, as long as the text and its comparisons fit into the code's buffers.
WhenIsItsFormula ==
  Returned("when") /\ Fits(call.formula, call.style) =>
    (result <=> Meaning(call.formula, call.ans))

\* bp_expand puts each answer in the place of its key and nothing else: an unset
\* key is empty, what is no key stays, and an answer is never itself expanded.
TemplateIsFilledIn ==
  Returned("expand") =>
    result = FilledIn(call.segments, call.ans) \o call.tail

\* An answer comes back from the answers file exactly when it has no quote, no
\* backslash, no control character and no three apostrophes; any other is lost,
\* or changed, or takes the whole file with it.
PlainAnswersComeBack ==
  Returned("answer") => (result = call.value <=> Plain(call.value))

\* "The returned static buffer's first token per line is what prp-install
\* resolves": the container is the one whose line the user picked.
InstallsWhatWasPicked ==
  Returned("target") => result = FirstWord(call.lines[call.pick])

\* Every pixel of the panel that shows a logical pixel of the area gets that
\* pixel of LVGL's buffer, within the mapping, and nothing else is written.
AreaIsDrawn ==
  Returned("flush") => Draws(call.fb, Factor(call.pct), call.area, result)

\* A touch goes to the logical pixel that is shown where it was, and always to
\* one of the display.
TouchGoesWhereItShows ==
  Returned("touch") =>
    Hits(call.raw, Factor(call.pct), call.width \div Factor(call.pct), result)
=============================================================================
