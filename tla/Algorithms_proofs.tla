-------------------------- MODULE Algorithms_proofs --------------------------
(***************************************************************************)
(* The pure functions of the code, for inputs of every size: what          *)
(* MCAlgorithms compares on a bounded set of calls, and the lemmas that    *)
(* have no bound.                                                          *)
(***************************************************************************)
EXTENDS MCAlgorithms, SequenceTheorems, FiniteSetTheorems, WellFoundedInduction, TLAPS

-----------------------------------------------------------------------------
(* Induction over numbers. *)

\* A set of numbers that is not empty has a least one.
LEMMA LeastNumber ==
  ASSUME NEW S, S \subseteq Nat, S # {}
  PROVE  \E l \in S : \A k \in S : l <= k
<1>1. \E x \in S : \A y \in S : ~(<<y, x>> \in OpToRel(<, Nat))
  BY WFMin, NatLessThanWellFounded
<1>2. PICK x \in S : \A y \in S : ~(<<y, x>> \in OpToRel(<, Nat))
  BY <1>1
<1>3. \A y \in S : <<y, x>> \in Nat \X Nat /\ (y < x => <<y, x>> \in OpToRel(<, Nat))
  BY DEF OpToRel
<1>4. \A y \in S : ~(y < x)
  BY <1>2, <1>3
<1> QED
  BY <1>4

\* A set that has the first number and with each the next has them all.
LEMMA CountingUp ==
  ASSUME NEW m \in Nat, NEW n \in Nat, NEW S, m \in S,
         \A i \in m..(n - 1) : i \in S => i + 1 \in S
  PROVE  m..n \subseteq S
<1> SUFFICES ASSUME NEW i \in m..n, i \notin S PROVE FALSE
  OBVIOUS
<1> DEFINE bad == {k \in m..n : k \notin S}
<1>1. bad \subseteq Nat /\ bad # {}
  OBVIOUS
<1>2. PICK l \in bad : \A k \in bad : l <= k
  BY <1>1, LeastNumber
<1>3. l # m /\ l \in m..n
  BY <1>2
<1>4. l - 1 \in m..(n - 1) /\ (l - 1) + 1 = l
  BY <1>3
<1>5. l - 1 \in S
  BY <1>2, <1>4
<1> QED
  BY <1>2, <1>4, <1>5

-----------------------------------------------------------------------------
(* Texts. *)

\* (the provers do not know that a literal is a member of STRING)
Letters == {"a", "b", "d", "k", "l", "t", "x", "6", "0"}
Signs == {Bar, Ampersand, Equals, Bang}
Syntax == {DQ, BS, Apostrophe, Hash, NL, Return, Tab}
Chars == STRING \cup Letters \cup Signs \cup Quotes \cup Syntax
           \cup {EOL, SP, Blank, Dollar, OpenBrace, CloseBrace}
Texts == Seq(Chars)

\* A text has a length, and a character at each place.
LEMMA TextLength ==
  \A s \in Texts : Len(s) \in Nat /\ \A n \in 1..Len(s) : s[n] \in Chars
BY DEF Texts

\* The empty text.
LEMMA EmptyText == << >> \in Texts /\ Len(<< >>) = 0
BY DEF Texts

\* A character is a text.
LEMMA OneCharText == \A c \in Chars : <<c>> \in Texts
BY DEF Texts

\* Two texts, one after the other.
LEMMA TextsJoined ==
  \A s \in Texts, t \in Texts :
    /\ s \o t \in Texts
    /\ Len(s \o t) = Len(s) + Len(t)
    /\ \A n \in 1..Len(s) : (s \o t)[n] = s[n]
    /\ \A n \in 1..Len(t) : (s \o t)[Len(s) + n] = t[n]
<1> SUFFICES ASSUME NEW s \in Texts, NEW t \in Texts
             PROVE  /\ s \o t \in Texts
                    /\ Len(s \o t) = Len(s) + Len(t)
                    /\ \A n \in 1..Len(s) : (s \o t)[n] = s[n]
                    /\ \A n \in 1..Len(t) : (s \o t)[Len(s) + n] = t[n]
  OBVIOUS
<1>1. s \in Seq(Chars) /\ t \in Seq(Chars)
  BY DEF Texts
<1>2. /\ s \o t \in Seq(Chars)
      /\ Len(s \o t) = Len(s) + Len(t)
      /\ \A i \in 1 .. Len(s) + Len(t) :
           (s \o t)[i] = IF i <= Len(s) THEN s[i] ELSE t[i - Len(s)]
  BY <1>1, ConcatProperties
<1>3. Len(s) \in Nat /\ Len(t) \in Nat
  BY TextLength
<1>4. ASSUME NEW n \in 1..Len(s) PROVE (s \o t)[n] = s[n]
  <2>1. n \in 1..(Len(s) + Len(t)) /\ n <= Len(s)
    BY <1>3
  <2> QED
    BY <1>2, <2>1
<1>5. ASSUME NEW n \in 1..Len(t) PROVE (s \o t)[Len(s) + n] = t[n]
  <2>1. Len(s) + n \in 1..(Len(s) + Len(t)) /\ ~(Len(s) + n <= Len(s)) /\ Len(s) + n - Len(s) = n
    BY <1>3
  <2> QED
    BY <1>2, <2>1
<1> QED
  BY <1>2, <1>4, <1>5 DEF Texts

\* The empty text adds nothing.
LEMMA EmptyJoined ==
  \A s \in Texts : s \o << >> = s /\ << >> \o s = s
BY DEF Texts

\* Three texts come out the same however they are joined.
LEMMA TextsAssociate ==
  \A s \in Texts, t \in Texts, u \in Texts : (s \o t) \o u = s \o (t \o u)
BY ConcatAssociative DEF Texts

\* Two texts of the same characters are the same.
LEMMA SameText ==
  \A s \in Texts, t \in Texts :
    Len(s) = Len(t) /\ (\A n \in 1..Len(s) : s[n] = t[n]) => s = t
<1> SUFFICES ASSUME NEW s \in Texts, NEW t \in Texts,
                    Len(s) = Len(t), \A n \in 1..Len(s) : s[n] = t[n]
             PROVE  s = t
  OBVIOUS
<1> QED
  BY SeqEqual DEF Texts

\* A part of a text is a text.
LEMMA PartOfText ==
  \A s \in Texts : \A m \in 1..(Len(s) + 1), n \in 0..Len(s) :
    m <= n + 1 =>
    /\ SubSeq(s, m, n) \in Texts
    /\ Len(SubSeq(s, m, n)) = n + 1 - m
    /\ \A i \in 1..(n + 1 - m) : SubSeq(s, m, n)[i] = s[m + i - 1]
<1> SUFFICES ASSUME NEW s \in Texts, NEW m \in 1..(Len(s) + 1), NEW n \in 0..Len(s), m <= n + 1
             PROVE  /\ SubSeq(s, m, n) \in Texts
                    /\ Len(SubSeq(s, m, n)) = n + 1 - m
                    /\ \A i \in 1..(n + 1 - m) : SubSeq(s, m, n)[i] = s[m + i - 1]
  OBVIOUS
<1>1. Len(s) \in Nat /\ \A i \in 1..Len(s) : s[i] \in Chars
  BY TextLength
<1>2. m \in Int /\ n \in Int /\ \A i \in m..n : s[i] \in Chars
  BY <1>1
<1>3. /\ SubSeq(s, m, n) \in Seq(Chars)
      /\ Len(SubSeq(s, m, n)) = IF m <= n THEN n - m + 1 ELSE 0
      /\ \A i \in 1 .. n - m + 1 : SubSeq(s, m, n)[i] = s[m + i - 1]
  BY <1>2, SubSeqProperties
<1> QED
  BY <1>1, <1>3 DEF Texts

\* A part of a text grows by the next character.
LEMMA TextGrows ==
  \A s \in Texts : \A m \in 1..Len(s) : \A n \in m..Len(s) :
    SubSeq(s, m, n - 1) \o <<s[n]>> = SubSeq(s, m, n)
BY SubSeqRecursiveSecond DEF Texts

\* A text is a part of itself.
LEMMA WholeText == \A s \in Texts : SubSeq(s, 1, Len(s)) = s
BY SubSeqFull DEF Texts

-----------------------------------------------------------------------------
(* Templates. *)

\* What bp_expand puts out at p, and where it goes on.
Puts(text, ans, p) ==
  LET close == KeyEnd(text, p)
  IN  IF close # 0 THEN Lookup(ans, SubSeq(text, p + 2, close - 1)) ELSE <<text[p]>>
GoesOn(text, p) == IF KeyEnd(text, p) # 0 THEN KeyEnd(text, p) + 1 ELSE p + 1

\* from[p] is what bp_expand makes of the text from p on.
Filled(text, ans, from) ==
  /\ from \in [1..(Len(text) + 1) -> Texts]
  /\ from[Len(text) + 1] = << >>
  /\ \A p \in 1..Len(text) : from[p] = Puts(text, ans, p) \o from[GoesOn(text, p)]

\* A loop that always goes forward ends: what it puts out from each place on is
\* determined.
Forward(N, out, next) ==
  \A p \in 1..N : out[p] \in Texts /\ next[p] \in (p + 1)..(N + 1)
Looped(N, out, next, f) ==
  /\ f \in [1..(N + 1) -> Texts]
  /\ f[N + 1] = << >>
  /\ \A p \in 1..N : f[p] = out[p] \o f[next[p]]

\* A loop that only goes forward comes to its end.
LEMMA LoopEnds ==
  \A N \in Nat : \A out, next : Forward(N, out, next) => \E f : Looped(N, out, next, f)
<1> SUFFICES ASSUME NEW N \in Nat, NEW out, NEW next,
                    \A p \in 1..N : out[p] \in Texts /\ next[p] \in (p + 1)..(N + 1)
             PROVE  \E f : Looped(N, out, next, f)
  BY DEF Forward
<1> DEFINE Done(m, f) == /\ f \in [(N + 1 - m)..(N + 1) -> Texts]
                         /\ f[N + 1] = << >>
                         /\ \A p \in (N + 1 - m)..N : f[p] = out[p] \o f[next[p]]
           good == {m \in 0..N : \E f : Done(m, f)}
<1>1. 0 \in good
  <2>1. [p \in (N + 1)..(N + 1) |-> << >>] \in [(N + 1)..(N + 1) -> Texts]
    BY EmptyText
  <2>2. N + 1 - 0 = N + 1 /\ 0 \in 0..N
    OBVIOUS
  <2> DEFINE g == [p \in (N + 1)..(N + 1) |-> << >>]
  <2>3. g \in [(N + 1 - 0)..(N + 1) -> Texts]
    BY <2>1, <2>2
  <2>4. g[N + 1] = << >> /\ \A p \in (N + 1 - 0)..N : FALSE
    OBVIOUS
  <2> HIDE DEF g
  <2>5. Done(0, g)
    BY <2>3, <2>4
  <2> QED
    BY <2>2, <2>5
<1>2. ASSUME NEW m \in 0..(N - 1), m \in good PROVE m + 1 \in good
  <2>1. PICK f : Done(m, f)
    BY <1>2
  <2> DEFINE q == N - m
             last == out[q] \o f[next[q]]
             g == [p \in q..(N + 1) |-> IF p = q THEN last ELSE f[p]]
  <2>2. q \in 1..N /\ N + 1 - m = q + 1 /\ N + 1 - (m + 1) = q /\ m + 1 \in 0..N
    OBVIOUS
  <2>3. f \in [(q + 1)..(N + 1) -> Texts] /\ f[N + 1] = << >>
        /\ \A p \in (q + 1)..N : f[p] = out[p] \o f[next[p]]
    BY <2>1, <2>2
  <2> HIDE DEF q, last
  <2>4. last \in Texts
    <3>1. next[q] \in (q + 1)..(N + 1) /\ out[q] \in Texts
      BY <2>2
    <3>2. f[next[q]] \in Texts
      BY <2>3, <3>1
    <3> QED
      BY <3>1, <3>2, TextsJoined DEF last
  <2>5. g \in [q..(N + 1) -> Texts]
    BY <2>2, <2>3, <2>4
  <2>6. g[N + 1] = << >>
    BY <2>2, <2>3
  <2>7. ASSUME NEW p \in q..N PROVE g[p] = out[p] \o g[next[p]]
    <3>1. p \in 1..N /\ next[p] \in (p + 1)..(N + 1)
      BY <2>2
    <3>2. next[p] \in q..(N + 1) /\ next[p] # q
      BY <2>2, <3>1
    <3>3. g[next[p]] = f[next[p]]
      BY <3>2
    <3>4. CASE p = q
      <4>1. g[p] = last
        BY <2>2, <3>4
      <4> QED
        BY <3>3, <3>4, <4>1 DEF last
    <3>5. CASE p # q
      <4>1. p \in (q + 1)..N /\ g[p] = f[p]
        BY <2>2, <3>5
      <4> QED
        BY <2>3, <3>3, <4>1
    <3> QED
      BY <3>4, <3>5
  <2>8. Done(m + 1, g)
    BY <2>2, <2>5, <2>6, <2>7
  <2> QED
    BY <2>2, <2>8
<1> HIDE DEF good
<1>3. N \in good
  <2>1. 0..N \subseteq good
    BY <1>1, <1>2, CountingUp
  <2> QED
    BY <2>1
<1>4. PICK f : Done(N, f)
  BY <1>3 DEF good
<1>5. N + 1 - N = 1
  OBVIOUS
<1>6. /\ f \in [1..(N + 1) -> Texts] /\ f[N + 1] = << >>
      /\ \A p \in 1..N : f[p] = out[p] \o f[next[p]]
  BY <1>4, <1>5
<1> QED
  BY <1>6 DEF Looped

\* The least of some numbers.
LEMMA LeastIs ==
  ASSUME NEW S, S \subseteq Nat, NEW l \in S, \A k \in S : l <= k
  PROVE  Min(S) = l
<1>1. Min(S) \in S /\ \A k \in S : Min(S) <= k
  BY DEF Min
<1>2. Min(S) \in Nat /\ l \in Nat
  BY <1>1
<1>3. Min(S) <= l /\ l <= Min(S)
  BY <1>1
<1> HIDE DEF Min
<1> QED
  BY <1>2, <1>3

\* Min finds the least number of a set.
LEMMA LeastExists ==
  ASSUME NEW S, S \subseteq Nat, S # {}
  PROVE  Min(S) \in S /\ \A k \in S : Min(S) <= k
<1>1. PICK l \in S : \A k \in S : l <= k
  BY LeastNumber
<1> QED
  BY <1>1 DEF Min

\* A key ends behind its two first characters.
LEMMA KeyEndsBehind ==
  ASSUME NEW text \in Texts, NEW p \in 1..Len(text)
  PROVE  KeyEnd(text, p) = 0 \/ KeyEnd(text, p) \in (p + 2)..Len(text)
<1> DEFINE ends == {n \in (p + 2)..Len(text) : text[n] = CloseBrace}
<1>1. Len(text) \in Nat
  BY TextLength
<1>2. ASSUME NEW n \in ends PROVE n \in Nat /\ n \in (p + 2)..Len(text)
  BY <1>1
<1>3. KeyEnd(text, p) = 0 \/ (ends # {} /\ KeyEnd(text, p) = Min(ends))
  BY DEF KeyEnd
<1> HIDE DEF ends
<1>4. ends # {} => Min(ends) \in ends
  BY <1>2, LeastExists
<1> QED
  BY <1>2, <1>3, <1>4

\* Expand is the loop's output from the first character on.
LEMMA ExpandIsFilled ==
  ASSUME NEW text \in Texts, NEW ans, \A key \in Texts : Lookup(ans, key) \in Texts
  PROVE  \E from : Filled(text, ans, from) /\ Expand(text, ans) = from[1]
<1> DEFINE N == Len(text)
           Step(f) == [p \in 1..(N + 1) |->
                         IF p > N THEN << >>
                         ELSE LET close == KeyEnd(text, p)
                              IN  IF close # 0
                                  THEN Lookup(ans, SubSeq(text, p + 2, close - 1)) \o f[close + 1]
                                  ELSE <<text[p]>> \o f[p + 1]]
           from == CHOOSE f : f = Step(f)
           out == [p \in 1..N |-> Puts(text, ans, p)]
           next == [p \in 1..N |-> GoesOn(text, p)]
<1>1. N \in Nat /\ \A n \in 1..N : text[n] \in Chars
  BY TextLength
<1>2. ASSUME NEW p \in 1..N
      PROVE  Puts(text, ans, p) \in Texts /\ GoesOn(text, p) \in (p + 1)..(N + 1)
  <2>1. CASE KeyEnd(text, p) = 0
    <3>1. <<text[p]>> \in Texts
      BY <1>1, OneCharText
    <3> QED
      BY <1>1, <2>1, <3>1 DEF Puts, GoesOn
  <2>2. CASE KeyEnd(text, p) # 0
    <3> DEFINE close == KeyEnd(text, p)
    <3>1. close \in (p + 2)..N
      BY <2>2, KeyEndsBehind
    <3> HIDE DEF close
    <3>2. /\ p + 2 \in 1..(N + 1) /\ close - 1 \in 0..N /\ p + 2 <= (close - 1) + 1
          /\ close + 1 \in (p + 1)..(N + 1)
      BY <1>1, <3>1
    <3>3. SubSeq(text, p + 2, close - 1) \in Texts
      BY <3>2, PartOfText
    <3>4. Lookup(ans, SubSeq(text, p + 2, close - 1)) \in Texts
      BY <3>3
    <3> QED
      BY <2>2, <3>2, <3>4 DEF Puts, GoesOn, close
  <2> QED
    BY <2>1, <2>2
<1>3. PICK f : Looped(N, out, next, f)
  <2>1. Forward(N, out, next)
    BY <1>2 DEF Forward
  <2> HIDE DEF N, out, next
  <2> QED
    BY <1>1, <2>1, LoopEnds, Zenon
<1>4. f = Step(f)
  <2>1. ASSUME NEW p \in 1..(N + 1) PROVE f[p] = Step(f)[p]
    <3>1. CASE p > N
      <4>1. p = N + 1
        BY <1>1, <3>1
      <4> QED
        BY <1>3, <3>1, <4>1 DEF Looped
    <3>2. CASE ~(p > N)
      <4>1. p \in 1..N
        BY <1>1, <3>2
      <4>2. f[p] = Puts(text, ans, p) \o f[GoesOn(text, p)]
        BY <1>3, <4>1 DEF Looped
      <4> QED
        BY <3>2, <4>2 DEF Puts, GoesOn
    <3> QED
      BY <3>1, <3>2
  <2> QED
    BY <1>3, <2>1 DEF Looped
<1>5. from = Step(from)
  <2> HIDE DEF Step
  <2> QED
    BY <1>4
<1> HIDE DEF from
<1>6. from[N + 1] = << >>
  <2>1. N + 1 \in 1..(N + 1) /\ N + 1 > N
    BY <1>1
  <2> QED
    BY <1>5, <2>1
<1>7. ASSUME NEW p \in 1..N PROVE from[p] = Puts(text, ans, p) \o from[GoesOn(text, p)]
  <2>1. p \in 1..(N + 1) /\ ~(p > N)
    BY <1>1
  <2>2. from[p] = LET close == KeyEnd(text, p)
                  IN  IF close # 0
                      THEN Lookup(ans, SubSeq(text, p + 2, close - 1)) \o from[close + 1]
                      ELSE <<text[p]>> \o from[p + 1]
    BY <1>5, <2>1
  <2> QED
    BY <2>2 DEF Puts, GoesOn
<1>8. \A p \in 1..(N + 1) : from[p] \in Texts
  <2> DEFINE good == {m \in 0..N : \A p \in (N + 1 - m)..(N + 1) : from[p] \in Texts}
  <2>1. 0 \in good
    <3>1. \A p \in (N + 1 - 0)..(N + 1) : p = N + 1
      BY <1>1
    <3> QED
      BY <1>1, <1>6, <3>1, EmptyText
  <2>2. ASSUME NEW m \in 0..(N - 1), m \in good PROVE m + 1 \in good
    <3> DEFINE q == N - m
    <3>1. q \in 1..N /\ N + 1 - m = q + 1 /\ N + 1 - (m + 1) = q /\ m + 1 \in 0..N
      BY <1>1
    <3> HIDE DEF q
    <3>2. \A p \in (q + 1)..(N + 1) : from[p] \in Texts
      BY <2>2, <3>1
    <3>3. Puts(text, ans, q) \in Texts /\ GoesOn(text, q) \in (q + 1)..(N + 1)
      BY <1>2, <3>1
    <3>4. from[q] = Puts(text, ans, q) \o from[GoesOn(text, q)]
      BY <1>7, <3>1
    <3>5. from[q] \in Texts
      BY <3>2, <3>3, <3>4, TextsJoined
    <3>6. \A p \in q..(N + 1) : p = q \/ p \in (q + 1)..(N + 1)
      BY <1>1, <3>1
    <3>7. \A p \in q..(N + 1) : from[p] \in Texts
      BY <3>2, <3>5, <3>6
    <3> QED
      BY <3>1, <3>7
  <2> HIDE DEF good
  <2>3. 0..N \subseteq good
    BY <1>1, <2>1, <2>2, CountingUp
  <2>4. N \in good /\ N + 1 - N = 1
    BY <1>1, <2>3
  <2> QED
    BY <2>4 DEF good
<1>9. from \in [1..(N + 1) -> Texts]
  BY <1>5, <1>8
<1>10. Filled(text, ans, from)
  BY <1>6, <1>7, <1>9 DEF Filled
<1>11. Expand(text, ans) = from[1]
  BY DEF Expand, from
<1> QED
  BY <1>10, <1>11

\* Where no key begins, and where one does.
LEMMA NoKeyHere ==
  ASSUME NEW text, NEW p,
         text[p] # Dollar \/ text[p + 1] # OpenBrace \/ ~(p < Len(text))
  PROVE  KeyEnd(text, p) = 0
BY DEF KeyEnd

\* A text without a closing brace ends no key.
LEMMA NoKeyEnds ==
  ASSUME NEW text \in Texts, NEW p \in 1..Len(text),
         \A n \in (p + 2)..Len(text) : text[n] # CloseBrace
  PROVE  KeyEnd(text, p) = 0
BY DEF KeyEnd

\* A key ends at its first closing brace.
LEMMA KeyEndsAt ==
  ASSUME NEW text \in Texts, NEW p \in 1..Len(text), NEW e \in (p + 2)..Len(text),
         text[p] = Dollar, text[p + 1] = OpenBrace, text[e] = CloseBrace,
         \A n \in (p + 2)..(e - 1) : text[n] # CloseBrace
  PROVE  KeyEnd(text, p) = IF e - (p + 2) <= MaxKey THEN e ELSE 0
<1> DEFINE ends == {n \in (p + 2)..Len(text) : text[n] = CloseBrace}
<1>1. Len(text) \in Nat
  BY TextLength
<1>2. ends \subseteq Nat /\ e \in ends
  BY <1>1
<1>3. ASSUME NEW n \in ends PROVE e <= n
  BY <1>1
<1>4. p < Len(text) /\ ends # {}
  BY <1>1, <1>2
<1>5. Min(ends) = e
  <2> HIDE DEF ends
  <2> QED
    BY <1>2, <1>3, LeastIs
<1> QED
  BY <1>4, <1>5 DEF KeyEnd

\* A part is put out as it is; no key begins between two places.
Copied(text, from, p, q) == from[p] = SubSeq(text, p, q - 1) \o from[q]
KeylessRun(text, p, q) == \A k \in p..(q - 1) : KeyEnd(text, k) = 0

\* A run in which no key begins is put out as it is.
LEMMA RunIsCopied ==
  ASSUME NEW text \in Texts, NEW ans, NEW from, Filled(text, ans, from),
         NEW p \in 1..(Len(text) + 1), NEW q \in p..(Len(text) + 1),
         KeylessRun(text, p, q)
  PROVE  Copied(text, from, p, q)
<1> DEFINE N == Len(text)
           good == {k \in p..q : from[p] = SubSeq(text, p, k - 1) \o from[k]}
<1>1. N \in Nat /\ \A n \in 1..N : text[n] \in Chars
  BY TextLength
<1>2. /\ \A k \in 1..(N + 1) : from[k] \in Texts
      /\ \A k \in 1..N : from[k] = Puts(text, ans, k) \o from[GoesOn(text, k)]
  BY DEF Filled
<1> HIDE DEF N
<1>3. p \in good
  <2>1. SubSeq(text, p, p - 1) = << >>
    BY <1>1, SubSeqEmpty DEF N
  <2>2. from[p] = << >> \o from[p]
    BY <1>1, <1>2, EmptyJoined DEF N
  <2>3. p \in p..q
    BY <1>1 DEF N
  <2> QED
    BY <2>1, <2>2, <2>3, Zenon
<1>4. ASSUME NEW k \in p..(q - 1), k \in good PROVE k + 1 \in good
  <2>1. k \in 1..N /\ k + 1 \in 1..(N + 1) /\ k + 1 \in p..q /\ (k + 1) - 1 = k
    BY <1>1 DEF N
  <2>2. from[k] = <<text[k]>> \o from[k + 1]
    <3>1. KeyEnd(text, k) = 0
      BY DEF KeylessRun
    <3> QED
      BY <1>2, <2>1, <3>1 DEF Puts, GoesOn
  <2>3. p \in 1..N /\ k \in p..N /\ p \in 1..(N + 1) /\ k - 1 \in 0..N /\ p <= (k - 1) + 1
    BY <1>1, <2>1 DEF N
  <2>4. SubSeq(text, p, k - 1) \o <<text[k]>> = SubSeq(text, p, k)
    BY <2>3, TextGrows, Zenon DEF N
  <2>5. SubSeq(text, p, k - 1) \in Texts /\ <<text[k]>> \in Texts /\ from[k + 1] \in Texts
    BY <1>1, <1>2, <2>1, <2>3, PartOfText, OneCharText DEF N
  <2>6. from[p] = SubSeq(text, p, k - 1) \o (<<text[k]>> \o from[k + 1])
    BY <1>4, <2>2
  <2>7. (SubSeq(text, p, k - 1) \o <<text[k]>>) \o from[k + 1]
          = SubSeq(text, p, k - 1) \o (<<text[k]>> \o from[k + 1])
    <3> DEFINE x == SubSeq(text, p, k - 1)
               y == <<text[k]>>
               z == from[k + 1]
    <3>1. x \in Texts /\ y \in Texts /\ z \in Texts
      BY <2>5
    <3> HIDE DEF x, y, z
    <3>2. (x \o y) \o z = x \o (y \o z)
      BY <3>1, TextsAssociate, ZenonT(40)
    <3> QED
      BY <3>2 DEF x, y, z
  <2>8. from[p] = SubSeq(text, p, k) \o from[k + 1]
    BY <2>4, <2>6, <2>7, Zenon
  <2> QED
    BY <2>1, <2>8
<1> HIDE DEF good
<1>5. p..q \subseteq good
  <2>1. p \in Nat /\ q \in Nat
    BY <1>1 DEF N
  <2> QED
    BY <1>3, <1>4, <2>1, CountingUp
<1>6. q \in p..q
  BY <1>1 DEF N
<1> QED
  BY <1>5, <1>6 DEF good, Copied

-----------------------------------------------------------------------------
(* The segments of a template. *)

\* What a template is made of: text without an opening brace, keys without
\* braces, and at the end perhaps a key that is not closed.
SegmentOK(s) ==
  /\ s.body \in Texts
  /\ \A n \in 1..Len(s.body) : s.body[n] # OpenBrace
  /\ s.kind = "text" => s.body # << >>
  /\ s.kind # "text" => s.kind = "key" /\ \A n \in 1..Len(s.body) : s.body[n] # CloseBrace

TailOK(t) ==
  /\ t \in Texts
  /\ \A n \in 1..Len(t) : t[n] # CloseBrace
  /\ Len(t) > 0 => t[1] # OpenBrace

\* The characters of a key's frame are three.
LEMMA CharactersDiffer ==
  /\ Dollar # OpenBrace /\ Dollar # CloseBrace /\ OpenBrace # CloseBrace
  /\ {Dollar, OpenBrace, CloseBrace} \subseteq Chars
<1>1. Dollar # OpenBrace /\ Dollar # CloseBrace /\ OpenBrace # CloseBrace
  BY Zenon DEF Dollar, OpenBrace, CloseBrace
<1>2. {Dollar, OpenBrace, CloseBrace} \subseteq Chars
  BY DEF Chars
<1> QED
  BY <1>1, <1>2

\* The characters of a segment as it is written.
LEMMA SegmentWritten ==
  ASSUME NEW s, SegmentOK(s)
  PROVE  /\ SegmentText(s) \in Texts /\ SegmentText(s) # << >>
         /\ SegmentText(s)[1] # OpenBrace
         /\ s.kind # "text" =>
              /\ Len(SegmentText(s)) = Len(s.body) + 3
              /\ SegmentText(s)[1] = Dollar /\ SegmentText(s)[2] = OpenBrace
              /\ SegmentText(s)[Len(s.body) + 3] = CloseBrace
              /\ \A n \in 1..Len(s.body) : SegmentText(s)[n + 2] = s.body[n]
<1> DEFINE b == s.body
           open == <<Dollar, OpenBrace>>
           close == <<CloseBrace>>
<1>1. b \in Texts /\ Len(b) \in Nat
  BY TextLength DEF SegmentOK
<1>2. CASE s.kind = "text"
  <2>1. SegmentText(s) = b /\ b # << >>
    BY <1>2 DEF SegmentText, SegmentOK
  <2>2. Len(b) # 0
    BY <1>1, <2>1, EmptySeq DEF Texts
  <2> QED
    BY <1>1, <1>2, <2>1, <2>2 DEF SegmentOK
<1>3. CASE s.kind # "text"
  <2>1. SegmentText(s) = open \o b \o close
    BY <1>3 DEF SegmentText
  <2>2. open \in Texts /\ Len(open) = 2 /\ open[1] = Dollar /\ open[2] = OpenBrace
        /\ close \in Texts /\ Len(close) = 1 /\ close[1] = CloseBrace
    BY CharactersDiffer DEF Texts
  <2> HIDE DEF b, open, close
  <2>3. /\ open \o b \in Texts /\ Len(open \o b) = Len(b) + 2
        /\ (open \o b)[1] = Dollar /\ (open \o b)[2] = OpenBrace
        /\ \A n \in 1..Len(b) : (open \o b)[2 + n] = b[n]
    <3>1. /\ open \o b \in Texts
          /\ Len(open \o b) = Len(open) + Len(b)
          /\ \A n \in 1..Len(open) : (open \o b)[n] = open[n]
          /\ \A n \in 1..Len(b) : (open \o b)[Len(open) + n] = b[n]
      BY <1>1, <2>2, TextsJoined, Zenon
    <3>2. 2 + Len(b) = Len(b) + 2 /\ 1 \in 1..2 /\ 2 \in 1..2
      BY <1>1
    <3> QED
      BY <2>2, <3>1, <3>2, Zenon
  <2>4. /\ open \o b \o close \in Texts /\ Len(open \o b \o close) = Len(b) + 3
        /\ \A n \in 1..(Len(b) + 2) : (open \o b \o close)[n] = (open \o b)[n]
        /\ (open \o b \o close)[Len(b) + 3] = CloseBrace
    <3> DEFINE ob == open \o b
    <3>1. ob \in Texts /\ Len(ob) = Len(b) + 2
      BY <2>3
    <3> HIDE DEF ob
    <3>2. /\ ob \o close \in Texts
          /\ Len(ob \o close) = Len(ob) + Len(close)
          /\ \A n \in 1..Len(ob) : (ob \o close)[n] = ob[n]
          /\ \A n \in 1..Len(close) : (ob \o close)[Len(ob) + n] = close[n]
      BY <2>2, <3>1, TextsJoined, Zenon
    <3>3. (ob \o close)[Len(ob) + 1] = CloseBrace
      BY <2>2, <3>2
    <3>4. Len(b) + 2 + 1 = Len(b) + 3
      BY <1>1
    <3> QED
      BY <2>2, <3>1, <3>2, <3>3, <3>4, Zenon DEF ob
  <2>5. 1 \in 1..(Len(b) + 2) /\ 2 \in 1..(Len(b) + 2)
        /\ \A n \in 1..Len(b) : n + 2 = 2 + n /\ n + 2 \in 1..(Len(b) + 2)
    BY <1>1
  <2>6. open \o b \o close # << >>
    BY <1>1, <2>4, EmptyText
  <2> QED
    BY <1>3, <2>1, <2>3, <2>4, <2>5, <2>6, CharactersDiffer, ZenonT(40) DEF b
<1> QED
  BY <1>2, <1>3

\* t is written in the text from p on.
WrittenAt(text, p, t) == \A n \in 1..Len(t) : text[p + n - 1] = t[n]

\* Where a segment is written, bp_expand puts out its value and goes on behind it.
LEMMA SegmentIsFilled ==
  ASSUME NEW text \in Texts, NEW ans, NEW from, Filled(text, ans, from),
         NEW s, SegmentOK(s), NEW p \in 1..Len(text), NEW q \in p..(Len(text) + 1),
         q = p + Len(SegmentText(s)),
         WrittenAt(text, p, SegmentText(s)),
         q <= Len(text) => text[q] # OpenBrace
  PROVE  from[p] = SegmentValue(s, ans) \o from[q]
<1> DEFINE N == Len(text)
           t == SegmentText(s)
           b == s.body
<1>1. N \in Nat /\ Len(t) \in Nat /\ t \in Texts /\ b \in Texts /\ Len(b) \in Nat
      /\ p \in 1..N /\ q \in p..(N + 1) /\ q = p + Len(t)
  BY TextLength, SegmentWritten DEF SegmentOK
<1>1a. WrittenAt(text, p, t)
  OBVIOUS
<1> HIDE DEF N, t, b
<1>2. SubSeq(text, p, q - 1) = t
  <2>1. q - 1 \in 0..N /\ p <= (q - 1) + 1 /\ p \in 1..(N + 1) /\ (q - 1) + 1 - p = Len(t)
    BY <1>1
  <2>2. /\ SubSeq(text, p, q - 1) \in Texts
        /\ Len(SubSeq(text, p, q - 1)) = Len(t)
        /\ \A n \in 1..Len(t) : SubSeq(text, p, q - 1)[n] = text[p + n - 1]
    BY <2>1, PartOfText DEF N
  <2>3. \A n \in 1..Len(t) : SubSeq(text, p, q - 1)[n] = t[n]
    BY <1>1a, <2>2 DEF WrittenAt
  <2> QED
    BY <1>1, <2>2, <2>3, SameText
<1>3. ASSUME KeylessRun(text, p, q)
      PROVE  from[p] = t \o from[q]
  <2>1. p \in 1..(Len(text) + 1)
    BY <1>1 DEF N
  <2>2. from[p] = SubSeq(text, p, q - 1) \o from[q]
    BY <1>3, <2>1, RunIsCopied DEF Copied
  <2> QED
    BY <1>2, <2>2
<1>4. ASSUME NEW k \in p..(q - 1)
      PROVE  k - p + 1 \in 1..Len(t) /\ text[k] = t[k - p + 1]
  <2>1. k - p + 1 \in 1..Len(t) /\ p + (k - p + 1) - 1 = k
    BY <1>1
  <2> QED
    BY <1>1a, <2>1 DEF WrittenAt
<1>5. CASE s.kind = "text"
  <2>1. t = b /\ SegmentValue(s, ans) = t
    BY <1>5 DEF SegmentText, SegmentValue, t, b
  <2>2. ASSUME NEW k \in p..(q - 1) PROVE KeyEnd(text, k) = 0
    <3>1. CASE k + 1 \in p..(q - 1)
      <4>1. text[k + 1] = t[(k + 1) - p + 1] /\ (k + 1) - p + 1 \in 1..Len(t)
        BY <1>4, <3>1
      <4>2. text[k + 1] # OpenBrace
        BY <2>1, <4>1 DEF SegmentOK, b
      <4> QED
        BY <4>2, NoKeyHere
    <3>2. CASE ~(k + 1 \in p..(q - 1))
      <4>1. k + 1 = q
        BY <1>1, <3>2
      <4>2. text[k + 1] # OpenBrace \/ ~(k < N)
        BY <1>1, <4>1 DEF N
      <4> QED
        BY <4>2, NoKeyHere DEF N
    <3> QED
      BY <3>1, <3>2
  <2>3. KeylessRun(text, p, q)
    BY <2>2 DEF KeylessRun
  <2> QED
    BY <1>3, <2>1, <2>3
<1>6. CASE s.kind # "text"
  <2>0. Len(t) = Len(b) + 3
    BY <1>6, SegmentWritten DEF t, b
  <2>1. /\ t[1] = Dollar /\ t[2] = OpenBrace /\ t[Len(b) + 3] = CloseBrace
        /\ \A n \in 1..Len(b) : t[n + 2] = b[n]
    BY <1>6, SegmentWritten DEF t, b
  <2>2. s.kind = "key" /\ \A n \in 1..Len(b) : b[n] # CloseBrace /\ b[n] # OpenBrace
    BY <1>6 DEF SegmentOK, b
  <2> DEFINE e == p + 2 + Len(b)
  <2>3. /\ p \in Nat /\ q \in Nat /\ e \in Nat /\ Len(b) \in Nat /\ N \in Nat
        /\ 1 <= p /\ e = p + 2 + Len(b) /\ q = e + 1 /\ q <= N + 1
    BY <1>1, <2>0
  <2> HIDE DEF e
  <2>3a. /\ p + 1 \in p..(q - 1) /\ p \in p..(q - 1) /\ e \in p..(q - 1)
         /\ e \in (p + 2)..N /\ p - p + 1 = 1 /\ (p + 1) - p + 1 = 2 /\ e - p + 1 = Len(b) + 3
    BY <2>3
  <2>4. text[p] = Dollar /\ text[p + 1] = OpenBrace /\ text[e] = CloseBrace
    <3>1. text[p] = t[p - p + 1] /\ text[p + 1] = t[(p + 1) - p + 1] /\ text[e] = t[e - p + 1]
      BY <1>4, <2>3a
    <3> QED
      BY <2>1, <2>3a, <3>1
  <2>5. ASSUME NEW n \in (p + 2)..(e - 1)
        PROVE  /\ n - p - 1 \in 1..Len(b) /\ text[n] = b[n - p - 1]
    <3>1. n \in p..(q - 1) /\ n - p - 1 \in 1..Len(b) /\ n - p + 1 = (n - p - 1) + 2
      BY <1>1, <2>3
    <3>2. text[n] = t[n - p + 1]
      BY <1>4, <3>1
    <3> QED
      BY <2>1, <3>1, <3>2
  <2>6. KeyEnd(text, p) = IF e - (p + 2) <= MaxKey THEN e ELSE 0
    <3>1. \A n \in (p + 2)..(e - 1) : text[n] # CloseBrace
      BY <2>2, <2>5
    <3>2. e \in (p + 2)..Len(text)
      BY <2>3a DEF N
    <3> QED
      BY <2>4, <3>1, <3>2, KeyEndsAt
  <2>7. e - (p + 2) = Len(b)
    BY <2>3
  <2>8. CASE Len(b) <= MaxKey
    <3>1. SegmentValue(s, ans) = Lookup(ans, b)
      BY <2>2, <2>8 DEF SegmentValue, b
    <3>2. KeyEnd(text, p) = e
      BY <2>6, <2>7, <2>8
    <3>3. e # 0
      BY <2>3
    <3>4. from[p] = Lookup(ans, SubSeq(text, p + 2, e - 1)) \o from[e + 1]
      BY <3>2, <3>3 DEF Filled, Puts, GoesOn
    <3>5. SubSeq(text, p + 2, e - 1) = b
      <4>1. p + 2 \in 1..(N + 1) /\ e - 1 \in 0..N /\ p + 2 <= (e - 1) + 1
            /\ (e - 1) + 1 - (p + 2) = Len(b)
        BY <2>3
      <4>2. /\ SubSeq(text, p + 2, e - 1) \in Texts
            /\ Len(SubSeq(text, p + 2, e - 1)) = Len(b)
            /\ \A i \in 1..Len(b) : SubSeq(text, p + 2, e - 1)[i] = text[p + 2 + i - 1]
        BY <4>1, PartOfText DEF N
      <4>3. ASSUME NEW i \in 1..Len(b) PROVE text[p + 2 + i - 1] = b[i]
        <5>1. p + 2 + i - 1 \in (p + 2)..(e - 1) /\ (p + 2 + i - 1) - p - 1 = i
          BY <2>3
        <5> QED
          BY <2>5, <5>1
      <4> QED
        BY <1>1, <4>2, <4>3, SameText
    <3> QED
      BY <2>3, <3>1, <3>4, <3>5
  <2>9. CASE ~(Len(b) <= MaxKey)
    <3>1. SegmentValue(s, ans) = t
      BY <2>9 DEF SegmentValue, t, b
    <3>2. ASSUME NEW k \in p..(q - 1) PROVE KeyEnd(text, k) = 0
      <4>1. CASE k = p
        BY <2>6, <2>7, <2>9, <4>1
      <4>2. CASE k = p + 1
        <5>1. text[k] # Dollar
          BY <2>4, <4>2, CharactersDiffer
        <5> QED
          BY <5>1, NoKeyHere
      <4>3. CASE k \in (p + 2)..(e - 1)
        <5>1. k + 1 \in (p + 2)..(e - 1) \/ k + 1 = e
          BY <2>3, <4>3
        <5>2. text[k + 1] # OpenBrace
          BY <2>2, <2>4, <2>5, <5>1, CharactersDiffer
        <5> QED
          BY <5>2, NoKeyHere
      <4>4. CASE k = e
        <5>1. text[k] # Dollar
          BY <2>4, <4>4, CharactersDiffer
        <5> QED
          BY <5>1, NoKeyHere
      <4>5. k = p \/ k = p + 1 \/ k \in (p + 2)..(e - 1) \/ k = e
        BY <2>3
      <4> QED
        BY <4>1, <4>2, <4>3, <4>4, <4>5
    <3>3. KeylessRun(text, p, q)
      BY <3>2 DEF KeylessRun
    <3> QED
      BY <1>3, <3>1, <3>3
  <2> QED
    BY <2>8, <2>9
<1> QED
  BY <1>5, <1>6

\* And it leaves an unclosed key at the end as it is.
LEMMA TailIsCopied ==
  ASSUME NEW text \in Texts, NEW ans, NEW from, Filled(text, ans, from),
         NEW t, TailOK(t), NEW p \in 1..(Len(text) + 1), p + Len(t) = Len(text) + 1,
         WrittenAt(text, p, t)
  PROVE  from[p] = t
<1> DEFINE N == Len(text)
<1>1. N \in Nat /\ t \in Texts /\ Len(t) \in Nat
  BY TextLength DEF TailOK
<1>2. ASSUME NEW k \in p..N PROVE k - p + 1 \in 1..Len(t) /\ text[k] = t[k - p + 1]
  <2>1. k - p + 1 \in 1..Len(t) /\ p + (k - p + 1) - 1 = k
    BY <1>1
  <2> QED
    BY <2>1 DEF WrittenAt
<1>3. ASSUME NEW k \in p..N PROVE KeyEnd(text, k) = 0
  <2>1. k \in 1..N
    BY <1>1
  <2>2. ASSUME NEW n \in (k + 2)..N PROVE text[n] # CloseBrace
    <3>1. n \in p..N
      BY <1>1
    <3>2. n - p + 1 \in 1..Len(t) /\ text[n] = t[n - p + 1]
      BY <1>2, <3>1
    <3> DEFINE j == n - p + 1
    <3> HIDE DEF j
    <3>3. j \in 1..Len(t) /\ text[n] = t[j]
      BY <3>2 DEF j
    <3> QED
      BY <3>3 DEF TailOK
  <2> QED
    BY <2>1, <2>2, NoKeyEnds
<1>4. N + 1 \in p..(N + 1) /\ (N + 1) - 1 = N
  BY <1>1
<1>5. from[p] = SubSeq(text, p, N) \o from[N + 1]
  <2> DEFINE q == N + 1
  <2>1. q \in p..(Len(text) + 1) /\ q - 1 = N
    BY <1>4
  <2>2. KeylessRun(text, p, q)
    BY <1>3, <2>1 DEF KeylessRun
  <2> HIDE DEF q
  <2>3. from[p] = SubSeq(text, p, q - 1) \o from[q]
    <3>1. p \in 1..(Len(text) + 1) /\ q \in p..(Len(text) + 1)
      BY <2>1
    <3>2. Copied(text, from, p, q)
      BY <2>2, <3>1, RunIsCopied
    <3> QED
      BY <3>2 DEF Copied
  <2> QED
    BY <2>1, <2>3 DEF q
<1>6. SubSeq(text, p, N) = t
  <2>1. N \in 0..N /\ p <= N + 1 /\ N + 1 - p = Len(t)
    BY <1>1
  <2>2. /\ SubSeq(text, p, N) \in Texts
        /\ Len(SubSeq(text, p, N)) = Len(t)
        /\ \A i \in 1..Len(t) : SubSeq(text, p, N)[i] = text[p + i - 1]
    BY <2>1, PartOfText
  <2>3. \A i \in 1..Len(t) : SubSeq(text, p, N)[i] = t[i]
    BY <2>2 DEF WrittenAt
  <2> QED
    BY <1>1, <2>2, <2>3, SameText
<1>7. from[N + 1] = << >>
  BY DEF Filled
<1> QED
  BY <1>1, <1>5, <1>6, <1>7, EmptyJoined

-----------------------------------------------------------------------------
(* A text in parts. *)

\* joined[n] is the first n parts, one after the other.
Flattened(parts, joined) ==
  /\ joined \in [0..Len(parts) -> Texts]
  /\ joined[0] = << >>
  /\ \A n \in 1..Len(parts) : joined[n] = joined[n - 1] \o parts[n]

\* Each part of a text in parts is a text.
LEMMA PartsAreTexts ==
  \A parts \in Seq(Texts) :
    /\ Len(parts) \in Nat
    /\ \A n \in 1..Len(parts) : parts[n] \in Texts
    /\ Len(parts) = 0 => parts = << >>
OBVIOUS

\* FlattenSeq puts the parts one after the other.
LEMMA FlattenIsJoined ==
  ASSUME NEW parts \in Seq(Texts)
  PROVE  \E joined : Flattened(parts, joined) /\ FlattenSeq(parts) = joined[Len(parts)]
<1> DEFINE N == Len(parts)
<1>1. N \in Nat /\ \A n \in 1..N : parts[n] \in Texts
  BY PartsAreTexts
<1>2. CASE N = 0
  <2> DEFINE g == [n \in 0..0 |-> << >>]
  <2>1. g \in [0..0 -> Texts] /\ g[0] = << >>
    BY EmptyText
  <2> HIDE DEF g
  <2>2. \A n \in 1..0 : FALSE
    OBVIOUS
  <2>3. Flattened(parts, g)
    BY <1>2, <2>1, <2>2 DEF Flattened
  <2>4. FlattenSeq(parts) = parts /\ parts = << >>
    BY <1>2, PartsAreTexts DEF FlattenSeq
  <2> QED
    BY <1>2, <2>1, <2>3, <2>4
<1>3. CASE N # 0
  <2> DEFINE Step(f) == [n \in 1..N |-> IF n = 1 THEN parts[n] ELSE f[n - 1] \o parts[n]]
             flatten == CHOOSE f : f = Step(f)
             Done(k, f) == /\ f \in [1..k -> Texts] /\ f[1] = parts[1]
                           /\ \A n \in 2..k : f[n] = f[n - 1] \o parts[n]
             good == {k \in 1..N : \E f : Done(k, f)}
  <2>1. 1 \in 1..N /\ N \in 1..N /\ N \in Nat /\ 1 \in Nat
    BY <1>1, <1>3
  <2>2. 1 \in good
    <3> DEFINE f == [n \in 1..1 |-> parts[1]]
    <3>1. f \in [1..1 -> Texts] /\ f[1] = parts[1] /\ \A n \in 2..1 : FALSE
      BY <1>1, <2>1
    <3> HIDE DEF f
    <3>2. Done(1, f)
      BY <3>1
    <3> QED
      BY <2>1, <3>2
  <2>3. ASSUME NEW k \in 1..(N - 1), k \in good PROVE k + 1 \in good
    <3>1. PICK f : Done(k, f)
      BY <2>3
    <3> DEFINE last == f[k] \o parts[k + 1]
               g == [n \in 1..(k + 1) |-> IF n = k + 1 THEN last ELSE f[n]]
    <3>2. k \in 1..k /\ k + 1 \in 1..N /\ k \in Nat /\ 1 \in 1..k /\ 1 # k + 1
      BY <1>1
    <3>3. f \in [1..k -> Texts] /\ f[1] = parts[1] /\ \A n \in 2..k : f[n] = f[n - 1] \o parts[n]
      BY <3>1
    <3>4. last \in Texts
      BY <1>1, <3>2, <3>3, TextsJoined
    <3> HIDE DEF last
    <3>5. g \in [1..(k + 1) -> Texts] /\ g[1] = parts[1]
      BY <3>2, <3>3, <3>4
    <3>6. ASSUME NEW n \in 2..(k + 1) PROVE g[n] = g[n - 1] \o parts[n]
      <4>1. CASE n = k + 1
        <5>1. n - 1 = k /\ g[n] = last /\ g[n - 1] = f[k]
          BY <3>2, <4>1
        <5> QED
          BY <4>1, <5>1 DEF last
      <4>2. CASE n # k + 1
        <5>1. n \in 2..k /\ n - 1 \in 1..k /\ n - 1 # k + 1
          BY <3>2, <4>2
        <5>2. g[n] = f[n] /\ g[n - 1] = f[n - 1]
          BY <3>2, <4>2, <5>1
        <5> QED
          BY <3>3, <5>1, <5>2
      <4> QED
        BY <4>1, <4>2
    <3> HIDE DEF g
    <3>7. Done(k + 1, g)
      BY <3>5, <3>6
    <3> QED
      BY <3>2, <3>7
  <2> HIDE DEF good
  <2>4. 1..N \subseteq good
    BY <2>1, <2>2, <2>3, CountingUp
  <2>5. PICK f : Done(N, f)
    BY <2>1, <2>4 DEF good
  <2>6. f = Step(f)
    <3>1. ASSUME NEW n \in 1..N PROVE f[n] = Step(f)[n]
      <4>1. CASE n = 1
        BY <2>5, <4>1
      <4>2. CASE n # 1
        <5>1. n \in 2..N
          BY <1>1, <4>2
        <5> QED
          BY <2>5, <4>2, <5>1
      <4> QED
        BY <4>1, <4>2
    <3> QED
      BY <2>5, <3>1
  <2>7. flatten = Step(flatten)
    <3> HIDE DEF Step
    <3> QED
      BY <2>6
  <2>8. FlattenSeq(parts) = flatten[N]
    BY <1>3 DEF FlattenSeq
  <2> HIDE DEF flatten
  <2>9. flatten[1] = parts[1] /\ \A n \in 2..N : flatten[n] = flatten[n - 1] \o parts[n]
    <3>1. \A n \in 2..N : n \in 1..N /\ n # 1
      BY <1>1
    <3> QED
      BY <2>1, <2>7, <3>1
  <2> DEFINE full == {n \in 1..N : flatten[n] \in Texts}
  <2>10. 1..N \subseteq full
    <3>1. 1 \in full
      BY <1>1, <2>1, <2>9
    <3>2. ASSUME NEW k \in 1..(N - 1), k \in full PROVE k + 1 \in full
      <4>1. k + 1 \in 2..N /\ k + 1 \in 1..N /\ (k + 1) - 1 = k
        BY <1>1
      <4>2. flatten[k + 1] = flatten[k] \o parts[k + 1]
        BY <2>9, <4>1
      <4>3. flatten[k] \in Texts /\ parts[k + 1] \in Texts
        BY <1>1, <3>2, <4>1
      <4>4. flatten[k + 1] \in Texts
        BY <4>2, <4>3, TextsJoined, Zenon
      <4> QED
        BY <4>1, <4>4
    <3> HIDE DEF full
    <3> QED
      BY <2>1, <3>1, <3>2, CountingUp
  <2> DEFINE g == [n \in 0..N |-> IF n = 0 THEN << >> ELSE flatten[n]]
  <2>11. g \in [0..N -> Texts] /\ g[0] = << >>
    <3>1. \A n \in 0..N : n = 0 \/ n \in 1..N
      BY <1>1
    <3> QED
      BY <1>1, <2>10, <3>1, EmptyText
  <2>12. ASSUME NEW n \in 1..N PROVE g[n] = g[n - 1] \o parts[n]
    <3>1. CASE n = 1
      <4>1. g[n] = parts[n] /\ g[n - 1] = << >>
        BY <1>1, <2>9, <3>1
      <4> QED
        BY <1>1, <4>1, EmptyJoined
    <3>2. CASE n # 1
      <4>1. n \in 2..N /\ n # 0 /\ n \in 0..N /\ n - 1 \in 0..N /\ n - 1 # 0
        BY <1>1, <3>2
      <4> QED
        BY <2>9, <4>1
    <3> QED
      BY <3>1, <3>2
  <2>13. g[N] = flatten[N]
    BY <1>1, <1>3
  <2> HIDE DEF g
  <2>14. Flattened(parts, g)
    BY <2>11, <2>12 DEF Flattened
  <2> QED
    BY <2>8, <2>13, <2>14
<1> QED
  BY <1>2, <1>3

\* What is joined stays in place: each part is found where it was put.
LEMMA PartsStay ==
  ASSUME NEW parts \in Seq(Texts), NEW joined, Flattened(parts, joined),
         NEW n \in 0..Len(parts), NEW m \in n..Len(parts)
  PROVE  /\ Len(joined[n]) <= Len(joined[m])
         /\ \A i \in 1..Len(joined[n]) : joined[m][i] = joined[n][i]
<1> DEFINE N == Len(parts)
           good == {k \in n..N : /\ Len(joined[n]) <= Len(joined[k])
                                 /\ \A i \in 1..Len(joined[n]) : joined[k][i] = joined[n][i]}
<1>1. N \in Nat /\ (\A k \in 1..N : parts[k] \in Texts) /\ n \in Nat
  BY PartsAreTexts
<1>2. /\ \A k \in 0..N : joined[k] \in Texts /\ Len(joined[k]) \in Nat
      /\ \A k \in 1..N : joined[k] = joined[k - 1] \o parts[k]
  BY TextLength DEF Flattened
<1>3. n \in good
  <2>1. n \in n..N /\ n \in 0..N
    BY <1>1
  <2> QED
    BY <1>2, <2>1
<1>4. ASSUME NEW k \in n..(N - 1), k \in good PROVE k + 1 \in good
  <2>1. k \in 0..N /\ k + 1 \in 1..N /\ (k + 1) - 1 = k /\ k + 1 \in n..N
    BY <1>1
  <2> DEFINE a == joined[k]
             b == parts[k + 1]
  <2>2. joined[k + 1] = a \o b /\ a \in Texts /\ b \in Texts
    BY <1>1, <1>2, <2>1
  <2> HIDE DEF a, b
  <2>3. Len(a) \in Nat /\ Len(b) \in Nat
    BY <2>2, TextLength
  <2>4. Len(a \o b) = Len(a) + Len(b) /\ \A i \in 1..Len(a) : (a \o b)[i] = a[i]
    BY <2>2, TextsJoined
  <2>5. Len(joined[n]) \in Nat /\ Len(joined[n]) <= Len(a)
        /\ \A i \in 1..Len(joined[n]) : a[i] = joined[n][i]
    BY <1>2, <1>4 DEF a
  <2>6. Len(joined[n]) <= Len(a \o b)
        /\ \A i \in 1..Len(joined[n]) : (a \o b)[i] = joined[n][i]
    BY <2>3, <2>4, <2>5
  <2> QED
    BY <2>1, <2>2, <2>6
<1> HIDE DEF good
<1>5. n..N \subseteq good
  BY <1>1, <1>3, <1>4, CountingUp
<1> QED
  BY <1>5 DEF good

\* Every template is filled in, however many segments it has and whatever the
\* answers are: each key is replaced by its answer, an answer is not looked at
\* again, and everything else stays.
THEOREM TemplatesAreFilledIn ==
  ASSUME NEW ans, \A key \in Texts : Lookup(ans, key) \in Texts,
         NEW m \in Nat, NEW segments, DOMAIN segments = 1..m,
         \A n \in 1..m : SegmentOK(segments[n]),
         NEW tail, TailOK(tail)
  PROVE  Expand(Template(segments) \o tail, ans) = FilledIn(segments, ans) \o tail
<1> DEFINE T == [n \in 1..m |-> SegmentText(segments[n])]
           V == [n \in 1..m |-> SegmentValue(segments[n], ans)]
<1>1. T \in Seq(Texts) /\ Len(T) = m
  <2>1. \A n \in 1..m : SegmentText(segments[n]) \in Texts
    BY SegmentWritten
  <2> QED
    BY <2>1
<1>2. V \in Seq(Texts) /\ Len(V) = m
  <2>1. ASSUME NEW n \in 1..m PROVE SegmentValue(segments[n], ans) \in Texts
    <3>1. SegmentText(segments[n]) \in Texts /\ segments[n].body \in Texts
      BY SegmentWritten DEF SegmentOK
    <3> QED
      BY <3>1 DEF SegmentValue
  <2> QED
    BY <2>1
<1>3. \A n \in 1..m : T[n] = SegmentText(segments[n]) /\ V[n] = SegmentValue(segments[n], ans)
  OBVIOUS
<1>3a. Template(segments) = FlattenSeq(T) /\ FilledIn(segments, ans) = FlattenSeq(V)
  BY DEF Template, FilledIn
<1> HIDE DEF T, V
<1>4. PICK tj : Flattened(T, tj) /\ FlattenSeq(T) = tj[Len(T)]
  BY <1>1, FlattenIsJoined
<1>5. PICK vj : Flattened(V, vj) /\ FlattenSeq(V) = vj[Len(V)]
  BY <1>2, FlattenIsJoined
<1>6. /\ tj[0] = << >> /\ (\A n \in 0..m : tj[n] \in Texts /\ Len(tj[n]) \in Nat)
      /\ \A n \in 1..m : tj[n] = tj[n - 1] \o T[n]
  BY <1>1, <1>4, TextLength DEF Flattened
<1>7. /\ vj[0] = << >> /\ (\A n \in 0..m : vj[n] \in Texts)
      /\ \A n \in 1..m : vj[n] = vj[n - 1] \o V[n]
  BY <1>2, <1>5 DEF Flattened
<1>8. m \in 0..m /\ tail \in Texts /\ Len(tail) \in Nat
  BY TextLength DEF TailOK
<1> DEFINE text == tj[m] \o tail
           L(n) == Len(tj[n])
<1>9. /\ text \in Texts /\ Len(text) = L(m) + Len(tail)
      /\ \A i \in 1..L(m) : text[i] = tj[m][i]
      /\ \A i \in 1..Len(tail) : text[L(m) + i] = tail[i]
  BY <1>6, <1>8, TextsJoined
<1> HIDE DEF text
<1>10. ASSUME NEW n \in 1..m
       PROVE  /\ T[n] \in Texts /\ T[n] # << >> /\ T[n][1] # OpenBrace /\ Len(T[n]) \in Nat
              /\ Len(T[n]) # 0
              /\ L(n) = L(n - 1) + Len(T[n]) /\ L(n - 1) \in Nat /\ L(n) \in Nat
              /\ L(n) <= L(m)
              /\ \A i \in 1..Len(T[n]) : text[L(n - 1) + i] = T[n][i]
  <2>1. n - 1 \in 0..m /\ n \in 0..m
    OBVIOUS
  <2>2. T[n] \in Texts /\ T[n] # << >> /\ T[n][1] # OpenBrace
    BY <1>3, SegmentWritten
  <2>3. Len(T[n]) \in Nat /\ Len(T[n]) # 0
    BY <2>2, TextLength, EmptySeq DEF Texts
  <2> DEFINE a == tj[n - 1]
             b == T[n]
  <2>4. a \in Texts /\ b \in Texts /\ tj[n] = a \o b /\ Len(a) \in Nat /\ Len(b) \in Nat
    BY <1>6, <2>1, <2>2, <2>3
  <2> HIDE DEF a, b
  <2>5. Len(a \o b) = Len(a) + Len(b) /\ \A i \in 1..Len(b) : (a \o b)[Len(a) + i] = b[i]
    BY <2>4, TextsJoined
  <2>6. L(n) <= L(m) /\ \A i \in 1..L(n) : tj[m][i] = tj[n][i]
    <3>1. m \in n..Len(T) /\ n \in 0..Len(T)
      BY <1>1, <2>1
    <3> QED
      BY <1>1, <1>4, <3>1, PartsStay
  <2>7. L(n) = Len(a) + Len(b) /\ L(m) \in Nat
    BY <1>6, <1>8, <2>4, <2>5
  <2>8. ASSUME NEW i \in 1..Len(b) PROVE text[Len(a) + i] = b[i]
    <3>1. Len(a) + i \in 1..L(n) /\ Len(a) + i \in 1..L(m)
      BY <2>4, <2>6, <2>7
    <3>2. text[Len(a) + i] = tj[m][Len(a) + i] /\ tj[m][Len(a) + i] = tj[n][Len(a) + i]
      BY <1>9, <2>6, <3>1
    <3> QED
      BY <2>4, <2>5, <3>2
  <2> QED
    BY <1>6, <2>1, <2>2, <2>3, <2>6, <2>7, <2>8 DEF a, b
<1>11. ASSUME NEW n \in 0..m, L(n) + 1 <= Len(text) PROVE text[L(n) + 1] # OpenBrace
  <2>1. CASE n = m
    <3>1. Len(tail) > 0 /\ 1 \in 1..Len(tail)
      BY <1>6, <1>8, <1>9, <1>11, <2>1
    <3>2. text[L(n) + 1] = tail[1]
      BY <1>9, <2>1, <3>1
    <3> QED
      BY <3>1, <3>2 DEF TailOK
  <2>2. CASE n # m
    <3>1. n + 1 \in 1..m /\ (n + 1) - 1 = n
      BY <2>2
    <3> DEFINE k == n + 1
    <3>2. k \in 1..m /\ k - 1 = n
      BY <3>1
    <3> HIDE DEF k
    <3>3. /\ Len(T[k]) \in Nat /\ Len(T[k]) # 0 /\ T[k][1] # OpenBrace
          /\ \A i \in 1..Len(T[k]) : text[L(k - 1) + i] = T[k][i]
      BY <1>10, <3>2
    <3>4. 1 \in 1..Len(T[k])
      BY <3>3
    <3> QED
      BY <3>2, <3>3, <3>4
  <2> QED
    BY <2>1, <2>2
<1>12. PICK from : Filled(text, ans, from) /\ Expand(text, ans) = from[1]
  BY <1>9, ExpandIsFilled
<1>12a. text \in Texts /\ Filled(text, ans, from)
  BY <1>9, <1>12
<1>13. Len(text) \in Nat /\ L(m) \in Nat /\ L(m) <= Len(text)
  BY <1>6, <1>8, <1>9
<1>13a. \A p \in 1..(Len(text) + 1) : from[p] \in Texts
  BY <1>12a DEF Filled
<1> DEFINE good == {n \in 0..m : /\ from[1] = vj[n] \o from[L(n) + 1]
                                 /\ L(n) + 1 \in 1..(Len(text) + 1)}
<1>14. 0 \in good
  <2>1. L(0) = 0 /\ 0 \in 0..m
    BY <1>6, EmptyText
  <2>2. 1 \in 1..(Len(text) + 1) /\ L(0) + 1 = 1
    BY <1>13, <2>1
  <2>3. from[1] = << >> \o from[1]
    BY <1>13a, <2>2, EmptyJoined
  <2> QED
    BY <1>7, <2>1, <2>2, <2>3
<1>15. ASSUME NEW n \in 0..(m - 1), n \in good PROVE n + 1 \in good
  <2> DEFINE k == n + 1
             p == L(n) + 1
             q == L(k) + 1
             s == segments[k]
  <2>1. k \in 1..m /\ k \in 0..m /\ n \in 0..m /\ k - 1 = n
    OBVIOUS
  <2> HIDE DEF k
  <2>2. /\ Len(T[k]) \in Nat /\ Len(T[k]) # 0
        /\ L(k) = L(n) + Len(T[k]) /\ L(n) \in Nat /\ L(k) \in Nat /\ L(k) <= L(m)
    BY <1>10, <2>1
  <2>2a. \A i \in 1..Len(T[k]) : text[L(n) + i] = T[k][i]
    BY <1>10, <2>1
  <2>3. T[k] = SegmentText(s) /\ V[k] = SegmentValue(s, ans) /\ SegmentOK(s)
    BY <1>3, <2>1
  <2> HIDE DEF s
  <2>4. /\ p \in 1..Len(text) /\ q \in p..(Len(text) + 1) /\ q = p + Len(T[k])
        /\ q \in 1..(Len(text) + 1)
    <3> DEFINE ln == L(n)
               lk == L(k)
               lm == L(m)
               lt == Len(T[k])
               all == Len(text)
    <3>1. /\ lt \in Nat /\ lt # 0 /\ lk = ln + lt /\ ln \in Nat /\ lk \in Nat
          /\ lk <= lm /\ lm <= all /\ lm \in Nat /\ all \in Nat
      BY <1>13, <2>2
    <3> HIDE DEF ln, lk, lm, lt, all
    <3>2. /\ ln + 1 \in 1..all /\ lk + 1 \in (ln + 1)..(all + 1) /\ lk + 1 = ln + 1 + lt
          /\ lk + 1 \in 1..(all + 1)
      BY <3>1
    <3> QED
      BY <3>2 DEF ln, lk, lt, all
  <2>5. WrittenAt(text, p, T[k])
    <3>1. \A i \in 1..Len(T[k]) : p + i - 1 = L(n) + i
      BY <2>2
    <3> QED
      BY <2>2a, <3>1 DEF WrittenAt
  <2>6. q <= Len(text) => text[q] # OpenBrace
    BY <1>11, <2>1
  <2> HIDE DEF p, q
  <2>7. from[p] = V[k] \o from[q]
    BY <1>12a, <2>3, <2>4, <2>5, <2>6, SegmentIsFilled
  <2>8. from[1] = vj[n] \o from[p]
    BY <1>15 DEF p
  <2>9. vj[n] \in Texts /\ V[k] \in Texts /\ from[q] \in Texts /\ vj[k] = vj[n] \o V[k]
    BY <1>2, <1>7, <1>13a, <2>1, <2>4, PartsAreTexts
  <2>10. (vj[n] \o V[k]) \o from[q] = vj[n] \o (V[k] \o from[q])
    <3> DEFINE x == vj[n]
               y == V[k]
               z == from[q]
    <3>1. x \in Texts /\ y \in Texts /\ z \in Texts
      BY <2>9
    <3> HIDE DEF x, y, z
    <3>2. (x \o y) \o z = x \o (y \o z)
      BY <3>1, TextsAssociate
    <3> QED
      BY <3>2 DEF x, y, z
  <2>11. from[1] = vj[k] \o from[q]
    BY <2>7, <2>8, <2>9, <2>10, Zenon
  <2> QED
    BY <2>1, <2>4, <2>11 DEF k, q
<1> HIDE DEF good
<1>16. m \in good
  <2>1. 0..m \subseteq good
    BY <1>14, <1>15, CountingUp
  <2> QED
    BY <1>8, <2>1
<1>17. from[1] = vj[m] \o from[L(m) + 1] /\ L(m) + 1 \in 1..(Len(text) + 1)
  BY <1>16 DEF good
<1>18. from[L(m) + 1] = tail
  <2> DEFINE p == L(m) + 1
  <2>1. p \in 1..(Len(text) + 1) /\ p + Len(tail) = Len(text) + 1
    BY <1>8, <1>9, <1>13, <1>17
  <2>2. WrittenAt(text, p, tail)
    <3>1. \A i \in 1..Len(tail) : p + i - 1 = L(m) + i
      BY <1>13
    <3> QED
      BY <1>9, <3>1 DEF WrittenAt
  <2> HIDE DEF p
  <2>3. from[p] = tail
    BY <1>12a, <2>1, <2>2, TailIsCopied
  <2> QED
    BY <2>3 DEF p
<1>19. Expand(text, ans) = vj[m] \o tail
  BY <1>12, <1>17, <1>18
<1> QED
  BY <1>1, <1>2, <1>3a, <1>4, <1>5, <1>19 DEF text

-----------------------------------------------------------------------------
(* The list of partitions, and the one picked from it. *)

\* The lines as they are put into the list, each behind the end of the one before.
Behind(lines) ==
  [n \in 1..Len(lines) |-> (IF n = 1 THEN << >> ELSE <<EOL>>) \o lines[n]]

\* Partitions are listed one on a line.
LinesOK(lines) ==
  /\ lines \in Seq(Texts)
  /\ \A n \in 1..Len(lines) :
       lines[n] # << >> /\ \A i \in 1..Len(lines[n]) : lines[n][i] # EOL

\* Lines are texts that are not empty.
LEMMA LinesAreTexts ==
  ASSUME NEW lines, LinesOK(lines)
  PROVE  /\ Len(lines) \in Nat
         /\ \A n \in 1..Len(lines) :
              lines[n] \in Texts /\ Len(lines[n]) \in Nat \ {0}
<1>1. Len(lines) \in Nat /\ \A n \in 1..Len(lines) : lines[n] \in Texts
  BY PartsAreTexts DEF LinesOK
<1>2. ASSUME NEW n \in 1..Len(lines) PROVE Len(lines[n]) \in Nat \ {0}
  <2>1. lines[n] \in Texts /\ lines[n] # << >>
    BY <1>1 DEF LinesOK
  <2> QED
    BY <2>1, EmptySeq DEF Texts
<1> QED
  BY <1>1, <1>2

\* Every line but the first goes behind a newline.
LEMMA BehindIsParts ==
  ASSUME NEW lines, LinesOK(lines)
  PROVE  /\ Behind(lines) \in Seq(Texts) /\ Len(Behind(lines)) = Len(lines)
         /\ \A n \in 1..Len(lines) :
              Behind(lines)[n] = (IF n = 1 THEN << >> ELSE <<EOL>>) \o lines[n]
         /\ \A n \in 1..Len(lines) :
              Len(Behind(lines)[n]) = Len(lines[n]) + IF n = 1 THEN 0 ELSE 1
<1>1. Len(lines) \in Nat
  BY LinesAreTexts
<1>2. ASSUME NEW n \in 1..Len(lines)
      PROVE  LET more == (IF n = 1 THEN << >> ELSE <<EOL>>) \o lines[n]
             IN  more \in Texts /\ Len(more) = Len(lines[n]) + IF n = 1 THEN 0 ELSE 1
  <2> DEFINE sep == IF n = 1 THEN << >> ELSE <<EOL>>
             b == lines[n]
  <2>1. sep \in Texts /\ Len(sep) = IF n = 1 THEN 0 ELSE 1
    <3>1. <<EOL>> \in Texts /\ Len(<<EOL>>) = 1
      BY OneCharText DEF Chars
    <3> QED
      BY <3>1, EmptyText
  <2>2. b \in Texts /\ Len(b) \in Nat
    BY LinesAreTexts
  <2> HIDE DEF sep, b
  <2>3. sep \o b \in Texts /\ Len(sep \o b) = Len(sep) + Len(b)
    BY <2>1, <2>2, TextsJoined
  <2>4. Len(sep \o b) = Len(b) + IF n = 1 THEN 0 ELSE 1
    <3>1. CASE n = 1
      BY <2>1, <2>2, <2>3, <3>1
    <3>2. CASE n # 1
      BY <2>1, <2>2, <2>3, <3>2
    <3> QED
      BY <3>1, <3>2
  <2> QED
    BY <2>3, <2>4 DEF sep, b
<1>3. \A n \in 1..Len(lines) :
        Behind(lines)[n] = (IF n = 1 THEN << >> ELSE <<EOL>>) \o lines[n]
  BY DEF Behind
<1>4. \A n \in 1..Len(lines) :
        /\ Behind(lines)[n] \in Texts
        /\ Len(Behind(lines)[n]) = Len(lines[n]) + IF n = 1 THEN 0 ELSE 1
  BY <1>2, <1>3
<1>5. Behind(lines) \in [1..Len(lines) -> Texts]
  BY <1>4 DEF Behind
<1>6. Behind(lines) \in Seq(Texts) /\ Len(Behind(lines)) = Len(lines)
  BY <1>1, <1>5
<1> QED
  BY <1>3, <1>4, <1>6

\* How the list grows with each line.
LEMMA ListGrows ==
  ASSUME NEW lines, LinesOK(lines), NEW joined, Flattened(Behind(lines), joined)
  PROVE  /\ joined[0] = << >>
         /\ \A n \in 0..Len(lines) : joined[n] \in Texts /\ Len(joined[n]) \in Nat
         /\ \A n \in 1..Len(lines) :
              /\ joined[n] = joined[n - 1] \o Behind(lines)[n]
              /\ Len(joined[n]) = Len(joined[n - 1]) + Len(Behind(lines)[n])
              /\ Len(joined[n]) >= 1
<1>1. /\ joined[0] = << >>
      /\ \A n \in 0..Len(lines) : joined[n] \in Texts /\ Len(joined[n]) \in Nat
      /\ \A n \in 1..Len(lines) : joined[n] = joined[n - 1] \o Behind(lines)[n]
  BY BehindIsParts, TextLength DEF Flattened
<1>2. ASSUME NEW n \in 1..Len(lines)
      PROVE  /\ Len(joined[n]) = Len(joined[n - 1]) + Len(Behind(lines)[n])
             /\ Len(joined[n]) >= 1
  <2>1. n - 1 \in 0..Len(lines)
    BY LinesAreTexts
  <2> DEFINE a == joined[n - 1]
             b == Behind(lines)[n]
  <2>2. a \in Texts /\ b \in Texts /\ joined[n] = a \o b
    BY <1>1, <2>1, BehindIsParts, PartsAreTexts
  <2>3. Len(b) >= 1
    <3>1. Len(lines[n]) \in Nat \ {0}
      BY LinesAreTexts
    <3>2. Len(b) = Len(lines[n]) + IF n = 1 THEN 0 ELSE 1
      BY BehindIsParts
    <3> DEFINE len == Len(lines[n])
               long == Len(b)
    <3> HIDE DEF b, len, long
    <3>3. len \in Nat \ {0} /\ long = len + IF n = 1 THEN 0 ELSE 1
      BY <3>1, <3>2 DEF len, long
    <3>4. long >= 1
      BY <3>3
    <3> QED
      BY <3>4 DEF long
  <2> HIDE DEF a, b
  <2>4. Len(a \o b) = Len(a) + Len(b) /\ Len(a) \in Nat /\ Len(b) \in Nat
    BY <2>2, TextsJoined, TextLength
  <2>5. Len(a) + Len(b) >= 1
    BY <2>3, <2>4
  <2> QED
    BY <2>2, <2>4, <2>5 DEF a, b
<1> QED
  BY <1>1, <1>2

\* A list that fits is the lines, one behind the other.
LEMMA ListIsJoined ==
  ASSUME NEW lines, LinesOK(lines), NEW joined, Flattened(Behind(lines), joined),
         NEW cap \in Nat, Len(joined[Len(lines)]) < cap
  PROVE  TargetList(lines, cap) = joined[Len(lines)]
<1> DEFINE N == Len(lines)
           Added(text, line) ==
             LET more == (IF text = << >> THEN << >> ELSE <<EOL>>) \o line
             IN  IF line = << >> THEN text
                 ELSE text \o SubSeq(more, 1, Min({Len(more), cap - 1 - Len(text)}))
           Step(f) == [n \in 0..N |-> IF n = 0 THEN << >> ELSE Added(f[n - 1], lines[n])]
           list == CHOOSE f : f = Step(f)
<1>1. N \in Nat /\ N \in 0..N
  BY LinesAreTexts
<1>2. /\ joined \in [0..N -> Texts] /\ joined[0] = << >>
      /\ \A n \in 0..N : joined[n] \in Texts /\ Len(joined[n]) \in Nat
  BY ListGrows, BehindIsParts DEF Flattened
<1>3. \A n \in 1..N :
        /\ joined[n] = joined[n - 1] \o Behind(lines)[n]
        /\ Len(joined[n]) = Len(joined[n - 1]) + Len(Behind(lines)[n])
        /\ Len(joined[n]) >= 1
  BY ListGrows
<1>4. ASSUME NEW n \in 1..N PROVE joined[n] = Added(joined[n - 1], lines[n])
  <2> DEFINE text == joined[n - 1]
             more == Behind(lines)[n]
  <2>1. n - 1 \in 0..N /\ n \in 0..N /\ N \in n..N
    BY <1>1
  <2>2. text = << >> <=> n = 1
    <3>1. CASE n = 1
      BY <1>2, <3>1
    <3>2. CASE n # 1
      <4> DEFINE k == n - 1
      <4>1. k \in 1..N
        BY <3>2
      <4> HIDE DEF k
      <4>2. Len(joined[k]) >= 1
        BY <1>3, <4>1
      <4>3. joined[k] # << >>
        BY <4>2, EmptyText
      <4> QED
        BY <3>2, <4>3 DEF k
    <3> QED
      BY <3>1, <3>2
  <2>3. more = (IF text = << >> THEN << >> ELSE <<EOL>>) \o lines[n]
    BY <2>2, BehindIsParts
  <2>4. more \in Texts /\ text \in Texts /\ Len(text) \in Nat
    BY <1>2, <2>1, BehindIsParts, PartsAreTexts
  <2>5. joined[n] = text \o more /\ Len(joined[n]) = Len(text) + Len(more)
    BY <1>3
  <2>6. Len(joined[n]) <= Len(joined[N])
    BY <2>1, BehindIsParts, PartsStay
  <2>7. Len(joined[n]) \in Nat /\ Len(joined[N]) \in Nat
    BY <1>1, <1>2, <2>1
  <2> HIDE DEF text, more
  <2>8. Len(more) <= cap - 1 - Len(text) /\ Len(more) \in Nat /\ cap - 1 - Len(text) \in Nat
    <3> DEFINE lm == Len(more)
               lt == Len(text)
               ln == Len(joined[n])
               la == Len(joined[N])
    <3>1. lm \in Nat /\ lt \in Nat /\ ln \in Nat /\ la \in Nat /\ ln = lt + lm /\ ln <= la /\ la < cap
      BY <2>4, <2>5, <2>6, <2>7, TextLength
    <3> HIDE DEF lm, lt, ln, la
    <3>2. lm <= cap - 1 - lt /\ cap - 1 - lt \in Nat
      BY <3>1
    <3> QED
      BY <3>1, <3>2 DEF lm, lt
  <2>9. Min({Len(more), cap - 1 - Len(text)}) = Len(more)
    <3> DEFINE S == {Len(more), cap - 1 - Len(text)}
    <3>1. S \subseteq Nat /\ Len(more) \in S /\ \A k \in S : Len(more) <= k
      BY <2>8
    <3> HIDE DEF S
    <3>2. Min(S) = Len(more)
      BY <3>1, LeastIs
    <3> QED
      BY <3>2 DEF S
  <2>10. SubSeq(more, 1, Len(more)) = more
    BY <2>4, WholeText
  <2>11. lines[n] # << >>
    BY DEF LinesOK
  <2>12. Added(text, lines[n]) = text \o more
    BY <2>3, <2>9, <2>10, <2>11, Zenon
  <2> HIDE DEF Added
  <2> QED
    BY <2>5, <2>12 DEF text
<1> HIDE DEF Added
<1>5. joined = Step(joined)
  <2>1. ASSUME NEW n \in 0..N PROVE joined[n] = Step(joined)[n]
    <3>1. CASE n = 0
      BY <1>2, <3>1
    <3>2. CASE n # 0
      <4>1. n \in 1..N
        BY <3>2
      <4> QED
        BY <1>4, <3>2, <4>1
    <3> QED
      BY <3>1, <3>2
  <2> QED
    BY <1>2, <2>1
<1>6. list = Step(list)
  <2> HIDE DEF Step
  <2> QED
    BY <1>5
<1>7. TargetList(lines, cap) = list[N]
  BY DEF TargetList, Added
<1> HIDE DEF list
<1>8. list[0] = << >> /\ \A n \in 1..N : list[n] = Added(list[n - 1], lines[n])
  <2>1. 0 \in 0..N /\ \A n \in 1..N : n \in 0..N /\ n # 0
    BY <1>1
  <2> QED
    BY <1>6, <2>1
<1> DEFINE good == {n \in 0..N : list[n] = joined[n]}
<1>9. 0 \in good
  BY <1>1, <1>2, <1>8
<1>10. ASSUME NEW n \in 0..(N - 1), n \in good PROVE n + 1 \in good
  <2>1. n + 1 \in 1..N /\ n + 1 \in 0..N /\ (n + 1) - 1 = n
    BY <1>1
  <2> QED
    BY <1>4, <1>8, <1>10, <2>1
<1> HIDE DEF good
<1>11. 0..N \subseteq good
  BY <1>1, <1>9, <1>10, CountingUp
<1> QED
  BY <1>1, <1>7, <1>11 DEF good

-----------------------------------------------------------------------------
\* Where a line ends in the list: at the newline behind it, the last at the end.
Ends(joined) == [n \in DOMAIN joined |-> IF n = 0 THEN 0 ELSE Len(joined[n]) + 1]

\* The ends are apart by the lines, each line stands before its end, and the ends
\* are where the newlines are.
LEMMA EndsOfLines ==
  ASSUME NEW lines, LinesOK(lines), NEW joined, Flattened(Behind(lines), joined)
  PROVE  LET e == Ends(joined)
             N == Len(lines)
             list == joined[N]
         IN  /\ e[0] = 0
             /\ \A n \in 0..N : e[n] \in Nat
             /\ \A n \in 1..N : e[n] = e[n - 1] + Len(lines[n]) + 1
             /\ \A n \in 1..N : e[n] <= Len(list) + 1
             /\ \A n \in 1..N : \A i \in 1..Len(lines[n]) : list[e[n - 1] + i] = lines[n][i]
             /\ \A n \in 1..(N - 1) : list[e[n]] = EOL
             /\ N > 0 => e[N] = Len(list) + 1
<1> DEFINE e == Ends(joined)
           N == Len(lines)
           list == joined[N]
<1>1. N \in Nat /\ N \in 0..N
  BY LinesAreTexts
<1>2. DOMAIN joined = 0..N
  BY BehindIsParts DEF Flattened
<1>3. /\ joined[0] = << >>
      /\ \A n \in 0..N : joined[n] \in Texts /\ Len(joined[n]) \in Nat
  BY ListGrows
<1>4. \A n \in 1..N :
        /\ joined[n] = joined[n - 1] \o Behind(lines)[n]
        /\ Len(joined[n]) = Len(joined[n - 1]) + Len(Behind(lines)[n])
  BY ListGrows
<1>5. e[0] = 0 /\ \A n \in 1..N : e[n] = Len(joined[n]) + 1
  <2>1. 0 \in 0..N /\ \A n \in 1..N : n \in 0..N /\ n # 0
    BY <1>1
  <2> QED
    BY <1>2, <2>1 DEF Ends
<1> HIDE DEF e
<1>6. \A n \in 0..N : e[n] \in Nat
  <2> SUFFICES ASSUME NEW n \in 0..N PROVE e[n] \in Nat
    OBVIOUS
  <2>1. n = 0 \/ n \in 1..N
    BY <1>1
  <2> QED
    BY <1>3, <1>5, <2>1
<1>7. ASSUME NEW n \in 1..N
      PROVE  /\ e[n] = e[n - 1] + Len(lines[n]) + 1
             /\ e[n] <= Len(list) + 1
             /\ \A i \in 1..Len(lines[n]) : list[e[n - 1] + i] = lines[n][i]
             /\ n > 1 => list[e[n - 1]] = EOL
  <2> DEFINE a == joined[n - 1]
             b == Behind(lines)[n]
             c == lines[n]
             sep == IF n = 1 THEN << >> ELSE <<EOL>>
  <2>1. n - 1 \in 0..N /\ n \in 0..N /\ N \in n..N
    BY <1>1
  <2>2. /\ a \in Texts /\ Len(a) \in Nat /\ b \in Texts /\ c \in Texts /\ Len(c) \in Nat
        /\ b = sep \o c /\ Len(b) = Len(c) + IF n = 1 THEN 0 ELSE 1
        /\ joined[n] = a \o b /\ Len(joined[n]) = Len(a) + Len(b)
    BY <1>3, <1>4, <2>1, BehindIsParts, LinesAreTexts, PartsAreTexts, ZenonT(40)
  <2>3. sep \in Texts /\ Len(sep) = (IF n = 1 THEN 0 ELSE 1) /\ (n > 1 => sep[1] = EOL)
    <3>1. <<EOL>> \in Texts /\ Len(<<EOL>>) = 1 /\ <<EOL>>[1] = EOL
      BY OneCharText DEF Chars
    <3> QED
      BY <3>1, EmptyText
  <2>4. Len(joined[n]) <= Len(list) /\ \A i \in 1..Len(joined[n]) : list[i] = joined[n][i]
    <3> DEFINE parts == Behind(lines)
               m == N
    <3>1. parts \in Seq(Texts) /\ n \in 0..Len(parts) /\ m \in n..Len(parts)
      BY <2>1, BehindIsParts
    <3>2. Flattened(parts, joined)
      OBVIOUS
    <3> HIDE DEF parts, m
    <3>3. /\ Len(joined[n]) <= Len(joined[m])
          /\ \A i \in 1..Len(joined[n]) : joined[m][i] = joined[n][i]
      BY <3>1, <3>2, PartsStay
    <3> QED
      BY <3>3 DEF m
  <2>5. e[n] = Len(joined[n]) + 1 /\ Len(list) \in Nat /\ Len(joined[n]) \in Nat
    BY <1>1, <1>3, <1>5, <2>1
  <2>6. e[n - 1] = Len(a) + IF n = 1 THEN 0 ELSE 1
    <3>1. CASE n = 1
      <4>1. e[n - 1] = 0 /\ Len(a) = 0
        BY <1>3, <1>5, <3>1, EmptyText
      <4> QED
        BY <3>1, <4>1
    <3>2. CASE n # 1
      <4>1. n - 1 \in 1..N
        BY <2>1, <3>2
      <4> QED
        BY <1>5, <3>2, <4>1
    <3> QED
      BY <3>1, <3>2
  <2> HIDE DEF a, b, c, sep
  <2> DEFINE ls == Len(sep)
             la == Len(a)
             lc == Len(c)
             lb == Len(b)
             lj == Len(joined[n])
             ll == Len(list)
             e1 == e[n - 1]
             e2 == e[n]
  <2>7. /\ la \in Nat /\ lc \in Nat /\ ls \in Nat /\ lb = lc + ls /\ lj = la + lb
        /\ e2 = lj + 1 /\ lj <= ll /\ ll \in Nat /\ e1 = la + ls
        /\ ls = IF n = 1 THEN 0 ELSE 1
    BY <2>2, <2>3, <2>4, <2>5, <2>6
  <2>8. \A i \in 1..lb : list[la + i] = b[i]
    <3>1. \A i \in 1..Len(b) : (a \o b)[Len(a) + i] = b[i]
      BY <2>2, TextsJoined
    <3> HIDE DEF list
    <3>2. \A i \in 1..lj : list[i] = (a \o b)[i]
      BY <2>2, <2>4
    <3> HIDE DEF la, lb, lj
    <3>3. \A i \in 1..lb : la + i \in 1..lj
      BY <2>7
    <3>4. \A i \in 1..lb : (a \o b)[la + i] = b[i]
      BY <3>1 DEF la, lb
    <3> QED
      BY <3>2, <3>3, <3>4
  <2>9. /\ \A i \in 1..lc : b[ls + i] = c[i]
        /\ n > 1 => b[1] = EOL
    <3>1. /\ \A i \in 1..Len(sep) : (sep \o c)[i] = sep[i]
          /\ \A i \in 1..Len(c) : (sep \o c)[Len(sep) + i] = c[i]
      BY <2>2, <2>3, TextsJoined
    <3>2. \A i \in 1..lc : b[ls + i] = c[i]
      BY <2>2, <3>1
    <3>3. n > 1 => Len(sep) = 1 /\ sep[1] = EOL
      BY <2>3
    <3>4. 1 \in 1..1 /\ b = sep \o c
      BY <2>2
    <3> HIDE DEF sep, b, c
    <3>5. n > 1 => b[1] = EOL
      BY <3>1, <3>3, <3>4
    <3> QED
      BY <3>2, <3>5
  <2> HIDE DEF ls, la, lc, lb, lj, ll, e1, e2, list
  <2>10. e2 = e1 + lc + 1 /\ e2 <= ll + 1
    BY <2>7
  <2>11. ASSUME NEW i \in 1..lc PROVE list[e1 + i] = c[i]
    <3>1. ls + i \in 1..lb /\ la + (ls + i) = e1 + i
      BY <2>7
    <3> QED
      BY <2>8, <2>9, <3>1
  <2>12. n > 1 => list[e1] = EOL
    <3> SUFFICES ASSUME n > 1 PROVE list[e1] = EOL
      OBVIOUS
    <3>1. 1 \in 1..lb /\ la + 1 = e1
      BY <2>7
    <3> QED
      BY <2>8, <2>9, <3>1
  <2> QED
    BY <2>10, <2>11, <2>12 DEF e1, e2, lc, ll, c, list
<1>8. ASSUME NEW n \in 1..(N - 1) PROVE list[e[n]] = EOL
  <2> DEFINE k == n + 1
  <2>1. k \in 1..N /\ k > 1 /\ k - 1 = n
    BY <1>1
  <2> HIDE DEF k, list
  <2>2. list[e[k - 1]] = EOL
    BY <1>7, <2>1
  <2> QED
    BY <2>1, <2>2
<1>9. N > 0 => e[N] = Len(list) + 1
  <2>1. N > 0 => N \in 1..N
    BY <1>1
  <2> QED
    BY <1>5, <2>1
<1> HIDE DEF list
<1> QED
  BY <1>5, <1>6, <1>7, <1>8, <1>9 DEF e, list

-----------------------------------------------------------------------------
\* Places that follow one another.
Rising(e, N) ==
  /\ \A n \in 0..N : e[n] \in Nat
  /\ \A n \in 1..N : e[n - 1] < e[n]

\* The earlier of two places is the lower.
LEMMA RisingOrder ==
  ASSUME NEW N \in Nat, NEW e, Rising(e, N), NEW k \in 0..N, NEW n \in (k + 1)..N
  PROVE  e[k] < e[n]
<1> DEFINE good == {i \in (k + 1)..N : e[k] < e[i]}
<1>1. k + 1 \in (k + 1)..N /\ k + 1 \in 1..N /\ (k + 1) - 1 = k /\ k + 1 \in Nat
  OBVIOUS
<1>2. k + 1 \in good
  BY <1>1 DEF Rising
<1>3. ASSUME NEW i \in (k + 1)..(N - 1), i \in good PROVE i + 1 \in good
  <2>1. i + 1 \in (k + 1)..N /\ i + 1 \in 1..N /\ (i + 1) - 1 = i /\ i \in 0..N
    OBVIOUS
  <2>2. e[i] < e[i + 1] /\ e[k] \in Nat /\ e[i] \in Nat /\ e[i + 1] \in Nat
    BY <2>1 DEF Rising
  <2>3. e[k] < e[i + 1]
    BY <1>3, <2>2
  <2> QED
    BY <2>1, <2>3
<1> HIDE DEF good
<1>4. (k + 1)..N \subseteq good
  BY <1>1, <1>2, <1>3, CountingUp
<1> QED
  BY <1>4 DEF good

\* All of them, and those of a set that are lower.
AllOf(e, N) == {e[n] : n \in 0..N}
Below(S, p) == {q \in S : q < p}

\* The n-th of them has n before it.
LEMMA RisingCounts ==
  ASSUME NEW N \in Nat, NEW e, Rising(e, N), NEW n \in 0..N
  PROVE  Cardinality(Below(AllOf(e, N), e[n])) = n
<1> DEFINE Before(i) == {e[k] : k \in 0..(i - 1)}
           good == {i \in 0..N : IsFiniteSet(Before(i)) /\ Cardinality(Before(i)) = i}
<1>1. 0 \in good
  <2>1. Before(0) = {}
    OBVIOUS
  <2>2. 0 \in 0..N
    OBVIOUS
  <2> QED
    BY <2>1, <2>2, FS_EmptySet
<1>2. ASSUME NEW i \in 0..(N - 1), i \in good PROVE i + 1 \in good
  <2>1. Before(i + 1) = Before(i) \cup {e[i]}
    <3>1. 0..((i + 1) - 1) = 0..(i - 1) \cup {i}
      OBVIOUS
    <3> QED
      BY <3>1
  <2>2. e[i] \notin Before(i)
    <3> SUFFICES ASSUME NEW k \in 0..(i - 1), e[k] = e[i] PROVE FALSE
      OBVIOUS
    <3>1. k \in 0..N /\ i \in (k + 1)..N /\ i \in 0..N
      OBVIOUS
    <3>2. e[k] < e[i] /\ e[i] \in Nat
      BY <3>1, RisingOrder DEF Rising
    <3> QED
      BY <3>2
  <2>3. i + 1 \in 0..N
    OBVIOUS
  <2>4. IsFiniteSet(Before(i)) /\ Cardinality(Before(i)) = i
    BY <1>2
  <2> HIDE DEF Before
  <2>5. IsFiniteSet(Before(i + 1)) /\ Cardinality(Before(i + 1)) = i + 1
    BY <2>1, <2>2, <2>4, FS_AddElement
  <2> QED
    BY <2>3, <2>5
<1>3. n \in good
  <2> HIDE DEF good
  <2>1. 0..N \subseteq good
    BY <1>1, <1>2, CountingUp
  <2> QED
    BY <2>1
<1>4. Below(AllOf(e, N), e[n]) = Before(n)
  <2>1. ASSUME NEW k \in 0..N PROVE e[k] < e[n] <=> k \in 0..(n - 1)
    <3>1. CASE k < n
      <4>1. n \in (k + 1)..N /\ k \in 0..(n - 1)
        BY <3>1
      <4> QED
        BY <4>1, RisingOrder
    <3>2. CASE k = n
      <4>1. e[n] \in Nat
        BY DEF Rising
      <4> QED
        BY <3>2, <4>1
    <3>3. CASE n < k
      <4>1. k \in (n + 1)..N /\ ~(k \in 0..(n - 1))
        BY <3>3
      <4>2. e[n] < e[k] /\ e[n] \in Nat /\ e[k] \in Nat
        BY <4>1, RisingOrder DEF Rising
      <4> QED
        BY <4>1, <4>2
    <3> QED
      BY <3>1, <3>2, <3>3
  <2>2. \A k \in 0..(n - 1) : k \in 0..N
    OBVIOUS
  <2> QED
    BY <2>1, <2>2 DEF Below, AllOf
<1> QED
  BY <1>3, <1>4

\* Every place up to the last lies between two of them.
LEMMA RisingPlace ==
  ASSUME NEW N \in Nat, NEW e, Rising(e, N), NEW p \in Nat, e[0] < p, p <= e[N]
  PROVE  \E n \in 1..N : e[n - 1] < p /\ p <= e[n]
<1> DEFINE S == {n \in 0..N : p <= e[n]}
<1>1. S \subseteq Nat /\ N \in S
  OBVIOUS
<1>2. PICK l \in S : \A k \in S : l <= k
  BY <1>1, LeastNumber
<1>3. l # 0
  BY <1>2 DEF Rising
<1>4. l \in 1..N /\ l - 1 \in 0..N /\ ~(l <= l - 1)
  BY <1>2, <1>3
<1>5. ~(p <= e[l - 1]) /\ e[l - 1] \in Nat
  BY <1>2, <1>4 DEF Rising
<1> QED
  BY <1>2, <1>4, <1>5

\* Where the options of a text end, and the text between two ends, cut to fit.
EndsIn(options) ==
  {0, Len(options) + 1} \cup {p \in DOMAIN options : options[p] = EOL}
Between(options, a, b, size) == SubSeq(options, a + 1, Min({b - 1, a + 1 + size - 2}))

\* The option that is picked is the text between two ends.
LEMMA NthIsSelected ==
  ASSUME NEW options \in Texts, NEW N \in Nat, NEW e, Rising(e, N),
         EndsIn(options) = AllOf(e, N),
         NEW pick \in 1..N, NEW size \in Nat
  PROVE  Selected(options, pick, size) = Between(options, e[pick - 1], e[pick], size)
<1> DEFINE ends == {0, Len(options) + 1} \cup {p \in DOMAIN options : options[p] = EOL}
           end == CHOOSE p \in ends : Cardinality({q \in ends : q < p}) = pick
           start == Max({q \in ends : q < end}) + 1
<1>1. Selected(options, pick, size) = SubSeq(options, start, Min({end - 1, start + size - 2}))
  BY DEF Selected
<1>2. ends = AllOf(e, N)
  BY DEF EndsIn
<1> HIDE DEF ends
<1>3. ASSUME NEW n \in 0..N PROVE Cardinality({q \in ends : q < e[n]}) = n
  <2>1. Cardinality(Below(ends, e[n])) = n
    BY <1>2, RisingCounts
  <2> QED
    BY <2>1 DEF Below
<1>4. end = e[pick]
  <2>1. pick \in 0..N /\ e[pick] \in ends
    BY <1>2 DEF AllOf
  <2>2. end \in ends /\ Cardinality({q \in ends : q < end}) = pick
    BY <1>3, <2>1
  <2> HIDE DEF end
  <2>3. PICK n \in 0..N : end = e[n]
    BY <1>2, <2>2 DEF AllOf
  <2>4. n = pick
    BY <1>3, <2>2, <2>3
  <2> QED
    BY <2>3, <2>4
<1> HIDE DEF end
<1>5. Max({q \in ends : q < end}) = e[pick - 1]
  <2> DEFINE S == {q \in ends : q < end}
             k == pick - 1
  <2>1. k \in 0..N /\ pick \in (k + 1)..N /\ pick \in 0..N /\ k + 1 = pick
    OBVIOUS
  <2> HIDE DEF k
  <2>2. e[k] \in S
    BY <1>2, <1>4, <2>1, RisingOrder DEF AllOf
  <2>3. ASSUME NEW q \in S PROVE q \in Nat /\ q <= e[k]
    <3>1. PICK n \in 0..N : q = e[n] /\ e[n] < e[pick]
      BY <1>2, <1>4 DEF AllOf
    <3>2. n <= k
      <4> SUFFICES ASSUME ~(n <= k) PROVE FALSE
        OBVIOUS
      <4>1. n = pick \/ n \in (pick + 1)..N
        BY <2>1
      <4>2. e[n] \in Nat /\ e[pick] \in Nat
        BY <2>1 DEF Rising
      <4>3. ASSUME n \in (pick + 1)..N PROVE e[pick] < e[n]
        BY <2>1, <4>3, RisingOrder
      <4> QED
        BY <3>1, <4>1, <4>2, <4>3
    <3>3. e[n] \in Nat /\ e[k] \in Nat
      BY <2>1 DEF Rising
    <3>4. n = k \/ k \in (n + 1)..N
      BY <2>1, <3>2
    <3>5. ASSUME k \in (n + 1)..N PROVE e[n] < e[k]
      BY <3>5, RisingOrder
    <3> QED
      BY <3>1, <3>3, <3>4, <3>5
  <2> HIDE DEF S
  <2>4. Max(S) \in S /\ \A q \in S : Max(S) >= q
    <3>1. \E x \in S : \A y \in S : x >= y
      BY <2>2, <2>3
    <3> QED
      BY <3>1 DEF Max
  <2>5. Max(S) \in Nat /\ e[k] \in Nat /\ Max(S) >= e[k] /\ Max(S) <= e[k]
    BY <2>2, <2>3, <2>4
  <2>6. Max(S) = e[k]
    BY <2>5
  <2> QED
    BY <2>6 DEF S, k
<1> QED
  BY <1>1, <1>4, <1>5 DEF Between

\* The first word of a text stands in every part of it that holds the word.
LEMMA FirstWordOfPart ==
  ASSUME NEW text \in Texts, NEW c \in 0..Len(text), Len(FirstWord(text)) <= c
  PROVE  FirstWord(SubSeq(text, 1, c)) = FirstWord(text)
<1> DEFINE blanks == {p \in DOMAIN text : text[p] = SP}
           part == SubSeq(text, 1, c)
           some == {p \in DOMAIN part : part[p] = SP}
<1>1. Len(text) \in Nat /\ DOMAIN text = 1..Len(text)
  BY TextLength DEF Texts
<1>2. /\ part \in Texts /\ Len(part) = c /\ \A i \in 1..c : part[i] = text[i]
  <2>1. /\ SubSeq(text, 1, c) \in Texts
        /\ Len(SubSeq(text, 1, c)) = c + 1 - 1
        /\ \A i \in 1..(c + 1 - 1) : SubSeq(text, 1, c)[i] = text[1 + i - 1]
    BY <1>1, PartOfText
  <2>2. c + 1 - 1 = c /\ \A i \in 1..c : 1 + i - 1 = i
    BY <1>1
  <2> QED
    BY <2>1, <2>2
<1>3. DOMAIN part = 1..c
  BY <1>2 DEF Texts
<1> HIDE DEF part
<1>4. some = {p \in blanks : p <= c}
  BY <1>1, <1>2, <1>3
<1>5. CASE blanks = {}
  <2>1. FirstWord(text) = text
    BY <1>5 DEF FirstWord
  <2>2. c = Len(text)
    <3> DEFINE l == Len(text)
               w == Len(FirstWord(text))
    <3>1. l \in Nat /\ w = l /\ w <= c /\ c \in 0..l
      BY <1>1, <2>1
    <3> HIDE DEF l, w
    <3>2. c = l
      BY <3>1
    <3> QED
      BY <3>2 DEF l
  <2>3. part = text
    BY <1>1, <1>2, <2>2, SameText
  <2> QED
    BY <2>3 DEF part
<1>6. CASE blanks # {}
  <2> DEFINE b == Min(blanks)
  <2>1. blanks \subseteq Nat /\ blanks \subseteq 1..Len(text)
    BY <1>1
  <2>2. b \in blanks /\ \A k \in blanks : b <= k
    BY <1>6, <2>1, LeastExists
  <2>3. FirstWord(text) = SubSeq(text, 1, b - 1)
    BY <1>6 DEF FirstWord
  <2> HIDE DEF b, blanks
  <2>4. b \in 1..Len(text) /\ b - 1 \in 0..Len(text) /\ b \in Nat
    BY <1>1, <2>1, <2>2
  <2>5. /\ SubSeq(text, 1, b - 1) \in Texts
        /\ Len(SubSeq(text, 1, b - 1)) = b - 1
        /\ \A i \in 1..(b - 1) : SubSeq(text, 1, b - 1)[i] = text[i]
    <3>1. /\ SubSeq(text, 1, b - 1) \in Texts
          /\ Len(SubSeq(text, 1, b - 1)) = (b - 1) + 1 - 1
          /\ \A i \in 1..((b - 1) + 1 - 1) : SubSeq(text, 1, b - 1)[i] = text[1 + i - 1]
      <4> DEFINE d == b - 1
      <4>1. d \in 0..Len(text) /\ 1 \in 1..(Len(text) + 1) /\ 1 <= d + 1
        BY <1>1, <2>4
      <4> HIDE DEF d
      <4>2. /\ SubSeq(text, 1, d) \in Texts
            /\ Len(SubSeq(text, 1, d)) = d + 1 - 1
            /\ \A i \in 1..(d + 1 - 1) : SubSeq(text, 1, d)[i] = text[1 + i - 1]
        BY <4>1, PartOfText
      <4> QED
        BY <4>2 DEF d
    <3>2. (b - 1) + 1 - 1 = b - 1 /\ \A i \in 1..(b - 1) : 1 + i - 1 = i
      BY <2>4
    <3> QED
      BY <3>1, <3>2
  <2>6. b - 1 <= c
    BY <2>3, <2>5
  <2>7. CASE b <= c
    <3>1. some # {} /\ some \subseteq Nat /\ b \in some /\ \A k \in some : b <= k
      BY <1>4, <2>1, <2>2, <2>7
    <3> HIDE DEF some
    <3>2. Min(some) = b
      BY <3>1, LeastIs
    <3>3. FirstWord(part) = SubSeq(part, 1, b - 1)
      BY <3>1, <3>2 DEF FirstWord, some
    <3>4. /\ SubSeq(part, 1, b - 1) \in Texts
          /\ Len(SubSeq(part, 1, b - 1)) = b - 1
          /\ \A i \in 1..(b - 1) : SubSeq(part, 1, b - 1)[i] = part[i]
      <4> DEFINE d == b - 1
      <4>1. d \in 0..Len(part) /\ 1 \in 1..(Len(part) + 1) /\ 1 <= d + 1 /\ d \in Nat
        BY <1>2, <2>4, <2>6
      <4> HIDE DEF d
      <4>2. /\ SubSeq(part, 1, d) \in Texts
            /\ Len(SubSeq(part, 1, d)) = d + 1 - 1
            /\ \A i \in 1..(d + 1 - 1) : SubSeq(part, 1, d)[i] = part[1 + i - 1]
        BY <1>2, <4>1, PartOfText
      <4>3. d + 1 - 1 = d /\ \A i \in 1..d : 1 + i - 1 = i
        BY <4>1
      <4> QED
        BY <4>2, <4>3 DEF d
    <3>5. \A i \in 1..(b - 1) : i \in 1..c /\ part[i] = text[i]
      BY <1>2, <2>4, <2>6
    <3>6. SubSeq(part, 1, b - 1) = SubSeq(text, 1, b - 1)
      BY <2>5, <3>4, <3>5, SameText
    <3> QED
      BY <2>3, <3>3, <3>6 DEF part
  <2>8. CASE ~(b <= c)
    <3>1. b - 1 = c
      BY <2>4, <2>6, <2>8
    <3>2. some = {}
      <4>1. \A k \in blanks : b <= k /\ k \in Nat
        BY <2>1, <2>2
      <4>2. \A k \in Nat : b <= k => ~(k <= c)
        BY <2>4, <2>8
      <4> QED
        BY <1>4, <4>1, <4>2 DEF blanks
    <3>3. FirstWord(part) = part
      BY <3>2 DEF FirstWord
    <3> QED
      BY <2>3, <3>1, <3>3 DEF part
  <2> QED
    BY <2>7, <2>8
<1> QED
  BY <1>5, <1>6

\* The first word of a text is no longer than the text.
LEMMA FirstWordIsShort ==
  ASSUME NEW line \in Texts
  PROVE  Len(FirstWord(line)) \in Nat /\ Len(FirstWord(line)) <= Len(line)
<1> DEFINE blanks == {p \in DOMAIN line : line[p] = SP}
           w == Len(FirstWord(line))
<1>1. Len(line) \in Nat /\ DOMAIN line = 1..Len(line)
  BY TextLength DEF Texts
<1>2. CASE blanks = {}
  <2>1. FirstWord(line) = line
    BY <1>2 DEF FirstWord
  <2> QED
    BY <1>1, <2>1
<1>3. CASE blanks # {}
  <2>1. blanks \subseteq Nat /\ blanks \subseteq 1..Len(line)
    BY <1>1
  <2>2. FirstWord(line) = SubSeq(line, 1, Min(blanks) - 1)
    BY <1>3 DEF FirstWord
  <2> HIDE DEF blanks
  <2> DEFINE d == Min(blanks) - 1
  <2>3. Min(blanks) \in 1..Len(line)
    BY <1>3, <2>1, LeastExists
  <2>4. d \in 0..Len(line) /\ 1 \in 1..(Len(line) + 1) /\ 1 <= d + 1
    BY <1>1, <2>3
  <2>5. FirstWord(line) = SubSeq(line, 1, d)
    BY <2>2
  <2> HIDE DEF d
  <2>6. Len(SubSeq(line, 1, d)) = d + 1 - 1
    BY <1>1, <2>4, PartOfText
  <2>7. w = d
    BY <2>4, <2>5, <2>6
  <2> QED
    BY <1>1, <2>4, <2>7
<1> QED
  BY <1>2, <1>3

\* The ends are the newlines, and the two ends of the list.
LEMMA EndsAreNewlines ==
  ASSUME NEW lines, LinesOK(lines), Len(lines) # 0,
         NEW joined, Flattened(Behind(lines), joined)
  PROVE  LET list == joined[Len(lines)]
         IN  /\ list \in Texts
             /\ Rising(Ends(joined), Len(lines))
             /\ EndsIn(list) = AllOf(Ends(joined), Len(lines))
<1> DEFINE e == Ends(joined)
           N == Len(lines)
           list == joined[N]
<1>1. N \in Nat /\ N \in 0..N /\ N \in 1..N /\ \A n \in 1..N : lines[n] \in Texts /\ Len(lines[n]) \in Nat \ {0}
  BY LinesAreTexts
<1>2. list \in Texts /\ Len(list) \in Nat /\ DOMAIN list = 1..Len(list)
  <2>1. list \in Texts /\ Len(list) \in Nat
    BY <1>1, ListGrows
  <2> HIDE DEF list
  <2> QED
    BY <2>1 DEF Texts
<1>3. /\ e[0] = 0
      /\ \A n \in 0..N : e[n] \in Nat
      /\ \A n \in 1..N : e[n] = e[n - 1] + Len(lines[n]) + 1
      /\ \A n \in 1..N : e[n] <= Len(list) + 1
      /\ \A n \in 1..N : \A i \in 1..Len(lines[n]) : list[e[n - 1] + i] = lines[n][i]
      /\ \A n \in 1..(N - 1) : list[e[n]] = EOL
      /\ N > 0 => e[N] = Len(list) + 1
  BY EndsOfLines
<1>4. e[N] = Len(list) + 1
  BY <1>1, <1>3
<1> HIDE DEF e, list
<1>5. Rising(e, N)
  <2>1. ASSUME NEW n \in 1..N PROVE e[n - 1] < e[n]
    <3> DEFINE a == e[n - 1]
               b == e[n]
               l == Len(lines[n])
    <3>1. n - 1 \in 0..N /\ n \in 0..N
      BY <1>1
    <3>2. a \in Nat /\ b \in Nat /\ l \in Nat /\ b = a + l + 1
      BY <1>1, <1>3, <3>1
    <3> HIDE DEF a, b, l
    <3>3. a < b
      BY <3>2
    <3> QED
      BY <3>3 DEF a, b
  <2> QED
    BY <1>3, <2>1 DEF Rising
<1>6. ASSUME NEW p \in 1..Len(list), list[p] = EOL PROVE p \in AllOf(e, N)
  <2>1. p \in Nat /\ e[0] < p /\ p <= e[N]
    BY <1>2, <1>3, <1>4
  <2>2. PICK n \in 1..N : e[n - 1] < p /\ p <= e[n]
    BY <1>1, <1>5, <2>1, RisingPlace
  <2>3. n - 1 \in 0..N /\ n \in 0..N
    BY <1>1
  <2>4. CASE p = e[n]
    BY <2>3, <2>4 DEF AllOf
  <2>5. CASE p # e[n]
    <3> DEFINE a == e[n - 1]
               b == e[n]
               l == Len(lines[n])
               i == p - a
    <3>1. a \in Nat /\ b \in Nat /\ l \in Nat /\ b = a + l + 1 /\ a < p /\ p <= b /\ p # b
      BY <1>1, <1>3, <2>2, <2>3, <2>5
    <3>2. \A j \in 1..l : list[a + j] = lines[n][j] /\ lines[n][j] # EOL
      BY <1>3 DEF LinesOK
    <3> HIDE DEF a, b, l
    <3>3. i \in 1..l /\ a + i = p
      BY <2>1, <3>1
    <3> HIDE DEF i
    <3>4. list[a + i] # EOL
      BY <3>2, <3>3
    <3> QED
      BY <1>6, <3>3, <3>4
  <2> QED
    BY <2>4, <2>5
<1>7. ASSUME NEW n \in 0..N
      PROVE  e[n] = 0 \/ e[n] = Len(list) + 1 \/ (e[n] \in 1..Len(list) /\ list[e[n]] = EOL)
  <2>1. CASE n = 0
    BY <1>3, <2>1
  <2>2. CASE n = N
    BY <1>4, <2>2
  <2>3. CASE n # 0 /\ n # N
    <3>1. n \in 1..(N - 1) /\ n \in 1..N /\ N \in (n + 1)..N /\ 0 \in 0..N /\ n \in (0 + 1)..N
      BY <1>1, <2>3
    <3>2. list[e[n]] = EOL /\ e[n] \in Nat
      BY <1>3, <3>1
    <3>3. e[n] < e[N] /\ e[0] < e[n]
      BY <1>1, <1>5, <3>1, RisingOrder
    <3> QED
      BY <1>2, <1>3, <1>4, <3>2, <3>3
  <2> QED
    BY <2>1, <2>2, <2>3
<1>8. 0 \in AllOf(e, N) /\ Len(list) + 1 \in AllOf(e, N)
  <2>1. 0 \in 0..N
    BY <1>1
  <2> QED
    BY <1>1, <1>3, <1>4, <2>1 DEF AllOf
<1>9. EndsIn(list) = AllOf(e, N)
  <2>1. \A x \in AllOf(e, N) : \E n \in 0..N : x = e[n]
    BY DEF AllOf
  <2> QED
    BY <1>2, <1>6, <1>7, <1>8, <2>1 DEF EndsIn
<1> QED
  BY <1>2, <1>5, <1>9 DEF e, list

\* The list has as many options as partitions.
LEMMA AllAreListed ==
  ASSUME NEW lines, LinesOK(lines), Len(lines) # 0,
         NEW joined, Flattened(Behind(lines), joined)
  PROVE  Count(joined[Len(lines)]) = Len(lines)
<1> DEFINE e == Ends(joined)
           N == Len(lines)
           list == joined[N]
           newlines == {p \in DOMAIN list : list[p] = EOL}
<1>1. N \in Nat /\ N \in 0..N
  BY LinesAreTexts
<1>2. list \in Texts /\ Rising(e, N) /\ EndsIn(list) = AllOf(e, N)
  BY EndsAreNewlines
<1>3. Len(list) \in Nat /\ DOMAIN list = 1..Len(list)
  <2> HIDE DEF list
  <2> QED
    BY <1>2, TextLength DEF Texts
<1>4. e[N] = Len(list) + 1
  <2>1. N > 0 => e[N] = Len(list) + 1
    BY EndsOfLines
  <2> QED
    BY <1>1, <2>1
<1> HIDE DEF e, list
<1>5. Cardinality(Below(EndsIn(list), e[N])) = N
  <2> HIDE DEF N
  <2>1. Cardinality(Below(AllOf(e, N), e[N])) = N
    BY <1>1, <1>2, RisingCounts
  <2> QED
    BY <1>2, <2>1
<1>6. newlines \subseteq 1..Len(list)
  BY <1>3
<1>7. Below(EndsIn(list), e[N]) = newlines \cup {0} /\ 0 \notin newlines
  <2> DEFINE l == Len(list)
  <2>1. EndsIn(list) = {0, l + 1} \cup newlines
    BY DEF EndsIn
  <2>2. l \in Nat /\ e[N] = l + 1 /\ newlines \subseteq 1..l
    BY <1>3, <1>4, <1>6
  <2> HIDE DEF l, newlines
  <2>3. {q \in {0, l + 1} \cup newlines : q < l + 1} = newlines \cup {0} /\ 0 \notin newlines
    <3>1. \A q \in newlines : q \in Nat /\ q < l + 1 /\ q # 0
      BY <2>2
    <3>2. l \in Nat /\ 0 < l + 1 /\ ~(l + 1 < l + 1)
      BY <2>2
    <3> QED
      BY <3>1, <3>2
  <2> QED
    BY <2>1, <2>2, <2>3 DEF Below
<1>8. IsFiniteSet(newlines)
  <2> DEFINE l == Len(list)
  <2>1. l \in Int /\ 1 \in Int /\ newlines \in SUBSET (1..l)
    BY <1>3, <1>6
  <2> HIDE DEF l, newlines
  <2>2. IsFiniteSet(1..l)
    BY <2>1, FS_Interval
  <2> QED
    BY <2>1, <2>2, FS_Subset
<1>9. Count(list) = Cardinality(newlines) + 1
  BY DEF Count
<1> HIDE DEF newlines
<1>10. Cardinality(newlines \cup {0}) = Cardinality(newlines) + 1
  BY <1>7, <1>8, FS_AddElement
<1> QED
  BY <1>5, <1>7, <1>9, <1>10 DEF list

\* For a list that fits into its buffer, whatever the partitions are called and
\* however many there are: what is picked is the partition of that line.
THEOREM PickedIsSelected ==
  ASSUME NEW lines, LinesOK(lines), NEW pick \in 1..Len(lines),
         NEW joined, Flattened(Behind(lines), joined),
         NEW cap \in Nat, Len(joined[Len(lines)]) < cap,
         NEW size \in Nat, Len(FirstWord(lines[pick])) < size
  PROVE  FirstWord(Selected(TargetList(lines, cap), pick, size)) = FirstWord(lines[pick])
<1> DEFINE e == Ends(joined)
           N == Len(lines)
           list == joined[N]
           line == lines[pick]
           a == e[pick - 1]
           b == e[pick]
           l == Len(line)
           w == Len(FirstWord(line))
           c == IF l < size - 1 THEN l ELSE size - 1
<1>1. N \in Nat /\ N # 0 /\ line \in Texts /\ l \in Nat /\ pick - 1 \in 0..N /\ pick \in 0..N
  BY LinesAreTexts
<1>2. TargetList(lines, cap) = list
  BY ListIsJoined
<1>3. /\ list \in Texts /\ Rising(e, N)
      /\ EndsIn(list) = AllOf(e, N)
  BY <1>1, EndsAreNewlines
<1>4. /\ \A n \in 0..N : e[n] \in Nat
      /\ \A n \in 1..N : e[n] = e[n - 1] + Len(lines[n]) + 1
      /\ \A n \in 1..N : e[n] <= Len(list) + 1
      /\ \A n \in 1..N : \A i \in 1..Len(lines[n]) : list[e[n - 1] + i] = lines[n][i]
  BY EndsOfLines, SMTT(30)
<1>5. /\ a \in Nat /\ b \in Nat /\ b = a + l + 1 /\ b <= Len(list) + 1
      /\ \A i \in 1..l : list[a + i] = line[i]
  BY <1>1, <1>4
<1>6. w \in Nat /\ w <= l
  BY <1>1, FirstWordIsShort
<1>7. w < size
  OBVIOUS
<1> HIDE DEF list, line, e
<1>8. Selected(list, pick, size) = SubSeq(list, a + 1, Min({b - 1, a + 1 + size - 2}))
  <2>1. /\ list \in Texts /\ N \in Nat /\ Rising(e, N) /\ pick \in 1..N
        /\ EndsIn(list) = AllOf(e, N)
    BY <1>1, <1>3
  <2> HIDE DEF N
  <2>2. Selected(list, pick, size) = Between(list, e[pick - 1], e[pick], size)
    BY <2>1, NthIsSelected
  <2> QED
    BY <2>2 DEF Between
<1> HIDE DEF a, b, l, w
<1>9. c \in Nat /\ c \in 0..l /\ w <= c
  BY <1>1, <1>6, <1>7
<1>10. Min({b - 1, a + 1 + size - 2}) = a + c
  <2> DEFINE S == {b - 1, a + 1 + size - 2}
  <2>1. S \subseteq Nat /\ a + c \in S /\ \A k \in S : a + c <= k
    BY <1>1, <1>5, <1>6, <1>7
  <2> HIDE DEF S
  <2>2. Min(S) = a + c
    BY <2>1, LeastIs
  <2> QED
    BY <2>2 DEF S
<1> HIDE DEF c
<1>11. SubSeq(list, a + 1, a + c) = SubSeq(line, 1, c)
  <2> DEFINE m == a + 1
             n == a + c
  <2>1. /\ m \in 1..(Len(list) + 1) /\ n \in 0..Len(list) /\ m <= n + 1 /\ n + 1 - m = c
        /\ \A i \in 1..c : m + i - 1 = a + i /\ i \in 1..l
    BY <1>3, <1>5, <1>9, <1>1, TextLength
  <2> HIDE DEF m, n
  <2>2. /\ SubSeq(list, m, n) \in Texts
        /\ Len(SubSeq(list, m, n)) = c
        /\ \A i \in 1..c : SubSeq(list, m, n)[i] = list[m + i - 1]
    BY <1>3, <2>1, PartOfText
  <2>3. /\ SubSeq(line, 1, c) \in Texts
        /\ Len(SubSeq(line, 1, c)) = c + 1 - 1
        /\ \A i \in 1..(c + 1 - 1) : SubSeq(line, 1, c)[i] = line[1 + i - 1]
    <3>1. c \in 0..Len(line) /\ 1 \in 1..(Len(line) + 1) /\ 1 <= c + 1
      BY <1>1, <1>9 DEF l
    <3> QED
      BY <1>1, <3>1, PartOfText
  <2>4. c + 1 - 1 = c /\ \A i \in 1..c : 1 + i - 1 = i
    BY <1>9
  <2>5. \A i \in 1..c : SubSeq(list, m, n)[i] = SubSeq(line, 1, c)[i]
    BY <1>5, <2>1, <2>2, <2>3, <2>4
  <2>6. SubSeq(list, m, n) = SubSeq(line, 1, c)
    BY <2>2, <2>3, <2>4, <2>5, SameText
  <2> QED
    BY <2>6 DEF m, n
<1>12. FirstWord(SubSeq(line, 1, c)) = FirstWord(line)
  BY <1>1, <1>9, FirstWordOfPart DEF l, w
<1> QED
  BY <1>2, <1>8, <1>10, <1>11, <1>12 DEF line

-----------------------------------------------------------------------------
(* Expressions: how a text falls into parts. *)

\* A text without some characters.
Free(t, bad) == t \in Texts /\ \A n \in 1..Len(t) : t[n] \notin bad

\* Two texts without them make one.
LEMMA FreeJoined ==
  ASSUME NEW s, NEW t, NEW bad, Free(s, bad), Free(t, bad)
  PROVE  Free(s \o t, bad)
<1>1. s \in Texts /\ t \in Texts /\ Len(s) \in Nat /\ Len(t) \in Nat
  BY TextLength DEF Free
<1>2. s \o t \in Texts /\ Len(s \o t) = Len(s) + Len(t)
  BY <1>1, TextsJoined
<1>3. ASSUME NEW n \in 1..Len(s \o t) PROVE (s \o t)[n] \notin bad
  <2>1. CASE n <= Len(s)
    <3>1. n \in 1..Len(s)
      BY <1>1, <1>2, <2>1
    <3> QED
      BY <1>1, <3>1, TextsJoined DEF Free
  <2>2. CASE ~(n <= Len(s))
    <3> DEFINE i == n - Len(s)
    <3>1. i \in 1..Len(t) /\ Len(s) + i = n
      BY <1>1, <1>2, <2>2
    <3> HIDE DEF i
    <3>2. (s \o t)[Len(s) + i] = t[i]
      BY <1>1, <3>1, TextsJoined
    <3> QED
      BY <3>1, <3>2 DEF Free
  <2> QED
    BY <2>1, <2>2
<1> QED
  BY <1>2, <1>3 DEF Free

\* The characters of a text around one character.
IsAround(w, a, sep, b) ==
  /\ w \in Texts /\ Len(w) = Len(a) + 1 + Len(b)
  /\ Len(a) \in Nat /\ Len(b) \in Nat
  /\ \A n \in 1..Len(a) : w[n] = a[n]
  /\ w[Len(a) + 1] = sep
  /\ \A n \in 1..Len(b) : w[Len(a) + 1 + n] = b[n]

LEMMA AroundChar ==
  ASSUME NEW a \in Texts, NEW sep \in Chars, NEW b \in Texts
  PROVE  IsAround(a \o (<<sep>> \o b), a, sep, b)
<1> DEFINE c == <<sep>> \o b
<1>1. <<sep>> \in Texts /\ Len(<<sep>>) = 1 /\ <<sep>>[1] = sep
  BY OneCharText
<1>2. Len(a) \in Nat /\ Len(b) \in Nat
  BY TextLength
<1>3. /\ c \in Texts /\ Len(c) = 1 + Len(b)
      /\ c[1] = sep
      /\ \A n \in 1..Len(b) : c[1 + n] = b[n]
  <2> DEFINE s == <<sep>>
  <2>1. s \in Texts /\ Len(s) = 1 /\ s[1] = sep /\ 1 \in 1..1
    BY <1>1
  <2> HIDE DEF s
  <2>2. /\ s \o b \in Texts /\ Len(s \o b) = Len(s) + Len(b)
        /\ \A n \in 1..Len(s) : (s \o b)[n] = s[n]
        /\ \A n \in 1..Len(b) : (s \o b)[Len(s) + n] = b[n]
    BY <2>1, TextsJoined
  <2>3. /\ s \o b \in Texts /\ Len(s \o b) = 1 + Len(b)
        /\ (s \o b)[1] = sep
        /\ \A n \in 1..Len(b) : (s \o b)[1 + n] = b[n]
    BY <2>1, <2>2
  <2> QED
    BY <2>3 DEF s
<1> HIDE DEF c
<1>4. /\ a \o c \in Texts /\ Len(a \o c) = Len(a) + Len(c)
      /\ \A n \in 1..Len(a) : (a \o c)[n] = a[n]
      /\ \A n \in 1..Len(c) : (a \o c)[Len(a) + n] = c[n]
  BY <1>3, TextsJoined
<1>5. (a \o c)[Len(a) + 1] = sep
  <2>1. 1 \in 1..Len(c)
    BY <1>2, <1>3
  <2> QED
    BY <1>3, <1>4, <2>1
<1>6. ASSUME NEW n \in 1..Len(b) PROVE (a \o c)[Len(a) + 1 + n] = b[n]
  <2> DEFINE i == 1 + n
  <2>1. i \in 1..Len(c) /\ Len(a) + 1 + n = Len(a) + i
    BY <1>2, <1>3
  <2>2. c[i] = b[n]
    BY <1>3
  <2> HIDE DEF i
  <2> QED
    BY <1>4, <2>1, <2>2
<1>7. Len(a \o c) = Len(a) + 1 + Len(b)
  BY <1>2, <1>3, <1>4
<1> QED
  BY <1>2, <1>4, <1>5, <1>6, <1>7 DEF c, IsAround

\* A part is what stands between two cuts, with something in it.
IsCut(text, sep, n) ==
  n = 0 \/ n = Len(text) + 1 \/ (n \in 1..Len(text) /\ text[n] = sep)
Stretch(text, sep, m, n) ==
  /\ m \in 0..(Len(text) + 1) /\ n \in 0..(Len(text) + 1) /\ m + 1 < n
  /\ IsCut(text, sep, m) /\ IsCut(text, sep, n)
  /\ \A k \in (m + 1)..(n - 1) : text[k] # sep

IsStretch(x, text, sep) ==
  \E m \in 0..(Len(text) + 1) : \E n \in 0..(Len(text) + 1) :
    Stretch(text, sep, m, n) /\ x = SubSeq(text, m + 1, n - 1)

LEMMA PartIsStretch ==
  ASSUME NEW text \in Texts, NEW sep, NEW x
  PROVE  x \in Parts(text, sep) <=> IsStretch(x, text, sep)
<1> DEFINE cuts == {0, Len(text) + 1} \cup {n \in DOMAIN text : text[n] = sep}
           runs == {p \in cuts \X cuts :
                      p[1] + 1 < p[2] /\ \A r \in cuts : r <= p[1] \/ r >= p[2]}
<1>1. Len(text) \in Nat /\ DOMAIN text = 1..Len(text)
  BY TextLength DEF Texts
<1>2. \A n : n \in cuts <=> n \in 0..(Len(text) + 1) /\ IsCut(text, sep, n)
  BY <1>1 DEF IsCut
<1>3. x \in Parts(text, sep) <=> \E p \in runs : x = SubSeq(text, p[1] + 1, p[2] - 1)
  BY DEF Parts
<1> HIDE DEF cuts
<1>4. ASSUME NEW m \in 0..(Len(text) + 1), NEW n \in 0..(Len(text) + 1)
      PROVE  Stretch(text, sep, m, n) <=> <<m, n>> \in runs
  <2>1. <<m, n>> \in runs <=> /\ m \in cuts /\ n \in cuts /\ m + 1 < n
                              /\ \A r \in cuts : r <= m \/ r >= n
    OBVIOUS
  <2>2. ASSUME m + 1 < n
        PROVE  (\A r \in cuts : r <= m \/ r >= n) <=> \A k \in (m + 1)..(n - 1) : text[k] # sep
    <3>1. ASSUME \A r \in cuts : r <= m \/ r >= n, NEW k \in (m + 1)..(n - 1)
          PROVE  text[k] # sep
      <4>1. k \in 1..Len(text) /\ k \in 0..(Len(text) + 1) /\ ~(k <= m) /\ ~(k >= n)
        BY <1>1
      <4>2. k \notin cuts
        BY <3>1, <4>1
      <4> QED
        BY <1>2, <4>1, <4>2 DEF IsCut
    <3>2. ASSUME \A k \in (m + 1)..(n - 1) : text[k] # sep, NEW r \in cuts
          PROVE  r <= m \/ r >= n
      <4>1. r \in 0..(Len(text) + 1) /\ IsCut(text, sep, r)
        BY <1>2
      <4>2. CASE r = 0
        BY <4>2
      <4>3. CASE r = Len(text) + 1
        BY <1>1, <4>3
      <4>4. CASE r \in 1..Len(text) /\ text[r] = sep
        <5>1. r \notin (m + 1)..(n - 1)
          BY <3>2, <4>4
        <5> QED
          BY <1>1, <4>4, <5>1
      <4> QED
        BY <4>1, <4>2, <4>3, <4>4 DEF IsCut
    <3> QED
      BY <3>1, <3>2
  <2> QED
    BY <1>2, <2>1, <2>2 DEF Stretch
<1>5. \A p \in runs : /\ p[1] \in 0..(Len(text) + 1) /\ p[2] \in 0..(Len(text) + 1)
                      /\ <<p[1], p[2]>> = p
  <2>1. \A p \in cuts \X cuts : p[1] \in cuts /\ p[2] \in cuts /\ <<p[1], p[2]>> = p
    OBVIOUS
  <2> QED
    BY <1>2, <2>1
<1> HIDE DEF runs
<1> QED
  BY <1>3, <1>4, <1>5 DEF IsStretch

\* A text stands in another, d characters behind its beginning.
StandsAt(s, w, d) == \A k \in 1..Len(s) : w[k + d] = s[k]
SamePart(s, p, q, w, p2, q2) == SubSeq(s, p, q) = SubSeq(w, p2, q2)

\* The same characters further behind are the same part.
LEMMA PartMoves ==
  ASSUME NEW s \in Texts, NEW w \in Texts, NEW d \in Nat,
         NEW p \in 1..(Len(s) + 1), NEW q \in 0..Len(s), p <= q + 1,
         NEW p2, NEW q2, p2 = p + d, q2 = q + d, q2 <= Len(w),
         StandsAt(s, w, d)
  PROVE  SamePart(s, p, q, w, p2, q2)
<1>1. Len(s) \in Nat /\ Len(w) \in Nat /\ \A k \in 1..Len(s) : w[k + d] = s[k]
  BY TextLength DEF StandsAt
<1>2. p2 \in 1..(Len(w) + 1) /\ q2 \in 0..Len(w) /\ p2 <= q2 + 1 /\ q2 + 1 - p2 = q + 1 - p
  BY <1>1
<1>3. /\ SubSeq(s, p, q) \in Texts /\ Len(SubSeq(s, p, q)) = q + 1 - p
      /\ \A i \in 1..(q + 1 - p) : SubSeq(s, p, q)[i] = s[p + i - 1]
  BY PartOfText
<1>4. /\ SubSeq(w, p2, q2) \in Texts /\ Len(SubSeq(w, p2, q2)) = q2 + 1 - p2
      /\ \A i \in 1..(q2 + 1 - p2) : SubSeq(w, p2, q2)[i] = w[p2 + i - 1]
  BY <1>2, PartOfText
<1>5. ASSUME NEW i \in 1..(q + 1 - p) PROVE SubSeq(s, p, q)[i] = SubSeq(w, p2, q2)[i]
  <2> DEFINE k == p + i - 1
  <2>1. k \in 1..Len(s) /\ p2 + i - 1 = k + d
    BY <1>1
  <2>2. SubSeq(s, p, q)[i] = s[k]
    BY <1>3
  <2>3. SubSeq(w, p2, q2)[i] = w[k + d]
    BY <1>2, <1>4, <2>1
  <2> HIDE DEF k
  <2> QED
    BY <1>1, <2>1, <2>2, <2>3
<1> DEFINE u == SubSeq(s, p, q)
           v == SubSeq(w, p2, q2)
           l == q + 1 - p
<1>6. /\ u \in Texts /\ v \in Texts /\ Len(u) = l /\ Len(v) = l
      /\ \A i \in 1..l : u[i] = v[i]
  BY <1>2, <1>3, <1>4, <1>5, Zenon
<1> HIDE DEF u, v, l
<1>7. u = v
  BY <1>6, SameText
<1> QED
  BY <1>7, Zenon DEF SamePart, u, v

\* A text that stands in another is a part of it.
PartIs(w, m, n, s) == SubSeq(w, m, n) = s

LEMMA WholeMoves ==
  ASSUME NEW s \in Texts, NEW w \in Texts, NEW d \in Nat, StandsAt(s, w, d),
         NEW m, NEW n, m = d + 1, n = d + Len(s), n <= Len(w)
  PROVE  PartIs(w, m, n, s)
<1> DEFINE l == Len(s)
<1>1. l \in Nat /\ l = Len(s)
  BY TextLength
<1> HIDE DEF l
<1>2. /\ 1 \in 1..(Len(s) + 1) /\ l \in 0..Len(s) /\ 1 <= l + 1
      /\ m = 1 + d /\ n = l + d
  BY <1>1
<1>3. SamePart(s, 1, l, w, m, n)
  BY <1>2, PartMoves
<1>4. SubSeq(s, 1, l) = s
  BY <1>1, WholeText
<1> QED
  BY <1>3, <1>4, Zenon DEF SamePart, PartIs

\* Two cuts of a text are two of the other, with the same between them.
SameStretch(s, w, sep, m, n, m2, n2) ==
  /\ Stretch(s, sep, m, n) <=> Stretch(w, sep, m2, n2)
  /\ m + 1 < n => SubSeq(s, m + 1, n - 1) = SubSeq(w, m2 + 1, n2 - 1)

\* Where a text stands in another between two cuts, it has its parts there.
LEMMA StretchMoves ==
  ASSUME NEW s \in Texts, NEW w \in Texts, NEW sep, NEW d \in Nat,
         Len(s) + d <= Len(w),
         StandsAt(s, w, d),
         IsCut(w, sep, d), NEW e, e = Len(s) + 1 + d, IsCut(w, sep, e),
         NEW m \in 0..(Len(s) + 1), NEW n \in 0..(Len(s) + 1),
         NEW m2, NEW n2, m2 = m + d, n2 = n + d
  PROVE  SameStretch(s, w, sep, m, n, m2, n2)
<1>1. Len(s) \in Nat /\ Len(w) \in Nat
  BY TextLength
<1>0. \A k \in 1..Len(s) : w[k + d] = s[k]
  BY DEF StandsAt
<1>2. ASSUME NEW k \in 0..(Len(s) + 1), NEW k2, k2 = k + d
      PROVE  IsCut(s, sep, k) <=> IsCut(w, sep, k2)
  <2>1. CASE k = 0
    <3>1. k2 = d
      BY <1>2, <2>1
    <3> QED
      BY <2>1, <3>1 DEF IsCut
  <2>2. CASE k = Len(s) + 1
    <3>1. k2 = e
      BY <1>1, <1>2, <2>2
    <3> QED
      BY <2>2, <3>1 DEF IsCut
  <2>3. CASE k \in 1..Len(s)
    <3>1. k2 \in 1..Len(w) /\ k2 # Len(w) + 1 /\ k2 # 0 /\ k # 0 /\ k # Len(s) + 1
      BY <1>1, <1>2, <2>3
    <3>2. w[k2] = s[k]
      BY <1>0, <1>2, <2>3
    <3> QED
      BY <2>3, <3>1, <3>2 DEF IsCut
  <2> QED
    BY <1>1, <2>1, <2>2, <2>3
<1>3. ASSUME m + 1 < n
      PROVE  (\A k \in (m + 1)..(n - 1) : s[k] # sep)
               <=> \A k \in (m2 + 1)..(n2 - 1) : w[k] # sep
  <2>1. ASSUME \A k \in (m + 1)..(n - 1) : s[k] # sep, NEW k \in (m2 + 1)..(n2 - 1)
        PROVE  w[k] # sep
    <3> DEFINE i == k - d
    <3>1. i \in (m + 1)..(n - 1) /\ i \in 1..Len(s) /\ i + d = k
      BY <1>1
    <3> HIDE DEF i
    <3>2. s[i] # sep /\ w[i + d] = s[i]
      BY <1>0, <2>1, <3>1
    <3> QED
      BY <3>1, <3>2
  <2>2. ASSUME \A k \in (m2 + 1)..(n2 - 1) : w[k] # sep, NEW k \in (m + 1)..(n - 1)
        PROVE  s[k] # sep
    <3>1. k + d \in (m2 + 1)..(n2 - 1) /\ k \in 1..Len(s)
      BY <1>1
    <3> QED
      BY <1>0, <2>2, <3>1
  <2> QED
    BY <2>1, <2>2
<1>4. m2 \in 0..(Len(w) + 1) /\ n2 \in 0..(Len(w) + 1) /\ (m + 1 < n <=> m2 + 1 < n2)
  BY <1>1
<1>5. Stretch(s, sep, m, n) <=> Stretch(w, sep, m2, n2)
  <2>1. /\ IsCut(s, sep, m) <=> IsCut(w, sep, m2)
        /\ IsCut(s, sep, n) <=> IsCut(w, sep, n2)
    BY <1>2
  <2> QED
    BY <1>3, <1>4, <2>1 DEF Stretch
<1>6. ASSUME m + 1 < n PROVE SubSeq(s, m + 1, n - 1) = SubSeq(w, m2 + 1, n2 - 1)
  <2> DEFINE p == m + 1
             q == n - 1
             p2 == m2 + 1
             q2 == n2 - 1
  <2>1. /\ p \in 1..(Len(s) + 1) /\ q \in 0..Len(s) /\ p <= q + 1
        /\ p2 = p + d /\ q2 = q + d /\ q2 <= Len(w)
    BY <1>1, <1>6
  <2> HIDE DEF p, q, p2, q2
  <2>2. SamePart(s, p, q, w, p2, q2)
    BY <2>1, PartMoves
  <2> QED
    BY <2>2 DEF SamePart, p, q, p2, q2
<1>7. m + 1 < n => SubSeq(s, m + 1, n - 1) = SubSeq(w, m2 + 1, n2 - 1)
  BY <1>6
<1> QED
  BY <1>5, <1>7, ZenonT(40) DEF SameStretch

\* A cut divides the parts into those before it and those behind it.
LEMMA PartsAtSeparator ==
  ASSUME NEW a \in Texts, NEW sep \in Chars, NEW b \in Texts, NEW x
  PROVE  x \in Parts(a \o (<<sep>> \o b), sep) <=> x \in Parts(a, sep) \/ x \in Parts(b, sep)
<1> DEFINE w == a \o (<<sep>> \o b)
           A == Len(a)
           B == Len(b)
           D == A + 1
<1>1. /\ w \in Texts /\ Len(w) = A + 1 + B
      /\ A \in Nat /\ B \in Nat
      /\ \A n \in 1..A : w[n] = a[n]
      /\ w[A + 1] = sep
      /\ \A n \in 1..B : w[A + 1 + n] = b[n]
  <2>1. IsAround(w, a, sep, b)
    BY AroundChar
  <2> HIDE DEF w
  <2> QED
    BY <2>1, ZenonT(40) DEF IsAround
<1>2. /\ x \in Parts(w, sep) <=> IsStretch(x, w, sep)
      /\ x \in Parts(a, sep) <=> IsStretch(x, a, sep)
      /\ x \in Parts(b, sep) <=> IsStretch(x, b, sep)
  BY <1>1, PartIsStretch
<1> HIDE DEF w
<1>3. D \in 1..Len(w) /\ w[D] = sep /\ D \in Nat
  BY <1>1
<1>4. IsCut(w, sep, 0) /\ IsCut(w, sep, D) /\ IsCut(w, sep, Len(w) + 1)
  BY <1>3 DEF IsCut
<1>5. ASSUME NEW m \in 0..(A + 1), NEW n \in 0..(A + 1)
      PROVE  SameStretch(a, w, sep, m, n, m, n)
  <2>1. /\ A + 0 <= Len(w) /\ StandsAt(a, w, 0)
        /\ D = A + 1 + 0 /\ m = m + 0 /\ n = n + 0 /\ 0 \in Nat
    BY <1>1 DEF StandsAt
  <2> HIDE DEF D
  <2> QED
    BY <1>1, <1>4, <2>1, StretchMoves
<1>6. ASSUME NEW m \in 0..(B + 1), NEW n \in 0..(B + 1), NEW m2, NEW n2, m2 = m + D, n2 = n + D
      PROVE  SameStretch(b, w, sep, m, n, m2, n2)
  <2> DEFINE e == Len(w) + 1
  <2>1. /\ B + D <= Len(w)
        /\ e = B + 1 + D
    BY <1>1
  <2>2. StandsAt(b, w, D)
    <3>1. \A k \in 1..B : k + D = A + 1 + k
      BY <1>1
    <3> QED
      BY <1>1, <3>1 DEF StandsAt
  <2>3. IsCut(w, sep, e)
    BY <1>4
  <2> HIDE DEF D, e
  <2> QED
    BY <1>1, <1>3, <1>4, <1>6, <2>1, <2>2, <2>3, StretchMoves
<1>7. ASSUME x \in Parts(w, sep) PROVE x \in Parts(a, sep) \/ x \in Parts(b, sep)
  <2>1. PICK m \in 0..(Len(w) + 1) : \E n \in 0..(Len(w) + 1) :
          Stretch(w, sep, m, n) /\ x = SubSeq(w, m + 1, n - 1)
    BY <1>2, <1>7 DEF IsStretch
  <2>2. PICK n \in 0..(Len(w) + 1) : Stretch(w, sep, m, n) /\ x = SubSeq(w, m + 1, n - 1)
    BY <2>1
  <2>3. m + 1 < n /\ \A k \in (m + 1)..(n - 1) : w[k] # sep
    BY <2>2 DEF Stretch
  <2>4. D \notin (m + 1)..(n - 1)
    BY <1>3, <2>3
  <2>5. CASE n <= D
    <3>1. m \in 0..(A + 1) /\ n \in 0..(A + 1)
      BY <1>1, <2>3, <2>5
    <3> HIDE DEF D
    <3>2. Stretch(a, sep, m, n) /\ SubSeq(a, m + 1, n - 1) = SubSeq(w, m + 1, n - 1)
      BY <1>5, <2>2, <2>3, <3>1 DEF SameStretch
    <3>3. IsStretch(x, a, sep)
      BY <2>2, <3>1, <3>2 DEF IsStretch
    <3> QED
      BY <1>2, <3>3
  <2>6. CASE ~(n <= D)
    <3> DEFINE i == m - D
               j == n - D
    <3>1. /\ i \in 0..(B + 1) /\ j \in 0..(B + 1) /\ m = i + D /\ n = j + D /\ i + 1 < j
      BY <1>1, <2>3, <2>4, <2>6
    <3> HIDE DEF i, j, D
    <3>2. SameStretch(b, w, sep, i, j, m, n)
      BY <1>6, <3>1
    <3>3. Stretch(b, sep, i, j) /\ SubSeq(b, i + 1, j - 1) = SubSeq(w, m + 1, n - 1)
      BY <2>2, <3>1, <3>2 DEF SameStretch
    <3>4. IsStretch(x, b, sep)
      BY <2>2, <3>1, <3>3 DEF IsStretch
    <3> QED
      BY <1>2, <3>4
  <2> QED
    BY <2>5, <2>6
<1>8. ASSUME x \in Parts(a, sep) PROVE x \in Parts(w, sep)
  <2>1. PICK m \in 0..(A + 1) : \E n \in 0..(A + 1) :
          Stretch(a, sep, m, n) /\ x = SubSeq(a, m + 1, n - 1)
    BY <1>2, <1>8 DEF IsStretch
  <2>2. PICK n \in 0..(A + 1) : Stretch(a, sep, m, n) /\ x = SubSeq(a, m + 1, n - 1)
    BY <2>1
  <2>3. m + 1 < n /\ m \in 0..(Len(w) + 1) /\ n \in 0..(Len(w) + 1)
    BY <1>1, <2>2 DEF Stretch
  <2> QED
    BY <1>2, <1>5, <2>2, <2>3 DEF SameStretch, IsStretch
<1>9. ASSUME x \in Parts(b, sep) PROVE x \in Parts(w, sep)
  <2>1. PICK m \in 0..(B + 1) : \E n \in 0..(B + 1) :
          Stretch(b, sep, m, n) /\ x = SubSeq(b, m + 1, n - 1)
    BY <1>2, <1>9 DEF IsStretch
  <2>2. PICK n \in 0..(B + 1) : Stretch(b, sep, m, n) /\ x = SubSeq(b, m + 1, n - 1)
    BY <2>1
  <2> DEFINE m2 == m + D
             n2 == n + D
  <2>3. m + 1 < n /\ m2 \in 0..(Len(w) + 1) /\ n2 \in 0..(Len(w) + 1)
    BY <1>1, <2>2 DEF Stretch
  <2>4. m2 = m + D /\ n2 = n + D
    OBVIOUS
  <2> HIDE DEF m2, n2, D
  <2>5. Stretch(w, sep, m2, n2) /\ SubSeq(b, m + 1, n - 1) = SubSeq(w, m2 + 1, n2 - 1)
    <3>1. SameStretch(b, w, sep, m, n, m2, n2)
      BY <1>6, <2>4
    <3> QED
      BY <2>2, <2>3, <3>1 DEF SameStretch
  <2> QED
    BY <1>2, <2>2, <2>3, <2>5 DEF IsStretch
<1> QED
  BY <1>7, <1>8, <1>9 DEF w

\* A text without the separator is one part, and no text has none.
LEMMA PartsOfFree ==
  ASSUME NEW text, NEW sep, Free(text, {sep}), NEW x
  PROVE  x \in Parts(text, sep) <=> text # << >> /\ x = text
<1> DEFINE N == Len(text)
<1>1. text \in Texts /\ N \in Nat /\ \A k \in 1..N : text[k] # sep
  BY TextLength DEF Free
<1>2. x \in Parts(text, sep) <=>
           \E m \in 0..(N + 1) : \E n \in 0..(N + 1) :
             Stretch(text, sep, m, n) /\ x = SubSeq(text, m + 1, n - 1)
  BY <1>1, PartIsStretch DEF IsStretch
<1>3. text # << >> <=> N # 0
  BY <1>1, EmptySeq, EmptyText DEF Texts
<1>4. \A k \in 0..(N + 1) : IsCut(text, sep, k) <=> k = 0 \/ k = N + 1
  BY <1>1 DEF IsCut
<1>5. SubSeq(text, 0 + 1, (N + 1) - 1) = text
  <2>1. SubSeq(text, 1, N) = text
    BY <1>1, WholeText
  <2>2. 0 + 1 = 1 /\ (N + 1) - 1 = N
    BY <1>1
  <2> QED
    BY <2>1, <2>2
<1> HIDE DEF N
<1>6. ASSUME NEW m \in 0..(N + 1), NEW n \in 0..(N + 1)
      PROVE  Stretch(text, sep, m, n) <=> m = 0 /\ n = N + 1 /\ N # 0
  <2>1. Stretch(text, sep, m, n) => m = 0 /\ n = N + 1 /\ N # 0
    BY <1>1, <1>4 DEF Stretch, N
  <2>2. ASSUME m = 0, n = N + 1, N # 0 PROVE Stretch(text, sep, m, n)
    <3>1. m + 1 < n /\ \A k \in (m + 1)..(n - 1) : k \in 1..N
      BY <1>1, <2>2
    <3> QED
      BY <1>1, <1>4, <2>2, <3>1 DEF Stretch, N
  <2> QED
    BY <2>1, <2>2
<1>7. 0 \in 0..(N + 1) /\ N + 1 \in 0..(N + 1)
  BY <1>1
<1> QED
  BY <1>2, <1>3, <1>5, <1>6, <1>7 DEF N

\* Three texts, however they are bracketed.
Rebracketed(s, t, u) == (s \o t) \o u = s \o (t \o u)

LEMMA Rebracket == \A s \in Texts, t \in Texts, u \in Texts : Rebracketed(s, t, u)
BY TextsAssociate DEF Rebracketed

\* Texts joined with a pair of separators, however they are bracketed.
PairRebracketed(u, j, g, s, t, q) ==
  (u \o (j \o (((g \o (s \o s)) \o g) \o t))) \o q
    = ((u \o j) \o g) \o (s \o (s \o ((g \o t) \o q)))

LEMMA Rejoined ==
  ASSUME NEW u \in Texts, NEW j \in Texts, NEW g \in Texts, NEW s \in Texts,
         NEW t \in Texts, NEW q \in Texts
  PROVE  PairRebracketed(u, j, g, s, t, q)
<1> DEFINE x == g \o t
           y == s \o (s \o x)
           z == s \o (s \o (x \o q))
<1>1. s \o s \in Texts /\ x \in Texts /\ s \o x \in Texts /\ y \in Texts /\ x \o q \in Texts
      /\ g \o (s \o s) \in Texts /\ u \o j \in Texts /\ g \o y \in Texts /\ s \o (x \o q) \in Texts
      /\ (u \o j) \o g \in Texts
  BY TextsJoined, ZenonT(60)
<1>2. /\ Rebracketed(g \o (s \o s), g, t) /\ Rebracketed(g, s \o s, x)
      /\ Rebracketed(s, s, x) /\ Rebracketed(s, s \o x, q) /\ Rebracketed(s, x, q)
      /\ Rebracketed(u, j, g \o y) /\ Rebracketed(u \o j, g, y) /\ Rebracketed((u \o j) \o g, y, q)
  BY <1>1, Rebracket, ZenonT(60)
<1>3. ((g \o (s \o s)) \o g) \o t = g \o y
  BY <1>2, ZenonT(60) DEF Rebracketed
<1>4. y \o q = z
  BY <1>2, ZenonT(60) DEF Rebracketed
<1> HIDE DEF x, y, z
<1>5. (u \o (j \o (g \o y))) \o q = ((u \o j) \o g) \o (y \o q)
  BY <1>2, ZenonT(60) DEF Rebracketed
<1> QED
  BY <1>3, <1>4, <1>5, Zenon DEF x, z, PairRebracketed

\* A text with the gap before or behind it, or without.
Pads(gap) == {<< >>, gap}
Padded(x, t, gap) == \E p \in Pads(gap) : \E q \in Pads(gap) : x = (p \o t) \o q

\* The parts are the texts, each with or without gaps.
AreParts(w, sep, gap, texts, n) ==
  /\ \A x \in Parts(w, sep) : \E k \in 1..n : Padded(x, texts[k], gap)
  /\ \A k \in 1..n : \E x \in Parts(w, sep) : Padded(x, texts[k], gap)
Separable(texts, sep) ==
  \A n \in 1..Len(texts) : Free(texts[n], {sep}) /\ texts[n] # << >>

\* A text that is not empty stays so with others around it.
LEMMA NotEmpty ==
  ASSUME NEW p \in Texts, NEW t \in Texts, NEW q \in Texts, t # << >>
  PROVE  (p \o t) \o q \in Texts /\ (p \o t) \o q # << >>
<1>1. Len(t) # 0 /\ Len(t) \in Nat /\ Len(p) \in Nat /\ Len(q) \in Nat
  BY TextLength, EmptySeq DEF Texts
<1> DEFINE pt == p \o t
<1>2. pt \in Texts /\ Len(pt) = Len(p) + Len(t)
  BY TextsJoined
<1> HIDE DEF pt
<1>3. pt \o q \in Texts /\ Len(pt \o q) = Len(pt) + Len(q)
  BY <1>2, TextsJoined
<1>4. Len(pt \o q) # 0
  BY <1>1, <1>2, <1>3
<1>5. pt \o q # << >>
  BY <1>4, EmptyText
<1> QED
  BY <1>3, <1>5 DEF pt

\* The empty text has no separator.
LEMMA EmptyFree == \A bad : Free(<< >>, bad)
BY EmptyText DEF Free

\* The only part of a text is itself.
IsOnePart(w, sep) == \A x : x \in Parts(w, sep) <=> x = w

\* A text without the separator is one part with the gaps around it.
LEMMA PaddedIsOnePart ==
  ASSUME NEW t, NEW sep, Free(t, {sep}), t # << >>, NEW gap, Free(gap, {sep}),
         NEW p \in Pads(gap), NEW q \in Pads(gap)
  PROVE  IsOnePart((p \o t) \o q, sep)
<1>1. Free(p, {sep}) /\ Free(q, {sep})
  BY EmptyFree DEF Pads
<1>2. p \in Texts /\ t \in Texts /\ q \in Texts
  BY <1>1 DEF Free
<1> DEFINE w == (p \o t) \o q
<1>3. w # << >>
  BY <1>2, NotEmpty
<1>4. Free(p \o t, {sep})
  BY <1>1, FreeJoined
<1>5. Free(w, {sep})
  BY <1>1, <1>4, FreeJoined
<1> HIDE DEF w
<1>6. IsOnePart(w, sep)
  BY <1>3, <1>5, PartsOfFree DEF IsOnePart
<1> QED
  BY <1>6 DEF w

\* The parts of a text are those of two others.
HasPartsOf(w, a, b, sep) == \A x : x \in Parts(w, sep) <=> x \in Parts(a, sep) \/ x \in Parts(b, sep)

\* A pair of separators divides the parts into those before it and those behind
\* it; there is none between the two.
LEMMA PartsAtPair ==
  ASSUME NEW a \in Texts, NEW sep \in Chars, NEW b \in Texts
  PROVE  HasPartsOf(a \o (<<sep>> \o (<<sep>> \o b)), a, b, sep)
<1> SUFFICES ASSUME NEW x
             PROVE  x \in Parts(a \o (<<sep>> \o (<<sep>> \o b)), sep)
                      <=> x \in Parts(a, sep) \/ x \in Parts(b, sep)
  BY DEF HasPartsOf
<1> DEFINE s == <<sep>>
           c == s \o b
<1>1. s \in Texts /\ c \in Texts /\ << >> \in Texts
  BY OneCharText, TextsJoined, EmptyText
<1>2. << >> \o c = c
  BY <1>1, EmptyJoined
<1>3. x \in Parts(<< >> \o c, sep) <=> x \in Parts(<< >>, sep) \/ x \in Parts(b, sep)
  BY <1>1, PartsAtSeparator
<1>4. x \notin Parts(<< >>, sep)
  BY EmptyFree, PartsOfFree
<1> HIDE DEF c
<1>5. x \in Parts(a \o (s \o c), sep) <=> x \in Parts(a, sep) \/ x \in Parts(c, sep)
  BY <1>1, PartsAtSeparator
<1> QED
  BY <1>2, <1>3, <1>4, <1>5 DEF c

\* The first n of the joined texts, with gaps, have the first n texts as parts.
FirstParts(joined, texts, gap, sep, u, n) ==
  \A q \in Pads(gap) : AreParts((u \o joined[n]) \o q, sep, gap, texts, n)

\* Join puts the separator before each text but the first.
Begun(texts, between, joined) ==
  /\ joined[1] = texts[1]
  /\ \A n \in 1..Len(texts) : joined[n] \in Texts
  /\ \A n \in 1..(Len(texts) - 1) : joined[n + 1] = joined[n] \o (between \o texts[n + 1])

LEMMA JoinIsBegun ==
  ASSUME NEW texts \in Seq(Texts), Len(texts) # 0, NEW between \in Texts
  PROVE  \E joined : Begun(texts, between, joined) /\ Join(texts, between) = joined[Len(texts)]
<1> DEFINE N == Len(texts)
           parts == [n \in DOMAIN texts |-> IF n = 1 THEN texts[n] ELSE between \o texts[n]]
<1>1. N \in Nat /\ N # 0 /\ DOMAIN texts = 1..N /\ \A n \in 1..N : texts[n] \in Texts
  BY PartsAreTexts
<1>2. \A n \in 1..N : parts[n] \in Texts
  <2>1. \A n \in 1..N : between \o texts[n] \in Texts
    BY <1>1, TextsJoined
  <2> QED
    BY <1>1, <2>1
<1>3. parts \in Seq(Texts) /\ Len(parts) = N
  <2>1. parts \in [1..N -> Texts]
    BY <1>1, <1>2
  <2> HIDE DEF parts
  <2> QED
    BY <1>1, <2>1
<1>4. /\ 1 \in 1..N /\ parts[1] = texts[1]
      /\ \A n \in 1..(N - 1) : n + 1 \in 1..N /\ parts[n + 1] = between \o texts[n + 1]
  <2>1. \A n \in 1..(N - 1) : n + 1 \in 1..N /\ n + 1 # 1
    BY <1>1
  <2> QED
    BY <1>1, <2>1
<1>5. Join(texts, between) = FlattenSeq(parts)
  BY DEF Join
<1> HIDE DEF parts
<1>6. PICK joined : Flattened(parts, joined) /\ FlattenSeq(parts) = joined[N]
  BY <1>3, FlattenIsJoined
<1>7. /\ \A n \in 0..N : joined[n] \in Texts
      /\ joined[0] = << >>
      /\ \A n \in 1..N : joined[n] = joined[n - 1] \o parts[n]
  BY <1>3, <1>6 DEF Flattened
<1>8. joined[1] = texts[1]
  <2>1. joined[1] = joined[1 - 1] \o parts[1]
    BY <1>4, <1>7, Zenon
  <2>2. 1 - 1 = 0
    OBVIOUS
  <2>3. joined[1] = << >> \o texts[1]
    BY <1>4, <1>7, <2>1, <2>2, Zenon
  <2> QED
    BY <1>1, <1>4, <2>3, EmptyJoined, Zenon
<1>9. \A n \in 1..(N - 1) : joined[n + 1] = joined[n] \o (between \o texts[n + 1])
  <2> TAKE n \in 1..(N - 1)
  <2>1. n + 1 \in 1..N /\ (n + 1) - 1 = n
    BY <1>1
  <2>2. joined[n + 1] = joined[(n + 1) - 1] \o parts[n + 1]
    BY <1>7, <2>1
  <2> QED
    BY <1>4, <2>1, <2>2
<1>10. \A n \in 1..N : joined[n] \in Texts
  BY <1>7
<1> QED
  BY <1>5, <1>6, <1>8, <1>9, <1>10 DEF Begun

\* The parts of texts joined with a pair of separators are the texts.
LEMMA JoinedParts ==
  ASSUME NEW texts \in Seq(Texts), Len(texts) # 0, NEW gap, NEW sep \in Chars,
         Free(gap, {sep}), Separable(texts, sep),
         NEW u \in Pads(gap), NEW v \in Pads(gap)
  PROVE  AreParts((u \o Join(texts, Around(gap, sep))) \o v, sep, gap, texts, Len(texts))
<1> DEFINE N == Len(texts)
           between == Around(gap, sep)
<1>1. N \in Nat /\ N # 0 /\ \A n \in 1..N : texts[n] \in Texts /\ texts[n] # << >>
                                              /\ Free(texts[n], {sep})
  BY PartsAreTexts DEF Separable
<1>2. gap \in Texts /\ u \in Texts /\ \A q \in Pads(gap) : q \in Texts
  BY EmptyText DEF Free, Pads
<1> DEFINE s == <<sep>>
<1>3. s \in Texts
  BY OneCharText
<1>4. between = (gap \o (s \o s)) \o gap
  BY DEF Around
<1> HIDE DEF s, between
<1>5. between \in Texts
  BY <1>2, <1>3, <1>4, TextsJoined, ZenonT(60)
<1>6. PICK joined : Begun(texts, between, joined) /\ Join(texts, between) = joined[N]
  BY <1>5, JoinIsBegun
<1>7. FirstParts(joined, texts, gap, sep, u, 1)
  <2> SUFFICES ASSUME NEW q \in Pads(gap)
               PROVE  AreParts((u \o joined[1]) \o q, sep, gap, texts, 1)
    BY DEF FirstParts
  <2> DEFINE t == texts[1]
  <2>0. 1 \in 1..N
    BY <1>1
  <2>1. joined[1] = t /\ Free(t, {sep}) /\ t # << >>
    BY <1>1, <1>6, <2>0, Zenon DEF Begun
  <2> DEFINE w == (u \o t) \o q
  <2>2. IsOnePart(w, sep)
    <3> HIDE DEF t
    <3> QED
      BY <2>1, PaddedIsOnePart
  <2>3. Padded(w, t, gap)
    BY DEF Padded
  <2>4. \A k \in 1..1 : k = 1
    OBVIOUS
  <2> HIDE DEF w
  <2>5. AreParts(w, sep, gap, texts, 1)
    BY <2>2, <2>3, <2>4 DEF AreParts, IsOnePart
  <2> QED
    BY <2>1, <2>5 DEF w
<1>8. ASSUME NEW n \in 1..(N - 1), FirstParts(joined, texts, gap, sep, u, n)
      PROVE  FirstParts(joined, texts, gap, sep, u, n + 1)
  <2> SUFFICES ASSUME NEW q \in Pads(gap)
               PROVE  AreParts((u \o joined[n + 1]) \o q, sep, gap, texts, n + 1)
    BY DEF FirstParts
  <2>0. n \in 1..N /\ n + 1 \in 1..N /\ n \in Nat
    BY <1>1
  <2> DEFINE t == texts[n + 1]
             j == joined[n]
             a == (u \o j) \o gap
             b == (gap \o t) \o q
             w == (u \o joined[n + 1]) \o q
  <2>1. t \in Texts /\ t # << >> /\ Free(t, {sep}) /\ j \in Texts /\ q \in Texts
        /\ joined[n + 1] = j \o (between \o t)
    BY <1>1, <1>2, <1>6, <2>0, Zenon DEF Begun
  <2>2. w = a \o (s \o (s \o b))
    <3> HIDE DEF t, j
    <3>1. PairRebracketed(u, j, gap, s, t, q)
      BY <1>2, <1>3, <2>1, Rejoined
    <3> QED
      BY <1>4, <2>1, <3>1, Zenon DEF PairRebracketed
  <2>3. a \in Texts /\ b \in Texts
    <3> HIDE DEF t, j
    <3> QED
      BY <1>2, <2>1, TextsJoined, ZenonT(60)
  <2>4. AreParts(a, sep, gap, texts, n)
    BY <1>8 DEF FirstParts, Pads
  <2>5. gap \in Pads(gap)
    BY DEF Pads
  <2>6. IsOnePart(b, sep)
    <3> HIDE DEF t
    <3> QED
      BY <2>1, <2>5, PaddedIsOnePart
  <2>7. Padded(b, t, gap)
    BY <2>5 DEF Padded
  <2> HIDE DEF a, b, w
  <2>8. \A x : x \in Parts(w, sep) <=> x \in Parts(a, sep) \/ x = b
    <3> TAKE x
    <3>1. HasPartsOf(w, a, b, sep)
      BY <2>2, <2>3, PartsAtPair DEF s
    <3> QED
      BY <2>6, <3>1 DEF HasPartsOf, IsOnePart
  <2>9. AreParts(w, sep, gap, texts, n + 1)
    <3>1. \A k : k \in 1..(n + 1) <=> k \in 1..n \/ k = n + 1
      BY <2>0
    <3> QED
      BY <2>4, <2>7, <2>8, <3>1, ZenonT(60) DEF AreParts
  <2> QED
    BY <2>9 DEF w
<1> DEFINE good == {n \in 1..N : FirstParts(joined, texts, gap, sep, u, n)}
<1>9. N \in good
  <2>1. 1 \in 1..N /\ N \in 1..N /\ 1 \in Nat
    BY <1>1
  <2>2. 1 \in good
    BY <1>7, <2>1
  <2>3. \A n \in 1..(N - 1) : n \in good => n + 1 \in good
    <3> TAKE n \in 1..(N - 1)
    <3>1. n + 1 \in 1..N
      BY <1>1
    <3> QED
      BY <1>8, <3>1
  <2> HIDE DEF good
  <2>4. 1..N \subseteq good
    BY <1>1, <2>1, <2>2, <2>3, CountingUp
  <2> QED
    BY <2>1, <2>4
<1> QED
  BY <1>6, <1>9 DEF FirstParts, between

\* The signs of the language are four, and no blank or quote is one.
LEMMA SignsDiffer ==
  /\ Bar # Ampersand /\ Bar # Equals /\ Bar # Bang
  /\ Ampersand # Equals /\ Ampersand # Bang /\ Equals # Bang
  /\ Blank \notin Signs /\ \A c \in Quotes : c \notin Signs /\ c # Blank
  /\ Signs \cup Quotes \cup {Blank} \subseteq Chars
<1>1. Bar # Ampersand /\ Bar # Equals /\ Bar # Bang
  BY Zenon DEF Bar, Ampersand, Equals, Bang
<1>2. Ampersand # Equals /\ Ampersand # Bang /\ Equals # Bang
  BY Zenon DEF Ampersand, Equals, Bang
<1>3. Blank # Bar /\ Blank # Ampersand /\ Blank # Equals /\ Blank # Bang
  BY Zenon DEF Blank, Bar, Ampersand, Equals, Bang
<1>4. \A c \in Quotes : c # Bar /\ c # Ampersand /\ c # Equals /\ c # Bang /\ c # Blank
  BY Zenon DEF Quotes, Blank, Bar, Ampersand, Equals, Bang
<1>5. Signs \cup Quotes \cup {Blank} \subseteq Chars
  BY DEF Chars
<1> QED
  BY <1>1, <1>2, <1>3, <1>4, <1>5, Zenon DEF Signs

\* The greatest of some numbers.
LEMMA MostIs ==
  ASSUME NEW S, S \subseteq Nat, NEW l \in S, \A k \in S : k <= l
  PROVE  Max(S) = l
<1>0. \A k \in S : l >= k
  OBVIOUS
<1>1. Max(S) \in S /\ \A k \in S : Max(S) >= k
  BY <1>0 DEF Max
<1>2. Max(S) \in Nat /\ l \in Nat
  BY <1>1
<1>3. Max(S) <= l /\ Max(S) >= l
  BY <1>1
<1> HIDE DEF Max
<1> QED
  BY <1>2, <1>3

\* Where a text stands in another.
StandsIn(w, p, t, q) ==
  /\ w \in Texts /\ Len(w) = Len(p) + Len(t) + Len(q)
  /\ \A n \in 1..Len(p) : w[n] = p[n]
  /\ \A n \in 1..Len(t) : w[n + Len(p)] = t[n]
  /\ \A n \in 1..Len(q) : w[n + (Len(p) + Len(t))] = q[n]
  /\ SubSeq(w, Len(p) + 1, Len(p) + Len(t)) = t

LEMMA PartBetween ==
  ASSUME NEW p \in Texts, NEW t \in Texts, NEW q \in Texts
  PROVE  StandsIn((p \o t) \o q, p, t, q)
<1> DEFINE pt == p \o t
           w == pt \o q
           P == Len(p)
           T == Len(t)
           Q == Len(q)
<1>1. P \in Nat /\ T \in Nat /\ Q \in Nat
  BY TextLength
<1>2. /\ pt \in Texts /\ Len(pt) = P + T
      /\ \A n \in 1..P : pt[n] = p[n]
      /\ \A n \in 1..T : pt[P + n] = t[n]
  BY TextsJoined
<1> HIDE DEF pt
<1>3. /\ w \in Texts /\ Len(w) = Len(pt) + Q
      /\ \A n \in 1..Len(pt) : w[n] = pt[n]
      /\ \A n \in 1..Q : w[Len(pt) + n] = q[n]
  BY <1>2, TextsJoined
<1> HIDE DEF w, P, T, Q
<1>4. Len(w) = P + T + Q
  BY <1>1, <1>2, <1>3
<1>5. \A n \in 1..P : w[n] = p[n]
  <2> TAKE n \in 1..P
  <2>1. n \in 1..Len(pt)
    BY <1>1, <1>2
  <2> QED
    BY <1>2, <1>3, <2>1, Zenon
<1>6. \A n \in 1..T : w[n + P] = t[n]
  <2> TAKE n \in 1..T
  <2>1. P + n \in 1..Len(pt) /\ P + n = n + P
    BY <1>1, <1>2
  <2>2. w[P + n] = pt[P + n] /\ pt[P + n] = t[n]
    BY <1>2, <1>3, <2>1, Zenon
  <2> QED
    BY <2>1, <2>2, Zenon
<1>7. \A n \in 1..Q : w[n + (P + T)] = q[n]
  <2> TAKE n \in 1..Q
  <2>1. Len(pt) + n = n + (P + T)
    BY <1>1, <1>2
  <2>2. w[Len(pt) + n] = q[n]
    BY <1>3, Zenon
  <2> QED
    BY <2>1, <2>2, Zenon
<1>8. SubSeq(w, P + 1, P + T) = t
  <2> DEFINE m == P + 1
             n == P + T
  <2>1. m = P + 1 /\ n = P + Len(t) /\ n <= Len(w)
    BY <1>1, <1>4 DEF T
  <2>2. StandsAt(t, w, P)
    BY <1>6 DEF StandsAt, T
  <2> HIDE DEF m, n
  <2>3. PartIs(w, m, n, t)
    BY <1>1, <1>3, <2>1, <2>2, WholeMoves
  <2> QED
    BY <2>3, Zenon DEF PartIs, m, n
<1> QED
  BY <1>3, <1>4, <1>5, <1>6, <1>7, <1>8, ZenonT(40) DEF StandsIn, w, pt, P, T, Q

\* Nothing but blanks; and no blank at either end.
Blanks(t) == t \in Texts /\ \A n \in 1..Len(t) : t[n] = Blank
Bare(t) == t \in Texts /\ (t = << >> \/ (t[1] # Blank /\ t[Len(t)] # Blank))

\* trim takes away the blanks around a text.
Trims(w, t) == Trim(w) = t

LEMMA TrimIs ==
  ASSUME NEW p, NEW t, NEW q, Blanks(p), Bare(t), Blanks(q)
  PROVE  Trims((p \o t) \o q, t)
<1> DEFINE w == (p \o t) \o q
           P == Len(p)
           T == Len(t)
           Q == Len(q)
           kept == {n \in DOMAIN w : w[n] # Blank}
<1>1. p \in Texts /\ t \in Texts /\ q \in Texts
  BY DEF Blanks, Bare
<1>2. P \in Nat /\ T \in Nat /\ Q \in Nat
  BY <1>1, TextLength
<1>3. /\ w \in Texts /\ Len(w) = P + T + Q
      /\ \A n \in 1..P : w[n] = p[n]
      /\ \A n \in 1..T : w[n + P] = t[n]
      /\ \A n \in 1..Q : w[n + (P + T)] = q[n]
      /\ SubSeq(w, P + 1, P + T) = t
  <2>1. StandsIn(w, p, t, q)
    BY <1>1, PartBetween
  <2> HIDE DEF w
  <2> QED
    BY <2>1, ZenonT(40) DEF StandsIn
<1> HIDE DEF w
<1>4. DOMAIN w = 1..Len(w)
  BY <1>3 DEF Texts
<1>5. \A n \in 1..P : w[n] = Blank
  BY <1>3 DEF Blanks
<1>6. \A n \in 1..Q : w[n + (P + T)] = Blank
  BY <1>3 DEF Blanks
<1> HIDE DEF P, T, Q
<1>7. kept \subseteq (P + 1)..(P + T)
  <2> SUFFICES ASSUME NEW n \in 1..Len(w), w[n] # Blank PROVE n \in (P + 1)..(P + T)
    BY <1>4
  <2>1. ~(n \in 1..P)
    BY <1>5
  <2> DEFINE i == n - (P + T)
  <2>2. i + (P + T) = n /\ (n \notin (P + 1)..(P + T) => i \in 1..Q)
    BY <1>2, <1>3, <2>1
  <2> HIDE DEF i
  <2> QED
    BY <1>6, <2>2
<1>8. CASE t = << >>
  <2>1. T = 0
    BY <1>8, EmptyText DEF T
  <2>2. (P + 1)..(P + T) = {}
    BY <1>2, <2>1
  <2>3. kept = {}
    BY <1>7, <2>2
  <2>4. Trim(w) = << >>
    BY <2>3 DEF Trim
  <2> QED
    BY <1>8, <2>4 DEF Trims, w
<1>9. CASE t # << >>
  <2>1. T # 0
    BY <1>1, <1>9, EmptySeq DEF T, Texts
  <2>2. t[1] # Blank /\ t[T] # Blank
    BY <1>9 DEF Bare, T
  <2>3. 1 \in 1..T /\ T \in 1..T /\ 1 + P = P + 1 /\ T + P = P + T
        /\ P + 1 \in 1..Len(w) /\ P + T \in 1..Len(w)
    BY <1>2, <1>3, <2>1
  <2>4. w[1 + P] = t[1] /\ w[T + P] = t[T]
    BY <1>3, <2>3, Zenon
  <2>5. P + 1 \in kept /\ P + T \in kept
    BY <1>4, <2>2, <2>3, <2>4, Zenon
  <2>6. kept # {}
    BY <2>5
  <2> HIDE DEF kept
  <2>7. kept \subseteq Nat /\ \A k \in kept : P + 1 <= k /\ k <= P + T
    BY <1>2, <1>7
  <2>8. Min(kept) = P + 1
    BY <2>5, <2>7, LeastIs
  <2>9. Max(kept) = P + T
    BY <2>5, <2>7, MostIs
  <2>10. Trim(w) = SubSeq(w, P + 1, P + T)
    BY <2>6, <2>8, <2>9, Zenon DEF Trim, kept
  <2> QED
    BY <1>3, <2>10, Zenon DEF Trims, w
<1> QED
  BY <1>8, <1>9

\* A text that does not look quoted.
Unquoted(t) == ~(Len(t) >= 2 /\ t[1] \in Quotes /\ t[Len(t)] = t[1])

\* The quotes are taken away.
LEMMA QuotesAreTaken ==
  ASSUME NEW c \in Quotes, NEW t \in Texts
  PROVE  LET w == (<<c>> \o t) \o <<c>>
         IN  Unquote(w) = t /\ Bare(w)
<1> DEFINE s == <<c>>
           w == (s \o t) \o s
           T == Len(t)
<1>1. s \in Texts /\ Len(s) = 1 /\ s[1] = c /\ c # Blank
  <2>1. c \in Chars /\ c # Blank
    BY SignsDiffer
  <2> QED
    BY <2>1, OneCharText
<1> HIDE DEF s
<1>2. T \in Nat
  BY TextLength
<1>3. /\ w \in Texts /\ Len(w) = Len(s) + T + Len(s)
      /\ \A n \in 1..Len(s) : w[n] = s[n]
      /\ \A n \in 1..Len(s) : w[n + (Len(s) + T)] = s[n]
      /\ SubSeq(w, Len(s) + 1, Len(s) + T) = t
  <2>1. StandsIn(w, s, t, s)
    BY <1>1, PartBetween
  <2> HIDE DEF w
  <2> QED
    BY <2>1, ZenonT(40) DEF StandsIn
<1> HIDE DEF w, T
<1>4. /\ Len(w) = T + 2 /\ Len(w) >= 2 /\ Len(s) + 1 = 2 /\ Len(s) + T = Len(w) - 1
      /\ 1 \in 1..Len(s) /\ 1 + (Len(s) + T) = Len(w)
  BY <1>1, <1>2, <1>3
<1>5. w[1] = c
  BY <1>1, <1>3, <1>4, Zenon
<1>6. w[Len(w)] = c
  BY <1>1, <1>3, <1>4, Zenon
<1>7. SubSeq(w, 2, Len(w) - 1) = t
  BY <1>3, <1>4, Zenon
<1>8. Unquote(w) = t
  BY <1>4, <1>5, <1>6, <1>7, Zenon DEF Unquote
<1>9. Bare(w)
  BY <1>1, <1>3, <1>5, <1>6, Zenon DEF Bare
<1> QED
  BY <1>8, <1>9 DEF w, s

\* The operator stands between two texts without its characters.
SplitAt(w, k, c, v, n) ==
  /\ w \in Texts /\ n \in 1..Len(w)
  /\ SubSeq(w, 1, n - 1) = k /\ SubSeq(w, n + 2, Len(w)) = v
  /\ Places(w, Equals, Equals) = IF c = Equals THEN {n} ELSE {}
  /\ Places(w, Bang, Equals) = IF c = Bang THEN {n} ELSE {}

LEMMA OperatorIsFound ==
  ASSUME NEW k, NEW v, Free(k, {Equals, Bang}), Free(v, {Equals, Bang}),
         NEW c \in {Equals, Bang}
  PROVE  SplitAt(k \o (<<c>> \o (<<Equals>> \o v)), k, c, v, Len(k) + 1)
<1> DEFINE b == <<Equals>> \o v
           w == k \o (<<c>> \o b)
           K == Len(k)
           V == Len(v)
<1>1. k \in Texts /\ v \in Texts /\ c \in Chars /\ Equals \in Chars /\ Bang # Equals
  BY SignsDiffer DEF Free, Signs
<1>2. K \in Nat /\ V \in Nat
  BY <1>1, TextLength
<1>3. /\ b \in Texts /\ Len(b) = 1 + V /\ b[1] = Equals
      /\ \A n \in 1..V : b[1 + n] = v[n]
  <2> DEFINE e == << >>
             u == <<Equals>> \o v
  <2>1. e \in Texts /\ Len(e) = 0
    BY EmptyText
  <2> HIDE DEF e
  <2>2. IsAround(e \o u, e, Equals, v)
    BY <1>1, <2>1, AroundChar
  <2>3. u \in Texts
    BY <1>1, OneCharText, TextsJoined
  <2> HIDE DEF u
  <2>4. e \o u = u
    BY <2>3, EmptyJoined DEF e
  <2>5. Len(e) + 1 = 1 /\ Len(e) + 1 + V = 1 + V /\ \A n \in 1..V : Len(e) + 1 + n = 1 + n
    BY <1>2, <2>1
  <2>6. /\ u \in Texts /\ Len(u) = 1 + V /\ u[1] = Equals
        /\ \A n \in 1..V : u[1 + n] = v[n]
    BY <2>2, <2>4, <2>5, Zenon DEF IsAround
  <2> QED
    BY <2>6 DEF u
<1> HIDE DEF b
<1>4. /\ w \in Texts /\ Len(w) = K + 1 + Len(b)
      /\ \A n \in 1..K : w[n] = k[n]
      /\ w[K + 1] = c
      /\ \A n \in 1..Len(b) : w[K + 1 + n] = b[n]
  <2>1. IsAround(w, k, c, b)
    BY <1>1, <1>3, AroundChar
  <2> HIDE DEF w
  <2> QED
    BY <2>1, Zenon DEF IsAround
<1> HIDE DEF w, K, V
<1>5. Len(w) = K + 2 + V
  BY <1>2, <1>3, <1>4
<1>6. w[K + 2] = Equals /\ \A n \in 1..V : w[n + (K + 2)] = v[n]
  <2>1. 1 \in 1..Len(b) /\ K + 1 + 1 = K + 2
    BY <1>2, <1>3
  <2>2. w[K + 1 + 1] = b[1]
    BY <1>4, <2>1, Zenon
  <2>3. ASSUME NEW n \in 1..V PROVE w[n + (K + 2)] = v[n]
    <3> DEFINE i == 1 + n
    <3>1. i \in 1..Len(b) /\ K + 1 + i = n + (K + 2)
      BY <1>2, <1>3
    <3>2. b[i] = v[n]
      BY <1>3
    <3> HIDE DEF i
    <3>3. w[K + 1 + i] = b[i]
      BY <1>4, <3>1, Zenon
    <3> QED
      BY <3>1, <3>2, <3>3, Zenon
  <2> QED
    BY <1>3, <2>1, <2>2, <2>3, Zenon
<1>7. ASSUME NEW n \in 1..Len(w), w[n] \in {Equals, Bang} PROVE n = K + 1 \/ n = K + 2
  <2>1. ~(n \in 1..K)
    BY <1>4, <1>7 DEF Free, K
  <2> DEFINE i == n - (K + 2)
  <2>2. i + (K + 2) = n /\ (n # K + 1 /\ n # K + 2 => i \in 1..V)
    BY <1>2, <1>5, <2>1
  <2> HIDE DEF i
  <2>3. i \notin 1..V
    BY <1>6, <1>7, <2>2 DEF Free, V
  <2> QED
    BY <2>2, <2>3
<1>8. ASSUME NEW a \in {Equals, Bang}
      PROVE  Places(w, a, Equals) = IF c = a THEN {K + 1} ELSE {}
  <2>1. ASSUME NEW n \in 1..(Len(w) - 1), w[n] = a, w[n + 1] = Equals
        PROVE  n = K + 1 /\ c = a
    <3>1. n \in 1..Len(w) /\ n + 1 \in 1..Len(w)
      BY <1>2, <1>5
    <3>2. n = K + 1 \/ n = K + 2
      BY <1>7, <2>1, <3>1
    <3>3. n + 1 = K + 1 \/ n + 1 = K + 2
      BY <1>7, <2>1, <3>1
    <3>4. n = K + 1
      BY <1>2, <3>2, <3>3
    <3> QED
      BY <1>4, <2>1, <3>4
  <2>2. K + 1 \in 1..(Len(w) - 1) /\ (K + 1) + 1 = K + 2
    BY <1>2, <1>5
  <2>3. w[(K + 1) + 1] = Equals
    BY <1>6, <2>2
  <2> QED
    BY <1>4, <2>1, <2>2, <2>3, Zenon DEF Places
<1>9. SubSeq(w, 1, (K + 1) - 1) = k
  <2> DEFINE m == 1
             n == (K + 1) - 1
  <2>1. m = 0 + 1 /\ n = 0 + Len(k) /\ n <= Len(w) /\ 0 \in Nat
    BY <1>2, <1>5 DEF K
  <2>2. StandsAt(k, w, 0)
    BY <1>2, <1>4 DEF StandsAt, K
  <2> HIDE DEF m, n
  <2>3. PartIs(w, m, n, k)
    BY <1>1, <1>4, <2>1, <2>2, WholeMoves
  <2> QED
    BY <2>3, Zenon DEF PartIs, m, n
<1>10. SubSeq(w, (K + 1) + 2, Len(w)) = v
  <2> DEFINE d == K + 2
             m == (K + 1) + 2
             n == Len(w)
  <2>1. d \in Nat /\ m = d + 1 /\ n = d + Len(v) /\ n <= Len(w)
    BY <1>2, <1>5 DEF V
  <2>2. StandsAt(v, w, d)
    BY <1>6 DEF StandsAt, V
  <2> HIDE DEF d, m, n
  <2>3. PartIs(w, m, n, v)
    BY <1>1, <1>4, <2>1, <2>2, WholeMoves
  <2> QED
    BY <2>3, Zenon DEF PartIs, m, n
<1>11. K + 1 \in 1..Len(w)
  BY <1>2, <1>5
<1>12. SplitAt(w, k, c, v, K + 1)
  BY <1>4, <1>8, <1>9, <1>10, <1>11, Zenon DEF SplitAt
<1> QED
  BY <1>12 DEF w, b, K

\* A comparison as it is written, and as it is split.
AtomRebracketed(p, k, g, c, e, u, v, q) ==
  (p \o ((((((k \o g) \o (c \o e)) \o g) \o u) \o v) \o u)) \o q
    = ((p \o k) \o g) \o (c \o (e \o ((g \o ((u \o v) \o u)) \o q)))

LEMMA AtomBrackets ==
  ASSUME NEW p \in Texts, NEW k \in Texts, NEW g \in Texts, NEW c \in Texts, NEW e \in Texts,
         NEW u \in Texts, NEW v \in Texts, NEW q \in Texts
  PROVE  AtomRebracketed(p, k, g, c, e, u, v, q)
<1> DEFINE h == k \o g
           o == c \o e
           m == h \o o
           uv == u \o v
           qv == uv \o u
           gv == g \o qv
           z == gv \o q
           x == o \o gv
           mg == m \o g
<1>1. /\ h \in Texts /\ o \in Texts /\ uv \in Texts
      /\ p \o h \in Texts /\ p \o k \in Texts
  BY TextsJoined, ZenonT(60)
<1>2. m \in Texts /\ qv \in Texts /\ mg \in Texts /\ gv \in Texts /\ z \in Texts /\ x \in Texts
  <2>1. m \in Texts /\ qv \in Texts
    BY <1>1, TextsJoined, ZenonT(60)
  <2>2. mg \in Texts /\ gv \in Texts
    BY <2>1, TextsJoined, ZenonT(60)
  <2> QED
    BY <1>1, <2>1, <2>2, TextsJoined, ZenonT(60)
<1>3. /\ Rebracketed(mg, u, v) /\ Rebracketed(mg, uv, u) /\ Rebracketed(m, g, qv)
      /\ Rebracketed(h, o, gv)
  BY <1>1, <1>2, Rebracket, ZenonT(60)
<1>4. /\ Rebracketed(p, h, x) /\ Rebracketed(p \o h, x, q) /\ Rebracketed(o, gv, q)
      /\ Rebracketed(c, e, z) /\ Rebracketed(p, k, g)
  BY <1>1, <1>2, Rebracket, ZenonT(60)
<1>5. ((mg \o u) \o v) \o u = h \o x
  <2>1. ((mg \o u) \o v) \o u = mg \o qv
    BY <1>3, ZenonT(60) DEF Rebracketed
  <2>2. mg \o qv = m \o gv
    BY <1>3, ZenonT(60) DEF Rebracketed
  <2>3. m \o gv = h \o x
    BY <1>3, ZenonT(60) DEF Rebracketed
  <2> QED
    BY <2>1, <2>2, <2>3, Zenon
<1> HIDE DEF h, x, mg
<1>6. (p \o (h \o x)) \o q = (p \o h) \o (x \o q)
  BY <1>4, ZenonT(60) DEF Rebracketed
<1>7. p \o h = (p \o k) \o g
  BY <1>4, ZenonT(60) DEF Rebracketed, h
<1> HIDE DEF gv
<1>8. x \o q = c \o (e \o z)
  BY <1>4, ZenonT(60) DEF Rebracketed, x
<1>9. (p \o (((mg \o u) \o v) \o u)) \o q = ((p \o k) \o g) \o (c \o (e \o z))
  BY <1>5, <1>6, <1>7, <1>8, ZenonT(60)
<1> QED
  BY <1>9, Zenon DEF AtomRebracketed, mg, h, gv

\* Two characters, one after the other.
LEMMA CharsJoined == \A a \in Chars, b \in Chars : <<a>> \o <<b>> = <<a, b>>
<1> SUFFICES ASSUME NEW a \in Chars, NEW b \in Chars PROVE <<a>> \o <<b>> = <<a, b>>
  OBVIOUS
<1> DEFINE s == <<a>>
           t == <<b>>
           u == <<a, b>>
<1>1. s \in Texts /\ Len(s) = 1 /\ s[1] = a /\ t \in Texts /\ Len(t) = 1 /\ t[1] = b
  BY OneCharText
<1>2. u \in Texts /\ Len(u) = 2 /\ u[1] = a /\ u[2] = b
  BY DEF Texts
<1> HIDE DEF s, t, u
<1>3. /\ s \o t \in Texts /\ Len(s \o t) = Len(s) + Len(t)
      /\ \A n \in 1..Len(s) : (s \o t)[n] = s[n]
      /\ \A n \in 1..Len(t) : (s \o t)[Len(s) + n] = t[n]
  BY <1>1, TextsJoined
<1>4. Len(s \o t) = 2 /\ (s \o t)[1] = a /\ (s \o t)[1 + 1] = b
  BY <1>1, <1>3
<1>5. \A n \in 1..2 : (s \o t)[n] = u[n]
  <2>1. \A n \in 1..2 : n = 1 \/ n = 1 + 1
    OBVIOUS
  <2>2. u[1 + 1] = b
    BY <1>2
  <2> QED
    BY <1>2, <1>4, <2>1, <2>2, Zenon
<1> QED
  BY <1>2, <1>3, <1>4, <1>5, SameText DEF s, t, u

-----------------------------------------------------------------------------
(* What a comparison means. *)

\* How a formula may be written: blanks around the operators, and the values
\* in quotes or not; without quotes a value must not be mistaken for another.
StyleOK(s) == Blanks(s.gap) /\ (s.quote = << >> \/ \E c \in Quotes : s.quote = <<c>>)
AtomOK(a, s) ==
  /\ Free(a.key, Signs) /\ Bare(a.key) /\ Free(a.val, Signs)
  /\ s.quote = << >> => Bare(a.val) /\ Unquoted(a.val)
  /\ a.negated \in BOOLEAN
Holds(a, ans) == (Lookup(ans, a.key) = a.val) # a.negated

\* A text without some characters is without fewer.
LEMMA FreeOfFewer ==
  ASSUME NEW t, NEW bad, Free(t, bad), NEW fewer, fewer \subseteq bad
  PROVE  Free(t, fewer)
BY DEF Free

\* Blanks are no signs, and neither are the quotes.
LEMMA PadsAreBlanks ==
  ASSUME NEW s, StyleOK(s)
  PROVE  /\ Free(s.gap, Signs) /\ s.gap \in Texts
         /\ \A p \in Pads(s.gap) : Blanks(p) /\ Free(p, Signs)
         /\ s.quote \in Texts /\ Free(s.quote, Signs)
<1>1. Blanks(<< >>) /\ Free(<< >>, Signs)
  BY EmptyText, EmptyFree DEF Blanks
<1>2. Blanks(s.gap) /\ Free(s.gap, Signs) /\ s.gap \in Texts
  BY SignsDiffer DEF StyleOK, Blanks, Free
<1>3. ASSUME NEW c \in Quotes PROVE <<c>> \in Texts /\ Free(<<c>>, Signs)
  <2>1. c \in Chars /\ c \notin Signs
    BY SignsDiffer
  <2>2. <<c>> \in Texts /\ Len(<<c>>) = 1 /\ <<c>>[1] = c
    BY <2>1, OneCharText
  <2> DEFINE t == <<c>>
  <2> HIDE DEF t
  <2>3. ASSUME t \in Texts, Len(t) = 1, t[1] = c PROVE Free(t, Signs)
    BY <2>1, <2>3 DEF Free
  <2> QED
    BY <2>2, <2>3 DEF t
<1>4. s.quote \in Texts /\ Free(s.quote, Signs)
  <2>1. CASE s.quote = << >>
    BY <1>1, <2>1, EmptyText
  <2>2. CASE \E c \in Quotes : s.quote = <<c>>
    BY <1>3, <2>2
  <2> QED
    BY <2>1, <2>2 DEF StyleOK
<1> QED
  BY <1>1, <1>2, <1>4 DEF Pads

\* A value comes out of its quotes.
LEMMA ValueIsRead ==
  ASSUME NEW s, StyleOK(s), NEW a, AtomOK(a, s)
  PROVE  LET qv == (s.quote \o a.val) \o s.quote
         IN  Bare(qv) /\ Unquote(qv) = a.val /\ Free(qv, Signs)
<1>1. a.val \in Texts /\ Free(a.val, Signs) /\ Free(s.quote, Signs)
  BY PadsAreBlanks DEF AtomOK, Free
<1>2. Free((s.quote \o a.val) \o s.quote, Signs)
  BY <1>1, FreeJoined
<1>3. CASE s.quote = << >>
  <2>1. (s.quote \o a.val) \o s.quote = a.val
    BY <1>1, <1>3, EmptyJoined
  <2>2. Bare(a.val) /\ Unquote(a.val) = a.val
    BY <1>3 DEF AtomOK, Unquoted, Unquote
  <2> QED
    BY <1>2, <2>1, <2>2
<1>4. CASE \E c \in Quotes : s.quote = <<c>>
  <2>1. PICK c \in Quotes : s.quote = <<c>>
    BY <1>4
  <2>2. LET w == (<<c>> \o a.val) \o <<c>>
        IN  Unquote(w) = a.val /\ Bare(w)
    BY <1>1, QuotesAreTaken
  <2> QED
    BY <1>2, <2>1, <2>2, Zenon
<1> QED
  BY <1>3, <1>4 DEF StyleOK

\* Joined with a text that is not empty, a text is not empty.
LEMMA StaysNotEmpty ==
  ASSUME NEW s \in Texts, NEW t \in Texts, s # << >> \/ t # << >>
  PROVE  s \o t # << >>
<1>1. s \o t \in Texts /\ Len(s \o t) = Len(s) + Len(t) /\ Len(s) \in Nat /\ Len(t) \in Nat
  BY TextsJoined, TextLength
<1>2. Len(s) # 0 \/ Len(t) # 0
  BY EmptySeq DEF Texts
<1>3. Len(s \o t) # 0
  BY <1>1, <1>2
<1> QED
  BY <1>3, EmptyText

\* A character is free of all others.
LEMMA CharIsFree ==
  ASSUME NEW c \in Chars, NEW bad, c \notin bad
  PROVE  <<c>> \in Texts /\ Free(<<c>>, bad) /\ <<c>> # << >>
<1> DEFINE t == <<c>>
<1>1. t \in Texts /\ Len(t) = 1 /\ t[1] = c /\ t # << >>
  BY OneCharText
<1> HIDE DEF t
<1>2. Free(t, bad)
  BY <1>1 DEF Free
<1> QED
  BY <1>1, <1>2 DEF t

\* Texts that are joined hold what they and the separators hold.
LEMMA JoinStays ==
  ASSUME NEW texts \in Seq(Texts), Len(texts) # 0, NEW between, NEW bad, Free(between, bad),
         \A n \in 1..Len(texts) : Free(texts[n], bad) /\ texts[n] # << >>
  PROVE  Free(Join(texts, between), bad) /\ Join(texts, between) # << >>
<1> DEFINE N == Len(texts)
           Good(t) == Free(t, bad) /\ t # << >>
<1>1. N \in Nat /\ N # 0 /\ between \in Texts
  BY PartsAreTexts DEF Free
<1>2. PICK joined : Begun(texts, between, joined) /\ Join(texts, between) = joined[N]
  BY <1>1, JoinIsBegun
<1> DEFINE good == {n \in 1..N : Good(joined[n])}
<1>3. 1 \in 1..N /\ N \in 1..N /\ 1 \in Nat
  BY <1>1
<1>4. Good(joined[1])
  BY <1>2, <1>3 DEF Begun
<1>5. ASSUME NEW n \in 1..(N - 1), Good(joined[n]) PROVE n + 1 \in 1..N /\ Good(joined[n + 1])
  <2>1. n + 1 \in 1..N
    BY <1>1
  <2> DEFINE t == texts[n + 1]
             j == joined[n]
  <2>2. Free(t, bad) /\ t # << >> /\ Free(j, bad)
    BY <1>5, <2>1
  <2>3. joined[n + 1] = j \o (between \o t)
    BY <1>2 DEF Begun
  <2> HIDE DEF t, j
  <2>4. t \in Texts /\ j \in Texts /\ between \o t \in Texts
    BY <1>1, <2>2, TextsJoined DEF Free
  <2>5. Free(between \o t, bad) /\ between \o t # << >>
    BY <1>1, <2>2, <2>4, FreeJoined, StaysNotEmpty
  <2>6. Free(j \o (between \o t), bad) /\ j \o (between \o t) # << >>
    <3> DEFINE bt == between \o t
    <3>1. Free(bt, bad) /\ bt # << >> /\ bt \in Texts
      BY <2>4, <2>5
    <3> HIDE DEF bt
    <3>2. Free(j \o bt, bad) /\ j \o bt # << >>
      BY <2>2, <2>4, <3>1, FreeJoined, StaysNotEmpty
    <3> QED
      BY <3>2 DEF bt
  <2> QED
    BY <2>1, <2>3, <2>6, Zenon
<1> HIDE DEF Good
<1>6. N \in good
  <2>1. 1 \in good
    BY <1>3, <1>4
  <2>2. \A n \in 1..(N - 1) : n \in good => n + 1 \in good
    BY <1>5
  <2> HIDE DEF good
  <2>3. 1..N \subseteq good
    BY <1>1, <1>3, <2>1, <2>2, CountingUp
  <2> QED
    BY <1>3, <2>3
<1> QED
  BY <1>2, <1>6 DEF Good

\* A comparison is written without the signs that join comparisons.
LEMMA AtomWritten ==
  ASSUME NEW s, StyleOK(s), NEW a, AtomOK(a, s)
  PROVE  /\ AtomText(a, s) \in Texts /\ AtomText(a, s) # << >>
         /\ Free(AtomText(a, s), {Bar, Ampersand})
<1> DEFINE bad == {Bar, Ampersand}
           c == IF a.negated THEN Bang ELSE Equals
           op == <<c>> \o <<Equals>>
           op0 == IF a.negated THEN <<Bang, Equals>> ELSE <<Equals, Equals>>
           kg == a.key \o s.gap
           kgo == kg \o op
           kgog == kgo \o s.gap
           kgogq == kgog \o s.quote
           kgogqv == kgogq \o a.val
<1>1. c \in Chars /\ c \notin bad /\ Equals \in Chars /\ Equals \notin bad /\ Bang \in Chars
      /\ bad \subseteq Signs
  BY SignsDiffer DEF Signs
<1>2. op0 = op
  <2>1. <<Bang>> \o <<Equals>> = <<Bang, Equals>> /\ <<Equals>> \o <<Equals>> = <<Equals, Equals>>
    BY <1>1, CharsJoined
  <2> QED
    BY <2>1
<1> HIDE DEF c, bad
<1>3. Free(op, bad) /\ op # << >> /\ op \in Texts
  <2>1. <<c>> \in Texts /\ Free(<<c>>, bad) /\ <<c>> # << >>
    BY <1>1, CharIsFree
  <2>2. <<Equals>> \in Texts /\ Free(<<Equals>>, bad)
    BY <1>1, CharIsFree
  <2> DEFINE cs == <<c>>
             es == <<Equals>>
  <2> HIDE DEF cs, es
  <2>3. cs \in Texts /\ Free(cs, bad) /\ cs # << >> /\ es \in Texts /\ Free(es, bad)
    BY <2>1, <2>2 DEF cs, es
  <2>4. Free(cs \o es, bad) /\ cs \o es # << >> /\ cs \o es \in Texts
    BY <2>3, FreeJoined, StaysNotEmpty, TextsJoined
  <2> QED
    BY <2>4 DEF cs, es
<1> HIDE DEF op
<1>4. /\ Free(a.key, bad) /\ Free(s.gap, bad) /\ Free(s.quote, bad) /\ Free(a.val, bad)
  BY <1>1, PadsAreBlanks, FreeOfFewer DEF AtomOK
<1>5. Free(kg, bad)
  BY <1>4, FreeJoined
<1>6. Free(kgo, bad) /\ kgo # << >>
  <2> HIDE DEF kg
  <2>1. kg \in Texts
    BY <1>5 DEF Free
  <2> QED
    BY <1>3, <1>5, <2>1, FreeJoined, StaysNotEmpty
<1> HIDE DEF kgo
<1>7. Free(kgog, bad) /\ kgog # << >>
  <2>1. kgo \in Texts /\ s.gap \in Texts
    BY <1>4, <1>6 DEF Free
  <2> QED
    BY <1>4, <1>6, <2>1, FreeJoined, StaysNotEmpty
<1> HIDE DEF kgog
<1>8. Free(kgogq, bad) /\ kgogq # << >>
  <2>1. kgog \in Texts /\ s.quote \in Texts
    BY <1>4, <1>7 DEF Free
  <2> QED
    BY <1>4, <1>7, <2>1, FreeJoined, StaysNotEmpty
<1> HIDE DEF kgogq
<1>9. Free(kgogqv, bad) /\ kgogqv # << >>
  <2>1. kgogq \in Texts /\ a.val \in Texts
    BY <1>4, <1>8 DEF Free
  <2> QED
    BY <1>4, <1>8, <2>1, FreeJoined, StaysNotEmpty
<1> HIDE DEF kgogqv
<1>10. Free(kgogqv \o s.quote, bad) /\ kgogqv \o s.quote # << >>
  <2>1. kgogqv \in Texts /\ s.quote \in Texts
    BY <1>4, <1>9 DEF Free
  <2> QED
    BY <1>4, <1>9, <2>1, FreeJoined, StaysNotEmpty
<1>11. AtomText(a, s) = kgogqv \o s.quote
  <2> HIDE DEF op0
  <2>1. AtomText(a, s) = (((((a.key \o s.gap) \o op0) \o s.gap) \o s.quote) \o a.val) \o s.quote
    BY Zenon DEF AtomText, op0
  <2> QED
    BY <1>2, <2>1, Zenon DEF kgogqv, kgogq, kgog, kgo
<1> QED
  BY <1>10, <1>11, Zenon DEF Free, bad

\* What fits with its blanks on both sides is not cut.
LEMMA PaddedFits ==
  ASSUME NEW gap \in Texts, NEW text \in Texts, NEW x, Padded(x, text, gap),
         Len(text) + 2 * Len(gap) <= MaxAtom
  PROVE  Held(x, MaxAtom) = x
<1>1. PICK p \in Pads(gap), q \in Pads(gap) : x = (p \o text) \o q
  BY DEF Padded
<1>2. p \in Texts /\ q \in Texts
  BY EmptyText DEF Pads
<1>3. Len(p) <= Len(gap) /\ Len(q) <= Len(gap)
  BY EmptyText, TextLength DEF Pads
<1>4. p \o text \in Texts /\ Len(p \o text) = Len(p) + Len(text)
  BY <1>2, TextsJoined
<1>5. Len(x) = (Len(p) + Len(text)) + Len(q)
  <2> DEFINE front == p \o text
  <2>1. front \in Texts /\ Len(front) = Len(p) + Len(text) /\ x = front \o q
    BY <1>1, <1>4
  <2> HIDE DEF front
  <2>2. Len(front \o q) = Len(front) + Len(q)
    BY <1>2, <2>1, TextsJoined
  <2> QED
    BY <2>1, <2>2
<1>6. \A t \in Texts : Len(t) \in Nat
  BY TextLength
<1>7. MaxAtom \in Nat
  BY LimitsAssumption
<1>8. Len(x) <= MaxAtom
  BY <1>2, <1>3, <1>5, <1>6, <1>7
<1> QED
  BY <1>8 DEF Held

\* eval_atom decides a comparison that fits into its buffer, whatever blanks are
\* around it.
LEMMA AtomIsItsMeaning ==
  ASSUME NEW s, StyleOK(s), NEW a, AtomOK(a, s), AtomFits(a, s), NEW ans,
         NEW x, Padded(x, AtomText(a, s), s.gap)
  PROVE  EvalAtom(x, ans) <=> Holds(a, ans)
<1> DEFINE key == a.key
           val == a.val
           gap == s.gap
           quote == s.quote
           c == IF a.negated THEN Bang ELSE Equals
           qv == (quote \o val) \o quote
<1>1. PICK p \in Pads(gap), q \in Pads(gap) : x = (p \o AtomText(a, s)) \o q
  BY DEF Padded
<1>2. c \in {Equals, Bang} /\ c \in Chars /\ Equals \in Chars /\ Bang \in Chars /\ Equals # Bang
      /\ {Equals, Bang} \subseteq Signs
  BY SignsDiffer DEF Signs
<1>3. /\ key \in Texts /\ Bare(key) /\ Free(key, Signs)
      /\ val \in Texts /\ gap \in Texts /\ quote \in Texts
      /\ p \in Texts /\ q \in Texts /\ Blanks(p) /\ Blanks(q) /\ Blanks(gap)
      /\ Free(p, Signs) /\ Free(q, Signs) /\ Free(gap, Signs)
  BY PadsAreBlanks DEF AtomOK, Free, StyleOK
<1>4. <<c>> \in Texts /\ <<Equals>> \in Texts
  BY <1>2, OneCharText
<1>5. AtomText(a, s)
        = (((((key \o gap) \o (<<c>> \o <<Equals>>)) \o gap) \o quote) \o val) \o quote
  <2>1. (IF a.negated THEN <<Bang, Equals>> ELSE <<Equals, Equals>>) = <<c>> \o <<Equals>>
    <3>1. <<Bang>> \o <<Equals>> = <<Bang, Equals>> /\ <<Equals>> \o <<Equals>> = <<Equals, Equals>>
      BY <1>2, CharsJoined
    <3> QED
      BY <3>1
  <2> HIDE DEF c
  <2> QED
    BY <2>1, Zenon DEF AtomText
<1>6. Bare(qv) /\ Unquote(qv) = val /\ Free(qv, Signs) /\ qv \in Texts
  BY ValueIsRead DEF Free
<1> HIDE DEF c
<1> DEFINE cs == <<c>>
           es == <<Equals>>
           K == (p \o key) \o gap
           V == (gap \o qv) \o q
<1>7. x = K \o (cs \o (es \o V))
  <2>1. cs \in Texts /\ es \in Texts
    BY <1>4
  <2> HIDE DEF key, val, gap, quote, cs, es
  <2>2. AtomRebracketed(p, key, gap, cs, es, quote, val, q)
    BY <1>3, <2>1, AtomBrackets
  <2> QED
    BY <1>1, <1>5, <2>2, Zenon DEF AtomRebracketed, cs, es
<1>8. Free(K, Signs) /\ Free(V, Signs)
  <2> HIDE DEF key, gap, qv
  <2>1. Free(p \o key, Signs) /\ Free(gap \o qv, Signs)
    BY <1>3, <1>6, FreeJoined
  <2> QED
    BY <1>3, <2>1, FreeJoined
<1>9. Trim(K) = key
  <2> HIDE DEF key, gap
  <2>1. Trims((p \o key) \o gap, key)
    BY <1>3, TrimIs
  <2> QED
    BY <2>1 DEF Trims
<1>10. Trim(V) = qv
  <2> HIDE DEF qv, gap
  <2>1. Trims((gap \o qv) \o q, qv)
    BY <1>3, <1>6, TrimIs
  <2> QED
    BY <2>1 DEF Trims
<1> HIDE DEF K, V, qv
<1> DEFINE n == Len(K) + 1
<1>11. SplitAt(x, K, c, V, n)
  <2>1. Free(K, {Equals, Bang}) /\ Free(V, {Equals, Bang})
    BY <1>2, <1>8, FreeOfFewer
  <2> QED
    BY <1>2, <1>7, <2>1, OperatorIsFound DEF cs, es
<1> HIDE DEF n
<1> DEFINE equal == Places(x, Equals, Equals)
           other == Places(x, Bang, Equals)
<1>12. /\ SubSeq(x, 1, n - 1) = K /\ SubSeq(x, n + 2, Len(x)) = V
       /\ equal = IF c = Equals THEN {n} ELSE {}
       /\ other = IF c = Bang THEN {n} ELSE {}
       /\ n \in Nat
  <2>1. x \in Texts /\ n \in 1..Len(x)
    BY <1>11 DEF SplitAt
  <2>2. n \in Nat
    BY <2>1, TextLength
  <2> QED
    BY <1>11, <2>2, Zenon DEF SplitAt
<1> HIDE DEF equal, other
<1>13. Min({n}) = n
  <2>1. {n} \subseteq Nat /\ n \in {n} /\ \A k \in {n} : n <= k
    BY <1>12
  <2> QED
    BY <2>1, LeastIs
<1>14. (IF equal # {} THEN equal ELSE other) = {n} /\ equal \cup other # {}
       /\ (equal # {} <=> c = Equals)
  BY <1>2, <1>12
<1>15. EvalAtom(x, ans) <=> (Lookup(ans, key) = val) = (c = Equals)
  <2>0. Held(x, MaxAtom) = x
    <3>1. AtomText(a, s) \in Texts
      BY AtomWritten
    <3> QED
      BY <1>3, <3>1, PaddedFits DEF AtomFits
  <2>1. EvalAtom(x, ans) <=> (Lookup(ans, Trim(SubSeq(x, 1, n - 1))) = Unquote(Trim(SubSeq(x, n + 2, Len(x)))))
                               = (equal # {})
    BY <1>13, <1>14, <2>0, Zenon DEF EvalAtom, equal, other
  <2>2. Lookup(ans, Trim(SubSeq(x, 1, n - 1))) = Lookup(ans, key)
        /\ Unquote(Trim(SubSeq(x, n + 2, Len(x)))) = val
    BY <1>6, <1>9, <1>10, <1>12, Zenon
  <2> QED
    BY <1>14, <2>1, <2>2, Zenon
<1>16. c = Equals <=> ~a.negated
  BY <1>2 DEF c
<1> QED
  BY <1>15, <1>16 DEF Holds, AtomOK

\* Comparisons that can be written in a style.
Writable(A, s) == \A a \in A : AtomOK(a, s)
NonEmpty(A) == Seq(A) \ {<< >>}

LEMMA NonEmptyHas ==
  ASSUME NEW A, NEW t \in NonEmpty(A)
  PROVE  /\ Len(t) \in Nat /\ Len(t) # 0 /\ DOMAIN t = 1..Len(t)
         /\ \A n \in 1..Len(t) : t[n] \in A
<1>1. t \in Seq(A) /\ t # << >>
  BY DEF NonEmpty
<1>2. Len(t) # 0
  BY <1>1, EmptySeq
<1> QED
  BY <1>1, <1>2

\* The comparisons of a term as they are written.
AtomTexts(t, s) == [n \in DOMAIN t |-> AtomText(t[n], s)]

LEMMA TermWritten ==
  ASSUME NEW s, StyleOK(s), NEW A, Writable(A, s), NEW t \in NonEmpty(A)
  PROVE  /\ AtomTexts(t, s) \in Seq(Texts) /\ Len(AtomTexts(t, s)) = Len(t)
         /\ \A n \in 1..Len(t) : AtomTexts(t, s)[n] = AtomText(t[n], s)
         /\ Separable(AtomTexts(t, s), Ampersand)
         /\ Free(TermText(t, s), {Bar}) /\ TermText(t, s) # << >>
<1> DEFINE N == Len(t)
           texts == AtomTexts(t, s)
<1>1. N \in Nat /\ N # 0 /\ DOMAIN t = 1..N /\ \A n \in 1..N : AtomOK(t[n], s)
  BY NonEmptyHas DEF Writable
<1>2. \A n \in 1..N : /\ AtomText(t[n], s) \in Texts /\ AtomText(t[n], s) # << >>
                      /\ Free(AtomText(t[n], s), {Bar, Ampersand})
  BY <1>1, AtomWritten
<1>3. texts \in [1..N -> Texts] /\ \A n \in 1..N : texts[n] = AtomText(t[n], s)
  BY <1>1, <1>2 DEF AtomTexts
<1> HIDE DEF texts, N
<1>4. texts \in Seq(Texts) /\ Len(texts) = N
  BY <1>1, <1>3
<1>5. \A n \in 1..N : /\ Free(texts[n], {Ampersand}) /\ Free(texts[n], {Bar})
                      /\ texts[n] # << >>
  <2> TAKE n \in 1..N
  <2>1. Free(texts[n], {Bar, Ampersand}) /\ texts[n] # << >>
    BY <1>2, <1>3, Zenon
  <2>2. {Ampersand} \subseteq {Bar, Ampersand} /\ {Bar} \subseteq {Bar, Ampersand}
    OBVIOUS
  <2> QED
    BY <2>1, <2>2, FreeOfFewer
<1>6. Separable(texts, Ampersand)
  BY <1>4, <1>5, Zenon DEF Separable
<1> DEFINE between == Around(s.gap, Ampersand)
<1>7. Free(between, {Bar})
  <2> DEFINE g == s.gap
             amp == <<Ampersand>>
  <2>1. Free(g, {Bar}) /\ Ampersand \in Chars /\ Ampersand \notin {Bar}
    BY PadsAreBlanks, SignsDiffer, FreeOfFewer DEF Signs
  <2>2. Free(amp, {Bar}) /\ amp \o amp = <<Ampersand, Ampersand>>
    BY <2>1, CharIsFree, CharsJoined
  <2> HIDE DEF g, amp
  <2>3. Free(amp \o amp, {Bar})
    BY <2>2, FreeJoined
  <2> DEFINE aa == amp \o amp
  <2> HIDE DEF aa
  <2>4. Free(aa, {Bar})
    BY <2>3 DEF aa
  <2>5. Free(g \o aa, {Bar})
    BY <2>1, <2>4, FreeJoined
  <2>6. Free((g \o aa) \o g, {Bar})
    BY <2>1, <2>5, FreeJoined
  <2> QED
    BY <2>2, <2>6, Zenon DEF Around, aa, g
<1>8. TermText(t, s) = Join(texts, between)
  BY Zenon DEF TermText, AtomTexts, texts
<1> HIDE DEF between
<1>9. Free(Join(texts, between), {Bar}) /\ Join(texts, between) # << >>
  BY <1>1, <1>4, <1>5, <1>7, JoinStays
<1> QED
  BY <1>3, <1>4, <1>6, <1>8, <1>9, Zenon DEF texts, N

\* A term holds when all its comparisons do.
TermHolds(t, ans) == \A n \in 1..Len(t) : Holds(t[n], ans)
TermEval(x, ans) ==
  /\ Parts(x, Ampersand) # {}
  /\ \A atom \in Parts(x, Ampersand) : EvalAtom(atom, ans)

LEMMA TermIsItsMeaning ==
  ASSUME NEW s, StyleOK(s), NEW A, Writable(A, s), NEW t \in NonEmpty(A), NEW ans,
         \A n \in 1..Len(t) : AtomFits(t[n], s),
         NEW x, Padded(x, TermText(t, s), s.gap)
  PROVE  TermEval(x, ans) <=> TermHolds(t, ans)
<1> DEFINE N == Len(t)
           texts == AtomTexts(t, s)
<1>1. N \in Nat /\ N # 0 /\ \A n \in 1..N : AtomOK(t[n], s)
  BY NonEmptyHas DEF Writable
<1>2. /\ texts \in Seq(Texts) /\ Len(texts) = N
      /\ \A n \in 1..N : texts[n] = AtomText(t[n], s)
      /\ Separable(texts, Ampersand)
  BY TermWritten
<1>3. TermText(t, s) = Join(texts, Around(s.gap, Ampersand))
  BY Zenon DEF TermText, AtomTexts
<1>4. Free(s.gap, {Ampersand}) /\ Ampersand \in Chars
  BY PadsAreBlanks, SignsDiffer, FreeOfFewer DEF Signs
<1> HIDE DEF texts, N
<1>5. AreParts(x, Ampersand, s.gap, texts, N)
  <2>1. PICK u \in Pads(s.gap), v \in Pads(s.gap) : x = (u \o TermText(t, s)) \o v
    BY DEF Padded
  <2> DEFINE g == s.gap
  <2> HIDE DEF g
  <2>2. Free(g, {Ampersand}) /\ u \in Pads(g) /\ v \in Pads(g)
    BY <1>4 DEF g
  <2>3. AreParts((u \o Join(texts, Around(g, Ampersand))) \o v, Ampersand, g, texts, Len(texts))
    BY <1>1, <1>2, <1>4, <2>2, JoinedParts
  <2> QED
    BY <1>2, <1>3, <2>1, <2>3, Zenon DEF g
<1>6. ASSUME NEW k \in 1..N, NEW y, Padded(y, texts[k], s.gap)
      PROVE  EvalAtom(y, ans) <=> Holds(t[k], ans)
  <2>1. AtomOK(t[k], s) /\ AtomFits(t[k], s) /\ Padded(y, AtomText(t[k], s), s.gap)
    BY <1>1, <1>2, <1>6 DEF N
  <2> DEFINE a == t[k]
  <2> HIDE DEF a
  <2>2. AtomOK(a, s) /\ AtomFits(a, s) /\ Padded(y, AtomText(a, s), s.gap)
    BY <2>1 DEF a
  <2>3. EvalAtom(y, ans) <=> Holds(a, ans)
    BY <2>2, AtomIsItsMeaning
  <2> QED
    BY <2>3 DEF a
<1>7. 1 \in 1..N
  BY <1>1
<1>8. Parts(x, Ampersand) # {}
  BY <1>5, <1>7, Zenon DEF AreParts
<1>9. ASSUME TermHolds(t, ans), NEW atom \in Parts(x, Ampersand) PROVE EvalAtom(atom, ans)
  <2>1. PICK k \in 1..N : Padded(atom, texts[k], s.gap)
    BY <1>5, Zenon DEF AreParts
  <2> QED
    BY <1>6, <1>9, <2>1, Zenon DEF TermHolds, N
<1>10. ASSUME \A atom \in Parts(x, Ampersand) : EvalAtom(atom, ans), NEW k \in 1..N
       PROVE  Holds(t[k], ans)
  <2>1. PICK y \in Parts(x, Ampersand) : Padded(y, texts[k], s.gap)
    BY <1>5, Zenon DEF AreParts
  <2> QED
    BY <1>6, <1>10, <2>1, Zenon
<1> QED
  BY <1>8, <1>9, <1>10, Zenon DEF TermEval, TermHolds, N

\* bp_when_eval decides a formula of any number of terms and atoms, written with any
\* number of blanks around its signs and its values in quotes or bare: it is true when
\* all atoms of one of its terms hold.  Keys and values have no sign in them, and the
\* formula and each of its atoms fit into the buffers that they are copied to.
THEOREM FormulaIsItsMeaning ==
  ASSUME NEW s, StyleOK(s), NEW A, Writable(A, s), NEW f \in NonEmpty(NonEmpty(A)), NEW ans,
         Fits(f, s)
  PROVE  WhenEval(FormulaText(f, s), ans) <=> Meaning(f, ans)
<1> DEFINE N == Len(f)
           texts == [n \in DOMAIN f |-> TermText(f[n], s)]
           w == FormulaText(f, s)
<1>1. N \in Nat /\ N # 0 /\ DOMAIN f = 1..N /\ \A n \in 1..N : f[n] \in NonEmpty(A)
  BY NonEmptyHas
<1>2. \A n \in 1..N : Free(TermText(f[n], s), {Bar}) /\ TermText(f[n], s) # << >>
  BY <1>1, TermWritten
<1>3. texts \in [1..N -> Texts] /\ \A n \in 1..N : texts[n] = TermText(f[n], s)
  BY <1>1, <1>2 DEF Free
<1>4. w = Join(texts, Around(s.gap, Bar))
  BY Zenon DEF FormulaText
<1> HIDE DEF texts, w, N
<1>5. texts \in Seq(Texts) /\ Len(texts) = N
  BY <1>1, <1>3
<1>6. Separable(texts, Bar)
  BY <1>2, <1>3, <1>5, Zenon DEF Separable
<1>7. Free(s.gap, {Bar}) /\ Bar \in Chars
  BY PadsAreBlanks, SignsDiffer, FreeOfFewer DEF Signs
<1>8. w \in Texts /\ w # << >>
  <2> DEFINE between == Around(s.gap, Bar)
             bar == <<Bar>>
             g == s.gap
  <2>1. bar \in Texts /\ g \in Texts /\ bar \o bar = <<Bar, Bar>>
    BY <1>7, OneCharText, CharsJoined DEF Free
  <2>2. Free(between, {})
    <3> HIDE DEF g, bar
    <3>1. (g \o (bar \o bar)) \o g \in Texts
      BY <2>1, TextsJoined, ZenonT(60)
    <3>2. between \in Texts
      BY <2>1, <3>1, Zenon DEF Around, g
    <3> QED
      BY <3>2, Zenon DEF Free
  <2> HIDE DEF between
  <2>3. \A n \in 1..Len(texts) : Free(texts[n], {}) /\ texts[n] # << >>
    BY <1>2, <1>3, <1>5, FreeOfFewer
  <2>4. Free(Join(texts, between), {}) /\ Join(texts, between) # << >>
    BY <1>1, <1>5, <2>2, <2>3, JoinStays
  <2> QED
    BY <1>4, <2>4, Zenon DEF between, Free
<1>9. AreParts(w, Bar, s.gap, texts, N)
  <2> DEFINE g == s.gap
             e == << >>
  <2>1. Free(g, {Bar}) /\ e \in Pads(g)
    BY <1>7 DEF Pads
  <2>2. (e \o w) \o e = w
    BY <1>8, EmptyJoined
  <2> HIDE DEF g, e
  <2>3. AreParts((e \o Join(texts, Around(g, Bar))) \o e, Bar, g, texts, Len(texts))
    BY <1>1, <1>5, <1>6, <1>7, <2>1, JoinedParts
  <2> QED
    BY <1>4, <1>5, <2>2, <2>3, Zenon DEF g
<1>10. ASSUME NEW k \in 1..N, NEW y, Padded(y, texts[k], s.gap)
       PROVE  TermEval(y, ans) <=> TermHolds(f[k], ans)
  <2> DEFINE t == f[k]
  <2>1. t \in NonEmpty(A) /\ Padded(y, TermText(t, s), s.gap) /\ t \in Range(f)
    BY <1>1, <1>3, <1>10 DEF Range
  <2> HIDE DEF t
  <2>2. \A n \in 1..Len(t) : AtomFits(t[n], s)
    BY <2>1, NonEmptyHas, Zenon DEF Fits, Range
  <2>3. TermEval(y, ans) <=> TermHolds(t, ans)
    BY <2>1, <2>2, TermIsItsMeaning
  <2> QED
    BY <2>3 DEF t
<1>11. WhenEval(w, ans) <=> \E term \in Parts(w, Bar) : TermEval(term, ans)
  <2>1. Held(w, MaxExpr) = w
    BY DEF Fits, Held, w
  <2> QED
    BY <1>8, <2>1, Zenon DEF WhenEval, TermEval
<1>12. WhenEval(w, ans) <=> \E k \in 1..N : TermHolds(f[k], ans)
  <2>1. ASSUME NEW term \in Parts(w, Bar), TermEval(term, ans)
        PROVE  \E k \in 1..N : TermHolds(f[k], ans)
    <3>1. PICK k \in 1..N : Padded(term, texts[k], s.gap)
      BY <1>9, Zenon DEF AreParts
    <3> QED
      BY <1>10, <2>1, <3>1, Zenon
  <2>2. ASSUME NEW k \in 1..N, TermHolds(f[k], ans)
        PROVE  \E term \in Parts(w, Bar) : TermEval(term, ans)
    <3>1. PICK y \in Parts(w, Bar) : Padded(y, texts[k], s.gap)
      BY <1>9, Zenon DEF AreParts
    <3> QED
      BY <1>10, <2>2, <3>1, Zenon
  <2> QED
    BY <1>11, <2>1, <2>2, Zenon
<1>13. \A k \in 1..N : TermHolds(f[k], ans)
                         <=> \A a \in Range(f[k]) : (Lookup(ans, a.key) = a.val) # a.negated
  <2> TAKE k \in 1..N
  <2> DEFINE t == f[k]
  <2>1. t \in NonEmpty(A)
    BY <1>1
  <2> HIDE DEF t
  <2>2. DOMAIN t = 1..Len(t)
    BY <2>1, NonEmptyHas
  <2>3. TermHolds(t, ans) <=> \A a \in Range(t) : (Lookup(ans, a.key) = a.val) # a.negated
    BY <2>2, Zenon DEF TermHolds, Range, Holds
  <2> QED
    BY <2>3 DEF t
<1>14. Meaning(f, ans) <=> \E k \in 1..N : TermHolds(f[k], ans)
  <2> DEFINE Q(t) == \A a \in Range(t) : (Lookup(ans, a.key) = a.val) # a.negated
  <2>1. Meaning(f, ans) <=> \E t \in Range(f) : Q(t)
    BY Zenon DEF Meaning
  <2>2. \A k \in 1..N : TermHolds(f[k], ans) <=> Q(f[k])
    BY <1>13
  <2> HIDE DEF Q
  <2>3. (\E t \in Range(f) : Q(t)) <=> \E k \in 1..N : Q(f[k])
    BY <1>1, Zenon DEF Range
  <2> QED
    BY <2>1, <2>2, <2>3, Zenon
<1> QED
  BY <1>12, <1>14 DEF w

-----------------------------------------------------------------------------
(* Answers: what comes back from the answers file. *)

\* What norm_basic_str puts out at p of a string that ends at last, and where it
\* goes on.
IsEscape(text, p, last) == p < last /\ text[p] = BS
ReadsAs(text, p, last) ==
  IF IsEscape(text, p, last) THEN <<Escaped(text[p + 1])>> ELSE <<text[p]>>
ReadsOn(text, p, last) == IF IsEscape(text, p, last) THEN p + 2 ELSE p + 1

\* from[p] is what it makes of the string from p on.
Reads(text, first, last, from) ==
  /\ \A p \in first..(last + 1) : from[p] \in Texts
  /\ from[last + 1] = << >>
  /\ \A p \in first..last : from[p] = ReadsAs(text, p, last) \o from[ReadsOn(text, p, last)]

\* An escape stands for a character.
LEMMA EscapedIsChar == \A c \in Chars : Escaped(c) \in Chars
BY Zenon DEF Escaped, Chars, Syntax

LEMMA NormalisedReads ==
  ASSUME NEW text \in Texts, NEW first \in 1..Len(text), NEW last \in (first - 1)..Len(text),
         NEW multiline
  PROVE  \E from : /\ Reads(text, first, last, from)
                   /\ Normalised(text, first, last, multiline)
                        = IF {p \in first..last : text[p] \in Control} # {} /\ ~multiline
                          THEN Missing ELSE from[first]
<1> DEFINE N == last + 1 - first
           Step(f) == [p \in first..(last + 1) |->
                         IF p > last THEN << >>
                         ELSE IF p < last /\ text[p] = BS THEN <<Escaped(text[p + 1])>> \o f[p + 2]
                         ELSE <<text[p]>> \o f[p + 1]]
           from == CHOOSE f : f = Step(f)
           at(i) == i + (first - 1)
           out == [i \in 1..N |-> ReadsAs(text, at(i), last)]
           next == [i \in 1..N |-> ReadsOn(text, at(i), last) - (first - 1)]
<1>1. /\ Len(text) \in Nat /\ first \in Nat /\ last \in Nat /\ N \in Nat
      /\ \A n \in first..last : text[n] \in Chars
  BY TextLength
<1>2. ASSUME NEW p \in first..last
      PROVE  ReadsAs(text, p, last) \in Texts /\ ReadsOn(text, p, last) \in (p + 1)..(last + 1)
  <2>1. CASE IsEscape(text, p, last)
    <3>1. p + 1 \in first..last /\ p + 2 \in (p + 1)..(last + 1)
      BY <1>1, <2>1 DEF IsEscape
    <3>2. Escaped(text[p + 1]) \in Chars
      BY <1>1, <3>1, EscapedIsChar
    <3> QED
      BY <2>1, <3>1, <3>2, OneCharText DEF ReadsAs, ReadsOn
  <2>2. CASE ~IsEscape(text, p, last)
    <3>1. p + 1 \in (p + 1)..(last + 1) /\ text[p] \in Chars
      BY <1>1
    <3> QED
      BY <2>2, <3>1, OneCharText DEF ReadsAs, ReadsOn
  <2> QED
    BY <2>1, <2>2
<1>3. PICK f : Looped(N, out, next, f)
  <2>1. ASSUME NEW i \in 1..N PROVE out[i] \in Texts /\ next[i] \in (i + 1)..(N + 1)
    <3> DEFINE p == at(i)
               q == ReadsOn(text, p, last)
    <3>1. p \in first..last
      BY <1>1
    <3>2. ReadsAs(text, p, last) \in Texts /\ q \in (p + 1)..(last + 1)
      BY <1>2, <3>1
    <3>3. out[i] = ReadsAs(text, p, last) /\ next[i] = q - (first - 1)
      OBVIOUS
    <3> HIDE DEF q
    <3>4. q - (first - 1) \in (i + 1)..(N + 1)
      BY <1>1, <3>2
    <3> QED
      BY <3>2, <3>3, <3>4
  <2>2. Forward(N, out, next)
    BY <2>1 DEF Forward
  <2> HIDE DEF N, out, next
  <2> QED
    BY <1>1, <2>2, LoopEnds, Zenon
<1> DEFINE g == [p \in first..(last + 1) |-> f[p - (first - 1)]]
<1>4. g = Step(g)
  <2>1. ASSUME NEW p \in first..(last + 1) PROVE g[p] = Step(g)[p]
    <3> DEFINE i == p - (first - 1)
    <3>1. g[p] = f[i]
      OBVIOUS
    <3>2. CASE p > last
      <4>1. i = N + 1
        BY <1>1, <3>2
      <4>2. f[N + 1] = << >>
        BY <1>3 DEF Looped
      <4> QED
        BY <3>1, <3>2, <4>1, <4>2
    <3>3. CASE ~(p > last)
      <4>1. i \in 1..N /\ at(i) = p /\ p \in first..last
        BY <1>1, <3>3
      <4> DEFINE q == ReadsOn(text, p, last)
      <4>2. out[i] = ReadsAs(text, p, last) /\ next[i] = q - (first - 1)
        BY <4>1
      <4>3. q \in first..(last + 1)
        BY <1>1, <1>2, <4>1
      <4>4. g[q] = f[q - (first - 1)]
        BY <4>3
      <4>5. f[i] = out[i] \o f[next[i]]
        BY <1>3, <4>1 DEF Looped
      <4>6. g[p] = ReadsAs(text, p, last) \o g[q]
        BY <3>1, <4>2, <4>4, <4>5
      <4>7. Step(g)[p] = IF p < last /\ text[p] = BS THEN <<Escaped(text[p + 1])>> \o g[p + 2]
                         ELSE <<text[p]>> \o g[p + 1]
        BY <3>3
      <4> HIDE DEF g, Step, i
      <4> QED
        BY <4>6, <4>7, Zenon DEF ReadsAs, ReadsOn, IsEscape
    <3> QED
      BY <3>2, <3>3
  <2>2. DOMAIN g = first..(last + 1) /\ DOMAIN Step(g) = first..(last + 1)
    OBVIOUS
  <2> QED
    BY <2>1, <2>2
<1>5. from = Step(from)
  <2> HIDE DEF Step, g
  <2> QED
    BY <1>4
<1> HIDE DEF from
<1>6. from[last + 1] = << >>
  <2>1. last + 1 \in first..(last + 1) /\ last + 1 > last
    BY <1>1
  <2> QED
    BY <1>5, <2>1
<1>7. ASSUME NEW p \in first..last
      PROVE  from[p] = ReadsAs(text, p, last) \o from[ReadsOn(text, p, last)]
  <2>1. p \in first..(last + 1) /\ ~(p > last)
    BY <1>1
  <2>2. from[p] = IF p < last /\ text[p] = BS THEN <<Escaped(text[p + 1])>> \o from[p + 2]
                  ELSE <<text[p]>> \o from[p + 1]
    BY <1>5, <2>1
  <2> HIDE DEF Step
  <2> QED
    BY <2>2, Zenon DEF ReadsAs, ReadsOn, IsEscape
<1> HIDE DEF Step
<1>8. \A p \in first..(last + 1) : from[p] \in Texts
  <2> DEFINE good == {m \in 0..N : \A p \in (last + 1 - m)..(last + 1) : from[p] \in Texts}
  <2>1. 0 \in good
    <3>1. \A p \in (last + 1 - 0)..(last + 1) : p = last + 1
      BY <1>1
    <3> QED
      BY <1>1, <1>6, <3>1, EmptyText
  <2>2. ASSUME NEW m \in 0..(N - 1), m \in good PROVE m + 1 \in good
    <3> DEFINE q == last - m
               r == ReadsOn(text, q, last)
    <3>1. q \in first..last /\ last + 1 - m = q + 1 /\ last + 1 - (m + 1) = q /\ m + 1 \in 0..N
      BY <1>1
    <3>2. \A p \in (q + 1)..(last + 1) : from[p] \in Texts
      BY <2>2, <3>1
    <3> HIDE DEF q
    <3>3. ReadsAs(text, q, last) \in Texts /\ r \in (q + 1)..(last + 1)
      BY <1>2, <3>1
    <3>4. from[q] = ReadsAs(text, q, last) \o from[r]
      BY <1>7, <3>1
    <3>5. from[q] \in Texts
      BY <3>2, <3>3, <3>4, TextsJoined
    <3>6. \A p \in q..(last + 1) : p = q \/ p \in (q + 1)..(last + 1)
      BY <1>1, <3>1
    <3>7. \A p \in q..(last + 1) : from[p] \in Texts
      BY <3>2, <3>5, <3>6
    <3> QED
      BY <3>1, <3>7
  <2> HIDE DEF good
  <2>3. 0..N \subseteq good
    BY <1>1, <2>1, <2>2, CountingUp, ZenonT(40)
  <2>4. N \in good /\ last + 1 - N = first
    BY <1>1, <2>3
  <2> QED
    BY <2>4 DEF good
<1>9. Reads(text, first, last, from)
  BY <1>6, <1>7, <1>8 DEF Reads
<1>10. Normalised(text, first, last, multiline)
         = IF {p \in first..last : text[p] \in Control} # {} /\ ~multiline
           THEN Missing ELSE from[first]
  BY Zenon DEF Normalised, from, Step
<1> QED
  BY <1>9, <1>10

\* The string from p on comes out no longer than it is: shorter, if there is an
\* escape in it, and as it is, if there is none.
ComesOut(text, p, last, out) ==
  /\ Len(out) <= last + 1 - p
  /\ (\E q \in p..(last - 1) : text[q] = BS) => Len(out) < last + 1 - p
  /\ (\A q \in p..last : text[q] # BS) => out = SubSeq(text, p, last)

\* A part of a text begins with its first character.
LEMMA TextBegins ==
  \A s \in Texts : \A m \in 1..Len(s) : \A n \in m..Len(s) :
    <<s[m]>> \o SubSeq(s, m + 1, n) = SubSeq(s, m, n)
BY SubSeqRecursiveFirst DEF Texts

LEMMA NothingComesOut ==
  ASSUME NEW text \in Texts, NEW last \in 0..Len(text)
  PROVE  ComesOut(text, last + 1, last, << >>)
<1>1. last \in Nat /\ Len(text) \in Nat /\ last + 1 \in 1..(Len(text) + 1) /\ last + 1 <= last + 1
      /\ last + 1 - (last + 1) = 0 /\ (last + 1)..(last - 1) = {}
  BY TextLength
<1>2. SubSeq(text, last + 1, last) \in Texts /\ Len(SubSeq(text, last + 1, last)) = 0
  BY <1>1, PartOfText
<1> DEFINE part == SubSeq(text, last + 1, last)
<1>3. part = << >>
  <2> HIDE DEF part
  <2>1. part \in Texts /\ Len(part) = 0
    BY <1>2 DEF part
  <2> QED
    BY <2>1, EmptyText, SameText
<1> QED
  BY <1>1, <1>3, EmptyText DEF ComesOut

LEMMA EscapeComesOut ==
  ASSUME NEW text \in Texts, NEW last \in 1..Len(text), NEW p \in 1..last,
         NEW c, NEW rest, IsEscape(text, p, last), c \in Texts, Len(c) = 1, rest \in Texts,
         ComesOut(text, p + 2, last, rest)
  PROVE  ComesOut(text, p, last, c \o rest)
<1>1. last \in Nat /\ p \in Nat /\ Len(text) \in Nat /\ p < last /\ text[p] = BS /\ p \in p..last
  BY TextLength DEF IsEscape
<1>2. Len(rest) <= last + 1 - (p + 2)
  BY DEF ComesOut
<1>3. Len(c \o rest) = Len(c) + Len(rest)
  BY TextsJoined, Zenon
<1> DEFINE m == Len(rest)
           n == Len(c \o rest)
<1>4. m \in Nat
  BY TextLength
<1> HIDE DEF m, n
<1>5. n = 1 + m /\ m <= last + 1 - (p + 2)
  <2>1. n = Len(c) + m
    BY <1>3 DEF m, n
  <2> QED
    BY <1>2, <2>1 DEF m
<1>6. n < last + 1 - p /\ n <= last + 1 - p
  BY <1>1, <1>4, <1>5
<1>7. ~(\A q \in p..last : text[q] # BS)
  BY <1>1
<1> DEFINE out == c \o rest
<1>8. n = Len(out)
  BY DEF n
<1> HIDE DEF out
<1>9. ComesOut(text, p, last, out)
  BY <1>6, <1>7, <1>8 DEF ComesOut
<1> QED
  BY <1>9 DEF out

LEMMA CharComesOut ==
  ASSUME NEW text \in Texts, NEW last \in 1..Len(text), NEW p \in 1..last,
         NEW rest, ~IsEscape(text, p, last), rest \in Texts,
         ComesOut(text, p + 1, last, rest)
  PROVE  ComesOut(text, p, last, <<text[p]>> \o rest)
<1>1. last \in Nat /\ p \in Nat /\ Len(text) \in Nat /\ text[p] \in Chars
  BY TextLength
<1> DEFINE c == <<text[p]>>
           m == Len(rest)
           n == Len(c \o rest)
<1>2. c \in Texts /\ Len(c) = 1
  BY <1>1, OneCharText
<1> HIDE DEF c
<1>3. Len(c \o rest) = Len(c) + Len(rest)
  BY <1>2, TextsJoined, Zenon
<1>4. m \in Nat
  BY TextLength
<1> HIDE DEF m, n
<1>5. n = 1 + m
  <2>1. n = Len(c) + m
    BY <1>3 DEF m, n
  <2> QED
    BY <1>2, <2>1
<1>6. n <= last + 1 - p
  <2>1. m <= last + 1 - (p + 1)
    BY DEF ComesOut, m
  <2> QED
    BY <1>1, <1>4, <1>5, <2>1
<1>7. ASSUME NEW q \in p..(last - 1), text[q] = BS PROVE n < last + 1 - p
  <2>1. p < last /\ q \in Nat
    BY <1>1
  <2>2. q # p
    BY <1>7, <2>1 DEF IsEscape
  <2>3. q \in (p + 1)..(last - 1)
    BY <1>1, <2>2
  <2>4. m < last + 1 - (p + 1)
    BY <1>7, <2>3 DEF ComesOut, m
  <2> QED
    BY <1>1, <1>4, <1>5, <2>4
<1>8. ASSUME \A q \in p..last : text[q] # BS PROVE c \o rest = SubSeq(text, p, last)
  <2>1. \A q \in (p + 1)..last : q \in p..last
    BY <1>1
  <2>2. rest = SubSeq(text, p + 1, last)
    BY <1>8, <2>1 DEF ComesOut
  <2>3. p \in 1..Len(text) /\ last \in p..Len(text)
    BY <1>1
  <2>4. <<text[p]>> \o SubSeq(text, p + 1, last) = SubSeq(text, p, last)
    BY <2>3, TextBegins
  <2> QED
    BY <2>2, <2>4 DEF c
<1>9. ComesOut(text, p, last, c \o rest)
  BY <1>6, <1>7, <1>8 DEF ComesOut, n
<1> QED
  BY <1>9 DEF c

LEMMA StringComesOut ==
  ASSUME NEW text \in Texts, NEW first \in 1..Len(text), NEW last \in (first - 1)..Len(text),
         NEW from, Reads(text, first, last, from)
  PROVE  from[first] \in Texts /\ ComesOut(text, first, last, from[first])
<1> DEFINE N == last + 1 - first
           good == {m \in 0..N : \A p \in (last + 1 - m)..(last + 1) : ComesOut(text, p, last, from[p])}
<1>1. /\ Len(text) \in Nat /\ first \in Nat /\ last \in Nat /\ N \in Nat /\ last \in 0..Len(text)
      /\ \A n \in first..last : text[n] \in Chars
  BY TextLength
<1>2. 0 \in good
  <2>1. \A p \in (last + 1 - 0)..(last + 1) : p = last + 1
    BY <1>1
  <2>2. from[last + 1] = << >>
    BY DEF Reads
  <2>3. ComesOut(text, last + 1, last, from[last + 1])
    BY <1>1, <2>2, NothingComesOut
  <2> QED
    BY <1>1, <2>1, <2>3
<1>3. ASSUME NEW m \in 0..(N - 1), m \in good PROVE m + 1 \in good
  <2> DEFINE p == last - m
             r == ReadsOn(text, p, last)
  <2>1. /\ p \in first..last /\ last + 1 - m = p + 1 /\ last + 1 - (m + 1) = p /\ m + 1 \in 0..N
        /\ last \in 1..Len(text) /\ p \in 1..last
    BY <1>1
  <2>2. \A q \in (p + 1)..(last + 1) : ComesOut(text, q, last, from[q])
    BY <1>3, <2>1
  <2> HIDE DEF p, good, N
  <2>3. from[p] = ReadsAs(text, p, last) \o from[r]
    BY <2>1 DEF Reads
  <2>4. ASSUME IsEscape(text, p, last) PROVE ComesOut(text, p, last, from[p])
    <3>1. /\ p + 1 \in first..last /\ p + 2 \in (p + 1)..(last + 1) /\ p + 2 \in first..(last + 1)
      BY <1>1, <2>1, <2>4 DEF IsEscape
    <3> DEFINE c == <<Escaped(text[p + 1])>>
               rest == from[p + 2]
    <3>2. Escaped(text[p + 1]) \in Chars
      BY <1>1, <3>1, EscapedIsChar
    <3>3. c \in Texts /\ Len(c) = 1
      BY <3>2, OneCharText
    <3>4. ReadsAs(text, p, last) = c /\ r = p + 2
      BY <2>4 DEF ReadsAs, ReadsOn
    <3>5. rest \in Texts /\ ComesOut(text, p + 2, last, rest)
      BY <2>2, <3>1 DEF Reads
    <3>6. from[p] = c \o rest
      BY <2>3, <3>4
    <3> HIDE DEF c, rest
    <3> QED
      BY <2>1, <2>4, <3>3, <3>5, <3>6, EscapeComesOut
  <2>5. ASSUME ~IsEscape(text, p, last) PROVE ComesOut(text, p, last, from[p])
    <3>1. p + 1 \in (p + 1)..(last + 1) /\ p + 1 \in first..(last + 1)
      BY <1>1, <2>1
    <3> DEFINE rest == from[p + 1]
    <3>2. ReadsAs(text, p, last) = <<text[p]>> /\ r = p + 1
      BY <2>5 DEF ReadsAs, ReadsOn
    <3>3. rest \in Texts /\ ComesOut(text, p + 1, last, rest)
      BY <2>2, <3>1 DEF Reads
    <3>4. from[p] = <<text[p]>> \o rest
      BY <2>3, <3>2
    <3> HIDE DEF rest
    <3> QED
      BY <2>1, <2>5, <3>3, <3>4, CharComesOut
  <2>6. ComesOut(text, p, last, from[p])
    BY <2>4, <2>5
  <2>7. \A q \in p..(last + 1) : q = p \/ q \in (p + 1)..(last + 1)
    BY <1>1, <2>1
  <2>8. \A q \in p..(last + 1) : ComesOut(text, q, last, from[q])
    BY <2>2, <2>6, <2>7
  <2> QED
    BY <2>1, <2>8 DEF good
<1> HIDE DEF good
<1>4. 0..N \subseteq good
  BY <1>1, <1>2, <1>3, CountingUp, ZenonT(40)
<1>5. N \in good /\ last + 1 - N = first /\ first \in first..(last + 1)
  BY <1>1, <1>4
<1> QED
  BY <1>5 DEF good, Reads

\* The characters of the syntax are not each other.
LEMMA SyntaxDiffers ==
  /\ DQ # BS /\ DQ # NL /\ DQ # Apostrophe /\ NL # Apostrophe /\ NL # BS
  /\ DQ \in Chars /\ NL \in Chars
<1>1. DQ # BS /\ DQ # NL /\ DQ # Apostrophe /\ NL # Apostrophe /\ NL # BS
  BY Zenon DEF DQ, BS, NL, Apostrophe
<1>2. DQ \in Chars /\ NL \in Chars
  BY Zenon DEF Chars, Syntax
<1> QED
  BY <1>1, <1>2

\* The text of an answer in the file: its value between quotes, a line end, and
\* more.
IsWritten(text, value) ==
  /\ text \in Texts
  /\ Len(text) = Len(value) + 4
  /\ text[1] = DQ
  /\ \A n \in 2..(Len(value) + 1) : text[n] = value[n - 1]
  /\ text[Len(value) + 2] = DQ
  /\ text[Len(value) + 3] = NL
  /\ text[Len(value) + 4] # DQ

LEMMA WrittenIs == \A value \in Texts : IsWritten(Written(value), value)
<1> TAKE value \in Texts
<1> DEFINE more == "x"
           open == <<DQ>>
           close == <<DQ, NL, more>>
           opened == open \o value
           text == opened \o close
           L == Len(value)
<1>1. more \in Chars /\ more # DQ
  BY Zenon DEF Chars, Letters, DQ
<1> HIDE DEF more
<1>2. /\ close \in Texts /\ Len(close) = 3
      /\ close[1] = DQ /\ close[2] = NL /\ close[3] = more
      /\ open \in Texts /\ Len(open) = 1 /\ open[1] = DQ
  BY <1>1, SyntaxDiffers DEF Texts
<1>3. Written(value) = text
  BY Zenon DEF Written, more
<1>4. L \in Nat
  BY TextLength
<1> HIDE DEF open, close, L
<1>5. /\ opened \in Texts
      /\ Len(opened) = Len(open) + Len(value)
      /\ \A n \in 1..Len(open) : opened[n] = open[n]
      /\ \A n \in 1..Len(value) : opened[Len(open) + n] = value[n]
  BY <1>2, TextsJoined, Zenon
<1>6. /\ Len(opened) = L + 1 /\ opened[1] = DQ
      /\ \A n \in 1..L : opened[1 + n] = value[n]
  <2>1. 1 \in 1..Len(open)
    BY <1>2
  <2> HIDE DEF opened
  <2> QED
    BY <1>2, <1>4, <1>5, <2>1 DEF L
<1> HIDE DEF opened
<1>7. /\ text \in Texts
      /\ Len(text) = Len(opened) + Len(close)
      /\ \A n \in 1..Len(opened) : text[n] = opened[n]
      /\ \A n \in 1..Len(close) : text[Len(opened) + n] = close[n]
  BY <1>2, <1>5, TextsJoined, Zenon
<1> HIDE DEF text
<1>8. /\ Len(text) = L + 4
      /\ \A n \in 1..(L + 1) : text[n] = opened[n]
      /\ \A n \in 1..3 : text[(L + 1) + n] = close[n]
  BY <1>2, <1>4, <1>6, <1>7
<1>9. text[1] = DQ
  BY <1>4, <1>6, <1>8
<1>10. ASSUME NEW n \in 2..(L + 1) PROVE text[n] = value[n - 1]
  <2>1. n \in 1..(L + 1) /\ n - 1 \in 1..L /\ 1 + (n - 1) = n
    BY <1>4
  <2>2. opened[1 + (n - 1)] = value[n - 1]
    BY <1>6, <2>1
  <2> QED
    BY <1>8, <2>1, <2>2
<1>11. text[L + 2] = DQ /\ text[L + 3] = NL /\ text[L + 4] # DQ
  <2>1. (L + 1) + 1 = L + 2 /\ (L + 1) + 2 = L + 3 /\ (L + 1) + 3 = L + 4
    BY <1>4
  <2>2. text[(L + 1) + 1] = close[1] /\ text[(L + 1) + 2] = close[2] /\ text[(L + 1) + 3] = close[3]
    BY <1>8
  <2> QED
    BY <1>1, <1>2, <2>1, <2>2
<1> QED
  BY <1>3, <1>7, <1>8, <1>9, <1>10, <1>11 DEF IsWritten, L

\* A character is not escaped without a backslash before it.
LEMMA NotEscaped ==
  ASSUME NEW text, NEW first \in Nat, NEW p \in Nat, first <= p,
         first = p \/ text[p - 1] # BS
  PROVE  ~IsEscaped(text, first, p)
<1> DEFINE plain == {n \in first..(p - 1) : text[n] # BS}
           last == IF plain = {} THEN first - 1 ELSE Max(plain)
<1>1. last = p - 1
  <2>1. CASE first = p
    <3>1. plain = {}
      BY <2>1
    <3> QED
      BY <2>1, <3>1
  <2>2. CASE first # p
    <3>1. p - 1 \in plain /\ \A y \in plain : p - 1 >= y
      BY <2>2
    <3>2. \A x \in plain : (\A y \in plain : x >= y) => x = p - 1
      BY <3>1
    <3> HIDE DEF plain
    <3>3. Max(plain) = p - 1
      BY <3>1, <3>2 DEF Max
    <3> QED
      BY <3>1, <3>3
  <2> QED
    BY <2>1, <2>2
<1> HIDE DEF last
<1>2. (p - 1 - last) % 2 = 0
  BY <1>1
<1> QED
  BY <1>2 DEF IsEscaped, last

\* It is, if there is one backslash before it.
LEMMA EscapedByOne ==
  ASSUME NEW text, NEW first \in Nat, NEW p \in Nat, first < p,
         text[p - 1] = BS, first = p - 1 \/ text[p - 2] # BS
  PROVE  IsEscaped(text, first, p)
<1> DEFINE plain == {n \in first..(p - 1) : text[n] # BS}
           last == IF plain = {} THEN first - 1 ELSE Max(plain)
<1>0. \A n \in plain : n \in first..(p - 2)
  BY SMT
<1>1. last = p - 2
  <2>1. CASE first = p - 1
    <3>1. plain = {}
      BY <1>0, <2>1
    <3> QED
      BY <2>1, <3>1
  <2>2. CASE first # p - 1
    <3>1. p - 2 \in plain /\ \A y \in plain : p - 2 >= y
      BY <1>0, <2>2
    <3>2. \A x \in plain : (\A y \in plain : x >= y) => x = p - 2
      BY <1>0, <3>1
    <3> HIDE DEF plain
    <3>3. Max(plain) = p - 2
      BY <3>1, <3>2 DEF Max
    <3> QED
      BY <3>1, <3>3
  <2> QED
    BY <2>1, <2>2
<1> HIDE DEF last
<1>2. (p - 1 - last) % 2 = 1
  BY <1>1
<1> QED
  BY <1>2 DEF IsEscaped, last

\* What toml_rtos makes of a string: an error of a control character in it, or no
\* more than its characters.
Becomes(text, first, last, multiline, out) ==
  /\ ComesOut(text, first, last, out)
  /\ Normalised(text, first, last, multiline)
       = IF {p \in first..last : text[p] \in Control} # {} /\ ~multiline
         THEN Missing ELSE out

LEMMA NormalisedIs ==
  ASSUME NEW text \in Texts, NEW first \in 1..Len(text), NEW last \in (first - 1)..Len(text),
         NEW multiline
  PROVE  \E out \in Texts : Becomes(text, first, last, multiline, out)
<1>1. PICK from : /\ Reads(text, first, last, from)
                  /\ Normalised(text, first, last, multiline)
                       = IF {p \in first..last : text[p] \in Control} # {} /\ ~multiline
                         THEN Missing ELSE from[first]
  BY NormalisedReads, ZenonT(60)
<1>2. from[first] \in Texts /\ ComesOut(text, first, last, from[first])
  BY <1>1, StringComesOut
<1>3. Becomes(text, first, last, multiline, from[first])
  BY <1>1, <1>2, Zenon DEF Becomes
<1> QED
  BY <1>2, <1>3

\* A value that begins with two quotes comes back shorter: scan_string takes its
\* quotes for those of a multi-line string.
LEMMA TripleIsShorter ==
  ASSUME NEW value \in Texts, NEW text, IsWritten(text, value),
         Run(text, 1, DQ), CloseTriple(text) # 0
  PROVE  Normalised(text, 4, CloseTriple(text) - 1, TRUE) # value
<1> DEFINE L == Len(value)
           ends == {p \in 4..Len(text) : Run(text, p, DQ) /\ text[p - 1] # BS}
           low == Min(ends)
           IsEnd(p) == /\ \A k \in low..(p + 2) : text[k] = DQ
                       /\ p + 3 > Len(text) \/ text[p + 3] # DQ
           end == CHOOSE p \in low..Len(text) : IsEnd(p)
<1>1. text \in Texts /\ Len(text) = L + 4 /\ text[L + 3] = NL /\ text[L + 4] # DQ /\ L \in Nat
  BY TextLength DEF IsWritten
<1>2. ends # {} /\ CloseTriple(text) = end
  BY Zenon DEF CloseTriple
<1> HIDE DEF L
<1>3. ends \subseteq Nat /\ low \in ends
  <2>1. ends \subseteq Nat
    BY <1>1
  <2> HIDE DEF ends
  <2>2. PICK l \in ends : \A k \in ends : l <= k
    BY <1>2, <2>1, LeastNumber
  <2>3. \A x \in ends : (\A y \in ends : x <= y) => x = l
    BY <2>1, <2>2
  <2>4. Min(ends) = l
    BY <2>2, <2>3 DEF Min
  <2> QED
    BY <2>1, <2>4
<1>4. low \in 4..(L + 2) /\ \A k \in 0..2 : text[low + k] = DQ
  <2> HIDE DEF low
  <2>1. low \in 4..Len(text) /\ Run(text, low, DQ)
    BY <1>3
  <2>2. \A k \in 0..2 : low + k <= Len(text) /\ text[low + k] = DQ
    BY <2>1, Zenon DEF Run
  <2>3. low + 2 <= Len(text)
    BY <2>2
  <2> QED
    BY <1>1, <2>1, <2>2, <2>3
<1> HIDE DEF ends, low
<1> DEFINE others == {n \in low..(L + 4) : text[n] # DQ}
<1>5. others # {} /\ others \subseteq Nat /\ L + 3 \in others
  BY <1>1, <1>4, SyntaxDiffers
<1>6. PICK n \in others : \A k \in others : n <= k
  <2> HIDE DEF others
  <2> QED
    BY <1>5, LeastNumber
<1>7. n >= low + 3 /\ n \in Nat /\ n <= L + 3
  <2>1. n \in low..(L + 4) /\ text[n] # DQ /\ n <= L + 3
    BY <1>5, <1>6
  <2>2. n # low + 0 /\ n # low + 1 /\ n # low + 2
    BY <1>4, <2>1
  <2> QED
    BY <1>1, <1>4, <2>1, <2>2
<1>8. \A k \in low..(n - 1) : text[k] = DQ
  <2> SUFFICES ASSUME NEW k \in low..(n - 1), text[k] # DQ PROVE FALSE
    OBVIOUS
  <2>1. k \in others /\ k < n
    BY <1>1, <1>4, <1>7
  <2> QED
    BY <1>4, <1>6, <1>7, <2>1
<1>9. n - 3 \in low..Len(text) /\ IsEnd(n - 3)
  <2>1. n - 3 \in low..Len(text) /\ (n - 3) + 2 = n - 1 /\ (n - 3) + 3 = n
    BY <1>1, <1>4, <1>7
  <2>2. text[n] # DQ
    BY <1>6
  <2> QED
    BY <1>8, <2>1, <2>2
<1>10. end \in low..Len(text) /\ IsEnd(end)
  <2> HIDE DEF IsEnd
  <2> QED
    BY <1>9
<1> HIDE DEF end
<1>11. end \in 4..L
  <2>1. end \in Nat /\ low \in Nat /\ low <= end
    BY <1>1, <1>4, <1>10
  <2>2. ~(L + 3 \in low..(end + 2))
    BY <1>1, <1>10, SyntaxDiffers
  <2> QED
    BY <1>1, <1>4, <2>1, <2>2
<1>12. 4 \in 1..Len(text) /\ end - 1 \in (4 - 1)..Len(text)
  BY <1>1, <1>11
<1>13. PICK out \in Texts : Becomes(text, 4, end - 1, TRUE, out)
  BY <1>1, <1>12, NormalisedIs
<1>14. Normalised(text, 4, end - 1, TRUE) = out
  BY <1>13, Zenon DEF Becomes
<1>15. Len(out) <= (end - 1) + 1 - 4
  BY <1>13 DEF ComesOut, Becomes
<1>16. Len(out) # L
  <2>1. Len(out) \in Nat
    BY TextLength
  <2> QED
    BY <1>1, <1>11, <1>15, <2>1
<1> QED
  BY <1>2, <1>14, <1>16, Zenon DEF L

-----------------------------------------------------------------------------
\* The closing quote that scan_string finds of an answer in one quote.
LEMMA CloseBasicIs ==
  ASSUME NEW text \in Texts, CloseBasic(text) # 0
  PROVE  /\ CloseBasic(text) \in 2..Len(text)
         /\ text[CloseBasic(text)] = DQ
         /\ ~IsEscaped(text, 2, CloseBasic(text))
         /\ \A p \in 2..(CloseBasic(text) - 1) :
              ~IsEscaped(text, 2, p) => text[p] # DQ /\ ~Run(text, p, Apostrophe)
<1> DEFINE stops == {p \in 2..Len(text) : text[p] \in {DQ, NL} /\ ~IsEscaped(text, 2, p)}
           stop == Min(stops)
<1>0. Len(text) \in Nat
  BY TextLength
<1>1. /\ stops # {} /\ text[stop] = DQ /\ CloseBasic(text) = stop
      /\ \A p \in 2..(stop - 1) : ~(~IsEscaped(text, 2, p) /\ Run(text, p, Apostrophe))
  BY Zenon DEF CloseBasic
<1>2. stops \subseteq Nat
  BY <1>0
<1>3. stop \in stops /\ \A p \in stops : stop <= p
  <2> HIDE DEF stops
  <2>2. PICK l \in stops : \A k \in stops : l <= k
    BY <1>1, <1>2, LeastNumber
  <2>3. \A x \in stops : (\A y \in stops : x <= y) => x = l
    BY <1>2, <2>2
  <2>4. Min(stops) = l
    BY <2>2, <2>3 DEF Min
  <2> QED
    BY <2>2, <2>4
<1> HIDE DEF stop
<1>4. stop \in 2..Len(text) /\ ~IsEscaped(text, 2, stop)
  BY <1>3
<1>5. ASSUME NEW p \in 2..(stop - 1), ~IsEscaped(text, 2, p), text[p] = DQ PROVE FALSE
  <2>1. p \in stops /\ p < stop
    BY <1>0, <1>4, <1>5
  <2> QED
    BY <1>3, <1>4, <2>1
<1> QED
  BY <1>1, <1>4, <1>5

\* A value of those characters only, the file can carry.
LEMMA PlainIf ==
  ASSUME NEW value \in Texts,
         \A n \in 1..Len(value) : value[n] # DQ /\ value[n] # BS /\ value[n] \notin Control,
         \A n \in 1..Len(value) : ~Run(value, n, Apostrophe)
  PROVE  Plain(value)
<1>1. DOMAIN value = 1..Len(value)
  BY DEF Texts
<1> QED
  BY <1>1 DEF Plain

\* An answer in one quote that comes back is one the file can carry.
LEMMA BasicIsPlain ==
  ASSUME NEW value \in Texts, NEW text, IsWritten(text, value),
         CloseBasic(text) # 0, value # Missing,
         Normalised(text, 2, CloseBasic(text) - 1, FALSE) = value
  PROVE  Plain(value)
<1> DEFINE L == Len(value)
           stop == CloseBasic(text)
<1>1. /\ text \in Texts /\ Len(text) = L + 4 /\ text[L + 3] = NL /\ text[L + 4] # DQ /\ L \in Nat
      /\ \A n \in 2..(L + 1) : text[n] = value[n - 1]
  BY TextLength DEF IsWritten
<1>2. /\ stop \in 2..Len(text) /\ text[stop] = DQ /\ ~IsEscaped(text, 2, stop)
      /\ \A p \in 2..(stop - 1) : ~IsEscaped(text, 2, p) => text[p] # DQ /\ ~Run(text, p, Apostrophe)
  BY <1>1, CloseBasicIs
<1> HIDE DEF L, stop
<1>3. 2 \in 1..Len(text) /\ stop - 1 \in (2 - 1)..Len(text)
  BY <1>1, <1>2
<1>4. PICK out \in Texts : Becomes(text, 2, stop - 1, FALSE, out)
  BY <1>1, <1>3, NormalisedIs
<1>5. {p \in 2..(stop - 1) : text[p] \in Control} = {} /\ value = out
  <2> DEFINE bad == {p \in 2..(stop - 1) : text[p] \in Control}
             got == Normalised(text, 2, stop - 1, FALSE)
  <2>1. got = value
    BY Zenon DEF stop
  <2>2. got = IF bad # {} /\ ~FALSE THEN Missing ELSE out
    BY <1>4, Zenon DEF Becomes
  <2> HIDE DEF bad, got
  <2>3. bad = {} /\ value = out
    BY <2>1, <2>2
  <2> QED
    BY <2>3 DEF bad
<1>6. stop = L + 2
  <2>1. L <= (stop - 1) + 1 - 2
    BY <1>4, <1>5 DEF Becomes, ComesOut, L
  <2>2. stop # L + 3 /\ stop # L + 4
    BY <1>1, <1>2, SyntaxDiffers
  <2> QED
    BY <1>1, <1>2, <2>1, <2>2
<1>7. \A q \in 2..L : text[q] # BS
  <2>1. ASSUME NEW q \in 2..L, text[q] = BS PROVE FALSE
    <3>1. q \in 2..((stop - 1) - 1) /\ (stop - 1) + 1 - 2 = L
      BY <1>1, <1>6
    <3>2. Len(out) < (stop - 1) + 1 - 2
      BY <1>4, <2>1, <3>1 DEF Becomes, ComesOut
    <3>3. Len(out) = L
      BY <1>5 DEF L
    <3> QED
      BY <1>1, <3>1, <3>2, <3>3
  <2> QED
    BY <2>1
<1>8. L >= 1 => text[L + 1] # BS
  <2> SUFFICES ASSUME L >= 1, text[L + 1] = BS PROVE FALSE
    OBVIOUS
  <2>1. /\ stop \in Nat /\ 2 < stop /\ stop - 1 = L + 1 /\ stop - 2 = L
        /\ 2 = stop - 1 \/ L \in 2..L
    BY <1>1, <1>6
  <2>2. text[stop - 1] = BS /\ (2 = stop - 1 \/ text[stop - 2] # BS)
    BY <1>7, <2>1
  <2>3. IsEscaped(text, 2, stop)
    BY <2>1, <2>2, EscapedByOne
  <2> QED
    BY <1>2, <2>3
<1>9. \A p \in 2..(L + 1) : text[p] # BS
  <2>1. \A p \in 2..(L + 1) : p \in 2..L \/ (L >= 1 /\ p = L + 1)
    BY <1>1
  <2> QED
    BY <1>7, <1>8, <2>1
<1>10. ASSUME NEW n \in 1..L
       PROVE  /\ value[n] # DQ /\ value[n] # BS /\ value[n] \notin Control
              /\ ~Run(value, n, Apostrophe)
  <2> DEFINE p == n + 1
  <2>1. p \in 2..(L + 1) /\ p \in 2..(stop - 1) /\ p - 1 = n /\ p \in Nat /\ 2 <= p
        /\ (2 = p \/ p - 1 \in 2..(L + 1))
    BY <1>1, <1>6
  <2>2. text[p] = value[n]
    BY <1>1, <2>1
  <2> HIDE DEF p
  <2>3. ~IsEscaped(text, 2, p)
    BY <1>9, <2>1, NotEscaped
  <2>4. text[p] # DQ /\ text[p] # BS /\ text[p] \notin Control /\ ~Run(text, p, Apostrophe)
    BY <1>2, <1>5, <1>9, <2>1, <2>3
  <2>5. ASSUME Run(value, n, Apostrophe) PROVE FALSE
    <3>1. ASSUME NEW k \in 0..2 PROVE p + k <= Len(text) /\ text[p + k] = Apostrophe
      <4>1. n + k <= L /\ value[n + k] = Apostrophe
        BY <2>5, Zenon DEF Run, L
      <4>2. p + k \in 2..(L + 1) /\ (p + k) - 1 = n + k /\ p + k <= L + 4
        BY <1>1, <4>1 DEF p
      <4>3. text[p + k] = value[n + k]
        BY <1>1, <4>2
      <4> QED
        BY <1>1, <4>1, <4>2, <4>3
    <3> QED
      BY <2>4, <3>1, Zenon DEF Run
  <2> QED
    BY <2>2, <2>4, <2>5
<1> QED
  BY <1>10, PlainIf DEF L

\* An answer the file can carry is written in one quote.
LEMMA PlainIsBasic ==
  ASSUME NEW value \in Texts, NEW text, IsWritten(text, value), Plain(value)
  PROVE  ~Run(text, 1, DQ)
<1> SUFFICES ASSUME Run(text, 1, DQ) PROVE FALSE
  OBVIOUS
<1> DEFINE L == Len(value)
<1>1. /\ Len(text) = L + 4 /\ text[L + 3] = NL /\ L \in Nat
      /\ \A n \in 2..(L + 1) : text[n] = value[n - 1]
  BY TextLength DEF IsWritten
<1>2. \A k \in 0..2 : 1 + k <= Len(text) /\ text[1 + k] = DQ
  BY Zenon DEF Run
<1>3. text[2] = DQ /\ text[3] = DQ
  <2>1. 1 + 1 = 2 /\ 1 + 2 = 3 /\ 1 \in 0..2 /\ 2 \in 0..2
    OBVIOUS
  <2> QED
    BY <1>2, <2>1
<1>4. \A n \in 1..L : value[n] # DQ
  <2>1. DOMAIN value = 1..L
    BY DEF Texts
  <2> QED
    BY <2>1 DEF Plain
<1> HIDE DEF L
<1>5. CASE L = 0
  BY <1>1, <1>3, <1>5, SyntaxDiffers
<1>6. CASE L # 0
  <2>1. 1 \in 1..L /\ 2 \in 2..(L + 1) /\ 2 - 1 = 1
    BY <1>1, <1>6
  <2>2. text[2] = value[1]
    BY <1>1, <2>1
  <2> QED
    BY <1>3, <1>4, <2>1, <2>2
<1> QED
  BY <1>5, <1>6

\* Its closing quote is the one that was written.
LEMMA PlainCloses ==
  ASSUME NEW value \in Texts, NEW text, IsWritten(text, value), Plain(value),
         \A n \in 1..Len(value) : value[n] # NL
  PROVE  CloseBasic(text) = Len(value) + 2
<1> DEFINE L == Len(value)
           stops == {p \in 2..Len(text) : text[p] \in {DQ, NL} /\ ~IsEscaped(text, 2, p)}
           stop == Min(stops)
<1>1. /\ text \in Texts /\ Len(text) = L + 4 /\ L \in Nat
      /\ text[L + 2] = DQ /\ text[L + 3] = NL /\ text[L + 4] # DQ
      /\ \A n \in 2..(L + 1) : text[n] = value[n - 1]
  BY TextLength DEF IsWritten
<1>2. \A n \in 1..L : /\ value[n] # DQ /\ value[n] # BS /\ value[n] # NL
                      /\ ~Run(value, n, Apostrophe)
  <2>1. DOMAIN value = 1..L
    BY DEF Texts
  <2> QED
    BY <2>1 DEF Plain
<1> HIDE DEF L
<1>3. ASSUME NEW p \in 2..(L + 1)
      PROVE  text[p] # DQ /\ text[p] # BS /\ text[p] # NL
  <2>1. p - 1 \in 1..L /\ text[p] = value[p - 1]
    BY <1>1
  <2> QED
    BY <1>2, <2>1
<1>4. ASSUME NEW p \in 2..(L + 2) PROVE ~IsEscaped(text, 2, p)
  <2>1. p \in Nat /\ 2 <= p /\ (2 = p \/ p - 1 \in 2..(L + 1))
    BY <1>1
  <2>2. 2 = p \/ text[p - 1] # BS
    BY <1>3, <2>1
  <2> QED
    BY <2>1, <2>2, NotEscaped
<1>5. stops \subseteq 2..Len(text) /\ L + 2 \in stops /\ \A p \in stops : p >= L + 2
  <2>1. L + 2 \in 2..Len(text) /\ L + 2 \in 2..(L + 2)
    BY <1>1
  <2>2. ASSUME NEW p \in stops, ~(p >= L + 2) PROVE FALSE
    <3>1. p \in 2..(L + 1) /\ text[p] \in {DQ, NL}
      BY <1>1, <2>2
    <3> QED
      BY <1>3, <3>1
  <2> QED
    BY <1>1, <1>4, <2>1, <2>2
<1>6. stop = L + 2
  <2>1. \A x \in stops : (\A y \in stops : x <= y) => x = L + 2
    BY <1>1, <1>5
  <2>2. \A y \in stops : L + 2 <= y
    BY <1>1, <1>5
  <2> HIDE DEF stops
  <2> QED
    BY <1>5, <2>1, <2>2 DEF Min
<1>7. ~BadEscape(text, 2, stop - 1)
  <2>1. stop - 1 = L + 1 /\ \A p \in 2..(L + 1) : p \in 2..(L + 2)
    BY <1>1, <1>6
  <2>2. \A p \in 2..(L + 1) : ~IsEscaped(text, 2, p)
    BY <1>4, <2>1
  <2> HIDE DEF stop
  <2> QED
    BY <2>1, <2>2, Zenon DEF BadEscape
<1>8. \A p \in 2..(stop - 1) : ~Run(text, p, Apostrophe)
  <2> SUFFICES ASSUME NEW p \in 2..(stop - 1), Run(text, p, Apostrophe) PROVE FALSE
    OBVIOUS
  <2> HIDE DEF stop
  <2>1. p \in 2..(L + 1) /\ p \in Int
    BY <1>1, <1>6
  <2>2. \A k \in 0..2 : p + k <= Len(text) /\ text[p + k] = Apostrophe
    BY <2>1, Zenon DEF Run
  <2>3. p + 2 <= L + 1
    <3>1. p + 1 # L + 2 /\ p + 2 # L + 2 /\ p + 2 # L + 3
      BY <1>1, <2>1, <2>2, SyntaxDiffers
    <3> QED
      BY <1>1, <2>1, <3>1
  <2> DEFINE n == p - 1
  <2>4. n \in 1..L
    BY <1>1, <2>1
  <2>5. ASSUME NEW k \in 0..2 PROVE n + k <= Len(value) /\ value[n + k] = Apostrophe
    <3>1. p + k \in 2..(L + 1) /\ (p + k) - 1 = n + k /\ n + k <= L
      BY <1>1, <2>1, <2>3
    <3>2. text[p + k] = value[n + k]
      BY <1>1, <3>1
    <3>3. text[p + k] = Apostrophe
      BY <2>2
    <3> QED
      BY <3>1, <3>2, <3>3 DEF L
  <2> HIDE DEF n
  <2>6. Run(value, n, Apostrophe)
    BY <2>5, Zenon DEF Run
  <2> QED
    BY <1>2, <2>4, <2>6
<1>9. stops # {} /\ text[stop] = DQ
  <2> HIDE DEF stops, stop
  <2> QED
    BY <1>1, <1>5, <1>6
<1>10. CloseBasic(text) = stop
  BY <1>7, <1>8, <1>9, Zenon DEF CloseBasic
<1> QED
  BY <1>6, <1>10 DEF L

\* What is read back of an answer that begins with two quotes, and of another.
LEMMA ReadBackIs ==
  ASSUME NEW value, NEW text, text = Written(value)
  PROVE  /\ Run(text, 1, DQ) =>
              ReadBack(value) = IF CloseTriple(text) = 0 \/ ~LineEnds(text, CloseTriple(text) + 3)
                                THEN Unreadable
                                ELSE Normalised(text, 4, CloseTriple(text) - 1, TRUE)
         /\ ~Run(text, 1, DQ) =>
              ReadBack(value) = IF CloseBasic(text) = 0 \/ ~LineEnds(text, CloseBasic(text) + 1)
                                THEN Unreadable
                                ELSE Normalised(text, 2, CloseBasic(text) - 1, FALSE)
BY Zenon DEF ReadBack

\* An answer the file can carry comes back.
LEMMA PlainComesBack ==
  ASSUME NEW value \in Texts, \A n \in 1..Len(value) : value[n] # NL, Plain(value)
  PROVE  ReadBack(value) = value
<1> DEFINE L == Len(value)
           text == Written(value)
           close == CloseBasic(text)
           bad == {p \in 2..(close - 1) : text[p] \in Control}
<1>1. IsWritten(text, value)
  BY WrittenIs
<1>2. ~Run(text, 1, DQ)
  BY <1>1, PlainIsBasic
<1>3. close = L + 2
  BY <1>1, PlainCloses
<1>4. ReadBack(value) = IF close = 0 \/ ~LineEnds(text, close + 1) THEN Unreadable
                        ELSE Normalised(text, 2, close - 1, FALSE)
  BY <1>2, ReadBackIs
<1> HIDE DEF text, close
<1>5. /\ text \in Texts /\ Len(text) = L + 4 /\ L \in Nat /\ text[L + 3] = NL
      /\ \A n \in 2..(L + 1) : text[n] = value[n - 1]
  BY <1>1, TextLength DEF IsWritten
<1>6. \A n \in 1..L : value[n] # BS /\ value[n] \notin Control
  <2>1. DOMAIN value = 1..L
    BY DEF Texts
  <2> QED
    BY <2>1 DEF Plain
<1>7. close # 0 /\ LineEnds(text, close + 1)
  <2>1. close # 0 /\ close + 1 = L + 3
    BY <1>3, <1>5
  <2>2. L + 3 \in (L + 3)..Len(text) /\ (L + 3)..((L + 3) - 1) = {}
    BY <1>5
  <2> QED
    BY <1>5, <2>1, <2>2 DEF LineEnds
<1>8. 2 \in 1..Len(text) /\ close - 1 \in (2 - 1)..Len(text) /\ close - 1 = L + 1
  BY <1>3, <1>5
<1>9. PICK out \in Texts : Becomes(text, 2, close - 1, FALSE, out)
  BY <1>5, <1>8, NormalisedIs
<1>10. \A p \in 2..(L + 1) : text[p] # BS /\ text[p] \notin Control
  <2>1. \A p \in 2..(L + 1) : p - 1 \in 1..L
    BY <1>5
  <2> QED
    BY <1>5, <1>6, <2>1
<1>11. bad = {}
  BY <1>8, <1>10
<1>12. out = SubSeq(text, 2, L + 1)
  <2>1. \A p \in 2..(close - 1) : text[p] # BS
    BY <1>8, <1>10
  <2>2. out = SubSeq(text, 2, close - 1)
    BY <1>9, <2>1 DEF Becomes, ComesOut
  <2> QED
    BY <1>8, <2>2
<1> DEFINE part == SubSeq(text, 2, L + 1)
<1>13. part = value
  <2>1. /\ 2 \in 1..(Len(text) + 1) /\ L + 1 \in 0..Len(text) /\ 2 <= (L + 1) + 1
        /\ (L + 1) + 1 - 2 = L
    BY <1>5
  <2>2. /\ part \in Texts /\ Len(part) = (L + 1) + 1 - 2
        /\ \A i \in 1..((L + 1) + 1 - 2) : part[i] = text[2 + i - 1]
    BY <1>5, <2>1, PartOfText
  <2> HIDE DEF part
  <2>3. ASSUME NEW i \in 1..L PROVE part[i] = value[i]
    <3>1. 2 + i - 1 \in 2..(L + 1) /\ (2 + i - 1) - 1 = i
      BY <1>5
    <3>2. text[2 + i - 1] = value[(2 + i - 1) - 1]
      BY <1>5, <3>1
    <3> QED
      BY <2>1, <2>2, <3>1, <3>2
  <2> QED
    BY <2>1, <2>2, <2>3, SameText
<1>14. Normalised(text, 2, close - 1, FALSE) = out
  <2>1. Normalised(text, 2, close - 1, FALSE) = IF bad # {} /\ ~FALSE THEN Missing ELSE out
    BY <1>9, Zenon DEF Becomes
  <2> HIDE DEF bad
  <2> QED
    BY <1>11, <2>1
<1> QED
  BY <1>4, <1>7, <1>12, <1>13, <1>14

\* An answer comes back from the answers file if, and only if, the file can carry
\* it, whatever its characters and its length: a text with no line end in it.
THEOREM OnlyPlainComesBack ==
  ASSUME NEW value \in Texts, \A n \in 1..Len(value) : value[n] # NL,
         value # Unreadable, value # Missing
  PROVE  ReadBack(value) = value <=> Plain(value)
<1> DEFINE text == Written(value)
<1>1. IsWritten(text, value)
  BY WrittenIs
<1>2. ASSUME ReadBack(value) = value PROVE Plain(value)
  <2>1. CASE Run(text, 1, DQ)
    <3>1. ReadBack(value) = IF CloseTriple(text) = 0 \/ ~LineEnds(text, CloseTriple(text) + 3)
                            THEN Unreadable
                            ELSE Normalised(text, 4, CloseTriple(text) - 1, TRUE)
      BY <2>1, ReadBackIs
    <3> HIDE DEF text
    <3>2. CloseTriple(text) # 0 /\ Normalised(text, 4, CloseTriple(text) - 1, TRUE) = value
      BY <1>2, <3>1, Zenon
    <3> QED
      BY <1>1, <2>1, <3>2, TripleIsShorter
  <2>2. CASE ~Run(text, 1, DQ)
    <3>1. ReadBack(value) = IF CloseBasic(text) = 0 \/ ~LineEnds(text, CloseBasic(text) + 1)
                            THEN Unreadable
                            ELSE Normalised(text, 2, CloseBasic(text) - 1, FALSE)
      BY <2>2, ReadBackIs
    <3> HIDE DEF text
    <3>2. CloseBasic(text) # 0 /\ Normalised(text, 2, CloseBasic(text) - 1, FALSE) = value
      BY <1>2, <3>1, Zenon
    <3> QED
      BY <1>1, <3>2, BasicIsPlain
  <2> QED
    BY <2>1, <2>2
<1> QED
  BY <1>2, PlainComesBack

-----------------------------------------------------------------------------
(* The panel: where pixels go, and where touches come from. *)

\* Division rounds down.
LEMMA DivisionRounds ==
  ASSUME NEW n \in Nat, NEW s \in Nat \ {0}
  PROVE  /\ n \div s \in Nat
         /\ s * (n \div s) <= n
         /\ n < s * (n \div s) + s
  OBVIOUS

\* And nothing else does.
LEMMA DivisionIs ==
  ASSUME NEW n \in Nat, NEW s \in Nat \ {0}, NEW q \in Nat,
         s * q <= n, n < s * q + s
  PROVE  n \div s = q
  <1> DEFINE d == n \div s
  <1>1. d \in Nat /\ s * d <= n /\ n < s * d + s
    BY DivisionRounds
  <1> HIDE DEF d
  <1>2. s * d < s * (q + 1) /\ s * q < s * (d + 1)
    BY <1>1
  <1>3. d < q + 1 /\ q < d + 1
    BY <1>1, <1>2
  <1>4. QED
    BY <1>1, <1>3 DEF d

\* Every touch of the panel, at every scale, goes to the logical pixel that is
\* shown there; one on the rows and columns left over goes to the last one.
THEOREM TouchIsWhereItShows ==
  ASSUME NEW raw \in Nat, NEW s \in Nat \ {0}, NEW logical \in Nat \ {0}
  PROVE  Hits(raw, s, logical, Touched(raw, s, logical))
  <1> DEFINE d == raw \div s
  <1>1. d \in Nat /\ s * d <= raw /\ raw < s * d + s
    BY DivisionRounds
  <1>2. Touched(raw, s, logical) = IF d < logical - 1 THEN d ELSE logical - 1
    BY DEF Touched, Smaller
  <1> HIDE DEF d
  <1>3. Touched(raw, s, logical) \in 0..(logical - 1)
    BY <1>1, <1>2
  <1>4. ASSUME raw < logical * s
        PROVE  \E sx \in 0..(s - 1) : raw = Touched(raw, s, logical) * s + sx
    <2>1. s * d < s * logical
      BY <1>1, <1>4
    <2>2. d < logical
      BY <1>1, <2>1
    <2>3. Touched(raw, s, logical) = d
      BY <1>1, <1>2, <2>2
    <2>4. raw - d * s \in 0..(s - 1) /\ raw = d * s + (raw - d * s)
      BY <1>1
    <2>5. QED
      BY <2>3, <2>4
  <1>5. QED
    BY <1>3, <1>4 DEF Hits

\* A panel whose mapping holds all its lines, offsets included.
PanelOK(fb) ==
  /\ fb.width \in Nat \ {0} /\ fb.height \in Nat \ {0} /\ fb.bytes \in Nat \ {0}
  /\ {fb.xoff, fb.yoff, fb.line, fb.mem} \subseteq Nat
  /\ (fb.width + fb.xoff) * fb.bytes <= fb.line
  /\ (fb.height + fb.yoff) * fb.line <= fb.mem

\* LVGL flushes areas of its display.
AreaOK(fb, s, area) ==
  /\ {area.x1, area.x2, area.y1, area.y2} \subseteq Nat
  /\ area.x1 <= area.x2 /\ area.x2 < Logical(fb, s).width
  /\ area.y1 <= area.y2 /\ area.y2 < Logical(fb, s).height

\* Multiplying keeps an order.
LEMMA TimesGrows ==
  ASSUME NEW m \in Nat, NEW n \in Nat, NEW k \in Nat, m <= n
  PROVE  m * k <= n * k
  OBVIOUS

\* row_ptr refuses no pixel of the panel, and all bytes of it are mapped.
LEMMA PixelIsMapped ==
  ASSUME NEW fb, PanelOK(fb), NEW x \in 0..(fb.width - 1), NEW y \in 0..(fb.height - 1)
  PROVE  /\ Offset(fb, x, y) = (y + fb.yoff) * fb.line + (x + fb.xoff) * fb.bytes
         /\ Mapped(fb, x, y)
         /\ Offset(fb, x, y) + fb.bytes <= fb.mem
  <1> DEFINE b == fb.bytes
             l == fb.line
             c == x + fb.xoff
             r == y + fb.yoff
             W == fb.width + fb.xoff
             H == fb.height + fb.yoff
  <1>1. /\ b \in Nat \ {0} /\ l \in Nat /\ fb.mem \in Nat
        /\ c \in Nat /\ r \in Nat /\ W \in Nat /\ H \in Nat
        /\ c + 1 <= W /\ r + 1 <= H /\ W * b <= l /\ H * l <= fb.mem
    BY DEF PanelOK
  <1>2. Offset(fb, x, y) = r * l + c * b
    BY DEF Offset
  <1> HIDE DEF b, l, c, r, W, H
  <1>3. (c + 1) * b <= W * b /\ (r + 1) * l <= H * l
    BY <1>1, TimesGrows
  <1>4. c * b + b = (c + 1) * b /\ r * l + l = (r + 1) * l /\ r * l \in Nat /\ c * b \in Nat
    BY <1>1
  <1> DEFINE R == r * l
             C == c * b
             R1 == (r + 1) * l
             C1 == (c + 1) * b
             Wb == W * b
             Hl == H * l
  <1>5. Wb \in Nat /\ Hl \in Nat /\ R1 \in Nat /\ C1 \in Nat
    BY <1>1
  <1>6. R + C + b <= fb.mem /\ R + C \in Nat
    <2> HIDE DEF R, C, R1, C1, Wb, Hl
    <2>1. C + b = C1 /\ R + l = R1 /\ C1 <= Wb /\ R1 <= Hl /\ Wb <= l /\ Hl <= fb.mem
      BY <1>1, <1>3, <1>4 DEF R, C, R1, C1, Wb, Hl
    <2>2. R \in Nat /\ C \in Nat
      BY <1>4 DEF R, C
    <2>3. QED
      BY <1>1, <1>5, <2>1, <2>2
  <1>7. Offset(fb, x, y) = R + C
    BY <1>2
  <1>8. Mapped(fb, x, y)
    <2> HIDE DEF R, C
    <2>1. R + C < fb.mem
      BY <1>1, <1>6
    <2>2. QED
      BY <1>7, <2>1 DEF Mapped
  <1>9. QED
    BY <1>1, <1>6, <1>7, <1>8 DEF b, l, c, r

\* The block of a logical pixel is what shows it.
LEMMA BlockIs ==
  ASSUME NEW fb, PanelOK(fb), NEW s \in Nat \ {0}, NEW lx \in Nat, NEW ly \in Nat
  PROVE  Blocks(fb, s, lx, ly) =
           {p \in (0..(fb.width - 1)) \X (0..(fb.height - 1)) :
              p[1] \div s = lx /\ p[2] \div s = ly}
  <1> DEFINE shown == {p \in (0..(fb.width - 1)) \X (0..(fb.height - 1)) :
                         p[1] \div s = lx /\ p[2] \div s = ly}
  <1>1. fb.width \in Nat /\ fb.height \in Nat
    BY DEF PanelOK
  <1>2. ASSUME NEW n \in Nat, NEW k \in 0..(s - 1) PROVE (n * s + k) \div s = n
    <2>1. n * s + k \in Nat /\ s * n <= n * s + k /\ n * s + k < s * n + s
      OBVIOUS
    <2>2. QED
      BY <2>1, DivisionIs
  <1>3. ASSUME NEW p \in Blocks(fb, s, lx, ly) PROVE p \in shown
    <2>1. PICK sx \in 0..(s - 1), sy \in 0..(s - 1) : p = <<lx * s + sx, ly * s + sy>>
      BY DEF Blocks
    <2>2. p[1] < fb.width /\ p[2] < fb.height
      BY DEF Blocks
    <2>3. lx * s + sx \in Nat /\ ly * s + sy \in Nat
      OBVIOUS
    <2>4. p[1] \div s = lx /\ p[2] \div s = ly
      BY <1>2, <2>1
    <2>5. QED
      BY <1>1, <2>1, <2>2, <2>3, <2>4
  <1>4. ASSUME NEW p \in shown PROVE p \in Blocks(fb, s, lx, ly)
    <2>1. /\ p = <<p[1], p[2]>> /\ p[1] \in Nat /\ p[2] \in Nat
          /\ p[1] < fb.width /\ p[2] < fb.height
      BY <1>1
    <2>2. /\ s * lx <= p[1] /\ p[1] < s * lx + s
          /\ s * ly <= p[2] /\ p[2] < s * ly + s
      BY <2>1, DivisionRounds
    <2>3. p[1] - lx * s \in 0..(s - 1) /\ p[2] - ly * s \in 0..(s - 1)
      BY <2>1, <2>2
    <2>4. p = <<lx * s + (p[1] - lx * s), ly * s + (p[2] - ly * s)>>
      BY <2>1
    <2>5. PICK sx \in 0..(s - 1), sy \in 0..(s - 1) : p = <<lx * s + sx, ly * s + sy>>
      BY <2>3, <2>4
    <2>6. p \in {<<lx * s + m, ly * s + n>> : m \in 0..(s - 1), n \in 0..(s - 1)}
      BY <2>5
    <2>7. QED
      BY <2>1, <2>6 DEF Blocks
  <1>5. QED
    BY <1>3, <1>4

\* Whatever the panel, its stride, offset and depth, the scale and the area: each
\* panel pixel that shows a logical pixel of the area gets its pixel of LVGL's
\* buffer, and nothing else is written.
THEOREM AreaReachesThePanel ==
  ASSUME NEW fb, PanelOK(fb), NEW s \in Nat \ {0}, NEW area, AreaOK(fb, s, area)
  PROVE  Draws(fb, s, area, Flush(fb, s, area))
  <1>1. /\ fb.width \in Nat /\ fb.height \in Nat
        /\ {area.x1, area.x2, area.y1, area.y2} \subseteq Nat
    BY DEF PanelOK, AreaOK
  <1>2. area.x2 <= fb.width - 1 /\ area.y2 <= fb.height - 1
    <2>1. \A n \in Nat : n \div s <= n
      <3> SUFFICES ASSUME NEW n \in Nat PROVE n \div s <= n
        OBVIOUS
      <3>1. n \div s \in Nat /\ s * (n \div s) <= n
        BY DivisionRounds
      <3> DEFINE d == n \div s
      <3> HIDE DEF d
      <3>2. d <= s * d
        BY <3>1 DEF d
      <3>3. QED
        BY <3>1, <3>2 DEF d
    <2>2. fb.width \div s \in Nat /\ fb.height \div s \in Nat
      BY <1>1, DivisionRounds
    <2>3. area.x2 < fb.width \div s /\ area.y2 < fb.height \div s
      BY DEF AreaOK, Logical
    <2> DEFINE dw == fb.width \div s
               dh == fb.height \div s
    <2>4. dw \in Nat /\ dh \in Nat /\ dw <= fb.width /\ dh <= fb.height
          /\ area.x2 < dw /\ area.y2 < dh
      BY <1>1, <2>1, <2>2, <2>3
    <2> HIDE DEF dw, dh
    <2>5. QED
      BY <1>1, <2>4
  <1>3. /\ ~OffPanel(fb, area)
        /\ Clip(fb, area).x1 = area.x1 /\ Clip(fb, area).x2 = area.x2
        /\ Clip(fb, area).y1 = area.y1 /\ Clip(fb, area).y2 = area.y2
    BY <1>1, <1>2 DEF AreaOK, OffPanel, Clip, Larger, Smaller
  <1> DEFINE part(x1, x2, y1, lx, ly) ==
               {[at |-> Offset(fb, p[1], p[2]),
                 from |-> (ly - y1) * (x2 - x1 + 1) + (lx - x1)] :
                  p \in Blocks(fb, s, lx, ly)}
             all(x1, x2, y1, y2) ==
               UNION {part(x1, x2, y1, lx, ly) : lx \in x1..x2, ly \in y1..y2}
             writes == all(area.x1, area.x2, area.y1, area.y2)
             due == {[at |-> Offset(fb, p[1], p[2]),
                      from |-> (p[2] \div s - area.y1) * (area.x2 - area.x1 + 1)
                                 + (p[1] \div s - area.x1)] :
                       p \in Showing(fb, s, area)}
  <1>4. \A lx \in area.x1..area.x2, ly \in area.y1..area.y2 :
          /\ lx \in Nat /\ ly \in Nat
          /\ Blocks(fb, s, lx, ly) =
               {p \in (0..(fb.width - 1)) \X (0..(fb.height - 1)) :
                  p[1] \div s = lx /\ p[2] \div s = ly}
    BY <1>1, BlockIs
  <1>5. Flush(fb, s, area) = writes
    <2> DEFINE c == Clip(fb, area)
               reached(lx, ly) == {q \in Blocks(fb, s, lx, ly) : Reached(fb, s, c, q)}
    <2>1. \A lx \in area.x1..area.x2, ly \in area.y1..area.y2 :
            reached(lx, ly) = Blocks(fb, s, lx, ly)
      <3> SUFFICES ASSUME NEW lx \in area.x1..area.x2, NEW ly \in area.y1..area.y2,
                          NEW q \in Blocks(fb, s, lx, ly)
                   PROVE  Reached(fb, s, c, q)
        OBVIOUS
      <3>1. q[1] \in 0..(fb.width - 1) /\ q[2] \in 0..(fb.height - 1)
        BY <1>4
      <3>2. c.x1 \in 0..(fb.width - 1)
        BY <1>1, <1>2, <1>3 DEF AreaOK
      <3>3. Mapped(fb, q[1], q[2]) /\ Mapped(fb, c.x1, q[2])
        BY <3>1, <3>2, PixelIsMapped
      <3>4. QED
        BY <3>3 DEF Reached
    <2>2. Flush(fb, s, area) =
            UNION {{[at |-> Offset(fb, p[1], p[2]),
                     from |-> (ly - c.y1) * (c.x2 - c.x1 + 1) + (lx - c.x1)] :
                      p \in reached(lx, ly)} :
                   lx \in c.x1..c.x2, ly \in c.y1..c.y2}
      BY <1>3 DEF Flush
    <2> HIDE DEF c, reached
    <2>3. Flush(fb, s, area) =
            UNION {{[at |-> Offset(fb, p[1], p[2]),
                     from |-> (ly - area.y1) * (area.x2 - area.x1 + 1)
                                + (lx - area.x1)] : p \in reached(lx, ly)} :
                   lx \in area.x1..area.x2, ly \in area.y1..area.y2}
      BY <1>3, <2>2 DEF c
    <2>4. QED
      BY <2>1, <2>3
  <1>6. writes = due
    <2>1. ASSUME NEW t \in writes PROVE t \in due
      <3>1. PICK lx \in area.x1..area.x2, ly \in area.y1..area.y2 :
              t \in part(area.x1, area.x2, area.y1, lx, ly)
        OBVIOUS
      <3>2. PICK p \in Blocks(fb, s, lx, ly) :
              t = [at |-> Offset(fb, p[1], p[2]),
                   from |-> (ly - area.y1) * (area.x2 - area.x1 + 1) + (lx - area.x1)]
        BY <3>1
      <3>3. p \in Showing(fb, s, area) /\ p[1] \div s = lx /\ p[2] \div s = ly
        BY <1>4, <3>2 DEF Showing
      <3>4. QED
        BY <3>2, <3>3
    <2>2. ASSUME NEW t \in due PROVE t \in writes
      <3>1. PICK p \in Showing(fb, s, area) :
              t = [at |-> Offset(fb, p[1], p[2]),
                   from |-> (p[2] \div s - area.y1) * (area.x2 - area.x1 + 1)
                              + (p[1] \div s - area.x1)]
        OBVIOUS
      <3>2. PICK lx \in area.x1..area.x2, ly \in area.y1..area.y2 :
              lx = p[1] \div s /\ ly = p[2] \div s
        BY DEF Showing
      <3>3. p \in Blocks(fb, s, lx, ly)
        BY <1>4, <3>2 DEF Showing
      <3>4. t \in part(area.x1, area.x2, area.y1, lx, ly)
        BY <3>1, <3>2, <3>3
      <3> HIDE DEF part
      <3>5. part(area.x1, area.x2, area.y1, lx, ly)
              \in {part(area.x1, area.x2, area.y1, m, n) :
                     m \in area.x1..area.x2, n \in area.y1..area.y2}
        OBVIOUS
      <3>6. QED
        BY <3>4, <3>5
    <2> HIDE DEF writes, due
    <2>3. QED
      BY <2>1, <2>2
  <1>7. \A p \in Showing(fb, s, area) :
          /\ Offset(fb, p[1], p[2])
               = (p[2] + fb.yoff) * fb.line + (p[1] + fb.xoff) * fb.bytes
          /\ Offset(fb, p[1], p[2]) + fb.bytes <= fb.mem
    BY PixelIsMapped DEF Showing
  <1>8. \A t \in due : t.at + fb.bytes <= fb.mem
    BY <1>7
  <1>9. due = {[at |-> (p[2] + fb.yoff) * fb.line + (p[1] + fb.xoff) * fb.bytes,
                from |-> (p[2] \div s - area.y1) * (area.x2 - area.x1 + 1)
                           + (p[1] \div s - area.x1)] : p \in Showing(fb, s, area)}
    BY <1>7
  <1> HIDE DEF writes, due
  <1>10. Flush(fb, s, area) = due
    BY <1>5, <1>6
  <1>11. QED
    BY <1>8, <1>9, <1>10 DEF Draws

-----------------------------------------------------------------------------
(* A behaviour is one call. *)

\* What a function has returned is what it computes of its input.
Answered ==
  /\ call \in Calls
  /\ Returned("when") =>
       result = WhenEval(FormulaText(call.formula, call.style), call.ans)
  /\ Returned("expand") =>
       result = Expand(Template(call.segments) \o call.tail, call.ans)
  /\ Returned("answer") => result = ReadBack(call.value)
  /\ Returned("target") =>
       result = (LET options == TargetList(call.lines, TargetCap)
                 IN  IF call.pick <= Count(options)
                     THEN FirstWord(Selected(options, call.pick, 64)) ELSE << >>)
  /\ Returned("flush") => result = Flush(call.fb, Factor(call.pct), call.area)
  /\ Returned("touch") =>
       result = Touched(call.raw, Factor(call.pct), call.width \div Factor(call.pct))

\* A call, once it has returned, is answered: the inductive invariant.
LEMMA CallsAreAnswered == Spec => []Answered
<1>1. Init => Answered
  BY DEF Init, Answered, Returned
<1>2. Answered /\ [Next]_vars => Answered'
  <2> SUFFICES ASSUME Answered, [Next]_vars PROVE Answered'
    OBVIOUS
  <2> USE DEF Answered, Returned, Returns
  <2>1. CASE UNCHANGED vars
    BY <2>1 DEF vars
  <2>2. CASE Next
    BY <2>2 DEF Next
  <2> QED
    BY <2>1, <2>2
<1> QED
  BY <1>1, <1>2, PTL DEF Spec

-----------------------------------------------------------------------------
(* The calls of the run are calls these theorems speak of. *)

\* The scales of the run are one, two and three.
LEMMA ScalesAreFactors ==
  \A pct \in {50, 100, 200, 250, 300} : Factor(pct) \in 1..3
BY DEF Factor

\* A call is of the function it names.
LEMMA CallsByName ==
  \A c \in Calls : /\ c.f = "when" <=> c \in WhenCalls
                   /\ c.f = "expand" <=> c \in ExpandCalls
                   /\ c.f = "answer" <=> c \in AnswerCalls
                   /\ c.f = "target" <=> c \in TargetCalls
                   /\ c.f = "flush" <=> c \in FlushCalls
                   /\ c.f = "touch" <=> c \in TouchCalls
<1>1. \A c \in WhenCalls : c.f = "when"
  BY DEF WhenCalls
<1>2. \A c \in ExpandCalls : c.f = "expand"
  BY DEF ExpandCalls
<1>3. \A c \in AnswerCalls : c.f = "answer"
  BY DEF AnswerCalls
<1>4. \A c \in TargetCalls : c.f = "target"
  <2> SUFFICES ASSUME NEW c \in TargetCalls PROVE c.f = "target"
    OBVIOUS
  <2>1. PICK m \in 1..3 : c \in [f : {"target"}, lines : [1..m -> Targets], pick : 1..m]
    BY DEF TargetCalls
  <2> QED
    BY <2>1
<1>5. \A c \in FlushCalls : c.f = "flush"
  <2> SUFFICES ASSUME NEW c \in FlushCalls PROVE c.f = "flush"
    OBVIOUS
  <2>1. PICK fb \in Panels, pct \in Percents :
          c \in FlushCallsOn(fb, pct)
    BY DEF FlushCalls
  <2> QED
    BY <2>1 DEF FlushCallsOn
<1>6. \A c \in TouchCalls : c.f = "touch"
  <2> SUFFICES ASSUME NEW c \in TouchCalls PROVE c.f = "touch"
    OBVIOUS
  <2>1. PICK w \in 3..8 :
          c \in TouchCallsOn(w)
    BY DEF TouchCalls
  <2> QED
    BY <2>1 DEF TouchCallsOn
<1> QED
  BY <1>1, <1>2, <1>3, <1>4, <1>5, <1>6 DEF Calls

\* The touches of the run are on their panels.
LEMMA TouchesAreOnPanels ==
  ASSUME NEW c \in Calls, c.f = "touch"
  PROVE  /\ c.raw \in Nat /\ Factor(c.pct) \in Nat \ {0}
         /\ c.width \div Factor(c.pct) \in Nat \ {0}
<1>1. c \in TouchCalls
  BY CallsByName
<1>2. PICK w \in 3..8 : c \in TouchCallsOn(w)
  BY <1>1 DEF TouchCalls
<1>3. c.width = w /\ c.pct \in {200, 250, 300} /\ c.raw \in 0..(w - 1)
  BY <1>2 DEF TouchCallsOn
<1> DEFINE s == Factor(c.pct)
<1>4. s \in 1..3
  BY <1>3, ScalesAreFactors
<1> HIDE DEF s
<1>5. w \div s \in Nat \ {0}
  BY <1>4
<1> QED
  BY <1>3, <1>4, <1>5 DEF s

\* For the run's touches, in every state.
THEOREM TouchesGoWhereTheyShow == Spec => []TouchGoesWhereItShows
<1>1. Answered => TouchGoesWhereItShows
  <2> SUFFICES ASSUME Answered, Returned("touch")
               PROVE  Hits(call.raw, Factor(call.pct), call.width \div Factor(call.pct), result)
    BY DEF TouchGoesWhereItShows
  <2>1. call \in Calls /\ call.f = "touch"
    BY DEF Answered, Returned
  <2>2. result = Touched(call.raw, Factor(call.pct), call.width \div Factor(call.pct))
    BY DEF Answered
  <2> QED
    BY <2>1, <2>2, TouchesAreOnPanels, TouchIsWhereItShows
<1> QED
  BY <1>1, CallsAreAnswered, PTL

\* The areas of the run are on their panels.
LEMMA AreasAreOnPanels ==
  ASSUME NEW c \in Calls, c.f = "flush"
  PROVE  /\ Factor(c.pct) \in Nat \ {0} /\ PanelOK(c.fb)
         /\ AreaOK(c.fb, Factor(c.pct), c.area)
<1>1. c \in FlushCalls
  BY CallsByName
<1>2. PICK fb \in Panels, pct \in Percents :
        c \in FlushCallsOn(fb, pct)
  BY <1>1 DEF FlushCalls
<1>3. /\ c.fb = fb /\ c.pct = pct
      /\ c.area \in Areas(Logical(fb, Factor(pct)).width, Logical(fb, Factor(pct)).height)
  BY <1>2 DEF FlushCallsOn
<1>4. Factor(pct) \in 1..3
  BY ScalesAreFactors DEF Percents
<1>5. PanelOK(fb)
  BY DEF Panels, PanelOK
<1>6. AreaOK(fb, Factor(pct), c.area)
  <2> DEFINE s == Factor(pct)
             w == fb.width \div s
             h == fb.height \div s
  <2>1. Logical(fb, s).width = w /\ Logical(fb, s).height = h
    BY DEF Logical
  <2>2. w \in Nat /\ h \in Nat
    BY <1>4, <1>5, DivisionRounds DEF PanelOK
  <2> HIDE DEF w, h, s
  <2>3. c.area \in Areas(w, h)
    BY <1>3, <2>1 DEF s
  <2> QED
    BY <2>1, <2>2, <2>3 DEF Areas, AreaOK, s
<1> QED
  BY <1>3, <1>4, <1>5, <1>6

\* For the run's panels, scales and areas, in every state.
THEOREM AreasAreDrawn == Spec => []AreaIsDrawn
<1>1. Answered => AreaIsDrawn
  <2> SUFFICES ASSUME Answered, Returned("flush")
               PROVE  Draws(call.fb, Factor(call.pct), call.area, result)
    BY DEF AreaIsDrawn
  <2>1. call \in Calls /\ call.f = "flush"
    BY DEF Answered, Returned
  <2>2. result = Flush(call.fb, Factor(call.pct), call.area)
    BY DEF Answered
  <2> QED
    BY <2>1, <2>2, AreasAreOnPanels, AreaReachesThePanel
<1> QED
  BY <1>1, CallsAreAnswered, PTL

\* The letters of the run's templates are no braces.
LEMMA LettersAreNoBraces ==
  /\ {"a", "k", "l", "x"} \subseteq Chars
  /\ \A c \in {"a", "k", "l", "x"} : c # OpenBrace /\ c # CloseBrace
<1>1. {"a", "k", "l", "x"} \subseteq Chars
  BY DEF Chars, Letters
<1>2. /\ "a" # OpenBrace /\ "k" # OpenBrace /\ "l" # OpenBrace /\ "x" # OpenBrace
      /\ "a" # CloseBrace /\ "k" # CloseBrace /\ "l" # CloseBrace /\ "x" # CloseBrace
  BY Zenon DEF OpenBrace, CloseBrace
<1> QED
  BY <1>1, <1>2

\* The run's segments are ones that bp_expand tells apart.
LEMMA SegmentsAreOK == \A s \in Segments : SegmentOK(s)
<1> SUFFICES ASSUME NEW s \in Segments PROVE SegmentOK(s)
  OBVIOUS
<1>1. CASE s \in [kind : {"text"}, body : {<<"a">>, <<Dollar>>, <<CloseBrace>>}]
  <2>1. s.kind = "text" /\ s.body \in {<<"a">>, <<Dollar>>, <<CloseBrace>>}
    BY <1>1
  <2>2. PICK c \in {"a", Dollar, CloseBrace} : s.body = <<c>>
    BY <2>1
  <2>3. c \in Chars /\ c # OpenBrace
    BY LettersAreNoBraces, CharactersDiffer
  <2>4. <<c>> \in Texts /\ Len(<<c>>) = 1 /\ <<c>>[1] = c /\ <<c>> # << >>
    BY <2>3, OneCharText
  <2>5. \A n \in 1..1 : n = 1
    OBVIOUS
  <2> QED
    BY <2>1, <2>2, <2>3, <2>4, <2>5 DEF SegmentOK
<1>2. CASE s \in [kind : {"key"}, body : {<<"k">>, <<"l">>, <<"k", "k">>}]
  <2>1. s.kind = "key" /\ s.kind # "text" /\ s.body \in {<<"k">>, <<"l">>, <<"k", "k">>}
    BY <1>2
  <2> DEFINE b == s.body
  <2>2. b \in Texts /\ Len(b) \in {1, 2} /\ \A n \in 1..Len(b) : b[n] \in {"k", "l"}
    <3>1. {<<"k">>, <<"l">>, <<"k", "k">>} \subseteq Texts
      BY LettersAreNoBraces DEF Texts
    <3> HIDE DEF b
    <3>2. b \in {<<"k">>, <<"l">>, <<"k", "k">>}
      BY <2>1 DEF b
    <3> QED
      BY <3>1, <3>2
  <2>3. \A n \in 1..Len(b) : b[n] # OpenBrace /\ b[n] # CloseBrace
    BY <2>2, LettersAreNoBraces
  <2> QED
    BY <2>1, <2>2, <2>3 DEF SegmentOK
<1> QED
  BY <1>1, <1>2 DEF Segments

\* The run's tails have no key that ends.
LEMMA TailsAreOK == \A t \in Tails : TailOK(t)
<1>1. TailOK(<< >>)
  <2>1. \A n \in 1..0 : FALSE
    OBVIOUS
  <2> QED
    BY <2>1, EmptyText DEF TailOK
<1>2. TailOK(<<Dollar, OpenBrace, "k">>)
  <2> DEFINE t == <<Dollar, OpenBrace, "k">>
  <2>1. t \in Texts /\ Len(t) = 3 /\ t[1] = Dollar /\ t[2] = OpenBrace /\ t[3] = "k"
    BY LettersAreNoBraces, CharactersDiffer DEF Texts
  <2> HIDE DEF t
  <2>2. \A n \in 1..3 : n = 1 \/ n = 2 \/ n = 3
    OBVIOUS
  <2>3. TailOK(t)
    BY <2>1, <2>2, LettersAreNoBraces, CharactersDiffer DEF TailOK
  <2> QED
    BY <2>3 DEF t
<1> QED
  BY <1>1, <1>2 DEF Tails

\* The run's answers are texts.
LEMMA FillingsAreTexts ==
  ASSUME NEW ans \in Fillings, NEW key
  PROVE  Lookup(ans, key) \in Texts
<1> DEFINE nested == <<Dollar, OpenBrace, "l", CloseBrace>>
<1>1. << >> \in Texts /\ <<"x">> \in Texts /\ nested \in Texts
  BY LettersAreNoBraces, CharactersDiffer DEF Texts
<1>2. ans \in [{<<"k">>} -> {<< >>, <<"x">>, nested}]
  BY Zenon DEF Fillings
<1> HIDE DEF nested
<1>3. key \in DOMAIN ans => ans[key] \in {<< >>, <<"x">>, nested}
  BY <1>2
<1> QED
  BY <1>1, <1>3 DEF Lookup

\* For the run's templates, in every state.
THEOREM TemplatesComeOut == Spec => []TemplateIsFilledIn
<1>1. Answered => TemplateIsFilledIn
  <2> SUFFICES ASSUME Answered, Returned("expand")
               PROVE  result = FilledIn(call.segments, call.ans) \o call.tail
    BY DEF TemplateIsFilledIn
  <2>1. call \in ExpandCalls
    BY CallsByName DEF Answered, Returned
  <2>2. call.segments \in UpTo(Segments, 3) /\ call.tail \in Tails /\ call.ans \in Fillings
    BY <2>1 DEF ExpandCalls
  <2>3. PICK m \in 0..3 : call.segments \in [1..m -> Segments]
    BY <2>2 DEF UpTo
  <2> DEFINE segs == call.segments
             tl == call.tail
             an == call.ans
  <2>4. result = Expand(Template(segs) \o tl, an)
    BY DEF Answered
  <2>5. /\ m \in Nat /\ DOMAIN segs = 1..m
        /\ \A n \in 1..m : SegmentOK(segs[n])
        /\ TailOK(tl) /\ \A key \in Texts : Lookup(an, key) \in Texts
    BY <2>2, <2>3, SegmentsAreOK, TailsAreOK, FillingsAreTexts
  <2> HIDE DEF segs, tl, an
  <2>6. Expand(Template(segs) \o tl, an) = FilledIn(segs, an) \o tl
    BY <2>5, TemplatesAreFilledIn
  <2> QED
    BY <2>4, <2>6 DEF segs, tl, an
<1> QED
  BY <1>1, CallsAreAnswered, PTL

\* The run's partitions are lines.
LEMMA TargetsAreLines ==
  \A t \in Targets : /\ t \in Texts /\ Len(t) \in 1..7
                     /\ \A n \in 1..Len(t) : t[n] # EOL
<1> SUFFICES ASSUME NEW t \in Targets
             PROVE  /\ t \in Texts /\ Len(t) \in 1..7
                    /\ \A n \in 1..Len(t) : t[n] # EOL
  OBVIOUS
<1> DEFINE Good(s) == s \in Texts /\ \A n \in 1..Len(s) : s[n] \in {"a", "b", "d", "6", "0", SP}
<1>1. {"a", "b", "d", "6", "0", SP} \subseteq Chars
  <2>1. Letters \subseteq Chars /\ SP \in Chars
    BY DEF Chars
  <2>2. {"a", "b", "d", "6", "0"} \subseteq Letters
    BY DEF Letters
  <2> QED
    BY <2>1, <2>2
<1>2. PICK disk \in {<<"d", "6">>, <<"d", "6", "0">>} : t \in Partitions(disk)
  BY DEF Targets
<1>2a. PICK name \in Names : t = disk \o <<SP>> \o name
  BY <1>2 DEF Partitions
<1>3. Good(disk) /\ Len(disk) \in 2..3
  <2>1. Good(<<"d", "6">>) /\ Len(<<"d", "6">>) = 2
    BY <1>1 DEF Texts
  <2>2. Good(<<"d", "6", "0">>) /\ Len(<<"d", "6", "0">>) = 3
    BY <1>1 DEF Texts
  <2> HIDE DEF Good
  <2> QED
    BY <1>2, <2>1, <2>2
<1>4. Good(<<SP>>) /\ Len(<<SP>>) = 1
  BY <1>1 DEF Texts
<1>5. Good(name) /\ Len(name) \in 1..3
  <2>1. Good(<<"a">>) /\ Len(<<"a">>) = 1
    BY <1>1 DEF Texts
  <2>2. Good(<<"b", "a">>) /\ Len(<<"b", "a">>) = 2
    BY <1>1 DEF Texts
  <2>3. Good(<<"b", "b", "a">>) /\ Len(<<"b", "b", "a">>) = 3
    BY <1>1 DEF Texts
  <2>4. name \in {<<"a">>, <<"b", "a">>, <<"b", "b", "a">>}
    BY DEF Names
  <2> HIDE DEF Good
  <2> QED
    BY <2>1, <2>2, <2>3, <2>4
<1>6. ASSUME NEW u, NEW v, Good(u), Good(v)
      PROVE  Good(u \o v) /\ Len(u \o v) = Len(u) + Len(v)
  <2>1. u \o v \in Texts /\ Len(u \o v) = Len(u) + Len(v) /\ Len(u) \in Nat /\ Len(v) \in Nat
    BY <1>6, TextsJoined, TextLength
  <2>2. ASSUME NEW n \in 1..Len(u \o v) PROVE (u \o v)[n] \in {"a", "b", "d", "6", "0", SP}
    <3>1. CASE n <= Len(u)
      <4>1. n \in 1..Len(u)
        BY <2>1, <3>1
      <4> QED
        BY <1>6, <4>1, TextsJoined
    <3>2. CASE ~(n <= Len(u))
      <4> DEFINE i == n - Len(u)
      <4>1. i \in 1..Len(v) /\ Len(u) + i = n
        BY <2>1, <3>2
      <4> HIDE DEF i
      <4>2. (u \o v)[Len(u) + i] = v[i]
        BY <1>6, <4>1, TextsJoined
      <4> QED
        BY <1>6, <4>1, <4>2
    <3> QED
      BY <3>1, <3>2
  <2> QED
    BY <2>1, <2>2
<1> HIDE DEF Good
<1>7. Good(disk \o <<SP>>) /\ Len(disk \o <<SP>>) = Len(disk) + 1
  BY <1>3, <1>4, <1>6
<1>8. Good(t) /\ Len(t) = Len(disk) + 1 + Len(name)
  BY <1>2a, <1>5, <1>6, <1>7
<1>9. Len(t) \in 1..7
  <2> DEFINE d == Len(disk)
             l == Len(name)
  <2>1. d \in 2..3 /\ l \in 1..3 /\ Len(t) = d + 1 + l
    BY <1>3, <1>5, <1>8
  <2> HIDE DEF d, l
  <2>2. d + 1 + l \in 1..7
    BY <2>1
  <2> QED
    BY <2>1, <2>2
<1> QED
  BY <1>8, <1>9, TargetsAssumption DEF Good

\* A list of the run fits into the buffer.
LEMMA ShortListsFit ==
  ASSUME NEW lines, LinesOK(lines), Len(lines) \in 1..3,
         \A n \in 1..Len(lines) : Len(lines[n]) \in 1..7,
         NEW joined, Flattened(Behind(lines), joined)
  PROVE  Len(joined[Len(lines)]) < TargetCap
<1> DEFINE N == Len(lines)
           L(n) == Len(joined[n])
           M(n) == Len(Behind(lines)[n])
<1>1. /\ joined[0] = << >>
      /\ \A n \in 0..N : L(n) \in Nat
      /\ \A n \in 1..N : L(n) = L(n - 1) + M(n)
  BY ListGrows
<1>2. L(0) = 0
  BY <1>1, EmptyText
<1>3. \A n \in 1..N : M(n) \in 1..8
  <2>1. \A n \in 1..N : M(n) = Len(lines[n]) + IF n = 1 THEN 0 ELSE 1
    BY BehindIsParts
  <2> DEFINE l(n) == Len(lines[n])
  <2>2. \A n \in 1..N : l(n) \in 1..7 /\ M(n) = l(n) + IF n = 1 THEN 0 ELSE 1
    BY <2>1
  <2> HIDE DEF M, l, N
  <2> QED
    BY <2>2
<1> HIDE DEF L, M
<1> DEFINE good == {n \in 0..N : L(n) <= 8 * n}
<1>4. N \in 1..3 /\ 0 \in good
  BY <1>2
<1> HIDE DEF N
<1>5. ASSUME NEW n \in 0..(N - 1), n \in good PROVE n + 1 \in good
  <2>1. n + 1 \in 1..N /\ n \in 0..N /\ n + 1 \in 0..N /\ (n + 1) - 1 = n /\ L(n) <= 8 * n
    BY <1>4, <1>5
  <2>2. L(n) \in Nat /\ L(n + 1) = L(n) + M(n + 1) /\ M(n + 1) \in 1..8
    BY <1>1, <1>3, <2>1
  <2>3. L(n + 1) <= 8 * (n + 1)
    BY <2>1, <2>2
  <2> QED
    BY <2>1, <2>3
<1> HIDE DEF good
<1>6. N \in good
  <2>1. 0..N \subseteq good
    BY <1>4, <1>5, CountingUp
  <2> QED
    BY <1>4, <2>1
<1>7. L(N) <= 8 * N /\ L(N) \in Nat
  BY <1>1, <1>4, <1>6 DEF good
<1>8. L(N) < TargetCap
  BY <1>4, <1>7, TargetsAssumption
<1> QED
  BY <1>8 DEF L, N

\* For the run's partitions, in every state.
THEOREM ThePickedIsInstalled == Spec => []InstallsWhatWasPicked
<1>1. Answered => InstallsWhatWasPicked
  <2> SUFFICES ASSUME Answered, Returned("target")
               PROVE  result = FirstWord(call.lines[call.pick])
    BY DEF InstallsWhatWasPicked
  <2> DEFINE lines == call.lines
             pick == call.pick
             options == TargetList(lines, TargetCap)
  <2>1. call \in TargetCalls
    BY CallsByName DEF Answered, Returned
  <2>2. PICK m \in 1..3 : call \in [f : {"target"}, lines : [1..m -> Targets], pick : 1..m]
    BY <2>1 DEF TargetCalls
  <2>3. lines \in [1..m -> Targets] /\ pick \in 1..m
    BY <2>2
  <2>4. result = IF pick <= Count(options) THEN FirstWord(Selected(options, pick, 64)) ELSE << >>
    BY DEF Answered
  <2> HIDE DEF lines, pick
  <2>5. /\ lines \in Seq(Texts) /\ Len(lines) = m
        /\ \A n \in 1..m : lines[n] \in Texts /\ Len(lines[n]) \in 1..7
        /\ \A n \in 1..m : \A i \in 1..Len(lines[n]) : lines[n][i] # EOL
    BY <2>3, TargetsAreLines
  <2>6. LinesOK(lines)
    <3>1. ASSUME NEW n \in 1..m PROVE lines[n] # << >>
      <4> DEFINE l == Len(lines[n])
      <4>1. l \in 1..7
        BY <2>5
      <4> HIDE DEF l
      <4>2. l # 0
        BY <4>1
      <4> QED
        BY <4>2, EmptyText DEF l
    <3> QED
      BY <2>5, <3>1 DEF LinesOK
  <2>7. PICK joined : Flattened(Behind(lines), joined)
    BY <2>6, BehindIsParts, FlattenIsJoined
  <2>8. Len(joined[Len(lines)]) < TargetCap
    BY <2>5, <2>6, <2>7, ShortListsFit
  <2>9. options = joined[Len(lines)]
    BY <2>6, <2>7, <2>8, TargetsAssumption, ListIsJoined
  <2>10. Count(options) = m
    BY <2>5, <2>6, <2>7, <2>9, AllAreListed
  <2>11. Len(FirstWord(lines[pick])) < 64
    <3> DEFINE w == Len(FirstWord(lines[pick]))
               l == Len(lines[pick])
    <3>1. w \in Nat /\ w <= l /\ l \in 1..7
      BY <2>3, <2>5, FirstWordIsShort
    <3> HIDE DEF w, l
    <3>2. w < 64
      BY <3>1
    <3> QED
      BY <3>2 DEF w
  <2>12. FirstWord(Selected(options, pick, 64)) = FirstWord(lines[pick])
    BY <2>3, <2>5, <2>6, <2>7, <2>8, <2>11, TargetsAssumption, PickedIsSelected
  <2> QED
    BY <2>3, <2>4, <2>10, <2>12 DEF lines, pick
<1> QED
  BY <1>1, CallsAreAnswered, PTL

\* The letters of the run's comparisons are no signs, blanks or quotes.
LEMMA LettersAreNoSigns ==
  /\ {"k", "l", "x"} \subseteq Chars
  /\ \A c \in {"k", "l", "x"} : c \notin Signs /\ c # Blank /\ c \notin Quotes
<1>1. {"k", "l", "x"} \subseteq Chars
  BY DEF Chars, Letters
<1>2. \A c \in {"k", "l", "x"} : c # Bar /\ c # Ampersand /\ c # Equals /\ c # Bang /\ c # Blank
  BY Zenon DEF Bar, Ampersand, Equals, Bang, Blank
<1>3. \A c \in {"k", "l", "x"} : c \notin Quotes
  BY Zenon DEF Quotes
<1> QED
  BY <1>1, <1>2, <1>3, Zenon DEF Signs

\* The run's comparisons can be written in each of its styles.
LEMMA AtomsAreOK == \A s \in Styles : StyleOK(s) /\ Writable(Atoms, s)
<1> SUFFICES ASSUME NEW s \in Styles PROVE StyleOK(s) /\ Writable(Atoms, s)
  OBVIOUS
<1>1. Blanks(<<Blank>>) /\ Blanks(<< >>)
  <2> DEFINE t == <<Blank>>
  <2>1. t \in Texts /\ Len(t) = 1 /\ t[1] = Blank
    BY SignsDiffer, OneCharText
  <2> HIDE DEF t
  <2>2. Blanks(t)
    BY <2>1 DEF Blanks
  <2>3. Blanks(<< >>)
    BY EmptyText DEF Blanks
  <2> QED
    BY <2>2, <2>3 DEF t
<1>2. StyleOK(s)
  <2>1. s.gap \in {<< >>, <<Blank>>}
    BY DEF Styles
  <2>2. s.quote \in {<< >>, <<"\"">>, <<"'">>}
    BY Zenon DEF Styles
  <2>3. s.quote = << >> \/ \E c \in Quotes : s.quote = <<c>>
    BY <2>2, Zenon DEF Quotes
  <2> QED
    BY <1>1, <2>1, <2>3, Zenon DEF StyleOK
<1> DEFINE Good(t) == Free(t, Signs) /\ Bare(t)
<1>3. \A c \in {"k", "l", "x"} : Good(<<c>>) /\ Unquoted(<<c>>)
  <2> TAKE c \in {"k", "l", "x"}
  <2>1. c \in Chars /\ c \notin Signs /\ c # Blank
    BY LettersAreNoSigns
  <2> DEFINE t == <<c>>
  <2>2. t \in Texts /\ Len(t) = 1 /\ t[1] = c /\ Free(t, Signs)
    BY <2>1, CharIsFree
  <2> HIDE DEF t
  <2>3. Bare(t) /\ Unquoted(t)
    BY <2>1, <2>2 DEF Bare, Unquoted
  <2> QED
    BY <2>2, <2>3 DEF t
<1>4. Good(<< >>) /\ Unquoted(<< >>)
  BY EmptyText, EmptyFree DEF Bare, Unquoted
<1>5. Good(<<"x", Blank, "x">>) /\ Unquoted(<<"x", Blank, "x">>)
  <2> DEFINE t == <<"x", Blank, "x">>
  <2>1. "x" \in Chars /\ Blank \in Chars /\ "x" \notin Signs /\ Blank \notin Signs /\ "x" # Blank
        /\ "x" \notin Quotes
    BY LettersAreNoSigns, SignsDiffer
  <2>2. t \in Texts /\ Len(t) = 3 /\ t[1] = "x" /\ t[2] = Blank /\ t[3] = "x"
    BY <2>1 DEF Texts
  <2> HIDE DEF t
  <2>3. Free(t, Signs)
    <3>1. \A n \in 1..3 : n = 1 \/ n = 2 \/ n = 3
      OBVIOUS
    <3> QED
      BY <2>1, <2>2, <3>1, Zenon DEF Free
  <2>4. Bare(t) /\ Unquoted(t)
    BY <2>1, <2>2, Zenon DEF Bare, Unquoted
  <2> QED
    BY <2>3, <2>4 DEF t
<1> HIDE DEF Good
<1>6. ASSUME NEW a \in Atoms PROVE AtomOK(a, s)
  <2>1. a.key \in {<<"k">>, <<"l">>} /\ a.negated \in BOOLEAN
    BY <1>6 DEF Atoms
  <2>2. a.val \in {<< >>, <<"x">>, <<"x", Blank, "x">>}
    BY <1>6, Zenon DEF Atoms
  <2>3. Good(a.key)
    BY <1>3, <2>1, Zenon
  <2>4. Good(a.val) /\ Unquoted(a.val)
    BY <1>3, <1>4, <1>5, <2>2, Zenon
  <2> QED
    BY <2>1, <2>3, <2>4 DEF AtomOK, Good
<1> QED
  BY <1>2, <1>6 DEF Writable

\* The run's formulas are formulas of the run's comparisons.
LEMMA FormulasAreOfAtoms == Formulas \subseteq NonEmpty(NonEmpty(Atoms))
<1>1. ASSUME NEW S, NEW t \in UpTo(S, 2) \ {<< >>} PROVE t \in NonEmpty(S)
  <2>1. PICK m \in 0..2 : t \in [1..m -> S]
    BY <1>1 DEF UpTo
  <2>2. t \in Seq(S)
    BY <2>1
  <2> QED
    BY <1>1, <2>2 DEF NonEmpty
<1>2. \A t \in UpTo(ShortAtoms, 2) \ {<< >>} : t \in NonEmpty(Atoms)
  <2> TAKE t \in UpTo(ShortAtoms, 2) \ {<< >>}
  <2>1. t \in NonEmpty(ShortAtoms)
    BY <1>1
  <2>2. ShortAtoms \subseteq Atoms
    BY DEF ShortAtoms
  <2> HIDE DEF ShortAtoms, Atoms
  <2> QED
    BY <2>1, <2>2 DEF NonEmpty
<1>3. ASSUME NEW S, NEW t \in S PROVE <<t>> \in NonEmpty(S)
  <2>1. <<t>> \in Seq(S) /\ <<t>> # << >>
    BY <1>3
  <2> QED
    BY <2>1 DEF NonEmpty
<1>4. ASSUME NEW S, NEW t \in S, NEW u \in S PROVE <<t, u>> \in NonEmpty(S)
  <2>1. <<t, u>> \in Seq(S) /\ <<t, u>> # << >>
    BY <1>4
  <2> QED
    BY <2>1 DEF NonEmpty
<1>5. \A a \in ShortAtoms : <<a>> \in NonEmpty(Atoms)
  <2>1. ShortAtoms \subseteq Atoms
    BY DEF ShortAtoms
  <2> QED
    BY <1>3, <2>1
<1>6. ASSUME NEW f \in Formulas PROVE f \in NonEmpty(NonEmpty(Atoms))
  <2>1. CASE f \in {<<t>> : t \in UpTo(Atoms, 2) \ {<< >>}}
    BY <1>1, <1>3, <2>1, Zenon
  <2>2. CASE f \in UNION {FormulasWith(a) : a \in ShortAtoms}
    <3>1. PICK a \in ShortAtoms : f \in FormulasWith(a)
      BY <2>2
    <3>2. PICK t \in UpTo(ShortAtoms, 2) \ {<< >>} : f = <<t, <<a>>>>
      BY <3>1, Zenon DEF FormulasWith
    <3>3. t \in NonEmpty(Atoms) /\ <<a>> \in NonEmpty(Atoms)
      BY <1>2, <1>5
    <3> QED
      BY <1>4, <3>2, <3>3, Zenon
  <2> QED
    BY <1>6, <2>1, <2>2, Zenon DEF Formulas
<1> QED
  BY <1>6

\* For the run's formulas, styles and answers, in every state.
THEOREM FormulasDecide == Spec => []WhenIsItsFormula
<1>1. Answered => WhenIsItsFormula
  <2> SUFFICES ASSUME Answered, Returned("when"), Fits(call.formula, call.style)
               PROVE  result <=> Meaning(call.formula, call.ans)
    BY DEF WhenIsItsFormula
  <2>1. call \in WhenCalls
    BY CallsByName DEF Answered, Returned
  <2>2. call.formula \in Formulas /\ call.style \in Styles
    BY <2>1 DEF WhenCalls
  <2>3. result = WhenEval(FormulaText(call.formula, call.style), call.ans)
    BY Zenon DEF Answered
  <2>4. /\ StyleOK(call.style) /\ Writable(Atoms, call.style)
        /\ call.formula \in NonEmpty(NonEmpty(Atoms))
    BY <2>2, AtomsAreOK, FormulasAreOfAtoms
  <2>5. WhenEval(FormulaText(call.formula, call.style), call.ans)
          <=> Meaning(call.formula, call.ans)
    BY <2>4, FormulaIsItsMeaning
  <2> QED
    BY <2>3, <2>5, Zenon
<1> QED
  BY <1>1, CallsAreAnswered, PTL

\* The run's answers are texts with no line end in them.
LEMMA TypedAreTexts ==
  \A value \in UpTo(Typed, 4) :
    value \in Texts /\ \A n \in 1..Len(value) : value[n] # NL
<1> SUFFICES ASSUME NEW m \in 0..4, NEW value \in [1..m -> Typed]
             PROVE  value \in Texts /\ \A n \in 1..Len(value) : value[n] # NL
  BY DEF UpTo
<1>1. \A c \in Typed : c \in Chars
  BY Zenon DEF Typed, Chars, Syntax, Letters
<1>2. \A c \in Typed : c # NL
  BY Zenon DEF Typed, NL, DQ, BS, Apostrophe, Hash, Return
<1> HIDE DEF Typed
<1>3. m \in Nat /\ value \in Seq(Typed) /\ \A n \in 1..m : value[n] \in Typed
  OBVIOUS
<1>4. Len(value) = m /\ value \in Texts
  BY <1>1, <1>3 DEF Texts
<1> QED
  BY <1>2, <1>3, <1>4

\* For the run's answers, in every state.
THEOREM PlainAnswersReturn == Spec => []PlainAnswersComeBack
<1>1. Answered => PlainAnswersComeBack
  <2> SUFFICES ASSUME Answered, Returned("answer")
               PROVE  result = call.value <=> Plain(call.value)
    BY DEF PlainAnswersComeBack
  <2>1. call \in AnswerCalls
    BY CallsByName DEF Answered, Returned
  <2>2. call.value \in UpTo(Typed, 4)
    BY <2>1 DEF AnswerCalls
  <2>3. result = ReadBack(call.value)
    BY Zenon DEF Answered
  <2> HIDE DEF Typed
  <2>4. call.value # Unreadable /\ call.value # Missing
    BY <2>2, AnswersAssumption
  <2>5. call.value \in Texts /\ \A n \in 1..Len(call.value) : call.value[n] # NL
    BY <2>2, TypedAreTexts
  <2>6. ReadBack(call.value) = call.value <=> Plain(call.value)
    BY <2>4, <2>5, OnlyPlainComesBack
  <2> QED
    BY <2>3, <2>6, Zenon
<1> QED
  BY <1>1, CallsAreAnswered, PTL
=============================================================================
