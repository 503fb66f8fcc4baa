-------------------------- MODULE LineReader_proofs --------------------------
(***************************************************************************)
(* The line readers, whatever a child prints and however it is cut: they   *)
(* stay within their buffers, and they are a channel of whole lines.       *)
(* Proofs for every size of the buffers, the pipe and the output.          *)
(***************************************************************************)
EXTENDS MCLineReader, SequenceTheorems, WellFoundedInduction, TLAPS

-----------------------------------------------------------------------------
(* Induction: over numbers, over texts, over the rounds of a loop. *)

\* A set of natural numbers has a least one.
LEMMA LeastNumber ==
  ASSUME NEW S, S \subseteq Nat, S # {}
  PROVE  \E l \in S : \A k \in S : l <= k
<1>1. \E x \in S : \A y \in S : ~(<<y, x>> \in OpToRel(<, Nat))
  BY WFMin, NatLessThanWellFounded
<1>2. PICK x \in S : \A y \in S : ~(<<y, x>> \in OpToRel(<, Nat))
  BY <1>1
<1>3. \A y \in S : <<y, x>> \in Nat \X Nat /\ (y < x => <<y, x>> \in OpToRel(<, Nat))
  BY DEF OpToRel
<1>4. \A y \in S : ~(y < x)
  BY <1>2, <1>3
<1> QED
  BY <1>4

\* A set of texts that has the empty one, and each of them with one byte more,
\* has them all.
LEMMA TextInduction ==
  ASSUME NEW S, NEW good, << >> \in good,
         \A t \in Seq(S) : \A c \in S : t \in good => Append(t, c) \in good
  PROVE  Seq(S) \subseteq good
<1> SUFFICES ASSUME NEW t \in Seq(S), t \notin good PROVE FALSE
  OBVIOUS
<1> DEFINE bad == {n \in 0..Len(t) : SubSeq(t, 1, n) \notin good}
<1>1. Len(t) \in Nat
  OBVIOUS
<1>2. SubSeq(t, 1, Len(t)) = t
  BY SubSeqFull
<1>3. bad \subseteq Nat /\ bad # {}
  <2>1. Len(t) \in 0..Len(t)
    BY <1>1
  <2>2. SubSeq(t, 1, Len(t)) \notin good
    BY <1>2, Zenon
  <2> QED
    BY <2>1, <2>2
<1>4. PICK l \in bad : \A k \in bad : l <= k
  BY <1>3, LeastNumber
<1>5. l # 0
  <2>1. SubSeq(t, 1, 0) = << >>
    BY SubSeqEmpty
  <2>2. SubSeq(t, 1, 0) \in good
    BY <2>1, Zenon
  <2> QED
    BY <2>2
<1>6. l \in 1..Len(t) /\ l - 1 \in 0..Len(t) /\ ~(l <= l - 1)
  BY <1>1, <1>5
<1>7. SubSeq(t, 1, l - 1) \in good
  BY <1>4, <1>6
<1>8. SubSeq(t, 1, l - 1) \in Seq(S) /\ t[l] \in S
  BY <1>1, <1>6
<1>9. SubSeq(t, 1, l) = Append(SubSeq(t, 1, l - 1), t[l])
  BY <1>1, <1>6
<1> QED
  BY <1>4, <1>7, <1>8, <1>9

\* An element is added to the second part of a sequence, or to the whole.
LEMMA AppendAfter ==
  \A S : \A s \in Seq(S), t \in Seq(S), e \in S : s \o Append(t, e) = Append(s \o t, e)
<1> SUFFICES ASSUME NEW S, NEW s \in Seq(S), NEW t \in Seq(S), NEW e \in S
             PROVE  s \o Append(t, e) = Append(s \o t, e)
  OBVIOUS
<1>1. <<e>> \in Seq(S) /\ s \o t \in Seq(S)
  OBVIOUS
<1>2. Append(s \o t, e) = (s \o t) \o <<e>> /\ Append(t, e) = t \o <<e>>
  BY <1>1, AppendIsConcat
<1>3. (s \o t) \o <<e>> = s \o (t \o <<e>>)
  BY <1>1, ConcatAssociative
<1> QED
  BY <1>2, <1>3, Zenon

\* What is added comes after the first.
LEMMA AppendKeepsFirst ==
  ASSUME NEW S, NEW s \in Seq(S), s # << >>, NEW e \in S
  PROVE  Append(s, e) # << >> /\ Append(s, e)[1] = s[1]
<1>1. Len(s) \in Nat \ {0}
  OBVIOUS
<1> QED
  BY <1>1, AppendProperties

\* A byte may be taken from the right to the left.
LEMMA ByteMoves ==
  ASSUME NEW S, NEW s \in Seq(S), NEW t \in Seq(S), t # << >>
  PROVE  Append(s, Head(t)) \o Tail(t) = s \o t
<1> DEFINE h == Head(t)
           r == Tail(t)
<1>1. h \in S /\ r \in Seq(S) /\ <<h>> \in Seq(S)
  OBVIOUS
<1>2. t = <<h>> \o r
  OBVIOUS
<1>3. Append(s, h) = s \o <<h>>
  BY <1>1, AppendIsConcat
<1> HIDE DEF h, r
<1>4. (s \o <<h>>) \o r = s \o (<<h>> \o r)
  BY <1>1, ConcatAssociative
<1>5. Append(s, h) \o r = s \o t
  BY <1>2, <1>3, <1>4, Zenon
<1> QED
  BY <1>5 DEF h, r

-----------------------------------------------------------------------------
(* What a text says. *)

Bytes == Chars \cup {NL}
Saying == [ended : Seq(Seq(Chars)), rest : Seq(Chars)]
Silence == [ended |-> << >>, rest |-> << >>]

\* Three pieces of a text; a piece that gets one byte more.
LEMMA BytesAssociate ==
  \A s \in Seq(Bytes), t \in Seq(Bytes), u \in Seq(Bytes) : (s \o t) \o u = s \o (t \o u)
  BY ConcatAssociative

LEMMA ByteAfterBytes ==
  \A s \in Seq(Bytes), t \in Seq(Bytes), e \in Bytes : s \o Append(t, e) = Append(s \o t, e)
  BY AppendAfter

\* Hearing a byte, one has heard lines and a rest.
LEMMA HearsType ==
  ASSUME NEW said \in Saying, NEW c \in Bytes
  PROVE  Hears(said, c) \in Saying
<1>1. said.ended \in Seq(Seq(Chars)) /\ said.rest \in Seq(Chars)
  BY DEF Saying
<1>2. CASE c = NL
  <2>1. Hears(said, c).ended = IF said.rest = << >> THEN said.ended
                               ELSE Append(said.ended, said.rest)
    BY <1>2 DEF Hears
  <2>2. Hears(said, c).rest = << >> /\ << >> \in Seq(Chars)
    BY <1>2 DEF Hears
  <2>3. Append(said.ended, said.rest) \in Seq(Seq(Chars))
    BY <1>1
  <2> QED
    BY <1>1, <1>2, <2>2, <2>3 DEF Hears, Saying
<1>3. CASE c # NL
  <2>1. Append(said.rest, c) \in Seq(Chars)
    BY <1>1, <1>3 DEF Bytes
  <2> QED
    BY <1>1, <1>3, <2>1 DEF Hears, Saying
<1> QED
  BY <1>2, <1>3

\* What has been said after each byte.
Recited(text, f) ==
  /\ f \in [0..Len(text) -> Saying]
  /\ f[0] = Silence
  /\ \A n \in 1..Len(text) : f[n] = Hears(f[n - 1], text[n])

\* Every text can be recited,
LEMMA RecitalExists ==
  ASSUME NEW text \in Seq(Bytes)
  PROVE  \E f : Recited(text, f)
<1> DEFINE good == {t \in Seq(Bytes) : \E f : Recited(t, f)}
<1>1. << >> \in good
  <2>1. Silence \in Saying
    BY DEF Silence, Saying
  <2>2. Recited(<< >>, [n \in 0..0 |-> Silence])
    BY <2>1 DEF Recited
  <2> QED
    BY <2>2
<1>2. ASSUME NEW t \in Seq(Bytes), NEW c \in Bytes, t \in good
      PROVE  Append(t, c) \in good
  <2> DEFINE u == Append(t, c)
             N == Len(t)
  <2>1. /\ u \in Seq(Bytes) /\ N \in Nat /\ Len(u) = N + 1 /\ u[N + 1] = c
        /\ \A n \in 1..N : u[n] = t[n]
    BY AppendProperties
  <2>2. PICK f : Recited(t, f)
    BY <1>2
  <2> DEFINE last == Hears(f[N], c)
             g == [n \in 0..(N + 1) |-> IF n = N + 1 THEN last ELSE f[n]]
  <2>3. f[N] \in Saying /\ last \in Saying
    BY <2>1, <2>2, HearsType DEF Recited
  <2> HIDE DEF last
  <2>4. g \in [0..(N + 1) -> Saying]
    BY <2>1, <2>2, <2>3 DEF Recited
  <2>5. g[0] = Silence
    BY <2>1, <2>2 DEF Recited
  <2>6. ASSUME NEW n \in 1..(N + 1) PROVE g[n] = Hears(g[n - 1], u[n])
    <3>1. CASE n = N + 1
      <4>1. n - 1 = N /\ n # N /\ n \in 0..(N + 1) /\ N \in 0..(N + 1) /\ N # N + 1
        BY <2>1, <3>1, SMTT(40)
      <4>2. g[n] = last /\ g[n - 1] = f[N]
        BY <3>1, <4>1, Zenon
      <4> QED
        BY <2>1, <3>1, <4>2 DEF last
    <3>2. CASE n # N + 1
      <4>1. /\ n \in 1..N /\ n \in 0..(N + 1)
            /\ n - 1 \in 0..(N + 1) /\ n - 1 # N + 1
        BY <2>1, <3>2
      <4> QED
        BY <2>1, <2>2, <3>2, <4>1 DEF Recited
    <3> QED
      BY <3>1, <3>2
  <2> HIDE DEF g, u, N
  <2>7. Recited(u, g)
    BY <2>1, <2>4, <2>5, <2>6 DEF Recited
  <2> QED
    BY <2>1, <2>7 DEF u
<1> HIDE DEF good
<1>3. Seq(Bytes) \subseteq good
  BY <1>1, <1>2, TextInduction
<1> QED
  BY <1>3 DEF good

\* and in one way only, and Said is the end of it.
LEMMA SaidIsRecited ==
  ASSUME NEW text \in Seq(Bytes), NEW f, Recited(text, f)
  PROVE  Said(text) = f[Len(text)]
<1> DEFINE N == Len(text)
           Is(h) == h = [n \in 0..N |-> IF n = 0 THEN Silence
                                        ELSE Hears(h[n - 1], text[n])]
           after == CHOOSE h : Is(h)
<1>1. N \in Nat
  OBVIOUS
<1>2. Is(f)
  <2>1. \A n \in 0..N : n # 0 => n \in 1..N
    BY <1>1
  <2> QED
    BY <2>1 DEF Recited
<1>3. Is(after)
  BY <1>2
<1>4. Said(text) = after[N]
  BY DEF Said, Silence
<1> HIDE DEF after
<1>5. \A n \in 0..N : after[n] = f[n]
  <2> DEFINE bad == {n \in 0..N : after[n] # f[n]}
  <2> SUFFICES ASSUME bad # {} PROVE FALSE
    OBVIOUS
  <2>1. bad \subseteq Nat
    OBVIOUS
  <2>2. PICK l \in bad : \A k \in bad : l <= k
    BY <2>1, LeastNumber
  <2>3. l # 0
    BY <1>1, <1>3 DEF Recited
  <2>4. l \in 1..N /\ l - 1 \in 0..N /\ ~(l <= l - 1)
    BY <1>1, <2>3
  <2>5. after[l - 1] = f[l - 1]
    BY <2>2, <2>4
  <2>6. after[l] = Hears(after[l - 1], text[l])
    BY <1>3, <2>3
  <2> QED
    BY <2>2, <2>4, <2>5, <2>6 DEF Recited
<1> QED
  BY <1>1, <1>4, <1>5

\* Nothing says nothing; a byte more is heard after all the others.
LEMMA SaidByBytes ==
  /\ Said(<< >>) = Silence
  /\ \A t \in Seq(Bytes) : Said(t) \in Saying
  /\ \A t \in Seq(Bytes), c \in Bytes : Said(Append(t, c)) = Hears(Said(t), c)
<1>1. Said(<< >>) = Silence
  <2>1. << >> \in Seq(Bytes) /\ Len(<< >>) = 0
    OBVIOUS
  <2>2. PICK f : Recited(<< >>, f)
    BY <2>1, RecitalExists
  <2> QED
    BY <2>1, <2>2, SaidIsRecited DEF Recited
<1>2. ASSUME NEW t \in Seq(Bytes) PROVE Said(t) \in Saying
  <2>1. PICK f : Recited(t, f)
    BY RecitalExists
  <2>2. Len(t) \in 0..Len(t)
    OBVIOUS
  <2>3. f[Len(t)] \in Saying
    BY <2>1, <2>2 DEF Recited
  <2> QED
    BY <2>1, <2>3, SaidIsRecited
<1>3. ASSUME NEW t \in Seq(Bytes), NEW c \in Bytes
      PROVE  Said(Append(t, c)) = Hears(Said(t), c)
  <2> DEFINE u == Append(t, c)
             N == Len(t)
  <2>1. /\ u \in Seq(Bytes) /\ N \in Nat /\ Len(u) = N + 1 /\ u[N + 1] = c
        /\ \A n \in 1..N : u[n] = t[n]
    BY AppendProperties
  <2>2. PICK g : Recited(u, g)
    BY <2>1, RecitalExists
  <2> DEFINE f == [n \in 0..N |-> g[n]]
  <2>3. Recited(t, f)
    <3>1. \A n \in 0..N : n \in 0..(N + 1)
      BY <2>1
    <3>2. \A n \in 1..N : n \in 1..(N + 1) /\ n \in 0..N /\ n - 1 \in 0..N
      BY <2>1
    <3>3. f \in [0..N -> Saying] /\ f[0] = Silence
      BY <2>1, <2>2, <3>1 DEF Recited
    <3>4. \A n \in 1..N : f[n] = Hears(f[n - 1], t[n])
      BY <2>1, <2>2, <3>2 DEF Recited
    <3> HIDE DEF f
    <3> QED
      BY <3>3, <3>4 DEF Recited
  <2>4. Said(t) = f[N]
    <3> HIDE DEF f
    <3> QED
      BY <2>3, SaidIsRecited
  <2>5. Said(u) = g[N + 1]
    BY <2>1, <2>2, SaidIsRecited
  <2>6. g[N + 1] = Hears(g[N], c)
    <3>1. N + 1 \in 1..(N + 1) /\ (N + 1) - 1 = N
      BY <2>1
    <3> QED
      BY <2>1, <2>2, <3>1 DEF Recited
  <2>7. f[N] = g[N]
    BY <2>1
  <2> QED
    BY <2>4, <2>5, <2>6, <2>7
<1> QED
  BY <1>1, <1>2, <1>3

\* Without a newline there is only the rest.
LEMMA SaidUnended ==
  ASSUME NEW text \in Seq(Chars)
  PROVE  Said(text) = [ended |-> << >>, rest |-> text]
<1> DEFINE good == {t \in Seq(Chars) : Said(t) = [ended |-> << >>, rest |-> t]}
<1>1. << >> \in good
  BY SaidByBytes DEF Silence
<1>2. ASSUME NEW t \in Seq(Chars), NEW c \in Chars, t \in good
      PROVE  Append(t, c) \in good
  <2>1. t \in Seq(Bytes) /\ c \in Bytes /\ c # NL /\ Append(t, c) \in Seq(Chars)
    BY ReaderAssumption, SeqMonotonic DEF Bytes
  <2>2. Said(Append(t, c)) = Hears(Said(t), c)
    BY <2>1, SaidByBytes
  <2>3. Said(t) = [ended |-> << >>, rest |-> t]
    BY <1>2
  <2> QED
    BY <2>1, <2>2, <2>3 DEF Hears
<1> HIDE DEF good
<1>3. Seq(Chars) \subseteq good
  BY <1>1, <1>2, TextInduction
<1> QED
  BY <1>3 DEF good

\* The same of lines.
LEMMA LinesAfter ==
  \A s \in Seq(Seq(Chars)), t \in Seq(Seq(Chars)), e \in Seq(Chars) :
    s \o Append(t, e) = Append(s \o t, e)
  BY AppendAfter

\* After the end of a line, what follows is said as if it came first.
LEMMA SaidAfterLine ==
  ASSUME NEW first \in Seq(Bytes), Said(first).rest = << >>, NEW text \in Seq(Bytes)
  PROVE  /\ Said(first \o text).ended = Said(first).ended \o Said(text).ended
         /\ Said(first \o text).rest = Said(text).rest
<1> DEFINE L == Said(first).ended
           good == {t \in Seq(Bytes) : /\ Said(first \o t).ended = L \o Said(t).ended
                                       /\ Said(first \o t).rest = Said(t).rest}
<1>1. L \in Seq(Seq(Chars))
  BY SaidByBytes DEF Saying
<1>2. << >> \in good
  <2>1. first \o << >> = first /\ L \o << >> = L
    BY <1>1, ConcatEmptySeq
  <2>2. Said(<< >>).ended = << >> /\ Said(<< >>).rest = << >> /\ << >> \in Seq(Bytes)
    BY SaidByBytes DEF Silence
  <2> QED
    BY <2>1, <2>2
<1>3. ASSUME NEW t \in Seq(Bytes), NEW c \in Bytes, t \in good
      PROVE  Append(t, c) \in good
  <2> DEFINE X == Said(first \o t)
             Y == Said(t)
             u == Append(t, c)
  <2>1. /\ u \in Seq(Bytes) /\ first \o t \in Seq(Bytes)
        /\ first \o u = Append(first \o t, c)
    OBVIOUS
  <2>2. Said(first \o u) = Hears(X, c) /\ Said(u) = Hears(Y, c)
    BY <2>1, SaidByBytes
  <2>3. X \in Saying /\ Y \in Saying
    BY <2>1, SaidByBytes
  <2>4. X.ended = L \o Y.ended /\ X.rest = Y.rest
    BY <1>3
  <2> HIDE DEF L, X, Y, u
  <2>5. Hears(X, c).ended = L \o Hears(Y, c).ended /\ Hears(X, c).rest = Hears(Y, c).rest
    <3>1. /\ Y.ended \in Seq(Seq(Chars)) /\ Y.rest \in Seq(Chars)
          /\ Hears(X, c).rest = Hears(Y, c).rest
      BY <2>3, <2>4 DEF Hears, Saying
    <3>2. CASE c # NL \/ Y.rest = << >>
      <4>1. Hears(X, c).ended = X.ended /\ Hears(Y, c).ended = Y.ended
        BY <2>3, <2>4, <3>2 DEF Hears, Saying
      <4> QED
        BY <2>4, <3>1, <4>1, Zenon
    <3>3. CASE c = NL /\ Y.rest # << >>
      <4>1. /\ Hears(X, c).ended = Append(X.ended, Y.rest)
            /\ Hears(Y, c).ended = Append(Y.ended, Y.rest)
        BY <2>4, <3>3 DEF Hears
      <4>2. L \o Append(Y.ended, Y.rest) = Append(L \o Y.ended, Y.rest)
        BY <1>1, <3>1, LinesAfter
      <4>3. Hears(X, c).ended = L \o Append(Y.ended, Y.rest)
        BY <2>4, <4>1, <4>2
      <4> QED
        BY <3>1, <4>1, <4>3
    <3> QED
      BY <3>2, <3>3
  <2> QED
    BY <2>1, <2>2, <2>5 DEF L, u
<1> HIDE DEF good
<1>4. Seq(Bytes) \subseteq good
  BY <1>2, <1>3, TextInduction
<1> QED
  BY <1>4 DEF good, L

\* A text that begins without a newline says nothing shorter first.
LEMMA SaidNoShorter ==
  ASSUME NEW first \in Seq(Chars), first # << >>, NEW text \in Seq(Bytes)
  PROVE  LET said == Said(first \o text)
         IN  IF said.ended = << >> THEN Len(said.rest) >= Len(first)
                                   ELSE Len(said.ended[1]) >= Len(first)
<1> DEFINE long(said) == IF said.ended = << >> THEN Len(said.rest) >= Len(first)
                                               ELSE Len(said.ended[1]) >= Len(first)
           good == {t \in Seq(Bytes) : long(Said(first \o t))}
<1>1. first \in Seq(Bytes)
  BY SeqMonotonic DEF Bytes
<1>2. << >> \in good
  <2>1. first \o << >> = first /\ << >> \in Seq(Bytes) /\ Len(first) \in Nat
    BY <1>1, ConcatEmptySeq
  <2>2. Said(first).ended = << >> /\ Said(first).rest = first
    BY SaidUnended
  <2> QED
    BY <2>1, <2>2
<1>3. ASSUME NEW t \in Seq(Bytes), NEW c \in Bytes, t \in good
      PROVE  Append(t, c) \in good
  <2> DEFINE X == Said(first \o t)
             u == Append(t, c)
  <2>1. /\ u \in Seq(Bytes) /\ first \o t \in Seq(Bytes)
        /\ first \o u = Append(first \o t, c)
    BY <1>1
  <2>2. Said(first \o u) = Hears(X, c) /\ X \in Saying
    BY <2>1, SaidByBytes
  <2>3. long(X)
    BY <1>3
  <2> HIDE DEF X, u
  <2>4. /\ X.ended \in Seq(Seq(Chars)) /\ X.rest \in Seq(Chars)
        /\ Len(first) \in Nat \ {0} /\ Len(X.rest) \in Nat
    BY <2>2 DEF Saying
  <2>5. long(Hears(X, c))
    <3>1. CASE c # NL
      <4>1. Hears(X, c).ended = X.ended /\ Hears(X, c).rest = Append(X.rest, c)
        BY <2>2, <3>1 DEF Hears, Saying
      <4>2. Len(Append(X.rest, c)) = Len(X.rest) + 1
        BY <2>4
      <4> QED
        BY <2>3, <2>4, <4>1, <4>2
    <3>2. CASE c = NL /\ X.ended = << >>
      <4>1. X.rest # << >>
        BY <2>3, <2>4, <3>2
      <4>2. Hears(X, c).ended = Append(X.ended, X.rest)
        BY <3>2, <4>1 DEF Hears
      <4>3. Append(X.ended, X.rest) # << >> /\ Append(X.ended, X.rest)[1] = X.rest
        BY <2>4, <3>2
      <4> QED
        BY <2>3, <3>2, <4>2, <4>3
    <3>3. CASE c = NL /\ X.ended # << >>
      <4>1. Hears(X, c).ended = X.ended \/ Hears(X, c).ended = Append(X.ended, X.rest)
        BY <3>3 DEF Hears
      <4>2. /\ Append(X.ended, X.rest) # << >>
            /\ Append(X.ended, X.rest)[1] = X.ended[1]
        BY <2>4, <3>3, AppendKeepsFirst
      <4> QED
        BY <2>3, <3>3, <4>1, <4>2
    <3> QED
      BY <3>1, <3>2, <3>3
  <2> HIDE DEF long
  <2> QED
    BY <2>1, <2>2, <2>5 DEF u
<1> HIDE DEF good
<1>4. Seq(Bytes) \subseteq good
  BY <1>2, <1>3, TextInduction
<1> QED
  BY <1>4 DEF good

-----------------------------------------------------------------------------
(* The buffers. *)

\* What is in the pipe is bytes of the child.
BytesInv == /\ BufferFits
            /\ rd \in Seq(Chars \cup {NL})
            /\ pipe \in Seq(Chars \cup {NL})

USE ReaderAssumption

\* The first n bytes of the pipe, and the rest, for a read that takes n.
LEMMA ReadSplits ==
  ASSUME NEW S, NEW s \in Seq(S), s # << >>
  PROVE  LET n == Shorter(Len(s), RdSize)
         IN  /\ n \in 1 .. Len(s) /\ n <= RdSize
             /\ SubSeq(s, 1, n) \in Seq(S) /\ Len(SubSeq(s, 1, n)) = n
             /\ SubSeq(s, n + 1, Len(s)) \in Seq(S)
<1> DEFINE n == Shorter(Len(s), RdSize)
<1>1. Len(s) \in Nat \ {0}
  OBVIOUS
<1>2. n \in 1 .. Len(s) /\ n <= RdSize
  BY <1>1 DEF Shorter
<1>3. /\ SubSeq(s, 1, n) \in Seq(S) /\ Len(SubSeq(s, 1, n)) = n
      /\ SubSeq(s, n + 1, Len(s)) \in Seq(S)
  BY <1>1, <1>2
<1> QED
  BY <1>2, <1>3

\* The steps of the reader keep the buffers in bounds.
LEMMA ReadKeepsBytes ==
  ASSUME BytesInv, Read
  PROVE  BytesInv'
<1>1. /\ pipe \in Seq(Chars \cup {NL}) /\ pipe # << >>
      /\ Len(ibuf) < IbufSize /\ ibuf \in Seq(Chars) /\ ibuf' = ibuf
  BY DEF BytesInv, BufferFits, Read
<1> DEFINE n == Shorter(Len(pipe), RdSize)
<1>2. rd' = SubSeq(pipe, 1, n) /\ pipe' = SubSeq(pipe, n + 1, Len(pipe))
  BY DEF Read
<1>3. /\ n <= RdSize /\ Len(SubSeq(pipe, 1, n)) = n
      /\ SubSeq(pipe, 1, n) \in Seq(Chars \cup {NL})
      /\ SubSeq(pipe, n + 1, Len(pipe)) \in Seq(Chars \cup {NL})
  BY <1>1, ReadSplits
<1> QED
  BY <1>1, <1>2, <1>3 DEF BytesInv, BufferFits

LEMMA KeepByteKeepsBytes ==
  ASSUME BytesInv, KeepByte
  PROVE  BytesInv'
<1>1. /\ rd \in Seq(Chars \cup {NL}) /\ rd # << >> /\ Len(rd) <= RdSize
      /\ ibuf \in Seq(Chars) /\ Head(rd) # NL /\ ~Full
      /\ pipe' = pipe /\ pipe \in Seq(Chars \cup {NL})
      /\ ibuf' = Append(ibuf, Head(rd)) /\ rd' = Tail(rd)
  BY DEF BytesInv, BufferFits, KeepByte
<1>2. Head(rd) \in Chars
  BY <1>1
<1>3. ibuf' \in Seq(Chars) /\ Len(ibuf') = Len(ibuf) + 1
  BY <1>1, <1>2
<1>4. Len(ibuf) + 1 < IbufSize
  BY <1>1 DEF Full
<1>5. Tail(rd) \in Seq(Chars \cup {NL}) /\ Len(Tail(rd)) <= RdSize
  BY <1>1
<1> QED
  BY <1>1, <1>3, <1>4, <1>5 DEF BytesInv, BufferFits

LEMMA EndLineKeepsBytes ==
  ASSUME BytesInv, EndLine
  PROVE  BytesInv'
<1>1. /\ rd \in Seq(Chars \cup {NL}) /\ rd # << >> /\ Len(rd) <= RdSize
      /\ pipe \in Seq(Chars \cup {NL}) /\ ibuf' = << >>
  BY DEF BytesInv, BufferFits, EndLine
<1>2. \/ rd' = << >> /\ pipe' = << >>
      \/ rd' = Tail(rd) /\ pipe' = pipe
  BY DEF EndLine
<1>3. Tail(rd) \in Seq(Chars \cup {NL}) /\ Len(Tail(rd)) <= RdSize
  BY <1>1
<1>4. /\ << >> \in Seq(Chars) /\ << >> \in Seq(Chars \cup {NL})
      /\ Len(<< >>) = 0 /\ 0 < IbufSize /\ 0 <= RdSize
  OBVIOUS
<1>5. ibuf' \in Seq(Chars) /\ Len(ibuf') < IbufSize
  BY <1>1, <1>4
<1>6. /\ rd' \in Seq(Chars \cup {NL}) /\ Len(rd') <= RdSize
      /\ pipe' \in Seq(Chars \cup {NL})
  BY <1>1, <1>2, <1>3, <1>4
<1> QED
  BY <1>5, <1>6 DEF BytesInv, BufferFits

\* ibuf[] keeps room for its closing NUL, and rd[] is never overrun: install_poll
\* and apply_poll stay within their arrays whatever the child prints and however
\* its output is cut, at every start.
THEOREM ReaderFits == Spec => []BufferFits
<1>1. Init => BytesInv
  <2> SUFFICES ASSUME Init PROVE BytesInv
    OBVIOUS
  <2>1. /\ << >> \in Seq(Chars) /\ << >> \in Seq(Chars \cup {NL})
        /\ Len(<< >>) = 0 /\ 0 < IbufSize /\ 0 <= RdSize
    OBVIOUS
  <2> QED
    BY <2>1 DEF Init, BytesInv, BufferFits
<1>2. BytesInv /\ [Next]_vars => BytesInv'
  <2> SUFFICES ASSUME BytesInv, [Next]_vars PROVE BytesInv'
    OBVIOUS
  <2> USE DEF BytesInv, BufferFits
  <2>1. CASE Start
    <3>1. /\ << >> \in Seq(Chars) /\ << >> \in Seq(Chars \cup {NL})
          /\ Len(<< >>) = 0 /\ 0 < IbufSize /\ 0 <= RdSize
      OBVIOUS
    <3> QED
      BY <2>1, <3>1 DEF Start
  <2>2. ASSUME NEW c \in Chars \cup {NL}, WriteChar(c) PROVE BytesInv'
    BY <2>2 DEF WriteChar, readerVars
  <2>3. CASE WriterEnds
    BY <2>3 DEF WriterEnds, readerVars
  <2>4. CASE Read
    BY <2>4, ReadKeepsBytes
  <2>5. CASE KeepByte
    BY <2>5, KeepByteKeepsBytes
  <2>6. CASE EndLine
    BY <2>6, EndLineKeepsBytes
  <2>7. CASE Eof
    BY <2>7 DEF Eof
  <2>8. CASE UNCHANGED vars
    BY <2>8 DEF vars, readerVars
  <2> QED
    BY <2>1, <2>2, <2>3, <2>4, <2>5, <2>6, <2>7, <2>8 DEF Next, Poll
<1>3. BytesInv => BufferFits
  BY DEF BytesInv
<1> QED
  BY <1>1, <1>2, <1>3, PTL DEF Spec
-----------------------------------------------------------------------------
(* The lines. *)

\* For lines that fit: every line the text says fits, and the line that the child
\* is writing is the one that the text has not ended.
LinesInv ==
  /\ BytesInv
  /\ line \in Seq(Chars) /\ Len(line) <= MaxLine
  /\ fd => /\ Said(Text).rest = line
           /\ \A n \in 1..Len(Said(Text).ended) : Len(Said(Text).ended[n]) <= MaxLine

\* Text, and what it says, are what their names promise.
LEMMA TextType ==
  ASSUME BytesInv
  PROVE  /\ Chars \subseteq Bytes /\ NL \in Bytes /\ NL \notin Chars
         /\ ibuf \in Seq(Bytes) /\ rd \in Seq(Bytes) /\ pipe \in Seq(Bytes)
         /\ Text \in Seq(Bytes)
         /\ Said(Text) \in Saying
<1>1. Chars \subseteq Bytes /\ NL \in Bytes /\ NL \notin Chars
  BY DEF Bytes
<1>2. ibuf \in Seq(Bytes) /\ rd \in Seq(Bytes) /\ pipe \in Seq(Bytes)
  <2>1. ibuf \in Seq(Chars) /\ rd \in Seq(Bytes) /\ pipe \in Seq(Bytes)
    BY DEF BytesInv, BufferFits, Bytes
  <2> QED
    BY <1>1, <2>1, SeqMonotonic
<1>3. Text \in Seq(Bytes)
  BY <1>2, ConcatProperties DEF Text
<1> QED
  BY <1>1, <1>2, <1>3, SaidByBytes

\* The channel's step, where the text stays as it is.
LEMMA SameText ==
  ASSUME LinesInv, Text' = Text, fd' = fd, taken' = taken, line' = line, BytesInv'
  PROVE  LinesInv' /\ UNCHANGED Channel!chanVars
<1>1. LinesInv'
  BY DEF LinesInv
<1> QED
  BY <1>1 DEF Channel!chanVars

\* A read moves bytes from the pipe to rd[].
LEMMA ReadIsSilent ==
  ASSUME LinesInv, Read
  PROVE  LinesInv' /\ UNCHANGED Channel!chanVars
<1>1. BytesInv
  BY DEF LinesInv
<1>2. BytesInv'
  BY <1>1, ReadKeepsBytes
<1> DEFINE n == Shorter(Len(pipe), RdSize)
<1>3. /\ rd = << >> /\ pipe # << >> /\ ibuf' = ibuf
      /\ rd' = SubSeq(pipe, 1, n) /\ pipe' = SubSeq(pipe, n + 1, Len(pipe))
      /\ fd' = fd /\ taken' = taken /\ line' = line
  BY DEF Read, writerVars
<1>4. ibuf \in Seq(Bytes) /\ pipe \in Seq(Bytes)
  BY <1>1, TextType
<1>5. n \in 1..Len(pipe)
  BY <1>3, <1>4, ReadSplits
<1>6. rd' \in Seq(Bytes) /\ pipe' \in Seq(Bytes)
  BY <1>2 DEF BytesInv, Bytes
<1> HIDE DEF n
<1>7. rd' \o pipe' = pipe
  <2>1. SubSeq(pipe, 1, n) \o SubSeq(pipe, n + 1, Len(pipe)) = SubSeq(pipe, 1, Len(pipe))
    <3>1. 1 \in 1..(Len(pipe) + 1) /\ n \in (1 - 1)..Len(pipe) /\ Len(pipe) \in n..Len(pipe)
      BY <1>4, <1>5
    <3> QED
      BY <1>4, <3>1, ConcatAdjacentSubSeq
  <2>2. SubSeq(pipe, 1, Len(pipe)) = pipe
    BY <1>4, SubSeqFull
  <2> QED
    BY <1>3, <2>1, <2>2, Zenon
<1>8. Text' = Text
  <2>1. (ibuf \o rd') \o pipe' = ibuf \o (rd' \o pipe')
    BY <1>4, <1>6, BytesAssociate, ZenonT(60)
  <2>2. ibuf \o << >> = ibuf
    BY <1>4, ConcatEmptySeq
  <2>3. Text' = (ibuf \o rd') \o pipe'
    BY <1>3 DEF Text
  <2>4. Text = (ibuf \o << >>) \o pipe
    BY <1>3 DEF Text
  <2> QED
    BY <1>7, <2>1, <2>2, <2>3, <2>4, Zenon
<1> QED
  BY <1>2, <1>3, <1>8, SameText

\* A byte moves from rd[] to ibuf[].
LEMMA KeepByteIsSilent ==
  ASSUME LinesInv, KeepByte
  PROVE  LinesInv' /\ UNCHANGED Channel!chanVars
<1>1. BytesInv
  BY DEF LinesInv
<1>2. BytesInv'
  BY <1>1, KeepByteKeepsBytes
<1>3. /\ rd # << >> /\ ibuf' = Append(ibuf, Head(rd)) /\ rd' = Tail(rd)
      /\ pipe' = pipe /\ fd' = fd /\ taken' = taken /\ line' = line
  BY DEF KeepByte, writerVars
<1>4. ibuf \in Seq(Bytes) /\ rd \in Seq(Bytes)
  BY <1>1, TextType
<1>5. Append(ibuf, Head(rd)) \o Tail(rd) = ibuf \o rd
  BY <1>3, <1>4, ByteMoves
<1>6. Text' = Text
  <2>1. Text' = (Append(ibuf, Head(rd)) \o Tail(rd)) \o pipe
    BY <1>3 DEF Text
  <2> QED
    BY <1>5, <2>1, Zenon DEF Text
<1> QED
  BY <1>2, <1>3, <1>6, SameText

\* What ends a line is a newline: ibuf[] is never full when a line that fits goes on.
LEMMA OnlyNewlineEnds ==
  ASSUME MaxLine < IbufSize, LinesInv, EndLine
  PROVE  Head(rd) = NL
<1> SUFFICES ASSUME Head(rd) # NL PROVE FALSE
  OBVIOUS
<1> DEFINE h == Head(rd)
           r == Tail(rd)
           p == Append(ibuf, h)
           t == r \o pipe
<1>1. /\ BytesInv /\ fd /\ rd # << >> /\ Full
      /\ Said(Text).rest = line /\ Len(line) <= MaxLine
      /\ \A n \in 1..Len(Said(Text).ended) : Len(Said(Text).ended[n]) <= MaxLine
  BY DEF LinesInv, EndLine
<1>2. /\ ibuf \in Seq(Chars) /\ ibuf \in Seq(Bytes) /\ rd \in Seq(Bytes) /\ pipe \in Seq(Bytes)
      /\ Said(Text) \in Saying
  BY <1>1, TextType DEF BytesInv, BufferFits
<1>3. h \in Chars /\ h \in Bytes /\ r \in Seq(Bytes)
  BY <1>1, <1>2 DEF Bytes
<1>4. p \in Seq(Chars) /\ p # << >> /\ Len(p) = Len(ibuf) + 1
  BY <1>2, <1>3, SMTT(40)
<1>5. Len(p) > MaxLine
  BY <1>1, <1>2, <1>4 DEF Full
<1>6. t \in Seq(Bytes) /\ p \in Seq(Bytes)
  BY <1>2, <1>3, ConcatProperties
<1>7. Text = p \o t
  <2>1. p \o r = ibuf \o rd
    BY <1>1, <1>2, ByteMoves
  <2> HIDE DEF p, r
  <2>2. p \in Seq(Bytes) /\ r \in Seq(Bytes) /\ pipe \in Seq(Bytes)
    BY <1>2, <1>3, <1>6
  <2>3. (p \o r) \o pipe = p \o (r \o pipe)
    BY <2>2, BytesAssociate, ZenonT(60)
  <2> QED
    BY <2>1, <2>3, Zenon DEF Text
<1> HIDE DEF p, t
<1>8. IF Said(Text).ended = << >> THEN Len(Said(Text).rest) >= Len(p)
                                 ELSE Len(Said(Text).ended[1]) >= Len(p)
  BY <1>4, <1>6, <1>7, SaidNoShorter
<1>9. Said(Text).ended # << >> => 1 \in 1..Len(Said(Text).ended)
                                  /\ Len(Said(Text).ended[1]) \in Nat
  BY <1>2, SMTT(40) DEF Saying
<1>10. Len(p) \in Nat /\ Len(line) \in Nat
  BY <1>4 DEF LinesInv
<1> QED
  BY <1>1, <1>5, <1>8, <1>9, <1>10

\* What is said when the line in ibuf[] is ended.
LEMMA LineIsFirst ==
  ASSUME BytesInv, rd # << >>, Head(rd) = NL
  PROVE  LET left == Said(Tail(rd) \o pipe)
         IN  /\ Tail(rd) \o pipe \in Seq(Bytes)
             /\ left \in Saying
             /\ Said(Text).rest = left.rest
             /\ ibuf = << >> => Said(Text).ended = left.ended
             /\ ibuf # << >> => Said(Text).ended = <<ibuf>> \o left.ended
<1> DEFINE r == Tail(rd)
           p == Append(ibuf, NL)
           t == r \o pipe
<1>1. /\ ibuf \in Seq(Chars) /\ ibuf \in Seq(Bytes) /\ rd \in Seq(Bytes) /\ pipe \in Seq(Bytes)
      /\ NL \in Bytes
  BY TextType DEF BytesInv, BufferFits
<1>2. r \in Seq(Bytes) /\ p \in Seq(Bytes)
  BY <1>1
<1>3. t \in Seq(Bytes)
  BY <1>1, <1>2, ConcatProperties
<1>4. Text = p \o t
  <2>1. p \o r = ibuf \o rd
    BY <1>1, ByteMoves
  <2> HIDE DEF p, r
  <2>2. p \in Seq(Bytes) /\ r \in Seq(Bytes) /\ pipe \in Seq(Bytes)
    BY <1>1, <1>2
  <2>3. (p \o r) \o pipe = p \o (r \o pipe)
    BY <2>2, BytesAssociate, ZenonT(60)
  <2> QED
    BY <2>1, <2>3, Zenon DEF Text
<1>5. Said(ibuf) = [ended |-> << >>, rest |-> ibuf]
  BY <1>1, SaidUnended
<1>6. Said(p) = Hears(Said(ibuf), NL)
  BY <1>1, SaidByBytes
<1>7. /\ Said(p).rest = << >>
      /\ Said(p).ended = IF ibuf = << >> THEN << >> ELSE <<ibuf>>
  BY <1>5, <1>6 DEF Hears
<1> HIDE DEF p, t
<1>8. /\ Said(p \o t).ended = Said(p).ended \o Said(t).ended
      /\ Said(p \o t).rest = Said(t).rest
  BY <1>2, <1>3, <1>7, SaidAfterLine
<1>9. Said(t) \in Saying /\ << >> \o Said(t).ended = Said(t).ended
  <2>1. Said(t) \in Saying
    BY <1>3, SaidByBytes
  <2>2. Said(t).ended \in Seq(Seq(Chars))
    BY <2>1 DEF Saying
  <2> QED
    BY <2>1, <2>2, ConcatEmptySeq
<1>10. ibuf = << >> => Said(Text).ended = Said(t).ended
  BY <1>4, <1>7, <1>8, <1>9
<1>11. ibuf # << >> => Said(Text).ended = <<ibuf>> \o Said(t).ended
  BY <1>4, <1>7, <1>8
<1>12. Said(Text).rest = Said(t).rest
  BY <1>4, <1>8
<1> QED
  BY <1>3, <1>9, <1>10, <1>11, <1>12 DEF t

\* A newline that ends a line makes it arrive, a newline after nothing does not.
LEMMA EndLineArrives ==
  ASSUME MaxLine < IbufSize, LinesInv, EndLine
  PROVE  LinesInv' /\ (Channel!Arrive \/ UNCHANGED Channel!chanVars)
<1>1. BytesInv /\ fd /\ rd # << >> /\ ibuf' = << >> /\ line' = line
  BY DEF LinesInv, EndLine, writerVars
<1>2. BytesInv'
  BY <1>1, EndLineKeepsBytes
<1>3. Head(rd) = NL
  BY OnlyNewlineEnds
<1> DEFINE left == Said(Tail(rd) \o pipe)
           now == Said(Text)
<1>4. /\ Tail(rd) \o pipe \in Seq(Bytes) /\ left \in Saying /\ now.rest = left.rest
      /\ ibuf = << >> => now.ended = left.ended
      /\ ibuf # << >> => now.ended = <<ibuf>> \o left.ended
  BY <1>1, <1>3, LineIsFirst
<1>5. /\ now.rest = line /\ \A n \in 1..Len(now.ended) : Len(now.ended[n]) <= MaxLine
      /\ line \in Seq(Chars) /\ Len(line) <= MaxLine
  BY <1>1 DEF LinesInv
<1>6. left.ended \in Seq(Seq(Chars)) /\ ibuf \in Seq(Chars)
  BY <1>1, <1>4 DEF Saying, BytesInv, BufferFits
<1>7. CASE ibuf \in Verdicts
  <2>1. /\ ibuf # << >> /\ fd' = FALSE /\ taken' = Append(taken, ibuf)
    BY <1>7 DEF EndLine
  <2>2. now.ended = <<ibuf>> \o left.ended
    BY <1>4, <2>1
  <2>3. now.ended # << >> /\ Head(now.ended) = ibuf
    <3> DEFINE M == left.ended
               T == Seq(Chars)
    <3>1. M \in Seq(T) /\ ibuf \in T
      BY <1>6
    <3> HIDE DEF M, T
    <3>2. <<ibuf>> \o M # << >> /\ Head(<<ibuf>> \o M) = ibuf
      BY <3>1
    <3> QED
      BY <2>2, <3>2 DEF M
  <2> HIDE DEF now
  <2>4. Channel!Arrive
    BY <1>1, <1>7, <2>1, <2>3 DEF Channel!Arrive, now
  <2>5. LinesInv'
    BY <1>2, <1>1, <1>5, <2>1 DEF LinesInv
  <2> QED
    BY <2>4, <2>5
<1>8. CASE ibuf \notin Verdicts
  <2>1. fd' = fd /\ rd' = Tail(rd) /\ pipe' = pipe
    BY <1>8 DEF EndLine
  <2>2. Text' = Tail(rd) \o pipe
    <3>1. Tail(rd) \in Seq(Bytes)
      BY <1>2, <2>1 DEF BytesInv, Bytes
    <3>2. << >> \o Tail(rd) = Tail(rd)
      BY <3>1, ConcatEmptySeq
    <3>3. Text' = (<< >> \o Tail(rd)) \o pipe
      BY <1>1, <2>1 DEF Text
    <3> QED
      BY <3>2, <3>3
  <2>3. Said(Text)' = left
    BY <2>2
  <2>4. CASE ibuf = << >>
    <3>1. taken' = taken
      BY <2>4 DEF EndLine
    <3>2. now.ended = left.ended
      BY <1>4, <2>4
    <3> HIDE DEF left, now
    <3>3. LinesInv'
      BY <1>1, <1>2, <1>4, <1>5, <2>1, <2>3, <3>2 DEF LinesInv
    <3>4. UNCHANGED Channel!chanVars
      BY <1>1, <2>1, <2>3, <3>1, <3>2 DEF Channel!chanVars, now
    <3> QED
      BY <3>3, <3>4
  <2>5. CASE ibuf # << >>
    <3>1. taken' = Append(taken, ibuf)
      BY <2>5 DEF EndLine
    <3>2. now.ended = <<ibuf>> \o left.ended
      BY <1>4, <2>5
    <3> DEFINE M == left.ended
               T == Seq(Chars)
    <3>3. M \in Seq(T) /\ ibuf \in T
      BY <1>6
    <3> HIDE DEF M, T
    <3>4. /\ <<ibuf>> \o M # << >> /\ Head(<<ibuf>> \o M) = ibuf
          /\ Tail(<<ibuf>> \o M) = M
          /\ \A n \in 1..Len(M) : n + 1 \in 1..Len(<<ibuf>> \o M)
                                  /\ (<<ibuf>> \o M)[n + 1] = M[n]
      BY <3>3, SMTT(40)
    <3>5. /\ now.ended # << >> /\ Head(now.ended) = ibuf /\ Tail(now.ended) = M
          /\ \A n \in 1..Len(M) : n + 1 \in 1..Len(now.ended) /\ now.ended[n + 1] = M[n]
      BY <3>2, <3>4 DEF M
    <3> HIDE DEF now
    <3>6. \A n \in 1..Len(left.ended) : Len(left.ended[n]) <= MaxLine
      BY <1>5, <3>5 DEF M
    <3>7. LinesInv'
      <4> HIDE DEF left
      <4> QED
        BY <1>1, <1>2, <1>4, <1>5, <2>1, <2>3, <3>6 DEF LinesInv
    <3>8. Channel!Arrive
      <4> HIDE DEF left
      <4> QED
        BY <1>1, <1>8, <2>1, <2>3, <3>1, <3>5 DEF Channel!Arrive, now, M
    <3> QED
      BY <3>7, <3>8
  <2> QED
    BY <2>4, <2>5
<1> QED
  BY <1>7, <1>8

\* A newline ends what the child has written of its line, and that is said; any
\* other byte, and a newline after nothing, says nothing yet.
LEMMA WriteCharSays ==
  ASSUME LinesInv, NEW c \in Chars \cup {NL}, WriteChar(c)
  PROVE  LinesInv' /\ (Channel!Say \/ UNCHANGED Channel!chanVars)
<1>1. /\ BytesInv /\ fd /\ fd' = fd /\ taken' = taken /\ ibuf' = ibuf /\ rd' = rd
      /\ pipe' = Append(pipe, c)
      /\ line' = IF c = NL THEN << >> ELSE Append(line, c)
      /\ c \in Chars => Len(line) < MaxLine
  BY DEF LinesInv, WriteChar, readerVars
<1>2. /\ ibuf \in Seq(Bytes) /\ rd \in Seq(Bytes) /\ pipe \in Seq(Bytes)
      /\ Text \in Seq(Bytes) /\ Said(Text) \in Saying /\ c \in Bytes
  BY <1>1, TextType DEF Bytes
<1>3. BytesInv'
  BY <1>1 DEF BytesInv, BufferFits
<1>4. Text' = Append(Text, c)
  <2> DEFINE s == ibuf \o rd
  <2>1. s \in Seq(Bytes)
    BY <1>2, ConcatProperties
  <2> HIDE DEF s
  <2>2. s \o Append(pipe, c) = Append(s \o pipe, c)
    BY <1>2, <2>1, ByteAfterBytes, Zenon
  <2> QED
    BY <1>1, <2>2 DEF Text, s
<1> DEFINE now == Said(Text)
           then == Hears(now, c)
<1>5. Said(Text)' = then
  BY <1>2, <1>4, SaidByBytes
<1>6. /\ now.rest = line /\ \A n \in 1..Len(now.ended) : Len(now.ended[n]) <= MaxLine
      /\ line \in Seq(Chars) /\ Len(line) <= MaxLine
  BY <1>1 DEF LinesInv
<1>7. now.ended \in Seq(Seq(Chars)) /\ now = [ended |-> now.ended, rest |-> line]
  BY <1>2, <1>6 DEF Saying
<1> HIDE DEF now
<1>8. CASE c # NL
  <2>1. line' = Append(line, c) /\ c \in Chars
    BY <1>1, <1>8
  <2>2. then.ended = now.ended /\ then.rest = line'
    BY <1>7, <1>8, <2>1 DEF Hears
  <2>3. line' \in Seq(Chars) /\ Len(line') <= MaxLine
    BY <1>1, <1>6, <2>1
  <2> HIDE DEF then
  <2>4. LinesInv'
    BY <1>1, <1>3, <1>5, <1>6, <2>2, <2>3 DEF LinesInv
  <2>5. UNCHANGED Channel!chanVars
    BY <1>1, <1>5, <2>2 DEF Channel!chanVars, now
  <2> QED
    BY <2>4, <2>5
<1>9. CASE c = NL /\ line = << >>
  <2>1. line' = << >>
    BY <1>1, <1>9
  <2>2. then.ended = now.ended /\ then.rest = line'
    BY <1>7, <1>9, <2>1 DEF Hears
  <2> HIDE DEF then
  <2>3. LinesInv'
    BY <1>1, <1>3, <1>5, <1>6, <1>9, <2>1, <2>2 DEF LinesInv
  <2>4. UNCHANGED Channel!chanVars
    BY <1>1, <1>5, <2>2 DEF Channel!chanVars, now
  <2> QED
    BY <2>3, <2>4
<1>10. CASE c = NL /\ line # << >>
  <2>1. line' = << >>
    BY <1>1, <1>10
  <2>2. then.ended = Append(now.ended, line) /\ then.rest = line'
    BY <1>7, <1>10, <2>1 DEF Hears
  <2>3. line \in Line
    <3>1. Len(line) \in 1..MaxLine /\ line \in [1..Len(line) -> Chars]
      BY <1>6, <1>10
    <3> QED
      BY <3>1 DEF Line
  <2>4. /\ \A n \in 1..Len(Append(now.ended, line)) : Len(Append(now.ended, line)[n]) <= MaxLine
        /\ << >> \in Seq(Chars) /\ Len(<< >>) <= MaxLine
    <3> DEFINE M == now.ended
               T == Seq(Chars)
    <3>1. M \in Seq(T) /\ line \in T /\ \A n \in 1..Len(M) : Len(M[n]) <= MaxLine
      BY <1>6, <1>7
    <3>2. << >> \in Seq(Chars) /\ Len(<< >>) <= MaxLine
      OBVIOUS
    <3> HIDE DEF M, T
    <3>3. /\ Len(Append(M, line)) = Len(M) + 1 /\ Len(M) \in Nat
          /\ Append(M, line)[Len(M) + 1] = line
          /\ \A n \in 1..Len(M) : Append(M, line)[n] = M[n]
      BY <3>1, AppendProperties
    <3>4. ASSUME NEW n \in 1..Len(Append(M, line)) PROVE Len(Append(M, line)[n]) <= MaxLine
      <4>1. n = Len(M) + 1 \/ n \in 1..Len(M)
        BY <3>3
      <4> QED
        BY <1>6, <3>1, <3>3, <4>1
    <3> QED
      BY <3>2, <3>4 DEF M
  <2> HIDE DEF then
  <2>5. LinesInv'
    BY <1>1, <1>3, <1>5, <2>1, <2>2, <2>4 DEF LinesInv
  <2>6. Channel!Say
    BY <1>1, <1>5, <2>2, <2>3 DEF Channel!Say, now
  <2> QED
    BY <2>5, <2>6
<1> QED
  BY <1>8, <1>9, <1>10

\* A new child has an empty pipe, and its reader an empty ibuf[].
LEMMA StartOpens ==
  ASSUME LinesInv, Start
  PROVE  LinesInv' /\ Channel!Open
<1>1. /\ ~fd /\ fd' = TRUE /\ line' = << >> /\ pipe' = << >> /\ rd' = << >>
      /\ ibuf' = << >> /\ taken' = << >>
  BY DEF Start
<1>2. /\ << >> \in Seq(Chars) /\ << >> \in Seq(Chars \cup {NL})
      /\ Len(<< >>) = 0 /\ 0 < IbufSize /\ 0 <= RdSize /\ 0 <= MaxLine
  OBVIOUS
<1>3. BytesInv'
  BY <1>1, <1>2 DEF BytesInv, BufferFits
<1>4. Text' = << >>
  BY <1>1 DEF Text
<1>5. Said(Text)' = [ended |-> << >>, rest |-> << >>]
  BY <1>4, SaidByBytes DEF Silence
<1> QED
  BY <1>1, <1>2, <1>3, <1>5 DEF LinesInv, Channel!Open

\* The end of file comes when nothing is left to arrive.
LEMMA EofEndsFile ==
  ASSUME LinesInv, Eof
  PROVE  LinesInv' /\ Channel!EndOfFile
<1>1. /\ BytesInv /\ fd /\ rd = << >> /\ pipe = << >> /\ fd' = FALSE
      /\ UNCHANGED <<line, pipe, rd, ibuf, taken>>
  BY DEF LinesInv, Eof, writerVars
<1>2. Text = ibuf /\ ibuf \in Seq(Chars)
  <2>1. ibuf \in Seq(Chars)
    BY <1>1 DEF BytesInv, BufferFits
  <2>2. ibuf \o << >> = ibuf
    BY <2>1, ConcatEmptySeq
  <2>3. Text = (ibuf \o << >>) \o << >>
    BY <1>1 DEF Text
  <2> QED
    BY <2>1, <2>2, <2>3
<1>3. Said(Text).ended = << >>
  BY <1>2, SaidUnended
<1>4. BytesInv'
  BY <1>1 DEF BytesInv, BufferFits
<1> QED
  BY <1>1, <1>3, <1>4 DEF LinesInv, Channel!EndOfFile

\* For lines that fit into ibuf[], whatever the sizes of ibuf[], of rd[], of the
\* pipe and of the child's writes, and over any number of children: a line that
\* was written arrives once, in order and unchanged; a verdict ends the reading,
\* and the end of file does not come before the last whole line.
THEOREM LinesAreKept ==
  ASSUME MaxLine < IbufSize
  PROVE  Spec => KeepsLines
<1>1. Init => LinesInv /\ Channel!Init
  <2> SUFFICES ASSUME Init PROVE LinesInv /\ Channel!Init
    OBVIOUS
  <2>1. /\ << >> \in Seq(Chars) /\ << >> \in Seq(Chars \cup {NL})
        /\ Len(<< >>) = 0 /\ 0 < IbufSize /\ 0 <= RdSize /\ 0 <= MaxLine
    OBVIOUS
  <2> QED
    BY <2>1 DEF Init, LinesInv, BytesInv, BufferFits, Channel!Init
<1>2. LinesInv /\ [Next]_vars => LinesInv' /\ [Channel!Next]_Channel!chanVars
  <2> SUFFICES ASSUME LinesInv, [Next]_vars
               PROVE  LinesInv' /\ (Channel!Next \/ UNCHANGED Channel!chanVars)
    OBVIOUS
  <2>1. CASE Start
    BY <2>1, StartOpens DEF Channel!Next
  <2>2. ASSUME NEW c \in Chars \cup {NL}, WriteChar(c)
        PROVE  LinesInv' /\ (Channel!Next \/ UNCHANGED Channel!chanVars)
    BY <2>2, WriteCharSays DEF Channel!Next
  <2>3. CASE WriterEnds
    <3>1. UNCHANGED <<line, pipe, rd, ibuf, fd, taken>>
      BY <2>3 DEF WriterEnds, readerVars
    <3>2. BytesInv' /\ Text' = Text
      BY <3>1 DEF LinesInv, BytesInv, BufferFits, Text
    <3> QED
      BY <3>1, <3>2, SameText
  <2>4. CASE Read
    BY <2>4, ReadIsSilent
  <2>5. CASE KeepByte
    BY <2>5, KeepByteIsSilent
  <2>6. CASE EndLine
    BY <2>6, EndLineArrives DEF Channel!Next
  <2>7. CASE Eof
    BY <2>7, EofEndsFile DEF Channel!Next
  <2>8. CASE UNCHANGED vars
    <3>1. UNCHANGED <<line, pipe, rd, ibuf, fd, taken>>
      BY <2>8 DEF vars, readerVars, writerVars
    <3>2. BytesInv' /\ Text' = Text
      BY <3>1 DEF LinesInv, BytesInv, BufferFits, Text
    <3> QED
      BY <3>1, <3>2, SameText
  <2> QED
    BY <2>1, <2>2, <2>3, <2>4, <2>5, <2>6, <2>7, <2>8 DEF Next, Poll
<1> QED
  BY <1>1, <1>2, PTL DEF Spec, KeepsLines, Channel!Spec
=============================================================================
