--------------------------- MODULE SessionsProofs ---------------------------
(* Proofs about the sessions: ShellSession for any alphabet, any number of *)
(* peers and channels and chunks of any size, and WireSession for any      *)
(* names and passwords and any number of packets.                          *)
EXTENDS ShellSession, WireSession, SequenceLemmas, FiniteSetTheorems, FunctionTheorems

---------------------------------------------------------------------------
(* Splitting a text.                                                       *)

NoText == [lines |-> <<>>, rest |-> <<>>]

\* f reads the text s: f[k] is what its first k characters give.
Splits(f, s) == f = [k \in 0..Len(s) |-> IF k = 0 THEN NoText ELSE NextChar(f[k-1], s[k])]
SplitFunction(s) == CHOOSE f : Splits(f, s)

LEMMA SplitIsItsFunction ==
  ASSUME NEW s
  PROVE  Split(s) = SplitFunction(s)[Len(s)]
BY DEF Split, SplitFunction, Splits, NoText

\* A function that reads a text is the only one.
LEMMA SplitUnique ==
  ASSUME NEW s \in Seq(Chars), NEW f, NEW g, Splits(f, s), Splits(g, s)
  PROVE  f = g
<1> DEFINE n == Len(s)
           F(k) == IF k = 0 THEN NoText ELSE NextChar(f[k-1], s[k])
           G(k) == IF k = 0 THEN NoText ELSE NextChar(g[k-1], s[k])
           S == {k \in Nat : k <= n => f[k] = g[k]}
<1>1. n \in Nat OBVIOUS
<1>2. f = [k \in 0..n |-> F(k)] /\ g = [k \in 0..n |-> G(k)] BY DEF Splits
<1> HIDE DEF n
<1>3. 0 \in S
  <2>1. f[0] = F(0) /\ g[0] = G(0) BY <1>1, <1>2
  <2>2. QED BY <2>1
<1>4. ASSUME NEW k \in Nat, k \in S PROVE k + 1 \in S
  <2> SUFFICES ASSUME k + 1 <= n PROVE f[k+1] = g[k+1] BY <1>4
  <2>1. k + 1 \in 0..n /\ k + 1 # 0 /\ (k + 1) - 1 = k /\ k <= n BY <1>1, <1>4
  <2>2. f[k] = g[k] BY <1>4, <2>1
  <2>3. f[k+1] = F(k+1) /\ g[k+1] = G(k+1) BY <1>2, <2>1
  <2>4. F(k+1) = NextChar(f[k], s[k+1]) /\ G(k+1) = NextChar(g[k], s[k+1]) BY <2>1
  <2>5. QED BY <2>2, <2>3, <2>4
<1> HIDE DEF S
<1>5. Nat \subseteq S BY <1>3, <1>4, Induction
<1>6. \A k \in 0..n : f[k] = g[k] BY <1>1, <1>5 DEF S
<1> HIDE DEF F, G
<1>7. QED BY <1>2, <1>6

\* One more character.
LEMMA SplitLonger ==
  ASSUME NEW s \in Seq(Chars), NEW c \in Chars, NEW f, Splits(f, s)
  PROVE  Splits([k \in 0..Len(s) + 1 |-> IF k <= Len(s) THEN f[k] ELSE NextChar(f[Len(s)], c)],
                Append(s, c))
<1> DEFINE n == Len(s)
           t == Append(s, c)
           g == [k \in 0..n + 1 |-> IF k <= n THEN f[k] ELSE NextChar(f[n], c)]
           G(k) == IF k = 0 THEN NoText ELSE NextChar(g[k-1], t[k])
           F(k) == IF k = 0 THEN NoText ELSE NextChar(f[k-1], s[k])
<1>1. n \in Nat /\ Len(t) = n + 1 /\ t[n+1] = c /\ \A k \in 1..n : t[k] = s[k] OBVIOUS
<1>2. f = [k \in 0..n |-> F(k)] BY DEF Splits
<1> HIDE DEF n, t
<1>3. ASSUME NEW k \in 0..n + 1 PROVE g[k] = G(k)
  <2>1. CASE k = 0
    <3>1. g[0] = f[0] /\ f[0] = F(0) BY <1>1, <1>2
    <3>2. QED BY <2>1, <3>1
  <2>2. CASE k \in 1..n
    <3>1. g[k] = f[k] /\ f[k] = F(k) /\ g[k-1] = f[k-1] BY <1>1, <1>2, <2>2
    <3>2. k # 0 /\ t[k] = s[k] BY <1>1, <2>2
    <3> HIDE DEF g
    <3>3. QED BY <3>1, <3>2
  <2>3. CASE k = n + 1
    <3>1. g[k] = NextChar(f[n], c) /\ g[n] = f[n] BY <1>1, <2>3
    <3>2. k # 0 /\ k - 1 = n /\ t[k] = c BY <1>1, <2>3
    <3> HIDE DEF g
    <3>3. QED BY <3>1, <3>2
  <2>4. QED BY <1>1, <2>1, <2>2, <2>3
<1>4. g = [k \in 0..n + 1 |-> G(k)]
  <2>1. DOMAIN g = 0..n + 1 /\ g = [k \in 0..n + 1 |-> g[k]] OBVIOUS
  <2> HIDE DEF g
  <2>2. \A k \in 0..n + 1 : g[k] = G(k) BY <1>3
  <2> HIDE DEF G
  <2>3. QED BY <2>1, <2>2
<1>5. QED BY <1>1, <1>4 DEF Splits, n, t

LEMMA SplitExists ==
  ASSUME NEW s \in Seq(Chars)
  PROVE  Splits(SplitFunction(s), s)
<1> DEFINE S == {u \in Seq(Chars) : \E f : Splits(f, u)}
<1>1. <<>> \in S
  <2>1. Splits([k \in 0..0 |-> NoText], <<>>) BY DEF Splits
  <2>2. QED BY <2>1
<1>2. ASSUME NEW u \in Seq(Chars), NEW c \in Chars, u \in S PROVE Append(u, c) \in S
  <2>1. PICK f : Splits(f, u) BY <1>2
  <2>2. \E g : Splits(g, Append(u, c)) BY <2>1, SplitLonger
  <2>3. QED BY <2>2
<1> HIDE DEF S
<1>3. s \in S BY <1>1, <1>2, SequenceInduction
<1>4. QED BY <1>3 DEF S, SplitFunction

\* What a text gives is what it gives without its last character, and that one.
LEMMA SplitAppend ==
  ASSUME NEW s \in Seq(Chars), NEW c \in Chars
  PROVE  Split(Append(s, c)) = NextChar(Split(s), c)
<1> DEFINE f == SplitFunction(s)
           g == SplitFunction(Append(s, c))
           h == [k \in 0..Len(s) + 1 |-> IF k <= Len(s) THEN f[k] ELSE NextChar(f[Len(s)], c)]
<1>1. Append(s, c) \in Seq(Chars) /\ Len(Append(s, c)) = Len(s) + 1 /\ Len(s) \in Nat OBVIOUS
<1>2. Splits(f, s) /\ Splits(g, Append(s, c)) BY <1>1, SplitExists
<1>3. Splits(h, Append(s, c)) BY <1>2, SplitLonger
<1>4. g = h BY <1>1, <1>2, <1>3, SplitUnique
<1>5. h[Len(s) + 1] = NextChar(f[Len(s)], c) BY <1>1
<1>6. QED BY <1>1, <1>4, <1>5, SplitIsItsFunction

LEMMA SplitEmpty == Split(<<>>) = NoText
<1>1. <<>> \in Seq(Chars) /\ Len(<<>>) = 0 OBVIOUS
<1>2. Splits(SplitFunction(<<>>), <<>>) BY <1>1, SplitExists
<1> DEFINE f == SplitFunction(<<>>)
<1> HIDE DEF f
<1>3. f = [k \in 0..0 |-> IF k = 0 THEN NoText ELSE NextChar(f[k-1], <<>>[k])]
  BY <1>1, <1>2 DEF Splits, f
<1>4. f[0] = NoText BY <1>3
<1>5. QED BY <1>1, <1>4, SplitIsItsFunction DEF f

---------------------------------------------------------------------------
(* Joining sequences: FlattenSeq.                                          *)

\* f joins the sequences of s: f[i] is what the first i of them give.
Joins(f, s) == f = [i \in 1..Len(s) |-> IF i = 1 THEN s[i] ELSE f[i-1] \o s[i]]
JoinFunction(s) == CHOOSE f : Joins(f, s)

LEMMA FlattenIsItsFunction ==
  ASSUME NEW s
  PROVE  FlattenSeq(s) = IF Len(s) = 0 THEN s ELSE JoinFunction(s)[Len(s)]
BY DEF FlattenSeq, JoinFunction, Joins

LEMMA JoinUnique ==
  ASSUME NEW A, NEW s \in Seq(A), NEW f, NEW g, Joins(f, s), Joins(g, s)
  PROVE  f = g
<1> DEFINE n == Len(s)
           F(k) == IF k = 1 THEN s[k] ELSE f[k-1] \o s[k]
           G(k) == IF k = 1 THEN s[k] ELSE g[k-1] \o s[k]
           S == {k \in Nat : k + 1 <= n => f[k + 1] = g[k + 1]}
<1>1. n \in Nat OBVIOUS
<1>2. f = [k \in 1..n |-> F(k)] /\ g = [k \in 1..n |-> G(k)] BY DEF Joins
<1> HIDE DEF n
<1>3. 0 \in S
  <2>1. 1 <= n => f[1] = F(1) /\ g[1] = G(1) BY <1>1, <1>2
  <2>2. F(1) = s[1] /\ G(1) = s[1] OBVIOUS
  <2> HIDE DEF F, G
  <2>3. QED BY <2>1, <2>2
<1>4. ASSUME NEW k \in Nat, k \in S PROVE k + 1 \in S
  <2> SUFFICES ASSUME (k + 1) + 1 <= n PROVE f[(k+1)+1] = g[(k+1)+1] BY <1>4
  <2>1. PICK m \in Nat : m = k + 1 /\ m # 0 BY <1>4
  <2>2. m + 1 \in 1..n /\ m + 1 # 1 /\ (m + 1) - 1 = m /\ m <= n BY <1>1, <2>1
  <2>3. f[m] = g[m] BY <1>4, <2>1, <2>2
  <2>4. f[m+1] = F(m+1) /\ g[m+1] = G(m+1) BY <1>2, <2>2
  <2>5. F(m+1) = f[m] \o s[m+1] /\ G(m+1) = g[m] \o s[m+1] BY <2>2
  <2> HIDE DEF F, G
  <2>6. QED BY <2>1, <2>3, <2>4, <2>5
<1> HIDE DEF S
<1>5. Nat \subseteq S BY <1>3, <1>4, Induction
<1>6. \A k \in 1..n : f[k] = g[k]
  <2> SUFFICES ASSUME NEW k \in 1..n PROVE f[k] = g[k] OBVIOUS
  <2>1. k - 1 \in Nat /\ (k - 1) + 1 = k /\ k <= n BY <1>1
  <2>2. k - 1 \in S BY <1>5, <2>1
  <2>3. (k - 1) + 1 <= n => f[(k - 1) + 1] = g[(k - 1) + 1] BY <2>2 DEF S
  <2>4. QED BY <2>1, <2>3
<1> HIDE DEF F, G
<1>7. QED BY <1>2, <1>6

LEMMA JoinLonger ==
  ASSUME NEW A, NEW s \in Seq(A), NEW x \in A, NEW f, Joins(f, s)
  PROVE  Joins([i \in 1..Len(s) + 1 |->
                  IF i <= Len(s) THEN f[i] ELSE IF s = <<>> THEN x ELSE f[Len(s)] \o x],
               Append(s, x))
<1> DEFINE n == Len(s)
           t == Append(s, x)
           g == [i \in 1..n + 1 |-> IF i <= n THEN f[i] ELSE IF s = <<>> THEN x ELSE f[n] \o x]
           G(k) == IF k = 1 THEN t[k] ELSE g[k-1] \o t[k]
           F(k) == IF k = 1 THEN s[k] ELSE f[k-1] \o s[k]
<1>1. /\ n \in Nat /\ Len(t) = n + 1 /\ t[n+1] = x /\ \A k \in 1..n : t[k] = s[k]
      /\ s = <<>> <=> n = 0
  OBVIOUS
<1>2. f = [k \in 1..n |-> F(k)] BY DEF Joins
<1> HIDE DEF n, t
<1>3. ASSUME NEW k \in 1..n + 1 PROVE g[k] = G(k)
  <2>1. CASE k \in 1..n
    <3>1. g[k] = f[k] BY <1>1, <2>1
    <3>2. f[k] = F(k)
      <4> HIDE DEF F, g
      <4>1. QED BY <1>2, <2>1
    <3>3. k # 1 => g[k-1] = f[k-1] BY <1>1, <2>1
    <3>4. t[k] = s[k] BY <1>1, <2>1
    <3> HIDE DEF g
    <3>5. QED BY <3>1, <3>2, <3>3, <3>4
  <2>2. CASE k = n + 1 /\ n = 0
    <3>1. g[k] = x BY <1>1, <2>2
    <3>2. k = 1 /\ t[k] = x BY <1>1, <2>2
    <3> HIDE DEF g
    <3>3. QED BY <3>1, <3>2
  <2>3. CASE k = n + 1 /\ n # 0
    <3>1. g[k] = f[n] \o x /\ g[n] = f[n] BY <1>1, <2>3
    <3>2. k # 1 /\ k - 1 = n /\ t[k] = x BY <1>1, <2>3
    <3> HIDE DEF g
    <3>3. QED BY <3>1, <3>2
  <2>4. QED BY <1>1, <2>1, <2>2, <2>3
<1>4. g = [k \in 1..n + 1 |-> G(k)]
  <2>1. DOMAIN g = 1..n + 1 /\ g = [k \in 1..n + 1 |-> g[k]] OBVIOUS
  <2> HIDE DEF g
  <2>2. \A k \in 1..n + 1 : g[k] = G(k) BY <1>3
  <2> HIDE DEF G
  <2>3. QED BY <2>1, <2>2
<1>5. QED BY <1>1, <1>4 DEF Joins, n, t

LEMMA JoinExists ==
  ASSUME NEW A, NEW s \in Seq(A)
  PROVE  Joins(JoinFunction(s), s)
<1> DEFINE S == {u \in Seq(A) : \E f : Joins(f, u)}
<1>1. <<>> \in S
  <2>1. Joins([i \in 1..0 |-> <<>>[i]], <<>>) BY DEF Joins
  <2>2. QED BY <2>1
<1>2. ASSUME NEW u \in Seq(A), NEW x \in A, u \in S PROVE Append(u, x) \in S
  <2>1. PICK f : Joins(f, u) BY <1>2
  <2>2. \E g : Joins(g, Append(u, x)) BY <2>1, JoinLonger
  <2>3. QED BY <2>2
<1> HIDE DEF S
<1>3. s \in S BY <1>1, <1>2, SequenceInduction
<1>4. QED BY <1>3 DEF S, JoinFunction

\* Joining is done one sequence after the other.
LEMMA FlattenAppend ==
  ASSUME NEW A, NEW s \in Seq(A), NEW x \in A
  PROVE  FlattenSeq(Append(s, x)) = IF s = <<>> THEN x ELSE FlattenSeq(s) \o x
<1> DEFINE f == JoinFunction(s)
           g == JoinFunction(Append(s, x))
           h == [i \in 1..Len(s) + 1 |->
                  IF i <= Len(s) THEN f[i] ELSE IF s = <<>> THEN x ELSE f[Len(s)] \o x]
<1>1. /\ Append(s, x) \in Seq(A) /\ Len(Append(s, x)) = Len(s) + 1 /\ Len(s) \in Nat
      /\ s = <<>> <=> Len(s) = 0
  OBVIOUS
<1>2. Joins(f, s) /\ Joins(g, Append(s, x)) BY <1>1, JoinExists
<1>3. Joins(h, Append(s, x)) BY <1>2, JoinLonger
<1>4. g = h BY <1>1, <1>2, <1>3, JoinUnique
<1>5. h[Len(s) + 1] = IF s = <<>> THEN x ELSE f[Len(s)] \o x BY <1>1
<1> HIDE DEF h
<1>6. FlattenSeq(Append(s, x)) = h[Len(s) + 1]
  <2>1. Len(Append(s, x)) # 0 BY <1>1
  <2>2. FlattenSeq(Append(s, x)) = g[Len(Append(s, x))] BY <2>1, FlattenIsItsFunction
  <2> HIDE DEF g
  <2>3. QED BY <1>1, <1>4, <2>2
<1> HIDE DEF f
<1>7. s # <<>> => FlattenSeq(s) = f[Len(s)] BY <1>1, FlattenIsItsFunction DEF f
<1>8. QED BY <1>5, <1>6, <1>7

LEMMA FlattenEmpty == FlattenSeq(<<>>) = <<>>
BY FlattenIsItsFunction

\* Sequences of sequences: the result is a sequence, and nothing is special
\* about the first.
LEMMA FlattenJoins ==
  ASSUME NEW B
  PROVE  /\ \A s \in Seq(Seq(B)) : FlattenSeq(s) \in Seq(B)
         /\ \A s \in Seq(Seq(B)), x \in Seq(B) : FlattenSeq(Append(s, x)) = FlattenSeq(s) \o x
<1> DEFINE S == {s \in Seq(Seq(B)) : FlattenSeq(s) \in Seq(B)}
<1>0. <<>> \in Seq(B) /\ <<>> \in Seq(Seq(B)) OBVIOUS
<1>1. ASSUME NEW s \in Seq(Seq(B)), NEW x \in Seq(B)
      PROVE  FlattenSeq(Append(s, x)) = FlattenSeq(s) \o x
  <2>1. CASE s = <<>>
    <3>1. FlattenSeq(Append(s, x)) = x BY <2>1, FlattenAppend
    <3>2. FlattenSeq(s) \o x = x BY <2>1, FlattenEmpty, ConcatEmptySeq
    <3>3. QED BY <3>1, <3>2
  <2>2. CASE s # <<>> BY <2>2, FlattenAppend
  <2>3. QED BY <2>1, <2>2
<1>2. <<>> \in S BY <1>0, FlattenEmpty
<1>3. ASSUME NEW s \in Seq(Seq(B)), NEW x \in Seq(B), s \in S PROVE Append(s, x) \in S
  <2>1. FlattenSeq(Append(s, x)) = FlattenSeq(s) \o x /\ FlattenSeq(s) \in Seq(B) BY <1>1, <1>3
  <2>2. FlattenSeq(s) \o x \in Seq(B) BY <2>1, ConcatProperties
  <2>3. Append(s, x) \in Seq(Seq(B)) OBVIOUS
  <2>4. QED BY <2>1, <2>2, <2>3
<1> HIDE DEF S
<1>4. Seq(Seq(B)) \subseteq S BY <1>2, <1>3, SequenceInduction
<1>5. QED BY <1>1, <1>4 DEF S

---------------------------------------------------------------------------
(* Lines of a text that arrives in parts.                                  *)

LEMMA TextAppend ==
  ASSUME NEW s \in Text, NEW c \in Chars
  PROVE  /\ Lines(Append(s, c)) = IF c = NL THEN Append(Lines(s), Rest(s)) ELSE Lines(s)
         /\ Rest(Append(s, c)) = IF c = NL THEN <<>> ELSE Append(Rest(s), c)
<1>1. Split(Append(s, c)) = NextChar(Split(s), c) BY SplitAppend DEF Text
<1>2. QED BY <1>1 DEF Lines, Rest, NextChar

LEMMA TextEmpty == Lines(<<>>) = <<>> /\ Rest(<<>>) = <<>>
BY SplitEmpty DEF Lines, Rest, NoText

LEMMA EmptyText == <<>> \in Text /\ <<>> \in Seq(Text) /\ ~HasLine(<<>>)
BY DEF Text, HasLine

LEMMA HasLineAppend ==
  ASSUME NEW s \in Text, NEW c \in Chars
  PROVE  HasLine(Append(s, c)) <=> HasLine(s) \/ c = NL
<1>1. /\ Len(s) \in Nat /\ DOMAIN s = 1..Len(s) /\ DOMAIN Append(s, c) = 1..Len(s) + 1
      /\ \A i \in 1..Len(s) : Append(s, c)[i] = s[i]
      /\ Append(s, c)[Len(s) + 1] = c
  BY DEF Text
<1>2. ASSUME HasLine(s) \/ c = NL PROVE HasLine(Append(s, c))
  <2>1. \E i \in 1..Len(s) + 1 : Append(s, c)[i] = NL BY <1>1, <1>2 DEF HasLine
  <2>2. QED BY <1>1, <2>1 DEF HasLine
<1>3. ASSUME HasLine(Append(s, c)), c # NL PROVE HasLine(s)
  <2>1. PICK i \in 1..Len(s) + 1 : Append(s, c)[i] = NL BY <1>1, <1>3 DEF HasLine
  <2>2. i \in 1..Len(s) BY <1>1, <1>3, <2>1
  <2>3. QED BY <1>1, <2>1, <2>2 DEF HasLine
<1>4. QED BY <1>2, <1>3

\* The lines are texts, and in what follows them no newline is left.
LEMMA TextParts ==
  ASSUME NEW s \in Text
  PROVE  Lines(s) \in Seq(Text) /\ Rest(s) \in Text /\ ~HasLine(Rest(s))
<1> DEFINE Ok(u) == Lines(u) \in Seq(Text) /\ Rest(u) \in Text /\ ~HasLine(Rest(u))
           S == {u \in Text : Ok(u)}
<1>1. <<>> \in S BY TextEmpty, EmptyText
<1>2. ASSUME NEW u \in Seq(Chars), NEW c \in Chars, u \in S PROVE Append(u, c) \in S
  <2>1. u \in Text /\ Append(u, c) \in Text /\ Ok(u) BY <1>2 DEF Text
  <2>2. CASE c = NL
    <3>1. Lines(Append(u, c)) = Append(Lines(u), Rest(u)) /\ Rest(Append(u, c)) = <<>>
      BY <2>1, <2>2, TextAppend
    <3>2. Append(Lines(u), Rest(u)) \in Seq(Text) BY <2>1
    <3>3. QED BY <2>1, <3>1, <3>2, EmptyText
  <2>3. CASE c # NL
    <3>1. Lines(Append(u, c)) = Lines(u) /\ Rest(Append(u, c)) = Append(Rest(u), c)
      BY <2>1, <2>3, TextAppend
    <3>2. Append(Rest(u), c) \in Text BY <2>1 DEF Text
    <3>3. ~HasLine(Append(Rest(u), c)) BY <2>1, <2>3, HasLineAppend
    <3>4. QED BY <2>1, <3>1, <3>2, <3>3
  <2>4. QED BY <2>2, <2>3
<1> HIDE DEF S
<1>3. Seq(Chars) \subseteq S BY <1>1, <1>2, SequenceInduction
<1>4. QED BY <1>3 DEF S, Text

\* Without a newline everything is rest.
LEMMA NoLine ==
  ASSUME NEW s \in Text, ~HasLine(s)
  PROVE  Lines(s) = <<>> /\ Rest(s) = s
<1> DEFINE S == {u \in Text : ~HasLine(u) => Lines(u) = <<>> /\ Rest(u) = u}
<1>1. <<>> \in S BY TextEmpty, EmptyText
<1>2. ASSUME NEW u \in Seq(Chars), NEW c \in Chars, u \in S PROVE Append(u, c) \in S
  <2>1. u \in Text /\ Append(u, c) \in Text BY DEF Text
  <2>2. SUFFICES ASSUME ~HasLine(Append(u, c))
                 PROVE  Lines(Append(u, c)) = <<>> /\ Rest(Append(u, c)) = Append(u, c)
    BY <2>1
  <2>3. ~HasLine(u) /\ c # NL BY <2>1, <2>2, HasLineAppend
  <2>4. Lines(u) = <<>> /\ Rest(u) = u BY <1>2, <2>3
  <2>5. QED BY <2>1, <2>3, <2>4, TextAppend
<1> HIDE DEF S
<1>3. Seq(Chars) \subseteq S BY <1>1, <1>2, SequenceInduction
<1>4. QED BY <1>3 DEF S, Text

\* What arrives later is split together with the rest of what came before.
LEMMA TextConcat ==
  ASSUME NEW a \in Text, NEW b \in Text
  PROVE  /\ Lines(a \o b) = Lines(a) \o Lines(Rest(a) \o b)
         /\ Rest(a \o b) = Rest(Rest(a) \o b)
<1> DEFINE R == Rest(a)
           Ok(u) == Lines(a \o u) = Lines(a) \o Lines(R \o u) /\ Rest(a \o u) = Rest(R \o u)
           S == {u \in Text : Ok(u)}
<1>1. Lines(a) \in Seq(Text) /\ R \in Text /\ ~HasLine(R) BY TextParts
<1>2. <<>> \in S
  <2>1. a \o <<>> = a /\ R \o <<>> = R BY <1>1, ConcatEmptySeq DEF Text
  <2>2. Lines(R) = <<>> /\ Rest(R) = R BY <1>1, NoLine
  <2>3. Lines(a) \o <<>> = Lines(a) BY <1>1, ConcatEmptySeq
  <2> HIDE DEF R
  <2>4. Ok(<<>>) BY <2>1, <2>2, <2>3 DEF R
  <2>5. QED BY <2>4, EmptyText
<1>3. ASSUME NEW u \in Seq(Chars), NEW c \in Chars, u \in S PROVE Append(u, c) \in S
  <2>1. u \in Text /\ Append(u, c) \in Text /\ Ok(u) BY <1>3 DEF Text
  <2>2. a \o u \in Text /\ R \o u \in Text BY <1>1, <2>1, ConcatProperties DEF Text
  <2>3. a \o Append(u, c) = Append(a \o u, c) /\ R \o Append(u, c) = Append(R \o u, c)
    BY <1>1, <2>1, ConcatAppend DEF Text
  <2>4. Lines(R \o u) \in Seq(Text) /\ Rest(R \o u) \in Text BY <2>2, TextParts
  <2>5. CASE c = NL
    <3>1. /\ Lines(a \o Append(u, c)) = Append(Lines(a \o u), Rest(a \o u))
          /\ Lines(R \o Append(u, c)) = Append(Lines(R \o u), Rest(R \o u))
          /\ Rest(a \o Append(u, c)) = <<>> /\ Rest(R \o Append(u, c)) = <<>>
      BY <2>2, <2>3, <2>5, TextAppend
    <3>2. Lines(a) \o Append(Lines(R \o u), Rest(R \o u))
            = Append(Lines(a) \o Lines(R \o u), Rest(R \o u))
      BY <1>1, <2>4, ConcatAppend
    <3> HIDE DEF R
    <3>3. Ok(Append(u, c)) BY <2>1, <3>1, <3>2
    <3>4. QED BY <2>1, <3>3
  <2>6. CASE c # NL
    <3>1. /\ Lines(a \o Append(u, c)) = Lines(a \o u)
          /\ Lines(R \o Append(u, c)) = Lines(R \o u)
          /\ Rest(a \o Append(u, c)) = Append(Rest(a \o u), c)
          /\ Rest(R \o Append(u, c)) = Append(Rest(R \o u), c)
      BY <2>2, <2>3, <2>6, TextAppend
    <3> HIDE DEF R
    <3>2. Ok(Append(u, c)) BY <2>1, <3>1
    <3>3. QED BY <2>1, <3>2
  <2>7. QED BY <2>5, <2>6
<1> HIDE DEF S
<1>4. Seq(Chars) \subseteq S BY <1>2, <1>3, SequenceInduction
<1>5. QED BY <1>4 DEF S, Text

\* The first line is the first of the lines.
LEMMA FirstLine ==
  ASSUME NEW s \in Text, HasLine(s)
  PROVE  /\ Line(s) \in Text /\ AfterLine(s) \in Text
         /\ Lines(s) = <<Line(s)>> \o Lines(AfterLine(s))
         /\ Rest(s) = Rest(AfterLine(s))
<1>1. s \in Seq(Chars) /\ Len(s) \in Nat /\ DOMAIN s = 1..Len(s) /\ \A i \in 1..Len(s) : s[i] \in Chars
  BY DEF Text
<1> DEFINE F == {i \in 1..Len(s) : s[i] = NL}
<1>2. F \in SUBSET Nat /\ F # {} BY <1>1 DEF HasLine
<1>3. PICK i \in F : \A j \in F : i <= j BY <1>2, LeastElement
<1>4. i \in 1..Len(s) /\ s[i] = NL /\ \A j \in 1..i-1 : s[j] # NL
  <2>1. i \in 1..Len(s) /\ s[i] = NL BY <1>3
  <2>2. ASSUME NEW j \in 1..i-1 PROVE s[j] # NL
    <3>1. j \in 1..Len(s) /\ ~(i <= j) BY <1>1, <2>1
    <3>2. j \notin F BY <1>3, <3>1
    <3>3. QED BY <3>1, <3>2
  <2>3. QED BY <2>1, <2>2
<1> HIDE DEF F
<1> DEFINE l == SubSeq(s, 1, i - 1)
           r == SubSeq(s, i + 1, Len(s))
<1>5. i \in Nat /\ i >= 1 /\ i <= Len(s) BY <1>1, <1>4
<1>6. l \in Text /\ Len(l) = i - 1 /\ \A j \in 1..i-1 : l[j] = s[j]
  <2>1. 1 \in Int /\ i - 1 \in Int /\ \A j \in 1..i-1 : s[j] \in Chars BY <1>1, <1>5
  <2>2. l \in Seq(Chars) /\ Len(l) = (IF 1 <= i - 1 THEN i - 1 - 1 + 1 ELSE 0)
        /\ \A j \in 1..(i - 1) - 1 + 1 : l[j] = s[1 + j - 1]
    BY <2>1, SubSeqProperties
  <2>3. \A j \in 1..i-1 : j \in 1..(i - 1) - 1 + 1 /\ 1 + j - 1 = j BY <1>5
  <2> HIDE DEF l
  <2>4. Len(l) = i - 1 BY <1>5, <2>2
  <2>5. QED BY <2>2, <2>3, <2>4 DEF Text
<1>7. r \in Text /\ Len(r) = Len(s) - i /\ \A j \in 1..Len(s) - i : r[j] = s[i + j]
  <2>1. i + 1 \in Int /\ Len(s) \in Int /\ \A j \in i+1..Len(s) : s[j] \in Chars BY <1>1, <1>5
  <2>2. r \in Seq(Chars) /\ Len(r) = (IF i + 1 <= Len(s) THEN Len(s) - (i + 1) + 1 ELSE 0)
        /\ \A j \in 1..Len(s) - (i + 1) + 1 : r[j] = s[(i + 1) + j - 1]
    BY <2>1, SubSeqProperties
  <2>3. \A j \in 1..Len(s) - i : j \in 1..Len(s) - (i + 1) + 1 /\ (i + 1) + j - 1 = i + j
    BY <1>1, <1>5
  <2> HIDE DEF r
  <2>4. PICK n \in Nat : n = Len(s) BY <1>1
  <2>5. i <= n /\ Len(r) = (IF i + 1 <= n THEN n - (i + 1) + 1 ELSE 0) BY <1>5, <2>2, <2>4
  <2>6. (IF i + 1 <= n THEN n - (i + 1) + 1 ELSE 0) = n - i BY <1>5, <2>5
  <2>7. QED BY <2>2, <2>3, <2>4, <2>5, <2>6 DEF Text
<1>8. ~HasLine(l)
  <2> HIDE DEF l
  <2>1. DOMAIN l = 1..i-1 BY <1>6 DEF Text
  <2>2. QED BY <1>4, <1>6, <2>1 DEF HasLine
<1>9. NL \in Chars BY ShellSessionAssumption
<1> HIDE DEF l, r
<1>10. s = Append(l, NL) \o r
  <2> DEFINE h == Append(l, NL)
  <2>1. h \in Seq(Chars) /\ Len(h) = i /\ h[i] = NL /\ \A j \in 1..i-1 : h[j] = l[j]
    BY <1>5, <1>6, <1>9 DEF Text
  <2> HIDE DEF h
  <2>2. /\ h \o r \in Seq(Chars) /\ Len(h \o r) = Len(h) + Len(r)
        /\ \A j \in 1..Len(h) + Len(r) : (h \o r)[j] = IF j <= Len(h) THEN h[j] ELSE r[j - Len(h)]
    BY <1>7, <2>1, ConcatProperties DEF Text
  <2>3. Len(h \o r) = Len(s) BY <1>1, <1>5, <1>7, <2>1, <2>2
  <2>4. ASSUME NEW j \in 1..Len(s) PROVE s[j] = (h \o r)[j]
    <3>1. j \in 1..Len(h) + Len(r) BY <1>1, <2>2, <2>3
    <3>2. (h \o r)[j] = IF j <= i THEN h[j] ELSE r[j - i] BY <2>1, <2>2, <3>1
    <3>3. CASE j \in 1..i-1
      <4>1. j <= i BY <1>5, <3>3
      <4>2. h[j] = s[j] BY <1>6, <2>1, <3>3
      <4>3. QED BY <3>2, <4>1, <4>2
    <3>4. CASE j = i BY <1>4, <1>5, <2>1, <3>2, <3>4
    <3>5. CASE ~(j <= i)
      <4>1. j - i \in 1..Len(s) - i /\ i + (j - i) = j BY <1>1, <1>5, <3>5
      <4>2. r[j - i] = s[j] BY <1>7, <4>1
      <4>3. QED BY <3>2, <3>5, <4>2
    <3>6. j \in 1..i-1 \/ j = i \/ ~(j <= i) BY <1>1, <1>5
    <3>7. QED BY <3>3, <3>4, <3>5, <3>6
  <2>5. s = h \o r BY <1>1, <2>2, <2>3, <2>4, SeqEqual
  <2>6. QED BY <2>5 DEF h
<1>11. Lines(Append(l, NL)) = <<l>> /\ Rest(Append(l, NL)) = <<>>
  <2>1. Lines(l) = <<>> /\ Rest(l) = l BY <1>6, <1>8, NoLine
  <2>2. Append(<<>>, l) = <<l>> OBVIOUS
  <2>3. QED BY <1>6, <1>9, <2>1, <2>2, TextAppend
<1>12. Lines(s) = <<l>> \o Lines(r) /\ Rest(s) = Rest(r)
  <2>1. Append(l, NL) \in Text BY <1>6, <1>9 DEF Text
  <2>2. <<>> \o r = r BY <1>7, ConcatEmptySeq DEF Text
  <2>3. /\ Lines(Append(l, NL) \o r) = Lines(Append(l, NL)) \o Lines(Rest(Append(l, NL)) \o r)
        /\ Rest(Append(l, NL) \o r) = Rest(Rest(Append(l, NL)) \o r)
    BY <1>7, <2>1, TextConcat
  <2>4. /\ Lines(Append(l, NL) \o r) = <<l>> \o Lines(r)
        /\ Rest(Append(l, NL) \o r) = Rest(r)
    BY <1>11, <2>2, <2>3
  <2>5. QED BY <1>10, <2>4
<1>13. Line(s) = l
  <2>1. Lines(r) \in Seq(Text) /\ <<l>> \in Seq(Text) BY <1>6, <1>7, TextParts
  <2>2. Head(<<l>> \o Lines(r)) = l BY <2>1
  <2>3. QED BY <1>12, <2>2 DEF Line
<1>14. AfterLine(s) = r
  <2>1. Len(Line(s)) + 2 = i + 1 BY <1>5, <1>6, <1>13
  <2>2. QED BY <2>1 DEF AfterLine, r
<1>15. QED BY <1>6, <1>7, <1>12, <1>13, <1>14

---------------------------------------------------------------------------
(* Commands.                                                               *)

CommandOf(line) == IF Strip(line) = <<>> THEN <<>> ELSE <<Strip(line)>>

LEMMA StripText ==
  ASSUME NEW s \in Text
  PROVE  Strip(s) \in Text /\ CommandOf(s) \in Seq(Text)
<1> DEFINE ink == {i \in DOMAIN s : s[i] # Blank}
<1>1. s \in Seq(Chars) /\ Len(s) \in Nat /\ DOMAIN s = 1..Len(s) /\ \A i \in 1..Len(s) : s[i] \in Chars
  BY DEF Text
<1>2. CASE ink = {} BY <1>2, EmptyText DEF Strip, CommandOf
<1>3. CASE ink # {}
  <2>1. ink \in SUBSET Nat /\ ink \subseteq 1..Len(s) BY <1>1
  <2>2. Min(ink) \in ink
    <3>1. \E i \in ink : \A j \in ink : i <= j BY <1>3, <2>1, LeastElement
    <3> HIDE DEF ink
    <3>2. QED BY <3>1 DEF Min
  <2>3. Max(ink) \in ink
    <3> DEFINE G == {n \in Nat : \E i \in ink : n = Len(s) - i}
    <3>1. PICK k \in ink : TRUE BY <1>3
    <3>2. Len(s) - k \in G BY <1>1, <2>1, <3>1
    <3>3. PICK m \in G : \A n \in G : m <= n BY <3>2, LeastElement
    <3>4. PICK i \in ink : m = Len(s) - i BY <3>3
    <3>5. ASSUME NEW j \in ink PROVE i >= j
      <4>1. Len(s) - j \in G BY <1>1, <2>1
      <4>2. m <= Len(s) - j BY <3>3, <4>1
      <4>3. QED BY <1>1, <2>1, <3>4, <4>2
    <3> HIDE DEF ink, G
    <3>6. QED BY <3>4, <3>5 DEF Max
  <2> HIDE DEF ink
  <2>4. \A i \in Min(ink)..Max(ink) : s[i] \in Chars
    <3>1. Min(ink) \in 1..Len(s) /\ Max(ink) \in 1..Len(s) BY <2>1, <2>2, <2>3
    <3>2. \A i \in Min(ink)..Max(ink) : i \in 1..Len(s) BY <1>1, <3>1
    <3>3. QED BY <1>1, <3>2
  <2>5. SubSeq(s, Min(ink), Max(ink)) \in Text
    <3>1. Min(ink) \in Int /\ Max(ink) \in Int
      <4>1. \A i \in ink : i \in Int BY <2>1
      <4>2. QED BY <4>1, <2>2, <2>3
    <3>2. \A m, n \in Int : (\A i \in m..n : s[i] \in Chars) => SubSeq(s, m, n) \in Seq(Chars)
      BY SubSeqProperties
    <3>3. QED BY <2>4, <3>1, <3>2 DEF Text
  <2>6. Strip(s) \in Text BY <1>3, <2>5 DEF Strip, ink
  <2>7. QED BY <2>6 DEF CommandOf
<1>4. QED BY <1>2, <1>3

LEMMA CommandsOfLines ==
  ASSUME NEW ls \in Seq(Text)
  PROVE  /\ [k \in DOMAIN ls |-> CommandOf(ls[k])] \in Seq(Seq(Text))
         /\ Commands(ls) = FlattenSeq([k \in DOMAIN ls |-> CommandOf(ls[k])])
         /\ Commands(ls) \in Seq(Text)
<1>1. DOMAIN ls = 1..Len(ls) /\ Len(ls) \in Nat /\ \A k \in 1..Len(ls) : ls[k] \in Text OBVIOUS
<1>2. \A k \in 1..Len(ls) : CommandOf(ls[k]) \in Seq(Text) BY <1>1, StripText
<1>3. [k \in DOMAIN ls |-> CommandOf(ls[k])] \in Seq(Seq(Text)) BY <1>1, <1>2
<1>4. Commands(ls) = FlattenSeq([k \in DOMAIN ls |-> CommandOf(ls[k])]) BY DEF Commands, CommandOf
<1>5. QED BY <1>3, <1>4, FlattenJoins

LEMMA CommandsAppend ==
  ASSUME NEW ls \in Seq(Text), NEW l \in Text
  PROVE  Commands(Append(ls, l)) = Commands(ls) \o CommandOf(l)
<1> DEFINE m == [k \in DOMAIN ls |-> CommandOf(ls[k])]
           t == Append(ls, l)
           n == [k \in DOMAIN t |-> CommandOf(t[k])]
<1>1. t \in Seq(Text) /\ DOMAIN ls = 1..Len(ls) /\ Len(ls) \in Nat /\ DOMAIN t = 1..Len(ls) + 1
      /\ (\A k \in 1..Len(ls) : t[k] = ls[k]) /\ t[Len(ls) + 1] = l
  OBVIOUS
<1>2. m \in Seq(Seq(Text)) /\ n \in Seq(Seq(Text)) /\ CommandOf(l) \in Seq(Text)
  BY <1>1, CommandsOfLines, StripText
<1>3. Len(m) = Len(ls) /\ Len(n) = Len(ls) + 1 BY <1>1
<1>4. n = Append(m, CommandOf(l))
  <2>1. Append(m, CommandOf(l)) \in Seq(Seq(Text)) /\ Len(Append(m, CommandOf(l))) = Len(n)
    BY <1>2, <1>3
  <2>2. ASSUME NEW k \in 1..Len(n) PROVE n[k] = Append(m, CommandOf(l))[k]
    <3>1. CASE k \in 1..Len(ls)
      <4>1. n[k] = CommandOf(ls[k]) /\ m[k] = CommandOf(ls[k]) BY <1>1, <3>1
      <4> HIDE DEF m, n
      <4>2. QED BY <1>2, <1>3, <3>1, <4>1
    <3>2. CASE k = Len(ls) + 1
      <4>1. n[k] = CommandOf(l) BY <1>1, <3>2
      <4> HIDE DEF m, n
      <4>2. QED BY <1>2, <1>3, <3>2, <4>1
    <3>3. QED BY <1>1, <1>3, <3>1, <3>2
  <2> HIDE DEF m, n
  <2>3. QED BY <1>2, <2>1, <2>2, SeqEqual
<1>5. Commands(t) = FlattenSeq(n) /\ Commands(ls) = FlattenSeq(m) BY <1>1, CommandsOfLines
<1> HIDE DEF m, n
<1>6. QED BY <1>2, <1>4, <1>5, FlattenJoins

LEMMA CommandsConcat ==
  ASSUME NEW a \in Seq(Text), NEW b \in Seq(Text)
  PROVE  Commands(a \o b) = Commands(a) \o Commands(b)
<1> DEFINE S == {u \in Seq(Text) : Commands(a \o u) = Commands(a) \o Commands(u)}
<1>0. Commands(a) \in Seq(Text) BY CommandsOfLines
<1>1. <<>> \in S
  <2>1. a \o <<>> = a /\ Commands(a) \o <<>> = Commands(a) BY <1>0, ConcatEmptySeq
  <2>2. Commands(<<>>) = <<>> BY FlattenEmpty DEF Commands
  <2>3. QED BY <2>1, <2>2, EmptyText
<1>2. ASSUME NEW u \in Seq(Text), NEW l \in Text, u \in S PROVE Append(u, l) \in S
  <2>1. Append(u, l) \in Seq(Text) /\ a \o u \in Seq(Text) BY ConcatProperties
  <2>2. a \o Append(u, l) = Append(a \o u, l) BY ConcatAppend
  <2>3. Commands(a \o Append(u, l)) = Commands(a \o u) \o CommandOf(l) BY <2>1, <2>2, CommandsAppend
  <2>4. Commands(Append(u, l)) = Commands(u) \o CommandOf(l) BY CommandsAppend
  <2>5. Commands(u) \in Seq(Text) /\ CommandOf(l) \in Seq(Text) BY CommandsOfLines, StripText
  <2>6. (Commands(a) \o Commands(u)) \o CommandOf(l) = Commands(a) \o (Commands(u) \o CommandOf(l))
    BY <1>0, <2>5, ConcatAssociative
  <2>7. QED BY <1>2, <2>1, <2>3, <2>4, <2>6
<1> HIDE DEF S
<1>3. Seq(Text) \subseteq S BY <1>1, <1>2, SequenceInduction
<1>4. QED BY <1>3 DEF S

---------------------------------------------------------------------------
(* Shell sessions.                                                         *)

\* What a telnet handler has done when it has taken these lines: the rest of
\* what was typed is in the reader, and until the connection ends its lines
\* are still to be completed.
Took(p, taken) ==
  LET all == typed[p][Shell]  unread == buf[p][Shell] IN
  /\ AllLines(all) = taken \o AllLines(unread)
  /\ link[p] = "open" => Lines(all) = taken \o Lines(unread) /\ Rest(all) = Rest(unread)
  /\ phase[p] = "login" => taken = <<>>
  /\ phase[p] = "password" => taken = <<name[p]>>
  /\ phase[p] \in {"login", "password"} => emitted[p] = <<Connection>> /\ cmds[p][Shell] = <<>>
  /\ phase[p] = "shell" =>
       /\ Len(taken) >= 2
       /\ cmds[p][Shell] = Commands(SubSeq(taken, 3, Len(taken)))
       /\ emitted[p] = <<Connection, Login(taken[1], taken[2])>> \o Rows(cmds[p][Shell])

\* TelnetTranscript of one peer that is done.
Recorded(p) ==
  LET lines == AllLines(typed[p][Shell]) IN
  \E n \in 0..Len(lines) : /\ emitted[p] = Transcript(SubSeq(lines, 1, n))
                           /\ link[p] = "eof" => n = Len(lines)

SshExact(p) ==
  \A c \in Channels : cmds[p][c] = Commands(Lines(typed[p][c])) /\ buf[p][c] = Rest(typed[p][c])

\* The inductive invariant, for one peer.
PeerInv(p) ==
  /\ phase[p] = "idle" <=> service[p] = "none"
  /\ service[p] = "none" =>
       /\ emitted[p] = <<>>
       /\ \A c \in Channels : typed[p][c] = <<>> /\ buf[p][c] = <<>> /\ cmds[p][c] = <<>>
  /\ service[p] = "ssh" => phase[p] \in {"auth", "shell", "done"} /\ SshExact(p)
  /\ service[p] = "telnet" =>
       /\ phase[p] \in {"login", "password", "shell", "done"}
       /\ phase[p] # "done" => \E taken \in Seq(Text) : Took(p, taken)
       /\ phase[p] = "done" => link[p] # "open" /\ Recorded(p)

\* TypeOK without its last conjunct, which the split of the stream implies.
ShellTypes ==
  /\ service \in [Peers -> {"none", "ssh", "telnet"}]
  /\ phase \in [Peers -> {"idle", "auth", "login", "password", "shell", "done"}]
  /\ link \in [Peers -> {"open", "eof", "error"}]
  /\ chan \in [Peers -> [Channels -> {"free", "open", "ended", "lost"}]]
  /\ buf \in [Peers -> [Channels -> Text]]
  /\ typed \in [Peers -> [Channels -> Text]]
  /\ cmds \in [Peers -> [Channels -> Seq(Text)]]
  /\ name \in [Peers -> Text]

Events == {Connection, Key, Password} \cup {Login(u, w) : u, w \in Text}
            \cup {Command(cmd) : cmd \in Text} \cup {Session(list) : list \in Seq(Text)}
EmittedTyped == emitted \in [Peers -> Seq(Events)]

ShellInv == ShellTypes /\ EmittedTyped /\ \A p \in Peers : PeerInv(p)

LEMMA ChunkText ==
  ASSUME NEW chunk \in Chunks
  PROVE  chunk \in Text
<1>1. PICK m \in 0..MaxChunk : chunk \in [1..m -> Chars] BY DEF Chunks, BoundedSeq, SeqOf
<1>2. QED BY <1>1, ShellSessionAssumption DEF Text

\* Taking a line off a text that can give one.
LEMMA TakeLineText ==
  ASSUME NEW s \in Text, s # <<>>
  PROVE  /\ Line(s) \in Text /\ AfterLine(s) \in Text
         /\ AllLines(s) = <<Line(s)>> \o AllLines(AfterLine(s))
<1> DEFINE end(u) == IF Rest(u) = <<>> THEN <<>> ELSE <<Rest(u)>>
<1>1. \A u : AllLines(u) = Lines(u) \o end(u) BY DEF AllLines
<1>2. CASE HasLine(s)
  <2>1. /\ Line(s) \in Text /\ AfterLine(s) \in Text
        /\ Lines(s) = <<Line(s)>> \o Lines(AfterLine(s)) /\ Rest(s) = Rest(AfterLine(s))
    BY <1>2, FirstLine
  <2> DEFINE a == AfterLine(s)
  <2>2. Lines(a) \in Seq(Text) /\ Rest(a) \in Text BY <2>1, TextParts
  <2>3. end(a) \in Seq(Text) /\ <<Line(s)>> \in Seq(Text) BY <2>1, <2>2
  <2>4. end(s) = end(a) BY <2>1
  <2> HIDE DEF end, a
  <2>5. (<<Line(s)>> \o Lines(a)) \o end(a) = <<Line(s)>> \o (Lines(a) \o end(a))
    BY <2>2, <2>3, ConcatAssociative
  <2>6. QED BY <1>1, <2>1, <2>4, <2>5 DEF a
<1>3. CASE ~HasLine(s)
  <2>1. Lines(s) = <<>> /\ Rest(s) = s BY <1>3, NoLine
  <2>2. Line(s) = s /\ AfterLine(s) = <<>> BY <1>3 DEF Line, AfterLine
  <2>3. <<s>> \in Seq(Text) /\ <<>> \o <<s>> = <<s>> /\ <<s>> \o <<>> = <<s>> /\ <<>> \o <<>> = <<>>
    OBVIOUS
  <2>4. AllLines(s) = <<s>> BY <1>1, <2>1, <2>3
  <2>5. AllLines(<<>>) = <<>> BY <1>1, <2>3, TextEmpty
  <2>6. QED BY <2>2, <2>3, <2>4, <2>5, EmptyText
<1>4. QED BY <1>2, <1>3

\* Every step keeps the types.
LEMMA ShellTypesStep ==
  ASSUME ShellTypes, Next
  PROVE  ShellTypes'
<1>1. PICK p \in Peers : Ssh(p) \/ Telnet(p) BY DEF Next
<1>2. \A c \in Channels : buf[p][c] \in Text /\ typed[p][c] \in Text /\ cmds[p][c] \in Seq(Text)
  BY DEF ShellTypes
<1>3. Shell \in Channels BY ShellSessionAssumption
<1>4. CASE SshConnect(p) BY <1>4 DEF SshConnect, ShellTypes
<1>5. CASE OfferKey(p) BY <1>5 DEF OfferKey, ShellTypes
<1>6. CASE OfferPassword(p) BY <1>6 DEF OfferPassword, ShellTypes
<1>7. CASE SshDisconnect(p) BY <1>7 DEF SshDisconnect, ShellTypes
<1>8. ASSUME NEW c \in Channels, OpenChannel(p, c) PROVE ShellTypes'
  BY <1>8 DEF OpenChannel, ShellTypes
<1>9. ASSUME NEW c \in Channels, EofReceived(p, c) PROVE ShellTypes'
  BY <1>9 DEF EofReceived, ShellTypes
<1>10. ASSUME NEW c \in Channels, ChannelClosed(p, c) PROVE ShellTypes'
  BY <1>10 DEF ChannelClosed, ShellTypes
<1>11. ASSUME NEW c \in Channels, NEW chunk \in Chunks, DataReceived(p, c, chunk)
       PROVE  ShellTypes'
  <2> DEFINE text == buf[p][c] \o chunk
             new == Commands(Lines(text))
  <2>1. chunk \in Text BY ChunkText
  <2>2. text \in Text /\ typed[p][c] \o chunk \in Text BY <1>2, <2>1, ConcatProperties DEF Text
  <2>3. Rest(text) \in Text /\ new \in Seq(Text) BY <2>2, TextParts, CommandsOfLines
  <2>4. cmds[p][c] \o new \in Seq(Text) BY <1>2, <2>3, ConcatProperties
  <2> HIDE DEF text, new
  <2>5. /\ buf' = [buf EXCEPT ![p][c] = Rest(text)]
        /\ cmds' = [cmds EXCEPT ![p][c] = cmds[p][c] \o new]
        /\ typed' = [typed EXCEPT ![p][c] = typed[p][c] \o chunk]
        /\ UNCHANGED <<service, phase, link, chan, name>>
    BY <1>11 DEF DataReceived, HandleLines, text, new
  <2>6. QED BY <2>2, <2>3, <2>4, <2>5 DEF ShellTypes
<1>12. CASE TelnetConnect(p) BY <1>3, <1>12 DEF TelnetConnect, ShellTypes
<1>13. ASSUME NEW how \in {"eof", "error"}, Hangup(p, how) PROVE ShellTypes'
  BY <1>13 DEF Hangup, ShellTypes
<1>14. ASSUME NEW chunk \in Chunks, FeedReader(p, chunk) PROVE ShellTypes'
  <2>1. chunk \in Text BY ChunkText
  <2>2. buf[p][Shell] \o chunk \in Text /\ typed[p][Shell] \o chunk \in Text
    BY <1>2, <1>3, <2>1, ConcatProperties DEF Text
  <2>3. /\ buf' = [buf EXCEPT ![p][Shell] = buf[p][Shell] \o chunk]
        /\ typed' = [typed EXCEPT ![p][Shell] = typed[p][Shell] \o chunk]
        /\ UNCHANGED <<service, phase, link, chan, cmds, name>>
    BY <1>14 DEF FeedReader
  <2>4. QED BY <1>3, <2>2, <2>3 DEF ShellTypes
<1>15. LineReady(p) => Line(buf[p][Shell]) \in Text /\ AfterLine(buf[p][Shell]) \in Text
  <2>1. LineReady(p) => buf[p][Shell] # <<>> BY DEF LineReady, HasLine
  <2>2. QED BY <1>2, <1>3, <2>1, TakeLineText
<1>16. CASE GotUser(p)
  <2> DEFINE s == buf[p][Shell]
  <2>1. Line(s) \in Text /\ AfterLine(s) \in Text BY <1>15, <1>16 DEF GotUser
  <2>2. /\ buf' = [buf EXCEPT ![p][Shell] = AfterLine(s)]
        /\ name' = [name EXCEPT ![p] = Line(s)]
        /\ phase' = [phase EXCEPT ![p] = "password"]
        /\ UNCHANGED <<service, link, chan, cmds, typed>>
    BY <1>16 DEF GotUser, TakeLine
  <2> HIDE DEF s
  <2>3. QED BY <1>3, <2>1, <2>2 DEF ShellTypes
<1>17. CASE GotPassword(p)
  <2> DEFINE s == buf[p][Shell]
  <2>1. AfterLine(s) \in Text BY <1>15, <1>17 DEF GotPassword
  <2>2. /\ buf' = [buf EXCEPT ![p][Shell] = AfterLine(s)]
        /\ phase' = [phase EXCEPT ![p] = "shell"]
        /\ UNCHANGED <<service, link, chan, cmds, name, typed>>
    BY <1>17 DEF GotPassword, TakeLine
  <2> HIDE DEF s
  <2>3. QED BY <1>3, <2>1, <2>2 DEF ShellTypes
<1>18. CASE GotLine(p)
  <2> DEFINE s == buf[p][Shell]
             new == Commands(<<Line(s)>>)
  <2>1. Line(s) \in Text /\ AfterLine(s) \in Text BY <1>15, <1>18 DEF GotLine
  <2>2. <<Line(s)>> \in Seq(Text) BY <2>1
  <2>3. cmds[p][Shell] \o new \in Seq(Text)
    BY <1>2, <1>3, <2>2, CommandsOfLines, ConcatProperties
  <2>4. /\ buf' = [buf EXCEPT ![p][Shell] = AfterLine(s)]
        /\ cmds' = [cmds EXCEPT ![p][Shell] = cmds[p][Shell] \o new]
        /\ UNCHANGED <<service, phase, link, chan, name, typed>>
    BY <1>18 DEF GotLine, TakeLine
  <2> HIDE DEF s, new
  <2>5. QED BY <1>3, <2>1, <2>3, <2>4 DEF ShellTypes
<1>19. CASE GivesUp(p) BY <1>3, <1>19 DEF GivesUp, ShellTypes
<1>20. CASE LogsOut(p) BY <1>3, <1>20 DEF LogsOut, ShellTypes
<1>21. QED BY <1>1, <1>4, <1>5, <1>6, <1>7, <1>8, <1>9, <1>10, <1>11, <1>12, <1>13, <1>14,
              <1>16, <1>17, <1>18, <1>19, <1>20
           DEF Ssh, Telnet, ShellStep

\* Nothing that concerns a peer changes.
Same(q) ==
  /\ service'[q] = service[q] /\ phase'[q] = phase[q] /\ link'[q] = link[q] /\ chan'[q] = chan[q]
  /\ buf'[q] = buf[q] /\ cmds'[q] = cmds[q] /\ name'[q] = name[q]
  /\ emitted'[q] = emitted[q] /\ typed'[q] = typed[q]

LEMMA PeerSame ==
  ASSUME NEW q \in Peers, PeerInv(q), Same(q)
  PROVE  PeerInv(q)'
BY DEF PeerInv, Same, SshExact, Took, Recorded

LEMMA RowsTyped ==
  ASSUME NEW list \in Seq(Text)
  PROVE  Rows(list) \in Seq(Events) /\ Len(Rows(list)) = Len(list)
<1>1. Len(list) \in Nat /\ DOMAIN list = 1..Len(list) /\ \A k \in 1..Len(list) : list[k] \in Text
  OBVIOUS
<1>2. \A cmd \in Text : Command(cmd) \in Events BY DEF Events
<1>3. Rows(list) \in [1..Len(list) -> Events] BY <1>1, <1>2 DEF Rows
<1>4. QED BY <1>1, <1>3

LEMMA EmitTyped ==
  ASSUME EmittedTyped, NEW p \in Peers, NEW rows \in Seq(Events), Emit(p, rows)
  PROVE  /\ EmittedTyped' /\ emitted'[p] = emitted[p] \o rows
         /\ \A q \in Peers : q # p => emitted'[q] = emitted[q]
<1>1. emitted[p] \o rows \in Seq(Events) BY ConcatProperties DEF EmittedTyped
<1>2. emitted' = [emitted EXCEPT ![p] = emitted[p] \o rows] BY DEF Emit
<1>3. QED BY <1>1, <1>2 DEF EmittedTyped

\* What a step of a peer emits are events, and they are about this peer.
LEMMA StepEmits ==
  ASSUME ShellTypes, EmittedTyped, NEW p \in Peers, Ssh(p) \/ Telnet(p)
  PROVE  EmittedTyped' /\ \A q \in Peers : q # p => emitted'[q] = emitted[q]
<1>1. \A c \in Channels : buf[p][c] \in Text /\ cmds[p][c] \in Seq(Text) BY DEF ShellTypes
<1>2. Shell \in Channels /\ name[p] \in Text BY ShellSessionAssumption DEF ShellTypes
<1>3. /\ <<Connection>> \in Seq(Events) /\ <<Key>> \in Seq(Events) /\ <<Password>> \in Seq(Events)
      /\ \A u, w \in Text : <<Login(u, w)>> \in Seq(Events)
      /\ \A list \in Seq(Text) : <<Session(list)>> \in Seq(Events)
  BY DEF Events
<1>4. ASSUME emitted' = emitted PROVE EmittedTyped' /\ \A q \in Peers : q # p => emitted'[q] = emitted[q]
  BY <1>4 DEF EmittedTyped
<1>5. CASE SshConnect(p) \/ TelnetConnect(p)
  BY <1>3, <1>5, EmitTyped DEF SshConnect, TelnetConnect
<1>6. CASE OfferKey(p) BY <1>3, <1>6, EmitTyped DEF OfferKey
<1>7. CASE OfferPassword(p) BY <1>3, <1>7, EmitTyped DEF OfferPassword
<1>8. CASE SshDisconnect(p) BY <1>4, <1>8 DEF SshDisconnect
<1>9. ASSUME NEW c \in Channels, OpenChannel(p, c) \/ ChannelClosed(p, c)
      PROVE  EmittedTyped' /\ \A q \in Peers : q # p => emitted'[q] = emitted[q]
  BY <1>4, <1>9 DEF OpenChannel, ChannelClosed
<1>10. ASSUME NEW c \in Channels, EofReceived(p, c)
       PROVE  EmittedTyped' /\ \A q \in Peers : q # p => emitted'[q] = emitted[q]
  BY <1>1, <1>3, <1>10, EmitTyped DEF EofReceived
<1>11. ASSUME NEW c \in Channels, NEW chunk \in Chunks, DataReceived(p, c, chunk)
       PROVE  EmittedTyped' /\ \A q \in Peers : q # p => emitted'[q] = emitted[q]
  <2> DEFINE new == Commands(Lines(buf[p][c] \o chunk))
  <2>1. buf[p][c] \o chunk \in Text BY <1>1, ChunkText, ConcatProperties DEF Text
  <2>2. new \in Seq(Text) BY <2>1, TextParts, CommandsOfLines
  <2>3. Rows(new) \in Seq(Events) BY <2>2, RowsTyped
  <2>4. Emit(p, Rows(new)) BY <1>11 DEF DataReceived, HandleLines
  <2> HIDE DEF new
  <2>5. QED BY <2>3, <2>4, EmitTyped
<1>12. ASSUME NEW how \in {"eof", "error"}, Hangup(p, how)
       PROVE  EmittedTyped' /\ \A q \in Peers : q # p => emitted'[q] = emitted[q]
  BY <1>4, <1>12 DEF Hangup
<1>13. ASSUME NEW chunk \in Chunks, FeedReader(p, chunk)
       PROVE  EmittedTyped' /\ \A q \in Peers : q # p => emitted'[q] = emitted[q]
  BY <1>4, <1>13 DEF FeedReader
<1>14. LineReady(p) => Line(buf[p][Shell]) \in Text
  <2>1. LineReady(p) => buf[p][Shell] # <<>> BY DEF LineReady, HasLine
  <2>2. QED BY <1>1, <1>2, <2>1, TakeLineText
<1>15. CASE GotUser(p) BY <1>4, <1>15 DEF GotUser
<1>16. CASE GotPassword(p)
  <2>1. <<Login(name[p], Line(buf[p][Shell]))>> \in Seq(Events)
    BY <1>2, <1>3, <1>14, <1>16 DEF GotPassword
  <2>2. QED BY <1>16, <2>1, EmitTyped DEF GotPassword
<1>17. CASE GotLine(p)
  <2> DEFINE new == Commands(<<Line(buf[p][Shell])>>)
  <2>1. <<Line(buf[p][Shell])>> \in Seq(Text) BY <1>14, <1>17 DEF GotLine
  <2>2. Rows(new) \in Seq(Events) BY <2>1, CommandsOfLines, RowsTyped
  <2>3. Emit(p, Rows(new)) BY <1>17 DEF GotLine
  <2> HIDE DEF new
  <2>4. QED BY <2>2, <2>3, EmitTyped
<1>18. CASE GivesUp(p) BY <1>4, <1>18 DEF GivesUp
<1>19. CASE LogsOut(p) BY <1>1, <1>2, <1>3, <1>19, EmitTyped DEF LogsOut
<1>20. QED BY <1>5, <1>6, <1>7, <1>8, <1>9, <1>10, <1>11, <1>12, <1>13, <1>15, <1>16, <1>17,
              <1>18, <1>19
           DEF Ssh, Telnet, ShellStep

\* A step of a peer changes nothing of the others.
LEMMA OthersSame ==
  ASSUME ShellTypes, EmittedTyped, NEW p \in Peers, Ssh(p) \/ Telnet(p),
         NEW q \in Peers, q # p
  PROVE  Same(q)
<1>1. emitted'[q] = emitted[q] BY StepEmits
<1>2. CASE SshConnect(p) \/ OfferKey(p) \/ OfferPassword(p) \/ SshDisconnect(p)
  BY <1>1, <1>2 DEF SshConnect, OfferKey, OfferPassword, SshDisconnect, Same, ShellTypes
<1>3. ASSUME NEW c \in Channels, OpenChannel(p, c) \/ EofReceived(p, c) \/ ChannelClosed(p, c)
      PROVE  Same(q)
  BY <1>1, <1>3 DEF OpenChannel, EofReceived, ChannelClosed, Same, ShellTypes
<1>4. ASSUME NEW c \in Channels, NEW chunk \in Chunks, DataReceived(p, c, chunk)
      PROVE  Same(q)
  BY <1>1, <1>4 DEF DataReceived, HandleLines, Same, ShellTypes
<1>5. CASE TelnetConnect(p) \/ GivesUp(p) \/ LogsOut(p)
  BY <1>1, <1>5 DEF TelnetConnect, GivesUp, LogsOut, Same, ShellTypes
<1>6. CASE GotUser(p) \/ GotPassword(p) \/ GotLine(p)
  BY <1>1, <1>6 DEF GotUser, GotPassword, GotLine, TakeLine, Same, ShellTypes
<1>7. ASSUME NEW how \in {"eof", "error"}, Hangup(p, how) PROVE Same(q)
  BY <1>1, <1>7 DEF Hangup, Same, ShellTypes
<1>8. ASSUME NEW chunk \in Chunks, FeedReader(p, chunk) PROVE Same(q)
  BY <1>1, <1>8 DEF FeedReader, Same, ShellTypes
<1>9. QED BY <1>2, <1>3, <1>4, <1>5, <1>6, <1>7, <1>8 DEF Ssh, Telnet, ShellStep

\* What is handled of a stream that was split exactly leaves it split exactly.
LEMMA HandledExact ==
  ASSUME NEW all \in Text, NEW chunk \in Text
  PROVE  /\ Commands(Lines(all)) \o Commands(Lines(Rest(all) \o chunk))
              = Commands(Lines(all \o chunk))
         /\ Rest(Rest(all) \o chunk) = Rest(all \o chunk)
<1>1. Lines(all) \in Seq(Text) /\ Rest(all) \in Text BY TextParts
<1>2. Rest(all) \o chunk \in Text BY <1>1, ConcatProperties DEF Text
<1>3. Lines(Rest(all) \o chunk) \in Seq(Text) BY <1>2, TextParts
<1>4. QED BY <1>1, <1>3, CommandsConcat, TextConcat

\* The steps of SSH.
LEMMA SshSteps ==
  ASSUME ShellInv, NEW p \in Peers, Ssh(p)
  PROVE  PeerInv(p)'
<1>1. ShellTypes /\ PeerInv(p) BY DEF ShellInv
<1>2. CASE SshConnect(p)
  <2>1. service[p] = "none" BY <1>1, <1>2 DEF SshConnect, PeerInv
  <2>2. service'[p] = "ssh" /\ phase'[p] = "auth" /\ buf' = buf /\ cmds' = cmds /\ typed' = typed
    BY <1>1, <1>2 DEF SshConnect, ShellTypes
  <2>3. Commands(Lines(<<>>)) = <<>> /\ Rest(<<>>) = <<>> BY TextEmpty, FlattenEmpty DEF Commands
  <2>4. QED BY <1>1, <2>1, <2>2, <2>3 DEF PeerInv, SshExact
<1>3. ASSUME service[p] = "ssh", service' = service, phase'[p] \in {"auth", "shell", "done"},
             buf' = buf, cmds' = cmds, typed' = typed
      PROVE  PeerInv(p)'
  BY <1>1, <1>3 DEF PeerInv, SshExact
<1>4. CASE OfferKey(p) BY <1>1, <1>3, <1>4 DEF OfferKey, PeerInv
<1>5. CASE OfferPassword(p) BY <1>1, <1>3, <1>5 DEF OfferPassword, ShellTypes
<1>6. CASE SshDisconnect(p) BY <1>1, <1>3, <1>6 DEF SshDisconnect, ShellTypes
<1>7. ASSUME NEW c \in Channels, OpenChannel(p, c) \/ EofReceived(p, c) \/ ChannelClosed(p, c)
      PROVE  PeerInv(p)'
  BY <1>1, <1>3, <1>7 DEF OpenChannel, EofReceived, ChannelClosed, PeerInv
<1>8. ASSUME NEW c \in Channels, NEW chunk \in Chunks, DataReceived(p, c, chunk)
      PROVE  PeerInv(p)'
  <2> DEFINE all == typed[p][c]
             new == Commands(Lines(buf[p][c] \o chunk))
  <2>1. all \in Text /\ chunk \in Text BY <1>1, ChunkText DEF ShellTypes
  <2>2. service[p] = "ssh" BY <1>8 DEF DataReceived
  <2>3. /\ phase[p] \in {"auth", "shell", "done"}
        /\ \A d \in Channels : cmds[p][d] = Commands(Lines(typed[p][d])) /\ buf[p][d] = Rest(typed[p][d])
    BY <1>1, <2>2 DEF PeerInv, SshExact
  <2>4. /\ buf' = [buf EXCEPT ![p][c] = Rest(buf[p][c] \o chunk)]
        /\ cmds' = [cmds EXCEPT ![p][c] = cmds[p][c] \o new]
        /\ typed' = [typed EXCEPT ![p][c] = all \o chunk]
        /\ service' = service /\ phase' = phase
    BY <1>8 DEF DataReceived, HandleLines
  <2>5. /\ buf'[p][c] = Rest(buf[p][c] \o chunk) /\ cmds'[p][c] = cmds[p][c] \o new
        /\ typed'[p][c] = all \o chunk
        /\ \A d \in Channels \ {c} : /\ buf'[p][d] = buf[p][d] /\ cmds'[p][d] = cmds[p][d]
                                     /\ typed'[p][d] = typed[p][d]
    BY <1>1, <2>4 DEF ShellTypes
  <2>6. cmds'[p][c] = Commands(Lines(typed'[p][c])) /\ buf'[p][c] = Rest(typed'[p][c])
    BY <2>1, <2>3, <2>5, HandledExact
  <2> HIDE DEF all, new
  <2>7. SshExact(p)' BY <2>3, <2>5, <2>6 DEF SshExact
  <2>8. QED BY <2>2, <2>3, <2>4, <2>7 DEF PeerInv
<1>9. QED BY <1>2, <1>4, <1>5, <1>6, <1>7, <1>8 DEF Ssh

\* The end of a text that no newline ends, as a line or none.
End(u) == IF Rest(u) = <<>> THEN <<>> ELSE <<Rest(u)>>

LEMMA AllLinesTyped ==
  ASSUME NEW s \in Text
  PROVE  /\ AllLines(s) \in Seq(Text) /\ End(s) \in Seq(Text) /\ Lines(s) \in Seq(Text)
         /\ AllLines(s) = Lines(s) \o End(s)
<1>1. Lines(s) \in Seq(Text) /\ Rest(s) \in Text BY TextParts
<1>2. End(s) \in Seq(Text) BY <1>1 DEF End
<1>3. AllLines(s) = Lines(s) \o End(s) BY DEF AllLines, End
<1>4. QED BY <1>1, <1>2, <1>3, ConcatProperties

\* More text for the reader.
LEMMA Fed ==
  ASSUME NEW all \in Text, NEW unread \in Text, NEW chunk \in Text, NEW taken \in Seq(Text),
         Lines(all) = taken \o Lines(unread), Rest(all) = Rest(unread)
  PROVE  /\ Lines(all \o chunk) = taken \o Lines(unread \o chunk)
         /\ Rest(all \o chunk) = Rest(unread \o chunk)
         /\ AllLines(all \o chunk) = taken \o AllLines(unread \o chunk)
<1> DEFINE more == Rest(unread) \o chunk
<1>1. all \o chunk \in Text /\ unread \o chunk \in Text BY ConcatProperties DEF Text
<1>2. more \in Text BY TextParts, ConcatProperties DEF Text
<1>3. Lines(unread) \in Seq(Text) /\ Lines(more) \in Seq(Text) BY <1>2, TextParts
<1>4. /\ Lines(all \o chunk) = Lines(all) \o Lines(more) /\ Rest(all \o chunk) = Rest(more)
      /\ Lines(unread \o chunk) = Lines(unread) \o Lines(more) /\ Rest(unread \o chunk) = Rest(more)
  BY TextConcat
<1> HIDE DEF more
<1>5. (taken \o Lines(unread)) \o Lines(more) = taken \o (Lines(unread) \o Lines(more))
  BY <1>3, ConcatAssociative
<1>6. Lines(all \o chunk) = taken \o Lines(unread \o chunk) BY <1>4, <1>5
<1>7. End(all \o chunk) = End(unread \o chunk) BY <1>4 DEF End
<1> DEFINE a == all \o chunk
           u == unread \o chunk
<1>8. /\ AllLines(a) = Lines(a) \o End(a) /\ AllLines(u) = Lines(u) \o End(u)
      /\ Lines(u) \in Seq(Text) /\ End(u) \in Seq(Text)
  BY <1>1, AllLinesTyped
<1> HIDE DEF a, u
<1>9. (taken \o Lines(u)) \o End(u) = taken \o (Lines(u) \o End(u)) BY <1>8, ConcatAssociative
<1>10. AllLines(a) = taken \o AllLines(u) BY <1>6, <1>7, <1>8, <1>9 DEF a, u
<1>11. QED BY <1>4, <1>6, <1>10 DEF a, u

\* One line more is taken.
LEMMA TakenLine ==
  ASSUME NEW all \in Text, NEW unread \in Text, unread # <<>>, NEW taken \in Seq(Text),
         AllLines(all) = taken \o AllLines(unread)
  PROVE  /\ Append(taken, Line(unread)) \in Seq(Text)
         /\ AllLines(all) = Append(taken, Line(unread)) \o AllLines(AfterLine(unread))
         /\ HasLine(unread) /\ Lines(all) = taken \o Lines(unread) /\ Rest(all) = Rest(unread)
              => /\ Lines(all) = Append(taken, Line(unread)) \o Lines(AfterLine(unread))
                 /\ Rest(all) = Rest(AfterLine(unread))
<1> DEFINE l == Line(unread)
           after == AfterLine(unread)
<1>1. l \in Text /\ after \in Text /\ AllLines(unread) = <<l>> \o AllLines(after) BY TakeLineText
<1>2. HasLine(unread) => Lines(unread) = <<l>> \o Lines(after) /\ Rest(unread) = Rest(after)
  BY FirstLine
<1> HIDE DEF l, after
<1>3. <<l>> \in Seq(Text) /\ Append(taken, l) = taken \o <<l>> /\ Append(taken, l) \in Seq(Text)
  BY <1>1, AppendIsConcat
<1>4. AllLines(after) \in Seq(Text) /\ Lines(after) \in Seq(Text) BY <1>1, AllLinesTyped
<1>5. /\ (taken \o <<l>>) \o AllLines(after) = taken \o (<<l>> \o AllLines(after))
      /\ (taken \o <<l>>) \o Lines(after) = taken \o (<<l>> \o Lines(after))
  BY <1>3, <1>4, ConcatAssociative
<1>6. QED BY <1>1, <1>2, <1>3, <1>5 DEF l, after

\* The commands of a session are those of the lines after the login.
LEMMA AfterLogin ==
  ASSUME NEW taken \in Seq(Text), NEW l \in Text, Len(taken) >= 2
  PROVE  LET more == Append(taken, l) IN
         /\ Len(more) >= 2 /\ more[1] = taken[1] /\ more[2] = taken[2]
         /\ Commands(SubSeq(more, 3, Len(more)))
              = Commands(SubSeq(taken, 3, Len(taken))) \o Commands(<<l>>)
         /\ SubSeq(taken, 3, Len(taken)) \in Seq(Text)
<1> DEFINE n == Len(taken)
           more == Append(taken, l)
           a == SubSeq(taken, 3, n)
           b == SubSeq(more, 3, n + 1)
<1>1. /\ n \in Nat /\ n >= 2 /\ more \in Seq(Text) /\ Len(more) = n + 1 /\ more[n + 1] = l
      /\ (\A k \in 1..n : more[k] = taken[k]) /\ (\A k \in 1..n : taken[k] \in Text)
      /\ (\A k \in 1..n+1 : more[k] \in Text)
  OBVIOUS
<1> HIDE DEF more, n
<1>2. a \in Seq(Text) /\ Len(a) = n - 2 /\ \A k \in 1..n-2 : a[k] = taken[k + 2]
  <2>1. 3 \in Int /\ n \in Int /\ \A k \in 3..n : taken[k] \in Text BY <1>1
  <2>2. a \in Seq(Text) /\ Len(a) = (IF 3 <= n THEN n - 3 + 1 ELSE 0)
        /\ \A k \in 1..n - 3 + 1 : a[k] = taken[3 + k - 1]
    BY <2>1, SubSeqProperties
  <2> HIDE DEF a
  <2>3. (IF 3 <= n THEN n - 3 + 1 ELSE 0) = n - 2 BY <1>1
  <2>4. \A k \in 1..n-2 : k \in 1..n - 3 + 1 /\ 3 + k - 1 = k + 2 BY <1>1
  <2>5. QED BY <2>2, <2>3, <2>4
<1>3. b \in Seq(Text) /\ Len(b) = n - 1 /\ \A k \in 1..n-1 : b[k] = more[k + 2]
  <2>1. 3 \in Int /\ n + 1 \in Int /\ \A k \in 3..n+1 : more[k] \in Text BY <1>1
  <2>2. b \in Seq(Text) /\ Len(b) = (IF 3 <= n + 1 THEN (n + 1) - 3 + 1 ELSE 0)
        /\ \A k \in 1..(n + 1) - 3 + 1 : b[k] = more[3 + k - 1]
    BY <2>1, SubSeqProperties
  <2> HIDE DEF b
  <2>3. (IF 3 <= n + 1 THEN (n + 1) - 3 + 1 ELSE 0) = n - 1 BY <1>1
  <2>4. \A k \in 1..n-1 : k \in 1..(n + 1) - 3 + 1 /\ 3 + k - 1 = k + 2 BY <1>1
  <2>5. QED BY <2>2, <2>3, <2>4
<1> HIDE DEF a, b
<1>4. b = Append(a, l)
  <2>1. /\ Append(a, l) \in Seq(Text) /\ Len(Append(a, l)) = n - 1
        /\ Append(a, l)[n - 1] = l /\ \A k \in 1..n-2 : Append(a, l)[k] = a[k]
    BY <1>1, <1>2
  <2>2. ASSUME NEW k \in 1..Len(b) PROVE b[k] = Append(a, l)[k]
    <3>1. k \in 1..n-1 /\ b[k] = more[k + 2] BY <1>3
    <3>2. CASE k = n - 1
      <4>1. k + 2 = n + 1 BY <1>1, <3>2
      <4>2. QED BY <1>1, <2>1, <3>1, <3>2, <4>1
    <3>3. CASE k # n - 1
      <4>1. k \in 1..n-2 /\ k + 2 \in 1..n BY <1>1, <3>1, <3>3
      <4>2. QED BY <1>1, <1>2, <2>1, <3>1, <4>1
    <3>4. QED BY <3>2, <3>3
  <2>3. QED BY <1>3, <2>1, <2>2, SeqEqual
<1>5. Commands(b) = Commands(a) \o CommandOf(l) BY <1>2, <1>4, CommandsAppend
<1>6. Commands(<<l>>) = CommandOf(l)
  <2>1. Commands(<<>>) = <<>> BY FlattenEmpty DEF Commands
  <2>2. Append(<<>>, l) = <<l>> /\ <<>> \in Seq(Text) OBVIOUS
  <2>3. CommandOf(l) \in Seq(Text) BY StripText
  <2>4. Commands(Append(<<>>, l)) = <<>> \o CommandOf(l) BY <2>1, <2>2, CommandsAppend
  <2>5. QED BY <2>2, <2>3, <2>4, ConcatEmptySeq
<1>7. Len(more) >= 2 /\ more[1] = taken[1] /\ more[2] = taken[2] BY <1>1
<1>8. QED BY <1>1, <1>2, <1>5, <1>6, <1>7 DEF more, n, a, b

LEMMA RowsConcat ==
  ASSUME NEW a \in Seq(Text), NEW b \in Seq(Text)
  PROVE  Rows(a \o b) = Rows(a) \o Rows(b)
<1>1. /\ Len(a) \in Nat /\ Len(b) \in Nat /\ DOMAIN a = 1..Len(a) /\ DOMAIN b = 1..Len(b)
      /\ a \o b \in Seq(Text) /\ Len(a \o b) = Len(a) + Len(b) /\ DOMAIN (a \o b) = 1..Len(a) + Len(b)
      /\ \A k \in 1..Len(a) + Len(b) : (a \o b)[k] = IF k <= Len(a) THEN a[k] ELSE b[k - Len(a)]
  BY ConcatProperties
<1> DEFINE ab == a \o b
<1> HIDE DEF ab
<1>2. /\ Rows(a) \in Seq(Events) /\ Len(Rows(a)) = Len(a) /\ Rows(b) \in Seq(Events)
      /\ Len(Rows(b)) = Len(b) /\ Rows(ab) \in Seq(Events) /\ Len(Rows(ab)) = Len(a) + Len(b)
  BY <1>1, RowsTyped DEF ab
<1>3. /\ \A k \in 1..Len(a) : Rows(a)[k] = Command(a[k])
      /\ \A k \in 1..Len(b) : Rows(b)[k] = Command(b[k])
      /\ \A k \in 1..Len(a) + Len(b) : Rows(ab)[k] = Command(ab[k])
  BY <1>1 DEF Rows, ab
<1> DEFINE r == Rows(a) \o Rows(b)
<1>4. /\ r \in Seq(Events) /\ Len(r) = Len(a) + Len(b)
      /\ \A k \in 1..Len(a) + Len(b) : r[k] = IF k <= Len(a) THEN Rows(a)[k] ELSE Rows(b)[k - Len(a)]
  <2> DEFINE x == Rows(a)
             y == Rows(b)
  <2> HIDE DEF x, y
  <2>1. x \in Seq(Events) /\ y \in Seq(Events) /\ Len(x) = Len(a) /\ Len(y) = Len(b)
    BY <1>2 DEF x, y
  <2>2. /\ x \o y \in Seq(Events) /\ Len(x \o y) = Len(x) + Len(y)
        /\ \A k \in 1..Len(x) + Len(y) : (x \o y)[k] = IF k <= Len(x) THEN x[k] ELSE y[k - Len(x)]
    BY <2>1, ConcatProperties
  <2>3. r = x \o y BY DEF x, y
  <2> HIDE DEF r
  <2>4. QED BY <2>1, <2>2, <2>3 DEF x, y
<1> HIDE DEF r
<1>5. ASSUME NEW k \in 1..Len(a) + Len(b) PROVE Rows(ab)[k] = r[k]
  <2>1. Rows(ab)[k] = Command(ab[k]) /\ ab[k] = IF k <= Len(a) THEN a[k] ELSE b[k - Len(a)]
    BY <1>1, <1>3 DEF ab
  <2>2. CASE k <= Len(a)
    <3>1. k \in 1..Len(a) BY <1>1, <2>2
    <3>2. QED BY <1>3, <1>4, <2>1, <2>2, <3>1
  <2>3. CASE ~(k <= Len(a))
    <3>1. k - Len(a) \in 1..Len(b) BY <1>1, <2>3
    <3>2. QED BY <1>3, <1>4, <2>1, <2>3, <3>1
  <2>4. QED BY <2>2, <2>3
<1>6. Rows(ab) = r BY <1>1, <1>2, <1>4, <1>5, SeqEqual
<1>7. QED BY <1>6 DEF ab, r

\* What is recorded of a telnet handler that has taken these lines and ends.
LEMMA TakenRecorded ==
  ASSUME NEW taken \in Seq(Text), NEW unread \in Text, NEW lines,
         lines = taken \o AllLines(unread)
  PROVE  /\ Len(taken) \in 0..Len(lines) /\ SubSeq(lines, 1, Len(taken)) = taken
         /\ unread = <<>> => Len(taken) = Len(lines)
<1> DEFINE u == AllLines(unread)
<1>1. u \in Seq(Text) /\ (unread = <<>> => u = <<>>)
  <2>1. AllLines(unread) \in Seq(Text) BY AllLinesTyped
  <2>2. <<>> \o <<>> = <<>> OBVIOUS
  <2>3. AllLines(<<>>) = <<>> BY <2>2, TextEmpty DEF AllLines
  <2>4. QED BY <2>1, <2>3
<1> HIDE DEF u
<1>2. /\ lines = taken \o u /\ lines \in Seq(Text) /\ Len(lines) = Len(taken) + Len(u)
      /\ Len(taken) \in Nat /\ Len(u) \in Nat
      /\ \A k \in 1..Len(taken) + Len(u) : lines[k] = IF k <= Len(taken) THEN taken[k] ELSE u[k - Len(taken)]
  BY <1>1, ConcatProperties DEF u
<1>3. Len(taken) \in 0..Len(lines) BY <1>2
<1>4. SubSeq(lines, 1, Len(taken)) = taken
  <2>1. SubSeq(taken \o u, 1, Len(taken)) = SubSeq(taken, 1, Len(taken))
    <3>1. CASE Len(taken) = 0
      <4>1. Len(taken) \in Int /\ Len(taken) < 1 BY <3>1
      <4>2. QED BY <4>1, SubSeqEmpty
    <3>2. CASE Len(taken) # 0
      <4>1. 1 \in 1..Len(taken) /\ Len(taken) \in 1..Len(taken) BY <1>2, <3>2
      <4>2. QED BY <1>1, <4>1, SubSeqOfConcat1
    <3>3. QED BY <3>1, <3>2
  <2>2. SubSeq(taken, 1, Len(taken)) = taken BY SubSeqFull
  <2>3. QED BY <1>2, <2>1, <2>2
<1>5. u = <<>> => Len(taken) = Len(lines) BY <1>2
<1>6. QED BY <1>1, <1>3, <1>4, <1>5

\* The steps of telnet.
LEMMA TelnetSteps ==
  ASSUME ShellInv, NEW p \in Peers, Telnet(p)
  PROVE  PeerInv(p)'
<1>1. ShellTypes /\ EmittedTyped /\ PeerInv(p) /\ Shell \in Channels
  BY ShellSessionAssumption DEF ShellInv
<1> DEFINE all == typed[p][Shell]
           unread == buf[p][Shell]
           line == Line(unread)
<1>2. all \in Text /\ unread \in Text /\ emitted[p] \in Seq(Events) /\ cmds[p][Shell] \in Seq(Text)
      /\ name[p] \in Text
  BY <1>1 DEF ShellTypes, EmittedTyped
<1>3. /\ <<Connection>> \in Seq(Events) /\ (\A u, w \in Text : <<Login(u, w)>> \in Seq(Events))
      /\ \A list \in Seq(Text) : <<Session(list)>> \in Seq(Events)
  BY DEF Events
\* The handler has taken these lines so far.
<1>4. ASSUME service[p] = "telnet", phase[p] # "done"
      PROVE  /\ phase[p] \in {"login", "password", "shell"}
             /\ \E taken \in Seq(Text) : Took(p, taken)
  BY <1>1, <1>4 DEF PeerInv
<1>5. ASSUME NEW taken \in Seq(Text), Took(p, taken)'
      PROVE  \E t \in Seq(Text) : Took(p, t)'
  BY <1>5
<1>6. ASSUME service'[p] = "telnet", phase'[p] \in {"login", "password", "shell"},
             \E taken \in Seq(Text) : Took(p, taken)'
      PROVE  PeerInv(p)'
  BY <1>6 DEF PeerInv
<1>7. ASSUME service'[p] = "telnet", phase'[p] = "done", link'[p] # "open", Recorded(p)'
      PROVE  PeerInv(p)'
  BY <1>7 DEF PeerInv
<1>8. LineReady(p) => unread # <<>> /\ (link[p] = "open" => HasLine(unread)) BY DEF LineReady, HasLine
\* A line is taken.
<1>9. ASSUME NEW taken \in Seq(Text), Took(p, taken), LineReady(p), TakeLine(p),
             UNCHANGED <<link, typed>>, NEW more, more = Append(taken, line)
      PROVE  /\ more \in Seq(Text) /\ line \in Text
             /\ AllLines(typed'[p][Shell]) = more \o AllLines(buf'[p][Shell])
             /\ link'[p] = "open" =>
                  /\ Lines(typed'[p][Shell]) = more \o Lines(buf'[p][Shell])
                  /\ Rest(typed'[p][Shell]) = Rest(buf'[p][Shell])
  <2>1. buf'[p][Shell] = AfterLine(unread) /\ typed'[p][Shell] = all /\ link'[p] = link[p]
    BY <1>1, <1>9 DEF TakeLine, ShellTypes
  <2>2. /\ AllLines(all) = taken \o AllLines(unread)
        /\ link[p] = "open" => Lines(all) = taken \o Lines(unread) /\ Rest(all) = Rest(unread)
    BY <1>9 DEF Took
  <2>3. unread # <<>> /\ (link[p] = "open" => HasLine(unread)) BY <1>8, <1>9
  <2>4. line \in Text BY <1>2, <2>3, TakeLineText
  <2>5. /\ Append(taken, Line(unread)) \in Seq(Text)
        /\ AllLines(all) = Append(taken, Line(unread)) \o AllLines(AfterLine(unread))
        /\ HasLine(unread) /\ Lines(all) = taken \o Lines(unread) /\ Rest(all) = Rest(unread)
              => /\ Lines(all) = Append(taken, Line(unread)) \o Lines(AfterLine(unread))
                 /\ Rest(all) = Rest(AfterLine(unread))
    BY <1>2, <1>9, <2>2, <2>3, TakenLine
  <2>6. more = Append(taken, Line(unread)) BY <1>9
  <2> HIDE DEF all, unread, line
  <2>7. QED BY <2>1, <2>2, <2>3, <2>4, <2>5, <2>6
<1>10. CASE TelnetConnect(p)
  <2>1. service[p] = "none" BY <1>1, <1>10 DEF TelnetConnect, PeerInv
  <2>2. all = <<>> /\ unread = <<>> /\ cmds[p][Shell] = <<>> /\ emitted[p] = <<>>
    BY <1>1, <2>1 DEF PeerInv
  <2>3. service'[p] = "telnet" /\ phase'[p] = "login" /\ buf' = buf /\ cmds' = cmds /\ typed' = typed
    BY <1>1, <1>10 DEF TelnetConnect, ShellTypes
  <2>4. emitted'[p] = <<Connection>>
    <3>1. emitted'[p] = emitted[p] \o <<Connection>> BY <1>1, <1>3, <1>10, EmitTyped DEF TelnetConnect
    <3>2. <<>> \o <<Connection>> = <<Connection>> BY <1>3, ConcatEmptySeq
    <3>3. QED BY <2>2, <3>1, <3>2
  <2>5. <<>> \o <<>> = <<>> OBVIOUS
  <2>6. AllLines(<<>>) = <<>> BY <2>5, TextEmpty DEF AllLines
  <2>7. Took(p, <<>>)' BY <2>2, <2>3, <2>4, <2>5, <2>6, TextEmpty DEF Took
  <2>8. QED BY <1>6, <2>3, <2>7, EmptyText
<1>11. ASSUME NEW how \in {"eof", "error"}, Hangup(p, how) PROVE PeerInv(p)'
  <2>1. service[p] = "telnet" /\ link[p] = "open" BY <1>11 DEF Hangup
  <2>2. phase[p] # "done" BY <1>1, <2>1 DEF PeerInv
  <2>3. PICK taken \in Seq(Text) : Took(p, taken) BY <1>4, <2>1, <2>2
  <2>4. /\ link'[p] # "open" /\ service' = service /\ phase' = phase /\ buf' = buf /\ cmds' = cmds
        /\ name' = name /\ emitted' = emitted /\ typed' = typed
    BY <1>1, <1>11 DEF Hangup, ShellTypes
  <2>5. Took(p, taken)' BY <2>3, <2>4 DEF Took
  <2>6. QED BY <1>4, <1>6, <2>1, <2>2, <2>4, <2>5
<1>12. ASSUME NEW chunk \in Chunks, FeedReader(p, chunk) PROVE PeerInv(p)'
  <2>1. service[p] = "telnet" /\ link[p] = "open" /\ phase[p] # "done" BY <1>12 DEF FeedReader
  <2>2. PICK taken \in Seq(Text) : Took(p, taken) BY <1>4, <2>1
  <2>3. /\ typed'[p][Shell] = all \o chunk /\ buf'[p][Shell] = unread \o chunk
        /\ service' = service /\ phase' = phase /\ link' = link /\ cmds' = cmds /\ name' = name
        /\ emitted' = emitted
    BY <1>1, <1>12 DEF FeedReader, ShellTypes
  <2>4. Lines(all) = taken \o Lines(unread) /\ Rest(all) = Rest(unread) BY <2>1, <2>2 DEF Took
  <2>5. chunk \in Text BY ChunkText
  <2>6. /\ Lines(all \o chunk) = taken \o Lines(unread \o chunk)
        /\ Rest(all \o chunk) = Rest(unread \o chunk)
        /\ AllLines(all \o chunk) = taken \o AllLines(unread \o chunk)
    <3>1. all \in Text /\ unread \in Text /\ AllLines(all) = taken \o AllLines(unread)
      BY <1>2, <2>2 DEF Took
    <3> HIDE DEF all, unread
    <3>2. QED BY <2>4, <2>5, <3>1, Fed
  <2> HIDE DEF all, unread
  <2>7. Took(p, taken)' BY <2>2, <2>3, <2>6 DEF Took
  <2>8. QED BY <1>4, <1>6, <2>1, <2>3, <2>7
<1>13. CASE GotUser(p)
  <2>1. phase[p] = "login" /\ service[p] = "telnet" BY <1>1, <1>13 DEF GotUser, PeerInv, ShellTypes
  <2>2. PICK taken \in Seq(Text) : Took(p, taken) BY <1>4, <2>1
  <2>3. taken = <<>> /\ emitted[p] = <<Connection>> /\ cmds[p][Shell] = <<>> BY <2>1, <2>2 DEF Took
  <2>4. LineReady(p) /\ TakeLine(p) /\ UNCHANGED <<link, typed>> BY <1>13 DEF GotUser
  <2>5. service' = service /\ phase'[p] = "password" /\ emitted' = emitted /\ cmds' = cmds
        /\ name'[p] = line
    BY <1>1, <1>13 DEF GotUser, ShellTypes
  <2> HIDE DEF line
  <2>6. PICK more : more = Append(taken, line) OBVIOUS
  <2>7. more = <<line>> BY <2>3, <2>6
  <2>8. /\ more \in Seq(Text) /\ AllLines(typed'[p][Shell]) = more \o AllLines(buf'[p][Shell])
        /\ link'[p] = "open" => /\ Lines(typed'[p][Shell]) = more \o Lines(buf'[p][Shell])
                                /\ Rest(typed'[p][Shell]) = Rest(buf'[p][Shell])
    BY <1>9, <2>2, <2>4, <2>6
  <2>9. Took(p, more)' BY <2>3, <2>5, <2>7, <2>8 DEF Took
  <2>10. QED BY <1>6, <2>1, <2>5, <2>8, <2>9
<1>14. CASE GotPassword(p)
  <2>1. phase[p] = "password" /\ service[p] = "telnet" BY <1>1, <1>14 DEF GotPassword, PeerInv, ShellTypes
  <2>2. PICK taken \in Seq(Text) : Took(p, taken) BY <1>4, <2>1
  <2>3. taken = <<name[p]>> /\ emitted[p] = <<Connection>> /\ cmds[p][Shell] = <<>>
    BY <2>1, <2>2 DEF Took
  <2>4. LineReady(p) /\ TakeLine(p) /\ UNCHANGED <<link, typed>> BY <1>14 DEF GotPassword
  <2>5. PICK more : more = Append(taken, line) OBVIOUS
  <2>6. /\ more \in Seq(Text) /\ line \in Text
        /\ AllLines(typed'[p][Shell]) = more \o AllLines(buf'[p][Shell])
        /\ link'[p] = "open" => /\ Lines(typed'[p][Shell]) = more \o Lines(buf'[p][Shell])
                                /\ Rest(typed'[p][Shell]) = Rest(buf'[p][Shell])
    BY <1>9, <2>2, <2>4, <2>5
  <2>7. service' = service /\ phase'[p] = "shell" /\ cmds' = cmds /\ name' = name
    BY <1>1, <1>14 DEF GotPassword, ShellTypes
  <2>8. emitted'[p] = <<Connection>> \o <<Login(name[p], line)>>
    <3>1. Emit(p, <<Login(name[p], line)>>) BY <1>14 DEF GotPassword
    <3>2. <<Login(name[p], line)>> \in Seq(Events) BY <1>2, <1>3, <2>6
    <3> HIDE DEF line
    <3>3. QED BY <1>1, <2>3, <3>1, <3>2, EmitTyped
  <2>9. line \in Text /\ name[p] \in Text BY <1>2, <2>6
  <2> HIDE DEF line
  <2>10. Len(more) = 2 /\ more[1] = name[p] /\ more[2] = line BY <2>3, <2>5
  <2>11. SubSeq(more, 3, Len(more)) = <<>> BY <2>10, SubSeqEmpty
  <2>12. Commands(<<>>) = <<>> /\ Rows(<<>>) = <<>> BY FlattenEmpty DEF Commands, Rows
  <2>13. <<Connection>> \o <<Login(name[p], line)>> = <<Connection, Login(name[p], line)>> \o <<>>
    <3> DEFINE l == Login(name[p], line)
    <3>1. l \in Events /\ Connection \in Events BY <2>9 DEF Events
    <3> HIDE DEF l
    <3>2. <<Connection>> \in Seq(Events) /\ <<Connection, l>> \in Seq(Events) BY <3>1
    <3>3. <<Connection>> \o <<l>> = <<Connection, l>> BY <3>1, TwoElements
    <3>4. <<Connection, l>> \o <<>> = <<Connection, l>> BY <3>2, ConcatEmptySeq
    <3>5. QED BY <3>3, <3>4 DEF l
  <2>14. emitted'[p] = <<Connection, Login(more[1], more[2])>> \o Rows(cmds'[p][Shell])
    BY <2>3, <2>7, <2>8, <2>10, <2>12, <2>13
  <2>15. Len(more) >= 2 /\ cmds'[p][Shell] = Commands(SubSeq(more, 3, Len(more)))
    <3>1. Len(more) >= 2 BY <2>10
    <3>2. cmds'[p][Shell] = <<>> BY <2>3, <2>7
    <3>3. QED BY <2>11, <2>12, <3>1, <3>2
  <2>16. Took(p, more)' BY <2>6, <2>7, <2>14, <2>15 DEF Took
  <2>17. QED BY <1>6, <2>1, <2>6, <2>7, <2>16
<1>15. CASE GotLine(p)
  <2> DEFINE new == Commands(<<line>>)
             old == cmds[p][Shell]
  <2>1. phase[p] = "shell" /\ service[p] = "telnet" BY <1>15 DEF GotLine
  <2>2. PICK taken \in Seq(Text) : Took(p, taken) BY <1>4, <2>1
  <2>3. LineReady(p) /\ TakeLine(p) /\ UNCHANGED <<link, typed>> BY <1>15 DEF GotLine
  <2>4. PICK more : more = Append(taken, line) OBVIOUS
  <2>5. /\ more \in Seq(Text) /\ line \in Text
        /\ AllLines(typed'[p][Shell]) = more \o AllLines(buf'[p][Shell])
        /\ link'[p] = "open" => /\ Lines(typed'[p][Shell]) = more \o Lines(buf'[p][Shell])
                                /\ Rest(typed'[p][Shell]) = Rest(buf'[p][Shell])
    BY <1>9, <2>2, <2>3, <2>4
  <2>6. /\ Len(taken) >= 2 /\ old = Commands(SubSeq(taken, 3, Len(taken)))
        /\ emitted[p] = <<Connection, Login(taken[1], taken[2])>> \o Rows(old)
    BY <2>1, <2>2 DEF Took
  <2>7. service' = service /\ phase' = phase /\ cmds'[p][Shell] = old \o new /\ name' = name
    BY <1>1, <1>15 DEF GotLine, ShellTypes
  <2>8. new \in Seq(Text) /\ Rows(new) \in Seq(Events) /\ Rows(old) \in Seq(Events)
    <3>1. <<line>> \in Seq(Text) BY <2>5
    <3>2. QED BY <1>2, <3>1, CommandsOfLines, RowsTyped
  <2>9. emitted'[p] = emitted[p] \o Rows(new)
    <3>1. Emit(p, Rows(new)) BY <1>15 DEF GotLine
    <3> HIDE DEF new
    <3>2. QED BY <1>1, <2>8, <3>1, EmitTyped
  <2> DEFINE login == <<Connection, Login(taken[1], taken[2])>>
  <2>10. /\ Len(more) >= 2 /\ more[1] = taken[1] /\ more[2] = taken[2]
         /\ Commands(SubSeq(more, 3, Len(more))) = old \o new
    BY <2>4, <2>5, <2>6, AfterLogin
  <2>11. login \in Seq(Events)
    <3>1. taken[1] \in Text /\ taken[2] \in Text BY <2>6
    <3>2. Connection \in Events /\ Login(taken[1], taken[2]) \in Events BY <3>1 DEF Events
    <3>3. QED BY <3>2
  <2>12. old \in Seq(Text) BY <1>2
  <2> HIDE DEF new, old, line, login
  <2>13. (login \o Rows(old)) \o Rows(new) = login \o (Rows(old) \o Rows(new))
    BY <2>8, <2>11, ConcatAssociative
  <2>14. Rows(old) \o Rows(new) = Rows(old \o new) BY <2>8, <2>12, RowsConcat
  <2>15. emitted'[p] = login \o Rows(old \o new) BY <2>6, <2>9, <2>13, <2>14 DEF login
  <2>16. emitted'[p] = <<Connection, Login(more[1], more[2])>> \o Rows(cmds'[p][Shell])
    BY <2>7, <2>10, <2>15 DEF login
  <2>17. Len(more) >= 2 /\ cmds'[p][Shell] = Commands(SubSeq(more, 3, Len(more)))
    BY <2>7, <2>10
  <2>18. Took(p, more)' BY <2>1, <2>5, <2>7, <2>16, <2>17 DEF Took
  <2>19. QED BY <1>6, <2>1, <2>5, <2>7, <2>18
<1>16. ASSUME NEW taken \in Seq(Text), Took(p, taken), NoneReady(p), UNCHANGED <<link, typed>>,
              emitted'[p] = Transcript(taken)
       PROVE  link'[p] # "open" /\ Recorded(p)'
  <2> DEFINE lines == AllLines(all)
  <2>1. lines = taken \o AllLines(unread) BY <1>16 DEF Took
  <2>2. link[p] # "open" /\ (link[p] = "eof" => unread = <<>>) BY <1>16 DEF NoneReady
  <2>3. /\ Len(taken) \in 0..Len(lines) /\ SubSeq(lines, 1, Len(taken)) = taken
        /\ unread = <<>> => Len(taken) = Len(lines)
    BY <1>2, <2>1, TakenRecorded
  <2>4. AllLines(typed'[p][Shell]) = lines /\ link' = link BY <1>16
  <2> HIDE DEF lines, all, unread
  <2>5. QED BY <1>16, <2>2, <2>3, <2>4 DEF Recorded
<1>17. CASE GivesUp(p)
  <2>1. phase[p] \in {"login", "password"} /\ service[p] = "telnet"
    BY <1>1, <1>17 DEF GivesUp, PeerInv, ShellTypes
  <2>2. PICK taken \in Seq(Text) : Took(p, taken) BY <1>4, <2>1
  <2>3. Len(taken) < 2 /\ emitted[p] = <<Connection>> BY <2>1, <2>2 DEF Took
  <2>4. Transcript(taken) = <<Connection>> BY <2>3 DEF Transcript
  <2>5. /\ NoneReady(p) /\ UNCHANGED <<link, typed>> /\ emitted' = emitted /\ service' = service
        /\ phase'[p] = "done"
    BY <1>1, <1>17 DEF GivesUp, ShellTypes
  <2>6. QED BY <1>7, <1>16, <2>1, <2>2, <2>3, <2>4, <2>5
<1>18. CASE LogsOut(p)
  <2> DEFINE list == cmds[p][Shell]
             login(t) == <<Connection, Login(t[1], t[2])>>
  <2>1. phase[p] = "shell" /\ service[p] = "telnet" BY <1>18 DEF LogsOut
  <2>2. PICK taken \in Seq(Text) : Took(p, taken) BY <1>4, <2>1
  <2>3. /\ Len(taken) >= 2 /\ list = Commands(SubSeq(taken, 3, Len(taken)))
        /\ emitted[p] = login(taken) \o Rows(list)
    BY <2>1, <2>2 DEF Took
  <2>4. emitted'[p] = emitted[p] \o <<Session(list)>>
    BY <1>1, <1>2, <1>3, <1>18, EmitTyped DEF LogsOut
  <2>5. Transcript(taken) = login(taken) \o Rows(list) \o <<Session(list)>>
    BY <2>3 DEF Transcript
  <2>6. /\ NoneReady(p) /\ UNCHANGED <<link, typed>> /\ service' = service /\ phase'[p] = "done"
    BY <1>1, <1>18 DEF LogsOut, ShellTypes
  <2> HIDE DEF list, login
  <2>7. emitted'[p] = Transcript(taken) BY <2>3, <2>4, <2>5
  <2>8. QED BY <1>7, <1>16, <2>1, <2>2, <2>6, <2>7
<1>19. QED BY <1>10, <1>11, <1>12, <1>13, <1>14, <1>15, <1>17, <1>18 DEF Telnet, ShellStep

\* The types hold at the beginning, and nobody has typed or been recorded.
LEMMA ShellInit == Init => ShellInv
<1> SUFFICES ASSUME Init PROVE ShellInv OBVIOUS
<1>1. <<>> \in Text /\ <<>> \in Seq(Text) BY EmptyText
<1>2. ShellTypes BY <1>1 DEF Init, ShellTypes
<1>3. EmittedTyped BY DEF Init, EmittedTyped
<1>4. ASSUME NEW p \in Peers PROVE PeerInv(p)
  <2>1. service[p] = "none" /\ phase[p] = "idle" /\ emitted[p] = <<>> BY DEF Init
  <2>2. \A c \in Channels : typed[p][c] = <<>> /\ buf[p][c] = <<>> /\ cmds[p][c] = <<>> BY DEF Init
  <2>3. QED BY <2>1, <2>2 DEF PeerInv
<1>5. QED BY <1>2, <1>3, <1>4 DEF ShellInv

\* ShellInv is inductive: whatever one peer types, in whatever pieces, and
\* however far its handler has come, the step keeps what is known of that peer,
\* and the other peers are left alone.
THEOREM ShellStepCorrect == ShellInv /\ [Next]_vars => ShellInv'
<1> SUFFICES ASSUME ShellInv, [Next]_vars PROVE ShellInv' OBVIOUS
<1>1. CASE UNCHANGED vars
  <2>1. ShellTypes' /\ EmittedTyped' BY <1>1 DEF ShellInv, ShellTypes, EmittedTyped, vars
  <2>2. ASSUME NEW q \in Peers PROVE PeerInv(q)'
    <3>1. Same(q) BY <1>1 DEF Same, vars
    <3>2. QED BY <3>1, PeerSame DEF ShellInv
  <2>3. QED BY <2>1, <2>2 DEF ShellInv
<1>2. ASSUME NEW p \in Peers, Ssh(p) \/ Telnet(p) PROVE ShellInv'
  <2>1. ShellTypes /\ EmittedTyped BY DEF ShellInv
  <2>2. ShellTypes'
    <3>1. Next BY <1>2 DEF Next
    <3>2. QED BY <2>1, <3>1, ShellTypesStep
  <2>3. EmittedTyped' BY <1>2, <2>1, StepEmits
  <2>4. ASSUME NEW q \in Peers, q # p PROVE PeerInv(q)'
    <3>1. Same(q) BY <1>2, <2>1, <2>4, OthersSame
    <3>2. QED BY <3>1, PeerSame DEF ShellInv
  <2>5. PeerInv(p)' BY <1>2, SshSteps, TelnetSteps
  <2>6. QED BY <2>2, <2>3, <2>4, <2>5 DEF ShellInv
<1>3. QED BY <1>1, <1>2 DEF Next

THEOREM ShellInvariant == Spec => []ShellInv
<1>1. Init => ShellInv BY ShellInit
<1>2. ShellInv /\ [Next]_vars => ShellInv' BY ShellStepCorrect
<1>3. QED BY <1>1, <1>2, PTL DEF Spec

\* Every variable keeps its type, and a _FakeShell that is waiting for input
\* never has a whole line in _buf, however its data were cut into chunks.
THEOREM ShellTypeCorrect == Spec => []TypeOK
<1>1. ShellInv => TypeOK
  <2> SUFFICES ASSUME ShellInv PROVE TypeOK OBVIOUS
  <2>1. ShellTypes BY DEF ShellInv
  <2>2. ASSUME NEW p \in Peers, service[p] = "ssh", NEW c \in Channels PROVE ~HasLine(buf[p][c])
    <3>1. typed[p][c] \in Text /\ buf[p][c] = Rest(typed[p][c])
      BY <2>1, <2>2 DEF ShellTypes, ShellInv, PeerInv, SshExact
    <3>2. QED BY <3>1, TextParts
  <2>3. QED BY <2>1, <2>2 DEF TypeOK, ShellTypes
<1>2. QED BY <1>1, ShellInvariant, PTL

\* However a stream of characters is cut into chunks, the commands of an SSH
\* channel are those of the stream as a whole, once each and in order, and the
\* unfinished line is kept: for any number of peers and channels.
THEOREM SshExactly == Spec => []SshCommandsExact
<1>1. ShellInv => SshCommandsExact BY DEF ShellInv, PeerInv, SshExact, SshCommandsExact
<1>2. QED BY <1>1, ShellInvariant, PTL

\* What is recorded of a telnet peer when _shell has returned is the transcript
\* of the lines it typed, all of them unless the connection broke: for any
\* lines, arriving in any pieces, and an end of the connection at any point.
THEOREM TelnetExactly == Spec => []TelnetTranscript
<1>1. ShellInv => TelnetTranscript BY DEF ShellInv, PeerInv, Recorded, TelnetTranscript
<1>2. QED BY <1>1, ShellInvariant, PTL

---------------------------------------------------------------------------
(* The channels of a peer and their sessions.                              *)

\* Where the channels of a peer have a command, and which of them have ended;
\* ch, cm and em stand for chan, cmds and emitted of one peer.
Given(cm, cmd) == UNION {{c} \X Places(cm[c], cmd) : c \in Channels}
Ended(ch) == {c \in Channels : ch[c] = "ended"}
SessionsIn(em) == {i \in DOMAIN em : em[i].type = "session"}

SameSize(A, B) == IsFiniteSet(A) /\ IsFiniteSet(B) /\ Cardinality(A) = Cardinality(B)

\* h tells which session each of the channels that have ended has left.
Leaves(h, ch, cm, em) ==
  /\ h \in [Ended(ch) -> SessionsIn(em)]
  /\ \A c, d \in Ended(ch) : h[c] = h[d] => c = d
  /\ \A i \in SessionsIn(em) : \E c \in Ended(ch) : h[c] = i
  /\ \A c \in Ended(ch) : em[h[c]].commands = cm[c]

\* The books of one peer: as many events as commands in its channels, and for
\* every channel that has ended one session with the commands it still has.
Account(ch, cm, em) ==
  /\ \A c \in Channels : ch[c] = "free" => cm[c] = <<>>
  /\ \A cmd : SameSize(Places(em, Command(cmd)), Given(cm, cmd))
  /\ \E h : Leaves(h, ch, cm, em)

LEMMA PlacesAppend ==
  ASSUME NEW S, NEW s \in Seq(S), NEW x \in S, NEW y
  PROVE  /\ Places(Append(s, x), y)
              = IF x = y THEN Places(s, y) \cup {Len(s) + 1} ELSE Places(s, y)
         /\ Len(s) + 1 \notin Places(s, y)
<1>1. /\ Len(s) \in Nat /\ DOMAIN s = 1..Len(s) /\ DOMAIN Append(s, x) = 1..Len(s) + 1
      /\ \A i \in 1..Len(s) : Append(s, x)[i] = s[i]
      /\ Append(s, x)[Len(s) + 1] = x
  BY AppendProperties
<1>2. \A i \in 1..Len(s) + 1 : i \in 1..Len(s) \/ i = Len(s) + 1 BY <1>1
<1>3. 1..Len(s) \subseteq 1..Len(s) + 1 /\ Len(s) + 1 \in 1..Len(s) + 1 /\ Len(s) + 1 \notin 1..Len(s)
  BY <1>1
<1> DEFINE t == Append(s, x)
<1> HIDE DEF t
<1>4. \A i : i \in Places(t, y) <=> i \in Places(s, y) \/ (i = Len(s) + 1 /\ x = y)
  BY <1>1, <1>2, <1>3 DEF Places, t
<1>5. QED BY <1>1, <1>3, <1>4 DEF Places, t

LEMMA SessionsAppend ==
  ASSUME NEW em \in Seq(Events), NEW row \in Events
  PROVE  /\ SessionsIn(Append(em, row))
              = IF row.type = "session" THEN SessionsIn(em) \cup {Len(em) + 1} ELSE SessionsIn(em)
         /\ Len(em) + 1 \notin SessionsIn(em)
         /\ \A i \in SessionsIn(em) : Append(em, row)[i] = em[i]
         /\ Append(em, row)[Len(em) + 1] = row
<1>1. /\ Len(em) \in Nat /\ DOMAIN em = 1..Len(em) /\ DOMAIN Append(em, row) = 1..Len(em) + 1
      /\ \A i \in 1..Len(em) : Append(em, row)[i] = em[i]
      /\ Append(em, row)[Len(em) + 1] = row
  BY AppendProperties
<1>2. \A i \in 1..Len(em) + 1 : i \in 1..Len(em) \/ i = Len(em) + 1 BY <1>1
<1>3. /\ 1..Len(em) \subseteq 1..Len(em) + 1 /\ Len(em) + 1 \in 1..Len(em) + 1
      /\ Len(em) + 1 \notin 1..Len(em)
  BY <1>1
<1> DEFINE t == Append(em, row)
<1> HIDE DEF t
<1>4. \A i : i \in SessionsIn(t) <=> i \in SessionsIn(em) \/ (i = Len(em) + 1 /\ row.type = "session")
  BY <1>1, <1>2, <1>3 DEF SessionsIn, t
<1>5. QED BY <1>1, <1>3, <1>4 DEF SessionsIn, t

LEMMA SizeSame ==
  ASSUME NEW A, NEW B, SameSize(A, B), NEW x, NEW y, x \notin A, y \notin B
  PROVE  SameSize(A \cup {x}, B \cup {y})
BY FS_AddElement DEF SameSize

\* A row that is neither a command nor a session changes nothing in the books.
LEMMA AccountOther ==
  ASSUME NEW ch, NEW cm, NEW em \in Seq(Events), NEW row \in Events,
         row.type # "command", row.type # "session", Account(ch, cm, em)
  PROVE  Account(ch, cm, Append(em, row))
<1>1. \A cmd : row # Command(cmd) BY DEF Command
<1>2. \A cmd : Places(Append(em, row), Command(cmd)) = Places(em, Command(cmd))
  BY <1>1, PlacesAppend
<1> DEFINE rows == Append(em, row)
<1>3. /\ SessionsIn(rows) = SessionsIn(em)
      /\ \A i \in SessionsIn(em) : rows[i] = em[i]
  BY SessionsAppend
<1>4. PICK h : Leaves(h, ch, cm, em) BY DEF Account
<1> HIDE DEF rows
<1>5. Leaves(h, ch, cm, rows) BY <1>3, <1>4 DEF Leaves
<1>6. QED BY <1>2, <1>5 DEF Account, rows

LEMMA GivenAppend ==
  ASSUME NEW cm \in [Channels -> Seq(Text)], NEW c \in Channels, NEW x \in Text, NEW cmd
  PROVE  LET new == [cm EXCEPT ![c] = Append(cm[c], x)]
             place == <<c, Len(cm[c]) + 1>>
         IN /\ Given(new, cmd) = IF x = cmd THEN Given(cm, cmd) \cup {place} ELSE Given(cm, cmd)
            /\ place \notin Given(cm, cmd)
<1> DEFINE new == [cm EXCEPT ![c] = Append(cm[c], x)]
           n == Len(cm[c]) + 1
<1>1. /\ new[c] = Append(cm[c], x) /\ \A d \in Channels \ {c} : new[d] = cm[d] OBVIOUS
<1>2. /\ Places(new[c], cmd) = IF x = cmd THEN Places(cm[c], cmd) \cup {n} ELSE Places(cm[c], cmd)
      /\ n \notin Places(cm[c], cmd)
  BY <1>1, PlacesAppend
<1> HIDE DEF new, n
<1>3. \A d \in Channels : \A k : <<d, k>> \in Given(new, cmd) <=> k \in Places(new[d], cmd) BY DEF Given
<1>4. \A d \in Channels : \A k : <<d, k>> \in Given(cm, cmd) <=> k \in Places(cm[d], cmd) BY DEF Given
<1>5. /\ \A w \in Given(new, cmd) : \E d \in Channels : \E k \in Places(new[d], cmd) : w = <<d, k>>
      /\ \A w \in Given(cm, cmd) : \E d \in Channels : \E k \in Places(cm[d], cmd) : w = <<d, k>>
  BY DEF Given
<1>6. \A d \in Channels : \A k : <<d, k>> \in Given(new, cmd)
                               <=> <<d, k>> \in Given(cm, cmd) \/ (x = cmd /\ <<d, k>> = <<c, n>>)
  <2> TAKE d \in Channels
  <2> TAKE k
  <2>1. CASE d = c BY <1>2, <1>3, <1>4, <2>1
  <2>2. CASE d # c BY <1>1, <1>3, <1>4, <2>2
  <2>3. QED BY <2>1, <2>2
<1>7. \A w : w \in Given(new, cmd) <=> w \in Given(cm, cmd) \/ (x = cmd /\ w = <<c, n>>)
  BY <1>5, <1>6
<1>8. <<c, n>> \notin Given(cm, cmd) BY <1>2, <1>4
<1>9. Given(new, cmd) = IF x = cmd THEN Given(cm, cmd) \cup {<<c, n>>} ELSE Given(cm, cmd)
  BY <1>7
<1>10. QED BY <1>8, <1>9 DEF new, n

\* One line of an open channel: one more command, one more event.
LEMMA AccountCommand ==
  ASSUME NEW ch, NEW cm \in [Channels -> Seq(Text)], NEW em \in Seq(Events),
         NEW c \in Channels, ch[c] = "open", NEW x \in Text, Account(ch, cm, em)
  PROVE  Account(ch, [cm EXCEPT ![c] = Append(cm[c], x)], Append(em, Command(x)))
<1> DEFINE new == [cm EXCEPT ![c] = Append(cm[c], x)]
           rows == Append(em, Command(x))
<1>1. Command(x) \in Events /\ Command(x).type # "session" BY DEF Events, Command
<1>2. \A d \in Channels \ {c} : new[d] = cm[d] OBVIOUS
<1>3. ASSUME NEW cmd PROVE SameSize(Places(rows, Command(cmd)), Given(new, cmd))
  <2>1. Command(x) = Command(cmd) <=> x = cmd BY DEF Command
  <2>2. /\ Places(rows, Command(cmd)) = IF x = cmd THEN Places(em, Command(cmd)) \cup {Len(em) + 1}
                                        ELSE Places(em, Command(cmd))
        /\ Len(em) + 1 \notin Places(em, Command(cmd))
    BY <1>1, <2>1, PlacesAppend
  <2> DEFINE place == <<c, Len(cm[c]) + 1>>
  <2>3. /\ Given(new, cmd) = IF x = cmd THEN Given(cm, cmd) \cup {place} ELSE Given(cm, cmd)
        /\ place \notin Given(cm, cmd)
    BY GivenAppend
  <2>4. SameSize(Places(em, Command(cmd)), Given(cm, cmd)) BY DEF Account
  <2> HIDE DEF new, rows, place
  <2>5. QED BY <2>2, <2>3, <2>4, SizeSame
<1>4. SessionsIn(rows) = SessionsIn(em) /\ \A i \in SessionsIn(em) : rows[i] = em[i]
  BY <1>1, SessionsAppend
<1>5. PICK h : Leaves(h, ch, cm, em) BY DEF Account
<1>6. \A d \in Ended(ch) : d \in Channels \ {c} BY DEF Ended
<1> HIDE DEF new, rows
<1>7. Leaves(h, ch, new, rows) BY <1>2, <1>4, <1>5, <1>6 DEF Leaves
<1>8. \A d \in Channels : ch[d] = "free" => new[d] = <<>> BY <1>2 DEF Account
<1>9. QED BY <1>3, <1>7, <1>8 DEF Account, new, rows

\* The lines of a chunk, one after the other.
LEMMA AccountCommands ==
  ASSUME NEW ch, NEW cm \in [Channels -> Seq(Text)], NEW em \in Seq(Events),
         NEW c \in Channels, ch[c] = "open", NEW list \in Seq(Text), Account(ch, cm, em)
  PROVE  Account(ch, [cm EXCEPT ![c] = cm[c] \o list], em \o Rows(list))
<1> DEFINE after(l) == [cm EXCEPT ![c] = cm[c] \o l]
           S == {l \in Seq(Text) : Account(ch, after(l), em \o Rows(l))}
<1>1. <<>> \in S
  <2>1. Rows(<<>>) = <<>> BY DEF Rows
  <2>2. em \o <<>> = em /\ cm[c] \o <<>> = cm[c] BY ConcatEmptySeq
  <2>3. after(<<>>) = cm BY <2>2
  <2> HIDE DEF after
  <2>4. Account(ch, after(<<>>), em \o Rows(<<>>)) BY <2>1, <2>2, <2>3
  <2>5. QED BY <2>4, EmptyText
<1>2. \A l \in Seq(Text), x \in Text : l \in S => Append(l, x) \in S
  <2> SUFFICES ASSUME NEW l \in Seq(Text), NEW x \in Text, l \in S PROVE Append(l, x) \in S
    OBVIOUS
  <2>1. cm[c] \o l \in Seq(Text) /\ Rows(l) \in Seq(Events) /\ em \o Rows(l) \in Seq(Events)
    BY RowsTyped, ConcatProperties
  <2>2. after(l) \in [Channels -> Seq(Text)] /\ after(l)[c] = cm[c] \o l BY <2>1
  <2>3. Account(ch, after(l), em \o Rows(l)) OBVIOUS
  <2> HIDE DEF after
  <2>4. Account(ch, [after(l) EXCEPT ![c] = Append(after(l)[c], x)],
                Append(em \o Rows(l), Command(x)))
    BY <2>1, <2>2, <2>3, AccountCommand
  <2>5. cm[c] \o Append(l, x) = Append(cm[c] \o l, x) BY ConcatAppend
  <2>6. [after(l) EXCEPT ![c] = Append(after(l)[c], x)] = after(Append(l, x))
    BY <2>2, <2>5 DEF after
  <2>7. em \o Rows(Append(l, x)) = Append(em \o Rows(l), Command(x))
    <3>1. Append(l, x) = l \o <<x>> BY AppendIsConcat
    <3>2. <<x>> \in Seq(Text) /\ Rows(<<x>>) = <<Command(x)>> BY DEF Rows
    <3>3. Rows(Append(l, x)) = Rows(l) \o <<Command(x)>> BY <3>1, <3>2, RowsConcat
    <3>4. Command(x) \in Events BY DEF Events
    <3>5. Rows(Append(l, x)) = Append(Rows(l), Command(x)) BY <2>1, <3>3, <3>4, AppendIsConcat
    <3>6. QED BY <2>1, <3>4, <3>5, ConcatAppend
  <2>8. Append(l, x) \in Seq(Text) OBVIOUS
  <2>9. QED BY <2>4, <2>6, <2>7, <2>8
<1> HIDE DEF S
<1>3. Seq(Text) \subseteq S BY <1>1, <1>2, SequenceInduction
<1>4. QED BY <1>3 DEF S

\* A channel ends and leaves its session.
LEMMA AccountSession ==
  ASSUME NEW ch \in [Channels -> {"free", "open", "ended", "lost"}],
         NEW cm \in [Channels -> Seq(Text)], NEW em \in Seq(Events),
         NEW c \in Channels, ch[c] = "open", Account(ch, cm, em)
  PROVE  Account([ch EXCEPT ![c] = "ended"], cm, Append(em, Session(cm[c])))
<1> DEFINE now == [ch EXCEPT ![c] = "ended"]
           rows == Append(em, Session(cm[c]))
           n == Len(em) + 1
<1>1. Session(cm[c]) \in Events /\ Session(cm[c]).type = "session" /\ Session(cm[c]).commands = cm[c]
  BY DEF Events, Session
<1>2. \A cmd : Session(cm[c]) # Command(cmd) BY DEF Session, Command
<1>3. \A cmd : Places(rows, Command(cmd)) = Places(em, Command(cmd)) BY <1>1, <1>2, PlacesAppend
<1>4. /\ SessionsIn(rows) = SessionsIn(em) \cup {n} /\ n \notin SessionsIn(em)
      /\ \A i \in SessionsIn(em) : rows[i] = em[i]
      /\ rows[n] = Session(cm[c])
  BY <1>1, SessionsAppend
<1>5. Ended(now) = Ended(ch) \cup {c} /\ c \notin Ended(ch) BY DEF Ended
<1>6. PICK h : Leaves(h, ch, cm, em) BY DEF Account
<1>7. \A d \in Channels : now[d] = "free" => ch[d] = "free" OBVIOUS
<1> DEFINE g == [d \in Ended(now) |-> IF d = c THEN n ELSE h[d]]
<1> HIDE DEF now, rows, n
<1>8. /\ g \in [Ended(now) -> SessionsIn(rows)] /\ g[c] = n
      /\ \A d \in Ended(ch) : g[d] = h[d] /\ g[d] \in SessionsIn(em)
  BY <1>4, <1>5, <1>6 DEF Leaves
<1> HIDE DEF g
<1>9. \A d, e \in Ended(now) : g[d] = g[e] => d = e BY <1>4, <1>5, <1>6, <1>8 DEF Leaves
<1>10. \A i \in SessionsIn(rows) : \E d \in Ended(now) : g[d] = i
  BY <1>4, <1>5, <1>6, <1>8 DEF Leaves
<1>11. \A d \in Ended(now) : rows[g[d]].commands = cm[d]
  BY <1>1, <1>4, <1>5, <1>6, <1>8 DEF Leaves
<1>12. Leaves(g, now, cm, rows) BY <1>8, <1>9, <1>10, <1>11 DEF Leaves
<1>13. QED BY <1>3, <1>7, <1>12 DEF Account, now, rows

\* A channel is opened, or ends without a handler: the books stay.
LEMMA AccountMoves ==
  ASSUME NEW ch, NEW now, NEW cm, NEW em, Account(ch, cm, em),
         \A c \in Channels : /\ now[c] = "ended" <=> ch[c] = "ended"
                             /\ now[c] = "free" => ch[c] = "free"
  PROVE  Account(now, cm, em)
<1>1. Ended(now) = Ended(ch) BY DEF Ended
<1>2. QED BY <1>1 DEF Account, Leaves

\* Once no channel is open or lost, the sessions list what the events tell.
LEMMA AccountClosed ==
  ASSUME NEW ch, NEW cm \in [Channels -> Seq(Text)], NEW em, Account(ch, cm, em),
         \A c \in Channels : ch[c] \in {"free", "ended"}, NEW cmd
  PROVE  Cardinality(Places(em, Command(cmd)))
           = Cardinality(UNION {{i} \X Places(em[i].commands, cmd) : i \in SessionsIn(em)})
<1> DEFINE A == Given(cm, cmd)
           B == UNION {{i} \X Places(em[i].commands, cmd) : i \in SessionsIn(em)}
<1>1. PICK h : Leaves(h, ch, cm, em) BY DEF Account
<1>2. \A w \in A : \E d \in Channels : \E k \in Places(cm[d], cmd) : w = <<d, k>> BY DEF Given
<1>3. \A d \in Channels : \A k \in Places(cm[d], cmd) : <<d, k>> \in A BY DEF Given
<1>4. \A d \in Channels : \A k \in Places(cm[d], cmd) : d \in Ended(ch)
  <2> SUFFICES ASSUME NEW d \in Channels, NEW k \in Places(cm[d], cmd) PROVE d \in Ended(ch)
    OBVIOUS
  <2>1. cm[d] # <<>> BY DEF Places
  <2>2. QED BY <2>1 DEF Account, Ended
<1>5. /\ \A w \in B : \E i \in SessionsIn(em) : \E k \in Places(em[i].commands, cmd) : w = <<i, k>>
      /\ \A i \in SessionsIn(em) : \A k \in Places(em[i].commands, cmd) : <<i, k>> \in B
  OBVIOUS
<1> DEFINE g == [w \in A |-> <<h[w[1]], w[2]>>]
<1> HIDE DEF A, B
<1>6. /\ \A d \in Ended(ch) : d \in Channels /\ h[d] \in SessionsIn(em) /\ em[h[d]].commands = cm[d]
      /\ \A d, e \in Ended(ch) : h[d] = h[e] => d = e
      /\ \A i \in SessionsIn(em) : \E d \in Ended(ch) : h[d] = i
  BY <1>1 DEF Leaves, Ended
<1>7. ASSUME NEW w \in A PROVE g[w] \in B
  <2>1. PICK d \in Channels : \E k \in Places(cm[d], cmd) : w = <<d, k>> BY <1>2
  <2>2. PICK k \in Places(cm[d], cmd) : w = <<d, k>> BY <2>1
  <2>3. g[w] = <<h[d], k>> BY <2>2
  <2>4. d \in Ended(ch) BY <1>4
  <2>5. h[d] \in SessionsIn(em) /\ k \in Places(em[h[d]].commands, cmd) BY <1>6, <2>4
  <2>6. QED BY <1>5, <2>3, <2>5
<1>8. ASSUME NEW v \in A, NEW w \in A, g[v] = g[w] PROVE v = w
  <2>1. PICK d \in Channels : \E k \in Places(cm[d], cmd) : v = <<d, k>> BY <1>2
  <2>2. PICK k \in Places(cm[d], cmd) : v = <<d, k>> BY <2>1
  <2>3. PICK e \in Channels : \E l \in Places(cm[e], cmd) : w = <<e, l>> BY <1>2
  <2>4. PICK l \in Places(cm[e], cmd) : w = <<e, l>> BY <2>3
  <2>5. <<h[d], k>> = <<h[e], l>> BY <1>8, <2>2, <2>4
  <2>6. d \in Ended(ch) /\ e \in Ended(ch) BY <1>4
  <2>7. d = e /\ k = l BY <1>6, <2>5, <2>6
  <2>8. QED BY <2>2, <2>4, <2>7
<1>9. ASSUME NEW b \in B PROVE \E w \in A : g[w] = b
  <2>1. PICK i \in SessionsIn(em) : \E k \in Places(em[i].commands, cmd) : b = <<i, k>> BY <1>5
  <2>2. PICK k \in Places(em[i].commands, cmd) : b = <<i, k>> BY <2>1
  <2>3. PICK d \in Ended(ch) : h[d] = i BY <1>6
  <2>4. d \in Channels /\ em[h[d]].commands = cm[d] BY <1>6
  <2>5. k \in Places(cm[d], cmd) BY <2>3, <2>4
  <2>6. <<d, k>> \in A BY <1>3, <2>4, <2>5
  <2>7. g[<<d, k>>] = <<h[d], k>> BY <2>6
  <2>8. QED BY <2>2, <2>3, <2>6, <2>7
<1>10. g \in [A -> B] BY <1>7
<1> HIDE DEF g
<1>11. g \in Bijection(A, B) BY <1>8, <1>9, <1>10, Fun_IsBij
<1>12. IsFiniteSet(A) /\ Cardinality(Places(em, Command(cmd))) = Cardinality(A)
  BY DEF Account, SameSize, A
<1>13. Cardinality(B) = Cardinality(A) BY <1>11, <1>12, FS_Bijection DEF ExistsBijection
<1>14. QED BY <1>12, <1>13 DEF B

\* What SessionsAccountForCommands needs to know of a peer at every moment.
Booked(p) ==
  /\ Account(chan[p], cmds[p], emitted[p])
  /\ service[p] = "none" => \A c \in Channels : chan[p][c] = "free"
  /\ service[p] = "telnet" /\ phase[p] # "done" => chan[p][Shell] = "open"

BooksInv == ShellInv /\ \A p \in Peers : Booked(p)

LEMMA BookedStep ==
  ASSUME BooksInv, NEW p \in Peers, Ssh(p) \/ Telnet(p)
  PROVE  Booked(p)'
<1> DEFINE ch == chan[p]  cm == cmds[p]  em == emitted[p]
<1>1. ShellTypes /\ EmittedTyped /\ PeerInv(p) BY DEF BooksInv, ShellInv
<1>2. /\ ch \in [Channels -> {"free", "open", "ended", "lost"}] /\ cm \in [Channels -> Seq(Text)]
      /\ em \in Seq(Events) /\ Account(ch, cm, em)
  BY <1>1 DEF BooksInv, Booked, ShellTypes, EmittedTyped
<1>3. /\ service[p] = "none" => \A c \in Channels : ch[c] = "free"
      /\ service[p] = "telnet" /\ phase[p] # "done" => ch[Shell] = "open"
  BY DEF BooksInv, Booked
<1>4. Shell \in Channels BY ShellSessionAssumption
<1> HIDE DEF ch, cm, em
<1>5. \A rows : Emit(p, rows) => emitted'[p] = em \o rows BY <1>1 DEF Emit, EmittedTyped, em
<1>6. ASSUME chan'[p] = ch, cmds'[p] = cm, emitted'[p] = em,
             service'[p] = service[p], service[p] = "telnet" /\ phase'[p] # "done" => phase[p] # "done"
      PROVE  Booked(p)'
  BY <1>2, <1>3, <1>6 DEF Booked
<1>7. ASSUME NEW row \in Events, row.type # "command", row.type # "session", Emit(p, <<row>>)
      PROVE  Account(ch, cm, emitted'[p])
  <2>1. emitted'[p] = em \o <<row>> BY <1>5, <1>7
  <2>2. em \o <<row>> = Append(em, row) BY <1>2, AppendIsConcat
  <2>3. QED BY <1>2, <1>7, <2>1, <2>2, AccountOther
<1>8. /\ Connection \in Events /\ Key \in Events /\ Password \in Events
      /\ \A u, w \in Text : Login(u, w) \in Events
      /\ \A x \in {Connection, Key, Password} : x.type # "command" /\ x.type # "session"
      /\ \A u, w : Login(u, w).type # "command" /\ Login(u, w).type # "session"
  <2>1. /\ Connection \in Events /\ Key \in Events /\ Password \in Events
        /\ \A u, w \in Text : Login(u, w) \in Events
    BY DEF Events
  <2>2. Connection.type = "connection" /\ Key.type = "publickey" /\ Password.type = "password"
    BY DEF Connection, Key, Password
  <2>3. \A u, w : Login(u, w).type = "credential" BY DEF Login
  <2>4. QED BY <2>1, <2>2, <2>3
<1>9. ASSUME NEW c \in Channels, ch[c] = "open", NEW list \in Seq(Text), Emit(p, Rows(list)),
             cmds' = [cmds EXCEPT ![p][c] = cmds[p][c] \o list]
      PROVE  Account(ch, cmds'[p], emitted'[p])
  <2>1. cmds'[p] = [cm EXCEPT ![c] = cm[c] \o list] BY <1>1, <1>9 DEF ShellTypes, cm
  <2>2. emitted'[p] = em \o Rows(list) BY <1>5, <1>9
  <2>3. Account(ch, [cm EXCEPT ![c] = cm[c] \o list], em \o Rows(list))
    BY <1>2, <1>9, AccountCommands
  <2>4. QED BY <2>1, <2>2, <2>3, Zenon
<1>10. ASSUME NEW c \in Channels, ch[c] = "open", Emit(p, <<Session(cm[c])>>),
              chan' = [chan EXCEPT ![p][c] = "ended"]
       PROVE  Account(chan'[p], cm, emitted'[p])
  <2>1. chan'[p] = [ch EXCEPT ![c] = "ended"] BY <1>1, <1>10 DEF ShellTypes, ch
  <2>2. emitted'[p] = em \o <<Session(cm[c])>> BY <1>5, <1>10
  <2>3. Session(cm[c]) \in Events BY <1>2 DEF Events
  <2>4. em \o <<Session(cm[c])>> = Append(em, Session(cm[c])) BY <1>2, <2>3, AppendIsConcat
  <2>5. Account([ch EXCEPT ![c] = "ended"], cm, Append(em, Session(cm[c])))
    BY <1>2, <1>10, AccountSession
  <2>6. QED BY <2>1, <2>2, <2>4, <2>5, Zenon
<1>11. CASE SshConnect(p)
  <2>1. Emit(p, <<Connection>>) /\ chan'[p] = ch /\ cmds'[p] = cm /\ service'[p] = "ssh"
    BY <1>1, <1>11 DEF SshConnect, ShellTypes, ch, cm
  <2>2. Account(ch, cm, emitted'[p]) BY <1>7, <1>8, <2>1
  <2>3. QED BY <2>1, <2>2 DEF Booked
<1>12. CASE OfferKey(p) \/ OfferPassword(p)
  <2>1. /\ Emit(p, <<Key>>) \/ Emit(p, <<Password>>)
        /\ chan'[p] = ch /\ cmds'[p] = cm /\ service'[p] = "ssh"
    BY <1>12 DEF OfferKey, OfferPassword, ch, cm
  <2>2. Account(ch, cm, emitted'[p]) BY <1>7, <1>8, <2>1
  <2>3. QED BY <2>1, <2>2 DEF Booked
<1>13. ASSUME service'[p] = "ssh" \/ phase'[p] = "done", service'[p] # "none",
              cmds'[p] = cm, emitted'[p] = em,
              \A c \in Channels : /\ chan'[p][c] = "ended" <=> ch[c] = "ended"
                                  /\ chan'[p][c] = "free" => ch[c] = "free"
       PROVE  Booked(p)'
  <2>1. Account(chan'[p], cm, em) BY <1>2, <1>13, AccountMoves
  <2>2. QED BY <1>13, <2>1 DEF Booked
<1>14. CASE SshDisconnect(p)
  <2>1. /\ service'[p] = "ssh" /\ cmds'[p] = cm /\ emitted'[p] = em
        /\ chan'[p] = [c \in Channels |-> IF ch[c] = "open" THEN "lost" ELSE ch[c]]
    BY <1>1, <1>14 DEF SshDisconnect, ShellTypes, ch, cm, em
  <2>2. QED BY <1>13, <2>1
<1>15. ASSUME NEW c \in Channels, OpenChannel(p, c) \/ ChannelClosed(p, c) PROVE Booked(p)'
  <2>1. /\ service'[p] = "ssh" /\ cmds'[p] = cm /\ emitted'[p] = em
        /\ ch[c] \in {"free", "open"} /\ chan'[p][c] \in {"open", "lost"}
        /\ \A d \in Channels \ {c} : chan'[p][d] = ch[d]
    BY <1>1, <1>15 DEF OpenChannel, ChannelClosed, ShellTypes, ch, cm, em
  <2>2. QED BY <1>13, <2>1
<1>16. ASSUME NEW c \in Channels, EofReceived(p, c) PROVE Booked(p)'
  <2>1. /\ service'[p] = "ssh" /\ ch[c] = "open" /\ Emit(p, <<Session(cm[c])>>)
        /\ chan' = [chan EXCEPT ![p][c] = "ended"] /\ cmds'[p] = cm
    BY <1>16 DEF EofReceived, ch, cm
  <2>2. Account(chan'[p], cm, emitted'[p]) BY <1>10, <2>1
  <2>3. QED BY <2>1, <2>2 DEF Booked
<1>17. ASSUME NEW c \in Channels, NEW chunk \in Chunks, DataReceived(p, c, chunk) PROVE Booked(p)'
  <2> DEFINE new == Commands(Lines(buf[p][c] \o chunk))
  <2>1. buf[p][c] \o chunk \in Text BY <1>1, ChunkText, ConcatProperties DEF ShellTypes, Text
  <2>2. new \in Seq(Text) BY <2>1, TextParts, CommandsOfLines
  <2>3. /\ service'[p] = "ssh" /\ ch[c] = "open" /\ chan'[p] = ch
        /\ Emit(p, Rows(new)) /\ cmds' = [cmds EXCEPT ![p][c] = cmds[p][c] \o new]
    BY <1>17 DEF DataReceived, HandleLines, ch
  <2> HIDE DEF new
  <2>4. Account(ch, cmds'[p], emitted'[p]) BY <1>9, <2>2, <2>3
  <2>5. QED BY <2>3, <2>4 DEF Booked
<1>18. CASE TelnetConnect(p)
  <2>1. service[p] = "none" BY <1>1, <1>18 DEF TelnetConnect, PeerInv
  <2>2. \A c \in Channels : ch[c] = "free" BY <1>3, <2>1
  <2>3. /\ Emit(p, <<Connection>>) /\ service'[p] = "telnet" /\ cmds'[p] = cm
        /\ chan'[p][Shell] = "open" /\ \A d \in Channels \ {Shell} : chan'[p][d] = ch[d]
    BY <1>1, <1>4, <1>18 DEF TelnetConnect, ShellTypes, ch, cm
  <2>4. Account(ch, cm, emitted'[p]) BY <1>7, <1>8, <2>3
  <2>5. \A c \in Channels : /\ chan'[p][c] = "ended" <=> ch[c] = "ended"
                            /\ chan'[p][c] = "free" => ch[c] = "free"
    BY <2>2, <2>3
  <2>6. Account(chan'[p], cm, emitted'[p]) BY <2>4, <2>5, AccountMoves
  <2>7. QED BY <2>3, <2>6 DEF Booked
<1>19. ASSUME NEW how \in {"eof", "error"}, Hangup(p, how) PROVE Booked(p)'
  BY <1>6, <1>19 DEF Hangup, ch, cm, em
<1>20. ASSUME NEW chunk \in Chunks, FeedReader(p, chunk) PROVE Booked(p)'
  BY <1>6, <1>20 DEF FeedReader, ch, cm, em
<1>21. phase[p] \in {"login", "password"} => service[p] = "telnet" BY <1>1 DEF PeerInv, ShellTypes
<1>22. CASE GotUser(p) BY <1>1, <1>6, <1>22 DEF GotUser, ShellTypes, ch, cm, em
<1>23. LineReady(p) => Line(buf[p][Shell]) \in Text
  <2>1. LineReady(p) => buf[p][Shell] # <<>> BY DEF LineReady, HasLine
  <2>2. QED BY <1>1, <1>4, <2>1, TakeLineText DEF ShellTypes
<1>24. CASE GotPassword(p)
  <2> DEFINE row == Login(name[p], Line(buf[p][Shell]))
  <2>1. row \in Events /\ row.type # "command" /\ row.type # "session"
    BY <1>1, <1>8, <1>23, <1>24 DEF GotPassword, ShellTypes
  <2>2. Emit(p, <<row>>) /\ chan'[p] = ch /\ cmds'[p] = cm /\ service'[p] = service[p] /\ phase[p] = "password"
    BY <1>24 DEF GotPassword, ch, cm
  <2> HIDE DEF row
  <2>3. Account(ch, cm, emitted'[p]) BY <1>7, <2>1, <2>2
  <2>4. QED BY <1>3, <1>21, <2>2, <2>3 DEF Booked
<1>25. CASE GotLine(p)
  <2> DEFINE new == Commands(<<Line(buf[p][Shell])>>)
  <2>1. <<Line(buf[p][Shell])>> \in Seq(Text) BY <1>23, <1>25 DEF GotLine
  <2>2. new \in Seq(Text) BY <2>1, CommandsOfLines
  <2>3. /\ service[p] = "telnet" /\ service'[p] = "telnet" /\ phase[p] = "shell" /\ chan'[p] = ch
        /\ Emit(p, Rows(new)) /\ cmds' = [cmds EXCEPT ![p][Shell] = cmds[p][Shell] \o new]
    BY <1>25 DEF GotLine, ch
  <2> HIDE DEF new
  <2>4. ch[Shell] = "open" BY <1>3, <2>3
  <2>5. Account(ch, cmds'[p], emitted'[p]) BY <1>4, <1>9, <2>2, <2>3, <2>4
  <2>6. QED BY <2>3, <2>4, <2>5 DEF Booked
<1>26. CASE GivesUp(p)
  <2>1. /\ service[p] = "telnet" /\ phase[p] # "done" BY <1>21, <1>26 DEF GivesUp
  <2>2. ch[Shell] = "open" BY <1>3, <2>1
  <2>3. /\ service'[p] = "telnet" /\ phase'[p] = "done" /\ cmds'[p] = cm /\ emitted'[p] = em
        /\ chan'[p][Shell] = "lost" /\ \A d \in Channels \ {Shell} : chan'[p][d] = ch[d]
    BY <1>1, <1>4, <1>26, <2>1 DEF GivesUp, ShellTypes, ch, cm, em
  <2>4. QED BY <1>13, <2>2, <2>3
<1>27. CASE LogsOut(p)
  <2>1. /\ service[p] = "telnet" /\ service'[p] = "telnet" /\ phase[p] = "shell" /\ phase'[p] = "done"
        /\ Emit(p, <<Session(cm[Shell])>>)
        /\ chan' = [chan EXCEPT ![p][Shell] = "ended"] /\ cmds'[p] = cm
    BY <1>1, <1>27 DEF LogsOut, ShellTypes, cm
  <2>2. ch[Shell] = "open" BY <1>3, <2>1
  <2>3. Account(chan'[p], cm, emitted'[p]) BY <1>4, <1>10, <2>1, <2>2
  <2>4. QED BY <2>1, <2>3 DEF Booked
<1>28. QED BY <1>11, <1>12, <1>14, <1>15, <1>16, <1>17, <1>18, <1>19, <1>20, <1>22, <1>24, <1>25,
              <1>26, <1>27
           DEF Ssh, Telnet, ShellStep

LEMMA BooksInit == Init => BooksInv
<1> SUFFICES ASSUME Init PROVE BooksInv OBVIOUS
<1>1. ASSUME NEW p \in Peers PROVE Booked(p)
  <2> DEFINE ch == chan[p]  cm == cmds[p]  em == emitted[p]
  <2>1. /\ \A c \in Channels : ch[c] = "free" /\ cm[c] = <<>>
        /\ em = <<>> /\ service[p] = "none"
    BY DEF Init
  <2> HIDE DEF ch, cm, em
  <2>2. ASSUME NEW cmd PROVE SameSize(Places(em, Command(cmd)), Given(cm, cmd))
    <3>1. \A x : Places(<<>>, x) = {} BY DEF Places
    <3>2. Given(cm, cmd) = {} BY <2>1, <3>1 DEF Given
    <3>3. QED BY <2>1, <3>1, <3>2, FS_EmptySet DEF SameSize
  <2>3. Ended(ch) = {} /\ SessionsIn(em) = {} BY <2>1 DEF Ended, SessionsIn
  <2>4. Leaves([c \in {} |-> 0], ch, cm, em) BY <2>3 DEF Leaves
  <2>5. Account(ch, cm, em) BY <2>1, <2>2, <2>4 DEF Account
  <2>6. QED BY <2>1, <2>5 DEF Booked, ch, cm, em
<1>2. QED BY <1>1, ShellInit DEF BooksInv

\* Every step keeps the books of every peer: as many command events as its
\* channels hold commands, and for each channel that has ended one session of
\* its own, with exactly the commands that channel has.
THEOREM BooksCorrect == BooksInv /\ [Next]_vars => BooksInv'
<1> SUFFICES ASSUME BooksInv, [Next]_vars PROVE BooksInv' OBVIOUS
<1>1. ShellInv' BY ShellStepCorrect DEF BooksInv
<1>2. ASSUME NEW q \in Peers, Same(q) PROVE Booked(q)'
  BY <1>2 DEF BooksInv, Booked, Same
<1>3. CASE UNCHANGED vars
  <2>1. \A q \in Peers : Same(q) BY <1>3 DEF Same, vars
  <2>2. QED BY <1>1, <1>2, <2>1 DEF BooksInv
<1>4. ASSUME NEW p \in Peers, Ssh(p) \/ Telnet(p) PROVE BooksInv'
  <2>1. ShellTypes /\ EmittedTyped BY DEF BooksInv, ShellInv
  <2>2. \A q \in Peers : q # p => Same(q) BY <1>4, <2>1, OthersSame
  <2>3. Booked(p)' BY <1>4, BookedStep
  <2>4. QED BY <1>1, <1>2, <2>2, <2>3 DEF BooksInv
<1>5. QED BY <1>3, <1>4 DEF Next

\* Once every channel of a peer has ended in order, its command events and the
\* commands listed in its sessions correspond one to one, however the channels
\* of one connection were interleaved: for any number of channels and commands.
THEOREM CommandsAccounted == Spec => []SessionsAccountForCommands
<1>1. BooksInv => SessionsAccountForCommands
  <2> SUFFICES ASSUME BooksInv, NEW p \in Peers,
                      \A c \in Channels : chan[p][c] \in {"free", "ended"}, NEW cmd
               PROVE  Cardinality(Places(emitted[p], Command(cmd))) = Cardinality(Listed(p, cmd))
    BY DEF SessionsAccountForCommands
  <2>1. cmds[p] \in [Channels -> Seq(Text)] /\ Account(chan[p], cmds[p], emitted[p])
    BY DEF BooksInv, ShellInv, ShellTypes, Booked
  <2>2. SessionsIn(emitted[p]) = SessionsOf(p) BY DEF SessionsIn, SessionsOf
  <2>3. QED BY <2>1, <2>2, AccountClosed DEF Listed
<1>2. Init => BooksInv BY BooksInit
<1>3. BooksInv /\ [Next]_vars => BooksInv' BY BooksCorrect
<1>4. QED BY <1>1, <1>2, <1>3, PTL DEF Spec

---------------------------------------------------------------------------
(* The wire protocols.  What a password's bytes become and are again.      *)

LEMMA BytesReturn ==
  ASSUME NEW data \in Seq(Byte)
  PROVE  Deobfuscate(Obfuscate(data)) = data
<1>1. ASSUME NEW b \in Byte PROVE SwapNibbles(XorA5(XorA5(SwapNibbles(b)))) = b
  <2> DEFINE c == SwapNibbles(b)
  <2>1. \A i \in 0..7 : (i + 4) % 8 \in 0..7 /\ (((i + 4) % 8) + 4) % 8 = i OBVIOUS
  <2>2. c \in Byte BY <1>1, <2>1 DEF SwapNibbles, Byte
  <2>3. SwapNibbles(c) = b
    <3>1. SwapNibbles(c) = [i \in 0..7 |-> b[(((i + 4) % 8) + 4) % 8]] BY <2>1 DEF SwapNibbles
    <3>2. QED BY <1>1, <2>1, <3>1 DEF Byte
  <2> HIDE DEF c
  <2>4. XorA5(XorA5(c)) = c
    <3>1. \A i \in 0..7 : c[i] \in {0, 1} BY <2>2 DEF Byte
    <3>2. \A i \in 0..7 : XorA5(XorA5(c))[i] = c[i] BY <3>1 DEF XorA5
    <3>3. XorA5(XorA5(c)) = [i \in 0..7 |-> XorA5(XorA5(c))[i]] BY DEF XorA5
    <3>4. QED BY <2>2, <3>2, <3>3 DEF Byte
  <2>5. QED BY <2>3, <2>4 DEF c
<1>2. DOMAIN data = 1..Len(data) /\ \A i \in DOMAIN data : data[i] \in Byte OBVIOUS
<1>3. Deobfuscate(Obfuscate(data)) = [i \in DOMAIN data |-> SwapNibbles(XorA5(XorA5(SwapNibbles(data[i]))))]
  BY DEF Obfuscate, Deobfuscate
<1>4. Deobfuscate(Obfuscate(data)) = [i \in DOMAIN data |-> data[i]] BY <1>1, <1>2, <1>3
<1>5. QED BY <1>2, <1>4

---------------------------------------------------------------------------
(* Items and their rows.                                                   *)

PostLogin == [kind |-> "post", route |-> "login"]

\* A form is due after the head of a POST, which only http knows.
LEMMA FormAfterHead ==
  ASSUME NEW S, NEW t \in Seq(S), NEW x \in S
  PROVE  FormDue(Append(t, x)) <=> x = PostLogin
<1>1. Append(t, x) # <<>> /\ Append(t, x)[Len(Append(t, x))] = x OBVIOUS
<1>2. QED BY <1>1 DEF FormDue, Last, PostLogin

LEMMA NoFormDue == ~FormDue(<<>>)
BY DEF FormDue

LEMMA KindsOfItems ==
  /\ \A x \in Items("mssql") : x.kind \in {"bad", "prelogin", "other", "shortlogin7", "login7"}
  /\ \A x \in Items("mysql") : x.kind \in {"short", "auth"}
  /\ \A x \in Items("rdp") : x.kind \in {"bad", "tpkt"}
  /\ \A x \in Items("http") : x.kind \in {"get", "post", "garbled", "form"}
  /\ \A x \in Items("ftp") : x.kind \in {"other", "pass"}
<1>1. \A x \in Items("mssql") : x.kind \in {"bad", "prelogin", "other", "shortlogin7", "login7"}
  BY DEF Items, Plain
<1>2. \A x \in Items("mysql") : x.kind \in {"short", "auth"}
  <2> DEFINE sent1 == [kind : {"auth"}, user : Names, auth : {<<>>, <<"">>, <<"hash">>}]
  <2>1. Items("mysql") = Plain({"short"}) \union sent1 BY DEF Items
  <2>2. \A x \in sent1 : x.kind = "auth" OBVIOUS
  <2>3. \A x \in Plain({"short"}) : x.kind = "short" BY DEF Plain
  <2> HIDE DEF sent1
  <2>4. QED BY <2>1, <2>2, <2>3
<1>3. \A x \in Items("rdp") : x.kind \in {"bad", "tpkt"} BY DEF Items, Plain
<1>4. \A x \in Items("http") : x.kind \in {"get", "post", "garbled", "form"} BY DEF Items, Plain
<1>5. \A x \in Items("ftp") : x.kind \in {"other", "pass"} BY DEF Items, Plain
<1>6. QED BY <1>1, <1>2, <1>3, <1>4, <1>5

LEMMA OnlyHttpPosts ==
  ASSUME NEW s \in Services, NEW x \in Items(s), x = PostLogin
  PROVE  s = "http"
<1>1. x.kind = "post" BY DEF PostLogin
<1>2. QED BY <1>1, KindsOfItems DEF Services, Streams

\* Only the secret of a LOGIN7 packet looks different on the wire.
LEMMA SeenOnWire ==
  ASSUME NEW s \in Services, NEW x \in Items(s)
  PROVE  /\ x.kind # "login7" => OnWire(x) = x
         /\ OnWire(x).kind = x.kind
         /\ x.kind = "login7" => /\ s = "mssql" /\ x.user \in Names /\ x.secret \in Passwords
                                 /\ OnWire(x).user = x.user /\ OnWire(x).secret = Obfuscate(x.secret)
<1>1. CASE x.kind # "login7" BY <1>1 DEF OnWire
<1>2. CASE x.kind = "login7"
  <2>1. s = "mssql" BY <1>2, KindsOfItems DEF Services, Streams
  <2>2. x \in [kind : {"login7"}, user : Names, secret : Passwords] BY <1>2, <2>1 DEF Items, Plain
  <2>3. QED BY <1>2, <2>1, <2>2 DEF OnWire
<1>3. QED BY <1>1, <1>2

\* The rows that http and ftp record of items.
RowSet == {Connected} \union
          UNION {{RowsNoticed(x)[i] : i \in DOMAIN RowsNoticed(x)} : x \in Items("http") \union Items("ftp")}

LEMMA RowsNoticedTyped ==
  ASSUME NEW x \in Items("http") \union Items("ftp")
  PROVE  RowsNoticed(x) \in Seq(RowSet)
<1> DEFINE rows == RowsNoticed(x)
<1>1. \E n \in Nat : DOMAIN rows = 1..n /\ rows = [i \in 1..n |-> rows[i]]
  <2>1. x.kind \in {"get", "post", "garbled", "form", "other", "pass"} BY KindsOfItems
  <2>2. rows = <<>> \/ (\E a : rows = <<a>>) \/ (\E a, b : rows = <<a, b>>)
    <3>1. CASE x.kind = "get"
      <4>1. rows = <<Request(x.route)>> BY <3>1 DEF RowsNoticed, RowsOfItem, Unrouted
      <4>2. QED BY <4>1
    <3>2. CASE x.kind = "post"
      <4>1. rows = <<>> \/ rows = <<Request(x.route)>> BY <3>2 DEF RowsNoticed, RowsOfItem, Unrouted
      <4>2. QED BY <4>1
    <3>3. CASE x.kind = "form"
      <4>1. x.kind # "get" /\ x.kind # "post" /\ x.kind # "pass" BY <3>3
      <4>2. x # [kind |-> "post", route |-> "other"] BY <3>3
      <4>3. CASE ToSet(x.user) \union ToSet(x.secret) # {""}
        <5>1. rows = <<Credential(FirstOf(x.user), FirstOf(x.secret))>>
          BY <3>3, <4>1, <4>2, <4>3 DEF RowsNoticed, RowsOfItem, Unrouted
        <5>2. QED BY <5>1
      <4>4. CASE ToSet(x.user) \union ToSet(x.secret) = {""}
        BY <4>1, <4>2, <4>4 DEF RowsNoticed, RowsOfItem, Unrouted
      <4>5. QED BY <4>3, <4>4
    <3>4. CASE x.kind = "pass"
      <4>1. \/ rows = <<LoggedIn(x.user)>>
            \/ rows = <<Credential(<<x.user>>, <<x.secret>>), LoggedIn(x.user)>>
        BY <3>4 DEF RowsNoticed, RowsOfItem, Unrouted
      <4>2. QED BY <4>1
    <3>5. CASE x.kind \in {"garbled", "other"} BY <3>5 DEF RowsNoticed, RowsOfItem, Unrouted
    <3>6. QED BY <2>1, <3>1, <3>2, <3>3, <3>4, <3>5
  <2> HIDE DEF rows
  <2>3. CASE rows = <<>>
    <3>1. DOMAIN rows = 1..0 /\ rows = [i \in 1..0 |-> rows[i]] BY <2>3
    <3>2. QED BY <3>1
  <2>4. CASE \E a : rows = <<a>>
    <3>1. DOMAIN rows = 1..1 /\ rows = [i \in 1..1 |-> rows[i]] BY <2>4
    <3>2. QED BY <3>1
  <2>5. CASE \E a, b : rows = <<a, b>>
    <3>1. DOMAIN rows = 1..2 /\ rows = [i \in 1..2 |-> rows[i]] BY <2>5
    <3>2. QED BY <3>1
  <2>6. QED BY <2>2, <2>3, <2>4, <2>5
<1>2. \A i \in DOMAIN rows : rows[i] \in RowSet BY DEF RowSet
<1>3. PICK n \in Nat : DOMAIN rows = 1..n /\ rows = [i \in 1..n |-> rows[i]] BY <1>1
<1> HIDE DEF rows
<1>4. rows \in [1..n -> RowSet] BY <1>2, <1>3
<1>5. rows \in Seq(RowSet) BY <1>4
<1>6. QED BY <1>5 DEF rows

RowsOfItems(t) == FlattenSeq([i \in DOMAIN t |-> RowsNoticed(t[i])])

LEMMA RowsOfItemsAppend ==
  ASSUME NEW s \in {"http", "ftp"}, NEW t \in Seq(Items(s)), NEW x \in Items(s)
  PROVE  /\ RowsOfItems(t) \in Seq(RowSet)
         /\ RowsOfItems(Append(t, x)) = RowsOfItems(t) \o RowsNoticed(x)
<1> DEFINE u == Append(t, x)
           m == [i \in DOMAIN t |-> RowsNoticed(t[i])]
           n == [i \in DOMAIN u |-> RowsNoticed(u[i])]
<1>1. /\ u \in Seq(Items(s)) /\ DOMAIN t = 1..Len(t) /\ Len(t) \in Nat /\ DOMAIN u = 1..Len(t) + 1
      /\ (\A i \in 1..Len(t) : u[i] = t[i]) /\ u[Len(t) + 1] = x
      /\ \A i \in 1..Len(t) : t[i] \in Items(s)
  OBVIOUS
<1> HIDE DEF u
<1>2. RowsNoticed(x) \in Seq(RowSet) /\ \A i \in 1..Len(t) : RowsNoticed(t[i]) \in Seq(RowSet)
  BY <1>1, RowsNoticedTyped
<1>3. m \in Seq(Seq(RowSet)) /\ Len(m) = Len(t) /\ \A i \in 1..Len(t) : m[i] = RowsNoticed(t[i])
  <2>1. m \in [1..Len(t) -> Seq(RowSet)] BY <1>1, <1>2
  <2>2. QED BY <1>1, <2>1
<1>4. n \in Seq(Seq(RowSet)) /\ Len(n) = Len(t) + 1 /\ \A i \in 1..Len(t) + 1 : n[i] = RowsNoticed(u[i])
  <2>1. \A i \in 1..Len(t) + 1 : RowsNoticed(u[i]) \in Seq(RowSet)
    <3>1. \A i \in 1..Len(t) + 1 : i \in 1..Len(t) \/ i = Len(t) + 1 BY <1>1
    <3>2. QED BY <1>1, <1>2, <3>1
  <2>2. n \in [1..Len(t) + 1 -> Seq(RowSet)] BY <1>1, <2>1
  <2>3. QED BY <1>1, <2>2
<1> HIDE DEF m, n
<1>5. n = Append(m, RowsNoticed(x))
  <2>1. /\ Append(m, RowsNoticed(x)) \in Seq(Seq(RowSet)) /\ Len(Append(m, RowsNoticed(x))) = Len(t) + 1
        /\ Append(m, RowsNoticed(x))[Len(t) + 1] = RowsNoticed(x)
        /\ \A i \in 1..Len(t) : Append(m, RowsNoticed(x))[i] = m[i]
    BY <1>2, <1>3
  <2>2. ASSUME NEW i \in 1..Len(t) + 1 PROVE n[i] = Append(m, RowsNoticed(x))[i]
    <3>1. i = Len(t) + 1 \/ i \in 1..Len(t) BY <1>1
    <3>2. QED BY <1>1, <1>3, <1>4, <2>1, <3>1
  <2>3. QED BY <1>4, <2>1, <2>2, SeqEqual
<1>6. /\ FlattenSeq(m) \in Seq(RowSet)
      /\ FlattenSeq(Append(m, RowsNoticed(x))) = FlattenSeq(m) \o RowsNoticed(x)
  BY <1>2, <1>3, FlattenJoins
<1>7. QED BY <1>5, <1>6 DEF RowsOfItems, u, m, n

\* What is recorded when one more item has been read.
LEMMA RecordsAppend ==
  ASSUME NEW s \in {"http", "ftp"}, NEW t \in Seq(Items(s)), NEW x \in Items(s)
  PROVE  RecordsOf(s, Append(t, x)) = RecordsOf(s, t) \o RowsNoticed(x)
<1>1. /\ RowsOfItems(t) \in Seq(RowSet) /\ RowsNoticed(x) \in Seq(RowSet)
      /\ RowsOfItems(Append(t, x)) = RowsOfItems(t) \o RowsNoticed(x)
  BY RowsOfItemsAppend, RowsNoticedTyped
<1>2. CASE s = "http" BY <1>1, <1>2 DEF RecordsOf, RowsOfItems
<1>3. CASE s = "ftp"
  <2>1. <<Connected>> \in Seq(RowSet) BY DEF RowSet
  <2>2. <<Connected>> \o (RowsOfItems(t) \o RowsNoticed(x)) = (<<Connected>> \o RowsOfItems(t)) \o RowsNoticed(x)
    BY <1>1, <2>1, ConcatAssociative
  <2>3. \A u : RecordsOf(s, u) = <<Connected>> \o RowsOfItems(u) BY <1>3 DEF RecordsOf, RowsOfItems
  <2>4. QED BY <1>1, <2>2, <2>3
<1>4. QED BY <1>2, <1>3

\* What is recorded before anything was read, and of a handler that has read
\* the first of two packets.
LEMMA RecordsFirst ==
  /\ RecordsOf("none", <<>>) = <<>> /\ RecordsOf("http", <<>>) = <<>>
  /\ \A s \in {"mssql", "mysql", "rdp", "ftp"} : RecordsOf(s, <<>>) = <<Connected>>
  /\ \A s \in {"mssql", "rdp"} : \A t : Len(t) = 1 => RecordsOf(s, t) = <<Connected>>
<1>1. <<Connected>> \o <<>> = <<Connected>>
  <2>1. <<Connected>> \in Seq({Connected}) OBVIOUS
  <2>2. QED BY <2>1, ConcatEmptySeq
<1>2. RowsOfItems(<<>>) = <<>>
  <2>1. [i \in DOMAIN <<>> |-> RowsNoticed(<<>>[i])] = <<>> OBVIOUS
  <2>2. QED BY <2>1, FlattenEmpty DEF RowsOfItems
<1>3. RecordsOf("none", <<>>) = <<>> /\ RecordsOf("http", <<>>) = <<>> BY <1>2 DEF RecordsOf, RowsOfItems
<1>4. RecordsOf("ftp", <<>>) = <<Connected>> BY <1>1, <1>2 DEF RecordsOf, RowsOfItems
<1>5. \A s \in {"mssql", "mysql", "rdp"} : RecordsOf(s, <<>>) = <<Connected>> BY <1>1 DEF RecordsOf
<1>6. ASSUME NEW t, Len(t) = 1
      PROVE  RecordsOf("mssql", t) = <<Connected>> /\ RecordsOf("rdp", t) = <<Connected>>
  <2>1. ~(Len(t) >= 2) BY <1>6
  <2>2. RecordsOf("mssql", t) = <<Connected>> \o <<>> BY <2>1 DEF RecordsOf
  <2>3. RecordsOf("rdp", t) = <<Connected>> \o <<>> BY <2>1 DEF RecordsOf
  <2>4. QED BY <1>1, <2>2, <2>3
<1>7. QED BY <1>3, <1>4, <1>5, <1>6

---------------------------------------------------------------------------
(* The inductive invariant of the wire protocols.                           *)

\* What the peers of a service may have sent; nothing before it is accepted.
Sendable(s) == IF s = "none" THEN {} ELSE Items(s)

\* Where the handlers of a service stand.
Stands(s) ==
  CASE s = "none"  -> {"away"}
    [] s = "mssql" -> {"first", "second", "closed"}
    [] s = "mysql" -> {"first", "closed"}
    [] s = "rdp"   -> {"first", "negotiate", "closed", "expired"}
    [] s = "http"  -> {"serving", "body", "closed"}
    [] s = "ftp"   -> {"serving", "closed"}

\* What is unread of s is w, as it stands on the wire; forms follow their heads.
Unread(S, s, w) ==
  /\ s \in Seq(S) /\ w \in Seq({OnWire(item) : item \in S}) /\ Len(w) <= Len(s)
  /\ \A i \in 1..Len(w) : w[i] = OnWire(s[Len(s) - Len(w) + i])
  /\ \A i \in 1..Len(s) : Fits(SubSeq(s, 1, i - 1), s[i])
ReadOf(s, w) == SubSeq(s, 1, Len(s) - Len(w))

Pending(p) == Unread(Sendable(served[p]), sent[p], wire[p])

\* Where the handler stands tells how much it has read, and its records are
\* those of what it has read.
Progress(p) ==
  /\ at[p] = "first" => Taken(p) = <<>>
  /\ at[p] \in {"second", "negotiate"} => Len(Taken(p)) = 1
  /\ Open(p) => (at[p] = "body" <=> FormDue(Taken(p)))
  /\ records[p] = RecordsOf(served[p], Taken(p))

\* The inductive invariant, for one peer.
WirePeer(p) ==
  /\ served[p] \in Services \union {"none"} /\ at[p] \in Stands(served[p])
  /\ ended[p] \in {"no", "eof", "error"}
  /\ Pending(p) /\ Progress(p)

\* The variables are functions on the peers.
WireTables ==
  /\ served = [p \in Clients |-> served[p]] /\ at = [p \in Clients |-> at[p]]
  /\ wire = [p \in Clients |-> wire[p]] /\ ended = [p \in Clients |-> ended[p]]
  /\ records = [p \in Clients |-> records[p]] /\ sent = [p \in Clients |-> sent[p]]

WireInv == WireTables /\ \A p \in Clients : WirePeer(p)

LEMMA ReadLength ==
  ASSUME NEW S, NEW s, NEW w, Unread(S, s, w)
  PROVE  /\ ReadOf(s, w) \in Seq(S) /\ Len(ReadOf(s, w)) = Len(s) - Len(w)
         /\ Len(s) - Len(w) \in Nat
<1>1. /\ s \in Seq(S) /\ Len(s) \in Nat /\ Len(w) \in Nat /\ Len(w) <= Len(s)
  BY DEF Unread
<1>2. PICK n : n = Len(s) - Len(w) OBVIOUS
<1>3. n \in Nat /\ n <= Len(s) BY <1>1, <1>2
<1>4. ReadOf(s, w) = SubSeq(s, 1, n) BY <1>2 DEF ReadOf
<1>5. CASE n = Len(s)
  <2>1. ReadOf(s, w) = s BY <1>1, <1>4, <1>5, SubSeqFull
  <2>2. QED BY <1>1, <1>2, <1>3, <1>5, <2>1
<1>6. CASE n # Len(s)
  <2>1. n < Len(s) BY <1>1, <1>3, <1>6
  <2>2. SubSeq(s, 1, n) \in Seq(S) /\ Len(SubSeq(s, 1, n)) = n BY <1>1, <1>3, <2>1, OneMore
  <2>3. QED BY <1>2, <1>3, <1>4, <2>2
<1>7. QED BY <1>5, <1>6

\* What is read next is the next item, as it stands on the wire.
NextRead(s, w, x) ==
  /\ Head(w) = OnWire(x) /\ Fits(ReadOf(s, w), x)
  /\ ReadOf(s, Tail(w)) = Append(ReadOf(s, w), x)

LEMMA ReadsNext ==
  ASSUME NEW S, NEW s, NEW w, Unread(S, s, w), w # <<>>
  PROVE  /\ Unread(S, s, Tail(w))
         /\ \E x \in S : NextRead(s, w, x)
<1> DEFINE W == {OnWire(item) : item \in S}
           u == Tail(w)
<1>1. /\ s \in Seq(S) /\ w \in Seq(W) /\ Len(s) \in Nat /\ Len(w) \in Nat /\ Len(w) <= Len(s)
      /\ (\A i \in 1..Len(w) : w[i] = OnWire(s[Len(s) - Len(w) + i]))
      /\ \A i \in 1..Len(s) : Fits(SubSeq(s, 1, i - 1), s[i])
  BY DEF Unread
<1> HIDE DEF W
<1>2. PICK ls, lw, n : ls = Len(s) /\ lw = Len(w) /\ n = ls - lw OBVIOUS
<1>3. lw > 0 BY <1>1, <1>2
<1>4. n \in Nat /\ n < ls /\ ls \in Nat /\ lw \in Nat BY <1>1, <1>2, <1>3
<1>5. /\ u \in Seq(W) /\ Len(u) = lw - 1 /\ Head(w) = w[1]
      /\ \A i \in 1..lw - 1 : u[i] = w[i + 1]
  BY <1>1, <1>2
<1>6. \A i \in 1..lw : w[i] = OnWire(s[n + i]) BY <1>1, <1>2
<1>7. PICK x : x = s[n + 1] OBVIOUS
<1>8. Head(w) = OnWire(x) BY <1>3, <1>4, <1>5, <1>6, <1>7
<1>9. SubSeq(s, 1, n + 1) = Append(SubSeq(s, 1, n), x) /\ x \in S
  BY <1>1, <1>2, <1>4, <1>7, OneMore
<1> HIDE DEF u
<1>10. ls - (lw - 1) = n + 1 BY <1>2, <1>4
<1>11. ReadOf(s, w) = SubSeq(s, 1, n) /\ ReadOf(s, u) = SubSeq(s, 1, n + 1)
  BY <1>2, <1>5, <1>10 DEF ReadOf
<1>12. Fits(ReadOf(s, w), x)
  <2>1. n + 1 \in 1..ls /\ (n + 1) - 1 = n BY <1>4
  <2>2. \A i \in 1..ls : Fits(SubSeq(s, 1, i - 1), s[i]) BY <1>1, <1>2
  <2>3. Fits(SubSeq(s, 1, (n + 1) - 1), s[n + 1]) BY <2>1, <2>2
  <2>4. QED BY <1>7, <1>11, <2>1, <2>3
<1>13. Unread(S, s, u)
  <2>1. SUFFICES /\ Len(u) <= Len(s)
                 /\ \A i \in 1..Len(u) : u[i] = OnWire(s[Len(s) - Len(u) + i])
    BY <1>1, <1>5 DEF Unread, W
  <2>2. Len(u) <= Len(s) BY <1>2, <1>4, <1>5
  <2>3. ASSUME NEW i \in 1..Len(u) PROVE u[i] = OnWire(s[Len(s) - Len(u) + i])
    <3>1. i \in 1..lw - 1 /\ Len(s) - Len(u) = n + 1 BY <1>2, <1>5, <1>10
    <3>2. i + 1 \in 1..lw /\ n + (i + 1) = (n + 1) + i BY <1>4, <3>1
    <3>3. u[i] = w[i + 1] BY <1>5, <3>1
    <3>4. w[i + 1] = OnWire(s[n + (i + 1)]) BY <1>6, <3>2
    <3>5. QED BY <3>1, <3>2, <3>3, <3>4
  <2>4. QED BY <2>2, <2>3
<1>14. NextRead(s, w, x) BY <1>8, <1>9, <1>11, <1>12 DEF NextRead, u
<1>15. QED BY <1>9, <1>13, <1>14 DEF u

\* An item that arrives is the last to be read.
LEMMA ArrivesLast ==
  ASSUME NEW S, NEW s, NEW w, Unread(S, s, w), NEW x \in S, Fits(s, x)
  PROVE  /\ Unread(S, Append(s, x), Append(w, OnWire(x)))
         /\ ReadOf(Append(s, x), Append(w, OnWire(x))) = ReadOf(s, w)
<1> DEFINE W == {OnWire(item) : item \in S}
           t == Append(s, x)
           u == Append(w, OnWire(x))
<1>1. /\ s \in Seq(S) /\ w \in Seq(W) /\ Len(s) \in Nat /\ Len(w) \in Nat /\ Len(w) <= Len(s)
      /\ (\A i \in 1..Len(w) : w[i] = OnWire(s[Len(s) - Len(w) + i]))
      /\ \A i \in 1..Len(s) : Fits(SubSeq(s, 1, i - 1), s[i])
  BY DEF Unread
<1>2. OnWire(x) \in W OBVIOUS
<1> HIDE DEF W
<1>3. PICK ls, lw, n : ls = Len(s) /\ lw = Len(w) /\ n = ls - lw OBVIOUS
<1>4. n \in Nat /\ n <= ls /\ ls \in Nat /\ lw \in Nat BY <1>1, <1>3
<1>5. /\ t \in Seq(S) /\ Len(t) = ls + 1 /\ t[ls + 1] = x /\ \A i \in 1..ls : t[i] = s[i]
  BY <1>1, <1>3
<1>6. /\ u \in Seq(W) /\ Len(u) = lw + 1 /\ u[lw + 1] = OnWire(x) /\ \A i \in 1..lw : u[i] = w[i]
  BY <1>1, <1>2, <1>3
<1>7. \A i \in 1..lw : w[i] = OnWire(s[n + i]) BY <1>1, <1>3
<1>8. \A i \in 1..ls : Fits(SubSeq(s, 1, i - 1), s[i]) BY <1>1, <1>3
<1>9. (ls + 1) - (lw + 1) = n BY <1>3, <1>4
<1>10. \A k \in Nat : k <= ls => SubSeq(t, 1, k) = SubSeq(s, 1, k) BY <1>1, <1>3, Beginning
<1> HIDE DEF t, u
<1>11. ASSUME NEW i \in 1..Len(u) PROVE u[i] = OnWire(t[Len(t) - Len(u) + i])
  <2>1. Len(t) - Len(u) = n /\ i \in 1..lw + 1 BY <1>5, <1>6, <1>9
  <2>2. CASE i = lw + 1
    <3>1. n + i = ls + 1 BY <1>3, <1>4, <2>2
    <3>2. QED BY <1>5, <1>6, <2>1, <2>2, <3>1
  <2>3. CASE i # lw + 1
    <3>1. i \in 1..lw /\ n + i \in 1..ls BY <1>3, <1>4, <2>1, <2>3
    <3>2. QED BY <1>5, <1>6, <1>7, <2>1, <3>1
  <2>4. QED BY <2>2, <2>3
<1>12. ASSUME NEW i \in 1..Len(t) PROVE Fits(SubSeq(t, 1, i - 1), t[i])
  <2>1. i \in 1..ls + 1 /\ i - 1 \in Nat /\ i - 1 <= ls BY <1>4, <1>5
  <2>2. SubSeq(t, 1, i - 1) = SubSeq(s, 1, i - 1) BY <1>10, <2>1
  <2>3. CASE i = ls + 1
    <3>1. i - 1 = ls BY <1>4, <2>3
    <3>2. SubSeq(s, 1, ls) = s BY <1>1, <1>3, SubSeqFull
    <3>3. QED BY <1>5, <2>2, <2>3, <3>1, <3>2
  <2>4. CASE i # ls + 1
    <3>1. i \in 1..ls BY <1>4, <2>1, <2>4
    <3>2. QED BY <1>5, <1>8, <2>2, <3>1
  <2>5. QED BY <2>3, <2>4
<1>13. Len(u) <= Len(t) BY <1>3, <1>4, <1>5, <1>6
<1>14. ReadOf(t, u) = SubSeq(t, 1, n) /\ ReadOf(s, w) = SubSeq(s, 1, n)
  BY <1>3, <1>5, <1>6, <1>9 DEF ReadOf
<1>15. Unread(S, t, u) BY <1>5, <1>6, <1>11, <1>12, <1>13 DEF Unread, W
<1>16. QED BY <1>4, <1>10, <1>14, <1>15 DEF t, u

\* The table of a variable after a step of one peer.
LEMMA TablesStep ==
  ASSUME WireTables, NEW p \in Clients, Wire(p)
  PROVE  WireTables'
<1> USE DEF WireTables, Become, Answer, Record, Take
<1>1. ASSUME NEW s \in Streams, StreamConnect(p, s) PROVE WireTables' BY <1>1 DEF StreamConnect
<1>2. CASE HttpConnect(p) BY <1>2 DEF HttpConnect
<1>3. CASE FtpConnect(p) BY <1>3 DEF FtpConnect
<1>4. CASE HandlerFails(p) BY <1>4 DEF HandlerFails
<1>5. CASE MssqlPrelogin(p) BY <1>5 DEF MssqlPrelogin
<1>6. CASE MssqlLogin(p) BY <1>6 DEF MssqlLogin
<1>7. CASE MysqlAuth(p) BY <1>7 DEF MysqlAuth
<1>8. CASE RdpConfirm(p) BY <1>8 DEF RdpConfirm
<1>9. CASE RdpNegotiate(p) BY <1>9 DEF RdpNegotiate
<1>10. CASE RdpTimeout(p) BY <1>10 DEF RdpTimeout
<1>11. CASE HttpHandle(p) BY <1>11 DEF HttpHandle
<1>12. CASE HttpForm(p) BY <1>12 DEF HttpForm
<1>13. CASE FtpCommand(p) BY <1>13 DEF FtpCommand
<1>14. CASE LibraryCloses(p) BY <1>14 DEF LibraryCloses
<1>15. ASSUME NEW how \in {"eof", "error"}, PeerLeaves(p, how) PROVE WireTables' BY <1>15 DEF PeerLeaves
<1>16. ASSUME NEW item \in Items(served[p]), Arrive(p, item) PROVE WireTables' BY <1>16 DEF Arrive
<1>17. QED BY <1>1, <1>2, <1>3, <1>4, <1>5, <1>6, <1>7, <1>8, <1>9, <1>10, <1>11, <1>12, <1>13,
              <1>14, <1>15, <1>16
           DEF Wire, HandlerStep, CallbackStep

WireSame(q) ==
  /\ served'[q] = served[q] /\ at'[q] = at[q] /\ wire'[q] = wire[q] /\ ended'[q] = ended[q]
  /\ records'[q] = records[q] /\ sent'[q] = sent[q]

LEMMA WirePeerSame ==
  ASSUME NEW q \in Clients, WirePeer(q), WireSame(q)
  PROVE  WirePeer(q)'
BY DEF WirePeer, WireSame, Pending, Progress, Taken, Open

\* A step of a peer changes nothing of the others.
LEMMA WireOthersSame ==
  ASSUME WireTables, NEW p \in Clients, Wire(p), NEW q \in Clients, q # p
  PROVE  WireSame(q)
<1> USE DEF WireTables, Become, Answer, Record, Take, WireSame
<1>1. ASSUME NEW s \in Streams, StreamConnect(p, s) PROVE WireSame(q) BY <1>1 DEF StreamConnect
<1>2. CASE HttpConnect(p) BY <1>2 DEF HttpConnect
<1>3. CASE FtpConnect(p) BY <1>3 DEF FtpConnect
<1>4. CASE HandlerFails(p) BY <1>4 DEF HandlerFails
<1>5. CASE MssqlPrelogin(p) BY <1>5 DEF MssqlPrelogin
<1>6. CASE MssqlLogin(p) BY <1>6 DEF MssqlLogin
<1>7. CASE MysqlAuth(p) BY <1>7 DEF MysqlAuth
<1>8. CASE RdpConfirm(p) BY <1>8 DEF RdpConfirm
<1>9. CASE RdpNegotiate(p) BY <1>9 DEF RdpNegotiate
<1>10. CASE RdpTimeout(p) BY <1>10 DEF RdpTimeout
<1>11. CASE HttpHandle(p) BY <1>11 DEF HttpHandle
<1>12. CASE HttpForm(p) BY <1>12 DEF HttpForm
<1>13. CASE FtpCommand(p) BY <1>13 DEF FtpCommand
<1>14. CASE LibraryCloses(p) BY <1>14 DEF LibraryCloses
<1>15. ASSUME NEW how \in {"eof", "error"}, PeerLeaves(p, how) PROVE WireSame(q) BY <1>15 DEF PeerLeaves
<1>16. ASSUME NEW item \in Items(served[p]), Arrive(p, item) PROVE WireSame(q) BY <1>16 DEF Arrive
<1>17. QED BY <1>1, <1>2, <1>3, <1>4, <1>5, <1>6, <1>7, <1>8, <1>9, <1>10, <1>11, <1>12, <1>13,
              <1>14, <1>15, <1>16
           DEF Wire, HandlerStep, CallbackStep

\* A handler takes an item, and it is known what it does with it.
LEMMA ItemTaken ==
  ASSUME WireTables, NEW p \in Clients, WirePeer(p), Reads(p), Take(p), UNCHANGED <<served, ended, sent>>
  PROVE  /\ served[p] \in Services
         /\ \E x \in Items(served[p]) :
              /\ x.kind # "bad" /\ Head(wire[p]) = OnWire(x) /\ Fits(Taken(p), x)
              /\ Taken(p) \in Seq(Items(served[p]))
              /\ /\ at'[p] \in Stands(served[p]) /\ at'[p] \notin {"first", "away"}
                 /\ at'[p] \in {"second", "negotiate"} => Taken(p) = <<>>
                 /\ at'[p] \notin {"closed", "expired"} => (at'[p] = "body" <=> x = PostLogin)
                 /\ records'[p] = RecordsOf(served[p], Append(Taken(p), x))
                 => WirePeer(p)'
<1> DEFINE S == Sendable(served[p])
<1>1. Unread(S, sent[p], wire[p]) /\ wire[p] # <<>> BY DEF WirePeer, Pending, Reads
<1>2. PICK x \in S : NextRead(sent[p], wire[p], x)
  <2> HIDE DEF S
  <2>1. QED BY <1>1, ReadsNext
<1>2a. /\ Head(wire[p]) = OnWire(x) /\ Fits(ReadOf(sent[p], wire[p]), x)
       /\ ReadOf(sent[p], Tail(wire[p])) = Append(ReadOf(sent[p], wire[p]), x)
  BY <1>2 DEF NextRead
<1>3. Unread(S, sent[p], Tail(wire[p]))
  <2> HIDE DEF S
  <2>1. QED BY <1>1, ReadsNext
<1>4. served[p] \in Services /\ S = Items(served[p]) BY <1>2 DEF Sendable, WirePeer
<1>5. Taken(p) = ReadOf(sent[p], wire[p]) BY DEF Taken, ReadOf
<1>6. Taken(p) \in Seq(S)
  <2> HIDE DEF S
  <2>1. QED BY <1>1, <1>5, ReadLength
<1>7. wire'[p] = Tail(wire[p]) /\ sent' = sent /\ served' = served /\ ended' = ended
  BY DEF WireTables, Take
<1>8. Pending(p)' BY <1>3, <1>7 DEF Pending
<1>9. Taken(p)' = Append(Taken(p), x)
  <2>1. Taken(p)' = ReadOf(sent'[p], wire'[p]) BY DEF Taken, ReadOf
  <2>2. QED BY <1>2a, <1>5, <1>7, <2>1
<1>10. x.kind # "bad" BY <1>2a, <1>4, SeenOnWire DEF Reads
<1>11. ASSUME at'[p] \in Stands(served[p]), at'[p] \notin {"first", "away"},
              at'[p] \in {"second", "negotiate"} => Taken(p) = <<>>,
              at'[p] \notin {"closed", "expired"} => (at'[p] = "body" <=> x = PostLogin),
              records'[p] = RecordsOf(served[p], Append(Taken(p), x))
       PROVE  WirePeer(p)'
  <2>1. FormDue(Append(Taken(p), x)) <=> x = PostLogin BY <1>6, FormAfterHead
  <2>2. Taken(p) = <<>> => Len(Append(Taken(p), x)) = 1 BY <1>6
  <2>3. PICK more : more = Append(Taken(p), x) OBVIOUS
  <2>4. Taken(p)' = more BY <1>9, <2>3
  <2>5. Progress(p)'
    <3>1. Open(p)' => at'[p] \notin {"closed", "expired"} BY DEF Open
    <3>2. QED BY <1>7, <1>11, <2>1, <2>2, <2>3, <2>4, <3>1 DEF Progress
  <2>6. QED BY <1>7, <1>8, <1>11, <2>5 DEF WirePeer
<1>12. QED BY <1>2a, <1>4, <1>5, <1>6, <1>10, <1>11

\* The rows of one item of http and of ftp.
LEMMA RowsOfGet ==
  ASSUME NEW x \in Items("http")
  PROVE  /\ x.kind = "get" => RowsNoticed(x) = <<Request(x.route)>>
         /\ x.kind = "post" => RowsNoticed(x) = IF x.route = "login" THEN <<Request("login")>> ELSE <<>>
         /\ x.kind = "garbled" => RowsNoticed(x) = <<>>
         /\ x.kind = "form" => RowsNoticed(x) = LoginOf(x)
         /\ x = PostLogin <=> x.kind = "post" /\ x.route = "login"
<1>1. x.kind = "get" => RowsNoticed(x) = <<Request(x.route)>> BY DEF RowsNoticed, RowsOfItem, Unrouted
<1>2. x = PostLogin <=> x.kind = "post" /\ x.route = "login"
  <2>1. PostLogin.kind = "post" /\ PostLogin.route = "login" BY DEF PostLogin
  <2>2. ASSUME x.kind = "post" PROVE x \in [kind : {"post"}, route : {"login", "other"}]
    BY <2>2 DEF Items, Plain
  <2>3. x.kind = "post" /\ x.route = "login" => x = PostLogin BY <2>2 DEF PostLogin
  <2>4. QED BY <2>1, <2>3
<1>3. ASSUME x.kind = "post"
      PROVE  RowsNoticed(x) = IF x.route = "login" THEN <<Request("login")>> ELSE <<>>
  <2>1. x \in [kind : {"post"}, route : {"login", "other"}] BY <1>3 DEF Items, Plain
  <2>2. CASE x.route = "login"
    <3>1. x # [kind |-> "post", route |-> "other"] BY <2>2
    <3>2. QED BY <1>3, <2>2, <3>1 DEF RowsNoticed, RowsOfItem, Unrouted
  <2>3. CASE x.route # "login"
    <3>1. x = [kind |-> "post", route |-> "other"] BY <2>1, <2>3
    <3>2. QED BY <2>3, <3>1 DEF RowsNoticed, RowsOfItem, Unrouted
  <2>4. QED BY <2>2, <2>3
<1>4. ASSUME x.kind \in {"garbled", "form"}
      PROVE  /\ x # [kind |-> "post", route |-> "other"]
             /\ x.kind # "get" /\ x.kind # "post" /\ x.kind # "pass"
  BY <1>4
<1>5. x.kind = "garbled" => RowsNoticed(x) = <<>> BY <1>4 DEF RowsNoticed, RowsOfItem, Unrouted
<1>6. ASSUME x.kind = "form" PROVE RowsNoticed(x) = LoginOf(x)
  <2>1. x \in [kind : {"form"}, user : {<<v, w>> : v, w \in Names}, secret : {<<v, w>> : v, w \in Names}]
    BY <1>6 DEF Items, Plain
  <2>2. PICK a \in Names, b \in Names, c \in Names, d \in Names : x.user = <<a, b>> /\ x.secret = <<c, d>>
    BY <2>1
  <2>3. ASSUME NEW v, NEW w
        PROVE  /\ ToSet(<<v, w>>) = {v, w}
               /\ FirstOf(<<v, w>>) = <<>> <=> v = "" /\ w = ""
    <3>1. DOMAIN <<v, w>> = {1, 2} /\ <<v, w>>[1] = v /\ <<v, w>>[2] = w OBVIOUS
    <3>2. ToSet(<<v, w>>) = {v, w} BY <3>1 DEF ToSet
    <3> DEFINE full == {i \in DOMAIN <<v, w>> : <<v, w>>[i] # ""}
    <3>3. full = {} <=> v = "" /\ w = "" BY <3>1
    <3>4. FirstOf(<<v, w>>) = IF full = {} THEN <<>> ELSE <<(<<v, w>>)[Min(full)]>> BY DEF FirstOf
    <3> HIDE DEF full
    <3>5. \A e : <<e>> # <<>> OBVIOUS
    <3>6. QED BY <3>2, <3>3, <3>4, <3>5
  <2>4. ToSet(x.user) = {a, b} /\ ToSet(x.secret) = {c, d} BY <2>2, <2>3
  <2>5. /\ FirstOf(x.user) = <<>> <=> a = "" /\ b = ""
        /\ FirstOf(x.secret) = <<>> <=> c = "" /\ d = ""
    BY <2>2, <2>3
  <2>6. ToSet(x.user) \union ToSet(x.secret) # {""} <=> ~(a = "" /\ b = "" /\ c = "" /\ d = "")
    BY <2>4
  <2>7. CASE ToSet(x.user) \union ToSet(x.secret) # {""}
    <3>1. RowsNoticed(x) = <<Credential(FirstOf(x.user), FirstOf(x.secret))>>
      BY <1>4, <1>6, <2>7 DEF RowsNoticed, RowsOfItem, Unrouted
    <3>2. FirstOf(x.user) # <<>> \/ FirstOf(x.secret) # <<>> BY <2>5, <2>6, <2>7
    <3>3. QED BY <3>1, <3>2 DEF LoginOf
  <2>8. CASE ~(ToSet(x.user) \union ToSet(x.secret) # {""})
    <3>1. RowsNoticed(x) = <<>> BY <1>4, <1>6, <2>8 DEF RowsNoticed, RowsOfItem, Unrouted
    <3>2. FirstOf(x.user) = <<>> /\ FirstOf(x.secret) = <<>> BY <2>5, <2>6, <2>8
    <3>3. QED BY <3>1, <3>2 DEF LoginOf
  <2>9. QED BY <2>7, <2>8
<1>7. QED BY <1>1, <1>2, <1>3, <1>5, <1>6

LEMMA RowsOfPass ==
  ASSUME NEW x \in Items("ftp")
  PROVE  /\ x.kind = "pass" => RowsNoticed(x) = (IF x.user \in Anonymous THEN <<>>
                                 ELSE <<Credential(<<x.user>>, <<x.secret>>)>>) \o <<LoggedIn(x.user)>>
         /\ x.kind # "pass" => RowsNoticed(x) = <<>>
<1>1. x.kind \in {"other", "pass"} BY KindsOfItems
<1>2. x # [kind |-> "post", route |-> "other"] /\ x.kind \notin {"get", "post"} BY <1>1
<1>3. x.kind # "pass" => RowsNoticed(x) = <<>> BY <1>1, <1>2 DEF RowsNoticed, RowsOfItem, Unrouted
<1>4. ASSUME x.kind = "pass"
      PROVE  RowsNoticed(x) = (IF x.user \in Anonymous THEN <<>>
                               ELSE <<Credential(<<x.user>>, <<x.secret>>)>>) \o <<LoggedIn(x.user)>>
  <2>1. CASE x.user \in Anonymous
    <3>1. RowsNoticed(x) = <<LoggedIn(x.user)>> BY <1>2, <1>4, <2>1 DEF RowsNoticed, RowsOfItem, Unrouted
    <3> DEFINE l == LoggedIn(x.user)
    <3>2. <<l>> \in Seq({l}) OBVIOUS
    <3> HIDE DEF l
    <3>3. <<>> \o <<l>> = <<l>> BY <3>2, ConcatEmptySeq
    <3>4. QED BY <2>1, <3>1, <3>3 DEF l
  <2>2. CASE x.user \notin Anonymous
    <3>1. RowsNoticed(x) = <<Credential(<<x.user>>, <<x.secret>>), LoggedIn(x.user)>>
      BY <1>2, <1>4, <2>2 DEF RowsNoticed, RowsOfItem, Unrouted
    <3> DEFINE l == LoggedIn(x.user)
               c == Credential(<<x.user>>, <<x.secret>>)
    <3> HIDE DEF l, c
    <3>2. <<c>> \o <<l>> = <<c, l>>
      <4>1. c \in {c, l} /\ l \in {c, l} OBVIOUS
      <4>2. QED BY <4>1, TwoElements
    <3>3. QED BY <2>2, <3>1, <3>2 DEF l, c
  <2>3. QED BY <2>1, <2>2
<1>5. QED BY <1>3, <1>4

LEMMA MysqlAuths ==
  \A x \in Items("mysql") : x.kind = "auth" => x.auth \in {<<>>, <<"">>, <<"hash">>}
<1> DEFINE auths == [kind : {"auth"}, user : Names, auth : {<<>>, <<"">>, <<"hash">>}]
<1>1. Items("mysql") = Plain({"short"}) \union auths BY DEF Items
<1>2. \A y \in Plain({"short"}) : y.kind = "short" BY DEF Plain
<1>3. \A y \in auths : y.auth \in {<<>>, <<"">>, <<"hash">>} OBVIOUS
<1> HIDE DEF auths
<1>4. QED BY <1>1, <1>2, <1>3

\* The steps of mssql, mysql and rdp.
LEMMA StreamSteps ==
  ASSUME WireTables, NEW p \in Clients, WirePeer(p),
         \/ MssqlPrelogin(p) \/ MssqlLogin(p) \/ MysqlAuth(p) \/ RdpConfirm(p) \/ RdpNegotiate(p)
  PROVE  WirePeer(p)'
<1>1. records[p] = RecordsOf(served[p], Taken(p)) BY DEF WirePeer, Progress
\* Only http knows a POST.
<1>2. \A s \in Services : \A x \in Items(s) : x = PostLogin => s = "http" BY OnlyHttpPosts
<1>3. \A x \in Items(served[p]) : Append(<<>>, x) # <<>> /\ Len(Append(<<>>, x)) = 1 /\ Append(<<>>, x)[1] = x
  OBVIOUS
<1>4. CASE MssqlPrelogin(p)
  <2>1. /\ served[p] = "mssql" /\ at[p] = "first" /\ Reads(p) /\ Take(p) /\ UNCHANGED <<served, ended, sent>>
        /\ records' = records /\ at'[p] = "second"
    BY <1>4 DEF MssqlPrelogin, Become, WireTables
  <2>2. Taken(p) = <<>> BY <2>1 DEF WirePeer, Progress
  <2>3. \A x \in Items(served[p]) : x # PostLogin /\ RecordsOf("mssql", Append(<<>>, x)) = <<Connected>>
    BY <1>2, <1>3, <2>1, RecordsFirst DEF Services, Streams
  <2>4. records'[p] = <<Connected>> BY <1>1, <2>1, <2>2, RecordsFirst
  <2>5. "second" \in Stands("mssql") BY DEF Stands
  <2>6. QED BY <2>1, <2>2, <2>3, <2>4, <2>5, ItemTaken
<1>5. CASE RdpConfirm(p)
  <2>1. /\ served[p] = "rdp" /\ at[p] = "first" /\ Reads(p) /\ Take(p) /\ UNCHANGED <<served, ended, sent>>
        /\ records' = records /\ at'[p] = "negotiate"
    BY <1>5 DEF RdpConfirm, Become, WireTables
  <2>2. Taken(p) = <<>> BY <2>1 DEF WirePeer, Progress
  <2>3. \A x \in Items(served[p]) : x # PostLogin /\ RecordsOf("rdp", Append(<<>>, x)) = <<Connected>>
    BY <1>2, <1>3, <2>1, RecordsFirst DEF Services, Streams
  <2>4. records'[p] = <<Connected>> BY <1>1, <2>1, <2>2, RecordsFirst
  <2>5. "negotiate" \in Stands("rdp") BY DEF Stands
  <2>6. QED BY <2>1, <2>2, <2>3, <2>4, <2>5, ItemTaken
\* The two packets of mssql and of rdp.
<1>6. ASSUME Len(Taken(p)) = 1, NEW S, Taken(p) \in Seq(S), NEW x \in S
      PROVE  /\ Len(Append(Taken(p), x)) = 2 /\ Append(Taken(p), x)[2] = x
             /\ Append(Taken(p), x) # <<>>
  <2>1. PICK t \in Seq(S) : t = Taken(p) BY <1>6
  <2>2. Len(t) = 1 BY <1>6, <2>1
  <2>3. Len(Append(t, x)) = 2 /\ Append(t, x)[2] = x /\ Append(t, x) # <<>> BY <2>2
  <2>4. QED BY <2>1, <2>3
<1>7. CASE MssqlLogin(p)
  <2> DEFINE packet == Head(wire[p])
             login == ParseLogin7(packet)
             isLogin == packet.kind \in {"login7", "shortlogin7"}
  <2>1. /\ served[p] = "mssql" /\ at[p] = "second" /\ Reads(p) /\ Take(p) /\ UNCHANGED <<served, ended, sent>>
        /\ at'[p] = "closed"
        /\ records'[p] = records[p] \o (IF isLogin /\ login.user # ""
                                       THEN <<Credential(<<login.user>>, login.secret)>> ELSE <<>>)
    BY <1>7 DEF MssqlLogin, Become, Record, WireTables
  <2>2. Len(Taken(p)) = 1 BY <2>1 DEF WirePeer, Progress
  <2>3. records[p] = <<Connected>> BY <1>1, <2>1, <2>2, RecordsFirst
  <2>4. PICK x \in Items("mssql") :
          /\ packet = OnWire(x) /\ Taken(p) \in Seq(Items("mssql"))
          /\ records'[p] = RecordsOf("mssql", Append(Taken(p), x)) => WirePeer(p)'
    <3>1. "closed" \in Stands("mssql") BY DEF Stands
    <3>2. QED BY <2>1, <3>1, ItemTaken
  <2>5. PICK t : t = Append(Taken(p), x) OBVIOUS
  <2>6. Len(t) = 2 /\ t[2] = x BY <1>6, <2>2, <2>4, <2>5
  <2>7. RecordsOf("mssql", t) = <<Connected>> \o
          (IF x.kind = "login7" /\ x.user \notin {"", " "}
           THEN <<Credential(<<x.user>>, x.secret)>> ELSE <<>>)
    <3>1. Len(t) >= 2 BY <2>6
    <3>2. CASE x.kind = "login7" /\ x.user \notin {"", " "} BY <2>6, <3>1, <3>2 DEF RecordsOf
    <3>3. CASE ~(x.kind = "login7" /\ x.user \notin {"", " "}) BY <2>6, <3>3 DEF RecordsOf
    <3>4. QED BY <3>2, <3>3
  <2>8. (IF isLogin /\ login.user # "" THEN <<Credential(<<login.user>>, login.secret)>> ELSE <<>>)
          = (IF x.kind = "login7" /\ x.user \notin {"", " "}
             THEN <<Credential(<<x.user>>, x.secret)>> ELSE <<>>)
    <3>1. packet.kind = x.kind /\ "mssql" \in Services BY <2>4, SeenOnWire DEF Services, Streams
    <3>2. CASE x.kind = "login7"
      <4>1. packet.user = x.user /\ packet.secret = Obfuscate(x.secret) /\ x.secret \in Passwords
        BY <2>4, <3>1, <3>2, SeenOnWire
      <4>2. Deobfuscate(packet.secret) = x.secret BY <4>1, BytesReturn, WireSessionAssumption
      <4>3. login = [user |-> Stripped(x.user), secret |-> x.secret]
        BY <3>1, <3>2, <4>1, <4>2 DEF ParseLogin7
      <4> HIDE DEF packet, login
      <4>4. login.user = (IF x.user = " " THEN "" ELSE x.user) /\ login.secret = x.secret
        BY <4>3 DEF Stripped
      <4>5. CASE x.user \in {"", " "} BY <4>4, <4>5
      <4>6. CASE x.user \notin {"", " "}
        <5>1. login.user = x.user /\ login.user # "" BY <4>4, <4>6
        <5>2. QED BY <3>1, <3>2, <4>4, <4>6, <5>1
      <4>7. QED BY <4>5, <4>6
    <3>3. CASE x.kind # "login7"
      <4>1. login = [user |-> "", secret |-> <<>>] BY <3>1, <3>3 DEF ParseLogin7
      <4> HIDE DEF packet, login
      <4>2. login.user = "" BY <4>1
      <4>3. QED BY <3>3, <4>2
    <3>4. QED BY <3>2, <3>3
  <2> HIDE DEF packet, login, isLogin
  <2>9. records'[p] = RecordsOf("mssql", t) BY <2>1, <2>3, <2>7, <2>8
  <2>10. QED BY <2>4, <2>5, <2>9
<1>8. CASE MysqlAuth(p)
  <2> DEFINE packet == Head(wire[p])
             row(a) == <<Credential(<<a.user>>, IF a.auth = <<"">> THEN <<>> ELSE a.auth)>>
  <2>1. /\ served[p] = "mysql" /\ at[p] = "first" /\ Reads(p) /\ Take(p) /\ UNCHANGED <<served, ended, sent>>
        /\ at'[p] = "closed"
        /\ records'[p] = records[p] \o (IF packet.kind = "auth" THEN row(packet) ELSE <<>>)
    BY <1>8 DEF MysqlAuth, Become, Record, WireTables
  <2>2. Taken(p) = <<>> BY <2>1 DEF WirePeer, Progress
  <2>3. records[p] = <<Connected>> BY <1>1, <2>1, <2>2, RecordsFirst
  <2>4. PICK x \in Items("mysql") :
          /\ packet = OnWire(x)
          /\ records'[p] = RecordsOf("mysql", Append(Taken(p), x)) => WirePeer(p)'
    <3>1. "closed" \in Stands("mysql") BY DEF Stands
    <3>2. QED BY <2>1, <3>1, ItemTaken
  <2>5. PICK t : t = Append(Taken(p), x) OBVIOUS
  <2>6. t # <<>> /\ t[1] = x BY <1>3, <2>1, <2>2, <2>4, <2>5
  <2>7. packet = x
    <3>1. x.kind # "login7" /\ "mysql" \in Services BY KindsOfItems DEF Services, Streams
    <3>2. QED BY <2>4, <3>1, SeenOnWire
  <2>8. RecordsOf("mysql", t) = <<Connected>> \o
          (IF x.kind = "auth"
           THEN <<Credential(<<x.user>>, IF ToSet(x.auth) \subseteq {""} THEN <<>> ELSE x.auth)>>
           ELSE <<>>)
    BY <2>6 DEF RecordsOf
  <2>9. ASSUME x.kind = "auth"
        PROVE  (IF x.auth = <<"">> THEN <<>> ELSE x.auth) = IF ToSet(x.auth) \subseteq {""} THEN <<>> ELSE x.auth
    <3>1. x.auth \in {<<>>, <<"">>, <<"hash">>} BY <2>9, MysqlAuths
    <3>2. ToSet(<<>>) = {} /\ ToSet(<<"">>) = {""} /\ ToSet(<<"hash">>) = {"hash"}
      <4>1. ASSUME NEW e PROVE ToSet(<<e>>) = {e}
        <5>1. DOMAIN <<e>> = {1} /\ <<e>>[1] = e OBVIOUS
        <5>2. QED BY <5>1 DEF ToSet
      <4>2. ToSet(<<>>) = {} BY DEF ToSet
      <4>3. QED BY <4>1, <4>2
    <3>3. <<"hash">> # <<"">> /\ "hash" # "" OBVIOUS
    <3>4. CASE x.auth = <<>> BY <3>4
    <3>5. CASE x.auth = <<"">> BY <3>2, <3>5
    <3>6. CASE x.auth = <<"hash">> BY <3>2, <3>3, <3>6
    <3>7. QED BY <3>1, <3>4, <3>5, <3>6
  <2>10. records'[p] = RecordsOf("mysql", t)
    <3>1. CASE x.kind = "auth" BY <2>1, <2>3, <2>7, <2>8, <2>9, <3>1
    <3>2. CASE x.kind # "auth" BY <2>1, <2>3, <2>7, <2>8, <3>2
    <3>3. QED BY <3>1, <3>2
  <2>11. QED BY <2>4, <2>5, <2>10
<1>9. CASE RdpNegotiate(p)
  <2> DEFINE details == Head(wire[p]).marks
  <2>1. /\ served[p] = "rdp" /\ at[p] = "negotiate" /\ Reads(p) /\ Take(p) /\ UNCHANGED <<served, ended, sent>>
        /\ at'[p] = "closed"
        /\ records'[p] = records[p] \o (IF details # {} THEN <<Negotiate(details)>> ELSE <<>>)
    BY <1>9 DEF RdpNegotiate, Become, Record, WireTables
  <2>2. Len(Taken(p)) = 1 BY <2>1 DEF WirePeer, Progress
  <2>3. records[p] = <<Connected>> BY <1>1, <2>1, <2>2, RecordsFirst
  <2>4. PICK x \in Items("rdp") :
          /\ Head(wire[p]) = OnWire(x) /\ Taken(p) \in Seq(Items("rdp"))
          /\ records'[p] = RecordsOf("rdp", Append(Taken(p), x)) => WirePeer(p)'
    <3>1. "closed" \in Stands("rdp") BY DEF Stands
    <3>2. QED BY <2>1, <3>1, ItemTaken
  <2>5. PICK t : t = Append(Taken(p), x) OBVIOUS
  <2>6. Len(t) = 2 /\ t[2] = x BY <1>6, <2>2, <2>4, <2>5
  <2>7. details = x.marks
    <3>1. x.kind # "login7" /\ "rdp" \in Services BY KindsOfItems DEF Services, Streams
    <3>2. QED BY <2>4, <3>1, SeenOnWire
  <2>8. RecordsOf("rdp", t) = <<Connected>> \o (IF x.marks # {} THEN <<Negotiate(x.marks)>> ELSE <<>>)
    BY <2>6 DEF RecordsOf
  <2> HIDE DEF details
  <2>9. records'[p] = RecordsOf("rdp", t) BY <2>1, <2>3, <2>7, <2>8
  <2>10. QED BY <2>4, <2>5, <2>9
<1>10. QED BY <1>4, <1>5, <1>7, <1>8, <1>9

\* The steps of http and ftp.
LEMMA CallbackSteps ==
  ASSUME WireTables, NEW p \in Clients, WirePeer(p), HttpHandle(p) \/ HttpForm(p) \/ FtpCommand(p)
  PROVE  WirePeer(p)'
<1>1. records[p] = RecordsOf(served[p], Taken(p)) /\ (Open(p) => (at[p] = "body" <=> FormDue(Taken(p))))
  BY DEF WirePeer, Progress
<1>2. "http" \in Services /\ "ftp" \in Services BY DEF Services
<1>3. /\ "serving" \in Stands("http") /\ "body" \in Stands("http") /\ "serving" \in Stands("ftp")
  BY DEF Stands
<1>4. CASE HttpHandle(p)
  <2> DEFINE head == Head(wire[p])
             routed == head.kind = "get" \/ head.route = "login"
  <2>1. /\ served[p] = "http" /\ at[p] = "serving" /\ Reads(p) /\ Take(p) /\ UNCHANGED <<served, ended, sent>>
        /\ at'[p] = IF head.kind = "post" /\ routed THEN "body" ELSE "serving"
        /\ records'[p] = records[p] \o (IF routed THEN <<Request(head.route)>> ELSE <<>>)
    BY <1>4 DEF HttpHandle, Become, Record, WireTables
  <2>2. ~FormDue(Taken(p)) BY <1>1, <2>1 DEF Open
  <2>3. PICK x \in Items("http") :
          /\ head = OnWire(x) /\ Fits(Taken(p), x) /\ Taken(p) \in Seq(Items("http"))
          /\ /\ at'[p] \notin {"closed", "expired"} => (at'[p] = "body" <=> x = PostLogin)
             /\ records'[p] = RecordsOf("http", Append(Taken(p), x))
             => WirePeer(p)'
    <3>1. at'[p] \in {"body", "serving"} BY <2>1
    <3> HIDE DEF head, routed
    <3>2. at'[p] \in Stands("http") BY <1>3, <3>1
    <3>3. QED BY <2>1, <3>1, <3>2, ItemTaken DEF head
  <2>4. x.kind \in {"get", "post"} BY <2>2, <2>3, KindsOfItems DEF Fits
  <2>5. head = x
    <3>1. x.kind # "login7" BY <2>4
    <3> HIDE DEF head
    <3>2. QED BY <1>2, <2>3, <3>1, SeenOnWire
  <2>6. RecordsOf("http", Append(Taken(p), x)) = records[p] \o RowsNoticed(x)
    BY <1>1, <2>1, <2>3, RecordsAppend
  <2>7. /\ x.kind = "get" => RowsNoticed(x) = <<Request(x.route)>>
        /\ x.kind = "post" => RowsNoticed(x) = IF x.route = "login" THEN <<Request("login")>> ELSE <<>>
        /\ x = PostLogin <=> x.kind = "post" /\ x.route = "login"
    BY RowsOfGet
  <2>8. RowsNoticed(x) = IF routed THEN <<Request(head.route)>> ELSE <<>>
    <3>1. CASE x.kind = "get" BY <2>5, <2>7, <3>1
    <3>2. CASE x.kind = "post"
      <4>1. routed <=> x.route = "login" BY <2>5, <3>2
      <4>2. x.route = "login" => Request(head.route) = Request("login") BY <2>5
      <4> HIDE DEF head, routed
      <4>3. QED BY <2>7, <3>2, <4>1, <4>2
    <3>3. QED BY <2>4, <3>1, <3>2
  <2>9. at'[p] = "body" <=> x = PostLogin
    <3>1. CASE x.kind = "get" BY <2>1, <2>5, <2>7, <3>1
    <3>2. CASE x.kind = "post" BY <2>1, <2>5, <2>7, <3>2
    <3>3. QED BY <2>4, <3>1, <3>2
  <2> HIDE DEF head, routed
  <2>10. QED BY <2>1, <2>3, <2>6, <2>8, <2>9
<1>5. CASE HttpForm(p)
  <2> DEFINE form == Head(wire[p])
             login == IF form.kind = "form" THEN LoginOf(form) ELSE <<>>
  <2>1. /\ served[p] = "http" /\ at[p] = "body" /\ Reads(p) /\ Take(p) /\ UNCHANGED <<served, ended, sent>>
        /\ at'[p] = "serving" /\ records'[p] = records[p] \o login
    BY <1>5 DEF HttpForm, Become, Record, WireTables
  <2>2. FormDue(Taken(p)) BY <1>1, <2>1 DEF Open
  <2>3. PICK x \in Items("http") :
          /\ form = OnWire(x) /\ Fits(Taken(p), x) /\ Taken(p) \in Seq(Items("http"))
          /\ /\ x # PostLogin
             /\ records'[p] = RecordsOf("http", Append(Taken(p), x))
             => WirePeer(p)'
    <3> HIDE DEF form, login
    <3>1. QED BY <1>3, <2>1, ItemTaken DEF form
  <2>4. x.kind \in {"garbled", "form"} BY <2>2, <2>3 DEF Fits
  <2>5. form = x
    <3>1. x.kind # "login7" BY <2>4
    <3> HIDE DEF form
    <3>2. QED BY <1>2, <2>3, <3>1, SeenOnWire
  <2>6. RecordsOf("http", Append(Taken(p), x)) = records[p] \o RowsNoticed(x)
    BY <1>1, <2>1, <2>3, RecordsAppend
  <2>7. RowsNoticed(x) = login BY <2>4, <2>5, RowsOfGet
  <2>8. x # PostLogin BY <2>4 DEF PostLogin
  <2> HIDE DEF form, login
  <2>9. QED BY <2>1, <2>3, <2>6, <2>7, <2>8
<1>6. CASE FtpCommand(p)
  <2> DEFINE cmd == Head(wire[p])
             rows(c) == (IF c.user \in Anonymous THEN <<>> ELSE <<Credential(<<c.user>>, <<c.secret>>)>>)
                          \o <<LoggedIn(c.user)>>
  <2>1. /\ served[p] = "ftp" /\ at[p] = "serving" /\ Reads(p) /\ Take(p) /\ UNCHANGED <<served, ended, sent, at>>
        /\ records'[p] = IF cmd.kind = "pass" THEN records[p] \o rows(cmd) ELSE records[p]
    BY <1>6 DEF FtpCommand, Record, WireTables
  <2>2. PICK x \in Items("ftp") :
          /\ cmd = OnWire(x) /\ Taken(p) \in Seq(Items("ftp"))
          /\ /\ x # PostLogin
             /\ records'[p] = RecordsOf("ftp", Append(Taken(p), x))
             => WirePeer(p)'
    <3> HIDE DEF cmd, rows
    <3>1. QED BY <1>3, <2>1, ItemTaken DEF cmd
  <2>3. x.kind \in {"other", "pass"} BY KindsOfItems
  <2>4. cmd = x
    <3>1. x.kind # "login7" BY <2>3
    <3> HIDE DEF cmd, rows
    <3>2. QED BY <1>2, <2>2, <3>1, SeenOnWire
  <2>5. RecordsOf("ftp", Append(Taken(p), x)) = records[p] \o RowsNoticed(x)
    BY <1>1, <2>1, <2>2, RecordsAppend
  <2>6. x # PostLogin BY <2>3 DEF PostLogin
  <2>7. CASE x.kind = "pass"
    <3>1. RowsNoticed(x) = rows(x) BY <2>7, RowsOfPass
    <3>2. records'[p] = records[p] \o rows(x) BY <2>1, <2>4, <2>7
    <3> HIDE DEF cmd, rows
    <3>3. QED BY <2>2, <2>5, <2>6, <3>1, <3>2
  <2>8. CASE x.kind # "pass"
    <3>1. RowsNoticed(x) = <<>> BY <2>8, RowsOfPass
    <3>2. records'[p] = records[p] BY <2>1, <2>4, <2>8
    <3> HIDE DEF cmd, rows
    <3>3. records[p] \in Seq(RowSet)
      <4>1. RowsOfItems(Taken(p)) \in Seq(RowSet) BY <2>2, RowsOfItemsAppend
      <4>2. records[p] = <<Connected>> \o RowsOfItems(Taken(p)) BY <1>1, <2>1 DEF RecordsOf, RowsOfItems
      <4>3. <<Connected>> \in Seq(RowSet) BY DEF RowSet
      <4>4. QED BY <4>1, <4>2, <4>3, ConcatProperties
    <3>4. records[p] \o <<>> = records[p] BY <3>3, ConcatEmptySeq
    <3>5. QED BY <2>2, <2>5, <2>6, <3>1, <3>2, <3>4
  <2>9. QED BY <2>7, <2>8
<1>7. QED BY <1>4, <1>5, <1>6

\* The other steps: a connection begins, an item arrives, the peer leaves, a
\* handler ends without reading.
LEMMA ConnectionSteps ==
  ASSUME WireTables, NEW p \in Clients, WirePeer(p),
         \/ \E s \in Streams : StreamConnect(p, s)
         \/ HttpConnect(p) \/ FtpConnect(p)
         \/ HandlerFails(p) \/ RdpTimeout(p) \/ LibraryCloses(p)
         \/ \E how \in {"eof", "error"} : PeerLeaves(p, how)
         \/ served[p] # "none" /\ \E item \in Items(served[p]) : Arrive(p, item)
  PROVE  WirePeer(p)'
<1>1. /\ served[p] \in Services \union {"none"} /\ at[p] \in Stands(served[p]) /\ Progress(p)
      /\ Unread(Sendable(served[p]), sent[p], wire[p]) /\ ended[p] \in {"no", "eof", "error"}
  BY DEF WirePeer, Pending
\* Nothing has been sent before the connection.
<1>2. ASSUME at[p] = "away", UNCHANGED <<wire, ended, sent>>, served'[p] \in Services,
             at'[p] \in Stands(served'[p]), at'[p] \in {"first", "serving"},
             records'[p] = RecordsOf(served'[p], <<>>)
      PROVE  WirePeer(p)'
  <2>1. served[p] = "none" BY <1>1, <1>2 DEF Stands, Services, Streams
  <2>2. sent[p] = <<>> /\ wire[p] = <<>>
    <3>1. sent[p] \in Seq({}) BY <1>1, <2>1 DEF Unread, Sendable
    <3>2. sent[p] = <<>> BY <3>1, EmptySeq
    <3>3. Len(wire[p]) <= Len(sent[p]) /\ wire[p] \in Seq({OnWire(item) : item \in Sendable("none")})
      BY <1>1, <2>1 DEF Unread
    <3> DEFINE W == {OnWire(item) : item \in Sendable("none")}
    <3>4. wire[p] \in Seq(W) BY <3>3
    <3> HIDE DEF W
    <3>5. PICK w \in Seq(W) : w = wire[p] BY <3>4
    <3>6. Len(w) <= 0 BY <3>2, <3>3, <3>5
    <3>7. w = <<>> BY <3>6
    <3>8. QED BY <3>2, <3>5, <3>7
  <2>3. sent'[p] = <<>> /\ wire'[p] = <<>> BY <1>2, <2>2
  <2>4. \A S : Unread(S, <<>>, <<>>) BY DEF Unread
  <2>5. ReadOf(<<>>, <<>>) = <<>>
    <3>1. SubSeq(<<>>, 1, 0) = <<>> BY SubSeqEmpty
    <3>2. Len(<<>>) - Len(<<>>) = 0 OBVIOUS
    <3>3. QED BY <3>1, <3>2 DEF ReadOf
  <2>6. Taken(p)' = <<>> BY <2>3, <2>5 DEF Taken, ReadOf
  <2>7. Progress(p)' BY <1>2, <2>6, NoFormDue DEF Progress
  <2>8. Pending(p)' BY <2>3, <2>4 DEF Pending
  <2>9. QED BY <1>1, <1>2, <2>7, <2>8 DEF WirePeer
<1>3. ASSUME NEW s \in Streams, StreamConnect(p, s) PROVE WirePeer(p)'
  <2>1. at[p] = "away" /\ served'[p] = s /\ at'[p] = "first" /\ records'[p] = records[p] \o <<Connected>>
    BY <1>3 DEF StreamConnect, Become, Record, WireTables
  <2>2. served[p] = "none" BY <1>1, <2>1 DEF Stands, Services, Streams
  <2>3. records[p] = <<>> BY <1>1, <2>2 DEF Progress, RecordsOf
  <2>4. <<>> \o <<Connected>> = <<Connected>>
    <3>1. <<Connected>> \in Seq({Connected}) OBVIOUS
    <3>2. QED BY <3>1, ConcatEmptySeq
  <2>5. RecordsOf(s, <<>>) = <<Connected>> BY RecordsFirst DEF Streams
  <2>6. s \in Services /\ "first" \in Stands(s) BY DEF Services, Streams, Stands
  <2>7. UNCHANGED <<wire, ended, sent>> BY <1>3 DEF StreamConnect
  <2>8. QED BY <1>2, <2>1, <2>3, <2>4, <2>5, <2>6, <2>7
<1>4. CASE HttpConnect(p)
  <2>1. at[p] = "away" /\ served'[p] = "http" /\ at'[p] = "serving" /\ records'[p] = records[p]
    BY <1>4 DEF HttpConnect, Become, WireTables
  <2>2. served[p] = "none" BY <1>1, <2>1 DEF Stands, Services, Streams
  <2>3. records[p] = <<>> BY <1>1, <2>2 DEF Progress, RecordsOf
  <2>4. "http" \in Services /\ "serving" \in Stands("http") BY DEF Services, Stands
  <2>5. UNCHANGED <<wire, ended, sent>> BY <1>4 DEF HttpConnect
  <2>6. QED BY <1>2, <2>1, <2>3, <2>4, <2>5, RecordsFirst
<1>5. CASE FtpConnect(p)
  <2>1. at[p] = "away" /\ served'[p] = "ftp" /\ at'[p] = "serving" /\ records'[p] = records[p] \o <<Connected>>
    BY <1>5 DEF FtpConnect, Become, Record, WireTables
  <2>2. served[p] = "none" BY <1>1, <2>1 DEF Stands, Services, Streams
  <2>3. records[p] = <<>> BY <1>1, <2>2 DEF Progress, RecordsOf
  <2>4. <<>> \o <<Connected>> = <<Connected>>
    <3>1. <<Connected>> \in Seq({Connected}) OBVIOUS
    <3>2. QED BY <3>1, ConcatEmptySeq
  <2>5. "ftp" \in Services /\ "serving" \in Stands("ftp") BY DEF Services, Stands
  <2>6. UNCHANGED <<wire, ended, sent>> BY <1>5 DEF FtpConnect
  <2>7. QED BY <1>2, <2>1, <2>3, <2>4, <2>5, <2>6, RecordsFirst
\* A handler ends without reading.
<1>6. ASSUME at'[p] \in {"closed", "expired"}, at'[p] \in Stands(served[p]),
             UNCHANGED <<served, wire, ended, records, sent>>
      PROVE  WirePeer(p)'
  <2>1. Taken(p)' = Taken(p) BY <1>6 DEF Taken
  <2>2. Progress(p)'
    <3>1. PICK t : t = Taken(p) OBVIOUS
    <3>2. Taken(p)' = t BY <2>1, <3>1
    <3>3. records[p] = RecordsOf(served[p], t) BY <1>1, <3>1 DEF Progress
    <3>4. ~Open(p)' BY <1>6 DEF Open
    <3>5. QED BY <1>6, <3>2, <3>3, <3>4 DEF Progress
  <2>3. Pending(p)' BY <1>1, <1>6 DEF Pending
  <2>4. QED BY <1>1, <1>6, <2>2, <2>3 DEF WirePeer
<1>7. CASE HandlerFails(p)
  <2>1. served[p] \in Streams /\ at'[p] = "closed" BY <1>7 DEF HandlerFails, Become, WireTables
  <2>2. "closed" \in Stands(served[p]) BY <2>1 DEF Streams, Stands
  <2>3. QED BY <1>6, <1>7, <2>1, <2>2 DEF HandlerFails
<1>8. CASE RdpTimeout(p)
  <2>1. served[p] = "rdp" /\ at'[p] = "expired" BY <1>8 DEF RdpTimeout, Become, WireTables
  <2>2. "expired" \in Stands(served[p]) BY <2>1 DEF Stands
  <2>3. QED BY <1>6, <1>8, <2>1, <2>2 DEF RdpTimeout
<1>9. CASE LibraryCloses(p)
  <2>1. served[p] \in {"http", "ftp"} /\ at'[p] = "closed" BY <1>9 DEF LibraryCloses, Become, WireTables
  <2>2. "closed" \in Stands(served[p]) BY <2>1 DEF Stands
  <2>3. QED BY <1>6, <1>9, <2>1, <2>2 DEF LibraryCloses
<1>10. ASSUME NEW how \in {"eof", "error"}, PeerLeaves(p, how) PROVE WirePeer(p)'
  <2>1. ended'[p] = how /\ UNCHANGED <<served, at, wire, records, sent>>
    BY <1>10 DEF PeerLeaves, WireTables
  <2>2. Taken(p)' = Taken(p) BY <2>1 DEF Taken
  <2>3. Progress(p)'
    <3>1. PICK t : t = Taken(p) OBVIOUS
    <3>2. Taken(p)' = t BY <2>2, <3>1
    <3>3. QED BY <1>1, <2>1, <3>1, <3>2 DEF Progress, Open
  <2>4. Pending(p)' BY <1>1, <2>1 DEF Pending
  <2>5. QED BY <1>1, <2>1, <2>3, <2>4 DEF WirePeer
<1>11. ASSUME served[p] # "none", NEW item \in Items(served[p]), Arrive(p, item) PROVE WirePeer(p)'
  <2> DEFINE S == Sendable(served[p])
  <2>1. item \in S BY <1>11 DEF Sendable
  <2>2. /\ sent'[p] = Append(sent[p], item) /\ wire'[p] = Append(wire[p], OnWire(item))
        /\ Fits(sent[p], item) /\ UNCHANGED <<served, at, ended, records>>
    BY <1>11 DEF Arrive, WireTables
  <2>3. S' = S BY <2>2
  <2> HIDE DEF S
  <2>4. Unread(S, sent[p], wire[p]) BY <1>1 DEF S
  <2>5. /\ Unread(S, Append(sent[p], item), Append(wire[p], OnWire(item)))
        /\ ReadOf(Append(sent[p], item), Append(wire[p], OnWire(item))) = ReadOf(sent[p], wire[p])
    BY <2>1, <2>2, <2>4, ArrivesLast
  <2>6. Pending(p)' BY <2>2, <2>3, <2>5 DEF Pending, S
  <2>7. Taken(p)' = Taken(p)
    <3>1. Taken(p) = ReadOf(sent[p], wire[p]) /\ Taken(p)' = ReadOf(sent'[p], wire'[p])
      BY DEF Taken, ReadOf
    <3>2. QED BY <2>2, <2>5, <3>1
  <2>8. Progress(p)'
    <3>1. PICK t : t = Taken(p) OBVIOUS
    <3>2. Taken(p)' = t BY <2>7, <3>1
    <3>3. QED BY <1>1, <2>2, <3>1, <3>2 DEF Progress, Open
  <2>9. QED BY <1>1, <2>2, <2>6, <2>8 DEF WirePeer
<1>12. QED BY <1>3, <1>4, <1>5, <1>7, <1>8, <1>9, <1>10, <1>11

\* WireInv is inductive: every handler reads the items of its peer one by one
\* in the order they were sent, and its records are those of what it has read.
THEOREM WireStepCorrect == WireInv /\ [WireNext]_wireVars => WireInv'
<1> SUFFICES ASSUME WireInv, [WireNext]_wireVars PROVE WireInv' OBVIOUS
<1>1. CASE UNCHANGED wireVars
  <2>1. WireTables' BY <1>1 DEF WireInv, WireTables, wireVars
  <2>2. ASSUME NEW q \in Clients PROVE WirePeer(q)'
    <3>1. WireSame(q) BY <1>1 DEF WireSame, wireVars
    <3>2. QED BY <3>1, WirePeerSame DEF WireInv
  <2>3. QED BY <2>1, <2>2 DEF WireInv
<1>2. ASSUME NEW p \in Clients, Wire(p) PROVE WireInv'
  <2>1. WireTables /\ WirePeer(p) BY DEF WireInv
  <2>2. WireTables' BY <1>2, <2>1, TablesStep
  <2>3. ASSUME NEW q \in Clients, q # p PROVE WirePeer(q)'
    <3>1. WireSame(q) BY <1>2, <2>1, <2>3, WireOthersSame
    <3>2. QED BY <3>1, WirePeerSame DEF WireInv
  <2>4. WirePeer(p)'
    <3>1. CASE MssqlPrelogin(p) \/ MssqlLogin(p) \/ MysqlAuth(p) \/ RdpConfirm(p) \/ RdpNegotiate(p)
      BY <2>1, <3>1, StreamSteps
    <3>2. CASE HttpHandle(p) \/ HttpForm(p) \/ FtpCommand(p) BY <2>1, <3>2, CallbackSteps
    <3>3. CASE \/ \E s \in Streams : StreamConnect(p, s)
               \/ HttpConnect(p) \/ FtpConnect(p)
               \/ HandlerFails(p) \/ RdpTimeout(p) \/ LibraryCloses(p)
               \/ \E how \in {"eof", "error"} : PeerLeaves(p, how)
               \/ served[p] # "none" /\ \E item \in Items(served[p]) : Arrive(p, item)
      BY <2>1, <3>3, ConnectionSteps
    <3>4. QED BY <1>2, <3>1, <3>2, <3>3 DEF Wire, HandlerStep, CallbackStep
  <2>5. QED BY <2>2, <2>3, <2>4 DEF WireInv
<1>3. QED BY <1>1, <1>2 DEF WireNext

LEMMA WireInitial == WireInit => WireInv
<1> SUFFICES ASSUME WireInit PROVE WireInv OBVIOUS
<1>1. WireTables BY DEF WireInit, WireTables
<1>2. ASSUME NEW p \in Clients PROVE WirePeer(p)
  <2>1. /\ served[p] = "none" /\ at[p] = "away" /\ wire[p] = <<>> /\ ended[p] = "no"
        /\ records[p] = <<>> /\ sent[p] = <<>>
    BY DEF WireInit
  <2>2. Pending(p)
    <3>1. \A S : Unread(S, <<>>, <<>>) BY DEF Unread
    <3>2. QED BY <2>1, <3>1 DEF Pending
  <2>3. Progress(p)
    <3>1. RecordsOf("none", Taken(p)) = <<>> BY DEF RecordsOf
    <3>2. ~Open(p) BY <2>1 DEF Open
    <3>3. QED BY <2>1, <3>1, <3>2 DEF Progress
  <2>4. "away" \in Stands("none") BY DEF Stands
  <2>5. QED BY <2>1, <2>2, <2>3, <2>4 DEF WirePeer
<1>3. QED BY <1>1, <1>2 DEF WireInv

THEOREM WireInvariant == WireSpec => []WireInv
<1>1. WireInit => WireInv BY WireInitial
<1>2. WireInv /\ [WireNext]_wireVars => WireInv' BY WireStepCorrect
<1>3. QED BY <1>1, <1>2, PTL DEF WireSpec

\* Every variable keeps its type; what a handler has not read is the end of what
\* was sent, and _post waits for a form exactly when one is due.
THEOREM WireTypeCorrect == WireSpec => []WireTypeOK
<1>1. WireInv => WireTypeOK
  <2> SUFFICES ASSUME WireInv PROVE WireTypeOK OBVIOUS
  <2>1. ASSUME NEW s \in Services \union {"none"}, NEW a \in Stands(s)
        PROVE  /\ a \in {"away", "first", "second", "negotiate", "serving", "body", "closed", "expired"}
               /\ s = "none" <=> a = "away"
    BY <2>1 DEF Stands, Services, Streams
  <2>2. ASSUME NEW p \in Clients
        PROVE  served[p] \in Services \union {"none"} /\ at[p] \in Stands(served[p])
               /\ ended[p] \in {"no", "eof", "error"} /\ Pending(p) /\ Progress(p)
    BY DEF WireInv, WirePeer
  <2>3. served \in [Clients -> Services \union {"none"}] BY <2>2 DEF WireInv, WireTables
  <2>4. at \in [Clients -> {"away", "first", "second", "negotiate", "serving", "body", "closed", "expired"}]
    BY <2>1, <2>2 DEF WireInv, WireTables
  <2>5. ended \in [Clients -> {"no", "eof", "error"}] BY <2>2 DEF WireInv, WireTables
  <2>6. ASSUME NEW p \in Clients
        PROVE  /\ served[p] = "none" <=> at[p] = "away"
               /\ sent[p] \in Seq(IF served[p] = "none" THEN {} ELSE Items(served[p]))
               /\ Len(wire[p]) <= Len(sent[p])
               /\ \A i \in DOMAIN wire[p] : wire[p][i] = OnWire(sent[p][Len(sent[p]) - Len(wire[p]) + i])
               /\ Open(p) => (at[p] = "body" <=> FormDue(Taken(p)))
    <3>1. served[p] = "none" <=> at[p] = "away" BY <2>1, <2>2
    <3>2. Unread(Sendable(served[p]), sent[p], wire[p]) BY <2>2 DEF Pending
    <3>3. sent[p] \in Seq(IF served[p] = "none" THEN {} ELSE Items(served[p]))
      BY <3>2 DEF Unread, Sendable
    <3>4. DOMAIN wire[p] = 1..Len(wire[p])
      <4> DEFINE W == {OnWire(item) : item \in Sendable(served[p])}
      <4>1. wire[p] \in Seq(W) BY <3>2 DEF Unread
      <4> HIDE DEF W
      <4>2. QED BY <4>1
    <3>5. /\ Len(wire[p]) <= Len(sent[p])
          /\ \A i \in 1..Len(wire[p]) : wire[p][i] = OnWire(sent[p][Len(sent[p]) - Len(wire[p]) + i])
      BY <3>2 DEF Unread
    <3>6. Open(p) => (at[p] = "body" <=> FormDue(Taken(p))) BY <2>2 DEF Progress
    <3>7. QED BY <3>1, <3>3, <3>4, <3>5, <3>6
  <2>7. QED BY <2>3, <2>4, <2>5, <2>6 DEF WireTypeOK
<1>2. QED BY <1>1, WireInvariant, PTL

\* The events of a peer are at any moment the transcript of what the code has
\* looked at, with passwords as they were typed: for any number of peers and
\* items, any names, and passwords of any bytes.
THEOREM NoticedIsExact == WireSpec => []NoticedExact
<1>1. WireInv => NoticedExact BY DEF WireInv, WirePeer, Progress, NoticedExact
<1>2. QED BY <1>1, WireInvariant, PTL
=============================================================================
