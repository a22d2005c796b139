---------------------------- MODULE SequenceLemmas ----------------------------
(* Facts about sequences that the proofs of several components use: least   *)
(* elements and induction, the beginnings of a sequence, and membership and *)
(* uniqueness in a FIFO queue that is only ever appended to and popped, as  *)
(* the event loop's and the database thread's queues are.                   *)
EXTENDS Integers, Sequences, SequenceTheorems, WellFoundedInduction, TLAPS

\* A set of natural numbers that is not empty has a least element.
LEMMA LeastElement ==
  ASSUME NEW F \in SUBSET Nat, F # {}
  PROVE  \E i \in F : \A j \in F : i <= j
<1> DEFINE Less == {ss \in Nat \X Nat : ss[1] < ss[2]}
<1>1. IsWellFoundedOn(Less, Nat) BY NatLessThanWellFounded DEF OpToRel
<1> HIDE DEF Less
<1>2. PICK i \in F : \A j \in F : <<j, i>> \notin Less BY <1>1, WFMin
<1>3. \A j \in F : ~(j < i) BY <1>2 DEF Less
<1>4. QED BY <1>3

\* Induction, for a set of numbers instead of a predicate.
LEMMA Induction ==
  ASSUME NEW S, 0 \in S, \A n \in Nat : n \in S => n + 1 \in S
  PROVE  Nat \subseteq S
<1> SUFFICES ASSUME NEW x \in Nat, x \notin S PROVE FALSE OBVIOUS
<1>1. PICK m \in {n \in Nat : n \notin S} : \A j \in {n \in Nat : n \notin S} : m <= j
  BY LeastElement
<1>2. m # 0 /\ m - 1 \in Nat BY <1>1
<1>3. m - 1 \in S BY <1>1, <1>2
<1>4. (m - 1) + 1 \in S BY <1>2, <1>3
<1>5. (m - 1) + 1 = m BY <1>1
<1>6. QED BY <1>1, <1>4, <1>5

\* Induction over sequences that grow at the end.
LEMMA SequenceInduction ==
  ASSUME NEW A, NEW S, <<>> \in S,
         \A s \in Seq(A), x \in A : s \in S => Append(s, x) \in S
  PROVE  Seq(A) \subseteq S
<1> DEFINE T == {n \in Nat : \A s \in Seq(A) : Len(s) = n => s \in S}
<1>1. 0 \in T
  <2>1. \A s \in Seq(A) : Len(s) = 0 => s = <<>> OBVIOUS
  <2>2. QED BY <2>1
<1>2. ASSUME NEW n \in Nat, n \in T PROVE n + 1 \in T
  <2> SUFFICES ASSUME NEW s \in Seq(A), Len(s) = n + 1 PROVE s \in S OBVIOUS
  <2>1. s # <<>> OBVIOUS
  <2>2. PICK t \in Seq(A), x \in A : s = Append(t, x) BY <2>1, SequenceEmptyOrAppend
  <2>3. Len(t) = n BY <2>2
  <2>4. t \in S BY <1>2, <2>3
  <2>5. QED BY <2>2, <2>4
<1> HIDE DEF T
<1>3. Nat \subseteq T BY <1>1, <1>2, Induction
<1>4. QED
  <2> SUFFICES ASSUME NEW s \in Seq(A) PROVE s \in S OBVIOUS
  <2>1. Len(s) \in Nat OBVIOUS
  <2>2. QED BY <1>3, <2>1 DEF T

---------------------------------------------------------------------------
(* Parts of sequences.                                                     *)

LEMMA ConcatAppend ==
  ASSUME NEW A, NEW s \in Seq(A), NEW t \in Seq(A), NEW x \in A
  PROVE  s \o Append(t, x) = Append(s \o t, x)
<1>1. <<x>> \in Seq(A) OBVIOUS
<1>2. Append(t, x) = t \o <<x>> BY AppendIsConcat
<1>3. s \o t \in Seq(A) BY ConcatProperties
<1>4. Append(s \o t, x) = (s \o t) \o <<x>> BY <1>3, AppendIsConcat
<1>5. (s \o t) \o <<x>> = s \o (t \o <<x>>) BY <1>1, ConcatAssociative
<1>6. QED BY <1>2, <1>4, <1>5

LEMMA TwoElements ==
  ASSUME NEW S, NEW x \in S, NEW y \in S
  PROVE  <<x>> \o <<y>> = <<x, y>>
<1>1. <<x>> \in Seq(S) /\ <<y>> \in Seq(S) /\ <<x, y>> \in Seq(S) OBVIOUS
<1>2. /\ Len(<<x>>) = 1 /\ Len(<<y>>) = 1 /\ Len(<<x, y>>) = 2
      /\ <<x>>[1] = x /\ <<y>>[1] = y /\ <<x, y>>[1] = x /\ <<x, y>>[2] = y
  OBVIOUS
<1> DEFINE a == <<x>>
           b == <<y>>
           c == <<x, y>>
<1> HIDE DEF a, b, c
<1>3. a \in Seq(S) /\ b \in Seq(S) /\ c \in Seq(S) BY <1>1 DEF a, b, c
<1>4. Len(a) = 1 /\ Len(b) = 1 /\ Len(c) = 2 /\ a[1] = x /\ b[1] = y /\ c[1] = x /\ c[2] = y
  BY <1>2 DEF a, b, c
<1>5. a \o b \in Seq(S) /\ Len(a \o b) = 2 /\ (a \o b)[1] = x /\ (a \o b)[2] = y
  BY <1>3, <1>4, ConcatProperties
<1>6. \A i \in 1..2 : (a \o b)[i] = c[i]
  <2>1. \A i \in 1..2 : i = 1 \/ i = 2 OBVIOUS
  <2>2. QED BY <1>4, <1>5, <2>1
<1>7. a \o b = c BY <1>3, <1>4, <1>5, <1>6, SeqEqual
<1>8. QED BY <1>7 DEF a, b, c

LEMMA OneMore ==
  ASSUME NEW S, NEW s \in Seq(S), NEW n \in Nat, n < Len(s)
  PROVE  /\ SubSeq(s, 1, n) \in Seq(S) /\ Len(SubSeq(s, 1, n)) = n
         /\ SubSeq(s, 1, n + 1) = Append(SubSeq(s, 1, n), s[n + 1]) /\ s[n + 1] \in S
<1> DEFINE a == SubSeq(s, 1, n)
           b == SubSeq(s, 1, n + 1)
<1>1. Len(s) \in Nat /\ \A k \in 1..n + 1 : s[k] \in S OBVIOUS
<1>2. a \in Seq(S) /\ Len(a) = n /\ \A k \in 1..n : a[k] = s[k] BY <1>1
<1>3. b \in Seq(S) /\ Len(b) = n + 1 /\ \A k \in 1..n + 1 : b[k] = s[k] BY <1>1
<1>4. s[n + 1] \in S BY <1>1
<1> HIDE DEF a, b
<1>5. /\ Append(a, s[n + 1]) \in Seq(S) /\ Len(Append(a, s[n + 1])) = n + 1
      /\ Append(a, s[n + 1])[n + 1] = s[n + 1] /\ \A k \in 1..n : Append(a, s[n + 1])[k] = a[k]
  BY <1>2, <1>4
<1>6. ASSUME NEW k \in 1..n + 1 PROVE b[k] = Append(a, s[n + 1])[k]
  <2>1. k = n + 1 \/ k \in 1..n OBVIOUS
  <2>2. QED BY <1>2, <1>3, <1>5, <2>1
<1>7. b = Append(a, s[n + 1]) BY <1>3, <1>5, <1>6, SeqEqual
<1>8. QED BY <1>2, <1>4, <1>7 DEF a, b

LEMMA Beginning ==
  ASSUME NEW S, NEW s \in Seq(S), NEW x \in S, NEW n \in Nat, n <= Len(s)
  PROVE  SubSeq(Append(s, x), 1, n) = SubSeq(s, 1, n)
<1>1. Append(s, x) = s \o <<x>> /\ <<x>> \in Seq(S) BY AppendIsConcat
<1>2. CASE n = 0
  <2>1. n \in Int /\ n < 1 BY <1>2
  <2>2. QED BY <2>1, SubSeqEmpty
<1>3. CASE n # 0
  <2>1. 1 \in 1..Len(s) /\ n \in 1..Len(s) BY <1>3
  <2>2. QED BY <1>1, <2>1, SubSeqOfConcat1
<1>4. QED BY <1>2, <1>3

---------------------------------------------------------------------------
(* Queues.                                                                 *)

In(q, x) == \E i \in 1..Len(q) : q[i] = x
Unique(q, x) == \A i, j \in 1..Len(q) : q[i] = x /\ q[j] = x => i = j

\* Popping something else changes nothing for x.
LEMMA PopOther ==
  ASSUME NEW S, NEW q \in Seq(S), q # <<>>, NEW x, x # Head(q)
  PROVE  /\ In(Tail(q), x) <=> In(q, x)
         /\ Unique(q, x) => Unique(Tail(q), x)
<1>1. /\ Len(q) \in Nat \ {0} /\ Len(Tail(q)) = Len(q) - 1
      /\ \A i \in 1..Len(Tail(q)) : Tail(q)[i] = q[i + 1]
      /\ Head(q) = q[1]
  BY HeadTailProperties
<1>2. ASSUME In(q, x) PROVE In(Tail(q), x)
  <2>1. PICK i \in 1..Len(q) : q[i] = x BY <1>2 DEF In
  <2>2. i # 1 BY <1>1, <2>1
  <2>3. i - 1 \in 1..Len(Tail(q)) /\ Tail(q)[i - 1] = q[(i - 1) + 1] BY <1>1, <2>1, <2>2
  <2>4. QED BY <1>1, <2>1, <2>3 DEF In
<1>3. ASSUME In(Tail(q), x) PROVE In(q, x)
  <2>1. PICK i \in 1..Len(Tail(q)) : Tail(q)[i] = x BY <1>3 DEF In
  <2>2. i + 1 \in 1..Len(q) /\ q[i + 1] = x BY <1>1, <2>1
  <2>3. QED BY <2>2 DEF In
<1>4. ASSUME Unique(q, x) PROVE Unique(Tail(q), x)
  <2> SUFFICES ASSUME NEW i \in 1..Len(Tail(q)), NEW j \in 1..Len(Tail(q)),
                      Tail(q)[i] = x, Tail(q)[j] = x
               PROVE  i = j
    BY DEF Unique
  <2>1. /\ i + 1 \in 1..Len(q) /\ j + 1 \in 1..Len(q)
        /\ q[i + 1] = x /\ q[j + 1] = x
    BY <1>1
  <2>2. i + 1 = j + 1 BY <2>1, <1>4 DEF Unique
  <2>3. QED BY <2>2
<1>5. QED BY <1>2, <1>3, <1>4

\* Popping adds nothing.
LEMMA PopIn ==
  ASSUME NEW S, NEW q \in Seq(S), q # <<>>, NEW x, In(Tail(q), x)
  PROVE  In(q, x)
<1>1. /\ Len(q) \in Nat \ {0} /\ Len(Tail(q)) = Len(q) - 1
      /\ \A i \in 1..Len(Tail(q)) : Tail(q)[i] = q[i + 1]
  BY HeadTailProperties
<1>2. PICK i \in 1..Len(Tail(q)) : Tail(q)[i] = x BY DEF In
<1>3. i + 1 \in 1..Len(q) /\ q[i + 1] = x BY <1>1, <1>2
<1>4. QED BY <1>3 DEF In

\* Popping what is there once removes it.
LEMMA PopSelf ==
  ASSUME NEW S, NEW q \in Seq(S), q # <<>>, Unique(q, Head(q))
  PROVE  In(q, Head(q)) /\ ~In(Tail(q), Head(q)) /\ Unique(Tail(q), Head(q))
<1>1. /\ Len(q) \in Nat \ {0} /\ Len(Tail(q)) = Len(q) - 1
      /\ \A i \in 1..Len(Tail(q)) : Tail(q)[i] = q[i + 1]
      /\ Head(q) = q[1]
  BY HeadTailProperties
<1>2. ASSUME NEW i \in 1..Len(Tail(q)), Tail(q)[i] = Head(q) PROVE FALSE
  <2>1. i + 1 \in 1..Len(q) /\ 1 \in 1..Len(q) /\ q[i + 1] = Head(q) /\ i + 1 # 1
    BY <1>1, <1>2
  <2>2. QED BY <1>1, <2>1 DEF Unique
<1>3. QED BY <1>1, <1>2 DEF In, Unique

\* Appending something else changes nothing for x.
LEMMA PushOther ==
  ASSUME NEW S, NEW q \in Seq(S), NEW e \in S, NEW x, x # e
  PROVE  /\ In(Append(q, e), x) <=> In(q, x)
         /\ Unique(q, x) => Unique(Append(q, e), x)
<1>1. /\ Len(q) \in Nat /\ Len(Append(q, e)) = Len(q) + 1
      /\ \A i \in 1..Len(q) : Append(q, e)[i] = q[i]
      /\ Append(q, e)[Len(q) + 1] = e
  BY AppendProperties
<1>2. \A i \in 1..Len(Append(q, e)) : Append(q, e)[i] = x => i \in 1..Len(q) /\ q[i] = x
  BY <1>1
<1>3. QED BY <1>1, <1>2 DEF In, Unique

\* Appending what is not there makes it be there once.
LEMMA PushSelf ==
  ASSUME NEW S, NEW q \in Seq(S), NEW e \in S, ~In(q, e)
  PROVE  In(Append(q, e), e) /\ Unique(Append(q, e), e)
<1>1. /\ Len(q) \in Nat /\ Len(Append(q, e)) = Len(q) + 1
      /\ \A i \in 1..Len(q) : Append(q, e)[i] = q[i]
      /\ Append(q, e)[Len(q) + 1] = e
  BY AppendProperties
<1>2. \A i \in 1..Len(Append(q, e)) : Append(q, e)[i] = e => i = Len(q) + 1
  BY <1>1 DEF In
<1>3. Len(q) + 1 \in 1..Len(Append(q, e)) BY <1>1
<1>4. QED BY <1>1, <1>2, <1>3 DEF In, Unique

\* What is not there is there at most once.
LEMMA AbsentUnique ==
  ASSUME NEW q, NEW x, ~In(q, x)
  PROVE  Unique(q, x)
BY DEF In, Unique

\* A queue of two parts.
LEMMA InConcat ==
  ASSUME NEW S, NEW p \in Seq(S), NEW q \in Seq(S), NEW x
  PROVE  In(p \o q, x) <=> In(p, x) \/ In(q, x)
<1>1. /\ Len(p) \in Nat /\ Len(q) \in Nat /\ Len(p \o q) = Len(p) + Len(q)
      /\ \A i \in 1..Len(p) + Len(q) :
           (p \o q)[i] = IF i <= Len(p) THEN p[i] ELSE q[i - Len(p)]
  BY ConcatProperties
<1>2. ASSUME NEW i \in 1..Len(p) PROVE i \in 1..Len(p \o q) /\ (p \o q)[i] = p[i]
  BY <1>1
<1>3. ASSUME NEW i \in 1..Len(q)
      PROVE  i + Len(p) \in 1..Len(p \o q) /\ (p \o q)[i + Len(p)] = q[i]
  <2>1. i + Len(p) \in 1..Len(p) + Len(q) /\ ~(i + Len(p) <= Len(p))
        /\ (i + Len(p)) - Len(p) = i
    BY <1>1
  <2>2. QED BY <1>1, <2>1
<1>4. ASSUME NEW i \in 1..Len(p \o q), (p \o q)[i] = x PROVE In(p, x) \/ In(q, x)
  <2>1. CASE i <= Len(p) BY <1>1, <1>4, <2>1 DEF In
  <2>2. CASE ~(i <= Len(p))
    <3>1. i - Len(p) \in 1..Len(q) /\ q[i - Len(p)] = x BY <1>1, <1>4, <2>2
    <3>2. QED BY <3>1 DEF In
  <2>3. QED BY <2>1, <2>2
<1>5. QED BY <1>2, <1>3, <1>4 DEF In

\* A part of a queue has x at most once if the queue does.
LEMMA UniquePart ==
  ASSUME NEW S, NEW p \in Seq(S), NEW q \in Seq(S), NEW x, Unique(p \o q, x)
  PROVE  Unique(p, x)
<1>1. /\ Len(p) \in Nat /\ Len(q) \in Nat /\ Len(p \o q) = Len(p) + Len(q)
      /\ \A i \in 1..Len(p) + Len(q) :
           (p \o q)[i] = IF i <= Len(p) THEN p[i] ELSE q[i - Len(p)]
  BY ConcatProperties
<1>2. ASSUME NEW i \in 1..Len(p) PROVE i \in 1..Len(p \o q) /\ (p \o q)[i] = p[i]
  BY <1>1
<1>3. QED BY <1>2 DEF Unique
-----------------------------------------------------------------------------
\* Wherever both are in the queue, x is ahead of y.
Ahead(q, x, y) == \A i, j \in 1..Len(q) : q[i] = x /\ q[j] = y => i < j

LEMMA AheadAbsent ==
  ASSUME NEW q, NEW x, NEW y, ~In(q, x) \/ ~In(q, y)
  PROVE  Ahead(q, x, y)
BY DEF In, Ahead

LEMMA AheadPop ==
  ASSUME NEW S, NEW q \in Seq(S), q # <<>>, NEW x, NEW y, Ahead(q, x, y)
  PROVE  Ahead(Tail(q), x, y)
<1>1. /\ Len(q) \in Nat \ {0} /\ Len(Tail(q)) = Len(q) - 1
      /\ \A i \in 1..Len(Tail(q)) : Tail(q)[i] = q[i + 1]
  BY HeadTailProperties
<1>2. SUFFICES ASSUME NEW i \in 1..Len(Tail(q)), NEW j \in 1..Len(Tail(q)),
                      Tail(q)[i] = x, Tail(q)[j] = y
               PROVE  i < j
  BY DEF Ahead
<1>3. i + 1 \in 1..Len(q) /\ j + 1 \in 1..Len(q) /\ q[i + 1] = x /\ q[j + 1] = y
  BY <1>1, <1>2
<1>4. i + 1 < j + 1 BY <1>3 DEF Ahead
<1>5. QED BY <1>4

\* Only an x that comes after a y would get behind it.
LEMMA AheadPush ==
  ASSUME NEW S, NEW q \in Seq(S), NEW e \in S, NEW x, NEW y, x # y,
         Ahead(q, x, y), e # x \/ ~In(q, y)
  PROVE  Ahead(Append(q, e), x, y)
<1>1. /\ Len(q) \in Nat /\ Len(Append(q, e)) = Len(q) + 1
      /\ \A i \in 1..Len(q) : Append(q, e)[i] = q[i]
      /\ Append(q, e)[Len(q) + 1] = e
  BY AppendProperties
<1>2. SUFFICES ASSUME NEW i \in 1..Len(q) + 1, NEW j \in 1..Len(q) + 1,
                      Append(q, e)[i] = x, Append(q, e)[j] = y
               PROVE  i < j
  BY <1>1 DEF Ahead
<1>3. CASE j = Len(q) + 1
  <2>1. i # Len(q) + 1 BY <1>2, <1>3
  <2>2. QED BY <1>1, <1>3, <2>1
<1>4. CASE j # Len(q) + 1
  <2>1. j \in 1..Len(q) /\ q[j] = y BY <1>1, <1>2, <1>4
  <2>2. i # Len(q) + 1 BY <1>1, <1>2, <2>1 DEF In
  <2>3. i \in 1..Len(q) /\ q[i] = x BY <1>1, <1>2, <2>2
  <2>4. QED BY <2>1, <2>3 DEF Ahead
<1>5. QED BY <1>3, <1>4

\* Nobody is ahead of the head.
LEMMA AheadHead ==
  ASSUME NEW S, NEW q \in Seq(S), q # <<>>, NEW x, Ahead(q, x, Head(q))
  PROVE  ~In(q, x)
<1>1. Len(q) \in Nat \ {0} /\ Head(q) = q[1] BY HeadTailProperties
<1>2. SUFFICES ASSUME NEW i \in 1..Len(q), q[i] = x PROVE FALSE
  BY DEF In
<1>3. i < 1 BY <1>1, <1>2 DEF Ahead
<1>4. QED BY <1>3

LEMMA AheadPart ==
  ASSUME NEW S, NEW p \in Seq(S), NEW q \in Seq(S), NEW x, NEW y, Ahead(p \o q, x, y)
  PROVE  Ahead(p, x, y)
<1>1. /\ Len(p) \in Nat /\ Len(q) \in Nat /\ Len(p \o q) = Len(p) + Len(q)
      /\ \A i \in 1..Len(p) + Len(q) :
           (p \o q)[i] = IF i <= Len(p) THEN p[i] ELSE q[i - Len(p)]
  BY ConcatProperties
<1>2. ASSUME NEW i \in 1..Len(p) PROVE i \in 1..Len(p \o q) /\ (p \o q)[i] = p[i]
  BY <1>1
<1>3. QED BY <1>2 DEF Ahead

LEMMA HeadIn ==
  ASSUME NEW S, NEW q \in Seq(S), q # <<>>
  PROVE  In(q, Head(q))
<1>1. Len(q) \in Nat \ {0} /\ Head(q) = q[1] BY HeadTailProperties
<1>2. QED BY <1>1 DEF In

\* Of two that are in the queue once each, one is ahead.
LEMMA AheadOne ==
  ASSUME NEW S, NEW q \in Seq(S), NEW x, NEW y, x # y,
         In(q, x), In(q, y), Unique(q, x), Unique(q, y)
  PROVE  Ahead(q, x, y) <=> ~Ahead(q, y, x)
<1>1. PICK i \in 1..Len(q), j \in 1..Len(q) : q[i] = x /\ q[j] = y BY DEF In
<1>2. Len(q) \in Nat /\ i \in Nat /\ j \in Nat /\ i # j BY <1>1
<1>3. ASSUME NEW m \in 1..Len(q), NEW n \in 1..Len(q), q[m] = x, q[n] = y PROVE m = i /\ n = j
  BY <1>1, <1>3 DEF Unique
<1>4. Ahead(q, x, y) <=> i < j BY <1>1, <1>3 DEF Ahead
<1>5. Ahead(q, y, x) <=> j < i BY <1>1, <1>3 DEF Ahead
<1>6. QED BY <1>2, <1>4, <1>5

\* Popping another keeps who is ahead.
LEMMA AheadPopSame ==
  ASSUME NEW S, NEW q \in Seq(S), q # <<>>, NEW x, NEW y, x # y, x # Head(q), y # Head(q),
         In(q, x), In(q, y), Unique(q, x), Unique(q, y)
  PROVE  Ahead(Tail(q), x, y) <=> Ahead(q, x, y)
<1>1. /\ In(Tail(q), x) /\ In(Tail(q), y) /\ Unique(Tail(q), x) /\ Unique(Tail(q), y)
      /\ Tail(q) \in Seq(S)
  BY PopOther
<1>2. Ahead(q, x, y) => Ahead(Tail(q), x, y) BY AheadPop
<1>3. Ahead(q, y, x) => Ahead(Tail(q), y, x) BY AheadPop
<1>4. Ahead(q, x, y) <=> ~Ahead(q, y, x) BY AheadOne
<1>5. Ahead(Tail(q), x, y) <=> ~Ahead(Tail(q), y, x) BY <1>1, AheadOne
<1>6. QED BY <1>2, <1>3, <1>4, <1>5

\* So does appending another, and what is appended is behind everything.
LEMMA AheadPushSame ==
  ASSUME NEW S, NEW q \in Seq(S), NEW e \in S, NEW x, NEW y, x # y, x # e, y # e,
         In(q, x), In(q, y), Unique(q, x), Unique(q, y)
  PROVE  Ahead(Append(q, e), x, y) <=> Ahead(q, x, y)
<1>1. /\ In(Append(q, e), x) /\ In(Append(q, e), y)
      /\ Unique(Append(q, e), x) /\ Unique(Append(q, e), y) /\ Append(q, e) \in Seq(S)
  BY PushOther, AppendProperties
<1>2. Ahead(q, x, y) => Ahead(Append(q, e), x, y) BY AheadPush
<1>3. Ahead(q, y, x) => Ahead(Append(q, e), y, x) BY AheadPush
<1>4. Ahead(q, x, y) <=> ~Ahead(q, y, x) BY AheadOne
<1>5. Ahead(Append(q, e), x, y) <=> ~Ahead(Append(q, e), y, x) BY <1>1, AheadOne
<1>6. QED BY <1>2, <1>3, <1>4, <1>5

LEMMA AheadPushed ==
  ASSUME NEW S, NEW q \in Seq(S), NEW e \in S, NEW x, x # e,
         ~In(q, e), In(q, x), Unique(q, x)
  PROVE  Ahead(Append(q, e), x, e) /\ ~Ahead(Append(q, e), e, x)
<1>1. /\ In(Append(q, e), x) /\ Unique(Append(q, e), x)
      /\ In(Append(q, e), e) /\ Unique(Append(q, e), e) /\ Append(q, e) \in Seq(S)
  BY PushOther, PushSelf, AppendProperties
<1>2. Ahead(q, x, e) BY AheadAbsent
<1>3. Ahead(Append(q, e), x, e) BY <1>2, AheadPush
<1>4. QED BY <1>1, <1>3, AheadOne
=============================================================================
