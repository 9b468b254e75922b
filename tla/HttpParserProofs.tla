--------------------------- MODULE HttpParserProofs ---------------------------
(***************************************************************************)
(* The parser never leaves its input: for every traffic, every split of it *)
(* into DATA events and every behaviour of the owner's callbacks.  Before  *)
(* that, where the bytes of a message are on a connection, for every       *)
(* sequence of messages.                                                   *)
(*                                                                         *)
(* Encode is made of flattened sequences, and a chunk's number of its sum, *)
(* both recursive functions.  What they are for every input is shown by    *)
(* induction, as the statement that a set of numbers is all of Nat         *)
(* (NatSetInduction), which takes no operator as a parameter.              *)
(*                                                                         *)
(* The parser's invariants need each other.  A subtraction stays above     *)
(* zero (TypeOK) because what a handler consumes is in the buffer          *)
(* (BufferBounds), which in turn needs the types; so they are proved as    *)
(* one inductive invariant, action by action.                              *)
(***************************************************************************)
EXTENDS HttpParser, SequenceTheorems, WellFoundedInduction, TLAPS

\* A set of numbers that is not empty has a least element.
LEMMA LeastNumber ==
  ASSUME NEW T, T \subseteq Nat, T # {}
  PROVE  \E x \in T : \A y \in T : x <= y
<1> DEFINE Less == {ss \in Nat \X Nat : ss[1] < ss[2]}
<1>1. IsWellFoundedOn(Less, Nat)
  BY NatLessThanWellFounded DEF OpToRel
<1>2. PICK x \in T : \A y \in T : ~(<<y, x>> \in Less)
  BY <1>1, WFMin
<1>3. \A y \in T : ~(y < x)
  BY <1>2
<1> QED
  BY <1>3

\* Induction over the natural numbers, for a set.
LEMMA NatSetInduction ==
  ASSUME NEW T, 0 \in T, \A n \in Nat : n \in T => n + 1 \in T
  PROVE  Nat \subseteq T
<1> SUFFICES ASSUME NEW n \in Nat, n \notin T PROVE FALSE
  OBVIOUS
<1>1. PICK x \in Nat \ T : \A y \in Nat \ T : x <= y
  BY LeastNumber
<1>2. x - 1 \in Nat
  OBVIOUS
<1>3. x - 1 \in T
  BY <1>1, <1>2
<1>4. (x - 1) + 1 \in T
  BY <1>2, <1>3
<1> QED
  BY <1>4
-------------------------------------------------------------------------------
(***************************************************************************)
(* Flattened sequences                                                     *)
(***************************************************************************)
\* What FlattenSeq computes its value from: the flattened prefixes of a sequence.
Flattens(f, s) == f = [i \in 1..Len(s) |-> IF i = 1 THEN s[i] ELSE f[i-1] \o s[i]]

\* Its value at a position.
LEMMA FlattensAt ==
  ASSUME NEW s, Len(s) \in Nat, NEW f, Flattens(f, s), NEW n \in Nat, n + 1 <= Len(s)
  PROVE  f[n + 1] = IF n + 1 = 1 THEN s[n + 1] ELSE f[n] \o s[n + 1]
<1>1. f = [i \in 1..Len(s) |-> IF i = 1 THEN s[i] ELSE f[i-1] \o s[i]]
  BY DEF Flattens
<1>2. n + 1 \in 1..Len(s) /\ (n + 1) - 1 = n
  OBVIOUS
<1>3. f[n + 1] = IF n + 1 = 1 THEN s[n + 1] ELSE f[(n + 1) - 1] \o s[n + 1]
  BY <1>1, <1>2
<1> QED
  BY <1>2, <1>3

\* There is such a function for every sequence.
LEMMA FlattensExists ==
  ASSUME NEW s, Len(s) \in Nat
  PROVE  \E f : Flattens(f, s)
<1> DEFINE
      Upto(f, n) == f = [i \in 1..n |-> IF i = 1 THEN s[i] ELSE f[i-1] \o s[i]]
      T == {n \in Nat : \E f : Upto(f, n)}
<1>1. 0 \in T
  <2>1. Upto(<<>>, 0)
    OBVIOUS
  <2> QED
    BY <2>1
<1>2. ASSUME NEW n \in Nat, n \in T
      PROVE  n + 1 \in T
  <2>1. PICK f : Upto(f, n)
    BY <1>2
  <2> DEFINE
        tail == IF n = 0 THEN s[1] ELSE f[n] \o s[n + 1]
        g == [i \in 1..n + 1 |-> IF i = n + 1 THEN tail ELSE f[i]]
  <2>2. \A i \in 1..n : g[i] = f[i]
    OBVIOUS
  <2>3. \A i \in 1..n + 1 : g[i] = IF i = 1 THEN s[i] ELSE g[i-1] \o s[i]
    <3> TAKE i \in 1..n + 1
    <3>1. CASE i = n + 1
      BY <2>2, <3>1
    <3>2. CASE i # n + 1
      <4>1. i \in 1..n /\ (i # 1 => i - 1 \in 1..n)
        BY <3>2
      <4>2. f[i] = IF i = 1 THEN s[i] ELSE f[i-1] \o s[i]
        BY <2>1, <4>1
      <4> QED
        BY <2>2, <4>1, <4>2
    <3> QED
      BY <3>1, <3>2
  <2>4. Upto(g, n + 1)
    <3> HIDE DEF g
    <3>1. g = [i \in 1..n + 1 |-> g[i]]
      BY DEF g
    <3> QED
      BY <2>3, <3>1
  <2> HIDE DEF Upto
  <2> QED
    BY <2>4
<1>3. Len(s) \in T
  <2> HIDE DEF T
  <2> QED
    BY <1>1, <1>2, NatSetInduction
<1> QED
  BY <1>3 DEF Flattens

\* The flattened sequence is the value of that function at its end.
LEMMA FlattenValue ==
  ASSUME NEW s, Len(s) \in Nat \ {0}
  PROVE  \E f : Flattens(f, s) /\ FlattenSeq(s) = f[Len(s)]
<1> DEFINE g == CHOOSE f : f = [i \in 1..Len(s) |-> IF i = 1 THEN s[i] ELSE f[i-1] \o s[i]]
<1>1. \E f : f = [i \in 1..Len(s) |-> IF i = 1 THEN s[i] ELSE f[i-1] \o s[i]]
  BY FlattensExists DEF Flattens
<1>2. g = [i \in 1..Len(s) |-> IF i = 1 THEN s[i] ELSE g[i-1] \o s[i]]
  BY <1>1
<1>3. FlattenSeq(s) = g[Len(s)]
  BY DEF FlattenSeq
<1> HIDE DEF g
<1> QED
  BY <1>2, <1>3 DEF Flattens

\* The functions of a sequence and of one that goes on with it agree.
LEMMA FlattensAgree ==
  ASSUME NEW s, NEW t, NEW f, NEW g, Flattens(f, s), Flattens(g, t),
         Len(s) \in Nat, Len(t) \in Nat, Len(s) <= Len(t), \A i \in 1..Len(s) : s[i] = t[i]
  PROVE  \A i \in 1..Len(s) : f[i] = g[i]
<1> DEFINE T == {n \in Nat : n \in 1..Len(s) => f[n] = g[n]}
<1>1. 0 \in T
  OBVIOUS
<1>2. ASSUME NEW n \in Nat, n \in T
      PROVE  n + 1 \in T
  <2>1. SUFFICES ASSUME n + 1 \in 1..Len(s) PROVE f[n + 1] = g[n + 1]
    OBVIOUS
  <2>2. /\ f[n + 1] = IF n + 1 = 1 THEN s[n + 1] ELSE f[n] \o s[n + 1]
        /\ g[n + 1] = IF n + 1 = 1 THEN t[n + 1] ELSE g[n] \o t[n + 1]
    BY <2>1, FlattensAt
  <2>3. n # 0 => f[n] = g[n]
    BY <1>2, <2>1
  <2> QED
    BY <2>1, <2>2, <2>3
<1>3. Nat \subseteq T
  <2> HIDE DEF T
  <2> QED
    BY <1>1, <1>2, NatSetInduction
<1> QED
  BY <1>3

\* A flattened prefix is the one before with the next sequence behind it.
LEMMA FlattenStep ==
  ASSUME NEW S, NEW s \in Seq(Seq(S)), NEW n \in 1..Len(s),
         FlattenSeq(SubSeq(s, 1, n - 1)) \in Seq(S)
  PROVE  FlattenSeq(SubSeq(s, 1, n)) = FlattenSeq(SubSeq(s, 1, n - 1)) \o s[n]
<1> DEFINE a == SubSeq(s, 1, n)
           b == SubSeq(s, 1, n - 1)
<1>1. /\ Len(a) = n /\ \A i \in 1..n : a[i] = s[i]
      /\ Len(b) = n - 1 /\ \A i \in 1..n - 1 : b[i] = s[i]
  OBVIOUS
<1>2. s[n] \in Seq(S) /\ n \in Nat \ {0} /\ n - 1 \in Nat
  OBVIOUS
<1> HIDE DEF a, b
<1>3. PICK f : Flattens(f, a) /\ FlattenSeq(a) = f[n]
  BY <1>1, <1>2, FlattenValue
<1>4. CASE n = 1
  <2>1. FlattenSeq(b) = <<>>
    <3>1. b = <<>>
      BY <1>1, <1>4 DEF b
    <3> QED
      BY <3>1 DEF FlattenSeq
  <2>2. FlattenSeq(a) = s[n]
    <3>1. Len(a) = 1 /\ Len(a) \in Nat /\ 0 \in Nat /\ 0 + 1 <= Len(a) /\ 0 + 1 = 1
      BY <1>1, <1>4
    <3>2. f[0 + 1] = IF 0 + 1 = 1 THEN a[0 + 1] ELSE f[0] \o a[0 + 1]
      BY <1>3, <3>1, FlattensAt
    <3>3. f[n] = a[n] /\ a[n] = s[n]
      BY <1>1, <1>4, <3>1, <3>2
    <3> QED
      BY <1>3, <3>3
  <2> QED
    BY <1>2, <2>1, <2>2, ConcatEmptySeq DEF a, b
<1>5. CASE n # 1
  <2>1. /\ Len(b) = n - 1 /\ Len(b) \in Nat \ {0}
        /\ (n - 1) + 1 = n /\ (n - 1) + 1 <= Len(a) /\ Len(b) <= Len(a)
    <3>1. Len(a) = n /\ Len(b) = n - 1
      BY <1>1
    <3> QED
      BY <1>2, <1>5, <3>1
  <2>2. PICK g : Flattens(g, b) /\ FlattenSeq(b) = g[Len(b)]
    BY <2>1, FlattenValue
  <2>3. \A i \in 1..Len(b) : b[i] = a[i]
    <3> TAKE i \in 1..Len(b)
    <3>1. i \in 1..n /\ i \in 1..n - 1
      BY <1>2, <2>1
    <3>2. b[i] = s[i]
      BY <1>1, <3>1
    <3>3. a[i] = s[i]
      BY <1>1, <3>1
    <3> QED
      BY <3>2, <3>3
  <2>4. Len(a) \in Nat /\ Len(b) \in Nat /\ Len(b) \in 1..Len(b)
    BY <1>1, <1>2, <2>1
  <2>5. g[Len(b)] = f[Len(b)]
    <3>1. \A i \in 1..Len(b) : g[i] = f[i]
      <4>1. Flattens(g, b) /\ Flattens(f, a) /\ Len(b) <= Len(a)
        BY <1>3, <2>1, <2>2
      <4> QED
        BY <2>3, <2>4, <4>1, FlattensAgree
    <3> QED
      BY <2>4, <3>1
  <2>6. f[(n - 1) + 1] = IF (n - 1) + 1 = 1 THEN a[(n - 1) + 1] ELSE f[n - 1] \o a[(n - 1) + 1]
    BY <1>2, <1>3, <2>1, <2>4, FlattensAt
  <2>7. a[n] = s[n]
    BY <1>1, <1>2
  <2> QED
    BY <1>3, <1>5, <2>1, <2>2, <2>5, <2>6, <2>7 DEF a, b
<1> QED
  BY <1>4, <1>5

\* Where the elements of two sequences are when they are put together.
LEMMA ConcatPlace ==
  ASSUME NEW S, NEW a \in Seq(S), NEW b \in Seq(S)
  PROVE  /\ a \o b \in Seq(S) /\ Len(a \o b) = Len(a) + Len(b)
         /\ \A i \in 1..Len(a) : (a \o b)[i] = a[i]
         /\ \A i \in 1..Len(b) : (a \o b)[Len(a) + i] = b[i]
OBVIOUS

\* Flattened prefixes are sequences, of the same elements.
LEMMA FlattenType ==
  ASSUME NEW S, NEW s \in Seq(Seq(S))
  PROVE  /\ FlattenSeq(SubSeq(s, 1, 0)) = <<>>
         /\ \A n \in 0..Len(s) : FlattenSeq(SubSeq(s, 1, n)) \in Seq(S)
<1> DEFINE T == {n \in Nat : n \in 0..Len(s) => FlattenSeq(SubSeq(s, 1, n)) \in Seq(S)}
<1>1. FlattenSeq(SubSeq(s, 1, 0)) = <<>>
  <2>1. SubSeq(s, 1, 0) = <<>>
    OBVIOUS
  <2> QED
    BY <2>1 DEF FlattenSeq
<1>2. 0 \in T
  <2>1. FlattenSeq(SubSeq(s, 1, 0)) \in Seq(S)
    BY <1>1, EmptySeq
  <2> QED
    BY <2>1
<1>3. ASSUME NEW n \in Nat, n \in T
      PROVE  n + 1 \in T
  <2> SUFFICES ASSUME n + 1 \in 0..Len(s)
               PROVE  FlattenSeq(SubSeq(s, 1, n + 1)) \in Seq(S)
    OBVIOUS
  <2>1. n + 1 \in 1..Len(s) /\ (n + 1) - 1 = n /\ n \in 0..Len(s)
    OBVIOUS
  <2>2. FlattenSeq(SubSeq(s, 1, n)) \in Seq(S)
    BY <1>3, <2>1
  <2>3. FlattenSeq(SubSeq(s, 1, n + 1)) = FlattenSeq(SubSeq(s, 1, n)) \o s[n + 1]
    BY <2>1, <2>2, FlattenStep
  <2>4. s[n + 1] \in Seq(S)
    BY <2>1, ElementOfSeq
  <2> QED
    BY <2>2, <2>3, <2>4, ConcatProperties
<1>4. Nat \subseteq T
  <2> HIDE DEF T
  <2> QED
    BY <1>2, <1>3, NatSetInduction
<1> QED
  BY <1>1, <1>4

\* A flattened prefix is a prefix of every longer one.
LEMMA FlattenGrows ==
  ASSUME NEW S, NEW s \in Seq(Seq(S)), NEW k \in 0..Len(s), NEW n \in k..Len(s)
  PROVE  /\ Len(FlattenSeq(SubSeq(s, 1, k))) <= Len(FlattenSeq(SubSeq(s, 1, n)))
         /\ \A i \in 1..Len(FlattenSeq(SubSeq(s, 1, k))) :
              FlattenSeq(SubSeq(s, 1, n))[i] = FlattenSeq(SubSeq(s, 1, k))[i]
<1> DEFINE F(m) == FlattenSeq(SubSeq(s, 1, m))
           Extends(m) == /\ Len(F(k)) <= Len(F(m))
                         /\ \A i \in 1..Len(F(k)) : F(m)[i] = F(k)[i]
           T == {d \in Nat : \A m \in k..Len(s) : m = k + d => Extends(m)}
<1>1. \A m \in 0..Len(s) : F(m) \in Seq(S) /\ Len(F(m)) \in Nat
  BY FlattenType
<1>2. 0 \in T
  <2>1. Len(F(k)) \in Nat
    BY <1>1
  <2> HIDE DEF F
  <2>2. Extends(k)
    BY <2>1
  <2>3. \A m \in k..Len(s) : m = k + 0 => m = k
    OBVIOUS
  <2> HIDE DEF Extends
  <2> QED
    BY <2>2, <2>3
<1>3. ASSUME NEW d \in Nat, d \in T
      PROVE  d + 1 \in T
  <2> SUFFICES ASSUME NEW j \in k..Len(s), j = k + (d + 1) PROVE Extends(j)
    OBVIOUS
  <2> DEFINE m == k + d
  <2>1. /\ m \in k..Len(s) /\ m \in 0..Len(s) /\ m + 1 \in 1..Len(s)
        /\ (m + 1) - 1 = m /\ j = m + 1
    OBVIOUS
  <2>2. Extends(m)
    BY <1>3, <2>1
  <2> HIDE DEF m
  <2>3. F(m + 1) = F(m) \o s[m + 1]
    BY <1>1, <2>1, FlattenStep
  <2>4. s[m + 1] \in Seq(S)
    BY <2>1, ElementOfSeq
  <2>5. /\ Len(F(m + 1)) = Len(F(m)) + Len(s[m + 1])
        /\ \A i \in 1..Len(F(m)) : F(m + 1)[i] = F(m)[i]
    <3>1. F(m) \in Seq(S)
      BY <1>1, <2>1
    <3> HIDE DEF F
    <3> QED
      BY <2>3, <2>4, <3>1, ConcatPlace
  <2>6. Len(s[m + 1]) \in Nat /\ Len(F(m)) \in Nat /\ Len(F(k)) \in Nat
    BY <1>1, <2>1, <2>4
  <2> HIDE DEF F
  <2>7. Extends(m + 1)
    BY <2>2, <2>5, <2>6
  <2> QED
    BY <2>1, <2>7
<1>4. Nat \subseteq T
  <2> HIDE DEF T
  <2> QED
    BY <1>2, <1>3, NatSetInduction
<1>5. n - k \in Nat /\ k + (n - k) = n /\ n <= Len(s)
  OBVIOUS
<1>6. n - k \in T
  BY <1>4, <1>5
<1> HIDE DEF F
<1>7. Extends(n)
  BY <1>5, <1>6
<1> QED
  BY <1>7 DEF F

\* The elements of each of the sequences are behind those of the sequences before it.
LEMMA FlattenPlace ==
  ASSUME NEW S, NEW s \in Seq(Seq(S)), NEW k \in 1..Len(s), NEW n \in k..Len(s)
  PROVE  LET at == Len(FlattenSeq(SubSeq(s, 1, k - 1)))
         IN  /\ Len(FlattenSeq(SubSeq(s, 1, k))) = at + Len(s[k])
             /\ at + Len(s[k]) <= Len(FlattenSeq(SubSeq(s, 1, n)))
             /\ \A i \in 1..Len(s[k]) : FlattenSeq(SubSeq(s, 1, n))[at + i] = s[k][i]
<1> DEFINE F(m) == FlattenSeq(SubSeq(s, 1, m))
<1>1. k \in 0..Len(s) /\ k - 1 \in 0..Len(s) /\ n \in 0..Len(s)
  OBVIOUS
<1>2. /\ F(k) \in Seq(S) /\ Len(F(k)) \in Nat /\ F(k - 1) \in Seq(S) /\ Len(F(k - 1)) \in Nat
      /\ F(n) \in Seq(S) /\ Len(F(n)) \in Nat
  BY <1>1, FlattenType
<1>3. s[k] \in Seq(S) /\ Len(s[k]) \in Nat
  BY ElementOfSeq
<1>4. F(k) = F(k - 1) \o s[k]
  BY <1>2, FlattenStep
<1>5. /\ Len(F(k)) = Len(F(k - 1)) + Len(s[k])
      /\ \A i \in 1..Len(s[k]) : F(k)[Len(F(k - 1)) + i] = s[k][i]
  <2> HIDE DEF F
  <2> QED
    BY <1>2, <1>3, <1>4, ConcatPlace
<1>6. /\ Len(F(k)) <= Len(F(n))
      /\ \A i \in 1..Len(F(k)) : F(n)[i] = F(k)[i]
  BY <1>1, FlattenGrows
<1> HIDE DEF F
<1>7. \A i \in 1..Len(s[k]) : F(n)[Len(F(k - 1)) + i] = s[k][i]
  <2> TAKE i \in 1..Len(s[k])
  <2>1. Len(F(k - 1)) + i \in 1..Len(F(k))
    BY <1>2, <1>3, <1>5
  <2> QED
    BY <1>5, <1>6, <2>1
<1>8. Len(F(k - 1)) + Len(s[k]) <= Len(F(n))
  BY <1>5, <1>6
<1> QED
  BY <1>5, <1>7, <1>8 DEF F
-------------------------------------------------------------------------------
(***************************************************************************)
(* Sums of chunks                                                          *)
(***************************************************************************)
\* The function SizeBefore is defined by exists.
LEMMA SizeBeforeExists ==
  ASSUME NEW s, Len(s) \in Nat
  PROVE  \E f : f = [k \in 0..Len(s) |-> IF k = 0 THEN 0 ELSE f[k-1] + s[k]]
<1> DEFINE Upto(f, n) == f = [k \in 0..n |-> IF k = 0 THEN 0 ELSE f[k-1] + s[k]]
           T == {n \in Nat : \E f : Upto(f, n)}
<1>1. 0 \in T
  <2> DEFINE f == [k \in 0..0 |-> 0]
  <2>1. Upto(f, 0)
    OBVIOUS
  <2> HIDE DEF Upto, f
  <2> QED
    BY <2>1
<1>2. ASSUME NEW n \in Nat, n \in T
      PROVE  n + 1 \in T
  <2>1. PICK f : Upto(f, n)
    BY <1>2
  <2> DEFINE g == [k \in 0..n + 1 |-> IF k = n + 1 THEN f[n] + s[n + 1] ELSE f[k]]
  <2>2. \A i \in 0..n : g[i] = f[i]
    OBVIOUS
  <2>3. \A i \in 0..n + 1 : g[i] = IF i = 0 THEN 0 ELSE g[i-1] + s[i]
    <3> TAKE i \in 0..n + 1
    <3>1. CASE i = n + 1
      BY <2>2, <3>1
    <3>2. CASE i # n + 1
      <4>1. i \in 0..n /\ (i # 0 => i - 1 \in 0..n)
        BY <3>2
      <4>2. f[i] = IF i = 0 THEN 0 ELSE f[i-1] + s[i]
        BY <2>1, <4>1
      <4> QED
        BY <2>2, <4>1, <4>2
    <3> QED
      BY <3>1, <3>2
  <2>4. Upto(g, n + 1)
    <3> HIDE DEF g
    <3>1. g = [i \in 0..n + 1 |-> g[i]]
      BY DEF g
    <3> QED
      BY <2>3, <3>1
  <2> HIDE DEF Upto
  <2> QED
    BY <2>4
<1>3. Len(s) \in T
  <2> HIDE DEF T
  <2> QED
    BY <1>1, <1>2, NatSetInduction
<1> QED
  BY <1>3

\* It is the sum of the first chunks: from zero, each adds its size.
LEMMA SizeBeforeStep ==
  ASSUME NEW s \in Seq(Nat)
  PROVE  /\ SizeBefore(s)[0] = 0
         /\ \A k \in 1..Len(s) : SizeBefore(s)[k] = SizeBefore(s)[k - 1] + s[k]
         /\ \A k \in 0..Len(s) : SizeBefore(s)[k] \in Nat
<1> DEFINE f == SizeBefore(s)
           T == {k \in Nat : k \in 0..Len(s) => f[k] \in Nat}
<1>1. f = [k \in 0..Len(s) |-> IF k = 0 THEN 0 ELSE f[k-1] + s[k]]
  <2>1. Len(s) \in Nat
    OBVIOUS
  <2>2. \E g : g = [k \in 0..Len(s) |-> IF k = 0 THEN 0 ELSE g[k-1] + s[k]]
    BY <2>1, SizeBeforeExists
  <2> QED
    BY <2>2 DEF SizeBefore
<1> HIDE DEF f
<1>2. f[0] = 0
  BY <1>1
<1>3. ASSUME NEW k \in 1..Len(s)
      PROVE  f[k] = f[k - 1] + s[k]
  BY <1>1
<1>4. 0 \in T
  BY <1>2
<1>5. ASSUME NEW n \in Nat, n \in T
      PROVE  n + 1 \in T
  <2> SUFFICES ASSUME n + 1 \in 0..Len(s) PROVE f[n + 1] \in Nat
    OBVIOUS
  <2>1. n + 1 \in 1..Len(s) /\ (n + 1) - 1 = n /\ n \in 0..Len(s)
    OBVIOUS
  <2>2. f[n + 1] = f[n] + s[n + 1]
    BY <1>3, <2>1
  <2>3. f[n] \in Nat /\ s[n + 1] \in Nat
    BY <1>5, <2>1, ElementOfSeq
  <2> QED
    BY <2>2, <2>3
<1>6. Nat \subseteq T
  <2> HIDE DEF T
  <2> QED
    BY <1>4, <1>5, NatSetInduction
<1> QED
  BY <1>2, <1>3, <1>6 DEF f
-------------------------------------------------------------------------------
(***************************************************************************)
(* The bytes of one message                                                *)
(***************************************************************************)
\* Bytes of each kind are bytes.
LEMMA ByteType ==
  ASSUME NEW kind \in ByteKinds, NEW m \in Nat, NEW arg \in Nat
  PROVE  Byte(kind, m, arg) \in Bytes
BY DEF Byte, Bytes

\* The bytes of a header.
LEMMA HeaderBytesAt ==
  ASSUME NEW m \in Nat
  PROVE  /\ HeaderBytes(m) \in Seq(Bytes) /\ Len(HeaderBytes(m)) = HdrLen
         /\ \A i \in 1..HdrLen : HeaderBytes(m)[i] = Byte("head", m, i)
<1> USE HdrLenAssumption
<1>1. \A i \in 1..HdrLen : Byte("head", m, i) \in Bytes
  BY ByteType DEF ByteKinds
<1>2. HeaderBytes(m) \in [1..HdrLen -> Bytes]
  BY <1>1 DEF HeaderBytes
<1> QED
  BY <1>2 DEF HeaderBytes

\* A part of the content.
LEMMA DataBytesAt ==
  ASSUME NEW m \in Nat, NEW from \in Nat, NEW n \in Nat
  PROVE  /\ DataBytes(m, from, n) \in Seq(Bytes) /\ Len(DataBytes(m, from, n)) = n
         /\ \A i \in 1..n : DataBytes(m, from, n)[i] = Byte("data", m, from + i)
<1>1. \A i \in 1..n : Byte("data", m, from + i) \in Bytes
  BY ByteType DEF ByteKinds
<1>2. DataBytes(m, from, n) \in [1..n -> Bytes]
  BY <1>1 DEF DataBytes
<1> QED
  BY <1>2 DEF DataBytes

\* The first n content bytes.
LEMMA ContentBytesAt ==
  ASSUME NEW m \in Nat, NEW n \in Nat
  PROVE  /\ DataBytes(m, 0, n) \in Seq(Bytes) /\ Len(DataBytes(m, 0, n)) = n
         /\ \A i \in 1..n : DataBytes(m, 0, n)[i] = Byte("data", m, i)
<1>1. /\ DataBytes(m, 0, n) \in Seq(Bytes) /\ Len(DataBytes(m, 0, n)) = n
      /\ \A i \in 1..n : DataBytes(m, 0, n)[i] = Byte("data", m, 0 + i)
  BY DataBytesAt
<1> QED
  BY <1>1

\* Behind the first at elements of s are k content bytes, those behind the first g.
ContentAt(s, at, k, m, g) ==
  /\ s \in Seq(Bytes) /\ at \in Nat /\ k \in Nat /\ m \in Nat /\ g \in Nat
  /\ at + k <= Len(s)
  /\ \A i \in 1..k : s[at + i] = Byte("data", m, g + i)

\* Content goes on with the bytes behind it.
LEMMA DataBytesGrow ==
  ASSUME NEW m, NEW g, NEW k, NEW at, NEW s, ContentAt(s, at, k, m, g)
  PROVE  DataBytes(m, 0, g) \o SubSeq(s, at + 1, at + k) = DataBytes(m, 0, g + k)
<1> DEFINE a == DataBytes(m, 0, g)
           b == SubSeq(s, at + 1, at + k)
           c == DataBytes(m, 0, g + k)
           d == a \o b
<1>0. /\ s \in Seq(Bytes) /\ at \in Nat /\ k \in Nat /\ m \in Nat /\ g \in Nat
      /\ at + k <= Len(s) /\ \A i \in 1..k : s[at + i] = Byte("data", m, g + i)
  BY DEF ContentAt
<1>00. at \in Nat /\ k \in Nat /\ m \in Nat /\ g \in Nat /\ g + k \in Nat
  BY <1>0
<1>1. a \in Seq(Bytes) /\ Len(a) = g /\ \A i \in 1..g : a[i] = Byte("data", m, i)
  BY <1>00, ContentBytesAt
<1>2. c \in Seq(Bytes) /\ Len(c) = g + k /\ \A i \in 1..g + k : c[i] = Byte("data", m, i)
  BY <1>00, ContentBytesAt
<1>3. b \in Seq(Bytes) /\ Len(b) = k /\ \A i \in 1..k : b[i] = s[at + i]
  <2>1. \A i \in at + 1..at + k : s[i] \in Bytes
    BY <1>0, ElementOfSeq
  <2>2. /\ b \in Seq(Bytes)
        /\ Len(b) = IF at + 1 <= at + k THEN (at + k) - (at + 1) + 1 ELSE 0
        /\ \A i \in 1..(at + k) - (at + 1) + 1 : b[i] = s[(at + 1) + i - 1]
    BY <1>00, <2>1, SubSeqProperties
  <2>3. (at + k) - (at + 1) + 1 = k
    BY <1>00
  <2>4. Len(b) = k
    BY <1>00, <2>2
  <2>5. \A i \in 1..k : b[i] = s[at + i]
    <3> TAKE i \in 1..k
    <3>1. (at + 1) + i - 1 = at + i
      BY <1>00
    <3> QED
      BY <2>2, <2>3, <3>1
  <2> QED
    BY <2>2, <2>4, <2>5
<1> HIDE DEF a, b, c
<1>4. /\ d \in Seq(Bytes) /\ Len(d) = Len(a) + Len(b)
      /\ \A i \in 1..Len(a) : d[i] = a[i]
      /\ \A i \in 1..Len(b) : d[Len(a) + i] = b[i]
  <2>1. a \in Seq(Bytes) /\ b \in Seq(Bytes)
    BY <1>1, <1>3
  <2> QED
    BY <2>1, ConcatPlace
<1> HIDE DEF d
<1>5. \A i \in 1..g + k : d[i] = c[i]
  <2> TAKE i \in 1..g + k
  <2>1. CASE i <= g
    BY <1>00, <1>1, <1>2, <1>4, <2>1
  <2>2. CASE i > g
    <3> DEFINE j == i - g
    <3>1. j \in 1..k /\ i = g + j
      BY <1>00, <2>2
    <3> HIDE DEF j
    <3>2. d[g + j] = b[j]
      BY <1>1, <1>3, <1>4, <3>1
    <3>3. b[j] = Byte("data", m, g + j)
      BY <1>0, <1>3, <3>1
    <3>4. c[g + j] = Byte("data", m, g + j)
      BY <1>00, <1>2, <3>1
    <3> QED
      BY <3>1, <3>2, <3>3, <3>4
  <2> QED
    BY <1>00, <2>1, <2>2
<1>6. Len(d) = g + k /\ Len(c) = g + k
  BY <1>00, <1>1, <1>2, <1>3, <1>4
<1>7. d = c
  <2>1. d \in Seq(Bytes) /\ c \in Seq(Bytes)
    BY <1>2, <1>4
  <2> QED
    BY <1>5, <1>6, <2>1, SeqEqual
<1> QED
  BY <1>7 DEF a, b, c, d

\* A chunk: its size, a line end, its content, a line end.
IsChunk(s, m, from, n) ==
  /\ s[1] = Byte("size", m, n) /\ s[2] = Byte("cr", m, 0) /\ s[3] = Byte("lf", m, 0)
  /\ \A i \in 1..n : s[3 + i] = Byte("data", m, from + i)
  /\ s[n + 4] = Byte("cr", m, 0) /\ s[n + 5] = Byte("lf", m, 0)

LEMMA ChunkBytesAt ==
  ASSUME NEW m \in Nat, NEW from \in Nat, NEW n \in Nat
  PROVE  /\ ChunkBytes(m, from, n) \in Seq(Bytes) /\ Len(ChunkBytes(m, from, n)) = n + 5
         /\ IsChunk(ChunkBytes(m, from, n), m, from, n)
<1> DEFINE head == <<Byte("size", m, n)>>
           some == DataBytes(m, from, n)
           a == head \o CrLf(m)
           b == a \o some
           c == b \o CrLf(m)
<1>1. head \in Seq(Bytes) /\ Len(head) = 1 /\ head[1] = Byte("size", m, n)
  BY ByteType DEF ByteKinds
<1>2. /\ CrLf(m) \in Seq(Bytes) /\ Len(CrLf(m)) = 2
      /\ CrLf(m)[1] = Byte("cr", m, 0) /\ CrLf(m)[2] = Byte("lf", m, 0)
  BY ByteType DEF ByteKinds, CrLf
<1>3. /\ some \in Seq(Bytes) /\ Len(some) = n
      /\ \A i \in 1..n : some[i] = Byte("data", m, from + i)
  BY DataBytesAt
<1> HIDE DEF head, some
<1>4. /\ a \in Seq(Bytes) /\ Len(a) = 3
      /\ a[1] = Byte("size", m, n) /\ a[2] = Byte("cr", m, 0) /\ a[3] = Byte("lf", m, 0)
  <2>0. a = head \o CrLf(m)
    OBVIOUS
  <2> HIDE DEF a
  <2>1. /\ a \in Seq(Bytes) /\ Len(a) = Len(head) + Len(CrLf(m))
        /\ \A i \in 1..Len(head) : a[i] = head[i]
        /\ \A i \in 1..Len(CrLf(m)) : a[Len(head) + i] = CrLf(m)[i]
    <3>1. head \in Seq(Bytes) /\ CrLf(m) \in Seq(Bytes)
      BY <1>1, <1>2
    <3> QED
      BY <2>0, <3>1, ConcatPlace
  <2>2. a[1 + 1] = CrLf(m)[1] /\ a[1 + 2] = CrLf(m)[2] /\ a[1] = head[1]
    BY <1>1, <1>2, <2>1
  <2>3. 1 + 1 = 2 /\ 1 + 2 = 3
    OBVIOUS
  <2> QED
    BY <1>1, <1>2, <2>1, <2>2, <2>3
<1> HIDE DEF a
<1>5. /\ b \in Seq(Bytes) /\ Len(b) = n + 3
      /\ \A i \in 1..3 : b[i] = a[i]
      /\ \A i \in 1..n : b[3 + i] = some[i]
  <2>0. b = a \o some
    OBVIOUS
  <2> HIDE DEF b
  <2>1. /\ b \in Seq(Bytes) /\ Len(b) = Len(a) + Len(some)
        /\ \A i \in 1..Len(a) : b[i] = a[i]
        /\ \A i \in 1..Len(some) : b[Len(a) + i] = some[i]
    <3>1. a \in Seq(Bytes) /\ some \in Seq(Bytes)
      BY <1>3, <1>4
    <3> QED
      BY <2>0, <3>1, ConcatPlace
  <2> QED
    BY <1>3, <1>4, <2>1
<1> HIDE DEF b
<1>6. /\ c \in Seq(Bytes) /\ Len(c) = n + 5
      /\ \A i \in 1..n + 3 : c[i] = b[i]
      /\ \A i \in 1..2 : c[n + 3 + i] = CrLf(m)[i]
  <2>0. c = b \o CrLf(m)
    OBVIOUS
  <2> HIDE DEF c
  <2>1. /\ c \in Seq(Bytes) /\ Len(c) = Len(b) + Len(CrLf(m))
        /\ \A i \in 1..Len(b) : c[i] = b[i]
        /\ \A i \in 1..Len(CrLf(m)) : c[Len(b) + i] = CrLf(m)[i]
    <3>1. b \in Seq(Bytes) /\ CrLf(m) \in Seq(Bytes)
      BY <1>2, <1>5
    <3> QED
      BY <2>0, <3>1, ConcatPlace
  <2> QED
    BY <1>2, <1>5, <2>1
<1>7. c = ChunkBytes(m, from, n)
  BY DEF ChunkBytes, a, b, head, some
<1> HIDE DEF c
<1>8. c[1] = a[1] /\ c[2] = a[2] /\ c[3] = a[3]
  BY <1>5, <1>6
<1>9. \A i \in 1..n : c[3 + i] = Byte("data", m, from + i)
  <2> TAKE i \in 1..n
  <2>1. c[3 + i] = b[3 + i]
    BY <1>6
  <2> QED
    BY <1>3, <1>5, <2>1
<1>10. c[n + 4] = CrLf(m)[1] /\ c[n + 5] = CrLf(m)[2]
  <2>1. n + 3 + 1 = n + 4 /\ n + 3 + 2 = n + 5
    OBVIOUS
  <2>2. c[n + 3 + 1] = CrLf(m)[1] /\ c[n + 3 + 2] = CrLf(m)[2]
    BY <1>6
  <2> QED
    BY <2>1, <2>2
<1> QED
  BY <1>2, <1>4, <1>6, <1>7, <1>8, <1>9, <1>10 DEF IsChunk

\* Where chunk j + 1 begins in a body, and its size; behind the last there is the
\* empty one.
ChunkOffset(chunks, j) == SizeBefore(chunks)[j] + 5 * j
ChunkSize(chunks, j) == IF j = Len(chunks) THEN 0 ELSE chunks[j + 1]

\* The chunk j + 1 of body s is in its place.
ChunkPlaced(s, m, chunks, j) ==
  LET at == ChunkOffset(chunks, j)
      n == ChunkSize(chunks, j)
  IN  /\ at + n + 5 <= Len(s)
      /\ IsChunk([i \in 1..n + 5 |-> s[at + i]], m, SizeBefore(chunks)[j], n)

\* What is in its place in a sequence is there in one that looks the same.
LEMMA SameChunk ==
  ASSUME NEW s, NEW t, NEW m, NEW from, NEW n \in Nat,
         \A i \in 1..n + 5 : s[i] = t[i], IsChunk(t, m, from, n)
  PROVE  IsChunk(s, m, from, n)
<1>1. /\ s[1] = t[1] /\ s[2] = t[2] /\ s[3] = t[3] /\ s[n + 4] = t[n + 4]
      /\ s[n + 5] = t[n + 5] /\ \A i \in 1..n : s[3 + i] = t[3 + i]
  OBVIOUS
<1> QED
  BY <1>1 DEF IsChunk

\* Numbers of a chunked message.
LEMMA ChunkNumbers ==
  ASSUME NEW chunks \in Seq(Nat \ {0})
  PROVE  /\ chunks \in Seq(Nat) /\ Len(chunks) \in Nat /\ SizeBefore(chunks)[0] = 0
         /\ \A j \in 0..Len(chunks) :
              /\ SizeBefore(chunks)[j] \in Nat /\ ChunkOffset(chunks, j) \in Nat
              /\ ChunkSize(chunks, j) \in Nat
              /\ ChunkSize(chunks, j) = 0 <=> j = Len(chunks)
              /\ j < Len(chunks) =>
                   /\ SizeBefore(chunks)[j + 1] = SizeBefore(chunks)[j] + ChunkSize(chunks, j)
                   /\ ChunkOffset(chunks, j + 1)
                        = ChunkOffset(chunks, j) + ChunkSize(chunks, j) + 5
<1>1. chunks \in Seq(Nat) /\ Len(chunks) \in Nat
  OBVIOUS
<1>2. /\ SizeBefore(chunks)[0] = 0
      /\ \A k \in 1..Len(chunks) : SizeBefore(chunks)[k] = SizeBefore(chunks)[k - 1] + chunks[k]
      /\ \A k \in 0..Len(chunks) : SizeBefore(chunks)[k] \in Nat
  BY <1>1, SizeBeforeStep
<1>3. ASSUME NEW j \in 0..Len(chunks)
      PROVE  /\ SizeBefore(chunks)[j] \in Nat /\ ChunkOffset(chunks, j) \in Nat
             /\ ChunkSize(chunks, j) \in Nat
             /\ ChunkSize(chunks, j) = 0 <=> j = Len(chunks)
             /\ j < Len(chunks) =>
                  /\ SizeBefore(chunks)[j + 1] = SizeBefore(chunks)[j] + ChunkSize(chunks, j)
                  /\ ChunkOffset(chunks, j + 1)
                       = ChunkOffset(chunks, j) + ChunkSize(chunks, j) + 5
  <2>1. SizeBefore(chunks)[j] \in Nat
    BY <1>2
  <2>2. CASE j = Len(chunks)
    BY <2>1, <2>2 DEF ChunkOffset, ChunkSize
  <2>3. CASE j < Len(chunks)
    <3>1. j + 1 \in 1..Len(chunks) /\ (j + 1) - 1 = j
      BY <1>1, <2>3
    <3>2. chunks[j + 1] \in Nat \ {0}
      BY <3>1, ElementOfSeq
    <3>3. SizeBefore(chunks)[j + 1] = SizeBefore(chunks)[j] + chunks[j + 1]
      BY <1>2, <3>1
    <3> QED
      BY <2>1, <2>3, <3>2, <3>3 DEF ChunkOffset, ChunkSize
  <2> QED
    BY <1>1, <2>2, <2>3
<1> QED
  BY <1>1, <1>2, <1>3

\* The first chunks are no larger than all.
LEMMA SizesGrow ==
  ASSUME NEW chunks \in Seq(Nat \ {0})
  PROVE  \A j \in 0..Len(chunks) : SizeBefore(chunks)[j] <= SizeBefore(chunks)[Len(chunks)]
<1> DEFINE all == SizeBefore(chunks)[Len(chunks)]
           T == {d \in Nat : d <= Len(chunks) => SizeBefore(chunks)[Len(chunks) - d] <= all}
<1>1. Len(chunks) \in Nat /\ \A j \in 0..Len(chunks) : SizeBefore(chunks)[j] \in Nat
  BY ChunkNumbers
<1>2. all \in Nat
  BY <1>1
<1>3. 0 \in T
  <2>1. Len(chunks) - 0 = Len(chunks)
    BY <1>1
  <2> QED
    BY <1>2, <2>1
<1>4. ASSUME NEW d \in Nat, d \in T
      PROVE  d + 1 \in T
  <2> SUFFICES ASSUME d + 1 <= Len(chunks)
               PROVE  SizeBefore(chunks)[Len(chunks) - (d + 1)] <= all
    BY <1>4
  <2> DEFINE j == Len(chunks) - (d + 1)
  <2>1. j \in 0..Len(chunks) /\ j < Len(chunks) /\ j + 1 = Len(chunks) - d /\ j + 1 \in 0..Len(chunks)
    BY <1>1, <1>4
  <2> HIDE DEF j
  <2>2. SizeBefore(chunks)[j + 1] = SizeBefore(chunks)[j] + ChunkSize(chunks, j)
        /\ ChunkSize(chunks, j) \in Nat
    BY <2>1, ChunkNumbers
  <2>3. SizeBefore(chunks)[j + 1] <= all
    <3>1. d <= Len(chunks)
      BY <1>1
    <3>2. SizeBefore(chunks)[Len(chunks) - d] <= all
      BY <1>4, <3>1
    <3> HIDE DEF all
    <3> QED
      BY <2>1, <3>2
  <2>4. SizeBefore(chunks)[j] \in Nat /\ SizeBefore(chunks)[j + 1] \in Nat
    BY <1>1, <2>1
  <2> HIDE DEF all
  <2>5. SizeBefore(chunks)[j] <= all
    BY <1>2, <2>2, <2>3, <2>4
  <2> QED
    BY <2>5 DEF j
<1>5. Nat \subseteq T
  <2> HIDE DEF T
  <2> QED
    BY <1>3, <1>4, NatSetInduction
<1> HIDE DEF all
<1>6. ASSUME NEW j \in 0..Len(chunks)
      PROVE  SizeBefore(chunks)[j] <= all
  <2>1. Len(chunks) - j \in T /\ Len(chunks) - (Len(chunks) - j) = j
    BY <1>1, <1>5
  <2> QED
    BY <1>1, <2>1
<1> QED
  BY <1>6 DEF all

\* The chunks of a body, one by one.
Chunks(m, chunks) ==
  [k \in 1..Len(chunks) |-> ChunkBytes(m, SizeBefore(chunks)[k-1], chunks[k])]

LEMMA ChunksAt ==
  ASSUME NEW m \in Nat, NEW chunks \in Seq(Nat \ {0})
  PROVE  /\ Chunks(m, chunks) \in Seq(Seq(Bytes)) /\ Len(Chunks(m, chunks)) = Len(chunks)
         /\ \A k \in 1..Len(chunks) :
              /\ SizeBefore(chunks)[k-1] \in Nat /\ chunks[k] \in Nat
              /\ Chunks(m, chunks)[k] = ChunkBytes(m, SizeBefore(chunks)[k-1], chunks[k])
              /\ Len(Chunks(m, chunks)[k]) = chunks[k] + 5
<1> DEFINE c(k) == ChunkBytes(m, SizeBefore(chunks)[k-1], chunks[k])
<1>1. Len(chunks) \in Nat
  OBVIOUS
<1>2. ASSUME NEW k \in 1..Len(chunks)
      PROVE  /\ SizeBefore(chunks)[k-1] \in Nat /\ chunks[k] \in Nat
             /\ c(k) \in Seq(Bytes) /\ Len(c(k)) = chunks[k] + 5
  <2>1. k - 1 \in 0..Len(chunks)
    OBVIOUS
  <2>2. chunks[k] \in Nat
    BY ElementOfSeq
  <2>3. SizeBefore(chunks)[k-1] \in Nat
    BY <2>1, ChunkNumbers
  <2> QED
    BY <2>2, <2>3, ChunkBytesAt
<1>3. Chunks(m, chunks) = [k \in 1..Len(chunks) |-> c(k)]
  BY DEF Chunks
<1> HIDE DEF c
<1>4. Chunks(m, chunks) \in [1..Len(chunks) -> Seq(Bytes)]
  BY <1>2, <1>3
<1>5. Chunks(m, chunks) \in Seq(Seq(Bytes)) /\ Len(Chunks(m, chunks)) = Len(chunks)
  BY <1>1, <1>4
<1>6. \A k \in 1..Len(chunks) : Chunks(m, chunks)[k] = c(k)
  BY <1>3
<1> QED
  BY <1>2, <1>5, <1>6 DEF c

\* The first j of them are as long as the offset of the next one says.
LEMMA ChunksLength ==
  ASSUME NEW m \in Nat, NEW chunks \in Seq(Nat \ {0})
  PROVE  \A j \in 0..Len(chunks) :
           Len(FlattenSeq(SubSeq(Chunks(m, chunks), 1, j))) = ChunkOffset(chunks, j)
<1> DEFINE s == Chunks(m, chunks)
           F(j) == FlattenSeq(SubSeq(s, 1, j))
           T == {j \in Nat : j \in 0..Len(chunks) => Len(F(j)) = ChunkOffset(chunks, j)}
<1>1. s \in Seq(Seq(Bytes)) /\ Len(s) = Len(chunks) /\ Len(chunks) \in Nat
  BY ChunksAt
<1>2. \A k \in 1..Len(chunks) : Len(s[k]) = chunks[k] + 5
  BY ChunksAt
<1> HIDE DEF s
<1>3. F(0) = <<>>
  BY <1>1, FlattenType
<1>4. ASSUME NEW k \in 1..Len(chunks)
      PROVE  Len(F(k)) = Len(F(k - 1)) + (chunks[k] + 5)
  <2>1. k \in 1..Len(s) /\ k \in k..Len(s)
    BY <1>1
  <2>2. Len(F(k)) = Len(F(k - 1)) + Len(s[k])
    BY <1>1, <2>1, FlattenPlace
  <2> QED
    BY <1>2, <2>2
<1> HIDE DEF F
<1>5. 0 \in T
  <2>1. SizeBefore(chunks)[0] = 0
    BY ChunkNumbers
  <2> QED
    BY <1>3, <2>1 DEF ChunkOffset
<1>6. ASSUME NEW n \in Nat, n \in T
      PROVE  n + 1 \in T
  <2> SUFFICES ASSUME n + 1 \in 0..Len(chunks)
               PROVE  Len(F(n + 1)) = ChunkOffset(chunks, n + 1)
    OBVIOUS
  <2>1. /\ n + 1 \in 1..Len(chunks) /\ (n + 1) - 1 = n /\ n \in 0..Len(chunks)
        /\ n < Len(chunks) /\ n # Len(chunks)
    BY <1>1
  <2>2. Len(F(n)) = ChunkOffset(chunks, n)
    BY <1>6, <2>1
  <2>3. Len(F(n + 1)) = Len(F(n)) + (chunks[n + 1] + 5)
    BY <1>4, <2>1
  <2>4. /\ ChunkOffset(chunks, n + 1) = ChunkOffset(chunks, n) + ChunkSize(chunks, n) + 5
        /\ ChunkOffset(chunks, n) \in Nat
    BY <2>1, ChunkNumbers
  <2>5. ChunkSize(chunks, n) = chunks[n + 1] /\ chunks[n + 1] \in Nat
    BY <2>1, ElementOfSeq DEF ChunkSize
  <2> QED
    BY <2>2, <2>3, <2>4, <2>5
<1>7. Nat \subseteq T
  <2> HIDE DEF T
  <2> QED
    BY <1>5, <1>6, NatSetInduction
<1> QED
  BY <1>1, <1>7 DEF F, s

\* Every chunk of a chunked body is in its place, the empty one behind them too.
LEMMA ChunkedBodyAt ==
  ASSUME NEW m \in Nat, NEW f \in Framings, f.kind = "chunked"
  PROVE  /\ f.chunks \in Seq(Nat \ {0}) /\ BodyBytes(m, f) \in Seq(Bytes)
         /\ Len(BodyBytes(m, f)) = ChunkOffset(f.chunks, Len(f.chunks)) + 5
         /\ \A j \in 0..Len(f.chunks) : ChunkPlaced(BodyBytes(m, f), m, f.chunks, j)
<1> DEFINE chunks == f.chunks
           s == Chunks(m, chunks)
           F(j) == FlattenSeq(SubSeq(s, 1, j))
           all == F(Len(s))
           end == ChunkBytes(m, 0, 0)
           b == BodyBytes(m, f)
<1>1. chunks \in Seq(Nat \ {0})
  BY DEF Framings
<1> HIDE DEF chunks
<1>2. s \in Seq(Seq(Bytes)) /\ Len(s) = Len(chunks) /\ Len(chunks) \in Nat
  BY <1>1, ChunksAt
<1>3. \A k \in 1..Len(chunks) :
        /\ SizeBefore(chunks)[k-1] \in Nat /\ chunks[k] \in Nat
        /\ s[k] = ChunkBytes(m, SizeBefore(chunks)[k-1], chunks[k])
        /\ Len(s[k]) = chunks[k] + 5
  BY <1>1, ChunksAt
<1>4. \A j \in 0..Len(chunks) : Len(F(j)) = ChunkOffset(chunks, j) /\ ChunkOffset(chunks, j) \in Nat
  BY <1>1, ChunksLength, ChunkNumbers
<1>5. b = FlattenSeq(s) \o end
  BY DEF BodyBytes, Chunks, chunks
<1> HIDE DEF s
<1>6. SubSeq(s, 1, Len(s)) = s
  BY <1>2
<1>7. b = all \o end
  BY <1>5, <1>6
<1>8. all \in Seq(Bytes)
  BY <1>2, FlattenType
<1>9. end \in Seq(Bytes) /\ Len(end) = 5 /\ IsChunk(end, m, 0, 0)
  BY ChunkBytesAt, 0 + 5 = 5
<1>10. \A k \in 1..Len(chunks) :
         /\ Len(F(k - 1)) + Len(s[k]) <= Len(all)
         /\ \A i \in 1..Len(s[k]) : all[Len(F(k - 1)) + i] = s[k][i]
  <2> TAKE k \in 1..Len(chunks)
  <2>1. k \in 1..Len(s) /\ Len(s) \in k..Len(s)
    BY <1>2
  <2> QED
    BY <1>2, <2>1, FlattenPlace
<1>11. Len(all) = ChunkOffset(chunks, Len(chunks)) /\ Len(all) \in Nat
  BY <1>2, <1>4
<1> HIDE DEF F, end, all, b
<1>12. /\ b \in Seq(Bytes) /\ Len(b) = Len(all) + Len(end)
       /\ \A i \in 1..Len(all) : b[i] = all[i]
       /\ \A i \in 1..Len(end) : b[Len(all) + i] = end[i]
  <2>1. end \in Seq(Bytes)
    BY <1>9
  <2> QED
    BY <1>7, <1>8, <2>1, ConcatPlace
<1>13. Len(b) = ChunkOffset(chunks, Len(chunks)) + 5
  BY <1>9, <1>11, <1>12
<1>14. ASSUME NEW j \in 0..Len(chunks)
       PROVE  ChunkPlaced(b, m, chunks, j)
  <2> DEFINE at == ChunkOffset(chunks, j)
             n == ChunkSize(chunks, j)
             c == [i \in 1..n + 5 |-> b[at + i]]
  <2>1. CASE j = Len(chunks)
    <3>1. n = 0 /\ at = Len(all)
      BY <1>11, <2>1 DEF ChunkSize
    <3> HIDE DEF n, at
    <3>2. \A i \in 1..n + 5 : c[i] = end[i]
      <4> TAKE i \in 1..n + 5
      <4>1. i \in 1..Len(end)
        BY <1>9, <3>1
      <4>2. b[Len(all) + i] = end[i]
        BY <1>12, <4>1
      <4>3. c[i] = b[at + i]
        OBVIOUS
      <4> QED
        BY <3>1, <4>2, <4>3
    <3>3. IsChunk(end, m, SizeBefore(chunks)[j], 0)
      BY <1>9 DEF IsChunk
    <3> HIDE DEF c
    <3>4. IsChunk(c, m, SizeBefore(chunks)[j], n)
      BY <3>1, <3>2, <3>3, SameChunk
    <3> QED
      BY <1>13, <2>1, <3>1, <3>4 DEF ChunkPlaced, c, n, at
  <2>2. CASE j # Len(chunks)
    <3>1. j + 1 \in 1..Len(chunks) /\ (j + 1) - 1 = j
      BY <1>2, <2>2
    <3>2. n = chunks[j + 1]
      BY <2>2 DEF ChunkSize
    <3>3. at = Len(F(j)) /\ at \in Nat
      BY <1>4
    <3> HIDE DEF n, at
    <3>4. /\ s[j + 1] = ChunkBytes(m, SizeBefore(chunks)[j], n) /\ Len(s[j + 1]) = n + 5
          /\ n \in Nat /\ SizeBefore(chunks)[j] \in Nat
      BY <1>3, <3>1, <3>2
    <3>5. /\ at + (n + 5) <= Len(all)
          /\ \A i \in 1..n + 5 : all[at + i] = s[j + 1][i]
      <4>1. /\ Len(F((j + 1) - 1)) + Len(s[j + 1]) <= Len(all)
            /\ \A i \in 1..Len(s[j + 1]) : all[Len(F((j + 1) - 1)) + i] = s[j + 1][i]
        BY <1>10, <3>1
      <4> QED
        BY <3>1, <3>3, <3>4, <4>1
    <3>6. \A i \in 1..n + 5 : c[i] = s[j + 1][i]
      <4> TAKE i \in 1..n + 5
      <4>1. at + i \in 1..Len(all)
        BY <1>11, <3>3, <3>4, <3>5
      <4> QED
        BY <1>12, <3>5, <4>1
    <3>7. IsChunk(s[j + 1], m, SizeBefore(chunks)[j], n)
      BY <3>4, ChunkBytesAt
    <3> HIDE DEF c
    <3>8. IsChunk(c, m, SizeBefore(chunks)[j], n)
      BY <3>4, <3>6, <3>7, SameChunk
    <3>9. at + n + 5 <= Len(b)
      <4>1. Len(b) = Len(all) + 5
        BY <1>9, <1>12
      <4>2. at + (n + 5) <= Len(all)
        BY <3>5
      <4> QED
        BY <1>11, <3>3, <3>4, <4>1, <4>2
    <3> QED
      BY <3>8, <3>9 DEF ChunkPlaced, c, n, at
  <2> QED
    BY <2>1, <2>2
<1> QED
  BY <1>1, <1>12, <1>13, <1>14 DEF b, chunks

\* A body is a sequence of bytes, a counted one as long as its content.
LEMMA BodyBytesType ==
  ASSUME NEW m \in Nat, NEW f \in Framings
  PROVE  BodyBytes(m, f) \in Seq(Bytes)
<1>1. CASE f.kind = "chunked"
  BY <1>1, ChunkedBodyAt
<1>2. CASE f.kind # "chunked"
  <2>1. f.body \in Nat
    BY DEF Framings
  <2> QED
    BY <1>2, <2>1, DataBytesAt DEF BodyBytes
<1> QED
  BY <1>1, <1>2

LEMMA CountedBodyAt ==
  ASSUME NEW m \in Nat, NEW f \in Framings, f.kind # "chunked"
  PROVE  /\ f.body \in Nat /\ Len(BodyBytes(m, f)) = f.body
         /\ \A i \in 1..f.body : BodyBytes(m, f)[i] = Byte("data", m, i)
<1>1. f.body \in Nat
  BY DEF Framings
<1>2. BodyBytes(m, f) = DataBytes(m, 0, f.body)
  BY DEF BodyBytes
<1>3. /\ Len(DataBytes(m, 0, f.body)) = f.body
      /\ \A i \in 1..f.body : DataBytes(m, 0, f.body)[i] = Byte("data", m, 0 + i)
  BY <1>1, DataBytesAt
<1> QED
  BY <1>1, <1>2, <1>3
-------------------------------------------------------------------------------
(***************************************************************************)
(* The messages of a connection                                            *)
(***************************************************************************)
\* The messages sent, one by one.
Messages(run) == [m \in 1..Len(run) |-> HeaderBytes(m) \o BodyBytes(m, run[m])]

LEMMA MessagesAt ==
  ASSUME NEW run \in Seq(Framings)
  PROVE  /\ Messages(run) \in Seq(Seq(Bytes)) /\ Len(Messages(run)) = Len(run)
         /\ \A m \in 1..Len(run) : Messages(run)[m] = HeaderBytes(m) \o BodyBytes(m, run[m])
<1> DEFINE b(m) == HeaderBytes(m) \o BodyBytes(m, run[m])
<1>1. ASSUME NEW m \in 1..Len(run)
      PROVE  b(m) \in Seq(Bytes)
  <2>1. run[m] \in Framings /\ m \in Nat
    BY ElementOfSeq
  <2> QED
    BY <2>1, HeaderBytesAt, BodyBytesType, ConcatProperties
<1>2. Messages(run) = [m \in 1..Len(run) |-> b(m)] /\ Len(run) \in Nat
  BY DEF Messages
<1> HIDE DEF b
<1>3. Messages(run) \in [1..Len(run) -> Seq(Bytes)]
  BY <1>1, <1>2
<1>4. Messages(run) \in Seq(Seq(Bytes)) /\ Len(Messages(run)) = Len(run)
  BY <1>2, <1>3
<1> QED
  BY <1>2, <1>4 DEF b

\* What the first n messages encode to is the flattened first n of them.
LEMMA EncodePrefix ==
  ASSUME NEW run \in Seq(Framings), NEW n \in 0..Len(run)
  PROVE  Encode(SubSeq(run, 1, n)) = FlattenSeq(SubSeq(Messages(run), 1, n))
<1> DEFINE b(m) == HeaderBytes(m) \o BodyBytes(m, run[m])
           some == SubSeq(run, 1, n)
           s == Messages(run)
<1>1. Len(some) = n /\ \A m \in 1..n : some[m] = run[m]
  OBVIOUS
<1>2. s \in Seq(Seq(Bytes)) /\ Len(s) = Len(run) /\ \A m \in 1..Len(run) : s[m] = b(m)
  BY MessagesAt
<1> HIDE DEF some, s
<1>3. [m \in 1..Len(some) |-> HeaderBytes(m) \o BodyBytes(m, some[m])] = [m \in 1..n |-> b(m)]
  BY <1>1
<1> HIDE DEF b
<1>4. SubSeq(s, 1, n) = [m \in 1..n |-> s[m]]
  BY <1>2
<1>5. [m \in 1..n |-> s[m]] = [m \in 1..n |-> b(m)]
  BY <1>2
<1> QED
  BY <1>3, <1>4, <1>5 DEF Encode, some, s

\* Where the messages behind the first n begin on a connection.
Offset(msgs, n) == Len(Encode(SubSeq(msgs, 1, n)))

\* The first n messages are as announced.
Good(msgs, n) == \A m \in 1..n : WellFormed(msgs[m])

\* Each message follows the one before.
LEMMA EncodeStep ==
  ASSUME NEW run \in Seq(Framings)
  PROVE  /\ Offset(run, 0) = 0 /\ Encode(SubSeq(run, 1, Len(run))) = Encode(run)
         /\ \A n \in 0..Len(run) : /\ Encode(SubSeq(run, 1, n)) \in Seq(Bytes)
                                    /\ Offset(run, n) \in Nat
<1>1. Messages(run) \in Seq(Seq(Bytes)) /\ Len(Messages(run)) = Len(run)
  BY MessagesAt
<1>2. ASSUME NEW n \in 0..Len(run)
      PROVE  Encode(SubSeq(run, 1, n)) \in Seq(Bytes)
  <2>1. n \in 0..Len(Messages(run))
    BY <1>1
  <2> QED
    BY <1>1, <2>1, EncodePrefix, FlattenType
<1>3. Encode(SubSeq(run, 1, 0)) = <<>>
  <2>1. 0 \in 0..Len(run)
    OBVIOUS
  <2> QED
    BY <1>1, <2>1, EncodePrefix, FlattenType
<1>4. SubSeq(run, 1, Len(run)) = run
  OBVIOUS
<1>5. \A n \in 0..Len(run) : Offset(run, n) \in Nat
  <2> TAKE n \in 0..Len(run)
  <2>1. Encode(SubSeq(run, 1, n)) \in Seq(Bytes)
    BY <1>2
  <2> QED
    BY <2>1, LenProperties DEF Offset
<1> QED
  BY <1>2, <1>3, <1>4, <1>5 DEF Offset

\* A message ends where the next begins, behind its header and its body.
LEMMA EncodePlace ==
  ASSUME NEW run \in Seq(Framings), NEW k \in 1..Len(run), NEW n \in k..Len(run)
  PROVE  LET at == Offset(run, k - 1)
             body == BodyBytes(k, run[k])
         IN  /\ body \in Seq(Bytes) /\ Len(body) \in Nat
             /\ Offset(run, k) = at + HdrLen + Len(body)
             /\ at \in Nat /\ Offset(run, k) \in Nat
             /\ Offset(run, k) <= Offset(run, n)
             /\ \A i \in 1..Len(body) :
                  Encode(SubSeq(run, 1, n))[at + HdrLen + i] = body[i]
<1> USE HdrLenAssumption
<1> DEFINE s == Messages(run)
           head == HeaderBytes(k)
           body == BodyBytes(k, run[k])
           F(j) == FlattenSeq(SubSeq(s, 1, j))
           E(j) == Encode(SubSeq(run, 1, j))
<1>1. /\ s \in Seq(Seq(Bytes)) /\ Len(s) = Len(run) /\ s[k] = head \o body
  BY MessagesAt
<1>2. k \in Nat /\ k - 1 \in 0..Len(run) /\ k \in 0..Len(run) /\ n \in 0..Len(run)
  OBVIOUS
<1>3. run[k] \in Framings
  BY ElementOfSeq
<1>4. head \in Seq(Bytes) /\ body \in Seq(Bytes)
  BY <1>2, <1>3, HeaderBytesAt, BodyBytesType
<1>5. Len(head) = HdrLen
  BY <1>2, HeaderBytesAt
<1> HIDE DEF head, body, s
<1>6. /\ s[k] \in Seq(Bytes) /\ Len(s[k]) = Len(head) + Len(body)
      /\ \A i \in 1..Len(body) : s[k][Len(head) + i] = body[i]
  <2>1. s[k] = head \o body
    BY <1>1
  <2>2. /\ head \o body \in Seq(Bytes) /\ Len(head \o body) = Len(head) + Len(body)
        /\ \A i \in 1..Len(body) : (head \o body)[Len(head) + i] = body[i]
    BY <1>4, ConcatPlace
  <2> QED
    BY <2>1, <2>2
<1>7. /\ Len(F(k)) = Len(F(k - 1)) + Len(s[k])
      /\ Len(F(k - 1)) + Len(s[k]) <= Len(F(n))
      /\ \A i \in 1..Len(s[k]) : F(n)[Len(F(k - 1)) + i] = s[k][i]
  <2>1. k \in 1..Len(s) /\ n \in k..Len(s)
    BY <1>1
  <2> QED
    BY <1>1, <2>1, FlattenPlace
<1>8. E(k) = F(k) /\ E(k - 1) = F(k - 1) /\ E(n) = F(n)
  BY <1>2, EncodePrefix DEF s
<1>9. /\ Offset(run, k) = Len(F(k)) /\ Offset(run, k - 1) = Len(F(k - 1))
      /\ Offset(run, n) = Len(F(n))
  BY <1>8 DEF Offset
<1>10. Offset(run, k) \in Nat /\ Offset(run, k - 1) \in Nat /\ Len(body) \in Nat
  BY <1>2, <1>4, EncodeStep
<1> HIDE DEF F
<1>11. \A i \in 1..Len(body) : F(n)[Offset(run, k - 1) + HdrLen + i] = body[i]
  <2> TAKE i \in 1..Len(body)
  <2>1. HdrLen + i \in 1..Len(s[k])
    BY <1>5, <1>6, <1>10
  <2>2. F(n)[Len(F(k - 1)) + (HdrLen + i)] = s[k][HdrLen + i]
    BY <1>7, <2>1
  <2>3. Len(F(k - 1)) + (HdrLen + i) = Offset(run, k - 1) + HdrLen + i
    <3>1. Len(F(k - 1)) = Offset(run, k - 1)
      BY <1>9
    <3> DEFINE o == Offset(run, k - 1)
    <3>2. i \in Int /\ o \in Int /\ HdrLen \in Int
      BY <1>10
    <3> HIDE DEF o
    <3>3. o + (HdrLen + i) = o + HdrLen + i
      BY <3>2
    <3> QED
      BY <3>1, <3>3 DEF o
  <2> QED
    BY <1>5, <1>6, <2>2, <2>3
<1>12. Offset(run, k) = Offset(run, k - 1) + HdrLen + Len(body)
  <2>1. Offset(run, k) = Offset(run, k - 1) + Len(s[k])
    BY <1>7, <1>9
  <2>2. Len(s[k]) = HdrLen + Len(body)
    BY <1>5, <1>6
  <2> QED
    BY <1>10, <2>1, <2>2
<1>13. Offset(run, k) <= Offset(run, n)
  BY <1>7, <1>9
<1> QED
  BY <1>4, <1>8, <1>10, <1>11, <1>12, <1>13 DEF body

-------------------------------------------------------------------------------
(***************************************************************************)
(* Where they are on a connection that carries them                        *)
(***************************************************************************)
\* A prefix looks the same as far as it reaches.
LEMMA PrefixAt ==
  ASSUME NEW S, NEW s \in Seq(S), NEW t \in Seq(S), IsPrefix(s, t)
  PROVE  Len(s) <= Len(t) /\ \A i \in 1..Len(s) : t[i] = s[i]
<1>1. Len(s) <= Len(t) /\ SubSeq(s, 1, Len(s)) = SubSeq(t, 1, Len(s))
  BY DEF IsPrefix
<1>2. ASSUME NEW i \in 1..Len(s)
      PROVE  t[i] = s[i]
  <2>1. SubSeq(s, 1, Len(s))[i] = s[i] /\ SubSeq(t, 1, Len(s))[i] = t[i]
    BY <1>1
  <2> QED
    BY <1>1, <2>1
<1> QED
  BY <1>1, <1>2

LEMMA PrefixIf ==
  ASSUME NEW S, NEW s \in Seq(S), NEW t \in Seq(S), Len(s) <= Len(t),
         \A i \in 1..Len(s) : t[i] = s[i]
  PROVE  IsPrefix(s, t)
<1>1. SubSeq(s, 1, Len(s)) = s
  OBVIOUS
<1> DEFINE u == SubSeq(t, 1, Len(s))
<1>2. u \in Seq(S) /\ Len(u) = Len(s) /\ \A i \in 1..Len(s) : u[i] = t[i]
  OBVIOUS
<1> HIDE DEF u
<1>3. u = s
  BY <1>2, SeqEqual
<1> QED
  BY <1>1, <1>3 DEF IsPrefix, u

LEMMA PrefixConcat ==
  ASSUME NEW S, NEW s \in Seq(S), NEW t \in Seq(S)
  PROVE  IsPrefix(s, s \o t)
<1> DEFINE u == s \o t
<1>1. /\ u \in Seq(S) /\ Len(u) = Len(s) + Len(t) /\ Len(s) \in Nat /\ Len(t) \in Nat
      /\ \A i \in 1..Len(s) : u[i] = s[i]
  OBVIOUS
<1> HIDE DEF u
<1>2. Len(s) <= Len(u)
  BY <1>1
<1>3. IsPrefix(s, u)
  BY <1>1, <1>2, PrefixIf
<1> QED
  BY <1>3 DEF u

\* The beginning of the content is a prefix of it.
LEMMA ContentPrefix ==
  ASSUME NEW m \in Nat, NEW b \in Nat, NEW k \in 0..b
  PROVE  IsPrefix(DataBytes(m, 0, k), DataBytes(m, 0, b))
<1> DEFINE s == DataBytes(m, 0, k)
           t == DataBytes(m, 0, b)
<1>1. /\ s \in Seq(Bytes) /\ Len(s) = k /\ \A i \in 1..k : s[i] = Byte("data", m, i)
      /\ t \in Seq(Bytes) /\ Len(t) = b /\ \A i \in 1..b : t[i] = Byte("data", m, i)
  BY ContentBytesAt
<1> HIDE DEF s, t
<1>2. Len(s) <= Len(t) /\ \A i \in 1..Len(s) : t[i] = s[i]
  BY <1>1
<1>3. IsPrefix(s, t)
  BY <1>1, <1>2, PrefixIf
<1> QED
  BY <1>3 DEF s, t

\* Behind the messages that are as announced the connection ends, or the next header
\* begins.
LEMMA HeaderOnWire ==
  ASSUME NEW bytes \in Seq(Bytes), NEW run \in Seq(Framings), NEW n \in 0..Len(run),
         Carries(bytes, run), Good(run, n)
  PROVE  /\ Offset(run, n) \in Nat /\ Offset(run, n) <= Len(bytes)
         /\ \A i \in 1..Offset(run, n) : bytes[i] = Encode(SubSeq(run, 1, n))[i]
         /\ n = Len(run) => Len(bytes) = Offset(run, n) /\ bytes = Encode(run)
         /\ n < Len(run) =>
              /\ Offset(run, n) + HdrLen <= Len(bytes)
              /\ \A i \in 1..HdrLen : bytes[Offset(run, n) + i] = Byte("head", n + 1, i)
<1> USE HdrLenAssumption
<1> DEFINE e == Encode(SubSeq(run, 1, n))
           h == HeaderBytes(n + 1)
<1>1. e \in Seq(Bytes) /\ Len(e) = Offset(run, n) /\ Offset(run, n) \in Nat
  BY EncodeStep DEF Offset
<1>2. IF n = Len(run) THEN bytes = Encode(run) ELSE IsPrefix(e \o h, bytes)
  BY DEF Carries, Good
<1>3. h \in Seq(Bytes) /\ Len(h) = HdrLen /\ \A i \in 1..HdrLen : h[i] = Byte("head", n + 1, i)
  BY HeaderBytesAt
<1>4. CASE n = Len(run)
  <2>1. bytes = Encode(run) /\ bytes = e
    BY <1>2, <1>4, EncodeStep
  <2> QED
    BY <1>1, <1>4, <2>1
<1>5. CASE n # Len(run)
  <2> DEFINE c == e \o h
  <2> HIDE DEF e, h
  <2>1. /\ c \in Seq(Bytes) /\ Len(c) = Len(e) + Len(h)
        /\ \A i \in 1..Len(e) : c[i] = e[i]
        /\ \A i \in 1..Len(h) : c[Len(e) + i] = h[i]
    <3>1. e \in Seq(Bytes) /\ h \in Seq(Bytes)
      BY <1>1, <1>3
    <3> QED
      BY <3>1, ConcatPlace
  <2>2. IsPrefix(c, bytes)
    BY <1>2, <1>5
  <2> HIDE DEF c
  <2>3. Len(c) <= Len(bytes) /\ \A i \in 1..Len(c) : bytes[i] = c[i]
    BY <2>1, <2>2, PrefixAt
  <2>4. Len(e) = Offset(run, n) /\ Len(h) = HdrLen /\ Len(c) = Offset(run, n) + HdrLen
    BY <1>1, <1>3, <2>1
  <2>5. \A i \in 1..Offset(run, n) : bytes[i] = e[i]
    <3> TAKE i \in 1..Offset(run, n)
    <3>1. i \in 1..Len(c) /\ i \in 1..Len(e)
      BY <1>1, <2>4
    <3> QED
      BY <2>1, <2>3, <3>1
  <2>6. \A i \in 1..HdrLen : bytes[Offset(run, n) + i] = h[i]
    <3> TAKE i \in 1..HdrLen
    <3>1. Offset(run, n) + i \in 1..Len(c) /\ i \in 1..Len(h)
      BY <1>1, <2>4
    <3>2. c[Len(e) + i] = h[i]
      BY <2>1, <3>1
    <3>3. c[Offset(run, n) + i] = h[i]
      BY <2>4, <3>2
    <3> QED
      BY <2>3, <3>1, <3>3
  <2>7. Offset(run, n) + HdrLen <= Len(bytes)
    BY <2>3, <2>4
  <2>8. Offset(run, n) <= Len(bytes)
    BY <1>1, <2>3, <2>4
  <2>9. \A i \in 1..HdrLen : bytes[Offset(run, n) + i] = Byte("head", n + 1, i)
    BY <1>3, <2>6
  <2> QED
    BY <1>1, <1>5, <2>5, <2>7, <2>8, <2>9 DEF e
<1> QED
  BY <1>4, <1>5

\* Behind a header is its body, and behind that the next message begins.
LEMMA BodyOnWire ==
  ASSUME NEW bytes \in Seq(Bytes), NEW run \in Seq(Framings), NEW n \in 1..Len(run),
         Carries(bytes, run), Good(run, n)
  PROVE  LET at == Offset(run, n - 1) + HdrLen
             body == BodyBytes(n, run[n])
         IN  /\ Offset(run, n - 1) \in Nat /\ Offset(run, n) \in Nat
             /\ Len(body) \in Nat /\ Offset(run, n) = at + Len(body)
             /\ Offset(run, n) <= Len(bytes)
             /\ \A i \in 1..Len(body) : bytes[at + i] = body[i]
<1> USE HdrLenAssumption
<1> DEFINE at == Offset(run, n - 1) + HdrLen
           body == BodyBytes(n, run[n])
<1>1. n \in 0..Len(run) /\ n \in n..Len(run)
  OBVIOUS
<1>2. /\ Offset(run, n) \in Nat /\ Offset(run, n) <= Len(bytes)
      /\ \A i \in 1..Offset(run, n) : bytes[i] = Encode(SubSeq(run, 1, n))[i]
  BY <1>1, HeaderOnWire
<1>3. /\ Offset(run, n - 1) \in Nat /\ Len(body) \in Nat /\ Offset(run, n) = at + Len(body)
  BY <1>1, EncodePlace
<1>4. \A i \in 1..Len(body) : Encode(SubSeq(run, 1, n))[at + i] = body[i]
  BY <1>1, EncodePlace
<1> HIDE DEF body
<1>5. \A i \in 1..Len(body) : bytes[at + i] = body[i]
  <2> TAKE i \in 1..Len(body)
  <2>1. at + i \in 1..Offset(run, n)
    BY <1>3
  <2> QED
    BY <1>2, <1>4, <2>1
<1> QED
  BY <1>2, <1>3, <1>5 DEF body

\* A counted body on a connection.
LEMMA CountedOnWire ==
  ASSUME NEW bytes \in Seq(Bytes), NEW run \in Seq(Framings), NEW n \in 1..Len(run),
         Carries(bytes, run), Good(run, n), run[n].kind # "chunked"
  PROVE  LET at == Offset(run, n - 1) + HdrLen
         IN  /\ run[n].body \in Nat /\ Offset(run, n) = at + run[n].body
             /\ \A i \in 1..run[n].body : bytes[at + i] = Byte("data", n, i)
<1> DEFINE at == Offset(run, n - 1) + HdrLen
           body == BodyBytes(n, run[n])
<1>1. run[n] \in Framings /\ n \in Nat
  BY ElementOfSeq
<1>2. /\ run[n].body \in Nat /\ Len(body) = run[n].body
      /\ \A i \in 1..run[n].body : body[i] = Byte("data", n, i)
  BY <1>1, CountedBodyAt
<1>3. Offset(run, n) = at + Len(body) /\ \A i \in 1..Len(body) : bytes[at + i] = body[i]
  BY BodyOnWire
<1> HIDE DEF body, at
<1>4. \A i \in 1..run[n].body : bytes[at + i] = Byte("data", n, i)
  BY <1>2, <1>3
<1> QED
  BY <1>2, <1>3, <1>4 DEF at

\* A chunk on a connection.
LEMMA ChunkOnWire ==
  ASSUME NEW bytes \in Seq(Bytes), NEW run \in Seq(Framings), NEW n \in 1..Len(run),
         NEW j \in 0..Len(run[n].chunks),
         Carries(bytes, run), Good(run, n), run[n].kind = "chunked"
  PROVE  LET chunks == run[n].chunks
             at == Offset(run, n - 1) + HdrLen + ChunkOffset(chunks, j)
             k == ChunkSize(chunks, j)
         IN  /\ chunks \in Seq(Nat \ {0})
             /\ at + k + 5 <= Offset(run, n)
             /\ j = Len(chunks) => at + k + 5 = Offset(run, n)
             /\ IsChunk([i \in 1..k + 5 |-> bytes[at + i]], n, SizeBefore(chunks)[j], k)
<1> USE HdrLenAssumption
<1> DEFINE chunks == run[n].chunks
           o == ChunkOffset(chunks, j)
           p == Offset(run, n - 1) + HdrLen
           k == ChunkSize(chunks, j)
           body == BodyBytes(n, run[n])
           s == [i \in 1..k + 5 |-> bytes[p + o + i]]
           t == [i \in 1..k + 5 |-> body[o + i]]
<1>1. run[n] \in Framings /\ n \in Nat
  BY ElementOfSeq
<1>2. /\ chunks \in Seq(Nat \ {0}) /\ Len(body) = ChunkOffset(chunks, Len(chunks)) + 5
      /\ ChunkPlaced(body, n, chunks, j)
  BY <1>1, ChunkedBodyAt
<1>3. o + k + 5 <= Len(body) /\ IsChunk(t, n, SizeBefore(chunks)[j], k)
  BY <1>2 DEF ChunkPlaced
<1>4. o \in Nat /\ k \in Nat /\ (j = Len(chunks) => k = 0)
  BY <1>2, ChunkNumbers
<1>5. /\ p \in Nat /\ Len(body) \in Nat /\ Offset(run, n) = p + Len(body)
      /\ \A i \in 1..Len(body) : bytes[p + i] = body[i]
  <2>1. /\ Offset(run, n - 1) \in Nat /\ Len(body) \in Nat /\ Offset(run, n) = p + Len(body)
        /\ \A i \in 1..Len(body) : bytes[p + i] = body[i]
    BY BodyOnWire
  <2> HIDE DEF body
  <2> QED
    BY <2>1
<1>6. j = Len(chunks) => o + k + 5 = Len(body)
  BY <1>2, <1>4
<1> HIDE DEF body, p, o, k, chunks
<1>7. \A i \in 1..k + 5 : s[i] = t[i]
  <2> TAKE i \in 1..k + 5
  <2>1. o + i \in 1..Len(body) /\ p + (o + i) = p + o + i
    BY <1>3, <1>4, <1>5
  <2> QED
    BY <1>5, <2>1
<1> HIDE DEF s, t
<1>8. IsChunk(s, n, SizeBefore(chunks)[j], k)
  BY <1>3, <1>4, <1>7, SameChunk
<1>9. p + o + k + 5 <= Offset(run, n) /\ (j = Len(chunks) => p + o + k + 5 = Offset(run, n))
  <2>1. o + k + 5 <= Len(body) /\ Offset(run, n) = p + Len(body)
    BY <1>3, <1>5
  <2>2. p \in Nat /\ Len(body) \in Nat
    BY <1>5
  <2> QED
    BY <1>4, <1>6, <2>1, <2>2
<1> QED
  BY <1>2, <1>8, <1>9 DEF s, p, o, k, chunks

-------------------------------------------------------------------------------
(***************************************************************************)
(* The parser's invariants                                                 *)
(***************************************************************************)
\* The content of a message that is not streamed ends within what will be consumed,
\* and does not begin behind its end if its size did not wrap.
ContentInside ==
  ~Streaming =>
    /\ state = "BODY" /\ fits => content_begin <= size
    /\ state = "FINAL" \/ pc = "DONE" =>
         content_end <= size /\ (fits => content_begin <= content_end)

Bounds == BufferBounds /\ NoOverrun /\ ContentInside

IInv == TypeOK /\ Bounds

\* Bytes on the wire of a connection are bytes.
LEMMA WireBytesAreBytes ==
  ASSUME TypeOK
  PROVE  WireBytes \subseteq Bytes
<1>1. DOMAIN sent \subseteq Nat
  BY DEF TypeOK
<1> QED
  BY <1>1 DEF WireBytes, Bytes

\* reactor_stream_data_consume leaves a suffix of the input.
LEMMA ConsumeType ==
  ASSUME TypeOK, NEW k \in Nat, k <= Len(data), Consume(k)
  PROVE  /\ data' \in Seq(WireBytes) /\ Len(data') = Len(data) - k
         /\ data_base' \in Nat
<1>1. data \in Seq(WireBytes) /\ Len(data) \in Nat /\ data_base \in Nat
  BY DEF TypeOK
<1>2. \A i \in k + 1 .. Len(data) : data[i] \in WireBytes
  BY <1>1, ElementOfSeq
<1>3. data' = SubSeq(data, k + 1, Len(data)) /\ data_base' = data_base + k
  BY DEF Consume
<1> QED
  BY <1>1, <1>2, <1>3, SubSeqProperties

\* A part of the input, as a callback is shown it.
LEMMA PartOfInput ==
  ASSUME TypeOK, NEW i \in Nat, NEW j \in Nat, i >= 1, j <= Len(data)
  PROVE  SubSeq(data, i, j) \in Seq(Bytes)
<1>1. data \in Seq(WireBytes) /\ Len(data) \in Nat
  BY DEF TypeOK
<1>2. \A n \in i .. j : data[n] \in Bytes
  BY <1>1, ElementOfSeq, WireBytesAreBytes
<1> QED
  BY <1>2, SubSeqProperties

\* The header parser answers a length only for input that begins with a header
\* and contains it.
LEMMA HeaderParsed ==
  ASSUME TypeOK, HdrLen \in ParseResults
  PROVE  data # <<>> /\ HdrLen <= Len(data) /\ data[1].m \in DOMAIN sent
<1>1. HdrLen \in Nat \ {0}
  BY HdrLenAssumption
<1>2. data # <<>> /\ HdrLen <= Len(data)
  BY <1>1 DEF ParseResults
<1>3. data \in Seq(WireBytes) /\ Len(data) \in Nat
  BY DEF TypeOK
<1>4. data[1] \in WireBytes
  BY <1>1, <1>2, <1>3, ElementOfSeq
<1> QED
  BY <1>2, <1>4 DEF WireBytes

\* The lookups find a framing whose announcement is a size_t.
LEMMA FoundFramingsType ==
  ASSUME TypeOK, NEW flds \in Seq(DOMAIN sent), NEW f \in FoundFramings(flds)
  PROVE  f.announced \in 0..SizeMod-1
<1>1. CASE Len(flds) = 1
  <2>1. f = sent[flds[1]]
    BY <1>1 DEF FoundFramings
  <2>2. 1 \in DOMAIN flds
    BY <1>1
  <2>3. flds[1] \in DOMAIN sent
    BY <2>2, ElementOfSeq
  <2>4. sent[flds[1]] \in Framings
    BY <2>3, ElementOfSeq DEF TypeOK
  <2> QED
    BY <2>1, <2>4 DEF Framings
<1>2. CASE Len(flds) # 1
  BY <1>2 DEF FoundFramings
<1> QED
  BY <1>1, <1>2
-------------------------------------------------------------------------------
\* The half of the header handlers that finds out about the body.
LEMMA SelectBodyType ==
  ASSUME TypeOK, NEW n \in Nat, NEW flds \in Seq(DOMAIN sent), SelectBody(n, flds)
  PROVE  /\ state' \in {"BODY", "CHUNKED_BODY"} /\ pc' = "run"
         /\ size' \in Nat /\ chunk_begin' \in Nat /\ fits' \in BOOLEAN
         /\ content_begin' = n /\ content_end' = n
<1> USE SizeModAssumption
<1>1. PICK f \in FoundFramings(flds) :
        \/ chunk_begin' = n /\ state' = "CHUNKED_BODY" /\ size' = size
        \/ /\ size' = Wrap(n + f.announced) /\ state' = "BODY"
           /\ chunk_begin' = chunk_begin
  BY DEF SelectBody
<1>2. f.announced \in Nat
  BY FoundFramingsType
<1>3. Wrap(n + f.announced) \in Nat
  BY <1>2 DEF Wrap
<1>4. size \in Nat /\ chunk_begin \in Nat
  BY DEF TypeOK
<1>5. content_begin' = n /\ content_end' = n /\ pc' = "run"
  BY DEF SelectBody
<1>6. fits' \in BOOLEAN
  BY DEF SelectBody, TypeOK
<1> QED
  BY <1>1, <1>3, <1>4, <1>5, <1>6

\* Where the chunked coding is read: the line found lies in the input, and the
\* size read from it is a number.
LEMMA ChunkLineType ==
  ASSUME TypeOK, NEW eol \in LineEnds(chunk_begin), NEW n \in ChunkSizes(data[chunk_begin + 1])
  PROVE  /\ eol \in Nat /\ n \in Nat
         /\ chunk_begin + 1 <= eol /\ eol + 1 <= Len(data)
<1>1. data \in Seq(WireBytes) /\ Len(data) \in Nat /\ chunk_begin \in Nat
  BY DEF TypeOK
<1>2. eol \in Nat /\ chunk_begin + 1 <= eol /\ eol + 1 <= Len(data)
  BY <1>1 DEF LineEnds
<1>3. data[chunk_begin + 1] \in WireBytes
  BY <1>1, <1>2, ElementOfSeq
<1>4. n \in Nat
  BY <1>1, <1>3, HdrLenAssumption, SizeModAssumption DEF ChunkSizes, WireBytes
<1> QED
  BY <1>2, <1>4

\* memmove keeps the input what it is, a sequence of bytes of the same length.
LEMMA MovedType ==
  ASSUME TypeOK, NEW to \in Nat, NEW from \in Nat, NEW n \in Nat,
         to <= from, from + n <= Len(data)
  PROVE  Moved(to, from, n) \in Seq(WireBytes) /\ Len(Moved(to, from, n)) = Len(data)
<1> DEFINE m == Moved(to, from, n)
<1>1. data \in Seq(WireBytes) /\ Len(data) \in Nat
  BY DEF TypeOK
<1>2. \A i \in 1..Len(data) : m[i] \in WireBytes
  <2> TAKE i \in 1..Len(data)
  <2>1. CASE i \in to+1 .. to+n
    <3>1. i - to + from \in 1..Len(data)
      BY <1>1, <2>1
    <3> QED
      BY <1>1, <2>1, <3>1, ElementOfSeq DEF Moved
  <2>2. CASE i \notin to+1 .. to+n
    BY <1>1, <2>2, ElementOfSeq DEF Moved
  <2> QED
    BY <2>1, <2>2
<1>3. m \in [1..Len(data) -> WireBytes]
  BY <1>2 DEF Moved
<1> QED
  BY <1>1, <1>3
-------------------------------------------------------------------------------
(***************************************************************************)
(* Types, action by action                                                 *)
(***************************************************************************)
\* The owner's calls, and the ends of its error callbacks.
LEMMA OwnerType ==
  ASSUME TypeOK, Owner \/ ErrorReturns \/ Ignore
  PROVE  TypeOK'
<1>1. CASE Close
  BY <1>1 DEF TypeOK, Close, messageVars, streamVars, controlVars, historyVars, States, WireBytes
<1>2. CASE ClearFields
  BY <1>2 DEF TypeOK, ClearFields, parserVars, streamVars, controlVars, historyVars, WireBytes
<1>3. CASE Error
  BY <1>3 DEF TypeOK, Error, parserVars, messageVars, streamVars, historyVars, Controls, Callbacks, WireBytes
<1>4. CASE ErrorReturns
  BY <1>4 DEF TypeOK, ErrorReturns, messageVars, streamVars, historyVars, States, Controls, WireBytes
<1>5. CASE Ignore
  BY <1>5 DEF TypeOK, Ignore, parserVars, messageVars, streamVars, historyVars, Controls, WireBytes
<1>6. ASSUME NEW fl \in OpenFlags, NEW t \in Traffic, Open(fl, t)
      PROVE  TypeOK'
  <2>1. t.sent \in Seq(Framings) /\ t.bytes \in Seq(Bytes)
    BY TrafficAssumption
  <2>2. t.bytes \in Seq(WireBytes')
    <3>1. \A i \in 1..Len(t.bytes) : t.bytes[i] \in WireBytes'
      <4> TAKE i \in 1..Len(t.bytes)
      <4>1. t.bytes[i] \in Bytes
        BY <2>1, ElementOfSeq
      <4>2. t.bytes[i].m \in DOMAIN sent'
        BY <2>1, <1>6, SmallTrafficAssumption DEF Open
      <4> QED
        BY <4>1, <4>2 DEF Bytes, WireBytes
    <3> QED
      BY <2>1, <3>1
  <2> QED
    BY <1>6, <2>1, <2>2, MaxOpensAssumption
       DEF TypeOK, Open, controlVars, States
<1> QED
  BY <1>1, <1>2, <1>3, <1>4, <1>5, <1>6 DEF Owner

\* The stream's event.
LEMMA StreamType ==
  ASSUME TypeOK, NEW k \in 1..Len(inflight), NEW b \in Bases, Data(k, b)
  PROVE  TypeOK' /\ Len(data') \in Nat /\ Len(data) <= Len(data')
<1>1. /\ data \in Seq(WireBytes) /\ Len(data) \in Nat
      /\ inflight \in Seq(WireBytes) /\ Len(inflight) \in Nat
  BY DEF TypeOK
<1>2. \A i \in 1..Len(inflight) : inflight[i] \in WireBytes
  BY <1>1, ElementOfSeq
<1>3. SubSeq(inflight, 1, k) \in Seq(WireBytes)
  BY <1>1, <1>2, SubSeqProperties
<1>4. SubSeq(inflight, k + 1, Len(inflight)) \in Seq(WireBytes)
  BY <1>1, <1>2, SubSeqProperties
<1>5. /\ data \o SubSeq(inflight, 1, k) \in Seq(WireBytes)
      /\ Len(data \o SubSeq(inflight, 1, k)) \in Nat
      /\ Len(data) <= Len(data \o SubSeq(inflight, 1, k))
  BY <1>1, <1>3, ConcatProperties
<1>6. b \in Nat
  BY BasesAssumption
<1> QED
  BY <1>4, <1>5, <1>6
     DEF TypeOK, Data, parserVars, messageVars, historyVars, Controls, WireBytes

\* A header handler that gets no header.
LEMMA HeaderFailsType ==
  ASSUME TypeOK, HeaderFails, base' = data_base, flags' = flags
  PROVE  TypeOK'
BY DEF TypeOK, HeaderFails, messageVars, streamVars, historyVars, Controls, Callbacks, WireBytes

\* The header's fields join the vector.
LEMMA AddFieldsType ==
  ASSUME TypeOK, NEW m \in DOMAIN sent, AddFields(m)
  PROVE  /\ fields' \in Seq(DOMAIN sent) /\ line' \in Int
         /\ cur' \in {0} \cup DOMAIN sent /\ content' \in Seq(Bytes)
BY DEF TypeOK, AddFields

\* reactor_http_parser_request_header.
LEMMA RequestHeaderType ==
  ASSUME TypeOK, RequestHeader
  PROVE  TypeOK'
<1> USE HdrLenAssumption
<1>1. base' = data_base /\ flags' = flags
  BY DEF RequestHeader
<1>2. CASE HeaderFails
  BY <1>1, <1>2, HeaderFailsType
<1>3. CASE /\ HdrLen \in ParseResults
           /\ AddFields(data[1].m)
           /\ SelectBody(HdrLen, fields')
           /\ UNCHANGED <<streamVars, take, last, sent, delivered, sound, fresh, opens>>
  <2>1. /\ fields' \in Seq(DOMAIN sent) /\ line' \in Int
        /\ cur' \in {0} \cup DOMAIN sent /\ content' \in Seq(Bytes)
    BY <1>3, HeaderParsed, AddFieldsType
  <2>2. /\ state' \in {"BODY", "CHUNKED_BODY"} /\ pc' = "run"
        /\ size' \in Nat /\ chunk_begin' \in Nat /\ fits' \in BOOLEAN
        /\ content_begin' = HdrLen /\ content_end' = HdrLen
    BY <1>3, <2>1, SelectBodyType
  <2> QED
    BY <1>1, <1>3, <2>1, <2>2 DEF TypeOK, streamVars, States, Controls, WireBytes
<1> QED
  BY <1>2, <1>3 DEF RequestHeader

\* reactor_http_parser_response_header, up to its HEADER event if it streams.
LEMMA ResponseHeaderType ==
  ASSUME TypeOK, ResponseHeader
  PROVE  TypeOK'
<1> USE HdrLenAssumption
<1>1. base' = data_base /\ flags' = flags
  BY DEF ResponseHeader
<1>2. CASE HeaderFails
  BY <1>1, <1>2, HeaderFailsType
<1>3. CASE /\ HdrLen \in ParseResults
           /\ AddFields(data[1].m)
           /\ IF Streaming
              THEN /\ pc' = "HEADER" /\ take' = HdrLen
                   /\ UNCHANGED <<state, size, content_begin, content_end, chunk_begin, fits>>
              ELSE SelectBody(HdrLen, fields') /\ UNCHANGED take
           /\ UNCHANGED <<streamVars, last, sent, delivered, sound, fresh, opens>>
  <2>1. /\ fields' \in Seq(DOMAIN sent) /\ line' \in Int
        /\ cur' \in {0} \cup DOMAIN sent /\ content' \in Seq(Bytes)
    BY <1>3, HeaderParsed, AddFieldsType
  <2>2. CASE Streaming
    BY <1>1, <1>3, <2>1, <2>2 DEF TypeOK, streamVars, Controls, Callbacks, WireBytes
  <2>3. CASE ~Streaming
    <3>1. /\ state' \in {"BODY", "CHUNKED_BODY"} /\ pc' = "run"
          /\ size' \in Nat /\ chunk_begin' \in Nat /\ fits' \in BOOLEAN
          /\ content_begin' = HdrLen /\ content_end' = HdrLen
      BY <1>3, <2>1, <2>3, SelectBodyType
    <3> QED
      BY <1>1, <1>3, <2>1, <2>3, <3>1 DEF TypeOK, streamVars, States, Controls, WireBytes
  <2> QED
    BY <2>2, <2>3
<1> QED
  BY <1>2, <1>3 DEF ResponseHeader

\* Behind the HEADER event.
LEMMA HeaderReturnsType ==
  ASSUME TypeOK, TakeInBuffer, HeaderReturns
  PROVE  TypeOK'
<1>1. data' \in Seq(WireBytes) /\ data_base' \in Nat
  BY ConsumeType DEF HeaderReturns, TakeInBuffer, TypeOK
<1>2. /\ state' \in {"BODY", "CHUNKED_BODY"} /\ pc' = "run"
      /\ size' \in Nat /\ chunk_begin' \in Nat /\ fits' \in BOOLEAN
      /\ content_begin' = 0 /\ content_end' = 0
  <2>1. SelectBody(0, fields) /\ fields \in Seq(DOMAIN sent)
    BY DEF HeaderReturns, TypeOK
  <2> QED
    BY <2>1, SelectBodyType
<1> QED
  BY <1>1, <1>2
     DEF TypeOK, HeaderReturns, messageVars, historyVars, States, Controls, WireBytes

\* How a body ends, when sz is what is missing of it.
LEMMA BodyEndsType ==
  ASSUME TypeOK, NEW sz \in Nat, NEW avail \in Nat, BodyEnds(sz, avail)
  PROVE  /\ size' = sz
         /\ \/ pc' = "idle" /\ state' = state /\ content_end' = content_end
            \/ pc' = "run" /\ state' = "FINAL" /\ content_end' = sz /\ sz <= avail
BY DEF BodyEnds

\* reactor_http_parser_body, up to its dispatch.
LEMMA BodyType ==
  ASSUME TypeOK, Body
  PROVE  TypeOK'
<1>1. data \in Seq(WireBytes) /\ Len(data) \in Nat /\ size \in Nat
  BY DEF TypeOK
<1>2. CASE data # <<>> /\ Streaming
  <2>1. /\ pc' = "BODY_CHUNK" /\ take' = Min2(size, Len(data))
        /\ content' = content \o SubSeq(data, 1, take')
        /\ UNCHANGED <<state, size, content_end>>
    BY <1>2 DEF Body
  <2>2. take' \in Nat /\ take' <= Len(data)
    BY <1>1, <2>1 DEF Min2
  <2>3. SubSeq(data, 1, take') \in Seq(Bytes)
    BY <2>2, PartOfInput
  <2>4. content' \in Seq(Bytes)
    BY <2>1, <2>3, ConcatProperties DEF TypeOK
  <2> QED
    BY <2>1, <2>2, <2>4
       DEF TypeOK, Body, messageVars, streamVars, Controls, Callbacks, WireBytes
<1>3. CASE ~(data # <<>> /\ Streaming)
  <2>1. BodyEnds(size, Len(data)) /\ UNCHANGED <<take, content>>
    BY <1>3 DEF Body
  <2>2. /\ size' = size
        /\ \/ pc' = "idle" /\ state' = state /\ content_end' = content_end
           \/ pc' = "run" /\ state' = "FINAL" /\ content_end' = size
    BY <1>1, <2>1, BodyEndsType
  <2> QED
    BY <2>1, <2>2
       DEF TypeOK, Body, messageVars, streamVars, States, Controls, WireBytes
<1> QED
  BY <1>2, <1>3

\* Behind the dispatch of reactor_http_parser_body: the size that is left is a
\* number because no more was taken than that.
LEMMA BodyChunkReturnsType ==
  ASSUME TypeOK, TakeInBuffer, BodyChunkReturns
  PROVE  TypeOK'
<1>1. /\ take \in Nat /\ size \in Nat /\ Len(data) \in Nat
      /\ take <= Len(data) /\ take <= size
  BY DEF TypeOK, TakeInBuffer, BodyChunkReturns, Min2
<1>2. data' \in Seq(WireBytes) /\ data_base' \in Nat
  BY <1>1, ConsumeType DEF BodyChunkReturns
<1>3. /\ size' = size - take
      /\ \/ pc' = "idle" /\ state' = state /\ content_end' = content_end
         \/ pc' = "run" /\ state' = "FINAL" /\ content_end' = size - take
  BY <1>1, BodyEndsType DEF BodyChunkReturns
<1> QED
  BY <1>1, <1>2, <1>3
     DEF TypeOK, BodyChunkReturns, messageVars, historyVars, States, Controls, WireBytes

\* A complete chunk of n bytes that starts at the offset start.
LEMMA TakeChunkType ==
  ASSUME TypeOK, ChunksInBuffer, state = "CHUNKED_BODY",
         NEW start \in Nat, NEW n \in Nat, chunk_begin <= start,
         start + n + 2 <= Len(data), TakeChunk(start, n), pc = "run"
  PROVE  /\ last' \in BOOLEAN /\ pc' \in {"run", "CHUNK"} /\ take' \in Nat
         /\ content' \in Seq(Bytes) /\ state' \in {"CHUNKED_BODY", "FINAL"}
         /\ size' \in Nat /\ content_end' \in Nat /\ chunk_begin' \in Nat
         /\ data' \in Seq(WireBytes) /\ Len(data') = Len(data)
<1>1. /\ data \in Seq(WireBytes) /\ Len(data) \in Nat
      /\ take \in Nat /\ size \in Nat /\ content \in Seq(Bytes)
      /\ content_begin \in Nat /\ content_end \in Nat /\ chunk_begin \in Nat
  BY DEF TypeOK
<1>2. last' \in BOOLEAN
  BY DEF TakeChunk
<1>3. CASE Streaming
  <2>1. SubSeq(data, start + 1, start + n) \in Seq(Bytes)
    BY <1>1, PartOfInput
  <2>2. content' \in Seq(Bytes)
    <3>1. content' = content \o SubSeq(data, start + 1, start + n)
      BY <1>3 DEF TakeChunk
    <3> QED
      BY <1>1, <2>1, <3>1
  <2> QED
    BY <1>1, <1>2, <1>3, <2>2 DEF TakeChunk
<1>4. CASE ~Streaming
  <2>1. content_end <= start /\ start + n <= Len(data)
    BY <1>1, <1>4 DEF ChunksInBuffer
  <2>2. Moved(content_end, start, n) \in Seq(WireBytes) /\ Len(Moved(content_end, start, n)) = Len(data)
    BY <1>1, <2>1, MovedType
  <2> QED
    BY <1>1, <1>2, <1>4, <2>2 DEF TakeChunk
<1> QED
  BY <1>3, <1>4

\* reactor_http_parser_chunked_body, up to its dispatch.
LEMMA ChunkedBodyType ==
  ASSUME TypeOK, ChunksInBuffer, ChunkedBody
  PROVE  TypeOK'
<1>1. /\ pc = "run" /\ state = "CHUNKED_BODY"
      /\ UNCHANGED <<flags, base, content_begin, messageVars, data_base, inflight,
                     sent, cur, delivered, sound, fits, fresh, opens>>
  BY DEF ChunkedBody
<1>2. CASE /\ pc' \in {"idle", "corrupt"}
           /\ UNCHANGED <<state, size, content_end, chunk_begin, data, take, last, content>>
  BY <1>1, <1>2 DEF TypeOK, messageVars, Controls, WireBytes
<1>3. ASSUME NEW eol \in LineEnds(chunk_begin),
             NEW n \in ChunkSizes(data[chunk_begin + 1]),
             ChunkFits(n, Len(data) - (eol + 1)), n + 2 < SizeMod, TakeChunk(eol + 1, n)
      PROVE  TypeOK'
  <2>1. /\ eol + 1 \in Nat /\ n \in Nat /\ chunk_begin <= eol + 1
        /\ (eol + 1) + n + 2 <= Len(data)
    <3>1. /\ eol \in Nat /\ n \in Nat /\ chunk_begin + 1 <= eol
          /\ Len(data) \in Nat /\ chunk_begin \in Nat
      BY ChunkLineType DEF TypeOK
    <3>2. Wrap(n + 2) = n + 2
      BY <1>3, <3>1, SizeModAssumption DEF Wrap
    <3>3. n + 2 <= Len(data) - (eol + 1)
      BY <1>3, <3>2 DEF ChunkFits
    <3> QED
      BY <3>1, <3>3
  <2>2. /\ last' \in BOOLEAN /\ pc' \in {"run", "CHUNK"} /\ take' \in Nat
        /\ content' \in Seq(Bytes) /\ state' \in {"CHUNKED_BODY", "FINAL"}
        /\ size' \in Nat /\ content_end' \in Nat /\ chunk_begin' \in Nat
        /\ data' \in Seq(WireBytes)
    BY <1>1, <1>3, <2>1, TakeChunkType
  <2> QED
    BY <1>1, <2>2 DEF TypeOK, messageVars, States, Controls, Callbacks, WireBytes
<1> QED
  BY <1>2, <1>3 DEF ChunkedBody

\* Behind the dispatch of reactor_http_parser_chunked_body.
LEMMA ChunkReturnsType ==
  ASSUME TypeOK, TakeInBuffer, ChunkReturns
  PROVE  TypeOK'
<1>1. data' \in Seq(WireBytes) /\ data_base' \in Nat
  BY ConsumeType DEF ChunkReturns, TakeInBuffer, TypeOK
<1> QED
  BY <1>1
     DEF TypeOK, ChunkReturns, messageVars, historyVars, States, Controls, WireBytes

\* reactor_http_parser_final, up to the DONE event.
LEMMA FinalType ==
  ASSUME TypeOK, ContentInside, NoOverrun, Final
  PROVE  TypeOK'
<1>1. FinalLine \in Int
  BY DEF TypeOK, FinalLine
<1>2. content' \in Seq(Bytes)
  <2>1. CASE ~Streaming
    <3>1. /\ content_begin + 1 \in Nat /\ content_begin + 1 >= 1
          /\ content_end \in Nat /\ content_end <= Len(data)
      BY <2>1 DEF TypeOK, NoOverrun, SizeIsOwn, ContentInside, Final
    <3>2. FinalContent \in Seq(Bytes)
      BY <3>1, PartOfInput DEF FinalContent, Shown
    <3> QED
      BY <2>1, <3>2 DEF Final
  <2> QED
    BY <2>1 DEF TypeOK, Final
<1>3. [m |-> cur, content |-> content'] \in [m : Nat, content : Seq(Bytes)]
  BY <1>2 DEF TypeOK
<1>4. delivered' \in Seq([m : Nat, content : Seq(Bytes)])
  BY <1>3 DEF Final, TypeOK
<1> QED
  BY <1>1, <1>2, <1>4
     DEF TypeOK, Final, parserVars, streamVars, Controls, Callbacks, WireBytes

\* Behind the DONE event.
LEMMA FinalReturnsType ==
  ASSUME TypeOK, FinalReturns
  PROVE  TypeOK'
<1>1. data' \in Seq(WireBytes) /\ data_base' \in Nat
  BY ConsumeType DEF FinalReturns, TypeOK
<1>2. sound' \in BOOLEAN
  BY DEF FinalReturns
<1> QED
  BY <1>1, <1>2
     DEF TypeOK, FinalReturns, messageVars, States, Controls, WireBytes
-------------------------------------------------------------------------------
(***************************************************************************)
(* Bounds, action by action                                                *)
(***************************************************************************)
\* A streaming parser reads responses.
LEMMA StreamsResponses ==
  ASSUME TypeOK, Streaming
  PROVE  "RESPONSE" \in flags
<1>1. flags \in {{}, {"RESPONSE"}, {"RESPONSE", "STREAM"}}
  BY OpenFlagsAssumption DEF TypeOK
<1>2. flags = {"RESPONSE", "STREAM"}
  BY <1>1 DEF Streaming
<1> QED
  BY <1>2

\* The owner's calls, and the ends of its error callbacks.
LEMMA OwnerBounds ==
  ASSUME IInv, Owner \/ ErrorReturns \/ Ignore
  PROVE  Bounds'
<1> USE DEF IInv, Bounds, BufferBounds, CallMatchesState, TakeInBuffer, ChunksInBuffer,
            NothingPending, NoOverrun, ContentInside, SizeIsOwn, Streaming, Min2
<1>1. CASE Close
  BY <1>1 DEF Close, messageVars, streamVars, controlVars, historyVars, Callbacks
<1>2. CASE ClearFields
  BY <1>2 DEF ClearFields, parserVars, streamVars, controlVars, historyVars
<1>3. CASE Error
  BY <1>3 DEF Error, parserVars, messageVars, streamVars, historyVars
<1>4. CASE ErrorReturns
  BY <1>4 DEF ErrorReturns, messageVars, streamVars, historyVars
<1>5. CASE Ignore
  BY <1>5 DEF Ignore, parserVars, messageVars, streamVars, historyVars
<1>6. ASSUME NEW fl \in OpenFlags, NEW t \in Traffic, Open(fl, t)
      PROVE  Bounds'
  BY <1>6 DEF Open, controlVars
<1> QED
  BY <1>1, <1>2, <1>3, <1>4, <1>5, <1>6 DEF Owner

\* The stream's event: the input only grows at its end.
LEMMA StreamBounds ==
  ASSUME IInv, NEW k \in 1..Len(inflight), NEW b \in Bases, Data(k, b)
  PROVE  Bounds'
<1>1. Len(data) \in Nat /\ Len(data') \in Nat /\ Len(data) <= Len(data')
  <2>1. TypeOK /\ Len(data') \in Nat /\ Len(data) <= Len(data')
    BY StreamType DEF IInv
  <2> QED
    BY <2>1 DEF TypeOK
<1>2. /\ pc = "idle" /\ pc' = "run"
      /\ UNCHANGED <<parserVars, messageVars, take, last, historyVars>>
  BY DEF Data
<1>3. UNCHANGED <<state, flags, size, content_begin, content_end, chunk_begin, sent, fits, fresh>>
  BY <1>2 DEF parserVars, historyVars
<1> QED
  BY <1>1, <1>2, <1>3
     DEF IInv, TypeOK, Bounds, BufferBounds, CallMatchesState, TakeInBuffer, ChunksInBuffer,
         NothingPending, NoOverrun, ContentInside, SizeIsOwn, Streaming

\* The half of the header handlers that finds out about the body: its offsets
\* are those of the header read, and its size is not in front of them if it did
\* not wrap.
LEMMA SelectBodyBounds ==
  ASSUME TypeOK, NEW n \in {0, HdrLen}, NEW flds \in Seq(DOMAIN sent), SelectBody(n, flds)
  PROVE  /\ content_begin' = n /\ content_end' = n /\ pc' = "run"
         /\ \/ state' = "CHUNKED_BODY" /\ chunk_begin' = n /\ size' = size
            \/ state' = "BODY" /\ size' \in Nat /\ (fits' => n <= size')
<1> USE HdrLenAssumption, SizeModAssumption
<1>1. PICK f \in FoundFramings(flds) :
        \/ chunk_begin' = n /\ state' = "CHUNKED_BODY" /\ size' = size
        \/ /\ size' = Wrap(n + f.announced) /\ state' = "BODY"
           /\ fits' => n + f.announced < SizeMod
  BY DEF SelectBody
<1>2. f.announced \in Nat /\ f.announced < SizeMod
  BY FoundFramingsType
<1>3. Wrap(n + f.announced) \in Nat /\ (n + f.announced < SizeMod => n <= Wrap(n + f.announced))
  BY <1>2 DEF Wrap
<1>4. content_begin' = n /\ content_end' = n /\ pc' = "run"
  BY DEF SelectBody
<1> QED
  BY <1>1, <1>3, <1>4

\* A header handler that gets no header.
LEMMA HeaderFailsBounds ==
  ASSUME IInv, HeaderFails, flags' = flags, pc = "run",
         state \in {"REQUEST_HEADER", "RESPONSE_HEADER"}
  PROVE  Bounds'
BY DEF IInv, TypeOK, HeaderFails, messageVars, streamVars, historyVars,
       Bounds, BufferBounds, CallMatchesState, TakeInBuffer, ChunksInBuffer,
       NothingPending, NoOverrun, ContentInside, SizeIsOwn, Streaming

\* The header handlers of a parser that does not stream.
LEMMA HeaderBounds ==
  ASSUME IInv, pc = "run", HdrLen \in ParseResults, AddFields(data[1].m),
         SelectBody(HdrLen, fields'), ~Streaming,
         UNCHANGED <<flags, data, take, sent, fresh>>
  PROVE  Bounds'
<1>1. fields' \in Seq(DOMAIN sent) /\ HdrLen \in Nat /\ HdrLen <= Len(data)
  BY HeaderParsed, AddFieldsType, HdrLenAssumption DEF IInv
<1>2. /\ content_begin' = HdrLen /\ content_end' = HdrLen /\ pc' = "run"
      /\ \/ state' = "CHUNKED_BODY" /\ chunk_begin' = HdrLen /\ size' = size
         \/ state' = "BODY" /\ size' \in Nat /\ (fits' => HdrLen <= size')
  BY <1>1, SelectBodyBounds DEF IInv
<1> QED
  BY <1>1, <1>2
     DEF IInv, TypeOK, Bounds, BufferBounds, CallMatchesState, TakeInBuffer, ChunksInBuffer,
         NothingPending, NoOverrun, ContentInside, SizeIsOwn, Streaming

\* reactor_http_parser_request_header, whose parser does not stream.
LEMMA RequestHeaderBounds ==
  ASSUME IInv, RequestHeader
  PROVE  Bounds'
<1>1. CASE HeaderFails
  BY <1>1, HeaderFailsBounds DEF RequestHeader
<1>2. CASE ~HeaderFails
  <2>1. ~Streaming
    BY StreamsResponses DEF RequestHeader, IInv, Bounds, BufferBounds, CallMatchesState
  <2> QED
    BY <1>2, <2>1, HeaderBounds DEF RequestHeader, streamVars
<1> QED
  BY <1>1, <1>2

\* reactor_http_parser_response_header, with and without streaming.
LEMMA ResponseHeaderBounds ==
  ASSUME IInv, ResponseHeader
  PROVE  Bounds'
<1>1. CASE HeaderFails
  BY <1>1, HeaderFailsBounds DEF ResponseHeader
<1>2. CASE ~HeaderFails /\ ~Streaming
  BY <1>2, HeaderBounds DEF ResponseHeader, streamVars
<1>3. CASE ~HeaderFails /\ Streaming
  <2>1. HdrLen \in ParseResults /\ HdrLen <= Len(data)
    BY <1>3, HeaderParsed DEF ResponseHeader, IInv
  <2> QED
    BY <1>3, <2>1
       DEF ResponseHeader, IInv, TypeOK, streamVars, Bounds, BufferBounds, CallMatchesState,
           TakeInBuffer, ChunksInBuffer, NothingPending, NoOverrun, ContentInside, SizeIsOwn,
           Streaming
<1> QED
  BY <1>1, <1>2, <1>3

\* Behind the HEADER event: the header is gone, and the offsets are zero.
LEMMA HeaderReturnsBounds ==
  ASSUME IInv, HeaderReturns
  PROVE  Bounds'
<1> USE HdrLenAssumption
<1>1. /\ pc = "HEADER" /\ Streaming /\ state \in {"RESPONSE_HEADER", "CLOSED"}
      /\ fields \in Seq(DOMAIN sent)
  BY DEF IInv, TypeOK, Bounds, BufferBounds, CallMatchesState, HeaderReturns
<1>2. /\ content_begin' = 0 /\ content_end' = 0 /\ pc' = "run"
      /\ \/ state' = "CHUNKED_BODY" /\ chunk_begin' = 0 /\ size' = size
         \/ state' = "BODY" /\ size' \in Nat
  BY <1>1, SelectBodyBounds DEF IInv, HeaderReturns
<1>3. UNCHANGED <<flags, sent, fresh>>
  BY DEF HeaderReturns
<1> QED
  BY <1>1, <1>2, <1>3
     DEF IInv, Bounds, BufferBounds, CallMatchesState, TakeInBuffer, ChunksInBuffer,
         NothingPending, NoOverrun, ContentInside, SizeIsOwn, Streaming

\* reactor_http_parser_body: it goes on to FINAL only with the body in the input.
LEMMA BodyBounds ==
  ASSUME IInv, Body
  PROVE  Bounds'
<1>1. /\ Len(data) \in Nat /\ size \in Nat /\ content_begin \in Nat
      /\ pc = "run" /\ state = "BODY"
      /\ UNCHANGED <<flags, content_begin, chunk_begin, data, sent, fits, fresh>>
  BY DEF IInv, TypeOK, Body, streamVars
<1> USE DEF Bounds, BufferBounds, CallMatchesState, TakeInBuffer, ChunksInBuffer,
            NothingPending, NoOverrun, ContentInside, SizeIsOwn, Streaming
<1>2. CASE data # <<>> /\ Streaming
  <2>1. /\ pc' = "BODY_CHUNK" /\ take' = Min2(size, Len(data))
        /\ UNCHANGED <<state, size, content_end>>
    BY <1>2 DEF Body
  <2> QED
    BY <1>1, <1>2, <2>1 DEF IInv, Min2
<1>3. CASE ~(data # <<>> /\ Streaming)
  <2>1. BodyEnds(size, Len(data)) /\ take' = take
    BY <1>3 DEF Body
  <2>2. /\ size' = size
        /\ \/ pc' = "idle" /\ state' = state /\ content_end' = content_end
           \/ pc' = "run" /\ state' = "FINAL" /\ content_end' = size /\ size <= Len(data)
    BY <1>1, <2>1, BodyEndsType DEF IInv
  <2>3. Streaming => Len(data) = 0
    BY <1>3 DEF IInv, TypeOK
  <2> QED
    BY <1>1, <2>1, <2>2, <2>3 DEF IInv
<1> QED
  BY <1>2, <1>3

\* Behind a piece of a body: it goes on to FINAL only with nothing missing.
LEMMA BodyChunkReturnsBounds ==
  ASSUME IInv, BodyChunkReturns
  PROVE  Bounds'
<1>1. /\ take \in Nat /\ size \in Nat /\ Len(data) \in Nat
      /\ take = Min2(size, Len(data)) /\ take <= Len(data)
      /\ pc = "BODY_CHUNK" /\ Streaming /\ state \in {"BODY", "CLOSED"}
  BY DEF IInv, TypeOK, Bounds, BufferBounds, TakeInBuffer, CallMatchesState, BodyChunkReturns
<1>2. Len(data') = Len(data) - take
  BY <1>1, ConsumeType DEF BodyChunkReturns, IInv
<1>3. /\ size - take \in Nat /\ Len(data) - take \in Nat
      /\ size - take <= Len(data) - take => size - take = 0
  BY <1>1 DEF Min2
<1>4. /\ size' = size - take
      /\ \/ pc' = "idle" /\ state' = state
         \/ pc' = "run" /\ state' = "FINAL" /\ size - take <= Len(data) - take
  BY <1>3, BodyEndsType DEF BodyChunkReturns, IInv
<1>5. UNCHANGED <<flags, sent, fits, fresh>>
  BY DEF BodyChunkReturns, historyVars
<1> QED
  BY <1>1, <1>2, <1>3, <1>4, <1>5
     DEF IInv, Bounds, BufferBounds, CallMatchesState, TakeInBuffer, ChunksInBuffer,
         NothingPending, NoOverrun, ContentInside, SizeIsOwn, Streaming

\* A chunk taken is in the input, and moving it down keeps the offsets ordered.
LEMMA ChunkedBodyBounds ==
  ASSUME IInv, ChunkedBody
  PROVE  Bounds'
<1>1. /\ pc = "run" /\ state = "CHUNKED_BODY"
      /\ UNCHANGED <<flags, content_begin, sent, fits, fresh>>
      /\ Len(data) \in Nat /\ size \in Nat /\ content_begin \in Nat
      /\ content_end \in Nat /\ chunk_begin \in Nat
  BY DEF IInv, TypeOK, ChunkedBody
<1>2. CASE /\ pc' = "idle"
           /\ UNCHANGED <<state, size, content_end, chunk_begin, data, take, last, content>>
  BY <1>1, <1>2
     DEF IInv, Bounds, BufferBounds, CallMatchesState, TakeInBuffer, ChunksInBuffer,
         NothingPending, NoOverrun, ContentInside, SizeIsOwn, Streaming
<1>3. ASSUME NEW eol \in LineEnds(chunk_begin),
             NEW n \in ChunkSizes(data[chunk_begin + 1]),
             ChunkFits(n, Len(data) - (eol + 1)), n + 2 < SizeMod, TakeChunk(eol + 1, n)
      PROVE  Bounds'
  <2> DEFINE start == eol + 1
  <2>1. /\ start \in Nat /\ n \in Nat /\ chunk_begin <= start
        /\ start + n + 2 <= Len(data)
    BY <1>1, <1>3, ChunkLineType, SizeModAssumption DEF ChunkFits, Wrap, IInv
  <2>2. Len(data') = Len(data)
    BY <1>1, <1>3, <2>1, TakeChunkType DEF IInv, Bounds, BufferBounds
  <2>3. CASE Streaming
    <3>1. /\ pc' = "CHUNK" /\ take' = start + n + 2
          /\ UNCHANGED <<state, size, content_end, chunk_begin>>
      BY <1>3, <2>3 DEF TakeChunk
    <3> QED
      BY <1>1, <2>1, <2>2, <2>3, <3>1
         DEF IInv, Bounds, BufferBounds, CallMatchesState, TakeInBuffer, ChunksInBuffer,
             NothingPending, NoOverrun, ContentInside, SizeIsOwn, Streaming
  <2>4. CASE ~Streaming
    <3>1. /\ pc' = pc /\ content_end' = content_end + n /\ size' = content_end + n
          /\ chunk_begin' = start + n + 2 /\ state' \in {"CHUNKED_BODY", "FINAL"}
      BY <1>1, <1>3, <2>4 DEF TakeChunk
    <3>2. /\ content_begin <= content_end /\ content_end <= chunk_begin
          /\ ~(Streaming')
      BY <1>1, <2>4 DEF IInv, Bounds, BufferBounds, ChunksInBuffer, Streaming
    <3>3. /\ content_begin' <= content_end' /\ content_end' <= size'
          /\ content_end' <= chunk_begin' /\ chunk_begin' <= Len(data')
          /\ size' <= Len(data')
      BY <1>1, <2>1, <2>2, <3>1, <3>2
    <3> QED
      BY <1>1, <3>1, <3>2, <3>3
         DEF Bounds, BufferBounds, CallMatchesState, TakeInBuffer, ChunksInBuffer,
             NothingPending, NoOverrun, ContentInside
  <2> QED
    BY <2>3, <2>4
<1>4. ASSUME NEW eol \in LineEnds(chunk_begin),
             NEW n \in ChunkSizes(data[chunk_begin + 1]),
             n + 2 >= SizeMod, pc' = "corrupt",
             UNCHANGED <<state, size, content_end, chunk_begin, data, take, last, content>>
      PROVE  Bounds'
  <2>1. chunk_begin + 1 \in DOMAIN data
    BY <1>1, <1>4, ChunkLineType DEF IInv, TypeOK
  <2>2. ChunkSizeWraps
    BY <1>1, <1>4, <2>1 DEF ChunkSizeWraps
  <2>3. ChunkSizeWraps'
    BY <1>1, <1>4, <2>2 DEF ChunkSizeWraps, ChunkSizes
  <2> QED
    BY <1>1, <1>4, <2>3
       DEF IInv, Bounds, BufferBounds, CallMatchesState, TakeInBuffer, ChunksInBuffer,
           NothingPending, NoOverrun, ContentInside, SizeIsOwn, Streaming
<1> QED
  BY <1>2, <1>3, <1>4 DEF ChunkedBody

\* Behind a chunk of a streaming parser, which has nothing to consume by size.
LEMMA ChunkReturnsBounds ==
  ASSUME IInv, ChunkReturns
  PROVE  Bounds'
<1>1. /\ pc = "CHUNK" /\ Streaming /\ state \in {"CHUNKED_BODY", "CLOSED"}
      /\ pc' = "run" /\ state' \in {"FINAL", state}
      /\ UNCHANGED <<flags, size, content_begin, content_end, chunk_begin, sent, fits, fresh>>
  BY DEF IInv, Bounds, BufferBounds, CallMatchesState, ChunkReturns, historyVars
<1>2. Len(data') \in Nat
  <2>1. data' \in Seq(WireBytes)
    BY ConsumeType DEF IInv, TypeOK, Bounds, BufferBounds, TakeInBuffer, ChunkReturns
  <2> QED
    BY <2>1
<1>3. SizeIsOwn => size = 0
  BY <1>1 DEF IInv, Bounds, BufferBounds, NothingPending, SizeIsOwn
<1> QED
  BY <1>1, <1>2, <1>3
     DEF IInv, TypeOK, Bounds, BufferBounds, CallMatchesState, TakeInBuffer, ChunksInBuffer,
         NothingPending, NoOverrun, ContentInside, SizeIsOwn, Streaming

\* The DONE event is dispatched with everything as reactor_http_parser_final found it.
LEMMA FinalBounds ==
  ASSUME IInv, Final
  PROVE  Bounds'
BY DEF IInv, TypeOK, Final, parserVars, streamVars, Bounds, BufferBounds, CallMatchesState,
       TakeInBuffer, ChunksInBuffer, NothingPending, NoOverrun, ContentInside, SizeIsOwn,
       Streaming

\* Behind the DONE event: what is consumed was there.
LEMMA FinalReturnsBounds ==
  ASSUME IInv, FinalReturns
  PROVE  Bounds'
<1>1. /\ pc = "DONE" /\ pc' \in {"idle", "corrupt"}
      /\ size \in Nat /\ Len(data) \in Nat
      /\ size <= Len(data) => pc' = "idle"
      /\ state' = IF "RESPONSE" \in flags THEN "RESPONSE_HEADER" ELSE "REQUEST_HEADER"
      /\ UNCHANGED <<flags, size, content_begin, content_end, chunk_begin, sent, fits, fresh>>
  BY DEF IInv, TypeOK, FinalReturns
<1> QED
  BY <1>1
     DEF IInv, Bounds, BufferBounds, CallMatchesState, TakeInBuffer, ChunksInBuffer,
         NothingPending, NoOverrun, ContentInside, SizeIsOwn, Streaming

-------------------------------------------------------------------------------
(***************************************************************************)
(* The theorems                                                            *)
(***************************************************************************)

\* A parser that has been initialised has nothing in its input and no offsets.
LEMMA InitIInv == Init => IInv
<1> SUFFICES ASSUME Init PROVE IInv
  OBVIOUS
<1>1. TypeOK
  <2>1. \A S : <<>> \in Seq(S)
    BY EmptySeq
  <2>2. /\ sent \in Seq(Framings) /\ fields \in Seq(DOMAIN sent) /\ data \in Seq(WireBytes)
        /\ inflight \in Seq(WireBytes) /\ content \in Seq(Bytes)
        /\ delivered \in Seq([m : Nat, content : Seq(Bytes)])
    BY <2>1 DEF Init
  <2>3. flags \in OpenFlags \cup {{}} /\ opens \in 0..MaxOpens
    BY MaxOpensAssumption DEF Init
  <2>4. /\ state \in States /\ base \in Nat /\ size \in Nat
        /\ content_begin \in Nat /\ content_end \in Nat /\ chunk_begin \in Nat
        /\ line \in Int /\ data_base \in Nat /\ take \in Nat
        /\ pc \in Controls /\ cur \in {0} \cup DOMAIN sent
    BY DEF Init, States, Controls
  <2>5. last \in BOOLEAN /\ sound \in BOOLEAN /\ fits \in BOOLEAN /\ fresh \in BOOLEAN
    BY DEF Init
  <2> QED
    BY <2>2, <2>3, <2>4, <2>5 DEF TypeOK
<1>2. Bounds
  BY DEF Init, Bounds, BufferBounds, CallMatchesState, TakeInBuffer, ChunksInBuffer,
         NothingPending, NoOverrun, ContentInside, SizeIsOwn, Streaming
<1> QED
  BY <1>1, <1>2 DEF IInv

\* Every step keeps the invariant: the cases are the actions.
LEMMA NextIInv == IInv /\ [Next]_vars => IInv'
<1> SUFFICES ASSUME IInv, [Next]_vars PROVE TypeOK' /\ Bounds'
  BY DEF IInv
<1>0. TypeOK /\ TakeInBuffer /\ ChunksInBuffer /\ ContentInside /\ NoOverrun
  BY DEF IInv, Bounds, BufferBounds
<1>1. CASE Owner \/ ErrorReturns \/ Ignore
  BY <1>0, <1>1, OwnerType, OwnerBounds
<1>2. CASE Stream
  BY <1>0, <1>2, StreamType, StreamBounds DEF Stream
<1>3. CASE RequestHeader
  BY <1>0, <1>3, RequestHeaderType, RequestHeaderBounds
<1>4. CASE ResponseHeader
  BY <1>0, <1>4, ResponseHeaderType, ResponseHeaderBounds
<1>5. CASE HeaderReturns
  BY <1>0, <1>5, HeaderReturnsType, HeaderReturnsBounds
<1>6. CASE Body
  BY <1>0, <1>6, BodyType, BodyBounds
<1>7. CASE BodyChunkReturns
  BY <1>0, <1>7, BodyChunkReturnsType, BodyChunkReturnsBounds
<1>8. CASE ChunkedBody
  BY <1>0, <1>8, ChunkedBodyType, ChunkedBodyBounds
<1>9. CASE ChunkReturns
  BY <1>0, <1>9, ChunkReturnsType, ChunkReturnsBounds
<1>10. CASE Final
  BY <1>0, <1>10, FinalType, FinalBounds
<1>11. CASE FinalReturns
  BY <1>0, <1>11, FinalReturnsType, FinalReturnsBounds
<1>12. CASE UNCHANGED vars
  <2>1. TypeOK'
    BY <1>0, <1>12 DEF TypeOK, vars, parserVars, messageVars, streamVars, controlVars, historyVars, WireBytes
  <2>2. Bounds'
    BY <1>12 DEF IInv, ChunkSizeWraps, ChunkSizes, vars, parserVars, messageVars, streamVars, controlVars, historyVars,
         Bounds, BufferBounds, CallMatchesState, TakeInBuffer, ChunksInBuffer,
         NothingPending, NoOverrun, ContentInside, SizeIsOwn, Streaming
  <2> QED
    BY <2>1, <2>2
<1> QED
  BY <1>1, <1>2, <1>3, <1>4, <1>5, <1>6, <1>7, <1>8, <1>9, <1>10, <1>11, <1>12
     DEF Next, Handler, Returns

\* The inductive invariant holds of every behaviour.
LEMMA Invariance == Spec => []IInv
BY InitIInv, NextIInv, PTL DEF Spec

\* Every variable of the parser keeps its type; no size_t goes below zero.
THEOREM TypeCorrect == Spec => []TypeOK
<1>1. IInv => TypeOK
  BY DEF IInv
<1> QED
  BY <1>1, Invariance, PTL

\* The offsets the parser keeps between two calls lie within the input.
THEOREM BufferSafe == Spec => []BufferBounds
<1>1. IInv => BufferBounds
  BY DEF IInv, Bounds
<1> QED
  BY <1>1, Invariance, PTL

\* reactor_http_parser_final drops no more than there is, unless a streaming
\* parser was opened with the size of an earlier connection.
THEOREM OverrunFree == Spec => []NoOverrun
<1>1. IInv => NoOverrun
  BY DEF IInv, Bounds
<1> QED
  BY <1>1, Invariance, PTL
-------------------------------------------------------------------------------
(***************************************************************************)
(* The content that is shown                                               *)
(***************************************************************************)
\* The offsets of the content are those of the message whose body is read.
OffsetsSet ==
  \/ state \in {"BODY", "CHUNKED_BODY", "FINAL"}
  \/ pc \in {"BODY_CHUNK", "CHUNK", "DONE"}

\* A parser that was never opened has no offsets.
NoOffsetsYet ==
  opens = 0 => /\ pc = "idle" /\ state = "CLOSED" /\ inflight = <<>> /\ delivered = <<>>
               /\ content_begin = 0 /\ content_end = 0

\* Neither has a streaming parser, from its first body on; before, it may have those of
\* an earlier connection.
StreamedOffsets ==
  Streaming /\ (OffsetsSet \/ opens <= 1 \/ delivered # <<>>) =>
    content_begin = 0 /\ content_end = 0

WholeOffsets == ~Streaming /\ OffsetsSet => content_begin = HdrLen

ShownInv == NoOffsetsYet /\ StreamedOffsets /\ WholeOffsets

\* The owner's calls, the stream's events, and what neither reads nor sets the offsets.
LEMMA ShownStays ==
  ASSUME IInv, ShownInv,
         Owner \/ Ignore \/ ErrorReturns \/ Stream \/ ChunkReturns \/ FinalReturns \/ Final
  PROVE  ShownInv'
<1>1. opens \in Nat /\ opens' \in Nat
  BY NextIInv, MaxOpensAssumption DEF IInv, TypeOK, Next, Handler, Returns
<1> USE DEF ShownInv, NoOffsetsYet, StreamedOffsets, WholeOffsets, OffsetsSet, Streaming
<1>2. CASE Close
  BY <1>2 DEF Close, messageVars, streamVars, controlVars, historyVars, Callbacks
<1>3. CASE ClearFields
  BY <1>3 DEF ClearFields, parserVars, streamVars, controlVars, historyVars
<1>4. CASE Error
  BY <1>4 DEF Error, parserVars, messageVars, streamVars, historyVars
<1>5. ASSUME NEW fl \in OpenFlags, NEW t \in Traffic, Open(fl, t)
      PROVE  ShownInv'
  BY <1>1, <1>5 DEF Open, controlVars
<1>6. CASE Ignore
  BY <1>6 DEF Ignore, parserVars, messageVars, streamVars, historyVars
<1>7. CASE ErrorReturns
  BY <1>7 DEF ErrorReturns, messageVars, streamVars, historyVars
<1>8. CASE Stream
  <2>1. inflight # <<>>
    BY <1>8 DEF Stream
  <2> QED
    BY <1>8, <2>1 DEF Stream, Data, parserVars, messageVars, historyVars
<1>9. CASE ChunkReturns
  BY <1>9 DEF ChunkReturns, messageVars, historyVars
<1>10. CASE FinalReturns
  BY <1>10 DEF FinalReturns, messageVars
<1>11. CASE Final
  BY <1>11 DEF Final, parserVars, streamVars
<1> QED
  BY <1>2, <1>3, <1>4, <1>5, <1>6, <1>7, <1>8, <1>9, <1>10, <1>11 DEF Owner

\* The header handlers set the offsets, to the end of the header or to zero.
LEMMA ShownByHeader ==
  ASSUME IInv, ShownInv, RequestHeader \/ ResponseHeader \/ HeaderReturns
  PROVE  ShownInv'
<1>1. "STREAM" \in flags => ~RequestHeader
  BY StreamsResponses DEF RequestHeader, IInv, Bounds, BufferBounds, CallMatchesState, Streaming
<1> USE DEF ShownInv, NoOffsetsYet, StreamedOffsets, WholeOffsets, OffsetsSet, Streaming
<1>2. CASE RequestHeader
  BY <1>1, <1>2 DEF RequestHeader, HeaderFails, AddFields, SelectBody, streamVars, historyVars
<1>3. CASE ResponseHeader
  BY <1>3 DEF ResponseHeader, HeaderFails, AddFields, SelectBody, streamVars, historyVars
<1>4. CASE HeaderReturns
  <2>1. Streaming
    BY <1>4 DEF HeaderReturns, IInv, Bounds, BufferBounds, CallMatchesState
  <2> QED
    BY <1>4, <2>1 DEF HeaderReturns, SelectBody
<1> QED
  BY <1>2, <1>3, <1>4

\* A body moves the end of the content, of a streaming parser to what is missing when
\* nothing is.
LEMMA ShownByBody ==
  ASSUME IInv, ShownInv, Body \/ BodyChunkReturns \/ ChunkedBody
  PROVE  ShownInv'
<1>1. size \in Nat /\ Len(data) \in Nat /\ take \in Nat
  BY DEF IInv, TypeOK
<1> USE DEF ShownInv, NoOffsetsYet, StreamedOffsets, WholeOffsets, OffsetsSet, Streaming
<1>2. CASE Body /\ data # <<>> /\ Streaming
  BY <1>2 DEF Body, streamVars
<1>3. CASE Body /\ ~(data # <<>> /\ Streaming)
  <2>1. BodyEnds(size, Len(data)) /\ (Streaming => Len(data) = 0)
    BY <1>3 DEF Body, IInv, TypeOK
  <2>2. \/ state' = state /\ pc' = "idle" /\ content_end' = content_end
        \/ state' = "FINAL" /\ pc' = "run" /\ content_end' = size /\ (Streaming => size = 0)
    BY <1>1, <2>1 DEF BodyEnds
  <2> QED
    BY <1>3, <2>2 DEF Body, streamVars
<1>4. CASE BodyChunkReturns
  <2>1. take = Min2(size, Len(data)) /\ Streaming
    BY <1>4 DEF BodyChunkReturns, IInv, Bounds, BufferBounds, TakeInBuffer, CallMatchesState
  <2>2. BodyEnds(size - take, Len(data) - take)
    BY <1>4 DEF BodyChunkReturns
  <2>3. \/ state' = state /\ pc' = "idle" /\ content_end' = content_end
        \/ state' = "FINAL" /\ pc' = "run" /\ content_end' = 0
    BY <1>1, <2>1, <2>2 DEF BodyEnds, Min2
  <2> QED
    BY <1>4, <2>1, <2>3 DEF BodyChunkReturns, historyVars
<1>5. CASE ChunkedBody
  BY <1>5 DEF ChunkedBody, TakeChunk
<1> QED
  BY <1>2, <1>3, <1>4, <1>5

\* The offsets before the first header.
LEMMA InitShownInv == Init => ShownInv
BY DEF Init, ShownInv, NoOffsetsYet, StreamedOffsets, WholeOffsets, OffsetsSet, Streaming

\* And behind every step.
LEMMA NextShownInv == IInv /\ ShownInv /\ [Next]_vars => ShownInv'
<1> SUFFICES ASSUME IInv, ShownInv, [Next]_vars PROVE ShownInv'
  OBVIOUS
<1>1. CASE Next
  BY <1>1, ShownStays, ShownByHeader, ShownByBody DEF Next, Handler, Returns
<1>2. CASE UNCHANGED vars
  BY <1>2 DEF ShownInv, NoOffsetsYet, StreamedOffsets, WholeOffsets, OffsetsSet, Streaming,
              vars, parserVars, messageVars, streamVars, controlVars, historyVars
<1> QED
  BY <1>1, <1>2

LEMMA ShownInvariance == Spec => [](IInv /\ ShownInv)
BY InitShownInv, NextShownInv, Invariance, PTL DEF Spec

\* What the offsets say is shown.
LEMMA ShownIsInBuffer ==
  ASSUME IInv, ShownInv
  PROVE  ContentInBuffer
<1>1. /\ content_begin \in Nat /\ content_end \in Nat /\ size \in Nat /\ Len(data) \in Nat
  BY DEF IInv, TypeOK
<1>2. Shown.from = content_begin /\ Shown.to = content_end
  BY DEF Shown
<1>3. ASSUME pc = "DONE", ~Streaming
      PROVE  /\ content_begin = HdrLen /\ content_end <= Len(data)
             /\ fits => content_begin <= content_end
  <2>1. size <= Len(data) /\ content_end <= size /\ (fits => content_begin <= content_end)
    BY <1>3 DEF IInv, Bounds, NoOverrun, SizeIsOwn, ContentInside
  <2> QED
    BY <1>1, <1>3, <2>1 DEF ShownInv, WholeOffsets, OffsetsSet
<1>4. ASSUME Streaming, pc = "DONE" \/ (pc = "HEADER" /\ (opens = 1 \/ delivered # <<>>))
      PROVE  content_begin = content_end
  BY <1>4 DEF ShownInv, StreamedOffsets, OffsetsSet
<1>5. pc = "HEADER" => Streaming
  BY DEF IInv, Bounds, BufferBounds, CallMatchesState
<1> QED
  BY <1>2, <1>3, <1>4, <1>5 DEF ContentInBuffer

\* What a DONE event shows as content begins behind the header and ends within the input,
\* and neither event of a streamed message shows any, but for the first HEADER event of a
\* parser that was used before.
THEOREM ContentSafe == Spec => []ContentInBuffer
BY ShownInvariance, ShownIsInBuffer, PTL
-------------------------------------------------------------------------------
(***************************************************************************)
(* The header text moves with the input                                    *)
(***************************************************************************)
\* From the header to the DONE event the text is where it was when the header
\* was read, at parser->base; the input may be elsewhere by then.
LineAtBase ==
  state \in {"BODY", "CHUNKED_BODY", "FINAL"} /\ pc # "DONE" /\ ~Streaming => line = base

LineInv == LineFollowsBuffer /\ LineAtBase

\* The steps that move the input, the text or the base of the parser.
LEMMA LineMoves ==
  ASSUME IInv, LineInv, Stream \/ RequestHeader \/ ResponseHeader \/ Final
  PROVE  LineInv'
<1>1. line \in Int /\ base \in Int /\ data_base \in Int
  BY DEF IInv, TypeOK
<1> USE DEF LineInv, LineFollowsBuffer, LineAtBase, Streaming
<1>2. CASE Stream
  BY <1>2 DEF Stream, Data, parserVars, messageVars
<1>3. CASE RequestHeader
  BY <1>3 DEF RequestHeader, HeaderFails, AddFields, SelectBody, messageVars, streamVars
<1>4. CASE ResponseHeader
  BY <1>4 DEF ResponseHeader, HeaderFails, AddFields, SelectBody, messageVars, streamVars
<1>5. CASE Final
  BY <1>1, <1>5 DEF Final, FinalLine, parserVars, streamVars
<1> QED
  BY <1>2, <1>3, <1>4, <1>5

\* The steps that leave the text and the base alone and dispatch nothing that
\* shows the text.
LEMMA LineStays ==
  ASSUME IInv, LineInv,
         Owner \/ Ignore \/ ErrorReturns \/ HeaderReturns \/ Body \/ BodyChunkReturns
           \/ ChunkedBody \/ ChunkReturns \/ FinalReturns
  PROVE  LineInv'
<1> USE DEF LineInv, LineFollowsBuffer, LineAtBase, Streaming
<1>1. CASE Close
  BY <1>1 DEF Close, messageVars, streamVars, controlVars
<1>2. CASE ClearFields
  BY <1>2 DEF ClearFields, parserVars, streamVars, controlVars
<1>3. CASE Error
  BY <1>3 DEF Error, parserVars, messageVars, streamVars
<1>4. ASSUME NEW fl \in OpenFlags, NEW t \in Traffic, Open(fl, t)
      PROVE  LineInv'
  BY <1>4 DEF Open, controlVars
<1>5. CASE Ignore
  BY <1>5 DEF Ignore, parserVars, messageVars, streamVars
<1>6. CASE ErrorReturns
  BY <1>6 DEF ErrorReturns, messageVars, streamVars
<1>7. CASE HeaderReturns \/ BodyChunkReturns \/ ChunkReturns
  <2>1. Streaming
    BY <1>7 DEF HeaderReturns, BodyChunkReturns, ChunkReturns,
                IInv, Bounds, BufferBounds, CallMatchesState
  <2> QED
    BY <1>7, <2>1 DEF HeaderReturns, SelectBody, BodyChunkReturns, BodyEnds, ChunkReturns
<1>8. CASE Body
  BY <1>8 DEF Body, BodyEnds, messageVars, streamVars
<1>9. CASE ChunkedBody
  BY <1>9 DEF ChunkedBody, TakeChunk, messageVars
<1>10. CASE FinalReturns
  BY <1>10 DEF FinalReturns, messageVars
<1> QED
  BY <1>1, <1>2, <1>3, <1>4, <1>5, <1>6, <1>7, <1>8, <1>9, <1>10 DEF Owner

\* Whenever a message is shown that was not streamed, request_final and
\* response_final have moved its header pointers to where the input is now.
THEOREM LineSafe == Spec => []LineFollowsBuffer
<1>1. Init => LineInv
  BY DEF Init, LineInv, LineFollowsBuffer, LineAtBase
<1>2. IInv /\ LineInv /\ [Next]_vars => LineInv'
  <2> SUFFICES ASSUME IInv, LineInv, [Next]_vars PROVE LineInv'
    OBVIOUS
  <2>1. CASE Next
    BY <2>1, LineMoves, LineStays DEF Next, Handler, Returns
  <2>2. CASE UNCHANGED vars
    BY <2>2 DEF LineInv, LineFollowsBuffer, LineAtBase, Streaming, vars, parserVars,
                messageVars, streamVars, controlVars
  <2> QED
    BY <2>1, <2>2
<1>3. LineInv => LineFollowsBuffer
  BY DEF LineInv
<1> QED
  BY <1>1, <1>2, <1>3, Invariance, PTL DEF Spec
===============================================================================
