---------------------------- MODULE PicoHttpProofs -----------------------------
(***************************************************************************)
(* What picohttpparser answers of a part of its input, for every input:    *)
(* lemmas about the operators of PicoHttp.                                 *)
(*                                                                         *)
(* Each scanner is compared on an input and on one that goes on behind it  *)
(* (Reads): it says the same of both unless the shorter one ended before   *)
(* it could say anything, and it never steps over a CR without an LF.      *)
(* WholeReads composes this, scanner by scanner, to the whole header, and  *)
(* WholeStays says that what has been found in it stays, and WholeApart    *)
(* and RequestLineApart where its ranges are.  SearchAgrees is about       *)
(* is_complete, which looks only at the end of the header.                 *)
(*                                                                         *)
(* The lines of a header are a recursive function of their number.  What   *)
(* it is for every number is shown by induction, as the statement that a   *)
(* set of numbers is all of Nat (NatSetInduction).                         *)
(***************************************************************************)
EXTENDS PicoHttp, SequenceTheorems, WellFoundedInduction, TLAPS

\* A CR that is not half of a line end.
Bare(in, i) == in[i] = "CR" /\ i < Len(in) /\ in[i + 1] # "LF"

Clean(in, p, q) == \A i \in p..q - 1 : ~Bare(in, i)

\* What a scanner answers that reads in from p on.
Outcome(in, p, q) ==
  \/ q = Malformed
  \/ q = Incomplete /\ Clean(in, p, Len(in) + 1)
  \/ q \in p..Len(in) + 1 /\ Clean(in, p, q)

\* What it answers when there is more to read.
Same(in, q, r) == IF q = Incomplete THEN r < 0 \/ r > Len(in) ELSE r = q

\* Without a character with the top bit, or when no blocks are searched, what has been
\* read of a field's name does not depend on what follows.
Plain(t) == Block = 0 \/ \A i \in 1..Len(t) : t[i] # "HIGH"

\* The input in goes on as t does, or is t.
Starts(in, t) ==
  /\ Len(in) \in Nat /\ Len(t) \in Nat /\ Len(in) <= Len(t)
  /\ \A i \in 1..Len(in) : in[i] = t[i]
  /\ in = t \/ Plain(t)

\* A scanner reads q where in ends, and r where t does.
Reads(in, t, p, q, r) == Outcome(in, p, q) /\ Outcome(t, p, r) /\ Same(in, q, r)

-------------------------------------------------------------------------------
\* A set of numbers that is not empty has a least element.
LEMMA LeastNumber ==
  ASSUME NEW T, T \subseteq Nat, T # {}
  PROVE  \E x \in T : \A y \in T : x <= y
<1> DEFINE Less == {ss \in Nat \X Nat : ss[1] < ss[2]}
<1>1. IsWellFoundedOn(Less, Nat)
  BY NatLessThanWellFounded DEF OpToRel
<1>2. PICK x \in T : \A y \in T : ~(<<y, x>> \in Less)
  BY <1>1, WFMin
<1>3. \A y \in T : ~(y < x)
  BY <1>2
<1> QED
  BY <1>3

\* Induction over the natural numbers, for a set.
LEMMA NatSetInduction ==
  ASSUME NEW T, 0 \in T, \A n \in Nat : n \in T => n + 1 \in T
  PROVE  Nat \subseteq T
<1> SUFFICES ASSUME NEW n \in Nat, n \notin T PROVE FALSE
  OBVIOUS
<1>1. PICK x \in Nat \ T : \A y \in Nat \ T : x <= y
  BY LeastNumber
<1>2. x - 1 \in Nat
  OBVIOUS
<1>3. x - 1 \in T
  BY <1>1, <1>2
<1>4. (x - 1) + 1 \in T
  BY <1>2, <1>3
<1> QED
  BY <1>4

LEMMA LeastIsMin ==
  ASSUME NEW T, T \subseteq Nat, T # {}
  PROVE  Min(T) \in T /\ \A y \in T : Min(T) <= y
<1>1. \E x \in T : \A y \in T : x <= y
  BY LeastNumber
<1> QED
  BY <1>1 DEF Min

\* The first place to stop at, among those from p on where in ends and where t does.
FirstOf(S) == IF S = {} THEN Incomplete ELSE Min(S)

LEMMA FirstStop ==
  ASSUME NEW p \in Int, 1 <= p, NEW l \in Nat, NEW n \in Nat, l <= n,
         NEW S, S \subseteq p..l, NEW T, T \subseteq p..n,
         \A i \in p..l : i \in S <=> i \in T
  PROVE  /\ \/ FirstOf(S) = Incomplete /\ S = {}
            \/ FirstOf(S) \in S /\ FirstOf(S) \in p..l /\ \A i \in p..FirstOf(S) - 1 : i \notin S
         /\ IF FirstOf(S) = Incomplete
            THEN FirstOf(T) = Incomplete \/ FirstOf(T) > l
            ELSE FirstOf(T) = FirstOf(S)
<1>0. S \subseteq Nat /\ T \subseteq Nat /\ Incomplete = -2
  BY DEF Incomplete
<1>1. S # {} => Min(S) \in S /\ \A y \in S : Min(S) <= y
  BY <1>0, LeastIsMin
<1>2. T # {} => Min(T) \in T /\ \A y \in T : Min(T) <= y
  BY <1>0, LeastIsMin
<1>3. CASE S = {}
  <2>1. T # {} => Min(T) \in T /\ Min(T) \notin p..l /\ Min(T) \in p..n
    BY <1>2, <1>3
  <2>2. T # {} => Min(T) > l
    BY <2>1
  <2> QED
    BY <1>3, <2>2 DEF FirstOf
<1>4. CASE S # {}
  <2>1. Min(S) \in S /\ Min(S) \in p..l /\ \A y \in S : Min(S) <= y
    BY <1>1, <1>4
  <2>2. \A i \in p..Min(S) - 1 : i \notin S
    BY <2>1
  <2>3. Min(S) \in T /\ T # {}
    BY <2>1
  <2>4. Min(T) \in T /\ Min(T) <= Min(S) /\ Min(T) \in p..n
    BY <1>2, <2>3
  <2>5. Min(T) \in p..l
    BY <2>1, <2>4
  <2>6. Min(T) \in S
    BY <2>4, <2>5
  <2>7. Min(T) = Min(S)
    BY <2>1, <2>4, <2>5, <2>6
  <2>8. Min(S) # Incomplete
    BY <1>0, <2>1
  <2> QED
    BY <1>4, <2>1, <2>2, <2>3, <2>7, <2>8 DEF FirstOf
<1> QED
  BY <1>3, <1>4

-------------------------------------------------------------------------------
(***************************************************************************)
(* One scanner behind another                                              *)
(***************************************************************************)
LEMMA StartsWhole == ASSUME NEW in, NEW t, Starts(in, t) PROVE Starts(t, t) /\ Starts(in, in)
  BY DEF Starts

LEMMA OutcomeTypes ==
  ASSUME NEW in, Len(in) \in Nat, NEW p \in Int, 1 <= p, NEW q, Outcome(in, p, q)
  PROVE  /\ q \in Int
         /\ q < 0 => q \in {Malformed, Incomplete}
         /\ ~(q < 0) => q \in p..Len(in) + 1 /\ Clean(in, p, q)
  BY DEF Outcome, Malformed, Incomplete

\* A scanner that begins behind the stop of another.
LEMMA OutcomeFollows ==
  ASSUME NEW in, Len(in) \in Nat, NEW p \in Int, 1 <= p, NEW a, Outcome(in, p, a),
         NEW b, a < 0 => b = a, ~(a < 0) => Outcome(in, a, b)
  PROVE  Outcome(in, p, b)
<1>1. a \in Int /\ (~(a < 0) => a \in p..Len(in) + 1 /\ Clean(in, p, a))
  BY OutcomeTypes
<1>2. CASE a < 0
  BY <1>2
<1>3. CASE ~(a < 0)
  <2>1. b = Malformed \/ (b = Incomplete /\ Clean(in, a, Len(in) + 1))
        \/ (b \in a..Len(in) + 1 /\ Clean(in, a, b))
    BY <1>3 DEF Outcome
  <2>2. ASSUME NEW e \in Int, Clean(in, a, e) PROVE Clean(in, p, e)
    <3>1. ASSUME NEW i \in p..e - 1 PROVE ~Bare(in, i)
      <4>1. i \in p..a - 1 \/ i \in a..e - 1
        BY <1>1, <1>3
      <4> QED
        BY <1>1, <1>3, <2>2, <4>1 DEF Clean
    <3> QED
      BY <3>1 DEF Clean
  <2>3. b \in a..Len(in) + 1 => b \in p..Len(in) + 1 /\ b \in Int
    BY <1>1, <1>3
  <2> QED
    BY <2>1, <2>2, <2>3 DEF Outcome
<1> QED
  BY <1>2, <1>3

LEMMA ReadsFollows ==
  ASSUME NEW in, NEW t, Starts(in, t), NEW p \in Int, 1 <= p, NEW a, NEW c, Reads(in, t, p, a, c),
         NEW b, NEW d, a < 0 => b = a, ~(a < 0) => Reads(in, t, a, b, d),
         c < 0 => d = c, ~(c < 0) => Outcome(t, c, d)
  PROVE  Reads(in, t, p, b, d)
<1>1. /\ Len(in) \in Nat /\ Len(t) \in Nat
      /\ Outcome(in, p, a) /\ Outcome(t, p, c) /\ Same(in, a, c)
  BY DEF Reads, Starts
<1>2. Outcome(in, p, b)
  <2>1. ~(a < 0) => Outcome(in, a, b)
    BY DEF Reads
  <2> QED
    BY <1>1, <2>1, OutcomeFollows
<1>3. Outcome(t, p, d)
  BY <1>1, OutcomeFollows
<1>4. Same(in, b, d)
  <2>1. CASE a = Incomplete
    <3>1. b = Incomplete /\ (c < 0 \/ c > Len(in))
      BY <1>1, <2>1 DEF Same, Incomplete
    <3>2. c \in Int
      BY <1>1, OutcomeTypes
    <3>3. ~(c < 0) => d \in Int /\ (d < 0 \/ d >= c)
      <4> SUFFICES ASSUME ~(c < 0) PROVE d \in Int /\ (d < 0 \/ d >= c)
        OBVIOUS
      <4>1. c \in p..Len(t) + 1
        BY <1>1, OutcomeTypes
      <4>2. 1 <= c
        BY <4>1
      <4>3. d \in Int /\ (~(d < 0) => d \in c..Len(t) + 1)
        BY <1>1, <3>2, <4>2, OutcomeTypes
      <4> QED
        BY <4>3
    <3>4. c < 0 => d < 0
      OBVIOUS
    <3>5. d < 0 \/ d > Len(in)
      BY <1>1, <3>1, <3>2, <3>3, <3>4
    <3> QED
      BY <3>1, <3>5 DEF Same
  <2>2. CASE a # Incomplete
    <3>1. c = a
      BY <1>1, <2>2 DEF Same
    <3>2. CASE a < 0
      BY <3>1, <3>2, <2>2 DEF Same
    <3>3. CASE ~(a < 0)
      BY <3>3 DEF Reads
    <3> QED
      BY <3>2, <3>3
  <2> QED
    BY <2>1, <2>2
<1> QED
  BY <1>2, <1>3, <1>4 DEF Reads

\* What has been read without an error, more of the input does not change.
LEMMA SameStop ==
  ASSUME NEW in, NEW t, NEW p, NEW q, NEW r, Reads(in, t, p, q, r), ~(q < 0)
  PROVE  r = q
<1>1. q # Incomplete
  BY DEF Incomplete
<1> QED
  BY <1>1 DEF Reads, Same

\* A scanner that begins behind a character that is not a CR.
LEMMA OutcomeSkips ==
  ASSUME NEW in, Len(in) \in Nat, NEW p \in Int, 1 <= p, in[p] # "CR",
         NEW q, Outcome(in, p + 1, q)
  PROVE  Outcome(in, p, q)
<1>1. ASSUME NEW e \in Int, Clean(in, p + 1, e) PROVE Clean(in, p, e)
  <2>1. ASSUME NEW i \in p..e - 1 PROVE ~Bare(in, i)
    <3>1. i = p \/ i \in p + 1..e - 1
      OBVIOUS
    <3> QED
      BY <1>1, <3>1 DEF Clean, Bare
  <2> QED
    BY <2>1 DEF Clean
<1>2. q \in p + 1..Len(in) + 1 => q \in p..Len(in) + 1 /\ q \in Int
  OBVIOUS
<1> QED
  BY <1>1, <1>2 DEF Outcome

LEMMA ReadsSkips ==
  ASSUME NEW in, NEW t, Starts(in, t), NEW p \in Int, 1 <= p, p <= Len(in), in[p] # "CR",
         NEW q, NEW r, Reads(in, t, p + 1, q, r)
  PROVE  Reads(in, t, p, q, r)
<1>1. Len(in) \in Nat /\ Len(t) \in Nat /\ t[p] = in[p]
  BY DEF Starts
<1>2. Outcome(in, p + 1, q) /\ Outcome(t, p + 1, r)
  BY DEF Reads
<1> QED
  BY <1>1, <1>2, OutcomeSkips DEF Reads

-------------------------------------------------------------------------------
(***************************************************************************)
(* The scanners                                                            *)
(***************************************************************************)
\* A scanner that stops at the first of some places, a CR among them.
LEMMA StopReads ==
  ASSUME NEW in, NEW t, Starts(in, t), NEW p \in Int, 1 <= p,
         NEW S, S \subseteq p..Len(in), NEW T, T \subseteq p..Len(t),
         \A i \in p..Len(in) : i \in S <=> i \in T,
         \A i \in p..Len(in) : in[i] = "CR" => i \in S,
         \A i \in p..Len(t) : t[i] = "CR" => i \in T
  PROVE  /\ Reads(in, t, p, FirstOf(S), FirstOf(T))
         /\ FirstOf(S) = Incomplete \/ (FirstOf(S) \in S /\ FirstOf(S) \in p..Len(in))
         /\ \A i \in p..FirstOf(S) - 1 : i \notin S
<1>1. /\ Len(in) \in Nat /\ Len(t) \in Nat /\ Len(in) <= Len(t)
      /\ \A i \in 1..Len(in) : in[i] = t[i]
  BY DEF Starts
<1> DEFINE a == FirstOf(S)
           b == FirstOf(T)
<1>2. /\ \/ a = Incomplete /\ S = {}
         \/ a \in S /\ a \in p..Len(in) /\ \A i \in p..a - 1 : i \notin S
      /\ IF a = Incomplete THEN b = Incomplete \/ b > Len(in) ELSE b = a
  BY <1>1, FirstStop
<1>3. \/ b = Incomplete /\ T = {}
      \/ b \in T /\ b \in p..Len(t) /\ \A i \in p..b - 1 : i \notin T
  <2> DEFINE n == Len(t)
  <2>1. n \in Nat /\ n <= n /\ T \subseteq p..n /\ \A i \in p..n : i \in T <=> i \in T
    BY <1>1
  <2> HIDE DEF n
  <2>2. \/ FirstOf(T) = Incomplete /\ T = {}
        \/ FirstOf(T) \in T /\ FirstOf(T) \in p..n /\ \A i \in p..FirstOf(T) - 1 : i \notin T
    BY <2>1, FirstStop
  <2> QED
    BY <2>2 DEF n
<1> HIDE DEF a, b
<1>4. Same(in, a, b)
  BY <1>2 DEF Same, Incomplete
<1>5. Outcome(in, p, a)
  <2>1. CASE a = Incomplete /\ S = {}
    <3>1. ASSUME NEW i \in p..(Len(in) + 1) - 1 PROVE ~Bare(in, i)
      <4>1. i \in p..Len(in)
        BY <1>1
      <4> QED
        BY <2>1, <4>1 DEF Bare
    <3> QED
      BY <2>1, <3>1 DEF Outcome, Clean
  <2>2. CASE a \in S /\ a \in p..Len(in) /\ \A i \in p..a - 1 : i \notin S
    <3>1. ASSUME NEW i \in p..a - 1 PROVE ~Bare(in, i)
      <4>1. i \in p..Len(in)
        BY <1>1, <2>2
      <4> QED
        BY <2>2, <4>1 DEF Bare
    <3>2. a \in p..Len(in) + 1
      BY <1>1, <2>2
    <3> QED
      BY <3>1, <3>2 DEF Outcome, Clean
  <2> QED
    BY <1>2, <2>1, <2>2
<1>6. Outcome(t, p, b)
  <2>1. CASE b = Incomplete /\ T = {}
    <3>1. ASSUME NEW i \in p..(Len(t) + 1) - 1 PROVE ~Bare(t, i)
      <4>1. i \in p..Len(t)
        BY <1>1
      <4> QED
        BY <2>1, <4>1 DEF Bare
    <3> QED
      BY <2>1, <3>1 DEF Outcome, Clean
  <2>2. CASE b \in T /\ b \in p..Len(t) /\ \A i \in p..b - 1 : i \notin T
    <3>1. ASSUME NEW i \in p..b - 1 PROVE ~Bare(t, i)
      <4>1. i \in p..Len(t)
        BY <1>1, <2>2
      <4> QED
        BY <2>2, <4>1 DEF Bare
    <3>2. b \in p..Len(t) + 1
      BY <1>1, <2>2
    <3> QED
      BY <3>1, <3>2 DEF Outcome, Clean
  <2> QED
    BY <1>3, <2>1, <2>2
<1>7. a = Incomplete \/ (a \in S /\ a \in p..Len(in))
  BY <1>2
<1>8. \A i \in p..a - 1 : i \notin S
  BY <1>2
<1> QED
  BY <1>4, <1>5, <1>6, <1>7, <1>8 DEF Reads, a, b

LEMMA ExpectReads ==
  ASSUME NEW in, NEW t, Starts(in, t), NEW p \in Int, 1 <= p, NEW c, c # "CR"
  PROVE  /\ Reads(in, t, p, Expect(in, p, c), Expect(t, p, c))
         /\ \/ Expect(in, p, c) < 0
            \/ Expect(in, p, c) = p + 1 /\ p <= Len(in) /\ in[p] = c
<1>1. /\ Len(in) \in Nat /\ Len(t) \in Nat /\ Len(in) <= Len(t)
      /\ \A i \in 1..Len(in) : in[i] = t[i]
  BY DEF Starts
<1>2. ASSUME NEW s, Len(s) \in Nat PROVE Outcome(s, p, Expect(s, p, c))
  <2>1. CASE p > Len(s)
    BY <1>2, <2>1 DEF Expect, Outcome, Clean
  <2>2. CASE p <= Len(s) /\ s[p] = c
    <3>1. Expect(s, p, c) = p + 1 /\ p + 1 \in p..Len(s) + 1
      BY <1>2, <2>2 DEF Expect
    <3>2. \A i \in p..(p + 1) - 1 : i = p
      OBVIOUS
    <3>3. Clean(s, p, p + 1)
      BY <2>2, <3>2 DEF Clean, Bare
    <3> QED
      BY <3>1, <3>3 DEF Outcome
  <2>3. CASE p <= Len(s) /\ s[p] # c
    BY <1>2, <2>3 DEF Expect, Outcome
  <2> QED
    BY <1>2, <2>1, <2>2, <2>3
<1>3. Same(in, Expect(in, p, c), Expect(t, p, c))
  <2>1. CASE p > Len(in)
    BY <1>1, <2>1 DEF Expect, Same, Malformed, Incomplete
  <2>2. CASE p <= Len(in)
    <3>1. in[p] = t[p] /\ p <= Len(t)
      BY <1>1, <2>2
    <3> QED
      BY <1>1, <2>2, <3>1 DEF Expect, Same, Malformed, Incomplete
  <2> QED
    BY <1>1, <2>1, <2>2
<1>4. \/ Expect(in, p, c) < 0
      \/ Expect(in, p, c) = p + 1 /\ p <= Len(in) /\ in[p] = c
  BY <1>1 DEF Expect, Malformed, Incomplete
<1> QED
  BY <1>1, <1>2, <1>3, <1>4 DEF Reads

\* A line end is an LF, with a CR in front or not.
LEMMA LineEndValue ==
  ASSUME NEW in, Len(in) \in Nat, NEW p \in Int, 1 <= p
  PROVE  \/ LineEnd(in, p) = Malformed
         \/ LineEnd(in, p) = Incomplete /\ (p > Len(in) \/ (p = Len(in) /\ in[p] = "CR"))
         \/ LineEnd(in, p) = p + 1 /\ p <= Len(in) /\ in[p] = "LF"
         \/ LineEnd(in, p) = p + 2 /\ p + 1 <= Len(in) /\ in[p] = "CR" /\ in[p + 1] = "LF"
  BY DEF LineEnd, Expect

LEMMA LineEndReads ==
  ASSUME NEW in, NEW t, Starts(in, t), NEW p \in Int, 1 <= p
  PROVE  /\ Reads(in, t, p, LineEnd(in, p), LineEnd(t, p))
         /\ \/ LineEnd(in, p) < 0
            \/ LineEnd(in, p) > p /\ in[LineEnd(in, p) - 1] = "LF"
         /\ LineEnd(in, p) = Incomplete => LineEnd(t, p) < 0 \/ LineEnd(t, p) > Len(in) + 1
<1>1. /\ Len(in) \in Nat /\ Len(t) \in Nat /\ Len(in) <= Len(t)
      /\ \A i \in 1..Len(in) : in[i] = t[i]
  BY DEF Starts
<1>2. ASSUME NEW s, Len(s) \in Nat
      PROVE  /\ Outcome(s, p, LineEnd(s, p))
             /\ LineEnd(s, p) < 0 \/ (LineEnd(s, p) > p /\ s[LineEnd(s, p) - 1] = "LF")
  <2> DEFINE q == LineEnd(s, p)
  <2>1. \/ q = Malformed
        \/ q = Incomplete /\ (p > Len(s) \/ (p = Len(s) /\ s[p] = "CR"))
        \/ q = p + 1 /\ p <= Len(s) /\ s[p] = "LF"
        \/ q = p + 2 /\ p + 1 <= Len(s) /\ s[p] = "CR" /\ s[p + 1] = "LF"
    BY <1>2, LineEndValue
  <2> HIDE DEF q
  <2>2. CASE q = Malformed
    BY <2>2 DEF Outcome, Malformed, q
  <2>3. CASE q = Incomplete /\ (p > Len(s) \/ (p = Len(s) /\ s[p] = "CR"))
    <3>1. ASSUME NEW i \in p..(Len(s) + 1) - 1 PROVE ~Bare(s, i)
      <4>1. ~(i < Len(s))
        BY <1>2, <2>3
      <4> QED
        BY <4>1 DEF Bare
    <3>2. Outcome(s, p, q)
      BY <2>3, <3>1 DEF Outcome, Clean
    <3> QED
      BY <2>3, <3>2 DEF Incomplete, q
  <2>4. CASE q = p + 1 /\ p <= Len(s) /\ s[p] = "LF"
    <3>1. ASSUME NEW i \in p..q - 1 PROVE ~Bare(s, i)
      <4>1. i = p
        BY <2>4
      <4> QED
        BY <2>4, <4>1 DEF Bare
    <3>2. q \in p..Len(s) + 1 /\ q > p /\ q - 1 = p
      BY <1>2, <2>4
    <3>3. Outcome(s, p, q)
      BY <3>1, <3>2 DEF Outcome, Clean
    <3> QED
      BY <2>4, <3>2, <3>3 DEF q
  <2>5. CASE q = p + 2 /\ p + 1 <= Len(s) /\ s[p] = "CR" /\ s[p + 1] = "LF"
    <3>1. ASSUME NEW i \in p..q - 1 PROVE ~Bare(s, i)
      <4>1. i = p \/ i = p + 1
        BY <2>5
      <4> QED
        BY <2>5, <4>1 DEF Bare
    <3>2. q \in p..Len(s) + 1 /\ q > p /\ q - 1 = p + 1
      BY <1>2, <2>5
    <3>3. Outcome(s, p, q)
      BY <3>1, <3>2 DEF Outcome, Clean
    <3> QED
      BY <2>5, <3>2, <3>3 DEF q
  <2> QED
    BY <2>1, <2>2, <2>3, <2>4, <2>5
<1> DEFINE q == LineEnd(in, p)
           r == LineEnd(t, p)
<1>3. \/ q = Malformed
      \/ q = Incomplete /\ (p > Len(in) \/ (p = Len(in) /\ in[p] = "CR"))
      \/ q = p + 1 /\ p <= Len(in) /\ in[p] = "LF"
      \/ q = p + 2 /\ p + 1 <= Len(in) /\ in[p] = "CR" /\ in[p + 1] = "LF"
  BY <1>1, LineEndValue
<1>4. \/ r = Malformed
      \/ r = Incomplete /\ (p > Len(t) \/ (p = Len(t) /\ t[p] = "CR"))
      \/ r = p + 1 /\ p <= Len(t) /\ t[p] = "LF"
      \/ r = p + 2 /\ p + 1 <= Len(t) /\ t[p] = "CR" /\ t[p + 1] = "LF"
  BY <1>1, LineEndValue
<1>5. q # Incomplete => r = q
  <2> SUFFICES ASSUME q # Incomplete PROVE r = q
    OBVIOUS
  <2>1. p <= Len(in) /\ (in[p] = "CR" => p + 1 <= Len(in))
    BY <1>1 DEF LineEnd, Expect
  <2>2. in[p] = t[p] /\ (in[p] = "CR" => in[p + 1] = t[p + 1]) /\ p <= Len(t)
        /\ (in[p] = "CR" => p + 1 <= Len(t))
    BY <1>1, <2>1
  <2> QED
    BY <1>1, <2>1, <2>2 DEF LineEnd, Expect
<1>6. q = Incomplete => r < 0 \/ r > Len(in) + 1
  <2> SUFFICES ASSUME q = Incomplete PROVE r < 0 \/ r > Len(in) + 1
    OBVIOUS
  <2>1. p > Len(in) \/ (p = Len(in) /\ in[p] = "CR")
    BY <1>3 DEF Malformed, Incomplete
  <2>2. CASE p > Len(in)
    BY <1>1, <1>4, <2>2 DEF Malformed, Incomplete
  <2>3. CASE p = Len(in) /\ in[p] = "CR"
    <3>1. t[p] = "CR" /\ p \in Nat
      BY <1>1, <2>3
    <3>2. r < 0 \/ r = p + 2
      BY <1>4, <3>1 DEF Malformed, Incomplete
    <3> QED
      BY <1>1, <2>3, <3>2
  <2> QED
    BY <2>1, <2>2, <2>3
<1>7. Same(in, q, r)
  <2>1. q = Incomplete => r < 0 \/ r > Len(in)
    <3>1. r \in Int
      BY <1>4 DEF Malformed, Incomplete
    <3> HIDE DEF q, r
    <3> QED
      BY <1>1, <1>6, <3>1
  <2> QED
    BY <1>5, <2>1 DEF Same
<1> QED
  BY <1>1, <1>2, <1>6, <1>7 DEF Reads

\* A malformed input is malformed, whatever follows.
LEMMA MalformedReads ==
  ASSUME NEW in, NEW t, Starts(in, t), NEW p
  PROVE  Reads(in, t, p, Malformed, Malformed)
  BY DEF Reads, Outcome, Same, Malformed, Incomplete

LEMMA TokenReads ==
  ASSUME NEW in, NEW t, Starts(in, t), NEW p \in Int, 1 <= p
  PROVE  /\ Reads(in, t, p, Token(in, p), Token(t, p))
         /\ \/ Token(in, p) < 0
            \/ Token(in, p) \in p..Len(in) /\ in[Token(in, p)] = "SP"
<1> DEFINE Stops == Below \cup {"SP", "DEL"}
           S == {i \in p..Len(in) : in[i] \in Stops}
           T == {i \in p..Len(t) : t[i] \in Stops}
           a == FirstOf(S)
           b == FirstOf(T)
<1>1. /\ Len(in) \in Nat /\ Len(t) \in Nat /\ Len(in) <= Len(t)
      /\ \A i \in 1..Len(in) : in[i] = t[i]
  BY DEF Starts
<1>2. Scan(in, p, LAMBDA c : c \in Stops) = a /\ Scan(t, p, LAMBDA c : c \in Stops) = b
  BY DEF Scan, FirstOf
<1>3. Token(in, p) = IF a < 0 THEN a ELSE IF in[a] = "SP" THEN a ELSE Malformed
  BY <1>2 DEF Token, Then
<1>4. Token(t, p) = IF b < 0 THEN b ELSE IF t[b] = "SP" THEN b ELSE Malformed
  BY <1>2 DEF Token, Then
<1>5. /\ \A i \in p..Len(in) : i \in S <=> i \in T
      /\ \A i \in p..Len(in) : in[i] = "CR" => i \in S
      /\ \A i \in p..Len(t) : t[i] = "CR" => i \in T
      /\ S \subseteq p..Len(in) /\ T \subseteq p..Len(t)
  <2>1. "CR" \in Stops
    BY DEF Below
  <2> HIDE DEF Stops
  <2> QED
    BY <1>1, <2>1
<1> HIDE DEF S, T
<1>6. /\ Reads(in, t, p, a, b)
      /\ a = Incomplete \/ (a \in S /\ a \in p..Len(in))
  BY <1>5, StopReads
<1> HIDE DEF a, b
<1>7. CASE a = Incomplete
  <2>1. Token(in, p) = Incomplete /\ Outcome(in, p, Token(in, p)) /\ Token(in, p) < 0
    BY <1>3, <1>6, <1>7 DEF Incomplete, Reads
  <2>2. Same(in, Token(in, p), Token(t, p))
    BY <1>4, <1>6, <1>7, <2>1 DEF Reads, Same, Malformed
  <2>3. Outcome(t, p, Token(t, p))
    BY <1>4, <1>6 DEF Reads, Outcome
  <2> QED
    BY <2>1, <2>2, <2>3 DEF Reads
<1>8. CASE a \in S /\ a \in p..Len(in)
  <2>1. b = a /\ ~(a < 0) /\ t[a] = in[a]
    <3>1. a # Incomplete /\ a \in 1..Len(in) /\ ~(a < 0)
      BY <1>1, <1>8 DEF Incomplete
    <3> QED
      BY <1>1, <1>6, <3>1 DEF Reads, Same
  <2>2. Token(t, p) = Token(in, p)
        /\ (Token(in, p) = Malformed \/ (Token(in, p) = a /\ in[a] = "SP"))
    BY <1>3, <1>4, <2>1
  <2>3. CASE Token(in, p) = Malformed
    <3>1. Malformed < 0
      BY DEF Malformed
    <3> QED
      BY <2>2, <2>3, <3>1, MalformedReads
  <2>4. CASE Token(in, p) = a /\ in[a] = "SP"
    BY <1>6, <1>8, <2>1, <2>2, <2>4
  <2> QED
    BY <2>2, <2>3, <2>4
<1> QED
  BY <1>6, <1>7, <1>8

LEMMA ValueStopReads ==
  ASSUME NEW in, NEW t, Starts(in, t), NEW p \in Int, 1 <= p
  PROVE  /\ Reads(in, t, p, ValueStop(in, p), ValueStop(t, p))
         /\ ValueStop(in, p) < 0 \/ ValueStop(in, p) \in p..Len(in)
<1> DEFINE Stops == (Below \ {"HT"}) \cup {"DEL"}
           S == {i \in p..Len(in) : in[i] \in Stops}
           T == {i \in p..Len(t) : t[i] \in Stops}
<1>1. /\ Len(in) \in Nat /\ Len(t) \in Nat /\ Len(in) <= Len(t)
      /\ \A i \in 1..Len(in) : in[i] = t[i]
  BY DEF Starts
<1>2. ValueStop(in, p) = FirstOf(S) /\ ValueStop(t, p) = FirstOf(T)
  BY DEF ValueStop, Scan, FirstOf
<1>3. /\ \A i \in p..Len(in) : i \in S <=> i \in T
      /\ \A i \in p..Len(in) : in[i] = "CR" => i \in S
      /\ \A i \in p..Len(t) : t[i] = "CR" => i \in T
      /\ S \subseteq p..Len(in) /\ T \subseteq p..Len(t)
  <2>1. "CR" \in Stops
    BY DEF Below
  <2> HIDE DEF Stops
  <2> QED
    BY <1>1, <2>1
<1> HIDE DEF S, T
<1>4. /\ Reads(in, t, p, FirstOf(S), FirstOf(T))
      /\ FirstOf(S) = Incomplete \/ (FirstOf(S) \in S /\ FirstOf(S) \in p..Len(in))
  BY <1>3, StopReads
<1> QED
  BY <1>2, <1>4 DEF Incomplete

LEMMA IntReads ==
  ASSUME NEW in, NEW t, Starts(in, t), NEW p \in Int, 1 <= p
  PROVE  /\ Reads(in, t, p, Int_(in, p), Int_(t, p))
         /\ Int_(in, p) < 0 \/ Int_(in, p) \in p..Len(in)
<1> DEFINE S == {i \in p..Len(in) : in[i] \notin Digits}
           T == {i \in p..Len(t) : t[i] \notin Digits}
<1>1. /\ Len(in) \in Nat /\ Len(t) \in Nat /\ Len(in) <= Len(t)
      /\ \A i \in 1..Len(in) : in[i] = t[i]
  BY DEF Starts
<1>2. /\ Scan(in, p, LAMBDA c : c \notin Digits) = FirstOf(S)
      /\ Scan(t, p, LAMBDA c : c \notin Digits) = FirstOf(T)
  BY DEF Scan, FirstOf
<1>3. /\ \A i \in p..Len(in) : i \in S <=> i \in T
      /\ \A i \in p..Len(in) : in[i] = "CR" => i \in S
      /\ \A i \in p..Len(t) : t[i] = "CR" => i \in T
      /\ S \subseteq p..Len(in) /\ T \subseteq p..Len(t)
  <2>1. "CR" \notin Digits
    BY DEF Digits
  <2> QED
    BY <1>1, <2>1
<1>4. /\ Int_(in, p) = IF p <= Len(in) /\ in[p] \notin Digits THEN Malformed ELSE FirstOf(S)
      /\ Int_(t, p) = IF p <= Len(t) /\ t[p] \notin Digits THEN Malformed ELSE FirstOf(T)
  BY <1>2 DEF Int_
<1> HIDE DEF S, T
<1>5. /\ Reads(in, t, p, FirstOf(S), FirstOf(T))
      /\ FirstOf(S) = Incomplete \/ (FirstOf(S) \in S /\ FirstOf(S) \in p..Len(in))
  BY <1>3, StopReads
<1>6. CASE p <= Len(in) /\ in[p] \notin Digits
  <2>1. p <= Len(t) /\ t[p] \notin Digits
    BY <1>1, <1>6
  <2>2. Int_(in, p) = Malformed /\ Int_(t, p) = Malformed /\ Malformed < 0
    BY <1>4, <1>6, <2>1 DEF Malformed
  <2> QED
    BY <2>2, MalformedReads
<1>7. CASE p <= Len(in) /\ in[p] \in Digits
  <2>1. p <= Len(t) /\ t[p] \in Digits
    BY <1>1, <1>7
  <2> QED
    BY <1>4, <1>5, <1>7, <2>1 DEF Incomplete
<1>8. CASE ~(p <= Len(in))
  <2>1. FirstOf(S) = Incomplete /\ Int_(in, p) = Incomplete
    BY <1>1, <1>4, <1>5, <1>8
  <2>2. CASE Int_(t, p) = FirstOf(T)
    BY <1>5, <2>1, <2>2 DEF Incomplete
  <2>3. CASE Int_(t, p) = Malformed
    <3>1. Outcome(t, p, Malformed) /\ Same(in, Incomplete, Malformed) /\ Incomplete < 0
      BY DEF Outcome, Same, Malformed, Incomplete
    <3> QED
      BY <1>5, <2>1, <2>3, <3>1 DEF Reads
  <2> QED
    BY <1>4, <2>2, <2>3
<1> QED
  BY <1>6, <1>7, <1>8

LEMMA ToLineEndReads ==
  ASSUME NEW in, NEW t, Starts(in, t), NEW p \in Int, 1 <= p
  PROVE  /\ Reads(in, t, p, ToLineEnd(in, p), ToLineEnd(t, p))
         /\ \/ ToLineEnd(in, p) < 0
            \/ /\ ToLineEnd(in, p) > ValueStop(in, p) /\ ValueStop(in, p) \in p..Len(in)
               /\ in[ToLineEnd(in, p) - 1] = "LF"
<1> DEFINE a == ValueStop(in, p)
           c == ValueStop(t, p)
           b == ToLineEnd(in, p)
           d == ToLineEnd(t, p)
<1>1. Reads(in, t, p, a, c) /\ (a < 0 \/ a \in p..Len(in)) /\ (c < 0 \/ c \in p..Len(t))
  BY ValueStopReads, StartsWhole
<1>2. b = (IF a < 0 THEN a ELSE LineEnd(in, a)) /\ d = (IF c < 0 THEN c ELSE LineEnd(t, c))
  BY DEF ToLineEnd, Then
<1>3. Starts(t, t) /\ Len(in) \in Nat /\ Len(t) \in Nat
  BY StartsWhole DEF Starts
<1> HIDE DEF a, b, c, d
<1>4. ~(a < 0) => a \in Int /\ 1 <= a
  BY <1>1, <1>3
<1>5. ~(c < 0) => c \in Int /\ 1 <= c
  BY <1>1, <1>3
<1>6. ~(a < 0) => Reads(in, t, a, b, d)
  <2> SUFFICES ASSUME ~(a < 0) PROVE Reads(in, t, a, b, d)
    OBVIOUS
  <2>1. a # Incomplete
    BY DEF Incomplete
  <2>2. c = a
    BY <1>1, <2>1 DEF Reads, Same
  <2> QED
    BY <1>2, <1>4, <2>2, LineEndReads
<1>7. ~(c < 0) => Outcome(t, c, d)
  <2> SUFFICES ASSUME ~(c < 0) PROVE Outcome(t, c, d)
    OBVIOUS
  <2>1. Reads(t, t, c, d, d)
    BY <1>2, <1>3, <1>5, LineEndReads
  <2> QED
    BY <2>1 DEF Reads
<1>8. Reads(in, t, p, b, d)
  BY <1>1, <1>2, <1>6, <1>7, ReadsFollows
<1>9. ~(b < 0) => b > a /\ a \in p..Len(in) /\ in[b - 1] = "LF"
  <2> SUFFICES ASSUME ~(b < 0) PROVE b > a /\ a \in p..Len(in) /\ in[b - 1] = "LF"
    OBVIOUS
  <2>1. ~(a < 0)
    BY <1>2
  <2>2. b = LineEnd(in, a) /\ a \in Int /\ 1 <= a
    BY <1>2, <1>4, <2>1
  <2>3. b > a /\ in[b - 1] = "LF"
    BY <2>2, LineEndReads
  <2> QED
    BY <1>1, <2>1, <2>3
<1> QED
  BY <1>8, <1>9 DEF a, b, c, d

\* The literal is read character by character.
LEMMA VersionSteps ==
  ASSUME NEW in, Len(in) \in Nat, NEW p \in Int, 1 <= p
  PROVE  HttpVersion(in, p) =
           LET a == Expect(in, p, "H")
               b == IF a < 0 THEN a ELSE Expect(in, a, ".")
           IN IF b < 0 THEN b ELSE Int_(in, b)
<1> DEFINE other == {i \in DOMAIN Version : p + i - 1 > Len(in) \/ in[p + i - 1] # Version[i]}
<1>1. Len(Version) = 2 /\ DOMAIN Version = {1, 2} /\ Version[1] = "H" /\ Version[2] = "."
  <2>1. DOMAIN Version = 1..2
    BY DEF Version
  <2> QED
    BY <2>1 DEF Version
<1>2. p + 1 - 1 = p /\ p + 2 - 1 = p + 1
  OBVIOUS
<1>3. 1 \in other <=> (p > Len(in) \/ in[p] # "H")
  BY <1>1, <1>2
<1>4. 2 \in other <=> (p + 1 > Len(in) \/ in[p + 1] # ".")
  BY <1>1, <1>2
<1>5. other \subseteq {1, 2}
  BY <1>1
<1>6. HttpVersion(in, p) =
        IF other = {} THEN Int_(in, p + 2) ELSE Expect(in, p + Min(other) - 1, Version[Min(other)])
  BY <1>1 DEF HttpVersion
<1> HIDE DEF other
<1>7. other # {} => Min(other) \in other /\ \A y \in other : Min(other) <= y
  <2>1. other \subseteq Nat
    BY <1>5
  <2> QED
    BY <2>1, LeastIsMin
<1>8. CASE 1 \in other
  <2>1. Min(other) = 1
    <3>1. Min(other) \in other /\ Min(other) <= 1
      BY <1>7, <1>8
    <3>2. Min(other) \in {1, 2}
      BY <1>5, <3>1
    <3> QED
      BY <3>1, <3>2
  <2>2. HttpVersion(in, p) = Expect(in, p, "H")
    BY <1>1, <1>2, <1>6, <1>8, <2>1
  <2>3. Expect(in, p, "H") < 0
    BY <1>3, <1>8 DEF Expect, Malformed, Incomplete
  <2> QED
    BY <2>2, <2>3
<1>9. CASE 1 \notin other /\ 2 \in other
  <2>1. Min(other) = 2
    <3>1. Min(other) \in other
      BY <1>7, <1>9
    <3> QED
      BY <1>5, <1>9, <3>1
  <2>2. HttpVersion(in, p) = Expect(in, p + 1, ".")
    BY <1>1, <1>2, <1>6, <1>9, <2>1
  <2>3. Expect(in, p, "H") = p + 1 /\ ~(p + 1 < 0)
    BY <1>3, <1>9 DEF Expect
  <2>4. Expect(in, p + 1, ".") < 0
    BY <1>4, <1>9 DEF Expect, Malformed, Incomplete
  <2> QED
    BY <2>2, <2>3, <2>4
<1>10. CASE 1 \notin other /\ 2 \notin other
  <2>1. other = {}
    BY <1>5, <1>10
  <2>2. Expect(in, p, "H") = p + 1 /\ ~(p + 1 < 0)
    BY <1>3, <1>10 DEF Expect
  <2>3. Expect(in, p + 1, ".") = p + 2 /\ ~(p + 2 < 0)
    BY <1>4, <1>10 DEF Expect
  <2> QED
    BY <1>6, <2>1, <2>2, <2>3
<1> QED
  BY <1>8, <1>9, <1>10

\* A scanner behind another, whose stop is where it begins.
LEMMA ReadsThen ==
  ASSUME NEW in, NEW t, Starts(in, t), NEW p \in Int, 1 <= p,
         NEW a, NEW c, Reads(in, t, p, a, c),
         NEW b, NEW d, a < 0 => b = a, c < 0 => d = c,
         a \in Int /\ 1 <= a /\ c = a => Reads(in, t, a, b, d),
         c \in Int /\ 1 <= c => Outcome(t, c, d)
  PROVE  Reads(in, t, p, b, d)
<1>1. /\ Len(in) \in Nat /\ Len(t) \in Nat
      /\ Outcome(in, p, a) /\ Outcome(t, p, c) /\ Same(in, a, c)
  BY DEF Reads, Starts
<1>2. ~(a < 0) => a \in Int /\ 1 <= a
  BY <1>1, OutcomeTypes
<1>3. ~(c < 0) => c \in Int /\ 1 <= c
  BY <1>1, OutcomeTypes
<1>4. ~(a < 0) => c = a
  BY <1>1 DEF Same, Incomplete
<1> QED
  BY <1>2, <1>3, <1>4, ReadsFollows

LEMMA VersionReads ==
  ASSUME NEW in, NEW t, Starts(in, t), NEW p \in Int, 1 <= p
  PROVE  /\ Reads(in, t, p, HttpVersion(in, p), HttpVersion(t, p))
         /\ HttpVersion(in, p) < 0 \/ HttpVersion(in, p) \in p..Len(in)
<1> DEFINE a == Expect(in, p, "H")
           b == IF a < 0 THEN a ELSE Expect(in, a, ".")
           e == IF b < 0 THEN b ELSE Int_(in, b)
           c == Expect(t, p, "H")
           d == IF c < 0 THEN c ELSE Expect(t, c, ".")
           f == IF d < 0 THEN d ELSE Int_(t, d)
<1>1. Starts(t, t) /\ Len(in) \in Nat /\ Len(t) \in Nat
  BY StartsWhole DEF Starts
<1>2. HttpVersion(in, p) = e /\ HttpVersion(t, p) = f
  BY <1>1, VersionSteps
<1>3. Reads(in, t, p, a, c) /\ "H" # "CR" /\ "." # "CR"
  BY ExpectReads
<1>4. b = (IF a < 0 THEN a ELSE Expect(in, a, ".")) /\ d = (IF c < 0 THEN c ELSE Expect(t, c, "."))
  OBVIOUS
<1>5. e = (IF b < 0 THEN b ELSE Int_(in, b)) /\ f = (IF d < 0 THEN d ELSE Int_(t, d))
  OBVIOUS
<1> HIDE DEF a, b, c, d, e, f
<1>6. a \in Int /\ 1 <= a /\ c = a => Reads(in, t, a, b, d)
  BY <1>3, <1>4, ExpectReads
<1>7. c \in Int /\ 1 <= c => Outcome(t, c, d)
  <2> SUFFICES ASSUME c \in Int, 1 <= c PROVE Outcome(t, c, d)
    OBVIOUS
  <2>1. Reads(t, t, c, Expect(t, c, "."), Expect(t, c, "."))
    BY <1>1, <1>3, ExpectReads
  <2> QED
    BY <1>4, <2>1 DEF Reads
<1>8. Reads(in, t, p, b, d)
  BY <1>3, <1>4, <1>6, <1>7, ReadsThen
<1>9. b \in Int /\ 1 <= b /\ d = b => Reads(in, t, b, e, f)
  BY <1>5, IntReads
<1>10. d \in Int /\ 1 <= d => Outcome(t, d, f)
  <2> SUFFICES ASSUME d \in Int, 1 <= d PROVE Outcome(t, d, f)
    OBVIOUS
  <2>1. Reads(t, t, d, Int_(t, d), Int_(t, d))
    BY <1>1, IntReads
  <2> QED
    BY <1>5, <2>1 DEF Reads
<1>11. Reads(in, t, p, e, f)
  BY <1>5, <1>8, <1>9, <1>10, ReadsThen
<1>12. e < 0 \/ e \in p..Len(in)
  <2> SUFFICES ASSUME ~(e < 0) PROVE e \in p..Len(in)
    OBVIOUS
  <2>1. ~(b < 0) /\ e = Int_(in, b)
    BY <1>5
  <2>2. b \in p..Len(in) + 1
    BY <1>1, <1>8, <2>1, OutcomeTypes DEF Reads
  <2>3. Int_(in, b) \in b..Len(in)
    BY <2>1, <2>2, IntReads
  <2> QED
    BY <1>1, <2>1, <2>2, <2>3
<1> QED
  BY <1>2, <1>11, <1>12

LEMMA NameStopReads ==
  ASSUME NEW in, NEW t, Starts(in, t), NEW p \in Int, 1 <= p
  PROVE  /\ Reads(in, t, p, NameStop(in, p), NameStop(t, p))
         /\ \/ NameStop(in, p) < 0
            \/ NameStop(in, p) \in p..Len(in) /\ in[NameStop(in, p)] = ":"
<1> DEFINE Stops == Below \cup {":"}
           S == {i \in p..Len(in) : in[i] \in Stops \/ (i >= Unsearched(in, p) /\ in[i] = "HIGH")}
           T == {i \in p..Len(t) : t[i] \in Stops \/ (i >= Unsearched(t, p) /\ t[i] = "HIGH")}
           a == FirstOf(S)
           b == FirstOf(T)
<1>1. /\ Len(in) \in Nat /\ Len(t) \in Nat /\ Len(in) <= Len(t)
      /\ \A i \in 1..Len(in) : in[i] = t[i]
  BY DEF Starts
<1>2. NameStop(in, p) = IF a = Incomplete THEN Incomplete ELSE IF in[a] = ":" THEN a ELSE Malformed
  <2>1. NameStop(in, p) = IF S = {} THEN Incomplete ELSE IF in[Min(S)] = ":" THEN Min(S) ELSE Malformed
    BY DEF NameStop
  <2>2. S # {} => Min(S) # Incomplete
    <3>1. S \subseteq Nat
      OBVIOUS
    <3> HIDE DEF S
    <3>2. S # {} => Min(S) \in Nat
      BY <3>1, LeastIsMin
    <3> QED
      BY <3>2 DEF Incomplete
  <2> HIDE DEF S
  <2> QED
    BY <2>1, <2>2 DEF FirstOf
<1>3. NameStop(t, p) = IF b = Incomplete THEN Incomplete ELSE IF t[b] = ":" THEN b ELSE Malformed
  <2>1. NameStop(t, p) = IF T = {} THEN Incomplete ELSE IF t[Min(T)] = ":" THEN Min(T) ELSE Malformed
    BY DEF NameStop
  <2>2. T # {} => Min(T) # Incomplete
    <3>1. T \subseteq Nat
      OBVIOUS
    <3> HIDE DEF T
    <3>2. T # {} => Min(T) \in Nat
      BY <3>1, LeastIsMin
    <3> QED
      BY <3>2 DEF Incomplete
  <2> HIDE DEF T
  <2> QED
    BY <2>1, <2>2 DEF FirstOf
<1>4. \A i \in p..Len(in) : i \in S <=> i \in T
  <2> SUFFICES ASSUME NEW i \in p..Len(in) PROVE i \in S <=> i \in T
    OBVIOUS
  <2>1. in[i] = t[i] /\ i \in p..Len(t)
    BY <1>1
  <2>2. in[i] = "HIGH" => (i >= Unsearched(in, p) <=> i >= Unsearched(t, p))
    <3>1. CASE in = t
      BY <3>1
    <3>2. CASE Block = 0
      <4>1. Unsearched(in, p) = p /\ Unsearched(t, p) = p
        BY <3>2 DEF Unsearched
      <4> QED
        BY <4>1
    <3>3. CASE \A k \in 1..Len(t) : t[k] # "HIGH"
      <4>1. i \in 1..Len(t)
        BY <2>1
      <4> QED
        BY <2>1, <3>3, <4>1
    <3> QED
      BY <3>1, <3>2, <3>3 DEF Starts, Plain
  <2> HIDE DEF Stops
  <2> QED
    BY <2>1, <2>2
<1>5. /\ \A i \in p..Len(in) : in[i] = "CR" => i \in S
      /\ \A i \in p..Len(t) : t[i] = "CR" => i \in T
      /\ S \subseteq p..Len(in) /\ T \subseteq p..Len(t)
  <2>1. "CR" \in Stops
    BY DEF Below
  <2> HIDE DEF Stops
  <2> QED
    BY <1>1, <2>1
<1> HIDE DEF S, T
<1>6. /\ Reads(in, t, p, a, b)
      /\ a = Incomplete \/ (a \in S /\ a \in p..Len(in))
  BY <1>4, <1>5, StopReads
<1> HIDE DEF a, b
<1>7. CASE a = Incomplete
  <2>1. NameStop(in, p) = Incomplete /\ NameStop(in, p) < 0
    BY <1>2, <1>7 DEF Incomplete
  <2>2. Same(in, NameStop(in, p), NameStop(t, p))
    BY <1>3, <1>6, <1>7, <2>1 DEF Reads, Same, Malformed, Incomplete
  <2>3. Outcome(t, p, NameStop(t, p))
    BY <1>3, <1>6 DEF Reads, Outcome
  <2> QED
    BY <1>6, <1>7, <2>1, <2>2, <2>3 DEF Reads
<1>8. CASE a \in S /\ a \in p..Len(in)
  <2>1. b = a /\ a # Incomplete /\ t[a] = in[a]
    <3>1. a # Incomplete /\ a \in 1..Len(in)
      BY <1>1, <1>8 DEF Incomplete
    <3> QED
      BY <1>1, <1>6, <3>1 DEF Reads, Same
  <2>2. NameStop(t, p) = NameStop(in, p)
        /\ (NameStop(in, p) = Malformed \/ (NameStop(in, p) = a /\ in[a] = ":"))
    BY <1>2, <1>3, <2>1
  <2>3. CASE NameStop(in, p) = Malformed
    <3>1. Malformed < 0
      BY DEF Malformed
    <3> QED
      BY <2>2, <2>3, <3>1, MalformedReads
  <2>4. CASE NameStop(in, p) = a /\ in[a] = ":"
    BY <1>6, <1>8, <2>1, <2>2, <2>4
  <2> QED
    BY <2>2, <2>3, <2>4
<1> QED
  BY <1>6, <1>7, <1>8

-------------------------------------------------------------------------------
(***************************************************************************)
(* A line                                                                  *)
(***************************************************************************)
\* Behind the blanks in front of a value.
BlankStop(in, p) == Scan(in, p, LAMBDA c : c \notin Blanks)

LEMMA BlankStopReads ==
  ASSUME NEW in, NEW t, Starts(in, t), NEW p \in Int, 1 <= p
  PROVE  /\ Reads(in, t, p, BlankStop(in, p), BlankStop(t, p))
         /\ BlankStop(in, p) < 0 \/ BlankStop(in, p) \in p..Len(in)
<1> DEFINE S == {i \in p..Len(in) : in[i] \notin Blanks}
           T == {i \in p..Len(t) : t[i] \notin Blanks}
<1>1. /\ Len(in) \in Nat /\ Len(t) \in Nat /\ Len(in) <= Len(t)
      /\ \A i \in 1..Len(in) : in[i] = t[i]
  BY DEF Starts
<1>2. BlankStop(in, p) = FirstOf(S) /\ BlankStop(t, p) = FirstOf(T)
  BY DEF BlankStop, Scan, FirstOf
<1>3. /\ \A i \in p..Len(in) : i \in S <=> i \in T
      /\ \A i \in p..Len(in) : in[i] = "CR" => i \in S
      /\ \A i \in p..Len(t) : t[i] = "CR" => i \in T
      /\ S \subseteq p..Len(in) /\ T \subseteq p..Len(t)
  <2>1. "CR" \notin Blanks
    BY DEF Blanks
  <2> QED
    BY <1>1, <2>1
<1> HIDE DEF S, T
<1>4. /\ Reads(in, t, p, FirstOf(S), FirstOf(T))
      /\ FirstOf(S) = Incomplete \/ (FirstOf(S) \in S /\ FirstOf(S) \in p..Len(in))
  BY <1>3, StopReads
<1> QED
  BY <1>2, <1>4 DEF Incomplete

\* A field's ranges lie one behind the other, in the line that begins at p.
Ranges(in, p, line) ==
  /\ \/ line.name = NULL
     \/ /\ line.name.from = p /\ line.name.to \in p..Len(in)
        /\ line.name.to < line.value.from
  /\ line.value.from \in p..Len(in) /\ line.value.to \in p..Len(in)
  /\ line.value.from <= line.value.to /\ line.value.to < line.next
  /\ line.next \in p + 1..Len(in) + 1 /\ in[line.next - 1] = "LF"

\* The line from its parts.
Folded(in, p, first) == ~first /\ in[p] \in Blanks

Colon(in, p) == IF TokenChar(in[p]) THEN NameStop(in, p) ELSE Malformed

ValueStart(in, p, first) ==
  IF Folded(in, p, first) THEN p
  ELSE IF Colon(in, p) < 0 THEN Colon(in, p) ELSE BlankStop(in, Colon(in, p) + 1)

LEMMA LineParts ==
  ASSUME NEW in, NEW p, NEW first
  PROVE  LET line == Line(in, p, first)
             v == ValueStart(in, p, first)
         IN /\ line.name = IF Folded(in, p, first) THEN NULL ELSE [from |-> p, to |-> Colon(in, p)]
            /\ line.value.from = v
            /\ ~(v < 0) => line.value.to = ValueStop(in, v)
            /\ line.next = IF v < 0 THEN v ELSE ToLineEnd(in, v)
<1> DEFINE v == ValueStart(in, p, first)
           stop == IF v < 0 THEN v ELSE ValueStop(in, v)
           line == Line(in, p, first)
<1>1. line =
        [name  |-> IF Folded(in, p, first) THEN NULL
                   ELSE [from |-> p, to |-> IF Folded(in, p, first) THEN p ELSE Colon(in, p)],
         value |-> [from |-> v, to |-> stop],
         next  |-> IF stop < 0 THEN stop ELSE LineEnd(in, stop)]
  BY DEF Line, Folded, Colon, ValueStart, BlankStop, Then
<1>2. ~(v < 0) => ToLineEnd(in, v) = IF stop < 0 THEN stop ELSE LineEnd(in, stop)
  BY DEF ToLineEnd, Then
<1> HIDE DEF v, line
<1>3. /\ line.name = IF Folded(in, p, first) THEN NULL ELSE [from |-> p, to |-> Colon(in, p)]
      /\ line.value.from = v
      /\ line.value.to = stop
      /\ line.next = IF stop < 0 THEN stop ELSE LineEnd(in, stop)
  BY <1>1
<1>4. /\ ~(v < 0) => line.value.to = ValueStop(in, v)
      /\ line.next = IF v < 0 THEN v ELSE ToLineEnd(in, v)
  BY <1>2, <1>3
<1> QED
  BY <1>3, <1>4 DEF v, line

LEMMA ColonReads ==
  ASSUME NEW in, NEW t, Starts(in, t), NEW p \in Int, 1 <= p, p <= Len(in)
  PROVE  /\ Reads(in, t, p, Colon(in, p), Colon(t, p))
         /\ Colon(in, p) < 0 \/ (Colon(in, p) \in p..Len(in) /\ in[Colon(in, p)] = ":")
<1>1. in[p] = t[p]
  BY DEF Starts
<1>2. CASE TokenChar(in[p])
  BY <1>1, <1>2, NameStopReads DEF Colon
<1>3. CASE ~TokenChar(in[p])
  <2>1. Colon(in, p) = Malformed /\ Colon(t, p) = Malformed /\ Malformed < 0
    BY <1>1, <1>3 DEF Colon, Malformed
  <2> QED
    BY <2>1, MalformedReads
<1> QED
  BY <1>2, <1>3

LEMMA ValueStartReads ==
  ASSUME NEW in, NEW t, Starts(in, t), NEW p \in Int, 1 <= p, p <= Len(in), NEW first
  PROVE  /\ Reads(in, t, p, ValueStart(in, p, first), ValueStart(t, p, first))
         /\ \/ ValueStart(in, p, first) < 0
            \/ /\ ValueStart(in, p, first) \in p..Len(in)
               /\ \/ Folded(in, p, first)
                  \/ Colon(in, p) \in p..Len(in) /\ Colon(in, p) < ValueStart(in, p, first)
<1> DEFINE a == Colon(in, p)
           c == Colon(t, p)
           b == ValueStart(in, p, first)
           d == ValueStart(t, p, first)
<1>1. in[p] = t[p] /\ Len(in) \in Nat /\ Len(t) \in Nat /\ Len(in) <= Len(t) /\ Starts(t, t)
  BY StartsWhole DEF Starts
<1>2. Folded(in, p, first) <=> Folded(t, p, first)
  BY <1>1 DEF Folded
<1>3. CASE Folded(in, p, first)
  <2>1. b = p /\ d = p
    BY <1>2, <1>3 DEF ValueStart
  <2>2. Outcome(in, p, p) /\ Outcome(t, p, p)
    BY <1>1 DEF Outcome, Clean
  <2>3. Same(in, p, p)
    BY DEF Same, Incomplete
  <2> HIDE DEF b, d
  <2>4. Reads(in, t, p, b, d) /\ b \in p..Len(in)
    BY <1>1, <2>1, <2>2, <2>3 DEF Reads
  <2> QED
    BY <1>3, <2>4 DEF b, d
<1>4. CASE ~Folded(in, p, first)
  <2>1. /\ b = IF a < 0 THEN a ELSE BlankStop(in, a + 1)
        /\ d = IF c < 0 THEN c ELSE BlankStop(t, c + 1)
    BY <1>2, <1>4 DEF ValueStart
  <2>2. Reads(in, t, p, a, c) /\ (a < 0 \/ (a \in p..Len(in) /\ in[a] = ":"))
    BY ColonReads
  <2>3. c < 0 \/ (c \in p..Len(t) /\ t[c] = ":")
    <3>1. p <= Len(t)
      BY <1>1
    <3> QED
      BY <1>1, <3>1, ColonReads
  <2> HIDE DEF a, b, c, d
  <2>4. a \in Int /\ 1 <= a /\ c = a => Reads(in, t, a, b, d)
    <3> SUFFICES ASSUME a \in Int, 1 <= a, c = a PROVE Reads(in, t, a, b, d)
      OBVIOUS
    <3>1. a <= Len(in) /\ in[a] = ":" /\ a + 1 \in Int /\ 1 <= a + 1
      BY <1>1, <2>2
    <3>2. Reads(in, t, a + 1, b, d)
      BY <2>1, <3>1, BlankStopReads
    <3> QED
      BY <3>1, <3>2, ReadsSkips
  <2>5. c \in Int /\ 1 <= c => Outcome(t, c, d)
    <3> SUFFICES ASSUME c \in Int, 1 <= c PROVE Outcome(t, c, d)
      OBVIOUS
    <3>1. c <= Len(t) /\ t[c] = ":" /\ c + 1 \in Int /\ 1 <= c + 1
      BY <1>1, <2>3
    <3>2. Reads(t, t, c + 1, d, d)
      BY <1>1, <2>1, <3>1, BlankStopReads
    <3>3. Reads(t, t, c, d, d)
      BY <1>1, <3>1, <3>2, ReadsSkips
    <3> QED
      BY <3>3 DEF Reads
  <2>6. Reads(in, t, p, b, d)
    BY <2>1, <2>2, <2>4, <2>5, ReadsThen
  <2>7. ~(b < 0) => b \in p..Len(in) /\ a \in p..Len(in) /\ a < b
    <3> SUFFICES ASSUME ~(b < 0) PROVE b \in p..Len(in) /\ a \in p..Len(in) /\ a < b
      OBVIOUS
    <3>1. ~(a < 0) /\ b = BlankStop(in, a + 1)
      BY <2>1
    <3>2. a \in p..Len(in) /\ a + 1 \in Int /\ 1 <= a + 1
      BY <1>1, <2>2, <3>1
    <3>3. b \in a + 1..Len(in)
      BY <3>1, <3>2, BlankStopReads
    <3> QED
      BY <1>1, <3>2, <3>3
  <2> QED
    BY <2>6, <2>7 DEF a, b, c, d
<1> QED
  BY <1>3, <1>4

LEMMA LineReads ==
  ASSUME NEW in, NEW t, Starts(in, t), NEW p \in Int, 1 <= p, p <= Len(in), NEW first
  PROVE  /\ Reads(in, t, p, Line(in, p, first).next, Line(t, p, first).next)
         /\ Line(in, p, first).next < 0 \/ Ranges(in, p, Line(in, p, first))
<1> DEFINE line == Line(in, p, first)
           more == Line(t, p, first)
           v == ValueStart(in, p, first)
           w == ValueStart(t, p, first)
           b == line.next
           d == more.next
<1>1. Len(in) \in Nat /\ Len(t) \in Nat /\ Len(in) <= Len(t) /\ Starts(t, t)
  BY StartsWhole DEF Starts
<1>2. /\ line.name = IF Folded(in, p, first) THEN NULL ELSE [from |-> p, to |-> Colon(in, p)]
      /\ line.value.from = v
      /\ ~(v < 0) => line.value.to = ValueStop(in, v)
      /\ b = IF v < 0 THEN v ELSE ToLineEnd(in, v)
  BY LineParts
<1>3. d = IF w < 0 THEN w ELSE ToLineEnd(t, w)
  BY LineParts
<1>4. /\ Reads(in, t, p, v, w)
      /\ \/ v < 0
         \/ /\ v \in p..Len(in)
            /\ Folded(in, p, first) \/ (Colon(in, p) \in p..Len(in) /\ Colon(in, p) < v)
  BY ValueStartReads
<1> HIDE DEF v, w, line, more
<1>5. v \in Int /\ 1 <= v /\ w = v => Reads(in, t, v, b, d)
  <2> SUFFICES ASSUME v \in Int, 1 <= v, w = v PROVE Reads(in, t, v, b, d)
    OBVIOUS
  <2> QED
    BY <1>2, <1>3, ToLineEndReads
<1>6. w \in Int /\ 1 <= w => Outcome(t, w, d)
  <2> SUFFICES ASSUME w \in Int, 1 <= w PROVE Outcome(t, w, d)
    OBVIOUS
  <2>1. Reads(t, t, w, ToLineEnd(t, w), ToLineEnd(t, w))
    BY <1>1, ToLineEndReads
  <2> QED
    BY <1>3, <2>1 DEF Reads
<1>7. Reads(in, t, p, b, d)
  BY <1>2, <1>3, <1>4, <1>5, <1>6, ReadsThen
<1>8. ~(b < 0) => Ranges(in, p, line)
  <2> SUFFICES ASSUME ~(b < 0) PROVE Ranges(in, p, line)
    OBVIOUS
  <2>1. ~(v < 0) /\ b = ToLineEnd(in, v) /\ line.value.to = ValueStop(in, v) /\ line.value.from = v
    BY <1>2
  <2>2. v \in p..Len(in) /\ v \in Int /\ 1 <= v
    BY <1>1, <1>4, <2>1
  <2>3. b > ValueStop(in, v) /\ ValueStop(in, v) \in v..Len(in) /\ in[b - 1] = "LF"
    BY <2>1, <2>2, ToLineEndReads
  <2>4. b \in Int /\ b \in p..Len(in) + 1
    BY <1>1, <1>7, OutcomeTypes DEF Reads
  <2>5. /\ \/ line.name = NULL
           \/ line.name.from = p /\ line.name.to \in p..Len(in) /\ line.name.to < line.value.from
    BY <1>2, <1>4, <2>1
  <2>6. /\ line.value.from \in p..Len(in) /\ line.value.to \in p..Len(in)
        /\ line.value.from <= line.value.to /\ line.value.to < b
    BY <1>1, <2>1, <2>2, <2>3
  <2>7. b \in p + 1..Len(in) + 1
    BY <1>1, <2>4, <2>6
  <2> QED
    BY <2>3, <2>5, <2>6, <2>7 DEF Ranges
<1> QED
  BY <1>7, <1>8 DEF line, more

\* A line whose end has arrived is the same line of a longer input.
LEMMA LineStays ==
  ASSUME NEW in, NEW t, Starts(in, t), NEW p \in Int, 1 <= p, p <= Len(in), NEW first,
         ~(Line(in, p, first).next < 0)
  PROVE  Line(t, p, first) = Line(in, p, first)
<1> DEFINE v == ValueStart(in, p, first)
           w == ValueStart(t, p, first)
           a == IF Folded(in, p, first) THEN p ELSE Colon(in, p)
           c == IF Folded(t, p, first) THEN p ELSE Colon(t, p)
           b == IF v < 0 THEN v ELSE ValueStop(in, v)
           d == IF w < 0 THEN w ELSE ValueStop(t, w)
           e == IF b < 0 THEN b ELSE LineEnd(in, b)
           g == IF d < 0 THEN d ELSE LineEnd(t, d)
           f == Folded(in, p, first)
           h == Folded(t, p, first)
           line == Line(in, p, first)
           more == Line(t, p, first)
<1>1. line = [name |-> IF f THEN NULL ELSE [from |-> p, to |-> a],
              value |-> [from |-> v, to |-> b], next |-> e]
  BY DEF Line, Folded, Colon, ValueStart, BlankStop, Then
<1>2. more = [name |-> IF h THEN NULL ELSE [from |-> p, to |-> c],
              value |-> [from |-> w, to |-> d], next |-> g]
  BY DEF Line, Folded, Colon, ValueStart, BlankStop, Then
<1>3. f = h
  BY DEF Folded, Starts
<1>4. line.next = e
  <2> HIDE DEF line, e, f, v, b
  <2> QED
    BY <1>1
<1>5. more.next = g
  <2> HIDE DEF more, g, h, w, d
  <2> QED
    BY <1>2
<1>6. ~(e < 0)
  <2> HIDE DEF e
  <2> QED
    BY <1>4
<1>7. e = g
  <2>1. Reads(in, t, p, line.next, more.next)
    BY LineReads
  <2> HIDE DEF line, more, e, g
  <2> QED
    BY <1>4, <1>5, <1>6, <2>1, SameStop
<1>8. ~(b < 0)
  <2> HIDE DEF b
  <2> QED
    BY <1>6
<1>9. ~(v < 0) /\ b = ValueStop(in, v)
  <2> HIDE DEF v
  <2> QED
    BY <1>8
<1>10. /\ Reads(in, t, p, v, w)
       /\ v \in p..Len(in)
  BY <1>9, ValueStartReads
<1> HIDE DEF v, w
<1>11. w = v
  BY <1>9, <1>10, SameStop
<1>12. d = b
  <2>1. d = ValueStop(t, v)
    BY <1>9, <1>11
  <2>2. v \in Int /\ 1 <= v
    BY <1>10 DEF Starts
  <2>3. Reads(in, t, v, ValueStop(in, v), ValueStop(t, v))
    BY <2>2, ValueStopReads
  <2> HIDE DEF b, d
  <2> QED
    BY <1>8, <1>9, <2>1, <2>3, SameStop
<1>13. f \/ a = c
  <2>1. CASE f
    BY <2>1
  <2>2. CASE ~f
    <3>1. a = Colon(in, p) /\ c = Colon(t, p)
      BY <1>3, <2>2
    <3>2. ~(Colon(in, p) < 0)
      BY <1>9, <2>2 DEF v, ValueStart
    <3>3. Reads(in, t, p, Colon(in, p), Colon(t, p))
      BY ColonReads
    <3> QED
      BY <3>1, <3>2, <3>3, SameStop
  <2> QED
    BY <2>1, <2>2
<1> HIDE DEF line, more, a, b, c, d, e, f, g, h
<1> QED
  BY <1>1, <1>2, <1>3, <1>7, <1>11, <1>12, <1>13 DEF line, more

-------------------------------------------------------------------------------
(***************************************************************************)
(* The lines                                                               *)
(***************************************************************************)
\* What Headers computes its value from: what has been read with n lines behind.
ReadsLines(f, in, start) ==
  f = [n \in 0..MaxFields |->
         IF n = 0 THEN [next |-> start, fields |-> <<>>] ELSE NextLine(in, f[n - 1])]

LEMMA ReadsLinesAt ==
  ASSUME NEW in, NEW start, NEW f, ReadsLines(f, in, start)
  PROVE  /\ f[0] = [next |-> start, fields |-> <<>>]
         /\ \A n \in 0..MaxFields - 1 : f[n + 1] = NextLine(in, f[n])
<1>1. f = [n \in 0..MaxFields |->
             IF n = 0 THEN [next |-> start, fields |-> <<>>] ELSE NextLine(in, f[n - 1])]
  BY DEF ReadsLines
<1>2. MaxFields \in Nat /\ 0 \in 0..MaxFields
  BY MaxFieldsAssumption
<1>3. f[0] = [next |-> start, fields |-> <<>>]
  BY <1>1, <1>2
<1>4. ASSUME NEW n \in 0..MaxFields - 1 PROVE f[n + 1] = NextLine(in, f[n])
  <2>1. n + 1 \in 0..MaxFields /\ n + 1 # 0 /\ (n + 1) - 1 = n
    BY <1>2
  <2>2. f[n + 1] = NextLine(in, f[(n + 1) - 1])
    BY <1>1, <2>1
  <2> QED
    BY <2>1, <2>2
<1> QED
  BY <1>3, <1>4

\* There is such a function for every input.
LEMMA ReadsLinesExists ==
  ASSUME NEW in, NEW start
  PROVE  \E f : ReadsLines(f, in, start)
<1> DEFINE
      Upto(f, n) == f = [i \in 0..n |-> IF i = 0 THEN [next |-> start, fields |-> <<>>]
                                        ELSE NextLine(in, f[i - 1])]
      T == {n \in Nat : \E f : Upto(f, n)}
<1>1. 0 \in T
  <2> DEFINE g == [i \in 0..0 |-> [next |-> start, fields |-> <<>>]]
  <2>1. Upto(g, 0)
    <3>1. \A i \in 0..0 : i = 0
      OBVIOUS
    <3> QED
      BY <3>1
  <2> QED
    BY <2>1
<1>2. ASSUME NEW n \in Nat, n \in T
      PROVE  n + 1 \in T
  <2>1. PICK f : Upto(f, n)
    BY <1>2
  <2> DEFINE g == [i \in 0..n + 1 |-> IF i = n + 1 THEN NextLine(in, f[n]) ELSE f[i]]
  <2>2. \A i \in 0..n : g[i] = f[i]
    OBVIOUS
  <2>3. \A i \in 0..n + 1 : g[i] = IF i = 0 THEN [next |-> start, fields |-> <<>>]
                                   ELSE NextLine(in, g[i - 1])
    <3> TAKE i \in 0..n + 1
    <3>1. CASE i = n + 1
      <4>1. i - 1 = n /\ n \in 0..n /\ i # 0
        BY <3>1
      <4>2. g[i] = NextLine(in, f[n])
        BY <3>1
      <4> QED
        BY <2>2, <4>1, <4>2
    <3>2. CASE i # n + 1
      <4>1. i \in 0..n /\ (i # 0 => i - 1 \in 0..n)
        BY <3>2
      <4>2. f[i] = IF i = 0 THEN [next |-> start, fields |-> <<>>] ELSE NextLine(in, f[i - 1])
        BY <2>1, <4>1
      <4> QED
        BY <2>2, <4>1, <4>2
    <3> QED
      BY <3>1, <3>2
  <2>4. Upto(g, n + 1)
    <3> HIDE DEF g
    <3>1. g = [i \in 0..n + 1 |-> g[i]]
      BY DEF g
    <3> QED
      BY <2>3, <3>1
  <2> HIDE DEF Upto
  <2> QED
    BY <2>4
<1>3. MaxFields \in T
  <2> HIDE DEF T
  <2> QED
    BY <1>1, <1>2, NatSetInduction, MaxFieldsAssumption
<1> QED
  BY <1>3 DEF ReadsLines

\* The lines read so far are a record, of which every step makes another.
LEMMA HeadersValue ==
  ASSUME NEW in, NEW start
  PROVE  \E f : /\ ReadsLines(f, in, start)
                /\ Headers(in, start).fields = f[MaxFields].fields
                /\ Headers(in, start).next =
                     IF f[MaxFields].next < 0 THEN f[MaxFields].next ELSE LineEnd(in, f[MaxFields].next)
<1> DEFINE g == CHOOSE f :
                  f = [n \in 0..MaxFields |->
                         IF n = 0 THEN [next |-> start, fields |-> <<>>] ELSE NextLine(in, f[n - 1])]
<1>1. \E f : f = [n \in 0..MaxFields |->
                    IF n = 0 THEN [next |-> start, fields |-> <<>>] ELSE NextLine(in, f[n - 1])]
  <2>1. PICK f : ReadsLines(f, in, start)
    BY ReadsLinesExists
  <2>2. f = [n \in 0..MaxFields |->
               IF n = 0 THEN [next |-> start, fields |-> <<>>] ELSE NextLine(in, f[n - 1])]
    BY <2>1 DEF ReadsLines
  <2> QED
    BY <2>2
<1>2. g = [n \in 0..MaxFields |->
             IF n = 0 THEN [next |-> start, fields |-> <<>>] ELSE NextLine(in, g[n - 1])]
  BY <1>1
<1>3. Headers(in, start) = [g[MaxFields] EXCEPT !.next = Then(g[MaxFields].next, LAMBDA p : LineEnd(in, p))]
  BY DEF Headers
<1> HIDE DEF g
<1>4. ReadsLines(g, in, start)
  BY <1>2 DEF ReadsLines
<1> DEFINE T == {n \in Nat : n <= MaxFields => g[n] = [next |-> g[n].next, fields |-> g[n].fields]}
<1>5. 0 \in T
  <2>1. g[0] = [next |-> start, fields |-> <<>>]
    BY <1>4, ReadsLinesAt
  <2>2. g[0] = [next |-> g[0].next, fields |-> g[0].fields]
    BY <2>1
  <2> QED
    BY <2>2
<1>6. ASSUME NEW n \in Nat, n \in T PROVE n + 1 \in T
  <2> SUFFICES ASSUME n + 1 <= MaxFields
               PROVE  g[n + 1] = [next |-> g[n + 1].next, fields |-> g[n + 1].fields]
    OBVIOUS
  <2>1. n \in 0..MaxFields - 1 /\ n <= MaxFields
    BY MaxFieldsAssumption
  <2>2. g[n + 1] = NextLine(in, g[n]) /\ g[n] = [next |-> g[n].next, fields |-> g[n].fields]
    BY <1>4, <1>6, <2>1, ReadsLinesAt
  <2>3. NextLine(in, g[n]) = g[n] \/
        \E a, b : NextLine(in, g[n]) = [next |-> a, fields |-> b]
    BY DEF NextLine
  <2>4. CASE NextLine(in, g[n]) = g[n]
    <3>1. g[n + 1] = g[n]
      BY <2>2, <2>4
    <3> QED
      BY <2>2, <3>1
  <2>5. CASE \E a, b : NextLine(in, g[n]) = [next |-> a, fields |-> b]
    <3>1. PICK a, b : NextLine(in, g[n]) = [next |-> a, fields |-> b]
      BY <2>5
    <3> QED
      BY <2>2, <3>1
  <2> QED
    BY <2>3, <2>4, <2>5
<1>7. MaxFields \in T
  <2> HIDE DEF T
  <2> QED
    BY <1>5, <1>6, NatSetInduction, MaxFieldsAssumption
<1>8. g[MaxFields] = [next |-> g[MaxFields].next, fields |-> g[MaxFields].fields]
  BY <1>7, MaxFieldsAssumption
<1> DEFINE m == g[MaxFields].next
           l == g[MaxFields].fields
           e == IF m < 0 THEN m ELSE LineEnd(in, m)
<1>9. Headers(in, start) = [[next |-> m, fields |-> l] EXCEPT !.next = e]
  BY <1>3, <1>8 DEF Then
<1> HIDE DEF m, l, e
<1>10. Headers(in, start).next = e /\ Headers(in, start).fields = l
  BY <1>9
<1> QED
  BY <1>4, <1>10 DEF m, l, e

-------------------------------------------------------------------------------
\* The input may end between two lines: more of it is another line, or the end of the header.
Stays(in, q, r) == IF q = Incomplete \/ q > Len(in) THEN r < 0 \/ r > Len(in) ELSE r = q

\* What one line more changes of where the lines end.
LEMMA NextLineEnds ==
  ASSUME NEW in, NEW lines
  PROVE  LET p == lines.next
             more == ~(p < 0 \/ p > Len(in) \/ in[p] \in LineEnds)
         IN /\ ~more => NextLine(in, lines) = lines
            /\ more => /\ NextLine(in, lines).next = Line(in, p, lines.fields = <<>>).next
                       /\ NextLine(in, lines).fields = Append(lines.fields, Line(in, p, lines.fields = <<>>))
  BY DEF NextLine

LEMMA NextLineOutcome ==
  ASSUME NEW in, Len(in) \in Nat, NEW p \in Int, 1 <= p, NEW lines, Outcome(in, p, lines.next)
  PROVE  /\ Outcome(in, p, NextLine(in, lines).next)
         /\ lines.next < 0 => NextLine(in, lines).next = lines.next
         /\ ~(lines.next < 0) => \/ NextLine(in, lines).next < 0
                                 \/ NextLine(in, lines).next >= lines.next
<1> DEFINE a == lines.next
           b == NextLine(in, lines).next
<1>1. CASE a < 0 \/ a > Len(in) \/ in[a] \in LineEnds
  <2>1. b = a
    BY <1>1, NextLineEnds
  <2>2. a \in Int
    BY OutcomeTypes
  <2> HIDE DEF a, b
  <2>3. Outcome(in, p, a)
    BY DEF a
  <2>4. Outcome(in, p, b) /\ (a < 0 => b = a) /\ (~(a < 0) => b < 0 \/ b >= a)
    BY <2>1, <2>2, <2>3
  <2> QED
    BY <2>4 DEF a, b
<1>2. CASE ~(a < 0 \/ a > Len(in) \/ in[a] \in LineEnds)
  <2>1. b = Line(in, a, lines.fields = <<>>).next
    BY <1>2, NextLineEnds
  <2>2. a \in Int /\ a \in p..Len(in) + 1
    BY <1>2, OutcomeTypes
  <2>3. 1 <= a /\ a <= Len(in) /\ Starts(in, in)
    BY <1>2, <2>2 DEF Starts
  <2> HIDE DEF a, b
  <2>4. Outcome(in, a, b)
    BY <2>1, <2>2, <2>3, LineReads DEF Reads
  <2>5. Outcome(in, p, a) /\ ~(a < 0)
    BY <1>2 DEF a
  <2>6. Outcome(in, p, b)
    BY <2>4, <2>5, OutcomeFollows
  <2>7. b < 0 \/ b \in a..Len(in) + 1
    BY <2>2, <2>3, <2>4, OutcomeTypes
  <2>8. b < 0 \/ b >= a
    BY <2>2, <2>7
  <2> QED
    BY <2>5, <2>6, <2>8 DEF a, b
<1> QED
  BY <1>1, <1>2

LEMMA NextLineReads ==
  ASSUME NEW in, NEW t, Starts(in, t), NEW p \in Int, 1 <= p, NEW lines, NEW more,
         Outcome(in, p, lines.next), Outcome(t, p, more.next), Stays(in, lines.next, more.next),
         lines.next \in 1..Len(in) => (lines.fields = <<>> <=> more.fields = <<>>)
  PROVE  Stays(in, NextLine(in, lines).next, NextLine(t, more).next)
<1> DEFINE a == lines.next
           c == more.next
           b == NextLine(in, lines).next
           d == NextLine(t, more).next
<1>1. /\ Len(in) \in Nat /\ Len(t) \in Nat /\ Len(in) <= Len(t)
      /\ \A i \in 1..Len(in) : in[i] = t[i]
  BY DEF Starts
<1>2. a \in Int /\ c \in Int
  BY <1>1, OutcomeTypes
<1>3. (c < 0 => d = c) /\ (~(c < 0) => d < 0 \/ d >= c) /\ d \in Int
  BY <1>1, NextLineOutcome, OutcomeTypes
<1>4. CASE a = Incomplete \/ a > Len(in)
  <2>1. c < 0 \/ c > Len(in)
    BY <1>4 DEF Stays
  <2>2. b = a
    <3>1. a < 0 \/ a > Len(in)
      BY <1>4 DEF Incomplete
    <3> QED
      BY <3>1, NextLineEnds
  <2> HIDE DEF a, b, c, d
  <2>3. d < 0 \/ d > Len(in)
    BY <1>1, <1>2, <1>3, <2>1
  <2>4. Stays(in, b, d)
    BY <1>4, <2>2, <2>3 DEF Stays
  <2> QED
    BY <2>4 DEF b, d
<1>5. CASE ~(a = Incomplete \/ a > Len(in)) /\ a < 0
  <2>1. c = a
    BY <1>5 DEF Stays
  <2>2. b = a /\ d = a
    <3>1. b = a
      BY <1>5, NextLineEnds
    <3> QED
      BY <1>3, <1>5, <2>1, <3>1
  <2> HIDE DEF a, b, c, d
  <2>3. Stays(in, b, d)
    BY <1>5, <2>2 DEF Stays
  <2> QED
    BY <2>3 DEF b, d
<1>6. CASE ~(a = Incomplete \/ a > Len(in)) /\ ~(a < 0)
  <2>1. c = a
    BY <1>6 DEF Stays
  <2>2. a \in p..Len(in) + 1
    BY <1>1, <1>6, OutcomeTypes
  <2>3. a \in 1..Len(in) /\ 1 <= a /\ a <= Len(in) /\ a <= Len(t) /\ in[a] = t[a]
    BY <1>1, <1>2, <1>6, <2>2
  <2>4. CASE in[a] \in LineEnds
    <3>1. b = a /\ d = a
      BY <2>1, <2>3, <2>4, NextLineEnds
    <3> HIDE DEF a, b, c, d
    <3>2. Stays(in, b, d)
      BY <1>6, <3>1 DEF Stays
    <3> QED
      BY <3>2 DEF b, d
  <2>5. CASE in[a] \notin LineEnds
    <3>1. b = Line(in, a, lines.fields = <<>>).next
      BY <1>6, <2>5, NextLineEnds
    <3>2. ~(c < 0) /\ ~(c > Len(t)) /\ t[c] \notin LineEnds
      BY <1>1, <1>2, <1>6, <2>1, <2>3, <2>5
    <3>3. d = Line(t, a, more.fields = <<>>).next
      BY <2>1, <3>2, NextLineEnds
    <3>4. (lines.fields = <<>>) = (more.fields = <<>>)
      BY <2>3
    <3> HIDE DEF a, b, c, d
    <3>5. Reads(in, t, a, b, d)
      BY <1>2, <2>3, <3>1, <3>3, <3>4, LineReads
    <3>6. Stays(in, b, d)
      BY <3>5 DEF Reads, Same, Stays
    <3> QED
      BY <3>6 DEF b, d
  <2> QED
    BY <2>4, <2>5
<1> QED
  BY <1>4, <1>5, <1>6

IsSequence(s) == \E S : s \in Seq(S)

LEMMA AppendSeq ==
  ASSUME NEW s, IsSequence(s), NEW e
  PROVE  /\ IsSequence(Append(s, e)) /\ Len(s) \in Nat /\ Len(Append(s, e)) = Len(s) + 1
         /\ \A i \in 1..Len(s) : Append(s, e)[i] = s[i]
         /\ Append(s, e)[Len(s) + 1] = e
         /\ Append(s, e) # <<>>
<1>1. PICK S : s \in Seq(S)
  BY DEF IsSequence
<1> DEFINE T == S \cup {e}
<1>2. s \in Seq(T) /\ e \in T
  BY <1>1, SeqMonotonic
<1> HIDE DEF T
<1>3. /\ Append(s, e) \in Seq(T) /\ Len(s) \in Nat /\ Len(Append(s, e)) = Len(s) + 1
      /\ \A i \in 1..Len(s) : Append(s, e)[i] = s[i]
      /\ Append(s, e)[Len(s) + 1] = e
  BY <1>2, AppendProperties
<1>4. Append(s, e) # <<>>
  BY <1>3
<1> QED
  BY <1>3, <1>4 DEF IsSequence

\* Fields whose lines lie one behind the other, from start on.
Apart(in, start, fields, end) ==
  /\ \A i \in 1..Len(fields) : /\ \E p \in start..Len(in) : Ranges(in, p, fields[i])
                               /\ fields[i].next <= end
  /\ \A i, j \in 1..Len(fields) :
       i < j => /\ fields[i].next <= fields[j].value.from
                /\ fields[j].name # NULL => fields[i].next <= fields[j].name.from

LinesApart(in, start, lines) ==
  /\ IsSequence(lines.fields)
  /\ ~(lines.next < 0) => /\ lines.next \in start..Len(in) + 1 /\ in[lines.next - 1] = "LF"
                          /\ Apart(in, start, lines.fields, lines.next)

LEMMA NextLineApart ==
  ASSUME NEW in, Len(in) \in Nat, NEW start \in Int, 1 <= start, NEW lines, LinesApart(in, start, lines)
  PROVE  LinesApart(in, start, NextLine(in, lines))
<1> DEFINE p == lines.next
           line == Line(in, p, lines.fields = <<>>)
           s == lines.fields
           z == Append(s, line)
<1>1. CASE p < 0 \/ p > Len(in) \/ in[p] \in LineEnds
  BY <1>1, NextLineEnds
<1>2. CASE ~(p < 0 \/ p > Len(in) \/ in[p] \in LineEnds)
  <2>1. NextLine(in, lines).next = line.next /\ NextLine(in, lines).fields = z
    BY <1>2, NextLineEnds
  <2>2. p \in start..Len(in) + 1 /\ Apart(in, start, s, p) /\ IsSequence(s)
    BY <1>2 DEF LinesApart
  <2>3. p \in Int /\ 1 <= p /\ p <= Len(in) /\ p \in start..Len(in) /\ Starts(in, in)
    BY <1>2, <2>2 DEF Starts
  <2>4. line.next < 0 \/ Ranges(in, p, line)
    BY <2>3, LineReads
  <2> HIDE DEF p, line, s
  <2>5. /\ IsSequence(z) /\ Len(s) \in Nat /\ Len(z) = Len(s) + 1
        /\ \A i \in 1..Len(s) : z[i] = s[i]
        /\ z[Len(s) + 1] = line
    BY <2>2, AppendSeq
  <2> HIDE DEF z
  <2>6. CASE line.next < 0
    BY <2>1, <2>5, <2>6 DEF LinesApart
  <2>7. CASE Ranges(in, p, line)
    <3>1. /\ line.next \in p + 1..Len(in) + 1 /\ in[line.next - 1] = "LF"
          /\ p <= line.value.from /\ (line.name # NULL => line.name.from = p)
      BY <2>3, <2>7 DEF Ranges
    <3>2. ASSUME NEW i \in 1..Len(z)
          PROVE  (\E q \in start..Len(in) : Ranges(in, q, z[i])) /\ z[i].next <= line.next
      <4>1. CASE i = Len(s) + 1
        BY <2>3, <2>5, <2>7, <3>1, <4>1
      <4>2. CASE i # Len(s) + 1
        <5>1. i \in 1..Len(s) /\ z[i] = s[i]
          BY <2>5, <4>2
        <5>2. PICK q \in start..Len(in) : Ranges(in, q, s[i])
          BY <2>2, <5>1 DEF Apart
        <5>3. s[i].next <= p /\ s[i].next \in Int
          BY <2>2, <5>1, <5>2 DEF Apart, Ranges
        <5>4. s[i].next <= line.next
          BY <2>3, <3>1, <5>3
        <5> QED
          BY <5>1, <5>2, <5>4
      <4> QED
        BY <4>1, <4>2
    <3>3. ASSUME NEW i \in 1..Len(z), NEW j \in 1..Len(z), i < j
          PROVE  /\ z[i].next <= z[j].value.from
                 /\ z[j].name # NULL => z[i].next <= z[j].name.from
      <4>1. i \in 1..Len(s) /\ z[i] = s[i]
        BY <2>5, <3>3
      <4>2. CASE j = Len(s) + 1
        <5>1. z[j] = line
          BY <2>5, <4>2
        <5>2. PICK q \in start..Len(in) : Ranges(in, q, s[i])
          BY <2>2, <4>1 DEF Apart
        <5>3. s[i].next <= p /\ s[i].next \in Int
          BY <2>2, <4>1, <5>2 DEF Apart, Ranges
        <5>4. line.value.from \in Int
          BY <2>7 DEF Ranges
        <5>5. s[i].next <= line.value.from
          BY <2>3, <3>1, <5>3, <5>4
        <5> QED
          BY <3>1, <4>1, <5>1, <5>3, <5>5
      <4>3. CASE j # Len(s) + 1
        <5>1. j \in 1..Len(s) /\ z[j] = s[j]
          BY <2>5, <4>3
        <5> QED
          BY <2>2, <3>3, <4>1, <5>1 DEF Apart
      <4> QED
        BY <4>2, <4>3
    <3>4. Apart(in, start, z, line.next)
      BY <3>2, <3>3 DEF Apart
    <3>5. line.next \in start..Len(in) + 1
      BY <2>3, <3>1
    <3> QED
      BY <2>1, <2>5, <3>1, <3>4, <3>5 DEF LinesApart
  <2> QED
    BY <2>4, <2>6, <2>7
<1> QED
  BY <1>1, <1>2

LEMMA NextLineFields ==
  ASSUME NEW in, NEW lines, IsSequence(lines.fields)
  PROVE  LET p == lines.next
             more == ~(p < 0 \/ p > Len(in) \/ in[p] \in LineEnds)
         IN /\ IsSequence(NextLine(in, lines).fields)
            /\ more => NextLine(in, lines).fields # <<>>
<1> DEFINE p == lines.next
           line == Line(in, p, lines.fields = <<>>)
           more == ~(p < 0 \/ p > Len(in) \/ in[p] \in LineEnds)
<1>1. CASE more
  <2>1. NextLine(in, lines).fields = Append(lines.fields, line)
    BY <1>1, NextLineEnds
  <2> HIDE DEF line, more
  <2>2. IsSequence(Append(lines.fields, line)) /\ Append(lines.fields, line) # <<>>
    BY AppendSeq
  <2>3. IsSequence(NextLine(in, lines).fields) /\ NextLine(in, lines).fields # <<>>
    BY <2>1, <2>2
  <2> QED
    BY <2>3
<1>2. CASE ~more
  <2>1. NextLine(in, lines) = lines
    BY <1>2, NextLineEnds
  <2> QED
    BY <1>2, <2>1
<1> QED
  BY <1>1, <1>2

\* All of a header's lines, behind a start line that ends where they start.
LEMMA HeadersApart ==
  ASSUME NEW in, Len(in) \in Nat, NEW start \in Int, 1 <= start, start <= Len(in) + 1,
         in[start - 1] = "LF"
  PROVE  LET h == Headers(in, start)
         IN /\ IsSequence(h.fields)
            /\ ~(h.next < 0) =>
                 \E e \in start..Len(in) :
                   in[e - 1] = "LF" /\ h.next = LineEnd(in, e) /\ Apart(in, start, h.fields, e)
<1> DEFINE h == Headers(in, start)
<1>1. PICK f : /\ ReadsLines(f, in, start)
               /\ h.fields = f[MaxFields].fields
               /\ h.next = IF f[MaxFields].next < 0 THEN f[MaxFields].next
                           ELSE LineEnd(in, f[MaxFields].next)
  BY HeadersValue
<1> HIDE DEF h
<1> DEFINE T == {n \in Nat : n <= MaxFields => LinesApart(in, start, f[n])}
<1>2. 0 \in T
  <2>1. f[0] = [next |-> start, fields |-> <<>>]
    BY <1>1, ReadsLinesAt
  <2>2. f[0].next = start /\ f[0].fields = <<>>
    BY <2>1
  <2>3. IsSequence(<<>>) /\ Len(<<>>) = 0
    <3>1. <<>> \in Seq({}) /\ Len(<<>>) = 0
      BY EmptySeq
    <3> QED
      BY <3>1 DEF IsSequence
  <2>4. start \in start..Len(in) + 1
    OBVIOUS
  <2>5. \A i \in 1..0 : FALSE
    OBVIOUS
  <2>6. Apart(in, start, <<>>, start)
    BY <2>3, <2>5 DEF Apart
  <2>7. LinesApart(in, start, f[0])
    BY <2>2, <2>3, <2>4, <2>6 DEF LinesApart
  <2> QED
    BY <2>7
<1>3. ASSUME NEW n \in Nat, n \in T PROVE n + 1 \in T
  <2> SUFFICES ASSUME n + 1 <= MaxFields PROVE LinesApart(in, start, f[n + 1])
    OBVIOUS
  <2>1. n \in 0..MaxFields - 1 /\ n <= MaxFields
    BY MaxFieldsAssumption
  <2>2. f[n + 1] = NextLine(in, f[n])
    <3>1. ReadsLines(f, in, start)
      BY <1>1
    <3> QED
      BY <2>1, <3>1, ReadsLinesAt
  <2>3. LinesApart(in, start, f[n])
    BY <1>3, <2>1
  <2> QED
    BY <2>2, <2>3, NextLineApart
<1>4. MaxFields \in T
  <2> HIDE DEF T
  <2> QED
    BY <1>2, <1>3, NatSetInduction, MaxFieldsAssumption
<1>5. LinesApart(in, start, f[MaxFields])
  BY <1>4, MaxFieldsAssumption
<1> DEFINE e == f[MaxFields].next
<1>6. ASSUME ~(h.next < 0)
      PROVE  /\ e \in start..Len(in) /\ in[e - 1] = "LF" /\ h.next = LineEnd(in, e)
             /\ Apart(in, start, h.fields, e)
  <2>1. ~(e < 0) /\ h.next = LineEnd(in, e)
    BY <1>1, <1>6
  <2>2. e \in start..Len(in) + 1 /\ in[e - 1] = "LF" /\ Apart(in, start, h.fields, e)
    BY <1>1, <1>5, <2>1 DEF LinesApart
  <2> HIDE DEF e
  <2>3. e \in Int /\ 1 <= e
    BY <2>2
  <2>4. e <= Len(in)
    <3>1. \/ h.next = Malformed \/ h.next = Incomplete \/ e <= Len(in)
      BY <2>1, <2>3, LineEndValue
    <3> QED
      BY <1>6, <3>1 DEF Malformed, Incomplete
  <2> QED
    BY <2>1, <2>2, <2>3, <2>4
<1>7. IsSequence(h.fields)
  BY <1>1, <1>5 DEF LinesApart
<1> QED
  BY <1>6, <1>7 DEF h

\* Headers is a scanner that begins where the start line ends.
LEMMA HeadersRead ==
  ASSUME NEW in, NEW t, Starts(in, t), NEW p \in Int, 1 <= p, NEW a, NEW c, Reads(in, t, p, a, c)
  PROVE  /\ Reads(in, t, p, Headers(in, a).next, Headers(t, c).next)
         /\ Headers(in, a).next = Incomplete =>
              Headers(t, c).next < 0 \/ Headers(t, c).next > Len(in) + 1
         /\ a < 0 => Headers(in, a).next = a
<1> DEFINE h == Headers(in, a)
           k == Headers(t, c)
           M == MaxFields
<1>0. /\ Len(in) \in Nat /\ Len(t) \in Nat /\ Len(in) <= Len(t) /\ Starts(t, t)
      /\ Outcome(in, p, a) /\ Outcome(t, p, c) /\ Same(in, a, c) /\ a \in Int /\ c \in Int
  BY StartsWhole, OutcomeTypes DEF Starts, Reads
<1>1. PICK f : /\ ReadsLines(f, in, a)
               /\ h.next = IF f[M].next < 0 THEN f[M].next ELSE LineEnd(in, f[M].next)
  BY HeadersValue
<1>2. PICK g : /\ ReadsLines(g, t, c)
               /\ k.next = IF g[M].next < 0 THEN g[M].next ELSE LineEnd(t, g[M].next)
  BY HeadersValue
<1> HIDE DEF h, k
<1> DEFINE
      Agree(lines, more) ==
        /\ Outcome(in, p, lines.next) /\ Outcome(t, p, more.next)
        /\ Stays(in, lines.next, more.next)
        /\ lines.next \in 1..Len(in) => (lines.fields = <<>> <=> more.fields = <<>>)
        /\ a < 0 => lines.next = a
        /\ IsSequence(lines.fields) /\ IsSequence(more.fields)
      T == {n \in Nat : n <= M => Agree(f[n], g[n])}
<1>3. 0 \in T
  <2>1. f[0] = [next |-> a, fields |-> <<>>] /\ g[0] = [next |-> c, fields |-> <<>>]
    BY <1>1, <1>2, ReadsLinesAt
  <2>2. f[0].next = a /\ g[0].next = c /\ f[0].fields = <<>> /\ g[0].fields = <<>>
    BY <2>1
  <2>3. Stays(in, a, c)
    <3>1. a > Len(in) => a # Incomplete
      BY <1>0 DEF Incomplete
    <3>2. CASE a = Incomplete
      BY <1>0, <3>2 DEF Same, Stays
    <3>3. CASE a # Incomplete
      BY <1>0, <3>3 DEF Same, Stays
    <3> QED
      BY <3>2, <3>3
  <2>4. IsSequence(<<>>)
    <3>1. <<>> \in Seq({})
      BY EmptySeq
    <3> QED
      BY <3>1 DEF IsSequence
  <2>5. Agree(f[0], g[0])
    BY <1>0, <2>2, <2>3, <2>4
  <2> QED
    BY <2>5
<1>4. ASSUME NEW n \in Nat, n \in T PROVE n + 1 \in T
  <2> SUFFICES ASSUME n + 1 <= M PROVE Agree(f[n + 1], g[n + 1])
    OBVIOUS
  <2>1. n \in 0..M - 1 /\ n <= M
    BY MaxFieldsAssumption
  <2>2. f[n + 1] = NextLine(in, f[n]) /\ g[n + 1] = NextLine(t, g[n])
    BY <1>1, <1>2, <2>1, ReadsLinesAt
  <2> DEFINE x == f[n]
             y == g[n]
  <2>3. Agree(x, y)
    BY <1>4, <2>1
  <2> HIDE DEF x, y
  <2>4. Outcome(in, p, NextLine(in, x).next) /\ Outcome(t, p, NextLine(t, y).next)
    BY <1>0, <2>3, NextLineOutcome
  <2>5. a < 0 => NextLine(in, x).next = a
    BY <1>0, <2>3, NextLineOutcome
  <2>6. Stays(in, NextLine(in, x).next, NextLine(t, y).next)
    BY <2>3, NextLineReads
  <2>7. IsSequence(NextLine(in, x).fields) /\ IsSequence(NextLine(t, y).fields)
    BY <2>3, NextLineFields
  <2>8. ASSUME NextLine(in, x).next \in 1..Len(in)
         PROVE  NextLine(in, x).fields = <<>> <=> NextLine(t, y).fields = <<>>
    <3> DEFINE q == x.next
               r == y.next
    <3>1. q \in Int
      BY <1>0, <2>3, OutcomeTypes
    <3>2. CASE ~(q < 0 \/ q > Len(in) \/ in[q] \in LineEnds)
      <4>1. q \in p..Len(in) + 1
        BY <1>0, <2>3, <3>2, OutcomeTypes
      <4>2. q \in 1..Len(in) /\ ~(q = Incomplete \/ q > Len(in))
        BY <1>0, <3>1, <3>2, <4>1 DEF Incomplete
      <4>3. r = q /\ in[q] = t[q] /\ q <= Len(t)
        BY <1>0, <2>3, <4>2 DEF Stays, Starts
      <4>4. ~(r < 0 \/ r > Len(t) \/ t[r] \in LineEnds)
        BY <1>0, <3>1, <3>2, <4>3
      <4>5. NextLine(in, x).fields # <<>>
        BY <2>3, <3>2, NextLineFields
      <4>6. NextLine(t, y).fields # <<>>
        BY <2>3, <4>4, NextLineFields
      <4> QED
        BY <4>5, <4>6
    <3>3. CASE q < 0 \/ q > Len(in) \/ in[q] \in LineEnds
      <4>1. NextLine(in, x) = x
        BY <3>3, NextLineEnds
      <4>2. q \in 1..Len(in)
        BY <2>8, <4>1
      <4>3. r = q /\ in[q] = t[q] /\ in[q] \in LineEnds
        <5>1. ~(q = Incomplete \/ q > Len(in)) /\ ~(q < 0)
          BY <1>0, <4>2 DEF Incomplete
        <5> QED
          BY <1>0, <2>3, <3>3, <4>2, <5>1 DEF Stays, Starts
      <4>4. NextLine(t, y) = y
        BY <4>3, NextLineEnds
      <4> QED
        BY <2>3, <4>1, <4>2, <4>4
    <3> QED
      BY <3>2, <3>3
  <2>9. Agree(NextLine(in, x), NextLine(t, y))
    BY <2>4, <2>5, <2>6, <2>7, <2>8
  <2> QED
    BY <2>2, <2>9 DEF x, y
<1>5. M \in T
  <2> HIDE DEF T
  <2> QED
    BY <1>3, <1>4, NatSetInduction, MaxFieldsAssumption
<1> DEFINE q == f[M].next
           r == g[M].next
<1>6. Agree(f[M], g[M])
  <2>1. M <= M
    BY MaxFieldsAssumption
  <2> QED
    BY <1>5, <2>1
<1>7. Outcome(in, p, q) /\ Outcome(t, p, r) /\ Stays(in, q, r) /\ (a < 0 => q = a)
  BY <1>6
<1>8. /\ h.next = IF q < 0 THEN q ELSE LineEnd(in, q)
      /\ k.next = IF r < 0 THEN r ELSE LineEnd(t, r)
  BY <1>1, <1>2
<1> HIDE DEF q, r, M, T, Agree
<1> DEFINE b == h.next
           d == k.next
<1>9. /\ q \in Int /\ r \in Int
      /\ ~(q < 0) => q \in p..Len(in) + 1
      /\ ~(r < 0) => r \in p..Len(t) + 1
  BY <1>0, <1>7, OutcomeTypes
<1>10. Outcome(in, p, b)
  <2>1. ~(q < 0) => Outcome(in, q, b)
    <3> SUFFICES ASSUME ~(q < 0) PROVE Outcome(in, q, b)
      OBVIOUS
    <3>1. 1 <= q /\ Starts(in, in)
      BY <1>0, <1>9 DEF Starts
    <3> QED
      BY <1>8, <1>9, <3>1, LineEndReads DEF Reads
  <2> QED
    BY <1>0, <1>7, <1>8, <2>1, OutcomeFollows
<1>11. Outcome(t, p, d) /\ (~(r < 0) => d < 0 \/ d > r)
  <2>1. ~(r < 0) => Outcome(t, r, d) /\ (d < 0 \/ d > r)
    <3> SUFFICES ASSUME ~(r < 0) PROVE Outcome(t, r, d) /\ (d < 0 \/ d > r)
      OBVIOUS
    <3>1. 1 <= r
      BY <1>0, <1>9
    <3> QED
      BY <1>0, <1>8, <1>9, <3>1, LineEndReads DEF Reads
  <2> QED
    BY <1>0, <1>7, <1>8, <2>1, OutcomeFollows
<1>12. /\ b = Incomplete => d < 0 \/ d > Len(in) + 1
       /\ b # Incomplete => d = b
  <2>1. CASE q = Incomplete \/ q > Len(in)
    <3>1. r < 0 \/ r > Len(in)
      BY <1>7, <2>1 DEF Stays
    <3>2. d < 0 \/ d > Len(in) + 1
      <4>1. CASE r < 0
        BY <1>8, <4>1
      <4>2. CASE ~(r < 0)
        <5>1. d \in Int
          BY <1>0, <1>11, OutcomeTypes
        <5> QED
          BY <1>0, <1>9, <1>11, <3>1, <4>2, <5>1
      <4> QED
        BY <4>1, <4>2
    <3>3. b = Incomplete
      <4>1. CASE q = Incomplete
        BY <1>8, <4>1 DEF Incomplete
      <4>2. CASE q > Len(in)
        <5>1. ~(q < 0)
          BY <1>0, <1>9, <4>2
        <5>2. b = LineEnd(in, q)
          BY <1>8, <5>1
        <5>3. ~(q <= Len(in))
          BY <1>0, <1>9, <4>2
        <5> QED
          BY <4>2, <5>2, <5>3 DEF LineEnd, Expect
      <4> QED
        BY <2>1, <4>1, <4>2
    <3> QED
      BY <3>2, <3>3
  <2>2. CASE ~(q = Incomplete \/ q > Len(in))
    <3>1. r = q
      BY <1>7, <2>2 DEF Stays
    <3>2. CASE q < 0
      <4>1. b = q /\ d = q
        BY <1>8, <3>1, <3>2
      <4> QED
        BY <2>2, <4>1
    <3>3. CASE ~(q < 0)
      <4>1. b = LineEnd(in, q) /\ d = LineEnd(t, q) /\ 1 <= q
        BY <1>0, <1>8, <1>9, <3>1, <3>3
      <4>2. /\ Reads(in, t, q, b, d)
            /\ b = Incomplete => d < 0 \/ d > Len(in) + 1
        BY <1>9, <4>1, LineEndReads
      <4> QED
        BY <4>2 DEF Reads, Same
    <3> QED
      BY <3>2, <3>3
  <2> QED
    BY <2>1, <2>2
<1>13. Same(in, b, d)
  <2>1. b = Incomplete => d < 0 \/ d > Len(in)
    <3>1. d \in Int
      BY <1>0, <1>11, OutcomeTypes
    <3> HIDE DEF b, d
    <3> QED
      BY <1>0, <1>12, <3>1
  <2> QED
    BY <1>12, <2>1 DEF Same
<1>14. a < 0 => b = a
  BY <1>7, <1>8
<1> QED
  BY <1>10, <1>11, <1>12, <1>13, <1>14 DEF Reads, h, k

\* The lines that have arrived with their ends are those of a longer input.
LinesStay(in, p, lines, more) ==
  /\ Outcome(in, p, lines.next)
  /\ lines.next < 0 \/ lines.next > Len(in) \/ more = lines

LEMMA NextLineStays ==
  ASSUME NEW in, NEW t, Starts(in, t), NEW p \in Int, 1 <= p, NEW lines, NEW more,
         LinesStay(in, p, lines, more)
  PROVE  LinesStay(in, p, NextLine(in, lines), NextLine(t, more))
<1> DEFINE q == lines.next
           x == NextLine(in, lines)
           y == NextLine(t, more)
           f == (lines.fields = <<>>)
<1>1. /\ Len(in) \in Nat /\ Len(t) \in Nat /\ Len(in) <= Len(t)
      /\ \A i \in 1..Len(in) : in[i] = t[i]
  BY DEF Starts
<1>2. Outcome(in, p, x.next)
  BY <1>1, NextLineOutcome DEF LinesStay
<1>3. q \in Int /\ (~(q < 0) => q \in p..Len(in) + 1)
  BY <1>1, OutcomeTypes DEF LinesStay
<1>4. CASE q < 0 \/ q > Len(in)
  <2>1. x = lines
    BY <1>4, NextLineEnds
  <2> QED
    BY <1>2, <1>4, <2>1 DEF LinesStay
<1>5. CASE ~(q < 0 \/ q > Len(in))
  <2>1. more = lines
    BY <1>5 DEF LinesStay
  <2>2. q \in Int /\ 1 <= q /\ q <= Len(in) /\ q <= Len(t) /\ in[q] = t[q]
    BY <1>1, <1>3, <1>5
  <2>3. CASE in[q] \in LineEnds
    <3>1. x = lines
      BY <2>3, NextLineEnds
    <3>2. y = lines
      BY <2>1, <2>2, <2>3, NextLineEnds
    <3> QED
      BY <1>2, <3>1, <3>2 DEF LinesStay
  <2>4. CASE in[q] \notin LineEnds
    <3> DEFINE l == Line(in, q, f)
               m == Line(t, q, f)
    <3>1. ~(q < 0 \/ q > Len(in) \/ in[q] \in LineEnds)
      BY <1>5, <2>4
    <3>2. ~(q < 0 \/ q > Len(t) \/ t[q] \in LineEnds)
      BY <1>1, <2>2, <3>1
    <3>3. x = [next |-> l.next, fields |-> Append(lines.fields, l)]
      BY <3>1 DEF NextLine
    <3>4. y = [next |-> m.next, fields |-> Append(lines.fields, m)]
      BY <2>1, <3>2 DEF NextLine
    <3>5. ~(l.next < 0) => m = l
      <4> HIDE DEF q, f
      <4> QED
        BY <2>2, LineStays
    <3>6. x.next = l.next
      <4> HIDE DEF l, x
      <4> QED
        BY <3>3
    <3> HIDE DEF x, y, l, m, q
    <3>7. x.next < 0 \/ y = x
      BY <3>3, <3>4, <3>5, <3>6
    <3> QED
      BY <1>2, <3>7 DEF LinesStay, x, y
  <2> QED
    BY <2>3, <2>4
<1> QED
  BY <1>4, <1>5

\* So are the fields, once the header has ended.
LEMMA HeadersStay ==
  ASSUME NEW in, NEW t, Starts(in, t), NEW a \in Int, 1 <= a, Outcome(in, a, a),
         ~(Headers(in, a).next < 0)
  PROVE  Headers(t, a).fields = Headers(in, a).fields
<1> DEFINE h == Headers(in, a)
           k == Headers(t, a)
           M == MaxFields
<1>1. PICK f : /\ ReadsLines(f, in, a)
               /\ h.fields = f[M].fields
               /\ h.next = IF f[M].next < 0 THEN f[M].next ELSE LineEnd(in, f[M].next)
  BY HeadersValue
<1>2. PICK g : ReadsLines(g, t, a) /\ k.fields = g[M].fields
  BY HeadersValue
<1>0. ~(h.next < 0) /\ Len(in) \in Nat
  BY DEF Starts
<1> HIDE DEF h, k
<1> DEFINE T == {n \in Nat : n <= M => LinesStay(in, a, f[n], g[n])}
<1>3. 0 \in T
  <2>1. f[0] = [next |-> a, fields |-> <<>>] /\ g[0] = [next |-> a, fields |-> <<>>]
    BY <1>1, <1>2, ReadsLinesAt
  <2>2. f[0].next = a /\ g[0] = f[0]
    BY <2>1
  <2> QED
    BY <2>2 DEF LinesStay
<1>4. ASSUME NEW n \in Nat, n \in T PROVE n + 1 \in T
  <2> SUFFICES ASSUME n + 1 <= M PROVE LinesStay(in, a, f[n + 1], g[n + 1])
    OBVIOUS
  <2>1. n \in 0..M - 1 /\ n <= M
    BY MaxFieldsAssumption
  <2>2. f[n + 1] = NextLine(in, f[n]) /\ g[n + 1] = NextLine(t, g[n])
    <3>1. ReadsLines(f, in, a) /\ ReadsLines(g, t, a)
      BY <1>1, <1>2
    <3> QED
      BY <2>1, <3>1, ReadsLinesAt
  <2>3. LinesStay(in, a, f[n], g[n])
    BY <1>4, <2>1
  <2> QED
    BY <2>2, <2>3, NextLineStays
<1>5. M \in T
  <2> HIDE DEF T
  <2> QED
    BY <1>3, <1>4, NatSetInduction, MaxFieldsAssumption
<1>6. LinesStay(in, a, f[M], g[M])
  BY <1>5, MaxFieldsAssumption
<1> DEFINE q == f[M].next
<1>7. ~(q < 0) /\ h.next = LineEnd(in, q)
  BY <1>0, <1>1
<1>8. q \in Int /\ 1 <= q
  <2>1. Outcome(in, a, q)
    BY <1>6 DEF LinesStay
  <2> HIDE DEF q
  <2>2. q \in a..Len(in) + 1
    BY <1>0, <1>7, <2>1, OutcomeTypes
  <2> QED
    BY <1>0, <2>2
<1>9. q <= Len(in)
  <2> HIDE DEF q
  <2>1. \/ h.next = Malformed \/ h.next = Incomplete \/ q <= Len(in)
    BY <1>0, <1>7, <1>8, LineEndValue
  <2> QED
    BY <1>0, <2>1 DEF Malformed, Incomplete
<1>10. g[M] = f[M]
  BY <1>0, <1>6, <1>7, <1>8, <1>9 DEF LinesStay
<1> QED
  BY <1>1, <1>2, <1>10 DEF h, k

-------------------------------------------------------------------------------
(***************************************************************************)
(* The start line of a request                                             *)
(***************************************************************************)
\* A request's start line, stop by stop.
FirstStart(in) == IF in = <<>> THEN Incomplete ELSE IF in[1] \in LineEnds THEN LineEnd(in, 1) ELSE 1
MethodEnd(in) == IF FirstStart(in) < 0 THEN FirstStart(in) ELSE Token(in, FirstStart(in))
PathEnd(in) == IF MethodEnd(in) < 0 THEN MethodEnd(in) ELSE Token(in, MethodEnd(in) + 1)
VersionEnd(in) == IF PathEnd(in) < 0 THEN PathEnd(in) ELSE HttpVersion(in, PathEnd(in) + 1)
RequestLineEnd(in) == IF VersionEnd(in) < 0 THEN VersionEnd(in) ELSE LineEnd(in, VersionEnd(in))

LEMMA RequestParts ==
  ASSUME NEW in
  PROVE  LET headers == Headers(in, RequestLineEnd(in))
         IN /\ Request(in).next = headers.next
            /\ Request(in).fields = headers.fields
            /\ Request(in).line = <<[from |-> FirstStart(in), to |-> MethodEnd(in)],
                                    [from |-> MethodEnd(in) + 1, to |-> PathEnd(in)]>>
<1>1. Request(in) =
        [next |-> Headers(in, RequestLineEnd(in)).next, fields |-> Headers(in, RequestLineEnd(in)).fields,
         line |-> <<[from |-> FirstStart(in), to |-> MethodEnd(in)],
                    [from |-> MethodEnd(in) + 1, to |-> PathEnd(in)]>>]
  BY DEF Request, FirstStart, MethodEnd, PathEnd, VersionEnd, RequestLineEnd, Then
<1> QED
  BY <1>1

LEMMA EmptyInput ==
  ASSUME NEW s, IsSequence(s)
  PROVE  Len(s) \in Nat /\ (s = <<>> <=> Len(s) = 0)
<1>1. PICK S : s \in Seq(S)
  BY DEF IsSequence
<1>2. Len(s) \in Nat /\ Len(<<>>) = 0 /\ (s # <<>> => Len(s) \in Nat \ {0})
  BY <1>1, EmptySeq, LenProperties
<1> QED
  BY <1>2

LEMMA FirstStartReads ==
  ASSUME NEW in, NEW t, Starts(in, t), IsSequence(in), IsSequence(t)
  PROVE  Reads(in, t, 1, FirstStart(in), FirstStart(t))
<1>1. /\ Len(in) \in Nat /\ Len(t) \in Nat /\ Len(in) <= Len(t)
      /\ \A i \in 1..Len(in) : in[i] = t[i]
      /\ (in = <<>> <=> Len(in) = 0) /\ (t = <<>> <=> Len(t) = 0) /\ Starts(t, t)
  BY EmptyInput, StartsWhole DEF Starts
<1>2. ASSUME NEW s, IsSequence(s), Starts(s, s) PROVE Outcome(s, 1, FirstStart(s))
  <2>1. Len(s) \in Nat /\ (s = <<>> <=> Len(s) = 0)
    BY <1>2, EmptyInput
  <2>2. CASE s = <<>>
    BY <2>1, <2>2 DEF FirstStart, Outcome, Clean
  <2>3. CASE s # <<>> /\ s[1] \in LineEnds
    <3>1. Reads(s, s, 1, LineEnd(s, 1), LineEnd(s, 1))
      BY <1>2, LineEndReads
    <3> QED
      BY <2>3, <3>1 DEF FirstStart, Reads
  <2>4. CASE s # <<>> /\ s[1] \notin LineEnds
    BY <2>1, <2>4 DEF FirstStart, Outcome, Clean
  <2> QED
    BY <2>2, <2>3, <2>4
<1>3. Outcome(in, 1, FirstStart(in)) /\ Outcome(t, 1, FirstStart(t))
  <2>1. Starts(in, in)
    BY StartsWhole
  <2> QED
    BY <1>1, <1>2, <2>1
<1>4. Same(in, FirstStart(in), FirstStart(t))
  <2>1. CASE in = <<>>
    <3>1. FirstStart(in) = Incomplete /\ Len(in) = 0
      BY <1>1, <2>1 DEF FirstStart
    <3>2. FirstStart(t) \in Int /\ (~(FirstStart(t) < 0) => FirstStart(t) \in 1..Len(t) + 1)
      BY <1>1, <1>3, OutcomeTypes
    <3>3. FirstStart(t) < 0 \/ FirstStart(t) > Len(in)
      BY <3>1, <3>2
    <3> QED
      BY <3>1, <3>3 DEF Same
  <2>2. CASE in # <<>>
    <3>1. t # <<>> /\ in[1] = t[1]
      BY <1>1, <2>2
    <3>2. CASE in[1] \in LineEnds
      <4>1. Reads(in, t, 1, LineEnd(in, 1), LineEnd(t, 1))
        BY LineEndReads
      <4> QED
        BY <2>2, <3>1, <3>2, <4>1 DEF FirstStart, Reads
    <3>3. CASE in[1] \notin LineEnds
      <4>1. FirstStart(in) = 1 /\ FirstStart(t) = 1 /\ 1 # Incomplete
        BY <2>2, <3>1, <3>3 DEF FirstStart, Incomplete
      <4> QED
        BY <4>1 DEF Same
    <3> QED
      BY <3>2, <3>3
  <2> QED
    BY <2>1, <2>2
<1> QED
  BY <1>3, <1>4 DEF Reads

\* A scanner behind another, and behind the space, say, that that one stopped at.
LEMMA ReadsBehind ==
  ASSUME NEW in, NEW t, Starts(in, t), NEW p \in Int, 1 <= p,
         NEW a, NEW c, Reads(in, t, p, a, c),
         a < 0 \/ (a <= Len(in) /\ in[a] # "CR"), c < 0 \/ (c <= Len(t) /\ t[c] # "CR"),
         NEW b, NEW d, a < 0 => b = a, c < 0 => d = c,
         a \in Int /\ 1 <= a /\ c = a => Reads(in, t, a + 1, b, d),
         c \in Int /\ 1 <= c => Reads(t, t, c + 1, d, d)
  PROVE  Reads(in, t, p, b, d)
<1>1. Starts(t, t) /\ Len(in) \in Nat /\ Len(t) \in Nat
  BY StartsWhole DEF Starts
<1>2. a \in Int /\ 1 <= a /\ c = a => Reads(in, t, a, b, d)
  <2> SUFFICES ASSUME a \in Int, 1 <= a, c = a PROVE Reads(in, t, a, b, d)
    OBVIOUS
  <2>1. a <= Len(in) /\ in[a] # "CR"
    OBVIOUS
  <2> QED
    BY <2>1, ReadsSkips
<1>3. c \in Int /\ 1 <= c => Outcome(t, c, d)
  <2> SUFFICES ASSUME c \in Int, 1 <= c PROVE Outcome(t, c, d)
    OBVIOUS
  <2>1. c <= Len(t) /\ t[c] # "CR" /\ Reads(t, t, c + 1, d, d)
    OBVIOUS
  <2>2. Reads(t, t, c, d, d)
    BY <1>1, <2>1, ReadsSkips
  <2> QED
    BY <2>2 DEF Reads
<1> QED
  BY <1>2, <1>3, ReadsThen

LEMMA MethodReads ==
  ASSUME NEW in, NEW t, Starts(in, t), IsSequence(in), IsSequence(t)
  PROVE  /\ Reads(in, t, 1, MethodEnd(in), MethodEnd(t))
         /\ \/ MethodEnd(in) < 0
            \/ /\ FirstStart(in) \in 1..Len(in) /\ FirstStart(in) <= MethodEnd(in)
               /\ MethodEnd(in) \in 1..Len(in) /\ in[MethodEnd(in)] = "SP"
<1> DEFINE a == FirstStart(in)
           c == FirstStart(t)
           b == MethodEnd(in)
           d == MethodEnd(t)
<1>1. /\ Starts(t, t) /\ Len(in) \in Nat /\ Len(t) \in Nat
      /\ Reads(in, t, 1, a, c)
      /\ b = (IF a < 0 THEN a ELSE Token(in, a)) /\ d = (IF c < 0 THEN c ELSE Token(t, c))
  BY StartsWhole, FirstStartReads DEF Starts, MethodEnd
<1> HIDE DEF a, b, c, d
<1>2. a \in Int /\ 1 <= a /\ c = a => Reads(in, t, a, b, d)
  BY <1>1, TokenReads
<1>3. c \in Int /\ 1 <= c => Outcome(t, c, d)
  BY <1>1, TokenReads DEF Reads
<1>4. Reads(in, t, 1, b, d)
  BY <1>1, <1>2, <1>3, ReadsThen
<1>5. ~(b < 0) => a \in 1..Len(in) /\ a <= b /\ b \in 1..Len(in) /\ in[b] = "SP"
  <2> SUFFICES ASSUME ~(b < 0) PROVE a \in 1..Len(in) /\ a <= b /\ b \in 1..Len(in) /\ in[b] = "SP"
    OBVIOUS
  <2>1. ~(a < 0) /\ b = Token(in, a)
    BY <1>1
  <2>2. a \in 1..Len(in) + 1 /\ a \in Int /\ 1 <= a
    BY <1>1, <2>1, OutcomeTypes DEF Reads
  <2>3. b \in a..Len(in) /\ in[b] = "SP"
    BY <2>1, <2>2, TokenReads
  <2> QED
    BY <1>1, <2>2, <2>3
<1> QED
  BY <1>4, <1>5 DEF a, b, c, d

LEMMA PathReads ==
  ASSUME NEW in, NEW t, Starts(in, t), IsSequence(in), IsSequence(t)
  PROVE  /\ Reads(in, t, 1, PathEnd(in), PathEnd(t))
         /\ \/ PathEnd(in) < 0
            \/ /\ ~(MethodEnd(in) < 0) /\ MethodEnd(in) < PathEnd(in)
               /\ PathEnd(in) \in 1..Len(in) /\ in[PathEnd(in)] = "SP"
<1> DEFINE a == MethodEnd(in)
           c == MethodEnd(t)
           b == PathEnd(in)
           d == PathEnd(t)
<1>1. Starts(t, t) /\ Len(in) \in Nat /\ Len(t) \in Nat
  BY StartsWhole DEF Starts
<1>2. /\ b = IF a < 0 THEN a ELSE Token(in, a + 1)
      /\ d = IF c < 0 THEN c ELSE Token(t, c + 1)
  BY DEF PathEnd
<1>3. /\ Reads(in, t, 1, a, c)
      /\ a < 0 \/ (a \in 1..Len(in) /\ in[a] = "SP")
  BY MethodReads
<1>4. c < 0 \/ (c \in 1..Len(t) /\ t[c] = "SP")
  BY <1>1, MethodReads
<1> HIDE DEF a, b, c, d
<1>5. a < 0 \/ (a <= Len(in) /\ in[a] # "CR")
  BY <1>1, <1>3
<1>6. c < 0 \/ (c <= Len(t) /\ t[c] # "CR")
  BY <1>1, <1>4
<1>7. a \in Int /\ 1 <= a /\ c = a => Reads(in, t, a + 1, b, d)
  <2> SUFFICES ASSUME a \in Int, 1 <= a, c = a PROVE Reads(in, t, a + 1, b, d)
    OBVIOUS
  <2>1. a + 1 \in Int /\ 1 <= a + 1 /\ ~(a < 0) /\ ~(c < 0)
    OBVIOUS
  <2> QED
    BY <1>2, <2>1, TokenReads
<1>8. c \in Int /\ 1 <= c => Reads(t, t, c + 1, d, d)
  <2> SUFFICES ASSUME c \in Int, 1 <= c PROVE Reads(t, t, c + 1, d, d)
    OBVIOUS
  <2>1. c + 1 \in Int /\ 1 <= c + 1 /\ ~(c < 0)
    OBVIOUS
  <2> QED
    BY <1>1, <1>2, <2>1, TokenReads
<1>9. Reads(in, t, 1, b, d)
  BY <1>2, <1>3, <1>5, <1>6, <1>7, <1>8, ReadsBehind
<1>10. ~(b < 0) => ~(a < 0) /\ a < b /\ b \in 1..Len(in) /\ in[b] = "SP"
  <2> SUFFICES ASSUME ~(b < 0) PROVE ~(a < 0) /\ a < b /\ b \in 1..Len(in) /\ in[b] = "SP"
    OBVIOUS
  <2>1. ~(a < 0) /\ b = Token(in, a + 1)
    BY <1>2
  <2>2. a \in 1..Len(in) /\ a + 1 \in Int /\ 1 <= a + 1
    BY <1>1, <1>3, <2>1
  <2>3. b \in a + 1..Len(in) /\ in[b] = "SP"
    BY <2>1, <2>2, TokenReads
  <2> QED
    BY <1>1, <2>1, <2>2, <2>3
<1> QED
  BY <1>9, <1>10 DEF a, b, c, d

LEMMA VersionEndReads ==
  ASSUME NEW in, NEW t, Starts(in, t), IsSequence(in), IsSequence(t)
  PROVE  /\ Reads(in, t, 1, VersionEnd(in), VersionEnd(t))
         /\ \/ VersionEnd(in) < 0
            \/ ~(PathEnd(in) < 0) /\ PathEnd(in) < VersionEnd(in) /\ VersionEnd(in) \in 1..Len(in)
<1> DEFINE a == PathEnd(in)
           c == PathEnd(t)
           b == VersionEnd(in)
           d == VersionEnd(t)
<1>1. Starts(t, t) /\ Len(in) \in Nat /\ Len(t) \in Nat
  BY StartsWhole DEF Starts
<1>2. /\ b = IF a < 0 THEN a ELSE HttpVersion(in, a + 1)
      /\ d = IF c < 0 THEN c ELSE HttpVersion(t, c + 1)
  BY DEF VersionEnd
<1>3. /\ Reads(in, t, 1, a, c)
      /\ a < 0 \/ (a \in 1..Len(in) /\ in[a] = "SP")
  BY PathReads
<1>4. c < 0 \/ (c \in 1..Len(t) /\ t[c] = "SP")
  BY <1>1, PathReads
<1> HIDE DEF a, b, c, d
<1>5. a < 0 \/ (a <= Len(in) /\ in[a] # "CR")
  BY <1>1, <1>3
<1>6. c < 0 \/ (c <= Len(t) /\ t[c] # "CR")
  BY <1>1, <1>4
<1>7. a \in Int /\ 1 <= a /\ c = a => Reads(in, t, a + 1, b, d)
  <2> SUFFICES ASSUME a \in Int, 1 <= a, c = a PROVE Reads(in, t, a + 1, b, d)
    OBVIOUS
  <2>1. a + 1 \in Int /\ 1 <= a + 1 /\ ~(a < 0) /\ ~(c < 0)
    OBVIOUS
  <2> QED
    BY <1>2, <2>1, VersionReads
<1>8. c \in Int /\ 1 <= c => Reads(t, t, c + 1, d, d)
  <2> SUFFICES ASSUME c \in Int, 1 <= c PROVE Reads(t, t, c + 1, d, d)
    OBVIOUS
  <2>1. c + 1 \in Int /\ 1 <= c + 1 /\ ~(c < 0)
    OBVIOUS
  <2> QED
    BY <1>1, <1>2, <2>1, VersionReads
<1>9. Reads(in, t, 1, b, d)
  BY <1>2, <1>3, <1>5, <1>6, <1>7, <1>8, ReadsBehind
<1>10. ~(b < 0) => ~(a < 0) /\ a < b /\ b \in 1..Len(in)
  <2> SUFFICES ASSUME ~(b < 0) PROVE ~(a < 0) /\ a < b /\ b \in 1..Len(in)
    OBVIOUS
  <2>1. ~(a < 0) /\ b = HttpVersion(in, a + 1)
    BY <1>2
  <2>2. a \in 1..Len(in) /\ a + 1 \in Int /\ 1 <= a + 1
    BY <1>1, <1>3, <2>1
  <2>3. b \in a + 1..Len(in)
    BY <2>1, <2>2, VersionReads
  <2> QED
    BY <1>1, <2>1, <2>2, <2>3
<1> QED
  BY <1>9, <1>10 DEF a, b, c, d

LEMMA RequestLineReads ==
  ASSUME NEW in, NEW t, Starts(in, t), IsSequence(in), IsSequence(t)
  PROVE  /\ Reads(in, t, 1, RequestLineEnd(in), RequestLineEnd(t))
         /\ \/ RequestLineEnd(in) < 0
            \/ /\ ~(VersionEnd(in) < 0) /\ VersionEnd(in) < RequestLineEnd(in)
               /\ RequestLineEnd(in) \in 1..Len(in) + 1 /\ in[RequestLineEnd(in) - 1] = "LF"
<1> DEFINE a == VersionEnd(in)
           c == VersionEnd(t)
           b == RequestLineEnd(in)
           d == RequestLineEnd(t)
<1>1. Starts(t, t) /\ Len(in) \in Nat /\ Len(t) \in Nat
  BY StartsWhole DEF Starts
<1>2. /\ b = IF a < 0 THEN a ELSE LineEnd(in, a)
      /\ d = IF c < 0 THEN c ELSE LineEnd(t, c)
  BY DEF RequestLineEnd
<1>3. Reads(in, t, 1, a, c) /\ (a < 0 \/ a \in 1..Len(in))
  BY VersionEndReads
<1> HIDE DEF a, b, c, d
<1>4. a \in Int /\ 1 <= a /\ c = a => Reads(in, t, a, b, d)
  BY <1>2, LineEndReads
<1>5. c \in Int /\ 1 <= c => Outcome(t, c, d)
  BY <1>1, <1>2, LineEndReads DEF Reads
<1>6. Reads(in, t, 1, b, d)
  BY <1>2, <1>3, <1>4, <1>5, ReadsThen
<1>7. ~(b < 0) => ~(a < 0) /\ a < b /\ b \in 1..Len(in) + 1 /\ in[b - 1] = "LF"
  <2> SUFFICES ASSUME ~(b < 0) PROVE ~(a < 0) /\ a < b /\ b \in 1..Len(in) + 1 /\ in[b - 1] = "LF"
    OBVIOUS
  <2>1. ~(a < 0) /\ b = LineEnd(in, a)
    BY <1>2
  <2>2. a \in Int /\ 1 <= a
    BY <1>1, <1>3, <2>1
  <2>3. b > a /\ in[b - 1] = "LF"
    BY <2>1, <2>2, LineEndReads
  <2>4. b \in 1..Len(in) + 1
    BY <1>1, <1>6, OutcomeTypes DEF Reads
  <2> QED
    BY <2>1, <2>2, <2>3, <2>4
<1> QED
  BY <1>6, <1>7 DEF a, b, c, d

-------------------------------------------------------------------------------
(***************************************************************************)
(* The start line of a response                                            *)
(***************************************************************************)
\* A response's start line.
SpaceBehind(in, p) == IF in[p] = "SP" THEN p + 1 ELSE Malformed
StatusStart(in) == IF HttpVersion(in, 1) < 0 THEN HttpVersion(in, 1) ELSE SpaceBehind(in, HttpVersion(in, 1))
StatusEnd(in) == IF StatusStart(in) < 0 THEN StatusStart(in) ELSE Int_(in, StatusStart(in))
MessageStart(in) == IF StatusEnd(in) < 0 THEN StatusEnd(in) ELSE SpaceBehind(in, StatusEnd(in))
StatusLineEnd(in) == IF MessageStart(in) < 0 THEN MessageStart(in) ELSE ToLineEnd(in, MessageStart(in))

LEMMA ResponseParts ==
  ASSUME NEW in
  PROVE  LET headers == Headers(in, StatusLineEnd(in))
         IN Response(in).next = headers.next /\ Response(in).fields = headers.fields
<1>1. \E line : Response(in) =
        [next |-> Headers(in, StatusLineEnd(in)).next, fields |-> Headers(in, StatusLineEnd(in)).fields,
         line |-> line]
  BY DEF Response, SpaceBehind, StatusStart, StatusEnd, MessageStart, StatusLineEnd, Then
<1> QED
  BY <1>1

LEMMA SpaceReads ==
  ASSUME NEW in, NEW t, Starts(in, t), NEW p \in Int, 1 <= p, p <= Len(in)
  PROVE  Reads(in, t, p, SpaceBehind(in, p), SpaceBehind(t, p))
<1>1. in[p] = t[p] /\ Len(in) \in Nat /\ Len(t) \in Nat /\ Len(in) <= Len(t)
  BY DEF Starts
<1>2. CASE in[p] = "SP"
  <2>1. SpaceBehind(in, p) = p + 1 /\ SpaceBehind(t, p) = p + 1
    BY <1>1, <1>2 DEF SpaceBehind
  <2>2. \A i \in p..(p + 1) - 1 : i = p
    OBVIOUS
  <2>3. Clean(in, p, p + 1) /\ Clean(t, p, p + 1)
    BY <1>1, <1>2, <2>2 DEF Clean, Bare
  <2>4. p + 1 \in p..Len(in) + 1 /\ p + 1 \in p..Len(t) + 1 /\ p + 1 # Incomplete
    BY <1>1 DEF Incomplete
  <2> QED
    BY <2>1, <2>3, <2>4 DEF Reads, Outcome, Same
<1>3. CASE in[p] # "SP"
  <2>1. SpaceBehind(in, p) = Malformed /\ SpaceBehind(t, p) = Malformed
    BY <1>1, <1>3 DEF SpaceBehind
  <2> QED
    BY <2>1, MalformedReads
<1> QED
  BY <1>2, <1>3

\* The space behind a stop that is in the input.
LEMMA SpaceFollows ==
  ASSUME NEW in, NEW t, Starts(in, t), NEW a, NEW c, Reads(in, t, 1, a, c),
         a < 0 \/ a \in 1..Len(in), c < 0 \/ c \in 1..Len(t)
  PROVE  Reads(in, t, 1, IF a < 0 THEN a ELSE SpaceBehind(in, a), IF c < 0 THEN c ELSE SpaceBehind(t, c))
<1> DEFINE b == IF a < 0 THEN a ELSE SpaceBehind(in, a)
           d == IF c < 0 THEN c ELSE SpaceBehind(t, c)
<1>1. Starts(t, t) /\ Len(in) \in Nat /\ Len(t) \in Nat
  BY StartsWhole DEF Starts
<1>2. a < 0 => b = a
  OBVIOUS
<1>3. c < 0 => d = c
  OBVIOUS
<1>4. a \in Int /\ 1 <= a /\ c = a => Reads(in, t, a, b, d)
  <2> SUFFICES ASSUME a \in Int, 1 <= a, c = a PROVE Reads(in, t, a, b, d)
    OBVIOUS
  <2>1. b = SpaceBehind(in, a) /\ d = SpaceBehind(t, a) /\ a <= Len(in)
    OBVIOUS
  <2> HIDE DEF b, d
  <2> QED
    BY <2>1, SpaceReads
<1>5. c \in Int /\ 1 <= c => Outcome(t, c, d)
  <2> SUFFICES ASSUME c \in Int, 1 <= c PROVE Outcome(t, c, d)
    OBVIOUS
  <2>1. d = SpaceBehind(t, c) /\ c <= Len(t)
    OBVIOUS
  <2> HIDE DEF b, d
  <2> QED
    BY <1>1, <2>1, SpaceReads DEF Reads
<1> HIDE DEF b, d
<1>6. Reads(in, t, 1, b, d)
  BY <1>2, <1>3, <1>4, <1>5, ReadsThen
<1> QED
  BY <1>6 DEF b, d

LEMMA StatusReads ==
  ASSUME NEW in, NEW t, Starts(in, t)
  PROVE  /\ Reads(in, t, 1, StatusEnd(in), StatusEnd(t))
         /\ StatusEnd(in) < 0 \/ StatusEnd(in) \in 1..Len(in)
<1> DEFINE a == StatusStart(in)
           c == StatusStart(t)
           b == StatusEnd(in)
           d == StatusEnd(t)
<1>1. Starts(t, t) /\ Len(in) \in Nat /\ Len(t) \in Nat
  BY StartsWhole DEF Starts
<1>2. /\ Reads(in, t, 1, HttpVersion(in, 1), HttpVersion(t, 1))
      /\ HttpVersion(in, 1) < 0 \/ HttpVersion(in, 1) \in 1..Len(in)
      /\ HttpVersion(t, 1) < 0 \/ HttpVersion(t, 1) \in 1..Len(t)
  BY <1>1, VersionReads
<1>3. Reads(in, t, 1, a, c)
  BY <1>2, SpaceFollows DEF StatusStart
<1>4. b = (IF a < 0 THEN a ELSE Int_(in, a)) /\ d = (IF c < 0 THEN c ELSE Int_(t, c))
  BY DEF StatusEnd
<1> HIDE DEF a, b, c, d
<1>5. a \in Int /\ 1 <= a /\ c = a => Reads(in, t, a, b, d)
  BY <1>4, IntReads
<1>6. c \in Int /\ 1 <= c => Outcome(t, c, d)
  BY <1>1, <1>4, IntReads DEF Reads
<1>7. Reads(in, t, 1, b, d)
  BY <1>3, <1>4, <1>5, <1>6, ReadsThen
<1>8. ~(b < 0) => b \in 1..Len(in)
  <2> SUFFICES ASSUME ~(b < 0) PROVE b \in 1..Len(in)
    OBVIOUS
  <2>1. ~(a < 0) /\ b = Int_(in, a)
    BY <1>4
  <2>2. a \in 1..Len(in) + 1 /\ a \in Int /\ 1 <= a
    BY <1>1, <1>3, <2>1, OutcomeTypes DEF Reads
  <2>3. b \in a..Len(in)
    BY <2>1, <2>2, IntReads
  <2> QED
    BY <1>1, <2>2, <2>3
<1> QED
  BY <1>7, <1>8 DEF a, b, c, d

LEMMA StatusLineReads ==
  ASSUME NEW in, NEW t, Starts(in, t)
  PROVE  /\ Reads(in, t, 1, StatusLineEnd(in), StatusLineEnd(t))
         /\ \/ StatusLineEnd(in) < 0
            \/ StatusLineEnd(in) \in 2..Len(in) + 1 /\ in[StatusLineEnd(in) - 1] = "LF"
<1> DEFINE a == MessageStart(in)
           c == MessageStart(t)
           b == StatusLineEnd(in)
           d == StatusLineEnd(t)
<1>1. Starts(t, t) /\ Len(in) \in Nat /\ Len(t) \in Nat
  BY StartsWhole DEF Starts
<1>2. /\ Reads(in, t, 1, StatusEnd(in), StatusEnd(t))
      /\ StatusEnd(in) < 0 \/ StatusEnd(in) \in 1..Len(in)
      /\ StatusEnd(t) < 0 \/ StatusEnd(t) \in 1..Len(t)
  BY <1>1, StatusReads
<1>3. Reads(in, t, 1, a, c)
  BY <1>2, SpaceFollows DEF MessageStart
<1>4. b = (IF a < 0 THEN a ELSE ToLineEnd(in, a)) /\ d = (IF c < 0 THEN c ELSE ToLineEnd(t, c))
  BY DEF StatusLineEnd
<1> HIDE DEF a, b, c, d
<1>5. a \in Int /\ 1 <= a /\ c = a => Reads(in, t, a, b, d)
  BY <1>4, ToLineEndReads
<1>6. c \in Int /\ 1 <= c => Outcome(t, c, d)
  BY <1>1, <1>4, ToLineEndReads DEF Reads
<1>7. Reads(in, t, 1, b, d)
  BY <1>3, <1>4, <1>5, <1>6, ReadsThen
<1>8. ~(b < 0) => b \in 2..Len(in) + 1 /\ in[b - 1] = "LF"
  <2> SUFFICES ASSUME ~(b < 0) PROVE b \in 2..Len(in) + 1 /\ in[b - 1] = "LF"
    OBVIOUS
  <2>1. ~(a < 0) /\ b = ToLineEnd(in, a)
    BY <1>4
  <2>2. a \in Int /\ 1 <= a
    BY <1>1, <1>3, <2>1, OutcomeTypes DEF Reads
  <2>3. b > ValueStop(in, a) /\ ValueStop(in, a) \in a..Len(in) /\ in[b - 1] = "LF"
    BY <2>1, <2>2, ToLineEndReads
  <2>4. b \in 1..Len(in) + 1
    BY <1>1, <1>7, OutcomeTypes DEF Reads
  <2> QED
    BY <1>1, <2>2, <2>3, <2>4
<1> QED
  BY <1>7, <1>8 DEF a, b, c, d

-------------------------------------------------------------------------------
(***************************************************************************)
(* A header                                                                *)
(***************************************************************************)
\* A whole header, read by the parser's operator for its kind.
Whole(kind, in) == IF kind = "request" THEN Request(in) ELSE Response(in)
StartLineEnd(kind, in) == IF kind = "request" THEN RequestLineEnd(in) ELSE StatusLineEnd(in)

LEMMA WholeParts ==
  ASSUME NEW kind, NEW in
  PROVE  /\ Whole(kind, in).next = Headers(in, StartLineEnd(kind, in)).next
         /\ Whole(kind, in).fields = Headers(in, StartLineEnd(kind, in)).fields
<1>1. CASE kind = "request"
  BY <1>1, RequestParts DEF Whole, StartLineEnd
<1>2. CASE kind # "request"
  BY <1>2, ResponseParts DEF Whole, StartLineEnd
<1> QED
  BY <1>1, <1>2

LEMMA StartLineReads ==
  ASSUME NEW in, NEW t, Starts(in, t), IsSequence(in), IsSequence(t), NEW kind
  PROVE  /\ Reads(in, t, 1, StartLineEnd(kind, in), StartLineEnd(kind, t))
         /\ \/ StartLineEnd(kind, in) < 0
            \/ StartLineEnd(kind, in) \in 2..Len(in) + 1 /\ in[StartLineEnd(kind, in) - 1] = "LF"
<1>1. CASE kind = "request"
  <2> DEFINE b == RequestLineEnd(in)
             v == VersionEnd(in)
  <2>1. /\ Reads(in, t, 1, b, RequestLineEnd(t))
        /\ b < 0 \/ (~(v < 0) /\ v < b /\ b \in 1..Len(in) + 1 /\ in[b - 1] = "LF")
    BY RequestLineReads
  <2>2. v < 0 \/ v \in 1..Len(in)
    BY VersionEndReads
  <2>3. Len(in) \in Nat
    BY DEF Starts
  <2> HIDE DEF b, v
  <2>4. b < 0 \/ (b \in 2..Len(in) + 1 /\ in[b - 1] = "LF")
    BY <2>1, <2>2, <2>3
  <2> QED
    BY <1>1, <2>1, <2>4 DEF StartLineEnd, b
<1>2. CASE kind # "request"
  BY <1>2, StatusLineReads DEF StartLineEnd
<1> QED
  BY <1>1, <1>2

\* What is answered of a part of the input that is not too short is what is answered of all
\* of it; and what has not been answered of a part ends a line behind it.
THEOREM WholeReads ==
  ASSUME NEW in, NEW t, Starts(in, t), IsSequence(in), IsSequence(t), NEW kind
  PROVE  /\ Reads(in, t, 1, Whole(kind, in).next, Whole(kind, t).next)
         /\ Whole(kind, in).next = Incomplete =>
              Whole(kind, t).next < 0 \/ Whole(kind, t).next > Len(in) + 1
<1> DEFINE a == StartLineEnd(kind, in)
           c == StartLineEnd(kind, t)
<1>1. Reads(in, t, 1, a, c)
  BY StartLineReads
<1> HIDE DEF a, c
<1>2. /\ Reads(in, t, 1, Headers(in, a).next, Headers(t, c).next)
      /\ Headers(in, a).next = Incomplete =>
           Headers(t, c).next < 0 \/ Headers(t, c).next > Len(in) + 1
  BY <1>1, HeadersRead
<1> QED
  BY <1>2, WholeParts DEF a, c

\* A header that has been read ends with an empty line, and its fields stand between its
\* start line and that.
LEMMA WholeApart ==
  ASSUME NEW in, IsSequence(in), NEW kind, ~(Whole(kind, in).next < 0)
  PROVE  /\ IsSequence(Whole(kind, in).fields)
         /\ StartLineEnd(kind, in) \in 2..Len(in) + 1
         /\ \E e \in StartLineEnd(kind, in)..Len(in) :
              /\ in[e - 1] = "LF" /\ Whole(kind, in).next = LineEnd(in, e)
              /\ Apart(in, StartLineEnd(kind, in), Whole(kind, in).fields, e)
<1> DEFINE a == StartLineEnd(kind, in)
           h == Headers(in, a)
<1>1. Len(in) \in Nat /\ Starts(in, in)
  BY EmptyInput DEF Starts
<1>2. /\ Reads(in, in, 1, a, a)
      /\ a < 0 \/ (a \in 2..Len(in) + 1 /\ in[a - 1] = "LF")
  BY <1>1, StartLineReads
<1>3. Whole(kind, in).next = h.next /\ Whole(kind, in).fields = h.fields
  BY WholeParts
<1> HIDE DEF a, h
<1>4. ~(a < 0)
  BY <1>1, <1>2, <1>3, HeadersRead DEF h
<1>5. a \in Int /\ 1 <= a /\ a <= Len(in) + 1 /\ in[a - 1] = "LF"
  BY <1>1, <1>2, <1>4
<1>6. /\ IsSequence(h.fields)
      /\ ~(h.next < 0) =>
           \E e \in a..Len(in) : in[e - 1] = "LF" /\ h.next = LineEnd(in, e) /\ Apart(in, a, h.fields, e)
  BY <1>1, <1>5, HeadersApart DEF h
<1> QED
  BY <1>2, <1>3, <1>4, <1>6 DEF a

\* A request's method and path stand in front of its fields.
LEMMA RequestLineApart ==
  ASSUME NEW in, IsSequence(in), ~(Request(in).next < 0)
  PROVE  /\ Request(in).line = <<[from |-> FirstStart(in), to |-> MethodEnd(in)],
                                 [from |-> MethodEnd(in) + 1, to |-> PathEnd(in)]>>
         /\ FirstStart(in) \in 1..Len(in) /\ FirstStart(in) <= MethodEnd(in)
         /\ MethodEnd(in) \in 1..Len(in) /\ MethodEnd(in) < PathEnd(in)
         /\ PathEnd(in) \in 1..Len(in) /\ PathEnd(in) < RequestLineEnd(in)
<1>1. Len(in) \in Nat /\ Starts(in, in)
  BY EmptyInput DEF Starts
<1>2. ~(RequestLineEnd(in) < 0)
  <2>1. Reads(in, in, 1, RequestLineEnd(in), RequestLineEnd(in))
    BY <1>1, RequestLineReads
  <2>2. Request(in).next = Headers(in, RequestLineEnd(in)).next
    BY RequestParts
  <2>3. RequestLineEnd(in) < 0 => Headers(in, RequestLineEnd(in)).next = RequestLineEnd(in)
    BY <1>1, <2>1, HeadersRead
  <2> QED
    BY <2>2, <2>3
<1>3. /\ ~(VersionEnd(in) < 0) /\ VersionEnd(in) < RequestLineEnd(in)
      /\ RequestLineEnd(in) \in 1..Len(in) + 1
  BY <1>1, <1>2, RequestLineReads
<1>4. ~(PathEnd(in) < 0) /\ PathEnd(in) < VersionEnd(in) /\ VersionEnd(in) \in 1..Len(in)
  BY <1>1, <1>3, VersionEndReads
<1>5. ~(MethodEnd(in) < 0) /\ MethodEnd(in) < PathEnd(in) /\ PathEnd(in) \in 1..Len(in)
  BY <1>1, <1>4, PathReads
<1>6. FirstStart(in) \in 1..Len(in) /\ FirstStart(in) <= MethodEnd(in) /\ MethodEnd(in) \in 1..Len(in)
  BY <1>1, <1>5, MethodReads
<1>7. PathEnd(in) < RequestLineEnd(in)
  BY <1>1, <1>3, <1>4, <1>5
<1> QED
  BY <1>5, <1>6, <1>7, RequestParts

\* A header that has been read is read the same from a longer input: its method and path, its
\* fields and its length.
THEOREM WholeStays ==
  ASSUME NEW in, NEW t, Starts(in, t), IsSequence(in), IsSequence(t), NEW kind,
         ~(Whole(kind, in).next < 0)
  PROVE  /\ Whole(kind, t).next = Whole(kind, in).next
         /\ Whole(kind, t).fields = Whole(kind, in).fields
         /\ kind = "request" => Whole(kind, t).line = Whole(kind, in).line
<1> DEFINE a == StartLineEnd(kind, in)
           c == StartLineEnd(kind, t)
<1>1. Whole(kind, t).next = Whole(kind, in).next
  <2>1. Reads(in, t, 1, Whole(kind, in).next, Whole(kind, t).next)
    BY WholeReads
  <2> QED
    BY <2>1, SameStop
<1>2. a \in 2..Len(in) + 1
  BY WholeApart
<1>3. a \in Int /\ 1 <= a /\ ~(a < 0) /\ Len(in) \in Nat
  BY <1>2 DEF Starts
<1>4. c = a
  <2>1. Reads(in, t, 1, a, c)
    BY StartLineReads
  <2> HIDE DEF a, c
  <2> QED
    BY <1>3, <2>1, SameStop
<1>5. Whole(kind, t).fields = Whole(kind, in).fields
  <2>1. /\ Whole(kind, in).next = Headers(in, a).next /\ Whole(kind, in).fields = Headers(in, a).fields
        /\ Whole(kind, t).fields = Headers(t, c).fields
    BY WholeParts
  <2> HIDE DEF a, c
  <2>2. Outcome(in, a, a)
    BY <1>2, <1>3 DEF Outcome, Clean
  <2>3. Headers(t, a).fields = Headers(in, a).fields
    BY <1>3, <2>1, <2>2, HeadersStay
  <2> QED
    BY <1>4, <2>1, <2>3
<1>6. ASSUME kind = "request" PROVE Whole(kind, t).line = Whole(kind, in).line
  <2>1. Whole(kind, in) = Request(in) /\ Whole(kind, t) = Request(t)
    BY <1>6 DEF Whole
  <2>2. /\ ~(Request(in).next < 0)
        /\ FirstStart(in) \in 1..Len(in)
        /\ MethodEnd(in) \in 1..Len(in)
        /\ PathEnd(in) \in 1..Len(in)
    BY <2>1, RequestLineApart
  <2>3. ~(FirstStart(in) < 0) /\ ~(MethodEnd(in) < 0) /\ ~(PathEnd(in) < 0)
    BY <1>3, <2>2
  <2>4. FirstStart(t) = FirstStart(in)
    BY <2>3, FirstStartReads, SameStop
  <2>5. MethodEnd(t) = MethodEnd(in)
    BY <2>3, MethodReads, SameStop
  <2>6. PathEnd(t) = PathEnd(in)
    BY <2>3, PathReads, SameStop
  <2> QED
    BY <2>1, <2>4, <2>5, <2>6, RequestParts
<1> QED
  BY <1>1, <1>5, <1>6

-------------------------------------------------------------------------------
(***************************************************************************)
(* The search for the end                                                  *)
(***************************************************************************)
\* Where the headers that end within in have their last LF and the one in front.
SearchStart(last) == IF last < 3 THEN 1 ELSE last - 2
EndedAt(in, p, i, j) == i \in p..Len(in) /\ in[i] = "LF" /\ LineEnd(in, i + 1) = j + 1
EndsFrom(in, p) == {j \in 1..Len(in) : \E i \in 1..j : EndedAt(in, p, i, j)}
BareFrom(in, p) == {i \in p..Len(in) - 1 : in[i] = "CR" /\ in[i + 1] # "LF"}

LEMMA IsCompleteValue ==
  ASSUME NEW in, NEW last
  PROVE  LET ends == EndsFrom(in, SearchStart(last))
             bare == BareFrom(in, SearchStart(last))
         IN IsComplete(in, last) = IF bare # {} /\ (ends = {} \/ Min(bare) < Min(ends)) THEN Malformed
                                   ELSE IF ends = {} THEN Incomplete ELSE Min(ends) + 1
  BY DEF IsComplete, EndsFrom, BareFrom, SearchStart, EndedAt

\* A header that is read whole, and was not in the part of the input that was there
\* the time before, ends where the search looks.
LEMMA EndIsFound ==
  ASSUME NEW in, NEW s, Starts(s, in), IsSequence(s), IsSequence(in), NEW kind, Len(s) # 0,
         Whole(kind, s).next < 0, ~(Whole(kind, in).next < 0)
  PROVE  Whole(kind, in).next - 1 \in EndsFrom(in, SearchStart(Len(s)))
<1> DEFINE n == Whole(kind, in).next
           l == Len(s)
           p == SearchStart(Len(s))
<1>1. l \in Nat \ {0} /\ Len(in) \in Nat /\ l <= Len(in) /\ Starts(in, in)
  BY StartsWhole DEF Starts
<1>2. /\ Same(s, Whole(kind, s).next, n) /\ Outcome(s, 1, Whole(kind, s).next)
      /\ Outcome(in, 1, n)
      /\ Whole(kind, s).next = Incomplete => n < 0 \/ n > l + 1
  BY WholeReads DEF Reads
<1>3. Whole(kind, s).next = Incomplete
  BY <1>2 DEF Same
<1>4. n \in 1..Len(in) + 1 /\ n > l + 1
  BY <1>1, <1>2, <1>3, OutcomeTypes
<1>5. PICK e \in StartLineEnd(kind, in)..Len(in) : in[e - 1] = "LF" /\ n = LineEnd(in, e)
  BY WholeApart
<1>6. StartLineEnd(kind, in) \in 2..Len(in) + 1
  BY WholeApart
<1>7. e \in 2..Len(in)
  BY <1>1, <1>5, <1>6
<1>8. n = e + 1 \/ n = e + 2
  BY <1>1, <1>5, <1>7, LineEndValue DEF Malformed, Incomplete
<1>9. p \in Nat /\ 1 <= p /\ p <= e - 1
  BY <1>1, <1>4, <1>7, <1>8 DEF SearchStart
<1> HIDE DEF n, p
<1>10. e - 1 \in p..Len(in) /\ (e - 1) + 1 = e /\ (n - 1) + 1 = n
  BY <1>1, <1>4, <1>7, <1>9
<1>11. EndedAt(in, p, e - 1, n - 1)
  BY <1>5, <1>10 DEF EndedAt
<1>12. n - 1 \in 1..Len(in) /\ e - 1 \in 1..n - 1
  BY <1>1, <1>4, <1>7, <1>8
<1> QED
  BY <1>11, <1>12 DEF EndsFrom, n, p

\* A search that does not find the end is malformed or incomplete.
LEMMA SearchTypes ==
  ASSUME NEW in, Len(in) \in Nat, NEW last \in Nat
  PROVE  IsComplete(in, last) < 0 => IsComplete(in, last) \in {Malformed, Incomplete}
<1> DEFINE ends == EndsFrom(in, SearchStart(last))
           bare == BareFrom(in, SearchStart(last))
           c == IsComplete(in, last)
<1>1. c = IF bare # {} /\ (ends = {} \/ Min(bare) < Min(ends)) THEN Malformed
          ELSE IF ends = {} THEN Incomplete ELSE Min(ends) + 1
  BY IsCompleteValue
<1>2. ends \subseteq Nat
  BY DEF EndsFrom
<1> HIDE DEF ends, bare, c
<1>3. ends # {} => Min(ends) \in Nat
  BY <1>2, LeastIsMin
<1> QED
  BY <1>1, <1>3 DEF c

\* The search for the end of a header answers nothing that reading all of it does not.
LEMMA SearchAgrees ==
  ASSUME NEW in, NEW s, Starts(s, in), IsSequence(s), IsSequence(in), NEW kind, Len(s) # 0,
         Whole(kind, s).next < 0, IsComplete(in, Len(s)) < 0
  PROVE  /\ IsComplete(in, Len(s)) \in {Malformed, Incomplete}
         /\ Whole(kind, in).next < 0
         /\ IsComplete(in, Len(s)) = Malformed => Whole(kind, in).next = Malformed
<1> DEFINE n == Whole(kind, in).next
           p == SearchStart(Len(s))
           ends == EndsFrom(in, p)
           bare == BareFrom(in, p)
           c == IsComplete(in, Len(s))
<1>1. Len(s) \in Nat \ {0} /\ Len(in) \in Nat /\ Starts(in, in)
  BY StartsWhole DEF Starts
<1>2. p \in Nat /\ 1 <= p
  BY <1>1 DEF SearchStart
<1>3. c = IF bare # {} /\ (ends = {} \/ Min(bare) < Min(ends)) THEN Malformed
          ELSE IF ends = {} THEN Incomplete ELSE Min(ends) + 1
  BY IsCompleteValue
<1>4. ~(n < 0) => n - 1 \in ends
  BY EndIsFound
<1>5. ends \subseteq Nat /\ bare \subseteq Nat
  BY <1>1, <1>2 DEF EndsFrom, BareFrom
<1>6. Outcome(in, 1, n)
  BY <1>1, WholeReads DEF Reads
<1>7. \A i \in bare : i >= 1 /\ i <= Len(in) /\ Bare(in, i)
  BY <1>1, <1>2 DEF BareFrom, Bare
<1> HIDE DEF n, p, ends, bare, c
<1>8. ends # {} => Min(ends) \in Nat /\ \A y \in ends : Min(ends) <= y
  BY <1>5, LeastIsMin
<1>9. bare # {} => Min(bare) \in bare
  BY <1>5, LeastIsMin
<1>10. n \in Int /\ (n < 0 => n \in {Malformed, Incomplete}) /\ (~(n < 0) => Clean(in, 1, n))
  BY <1>1, <1>6, OutcomeTypes
<1>11. c \in {Malformed, Incomplete}
  BY <1>1, SearchTypes DEF c
<1>12. CASE c = Incomplete
  <2>1. ends = {}
    <3>1. ends # {} => Min(ends) + 1 # Incomplete /\ Malformed # Incomplete
      BY <1>8 DEF Incomplete, Malformed
    <3> QED
      BY <1>3, <1>12, <3>1 DEF Incomplete, Malformed
  <2>2. n < 0
    BY <1>4, <2>1
  <2> QED
    BY <1>11, <1>12, <2>2 DEF Incomplete, Malformed, n, c
<1>13. CASE c = Malformed
  <2>1. bare # {} /\ (ends = {} \/ Min(bare) < Min(ends))
    <3>1. ends # {} => Min(ends) + 1 # Malformed
      BY <1>8 DEF Malformed
    <3> QED
      BY <1>3, <1>13, <3>1 DEF Incomplete, Malformed
  <2>2. PICK i \in bare : i = Min(bare)
    BY <1>9, <2>1
  <2>3. i \in Nat /\ i >= 1 /\ i <= Len(in) /\ Bare(in, i)
    BY <1>5, <1>7, <2>2
  <2>4. n < 0
    <3> SUFFICES ASSUME ~(n < 0) PROVE FALSE
      OBVIOUS
    <3>1. n - 1 \in ends /\ Min(bare) < Min(ends)
      BY <1>4, <2>1
    <3>2. Min(ends) <= n - 1 /\ Min(ends) \in Nat
      BY <1>8, <3>1
    <3>3. i \in 1..n - 1
      BY <1>10, <2>2, <2>3, <3>1, <3>2
    <3> QED
      BY <1>10, <2>3, <3>3 DEF Clean
  <2>5. n # Incomplete
    <3> SUFFICES ASSUME n = Incomplete PROVE FALSE
      OBVIOUS
    <3>1. Clean(in, 1, Len(in) + 1)
      BY <1>1, <1>6 DEF Outcome, Malformed, Incomplete
    <3>2. i \in 1..(Len(in) + 1) - 1
      BY <1>1, <2>3
    <3> QED
      BY <2>3, <3>1, <3>2 DEF Clean
  <2> QED
    BY <1>10, <1>11, <2>4, <2>5 DEF n, c
<1> QED
  BY <1>11, <1>12, <1>13
================================================================================
