---------------------------- MODULE HttpHeaderProofs ---------------------------
(***************************************************************************)
(* What the header handlers answer and show, for every text that is sent,  *)
(* every damage to it and every split: the answer is that of all the text, *)
(* so is what is shown, and every C string is the range that was parsed.   *)
(* Hence a header that is read right in one piece is read right in any     *)
(* pieces.                                                                 *)
(*                                                                         *)
(* The invariant (IInv) relates the answer to what reading all that has    *)
(* arrived from its first character answers (Reading).  That the reading   *)
(* of a part stands for that of the whole is PicoHttpProofs' WholeReads    *)
(* and WholeStays; that the search for the end changes nothing of it,      *)
(* SearchAgrees.                                                           *)
(***************************************************************************)
EXTENDS HttpHeader, PicoHttpProofs

-------------------------------------------------------------------------------
(***************************************************************************)
(* The terminators                                                         *)
(***************************************************************************)
\* The C string at a, when there is a terminator at b and none between.
LEMMA StringEnds ==
  ASSUME NEW S, NEW m \in Seq(S), NEW p \in Int, NEW q \in Int,
         1 <= p, p <= q, q <= Len(m), m[q] = "NUL", \A i \in p..q - 1 : m[i] # "NUL"
  PROVE  StringAt(m, p) = SubSeq(m, p, q - 1)
  <1> DEFINE E == {i \in p..Len(m) : m[i] = "NUL"} \cup {Len(m) + 1}
  <1>1. q \in E /\ \A y \in E : q <= y
    OBVIOUS
  <1>2. Min(E) = q
    BY <1>1 DEF Min
  <1> QED
    BY <1>2 DEF StringAt

\* The input with terminators at E.
Marked(in, E) == [i \in DOMAIN in |-> IF i \in E THEN "NUL" ELSE in[i]]

LEMMA MarkedString ==
  ASSUME NEW in \in Seq(STRING), \A i \in 1..Len(in) : in[i] # "NUL", NEW E,
         NEW p \in Int, NEW q \in Int, 1 <= p, p <= q, q <= Len(in),
         q \in E, \A i \in p..q - 1 : i \notin E
  PROVE  StringAt(Marked(in, E), p) = SubSeq(in, p, q - 1)
<1> DEFINE m == Marked(in, E)
           S == STRING \cup {"NUL"}
<1>1. Len(in) \in Nat /\ DOMAIN in = 1..Len(in)
  OBVIOUS
<1>2. \A i \in 1..Len(in) : in[i] \in STRING
  OBVIOUS
<1>3. m \in [1..Len(in) -> S]
  BY <1>1, <1>2 DEF Marked
<1>4. m \in Seq(S) /\ Len(m) = Len(in)
  BY <1>1, <1>3
<1>5. \A i \in 1..Len(in) : m[i] = IF i \in E THEN "NUL" ELSE in[i]
  BY <1>1 DEF Marked
<1> HIDE DEF m, S
<1>6. m[q] = "NUL"
  BY <1>5
<1>7. \A i \in p..q - 1 : m[i] = in[i] /\ m[i] # "NUL"
  BY <1>1, <1>5
<1>8. StringAt(m, p) = SubSeq(m, p, q - 1)
  BY <1>4, <1>6, <1>7, StringEnds
<1>9. SubSeq(m, p, q - 1) = SubSeq(in, p, q - 1)
  BY <1>1, <1>4, <1>7
<1> QED
  BY <1>8, <1>9 DEF m

\* Every range of a field lies in its line, its value's behind its name's.
InLine(in, start, f) ==
  /\ f.name.from \in Int /\ f.name.to \in Int /\ f.value.from \in Int /\ f.value.to \in Int
  /\ f.next \in Int
  /\ 1 <= f.name.from /\ start <= f.name.from /\ f.name.from <= f.name.to
  /\ f.name.to < f.value.from /\ f.value.from <= f.value.to
  /\ f.value.to <= Len(in) /\ f.value.to < f.next

LEMMA FieldInLine ==
  ASSUME NEW in, Len(in) \in Nat, NEW start \in Int, 1 <= start, NEW fields, NEW end,
         Apart(in, start, fields, end), NEW i \in 1..Len(fields), fields[i].name # NULL
  PROVE  InLine(in, start, fields[i])
<1> DEFINE f == fields[i]
<1>1. \E p \in start..Len(in) : Ranges(in, p, f)
  BY DEF Apart
<1>2. PICK p \in start..Len(in) : Ranges(in, p, f)
  BY <1>1
<1> HIDE DEF f
<1>3. p \in Int /\ start <= p /\ 1 <= p
  OBVIOUS
<1>4. f.name # NULL
  BY DEF f
<1>5. /\ f.name.from = p /\ f.name.to \in p..Len(in) /\ f.name.to < f.value.from
      /\ f.value.from \in p..Len(in) /\ f.value.to \in p..Len(in)
      /\ f.value.from <= f.value.to /\ f.value.to < f.next /\ f.next \in p + 1..Len(in) + 1
  BY <1>2, <1>4 DEF Ranges
<1> QED
  BY <1>3, <1>5 DEF InLine, f

\* In its line a range has no terminator but behind it.
LEMMA RangesInLine ==
  ASSUME NEW in, NEW start, NEW f, InLine(in, start, f), NEW x \in Int
  PROVE  /\ \/ x \in f.name.from..f.name.to - 1
            \/ x \in f.value.from..f.value.to - 1
            => f.name.from <= x /\ x < f.next /\ x # f.name.to /\ x # f.value.to
         /\ x = f.name.to \/ x = f.value.to => f.name.from <= x /\ x < f.next
<1> DEFINE a == f.name.from
           b == f.name.to
           c == f.value.from
           d == f.value.to
           n == f.next
<1>1. /\ a \in Int /\ b \in Int /\ c \in Int /\ d \in Int /\ n \in Int
      /\ a <= b /\ b < c /\ c <= d /\ d < n
  BY DEF InLine
<1> HIDE DEF a, b, c, d, n
<1>2. /\ x \in a..b - 1 \/ x \in c..d - 1 => a <= x /\ x < n /\ x # b /\ x # d
      /\ x = b \/ x = d => a <= x /\ x < n
  BY <1>1
<1> QED
  BY <1>2 DEF a, b, c, d, n

\* The places of the terminators of fields without continuation lines.
FieldEnds(fields) == UNION {Ends(fields[i]) : i \in DOMAIN fields}

LEMMA FieldEndsApart ==
  ASSUME NEW in, Len(in) \in Nat, NEW start \in Int, 1 <= start, NEW fields, IsSequence(fields), NEW end,
         Apart(in, start, fields, end), \A i \in 1..Len(fields) : fields[i].name # NULL
  PROVE  /\ \A z \in FieldEnds(fields) : z \in Int /\ z >= start
         /\ \A i \in 1..Len(fields) :
              /\ fields[i].name.to \in FieldEnds(fields) /\ fields[i].value.to \in FieldEnds(fields)
              /\ \A x \in fields[i].name.from..fields[i].name.to - 1 : x \notin FieldEnds(fields)
              /\ \A x \in fields[i].value.from..fields[i].value.to - 1 : x \notin FieldEnds(fields)
<1>1. DOMAIN fields = 1..Len(fields) /\ Len(fields) \in Nat
  BY DEF IsSequence
<1>2. \A i \in 1..Len(fields) : InLine(in, start, fields[i])
  BY FieldInLine
<1>3. ASSUME NEW z \in FieldEnds(fields)
      PROVE  \E j \in 1..Len(fields) : z = fields[j].name.to \/ z = fields[j].value.to
  BY <1>1 DEF FieldEnds, Ends
<1>4. ASSUME NEW z \in FieldEnds(fields) PROVE z \in Int /\ z >= start
  <2>1. PICK j \in 1..Len(fields) : z = fields[j].name.to \/ z = fields[j].value.to
    BY <1>3
  <2>2. InLine(in, start, fields[j])
    BY <1>2
  <2> QED
    BY <2>1, <2>2 DEF InLine
<1>5. ASSUME NEW i \in 1..Len(fields)
      PROVE  fields[i].name.to \in FieldEnds(fields) /\ fields[i].value.to \in FieldEnds(fields)
  BY <1>1 DEF FieldEnds, Ends
<1>6. ASSUME NEW i \in 1..Len(fields), NEW x \in Int, x \in FieldEnds(fields),
             \/ x \in fields[i].name.from..fields[i].name.to - 1
             \/ x \in fields[i].value.from..fields[i].value.to - 1
      PROVE  FALSE
  <2>1. PICK j \in 1..Len(fields) : x = fields[j].name.to \/ x = fields[j].value.to
    BY <1>3, <1>6
  <2>2. /\ i < j => fields[i].next <= fields[j].name.from
        /\ j < i => fields[j].next <= fields[i].name.from
    <3>1. fields[i].name # NULL /\ fields[j].name # NULL
      OBVIOUS
    <3> QED
      BY <3>1 DEF Apart
  <2> DEFINE f == fields[i]
             g == fields[j]
  <2>3. InLine(in, start, f) /\ InLine(in, start, g) /\ (i = j => f = g)
    BY <1>2
  <2>4. /\ x = g.name.to \/ x = g.value.to
        /\ x \in f.name.from..f.name.to - 1 \/ x \in f.value.from..f.value.to - 1
        /\ i < j => f.next <= g.name.from
        /\ j < i => g.next <= f.name.from
    BY <1>6, <2>1, <2>2
  <2>5. i < j \/ i = j \/ j < i
    OBVIOUS
  <2> HIDE DEF f, g
  <2>6. f.name.from <= x /\ x < f.next /\ x # f.name.to /\ x # f.value.to
    BY <2>3, <2>4, RangesInLine
  <2>7. g.name.from <= x /\ x < g.next
    BY <2>3, <2>4, RangesInLine
  <2>8. f.name.from \in Int /\ f.next \in Int /\ g.name.from \in Int /\ g.next \in Int
    BY <2>3 DEF InLine
  <2>9. ~(i < j) /\ ~(j < i)
    BY <2>4, <2>6, <2>7, <2>8
  <2> QED
    BY <2>3, <2>4, <2>5, <2>6, <2>9
<1>7. ASSUME NEW i \in 1..Len(fields)
      PROVE  /\ \A x \in fields[i].name.from..fields[i].name.to - 1 : x \notin FieldEnds(fields)
             /\ \A x \in fields[i].value.from..fields[i].value.to - 1 : x \notin FieldEnds(fields)
  <2>1. InLine(in, start, fields[i])
    BY <1>2
  <2>2. \A x \in fields[i].name.from..fields[i].name.to - 1 : x \in Int
    BY <2>1 DEF InLine
  <2>3. \A x \in fields[i].value.from..fields[i].value.to - 1 : x \in Int
    BY <2>1 DEF InLine
  <2> QED
    BY <1>6, <2>2, <2>3
<1> QED
  BY <1>4, <1>5, <1>7

LineMarks(kind, parse) == IF kind = "request" THEN {parse.line[i].to : i \in DOMAIN parse.line} ELSE {}

LEMMA TerminatedMarked ==
  ASSUME NEW kind, NEW in, NEW parse
  PROVE  Terminated(kind, in, parse) = Marked(in, FieldEnds(parse.fields) \cup LineMarks(kind, parse))
<1> DEFINE F == UNION {Ends(parse.fields[i]) : i \in DOMAIN parse.fields}
           L == IF kind = "request" THEN {parse.line[i].to : i \in DOMAIN parse.line} ELSE {}
<1>1. Terminated(kind, in, parse) = [i \in DOMAIN in |-> IF i \in F \cup L THEN "NUL" ELSE in[i]]
  BY DEF Terminated
<1>2. F = FieldEnds(parse.fields)
  BY Zenon DEF FieldEnds
<1>3. L = LineMarks(kind, parse)
  BY Zenon DEF LineMarks
<1> HIDE DEF F, L
<1> QED
  BY <1>1, <1>2, <1>3 DEF Marked

\* The C string at a range's beginning is what stood in it.
ShownAs(memory, in, range) ==
  /\ range.from \in 1..Len(in) /\ range.to \in range.from..Len(in)
  /\ StringAt(memory, range.from) = SubSeq(in, range.from, range.to - 1)

\* A header without continuation lines is shown as the ranges that were found in it.
LEMMA ShownApart ==
  ASSUME NEW in \in Seq(STRING), \A i \in 1..Len(in) : in[i] # "NUL", NEW kind,
         ~(Whole(kind, in).next < 0),
         \A i \in 1..Len(Whole(kind, in).fields) : Whole(kind, in).fields[i].name # NULL
  PROVE  LET parse == Whole(kind, in)
             memory == Terminated(kind, in, parse)
         IN /\ \A i \in 1..Len(parse.fields) : /\ ShownAs(memory, in, parse.fields[i].name)
                                                /\ ShownAs(memory, in, parse.fields[i].value)
            /\ kind = "request" => \A i \in DOMAIN parse.line : ShownAs(memory, in, parse.line[i])
<1> DEFINE parse == Whole(kind, in)
           fields == parse.fields
           start == StartLineEnd(kind, in)
           E == FieldEnds(fields) \cup LineMarks(kind, parse)
<1>1. IsSequence(in) /\ Len(in) \in Nat
  BY DEF IsSequence
<1>2. IsSequence(fields) /\ start \in 2..Len(in) + 1
  BY <1>1, WholeApart
<1>3. PICK e \in start..Len(in) : Apart(in, start, fields, e)
  BY <1>1, WholeApart
<1>4. Terminated(kind, in, parse) = Marked(in, E)
  BY TerminatedMarked
<1>5. kind = "request" =>
        /\ parse.line = <<[from |-> FirstStart(in), to |-> MethodEnd(in)],
                          [from |-> MethodEnd(in) + 1, to |-> PathEnd(in)]>>
        /\ FirstStart(in) \in 1..Len(in) /\ FirstStart(in) <= MethodEnd(in)
        /\ MethodEnd(in) \in 1..Len(in) /\ MethodEnd(in) < PathEnd(in)
        /\ PathEnd(in) \in 1..Len(in) /\ PathEnd(in) < start
  BY <1>1, RequestLineApart DEF Whole, StartLineEnd
<1>6. LineMarks(kind, parse) = IF kind = "request" THEN {MethodEnd(in), PathEnd(in)} ELSE {}
  <2>1. CASE kind = "request"
    <3> DEFINE line == parse.line
    <3>1. DOMAIN line = {1, 2} /\ line[1].to = MethodEnd(in) /\ line[2].to = PathEnd(in)
      BY <1>5, <2>1
    <3>2. LineMarks(kind, parse) = {line[i].to : i \in DOMAIN line}
      BY <2>1 DEF LineMarks
    <3> HIDE DEF line
    <3>3. {line[i].to : i \in DOMAIN line} = {MethodEnd(in), PathEnd(in)}
      BY <3>1
    <3> QED
      BY <2>1, <3>2, <3>3
  <2>2. CASE kind # "request"
    BY <2>2 DEF LineMarks
  <2> QED
    BY <2>1, <2>2
<1> HIDE DEF parse, fields, start, E
<1>7. start \in Int /\ 1 <= start
  BY <1>1, <1>2
<1>8. \A i \in 1..Len(fields) : fields[i].name # NULL
  BY DEF fields, parse
<1>9. /\ \A z \in FieldEnds(fields) : z \in Int /\ z >= start
      /\ \A i \in 1..Len(fields) :
           /\ fields[i].name.to \in FieldEnds(fields) /\ fields[i].value.to \in FieldEnds(fields)
           /\ \A x \in fields[i].name.from..fields[i].name.to - 1 : x \notin FieldEnds(fields)
           /\ \A x \in fields[i].value.from..fields[i].value.to - 1 : x \notin FieldEnds(fields)
  BY <1>1, <1>2, <1>3, <1>7, <1>8, FieldEndsApart
<1>10. ASSUME NEW i \in 1..Len(fields) PROVE InLine(in, start, fields[i])
  BY <1>1, <1>3, <1>7, <1>8, FieldInLine
<1>11. \A z \in LineMarks(kind, parse) : z \in Int /\ z < start
  <2>1. kind = "request" => /\ MethodEnd(in) \in Int /\ PathEnd(in) \in Int
                            /\ MethodEnd(in) < PathEnd(in) /\ PathEnd(in) < start
    BY <1>1, <1>5
  <2>2. kind = "request" => MethodEnd(in) < start
    BY <1>7, <2>1
  <2> QED
    BY <1>6, <2>1, <2>2
<1>12. ASSUME NEW a \in Int, NEW b \in Int, start <= a, a <= b, b <= Len(in),
              b \in FieldEnds(fields), \A x \in a..b - 1 : x \notin FieldEnds(fields)
       PROVE  StringAt(Marked(in, E), a) = SubSeq(in, a, b - 1)
  <2>1. b \in E
    BY <1>12 DEF E
  <2>2. ASSUME NEW x \in a..b - 1 PROVE x \notin E
    <3>1. x \notin FieldEnds(fields)
      BY <1>12
    <3>2. x \notin LineMarks(kind, parse)
      BY <1>7, <1>11, <1>12
    <3> QED
      BY <3>1, <3>2 DEF E
  <2>3. 1 <= a
    BY <1>7, <1>12
  <2> QED
    BY <1>12, <2>1, <2>2, <2>3, MarkedString
<1>13. ASSUME NEW i \in 1..Len(fields)
       PROVE  /\ ShownAs(Marked(in, E), in, fields[i].name)
              /\ ShownAs(Marked(in, E), in, fields[i].value)
  <2> DEFINE a == fields[i].name.from
             b == fields[i].name.to
             c == fields[i].value.from
             d == fields[i].value.to
  <2>1. /\ a \in Int /\ b \in Int /\ c \in Int /\ d \in Int
        /\ start <= a /\ a <= b /\ b < c /\ c <= d /\ d <= Len(in)
    BY <1>10 DEF InLine
  <2>2. /\ b \in FieldEnds(fields) /\ d \in FieldEnds(fields)
        /\ \A x \in a..b - 1 : x \notin FieldEnds(fields)
        /\ \A x \in c..d - 1 : x \notin FieldEnds(fields)
    BY <1>9
  <2> HIDE DEF a, b, c, d
  <2>3. start <= c /\ b <= Len(in)
    BY <1>1, <1>7, <2>1
  <2>4. StringAt(Marked(in, E), a) = SubSeq(in, a, b - 1)
    BY <1>12, <2>1, <2>2, <2>3
  <2>5. StringAt(Marked(in, E), c) = SubSeq(in, c, d - 1)
    BY <1>12, <2>1, <2>2, <2>3
  <2>6. a \in 1..Len(in) /\ b \in a..Len(in) /\ c \in 1..Len(in) /\ d \in c..Len(in)
    BY <1>1, <1>7, <2>1, <2>3
  <2> QED
    BY <2>4, <2>5, <2>6 DEF a, b, c, d, ShownAs
<1>14. ASSUME kind = "request", NEW a \in Int, NEW b \in Int,
              \/ a = FirstStart(in) /\ b = MethodEnd(in)
              \/ a = MethodEnd(in) + 1 /\ b = PathEnd(in)
       PROVE  /\ StringAt(Marked(in, E), a) = SubSeq(in, a, b - 1)
              /\ a \in 1..Len(in) /\ b \in a..Len(in)
  <2>1. /\ 1 <= a /\ a <= b /\ b <= Len(in) /\ b < start
        /\ \A x \in a..b - 1 : x # MethodEnd(in) /\ x # PathEnd(in)
    BY <1>1, <1>5, <1>7, <1>14
  <2>2. b \in E
    BY <1>6, <1>14 DEF E
  <2>3. ASSUME NEW x \in a..b - 1 PROVE x \notin E
    <3>1. x \notin FieldEnds(fields)
      BY <1>7, <1>9, <2>1
    <3>2. x \notin LineMarks(kind, parse)
      BY <1>6, <2>1
    <3> QED
      BY <3>1, <3>2 DEF E
  <2>4. StringAt(Marked(in, E), a) = SubSeq(in, a, b - 1)
    BY <2>1, <2>2, <2>3, MarkedString
  <2> QED
    BY <1>1, <2>1, <2>4
<1>15. ASSUME kind = "request", NEW i \in DOMAIN parse.line
       PROVE  ShownAs(Marked(in, E), in, parse.line[i])
  <2>1. i = 1 \/ i = 2
    BY <1>5, <1>15
  <2>2. /\ parse.line[1].from = FirstStart(in) /\ parse.line[1].to = MethodEnd(in)
        /\ parse.line[2].from = MethodEnd(in) + 1 /\ parse.line[2].to = PathEnd(in)
    BY <1>5, <1>15
  <2>3. parse.line[i].from \in Int /\ parse.line[i].to \in Int
    BY <1>1, <1>5, <1>15, <2>1, <2>2
  <2> QED
    BY <1>14, <1>15, <2>1, <2>2, <2>3 DEF ShownAs
<1> QED
  BY <1>4, <1>13, <1>15 DEF fields, parse

-------------------------------------------------------------------------------
(***************************************************************************)
(* What is shown of a part of the text                                     *)
(***************************************************************************)
\* What is shown, but for a response's line: the string of its message goes on behind it.
ShownAlike(kind, a, b) ==
  /\ a.fields = b.fields /\ a.chunked = b.chunked /\ a.size = b.size
  /\ kind = "request" => a.line = b.line

\* The line and the fields are all that is shown, and how the body is framed follows from them.
LineShown(memory, parse) == [i \in DOMAIN parse.line |-> StringAt(memory, parse.line[i].from)]

FieldsShown(memory, parse) ==
  [i \in DOMAIN parse.fields |-> Field(StringAt(memory, parse.fields[i].name.from),
                                       StringAt(memory, parse.fields[i].value.from))]

LEMMA AcceptedAlike ==
  ASSUME NEW kind, NEW in, NEW parse, NEW t, NEW all,
         all.fields = parse.fields,
         \A i \in DOMAIN parse.fields : parse.fields[i].name # NULL,
         FieldsShown(Terminated(kind, t, all), all) = FieldsShown(Terminated(kind, in, parse), parse),
         kind = "request" =>
           LineShown(Terminated(kind, t, all), all) = LineShown(Terminated(kind, in, parse), parse)
  PROVE  ShownAlike(kind, Accepted(kind, in, parse), Accepted(kind, t, all))
<1> DEFINE F == FieldsShown(Terminated(kind, in, parse), parse)
           L == LineShown(Terminated(kind, in, parse), parse)
           K == LineShown(Terminated(kind, t, all), all)
           chunked == Lower(Lookup(F, CodingKey)) = ChunkedValue
           size == IF chunked \/ Lookup(F, LengthKey) = Null THEN 0 ELSE StrToUl(Lookup(F, LengthKey))
<1>1. Accepted(kind, in, parse) = [line |-> L, fields |-> F, chunked |-> chunked, size |-> size]
  BY DEF Accepted, FieldsShown, LineShown
<1>2. Accepted(kind, t, all) = [line |-> K, fields |-> F, chunked |-> chunked, size |-> size]
  <2>1. FieldsShown(Terminated(kind, t, all), all) = F
    OBVIOUS
  <2> DEFINE G == FieldsShown(Terminated(kind, t, all), all)
             c == Lower(Lookup(G, CodingKey)) = ChunkedValue
             s == IF c \/ Lookup(G, LengthKey) = Null THEN 0 ELSE StrToUl(Lookup(G, LengthKey))
  <2>2. Accepted(kind, t, all) = [line |-> K, fields |-> G, chunked |-> c, size |-> s]
    BY DEF Accepted, FieldsShown, LineShown
  <2> HIDE DEF F, K
  <2> QED
    BY <2>1, <2>2
<1>3. kind = "request" => K = L
  OBVIOUS
<1> HIDE DEF F, L, K, chunked, size
<1> QED
  BY <1>1, <1>2, <1>3 DEF ShownAlike

\* A range of what has arrived is shown as it is of all the text.
LEMMA SameRange ==
  ASSUME NEW in \in Seq(STRING), NEW t \in Seq(STRING), Starts(in, t), NEW m, NEW n, NEW range,
         ShownAs(m, in, range), ShownAs(n, t, range)
  PROVE  StringAt(n, range.from) = StringAt(m, range.from)
<1> DEFINE a == range.from
           b == range.to
<1>1. /\ a \in 1..Len(in) /\ b \in a..Len(in)
      /\ StringAt(m, a) = SubSeq(in, a, b - 1)
      /\ StringAt(n, a) = SubSeq(t, a, b - 1)
  BY DEF ShownAs
<1>2. /\ Len(in) \in Nat /\ Len(t) \in Nat /\ Len(in) <= Len(t)
      /\ \A i \in 1..Len(in) : in[i] = t[i]
  BY DEF Starts
<1> HIDE DEF a, b
<1>3. SubSeq(in, a, b - 1) = SubSeq(t, a, b - 1)
  BY <1>1, <1>2
<1> QED
  BY <1>1, <1>3 DEF a

\* A header that was accepted is shown as it would have been with all of the text there.
LEMMA AcceptedStays ==
  ASSUME NEW in \in Seq(STRING), NEW t \in Seq(STRING), Starts(in, t),
         \A i \in 1..Len(t) : t[i] # "NUL", NEW kind, ~(Whole(kind, in).next < 0)
  PROVE  ShownAlike(kind, Accepted(kind, in, Whole(kind, in)), Accepted(kind, t, Whole(kind, t)))
<1> DEFINE parse == Whole(kind, in)
           all == Whole(kind, t)
           m == Terminated(kind, in, parse)
           n == Terminated(kind, t, all)
<1>1. IsSequence(in) /\ IsSequence(t)
  BY DEF IsSequence
<1>2. /\ all.next = parse.next /\ all.fields = parse.fields
      /\ kind = "request" => all.line = parse.line
  BY <1>1, WholeStays
<1>3. IsSequence(parse.fields) /\ DOMAIN parse.fields = 1..Len(parse.fields)
  <2>1. IsSequence(parse.fields)
    BY <1>1, WholeApart
  <2> QED
    BY <2>1 DEF IsSequence
<1>4. \A i \in 1..Len(in) : in[i] # "NUL"
  BY DEF Starts
<1>5. ~(all.next < 0)
  BY <1>2
<1>6. CASE \E i \in DOMAIN parse.fields : parse.fields[i].name = NULL
  <2>1. Accepted(kind, in, parse) = Corrupt /\ Accepted(kind, t, all) = Corrupt
    BY <1>2, <1>6 DEF Accepted
  <2> QED
    BY <2>1 DEF ShownAlike
<1>7. CASE \A i \in DOMAIN parse.fields : parse.fields[i].name # NULL
  <2>1. \A i \in 1..Len(parse.fields) : parse.fields[i].name # NULL
    BY <1>3, <1>7
  <2>2. /\ \A i \in 1..Len(parse.fields) : /\ ShownAs(m, in, parse.fields[i].name)
                                            /\ ShownAs(m, in, parse.fields[i].value)
        /\ kind = "request" => \A i \in DOMAIN parse.line : ShownAs(m, in, parse.line[i])
    BY <1>4, <2>1, ShownApart
  <2>3. /\ \A i \in 1..Len(all.fields) : /\ ShownAs(n, t, all.fields[i].name)
                                          /\ ShownAs(n, t, all.fields[i].value)
        /\ kind = "request" => \A i \in DOMAIN all.line : ShownAs(n, t, all.line[i])
    BY <1>2, <1>5, <2>1, ShownApart
  <2> HIDE DEF parse, all, m, n
  <2>4. ASSUME NEW i \in DOMAIN parse.fields
        PROVE  /\ StringAt(n, parse.fields[i].name.from) = StringAt(m, parse.fields[i].name.from)
               /\ StringAt(n, parse.fields[i].value.from) = StringAt(m, parse.fields[i].value.from)
    <3>1. /\ ShownAs(m, in, parse.fields[i].name) /\ ShownAs(m, in, parse.fields[i].value)
          /\ ShownAs(n, t, parse.fields[i].name) /\ ShownAs(n, t, parse.fields[i].value)
      BY <1>2, <1>3, <2>2, <2>3
    <3> QED
      BY <3>1, SameRange
  <2>5. FieldsShown(n, all) = FieldsShown(m, parse)
    BY <1>2, <2>4 DEF FieldsShown
  <2>6. ASSUME kind = "request" PROVE LineShown(n, all) = LineShown(m, parse)
    <3>1. all.line = parse.line
      BY <1>2, <2>6
    <3>2. ASSUME NEW i \in DOMAIN parse.line
          PROVE  StringAt(n, parse.line[i].from) = StringAt(m, parse.line[i].from)
      <4>1. ShownAs(m, in, parse.line[i]) /\ ShownAs(n, t, parse.line[i])
        BY <2>2, <2>3, <2>6, <3>1
      <4> QED
        BY <4>1, SameRange
    <3> QED
      BY <3>1, <3>2 DEF LineShown
  <2>7. ShownAlike(kind, Accepted(kind, in, parse), Accepted(kind, t, all))
    BY <1>2, <1>7, <2>5, <2>6, AcceptedAlike DEF m, n
  <2> QED
    BY <2>7 DEF parse, all
<1> QED
  BY <1>6, <1>7

-------------------------------------------------------------------------------
(***************************************************************************)
(* The inductive invariant                                                 *)
(***************************************************************************)
\* What has arrived, and the whole header read from it.
Arrived == SubSeq(text, 1, got)
Reading == Whole(sent.kind, Arrived)

\* What is sent arrives as characters, none of them a terminator.
Texts ==
  /\ sent \in Sent /\ fast \in BOOLEAN /\ got \in 0..Len(text)
  /\ text \in Seq(STRING) /\ Len(text) = Len(sent.text)
  /\ \A i \in 1..Len(text) : text[i] # "NUL"

\* What has been answered is what reading all that has arrived answers.
Answered ==
  /\ answer \in {Malformed, Incomplete} \cup 1..got
  /\ answer <= 0 => found = Nothing
  /\ answer > 0 => /\ ~(Reading.next < 0) /\ answer = Reading.next - 1
                   /\ found = Accepted(sent.kind, Arrived, Reading)

\* Also what the search for the end has answered instead.
Stands ==
  Plain(text) => /\ answer = Incomplete => Reading.next < 0
                 /\ answer = Malformed => Reading.next = Malformed

IInv == Texts /\ Answered /\ Stands

-------------------------------------------------------------------------------
\* What has arrived goes on as the text does.
LEMMA PartStarts ==
  ASSUME NEW t \in Seq(STRING), NEW m \in 0..Len(t), NEW n \in m..Len(t)
  PROVE  /\ IsSequence(SubSeq(t, 1, m)) /\ Len(SubSeq(t, 1, m)) = m
         /\ \A i \in 1..m : SubSeq(t, 1, m)[i] = t[i]
         /\ Plain(t) => Starts(SubSeq(t, 1, m), SubSeq(t, 1, n))
         /\ Plain(t) => Starts(SubSeq(t, 1, m), t)
         /\ IsSequence(t)
<1>1. Len(t) \in Nat
  BY LenProperties
<1>2. ASSUME NEW k \in 0..Len(t)
      PROVE  /\ SubSeq(t, 1, k) \in Seq(STRING) /\ Len(SubSeq(t, 1, k)) = k
             /\ \A i \in 1..k : SubSeq(t, 1, k)[i] = t[i]
  BY <1>1, <1>2
<1>3. m \in Nat /\ n \in Nat /\ m <= n /\ n <= Len(t) /\ n \in 0..Len(t)
  BY <1>1
<1> DEFINE a == SubSeq(t, 1, m)
           b == SubSeq(t, 1, n)
<1>4. a \in Seq(STRING) /\ Len(a) = m /\ \A i \in 1..m : a[i] = t[i]
  BY <1>2
<1>5. b \in Seq(STRING) /\ Len(b) = n /\ \A i \in 1..n : b[i] = t[i]
  BY <1>2, <1>3
<1> HIDE DEF a, b
<1>6. IsSequence(a) /\ IsSequence(t)
  BY <1>4 DEF IsSequence
<1>7. Plain(t) => Plain(b)
  BY <1>3, <1>5 DEF Plain
<1>8. \A i \in 1..m : a[i] = b[i]
  BY <1>3, <1>4, <1>5
<1>9. Plain(t) => Starts(a, b) /\ Starts(a, t)
  BY <1>1, <1>3, <1>4, <1>5, <1>7, <1>8 DEF Starts
<1> QED
  BY <1>4, <1>6, <1>9 DEF a, b

\* A search that does not find the end answers instead of the parser.
LEMMA ParseValue ==
  ASSUME NEW kind, NEW in, NEW last
  PROVE  IF last # 0 /\ IsComplete(in, last) < 0
         THEN Parse(kind, in, last).next = IsComplete(in, last)
         ELSE Parse(kind, in, last) = Whole(kind, in)
  BY DEF Parse, Whole

\* Without input there is no header.
LEMMA NoInput ==
  ASSUME NEW in, IsSequence(in), Len(in) = 0, NEW kind
  PROVE  Whole(kind, in).next < 0
<1> SUFFICES ASSUME ~(Whole(kind, in).next < 0) PROVE FALSE
  OBVIOUS
<1>1. StartLineEnd(kind, in) \in 2..Len(in) + 1
  BY WholeApart
<1> QED
  BY <1>1

\* What reading a whole header may answer.
LEMMA WholeTypes ==
  ASSUME NEW in, IsSequence(in), NEW kind
  PROVE  \/ Whole(kind, in).next \in {Malformed, Incomplete}
         \/ Whole(kind, in).next \in 2..Len(in) + 1
<1> DEFINE n == Whole(kind, in).next
<1>1. Starts(in, in) /\ Len(in) \in Nat
  BY EmptyInput DEF Starts
<1>2. Outcome(in, 1, n)
  BY <1>1, WholeReads DEF Reads
<1>3. (n < 0 => n \in {Malformed, Incomplete}) /\ (~(n < 0) => n \in 1..Len(in) + 1)
  BY <1>1, <1>2, OutcomeTypes
<1>4. ~(n < 0) => n >= 2
  <2> SUFFICES ASSUME ~(n < 0) PROVE n >= 2
    OBVIOUS
  <2>1. StartLineEnd(kind, in) \in 2..Len(in) + 1
    BY WholeApart
  <2>2. PICK e \in StartLineEnd(kind, in)..Len(in) : n = LineEnd(in, e)
    BY WholeApart
  <2> HIDE DEF n
  <2>3. e \in Int /\ 1 <= e
    BY <1>1, <2>1
  <2> QED
    BY <1>1, <2>2, <2>3, LineEndValue DEF Malformed, Incomplete
<1> QED
  BY <1>1, <1>3, <1>4

-------------------------------------------------------------------------------
LEMMA InitIInv == Init => IInv
<1> SUFFICES ASSUME Init PROVE IInv
  OBVIOUS
<1>1. sent \in Sent /\ sent.text \in Seq(STRING) /\ \A i \in DOMAIN sent.text : sent.text[i] # "NUL"
  BY SentAssumption DEF Init
<1>2. Len(sent.text) \in Nat /\ DOMAIN sent.text = 1..Len(sent.text)
  BY <1>1, LenProperties
<1>3. text \in Seq(STRING) /\ Len(text) = Len(sent.text) /\ \A i \in 1..Len(text) : text[i] # "NUL"
  <2>1. CASE text = sent.text
    BY <1>1, <1>2, <2>1
  <2>2. ASSUME NEW i \in 1..sent.end, NEW c \in Damage, text = [sent.text EXCEPT ![i] = c]
        PROVE  text \in Seq(STRING) /\ Len(text) = Len(sent.text) /\ \A j \in 1..Len(text) : text[j] # "NUL"
    <3>1. c \in STRING /\ c # "NUL"
      BY DamageAssumption
    <3>2. i \in 1..Len(sent.text)
      BY <1>1, <1>2, SentAssumption
    <3>3. text \in Seq(STRING) /\ Len(text) = Len(sent.text)
      BY <1>1, <2>2, <3>1, <3>2, ExceptSeq
    <3>4. \A j \in 1..Len(sent.text) : text[j] = c \/ text[j] = sent.text[j]
      BY <1>1, <1>2, <2>2
    <3> QED
      BY <1>1, <1>2, <3>1, <3>3, <3>4
  <2> QED
    BY <2>1, <2>2 DEF Init
<1>4. fast \in BOOLEAN /\ got = 0 /\ answer = Incomplete /\ found = Nothing
  BY DEF Init
<1>5. 0 \in 0..Len(text)
  BY <1>2, <1>3
<1>6. Texts
  BY <1>1, <1>3, <1>4, <1>5 DEF Texts
<1>7. Answered
  BY <1>4 DEF Answered, Incomplete
<1>8. Reading.next < 0
  <2>1. IsSequence(Arrived) /\ Len(Arrived) = 0
    BY <1>3, <1>4, <1>5, PartStarts DEF Arrived
  <2> QED
    BY <2>1, NoInput DEF Reading
<1>9. Stands
  BY <1>4, <1>8 DEF Stands, Incomplete, Malformed
<1> QED
  BY <1>6, <1>7, <1>9 DEF IInv

LEMMA ArriveIInv ==
  ASSUME NEW k \in Steps, IInv, Arrive(k)
  PROVE  IInv'
<1> DEFINE in == SubSeq(text, 1, got + k)
           last == IF fast THEN got ELSE 0
           parse == Parse(sent.kind, in, last)
           whole == Whole(sent.kind, in)
<1>1. k \in Nat /\ got \in Nat /\ text \in Seq(STRING) /\ Len(text) \in Nat /\ got <= Len(text)
  BY StepsAssumption, LenProperties DEF IInv, Texts
<1>2. /\ answer = Incomplete /\ got + k <= Len(text) /\ got' = got + k
      /\ sent' = sent /\ text' = text /\ fast' = fast
      /\ answer' = Answer(parse)
      /\ found' = IF answer' > 0 THEN Accepted(sent.kind, in, parse) ELSE found
  BY DEF Arrive
<1>3. got + k \in 0..Len(text) /\ got + k \in got..Len(text) /\ got \in 0..Len(text)
  BY <1>1, <1>2
<1>4. /\ IsSequence(in) /\ Len(in) = got + k
      /\ IsSequence(Arrived) /\ Len(Arrived) = got
      /\ Plain(text) => Starts(Arrived, in)
  BY <1>1, <1>3, PartStarts DEF Arrived
<1>5. Arrived' = in /\ Reading' = whole
  BY <1>2 DEF Arrived, Reading
<1>6. last \in Nat /\ last <= got /\ (last # 0 => last = Len(Arrived) /\ last = got)
  BY <1>1, <1>4
<1>7. found = Nothing
  BY <1>2 DEF IInv, Answered, Incomplete
<1>8. Texts'
  BY <1>2, <1>3 DEF IInv, Texts
<1>9. IF last # 0 /\ IsComplete(in, last) < 0
      THEN parse.next = IsComplete(in, last) ELSE parse = whole
  BY ParseValue
<1>10. whole.next \in {Malformed, Incomplete} \/ whole.next \in 2..Len(in) + 1
  BY <1>4, WholeTypes
<1>11. Plain(text) /\ last # 0 /\ IsComplete(in, last) < 0 =>
         /\ whole.next < 0
         /\ IsComplete(in, last) = Malformed => whole.next = Malformed
  <2> SUFFICES ASSUME Plain(text), last # 0, IsComplete(in, last) < 0
               PROVE  /\ whole.next < 0
                      /\ IsComplete(in, last) = Malformed => whole.next = Malformed
    OBVIOUS
  <2>1. Whole(sent.kind, Arrived).next < 0
    BY <1>2 DEF IInv, Stands, Reading
  <2>2. Starts(Arrived, in) /\ IsSequence(Arrived) /\ IsSequence(in) /\ Len(Arrived) # 0 /\ last = Len(Arrived)
    BY <1>4, <1>6
  <2> HIDE DEF in, last
  <2>3. IsComplete(in, Len(Arrived)) < 0
    BY <2>2
  <2> QED
    BY <2>1, <2>2, <2>3, SearchAgrees
<1>12. answer' = IF parse.next < 0 THEN parse.next ELSE parse.next - 1
  BY <1>2 DEF Answer
<1> HIDE DEF in, last, parse, whole
<1>13. last # 0 /\ IsComplete(in, last) < 0 => IsComplete(in, last) \in {Malformed, Incomplete}
  <2>1. Len(in) \in Nat
    BY <1>1, <1>4
  <2> QED
    BY <1>6, <2>1, SearchTypes
<1>14. CASE last # 0 /\ IsComplete(in, last) < 0
  <2>1. answer' = IsComplete(in, last) /\ answer' \in {Malformed, Incomplete}
    BY <1>9, <1>12, <1>13, <1>14
  <2>2. found' = Nothing /\ ~(answer' > 0)
    BY <1>2, <1>7, <2>1 DEF Malformed, Incomplete
  <2>3. Answered'
    BY <2>1, <2>2 DEF Answered
  <2>4. Stands'
    BY <1>2, <1>5, <1>11, <1>14, <2>1 DEF Stands
  <2> QED
    BY <1>8, <2>3, <2>4 DEF IInv
<1>15. CASE ~(last # 0 /\ IsComplete(in, last) < 0)
  <2>1. parse = whole
    BY <1>9, <1>15
  <2>2. CASE whole.next \in {Malformed, Incomplete}
    <3>1. answer' = whole.next /\ ~(answer' > 0)
      BY <1>12, <2>1, <2>2 DEF Malformed, Incomplete
    <3>2. Answered'
      BY <1>2, <1>7, <2>2, <3>1 DEF Answered
    <3>3. Stands'
      BY <1>5, <3>1 DEF Stands, Incomplete
    <3> QED
      BY <1>8, <3>2, <3>3 DEF IInv
  <2>3. CASE whole.next \in 2..Len(in) + 1
    <3>1. answer' = whole.next - 1 /\ answer' \in 1..got' /\ answer' > 0 /\ ~(whole.next < 0)
      BY <1>1, <1>2, <1>4, <1>12, <2>1, <2>3
    <3>2. found' = Accepted(sent.kind, in, whole)
      BY <1>2, <2>1, <3>1
    <3>3. Answered'
      BY <1>2, <1>5, <3>1, <3>2 DEF Answered
    <3>4. Stands'
      BY <3>1 DEF Stands, Malformed, Incomplete
    <3> QED
      BY <1>8, <3>3, <3>4 DEF IInv
  <2> QED
    BY <1>10, <2>2, <2>3
<1> QED
  BY <1>14, <1>15

-------------------------------------------------------------------------------
LEMMA NextIInv == IInv /\ [Next]_vars => IInv'
<1> SUFFICES ASSUME IInv, [Next]_vars PROVE IInv'
  OBVIOUS
<1>1. ASSUME NEW k \in Steps, Arrive(k) PROVE IInv'
  BY <1>1, ArriveIInv
<1>2. CASE UNCHANGED vars
  <2>1. Arrived' = Arrived /\ Reading' = Reading
    BY <1>2 DEF vars, Arrived, Reading
  <2> QED
    BY <1>2, <2>1 DEF vars, IInv, Texts, Answered, Stands
<1> QED
  BY <1>1, <1>2 DEF Next

LEMMA SpecIInv == Spec => []IInv
  BY InitIInv, NextIInv, PTL DEF Spec

\* What request_header and response_header answer is a length of what has arrived, or one of
\* the parser's two errors; nothing is shown with an error.
THEOREM TypeCorrect == Spec => []TypeOK
<1>1. IInv => TypeOK
  BY DEF IInv, Texts, Answered, TypeOK
<1> QED
  BY <1>1, SpecIInv, PTL

\* A header is answered, with or without is_complete in front, however it is split, what all
\* of the text would have been answered by phr_parse_request or phr_parse_response.
THEOREM AnswersStand == Spec => []AnswerStands
<1>1. IInv => AnswerStands
  <2> SUFFICES ASSUME IInv, answer # Incomplete,
                      Block = 0 \/ "HIGH" \notin {text[i] : i \in DOMAIN text}
               PROVE  answer = Answer(Parse(sent.kind, text, 0))
    BY DEF AnswerStands
  <2> DEFINE all == Whole(sent.kind, text)
  <2>1. text \in Seq(STRING) /\ got \in 0..Len(text) /\ Len(text) \in Nat
    BY LenProperties DEF IInv, Texts
  <2>2. Plain(text)
    BY <2>1 DEF Plain
  <2>3. IsSequence(Arrived) /\ IsSequence(text) /\ Starts(Arrived, text)
    BY <2>1, <2>2, PartStarts DEF Arrived
  <2>4. Same(Arrived, Reading.next, all.next)
    BY <2>3, WholeReads DEF Reads, Reading
  <2>5. Answer(Parse(sent.kind, text, 0)) = IF all.next < 0 THEN all.next ELSE all.next - 1
    BY ParseValue DEF Answer
  <2>6. /\ answer = Malformed => Reading.next = Malformed
        /\ answer > 0 => ~(Reading.next < 0) /\ answer = Reading.next - 1
        /\ answer = Malformed \/ answer > 0
    BY <2>1, <2>2 DEF IInv, Answered, Stands
  <2> HIDE DEF all
  <2>7. Reading.next # Incomplete
    BY <2>6 DEF Malformed, Incomplete
  <2>8. all.next = Reading.next
    BY <2>4, <2>7 DEF Same
  <2> QED
    BY <2>5, <2>6, <2>8 DEF Malformed
<1> QED
  BY <1>1, SpecIInv, PTL

\* reactor_http_field_add_range writes no terminator into another field's name or value, nor
\* into method or path, whatever header was accepted.
THEOREM TerminatorsStandApart == Spec => []TerminatorsApart
<1>1. ASSUME IInv, answer > 0, found # Corrupt
      PROVE  LET parse == Parse(sent.kind, SubSeq(text, 1, got), 0)
                 Is(string, range) == string = SubSeq(text, range.from, range.to - 1)
             IN /\ \A i \in DOMAIN found.fields : /\ Is(found.fields[i].key, parse.fields[i].name)
                                                  /\ Is(found.fields[i].value, parse.fields[i].value)
                /\ sent.kind = "request" =>
                     \A i \in DOMAIN found.line : Is(found.line[i], parse.line[i])
  <2> DEFINE in == SubSeq(text, 1, got)
             parse == Whole(sent.kind, in)
             memory == Terminated(sent.kind, in, parse)
  <2>1. text \in Seq(STRING) /\ got \in 0..Len(text) /\ Len(text) \in Nat
        /\ \A i \in 1..Len(text) : text[i] # "NUL"
    BY <1>1, LenProperties DEF IInv, Texts
  <2>2. in \in Seq(STRING) /\ Len(in) = got /\ \A i \in 1..got : in[i] = text[i]
    BY <2>1
  <2>3. \A i \in 1..Len(in) : in[i] # "NUL"
    BY <2>1, <2>2
  <2>4. Parse(sent.kind, in, 0) = parse
    BY ParseValue
  <2>5. ~(parse.next < 0) /\ found = Accepted(sent.kind, in, parse)
    BY <1>1 DEF IInv, Answered, Arrived, Reading
  <2>6. IsSequence(parse.fields) /\ DOMAIN parse.fields = 1..Len(parse.fields)
    <3>1. IsSequence(in)
      BY <2>2 DEF IsSequence
    <3>2. IsSequence(parse.fields)
      BY <2>5, <3>1, WholeApart
    <3> QED
      BY <3>2 DEF IsSequence
  <2>7. \A i \in 1..Len(parse.fields) : parse.fields[i].name # NULL
    BY <1>1, <2>5, <2>6 DEF Accepted
  <2>8. /\ found.line = [i \in DOMAIN parse.line |-> StringAt(memory, parse.line[i].from)]
        /\ found.fields = [i \in DOMAIN parse.fields |->
                             Field(StringAt(memory, parse.fields[i].name.from),
                                   StringAt(memory, parse.fields[i].value.from))]
    <3>1. \E chunked, size : found =
             [line |-> [i \in DOMAIN parse.line |-> StringAt(memory, parse.line[i].from)],
              fields |-> [i \in DOMAIN parse.fields |->
                            Field(StringAt(memory, parse.fields[i].name.from),
                                  StringAt(memory, parse.fields[i].value.from))],
              chunked |-> chunked, size |-> size]
      BY <2>5, <2>6, <2>7 DEF Accepted
    <3> QED
      BY <3>1
  <2>9. /\ \A i \in 1..Len(parse.fields) : /\ ShownAs(memory, in, parse.fields[i].name)
                                            /\ ShownAs(memory, in, parse.fields[i].value)
        /\ sent.kind = "request" => \A i \in DOMAIN parse.line : ShownAs(memory, in, parse.line[i])
    BY <2>2, <2>3, <2>5, <2>7, ShownApart
  <2>10. ASSUME NEW range, ShownAs(memory, in, range)
         PROVE  StringAt(memory, range.from) = SubSeq(text, range.from, range.to - 1)
    <3> DEFINE a == range.from
               b == range.to
    <3>1. /\ a \in 1..Len(in) /\ b \in a..Len(in)
          /\ StringAt(memory, a) = SubSeq(in, a, b - 1)
      BY <2>10 DEF ShownAs
    <3> HIDE DEF a, b, in, memory
    <3>2. SubSeq(in, a, b - 1) = SubSeq(text, a, b - 1)
      BY <2>1, <2>2, <3>1
    <3> QED
      BY <3>1, <3>2 DEF a, b
  <2> HIDE DEF memory, parse
  <2>11. ASSUME NEW i \in DOMAIN found.fields
         PROVE  /\ found.fields[i].key
                     = SubSeq(text, parse.fields[i].name.from, parse.fields[i].name.to - 1)
                /\ found.fields[i].value
                     = SubSeq(text, parse.fields[i].value.from, parse.fields[i].value.to - 1)
    <3>1. i \in 1..Len(parse.fields)
      BY <2>6, <2>8
    <3>2. /\ found.fields[i].key = StringAt(memory, parse.fields[i].name.from)
          /\ found.fields[i].value = StringAt(memory, parse.fields[i].value.from)
      BY <2>6, <2>8, <3>1 DEF Field
    <3> QED
      BY <2>9, <2>10, <3>1, <3>2
  <2>12. ASSUME sent.kind = "request", NEW i \in DOMAIN found.line
         PROVE  found.line[i] = SubSeq(text, parse.line[i].from, parse.line[i].to - 1)
    <3>1. i \in DOMAIN parse.line /\ found.line[i] = StringAt(memory, parse.line[i].from)
      BY <2>8
    <3> QED
      BY <2>9, <2>10, <2>12, <3>1
  <2> QED
    BY <2>4, <2>11, <2>12
<1> QED
  BY <1>1, SpecIInv, PTL DEF TerminatorsApart

-------------------------------------------------------------------------------
\* What the owner is shown of a header is what it would be shown of all the text.
ShownStands ==
  answer > 0 /\ Plain(text) =>
    ShownAlike(sent.kind, found, Accepted(sent.kind, text, Parse(sent.kind, text, 0)))

\* What request_header and response_header show depends neither on how the header was split
\* nor on what came with it.  (With SSE 4.2 it may for a name that has a character with the
\* top bit, and in a response for the line: its message gets no terminator.)
THEOREM SplitIsUnseen == Spec => []ShownStands
<1>1. IInv => ShownStands
  <2> SUFFICES ASSUME IInv, answer > 0, Plain(text)
               PROVE  ShownAlike(sent.kind, found, Accepted(sent.kind, text, Parse(sent.kind, text, 0)))
    BY DEF ShownStands
  <2>1. /\ text \in Seq(STRING) /\ got \in 0..Len(text) /\ Len(text) \in Nat
        /\ \A i \in 1..Len(text) : text[i] # "NUL"
    BY LenProperties DEF IInv, Texts
  <2>2. Arrived \in Seq(STRING) /\ Starts(Arrived, text)
    BY <2>1, PartStarts DEF Arrived
  <2>3. ~(Reading.next < 0) /\ found = Accepted(sent.kind, Arrived, Reading)
    BY DEF IInv, Answered
  <2>4. Parse(sent.kind, text, 0) = Whole(sent.kind, text)
    BY ParseValue
  <2> QED
    BY <2>1, <2>2, <2>3, <2>4, AcceptedStays DEF Reading
<1> QED
  BY <1>1, SpecIInv, PTL

-------------------------------------------------------------------------------
(***************************************************************************)
(* Headers that are read right in one piece                                *)
(***************************************************************************)
\* All of the text, read from its first character with nothing said of a time before, is
\* answered with the header's length, and shown as it was meant.
Answers(s) == Plain(s.text) /\ Answer(Parse(s.kind, s.text, 0)) = s.end

Shows(s) == ShownAlike(s.kind, Accepted(s.kind, s.text, Parse(s.kind, s.text, 0)), s.shown)

\* A header that is answered with its length when all of it is there is answered so however it
\* arrives, as soon as its last character has: phr_parse_request, phr_parse_response and
\* is_complete in front of them say neither too early nor too late that it has ended.
THEOREM AnsweredInTime ==
  ASSUME \A s \in Sent : Answers(s)
  PROVE  Spec => []CompleteAnswered
<1>1. ASSUME IInv, text = sent.text
      PROVE  answer = IF got < sent.end THEN Incomplete ELSE sent.end
  <2> DEFINE q == Reading.next
             w == Whole(sent.kind, text).next
  <2>1. /\ text \in Seq(STRING) /\ got \in 0..Len(text) /\ Len(text) \in Nat
        /\ sent \in Sent
    BY <1>1, LenProperties DEF IInv, Texts
  <2>2. Plain(text) /\ Answer(Parse(sent.kind, text, 0)) = sent.end
    BY <1>1, <2>1 DEF Answers
  <2>3. sent.end \in 0..Len(text)
    BY <1>1, <2>1, SentAssumption
  <2>4. sent.end = IF w < 0 THEN w ELSE w - 1
    BY <2>2, ParseValue DEF Answer
  <2>5. /\ IsSequence(Arrived) /\ IsSequence(text) /\ Starts(Arrived, text)
        /\ Len(Arrived) = got
    BY <2>1, <2>2, PartStarts DEF Arrived
  <2>6. /\ Same(Arrived, q, w)
        /\ q = Incomplete => w < 0 \/ w > got + 1
    BY <2>5, WholeReads DEF Reads, Reading
  <2>7. q \in {Malformed, Incomplete} \/ q \in 2..got + 1
    BY <2>5, WholeTypes DEF Reading
  <2>8. w \in {Malformed, Incomplete} \/ w \in 2..Len(text) + 1
    BY <2>5, WholeTypes
  <2>9. /\ answer \in {Malformed, Incomplete} \cup 1..got
        /\ answer > 0 => ~(q < 0) /\ answer = q - 1
        /\ answer = Incomplete => q < 0
        /\ answer = Malformed => q = Malformed
    BY <1>1, <2>2 DEF IInv, Answered, Stands
  <2>10. got \in Nat /\ sent.end \in Int
    BY <2>1, <2>3
  <2> HIDE DEF q, w
  <2>11. w = sent.end + 1 /\ ~(w < 0)
    BY <2>1, <2>3, <2>4, <2>8 DEF Malformed, Incomplete
  <2>12. CASE q = Incomplete
    <3>1. got < sent.end
      BY <2>6, <2>10, <2>11, <2>12
    <3>2. answer = Incomplete
      BY <2>9, <2>10, <2>12 DEF Malformed, Incomplete
    <3> QED
      BY <3>1, <3>2
  <2>13. CASE q # Incomplete
    <3>1. q = sent.end + 1
      BY <2>6, <2>11, <2>13 DEF Same
    <3>2. q \in 2..got + 1 /\ ~(q < 0)
      BY <2>7, <2>11, <2>13, <3>1 DEF Malformed
    <3>3. ~(got < sent.end)
      BY <2>10, <3>1, <3>2
    <3>4. answer = sent.end
      BY <2>9, <2>10, <3>1, <3>2 DEF Malformed, Incomplete
    <3> QED
      BY <3>3, <3>4
  <2> QED
    BY <2>12, <2>13
<1>2. IInv => CompleteAnswered
  BY <1>1 DEF CompleteAnswered
<1> QED
  BY <1>2, SpecIInv, PTL

\* A header that is shown as it was written when all of it is there is shown so however it
\* arrives, by request_header and response_header: method and path, every field, the framing.
THEOREM ShownAsWritten ==
  ASSUME \A s \in Sent : Plain(s.text) /\ Shows(s)
  PROVE  Spec => []ReadBack
<1>1. IInv /\ ShownStands => ReadBack
  <2> SUFFICES ASSUME IInv, ShownStands, text = sent.text, answer > 0
               PROVE  /\ sent.kind = "request" => found.line = sent.shown.line
                      /\ found.fields = sent.shown.fields
                      /\ found.chunked = sent.shown.chunked /\ found.size = sent.shown.size
    BY DEF ReadBack
  <2>1. Plain(text) /\ Shows(sent)
    BY DEF IInv, Texts
  <2>2. ShownAlike(sent.kind, found, Accepted(sent.kind, text, Parse(sent.kind, text, 0)))
    BY <2>1 DEF ShownStands
  <2>3. ShownAlike(sent.kind, Accepted(sent.kind, text, Parse(sent.kind, text, 0)), sent.shown)
    BY <2>1 DEF Shows
  <2> QED
    BY <2>2, <2>3 DEF ShownAlike
<1> QED
  BY <1>1, SpecIInv, SplitIsUnseen, PTL
================================================================================
