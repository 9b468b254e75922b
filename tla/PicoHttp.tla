------------------------------- MODULE PicoHttp --------------------------------
(***************************************************************************)
(* picohttpparser's reading of a request or response header, which starts  *)
(* again from the first byte each time more input has arrived.             *)
(*                                                                         *)
(* Characters are strings: printable ones stand for themselves, and "SP",  *)
(* "HT", "CR", "LF", "CTL" (any other below the space), "DEL" and "HIGH"   *)
(* (any with the top bit) for the rest.  A scanner is an operator that     *)
(* takes the position of the next character and gives the position behind  *)
(* what it has read, or Malformed or Incomplete: the code's *ret with a    *)
(* NULL.  Of numbers only the extent is read, not the value.               *)
(***************************************************************************)
EXTENDS Integers, Sequences, FiniteSetsExt

CONSTANTS
  MaxFields,  \* REACTOR_HTTP_PARSER_MAX_FIELDS
  Block       \* bytes that findchar_fast compares at a time: 16 with SSE 4.2, 0 without

ASSUME MaxFieldsAssumption == MaxFields \in Nat \ {0}
ASSUME BlockAssumption == Block \in Nat

Malformed == -1
Incomplete == -2

\* "HTTP/1.", shortened.
Version == <<"H", ".">>

Digits == {"0", "1", "2", "3", "4", "5", "6", "7", "8", "9"}
Blanks == {"SP", "HT"}
LineEnds == {"CR", "LF"}
Below == {"CTL", "HT", "CR", "LF"}  \* less than the space

\* token_char_map, of the characters in use.
TokenChar(c) == c \notin Below \cup {"SP", "DEL", "HIGH", ":", "/"}

\* The rest of a scanner behind one that went to p, if that went anywhere.
Then(p, Rest(_)) == IF p < 0 THEN p ELSE Rest(p)

\* The first position from p whose character stops the scan: CHECK_EOF if none.
Scan(in, p, Stops(_)) ==
  LET at == {i \in p..Len(in) : Stops(in[i])} IN IF at = {} THEN Incomplete ELSE Min(at)

\* Mutant: the end of the input is taken for a wrong character.
ExpectAtOnce(in, p, c) == IF p <= Len(in) /\ in[p] = c THEN p + 1 ELSE Malformed

\* EXPECT_CHAR.
Expect(in, p, c) ==
  IF p > Len(in) THEN Incomplete ELSE IF in[p] = c THEN p + 1 ELSE Malformed

\* A line end: CR LF or LF.
LineEnd(in, p) ==
  IF p <= Len(in) /\ in[p] = "CR" THEN Expect(in, p + 1, "LF") ELSE Expect(in, p, "LF")

\* A run of characters up to a space: ADVANCE_TOKEN, which stops at the space.
Token(in, p) ==
  Then(Scan(in, p, LAMBDA c : c \in Below \cup {"SP", "DEL"}),
       LAMBDA q : IF in[q] = "SP" THEN q ELSE Malformed)

\* get_token_to_eol: where the token stops, and behind its line end.
ValueStop(in, p) == Scan(in, p, LAMBDA c : c \in (Below \ {"HT"}) \cup {"DEL"})
ToLineEnd(in, p) == Then(ValueStop(in, p), LAMBDA q : LineEnd(in, q))

\* parse_int.
Int_(in, p) ==
  IF p <= Len(in) /\ in[p] \notin Digits
  THEN Malformed
  ELSE Scan(in, p, LAMBDA c : c \notin Digits)

\* parse_http_version: the literal character by character, then a number.
HttpVersion(in, p) ==
  LET other == {i \in DOMAIN Version : p + i - 1 > Len(in) \/ in[p + i - 1] # Version[i]}
  IN IF other = {}
     THEN Int_(in, p + Len(Version))
     ELSE Expect(in, p + Min(other) - 1, Version[Min(other)])

\* findchar_fast: it searches the whole blocks of the input from p, and leaves the rest
\* from here on.
Unsearched(in, p) ==
  p + (IF Block = 0 THEN 0 ELSE Block * ((Len(in) - p + 1) \div Block))

\* The end of a field name: a colon, or a character below the space as unsigned or, in
\* what is left of the blocks, as signed, where those with the top bit are below it too.
NameStop(in, p) ==
  LET at == {i \in p..Len(in) : \/ in[i] \in Below \cup {":"}
                               \/ (i >= Unsearched(in, p) /\ in[i] = "HIGH")}
  IN IF at = {} THEN Incomplete ELSE IF in[Min(at)] = ":" THEN Min(at) ELSE Malformed

\* One line of parse_headers: a range [from, to) of the input for the name, NULL in
\* a continuation line, and one for the value; and the position behind.
NULL == [from |-> 0, to |-> 0]

Line(in, p, first) ==
  LET folded == ~first /\ in[p] \in Blanks
      colon == IF folded THEN p
               ELSE IF TokenChar(in[p]) THEN NameStop(in, p) ELSE Malformed
      value == IF folded THEN p
               ELSE Then(colon, LAMBDA q : Scan(in, q + 1, LAMBDA c : c \notin Blanks))
      stop == Then(value, LAMBDA q : ValueStop(in, q))
  IN [name  |-> IF folded THEN NULL ELSE [from |-> p, to |-> colon],
      value |-> [from |-> value, to |-> stop],
      next  |-> Then(stop, LAMBDA q : LineEnd(in, q))]

\* One more line is read, unless the header has ended or has not all arrived.
NextLine(in, lines) ==
  LET p == lines.next
      line == Line(in, p, lines.fields = <<>>)
  IN IF p < 0 \/ p > Len(in) \/ in[p] \in LineEnds
     THEN lines
     ELSE [next |-> line.next, fields |-> Append(lines.fields, line)]

\* parse_headers: the fields from position start on, and the position behind them.
\* Behind MaxFields lines, another is an error.
Headers(in, start) ==
  LET lines[n \in 0..MaxFields] ==
        IF n = 0 THEN [next |-> start, fields |-> <<>>] ELSE NextLine(in, lines[n - 1])
  IN [lines[MaxFields] EXCEPT !.next = Then(@, LAMBDA p : LineEnd(in, p))]

\* parse_request.  Ranges of method and path, the fields, and the position behind.
Request(in) ==
  LET first == IF in = <<>> THEN Incomplete ELSE IF in[1] \in LineEnds THEN LineEnd(in, 1) ELSE 1
      method == Then(first, LAMBDA p : Token(in, p))
      path == Then(method, LAMBDA p : Token(in, p + 1))
      version == Then(path, LAMBDA p : HttpVersion(in, p + 1))
      headers == Headers(in, Then(version, LAMBDA p : LineEnd(in, p)))
  IN [next |-> headers.next, fields |-> headers.fields,
      line |-> <<[from |-> first, to |-> method], [from |-> method + 1, to |-> path]>>]

\* parse_response.  The range of the message is the reason behind the status.
Response(in) ==
  LET Space(p) == IF in[p] = "SP" THEN p + 1 ELSE Malformed
      version == HttpVersion(in, 1)
      status == Then(Then(version, Space), LAMBDA p : Int_(in, p))
      message == Then(status, Space)
      headers == Headers(in, Then(message, LAMBDA p : ToLineEnd(in, p)))
  IN [next |-> headers.next, fields |-> headers.fields,
      line |-> <<[from |-> message, to |-> Then(message, LAMBDA p : ValueStop(in, p))]>>]

\* Mutant: the search starts where the new input does.
IsCompleteFromNew(in, last) ==
  LET p == last + 1
      Ended(i, j) == i \in p..Len(in) /\ in[i] = "LF" /\ LineEnd(in, i + 1) = j + 1
  IN IF \E i, j \in 1..Len(in) : Ended(i, j) THEN 1 ELSE Incomplete

\* is_complete: an empty line in the input from three bytes before its length last
\* of the time before, with no CR before it that is not followed by LF.
IsComplete(in, last) ==
  LET p == IF last < 3 THEN 1 ELSE last - 2
      Ended(i, j) == i \in p..Len(in) /\ in[i] = "LF" /\ LineEnd(in, i + 1) = j + 1
      ends == {j \in 1..Len(in) : \E i \in 1..j : Ended(i, j)}
      bare == {i \in p..Len(in) - 1 : in[i] = "CR" /\ in[i + 1] # "LF"}
  IN IF bare # {} /\ (ends = {} \/ Min(bare) < Min(ends)) THEN Malformed
     ELSE IF ends = {} THEN Incomplete ELSE Min(ends) + 1

\* phr_parse_request and phr_parse_response.  What they answer is the length of the
\* header, or the reason for there being none.
Parse(kind, in, last) ==
  LET empty == [next |-> Incomplete, fields |-> <<>>, line |-> <<>>]
      found == IF kind = "request" THEN Request(in) ELSE Response(in)
  IN IF last # 0 /\ IsComplete(in, last) < 0
     THEN [empty EXCEPT !.next = IsComplete(in, last)]
     ELSE found

\* Mutant: the position, not the length.
AnswerPosition(parse) == parse.next

Answer(parse) == IF parse.next < 0 THEN parse.next ELSE parse.next - 1
================================================================================
