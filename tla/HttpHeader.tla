------------------------------ MODULE HttpHeader -------------------------------
(***************************************************************************)
(* A header on its way: written, sent, possibly with one character         *)
(* damaged, and read again each time more of it has arrived, by the header *)
(* handlers of reactor_http_parser.c; then shown to the parser's owner as  *)
(* C strings, whose terminators are written into the input itself.         *)
(***************************************************************************)
EXTENDS HttpWriter

CONSTANTS
  Sent,    \* what is sent: records [kind, text, end, shown], end being the length of the
           \* header and shown what its reader is to be shown
  Damage,  \* the characters that may take another's place
  Steps    \* how many characters may arrive at a time

ASSUME SentAssumption ==
  \A s \in Sent : /\ s.text \in Seq(STRING) /\ \A i \in DOMAIN s.text : s.text[i] # "NUL"
                  /\ s.end \in 0..Len(s.text)
ASSUME DamageAssumption == Damage \subseteq STRING /\ "NUL" \notin Damage
ASSUME StepsAssumption == Steps \subseteq Nat \ {0}

VARIABLES
  sent, text,  \* what was sent, and what arrives
  fast,        \* whether the reader says how much it had the time before
  got,         \* the number of characters that have arrived
  answer,      \* what the last reading of them answered
  found        \* what the owner is shown

vars == <<sent, text, fast, got, answer, found>>

Nothing == [line |-> <<>>, fields |-> <<>>, chunked |-> FALSE, size |-> 0]

\* A terminator was written through NULL, behind which the code's behaviour is
\* undefined.
Corrupt == [Nothing EXCEPT !.line = Null]

-------------------------------------------------------------------------------
\* Mutant: the terminator of a key is written a character late.
EndsLate(field) == {field.name.to + 1, field.value.to}

\* reactor_http_field_add_range: where it writes its terminators.
Ends(field) == {field.name.to, field.value.to}

\* The input of a header that was accepted, once the terminators are in it.  The
\* message of a response gets none.
Terminated(kind, in, parse) ==
  LET ends == (UNION {Ends(parse.fields[i]) : i \in DOMAIN parse.fields})
              \cup (IF kind = "request" THEN {parse.line[i].to : i \in DOMAIN parse.line} ELSE {})
  IN [i \in DOMAIN in |-> IF i \in ends THEN "NUL" ELSE in[i]]

\* strcasecmp, for the letters in use.
Lowercase == [C |-> "c", L |-> "l", T |-> "t", E |-> "e"]
Lower(key) == [i \in DOMAIN key |-> IF key[i] \in DOMAIN Lowercase THEN Lowercase[key[i]] ELSE key[i]]

\* reactor_http_field_lookup.
Lookup(fields, key) ==
  LET at == {i \in DOMAIN fields : Lower(fields[i].key) = Lower(key)}
  IN IF at = {} THEN Null ELSE fields[Min(at)].value

\* strtoul with base 0, of a string without blanks or hexadecimal digits.
StrToUl(s) ==
  LET base == IF s # <<>> /\ s[1] = "0" THEN 8 ELSE 10
      number == {n \in 0..Len(s) : \A i \in 1..n : s[i] \in {DigitOf[d] : d \in 1..base}}
      value[n \in 0..Len(s)] ==
        IF n = 0 THEN 0 ELSE base * value[n - 1] + (CHOOSE d \in 1..10 : DigitOf[d] = s[n]) - 1
  IN value[Max(number)]

ChunkedValue == <<"c", "h">>

\* The rest of request_header and response_header for a header that was accepted:
\* its fields go to the vector, and are searched for how the body is framed.
Accepted(kind, in, parse) ==
  LET memory == Terminated(kind, in, parse)
      fields == [i \in DOMAIN parse.fields |->
                   Field(StringAt(memory, parse.fields[i].name.from),
                         StringAt(memory, parse.fields[i].value.from))]
      chunked == Lower(Lookup(fields, CodingKey)) = ChunkedValue
      length == Lookup(fields, LengthKey)
  IN IF \E i \in DOMAIN parse.fields : parse.fields[i].name = NULL
     THEN Corrupt
     ELSE [line |-> [i \in DOMAIN parse.line |-> StringAt(memory, parse.line[i].from)],
           fields |-> fields, chunked |-> chunked,
           size |-> IF chunked \/ length = Null THEN 0 ELSE StrToUl(length)]

Init ==
  /\ sent \in Sent
  /\ text \in {sent.text} \cup {[sent.text EXCEPT ![i] = c] : i \in 1..sent.end, c \in Damage}
  /\ fast \in BOOLEAN
  /\ got = 0 /\ answer = Incomplete /\ found = Nothing

\* More input arrives, and the header is parsed from its first character.
Arrive(k) ==
  /\ answer = Incomplete /\ got + k <= Len(text)
  /\ got' = got + k
  /\ LET in == SubSeq(text, 1, got')
         parse == Parse(sent.kind, in, IF fast THEN got ELSE 0)
     IN /\ answer' = Answer(parse)
        /\ found' = IF answer' > 0 THEN Accepted(sent.kind, in, parse) ELSE found
  /\ UNCHANGED <<sent, text, fast>>

Next == \E k \in Steps : Arrive(k)

Spec == Init /\ [][Next]_vars

-------------------------------------------------------------------------------
(***************************************************************************)
(* Properties                                                              *)
(***************************************************************************)
\* The header's answer is about what has arrived.
TypeOK ==
  /\ sent \in Sent /\ Len(text) = Len(sent.text) /\ fast \in BOOLEAN /\ got \in 0..Len(text)
  /\ answer \in {Malformed, Incomplete} \cup 1..got
  /\ answer <= 0 => found = Nothing

\* A header is accepted or refused for what it is, not for how it was split: what is
\* answered early is what all of the text would have been answered.  (With SSE 4.2
\* this is not so for a name that has a character with the top bit.)
AnswerStands ==
  answer # Incomplete /\ (Block = 0 \/ "HIGH" \notin {text[i] : i \in DOMAIN text})
  => answer = Answer(Parse(sent.kind, text, 0))

\* An undamaged header is answered with its length as soon as it is there, and before
\* that with nothing, also by the search that begins where the one before ended.
CompleteAnswered ==
  text = sent.text => answer = IF got < sent.end THEN Incomplete ELSE sent.end

\* What the owner is shown of an undamaged header is what was written: method and
\* path, every field in order, and how the body is framed.
ReadBack ==
  text = sent.text /\ answer > 0 =>
    /\ sent.kind = "request" => found.line = sent.shown.line
    /\ found.fields = sent.shown.fields
    /\ found.chunked = sent.shown.chunked /\ found.size = sent.shown.size

\* No terminator cuts another string short, whatever header was accepted: each C string
\* is the range the header parser found, which excludes its continuation lines (Corrupt).
TerminatorsApart ==
  answer > 0 /\ found # Corrupt =>
    LET parse == Parse(sent.kind, SubSeq(text, 1, got), 0)
        Is(string, range) == string = SubSeq(text, range.from, range.to - 1)
    IN /\ \A i \in DOMAIN found.fields : /\ Is(found.fields[i].key, parse.fields[i].name)
                                         /\ Is(found.fields[i].value, parse.fields[i].value)
       /\ sent.kind = "request" =>
            \A i \in DOMAIN found.line : Is(found.line[i], parse.line[i])
================================================================================
