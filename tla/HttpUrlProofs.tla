----------------------------- MODULE HttpUrlProofs -----------------------------
(***************************************************************************)
(* Theorems about HttpUrl, for every set of URLs.                          *)
(***************************************************************************)
EXTENDS HttpUrl, PicoHttpProofs

Names == {"host", "service", "path"}

\* A copy's characters.
Chars == STRING \cup {"NUL"}

\* The parts that have been split.
Split ==
  CASE step = "service" -> {"host"}
    [] step = "path"    -> {"host", "service"}
    [] step = "done"    -> Names
    [] OTHER            -> {}

\* The groups of a match follow each other with a character between them, within the URL.
Ordered(g, len) ==
  /\ g \in [host : [from : Int, to : Int], service : [from : Int, to : Int],
            path : [from : Int, to : Int]]
  /\ 1 <= g.host.from /\ g.host.from <= g.host.to /\ g.host.to <= len + 1
  /\ \/ g.service = Unmatched
     \/ g.host.to < g.service.from /\ g.service.from <= g.service.to /\ g.service.to <= len + 1
  /\ \/ g.path = Unmatched
     \/ /\ g.host.to < g.path.from /\ g.path.from <= g.path.to /\ g.path.to <= len + 1
        /\ g.service # Unmatched => g.service.to < g.path.from

\* What has been written to the copy so far, and returned.
Written ==
  /\ memory \in Seq(Chars) /\ Len(memory) = Len(url) + 1
  /\ \A i \in 1..Len(url) + 1 :
       memory[i] = IF i = Len(url) + 1 \/ \E n \in Split : groups[n] # Unmatched /\ groups[n].to = i
                   THEN "NUL" ELSE url[i]
  /\ parts \in [host : Int, service : Int, path : Int]
  /\ \A n \in Names :
       parts[n] = IF n \in Split /\ groups[n] # Unmatched THEN groups[n].from ELSE 0

IInv ==
  /\ url \in Urls
  /\ step \in {"match", "host", "service", "path", "done", "failed"}
  /\ step \in {"host", "service", "path", "done"} => Ordered(groups, Len(url))
  /\ Written

-------------------------------------------------------------------------------
\* The longest match is one of the matches.
LEMMA LongestMatches == ASSUME NEW ways, NEW w \in Longest(ways) PROVE w \in ways
  BY DEF Longest

\* The groups of every match are in order.
LEMMA WaysOrdered ==
  ASSUME NEW in \in Seq(STRING), NEW w \in Ways(in) PROVE Ordered(w, Len(in))
  <1>1. HostStart = 5 /\ Len(in) \in Nat
    BY DEF Prefix, HostStart
  <1>2. PICK h \in HostEnds(in) :
          \E service \in Services(in, h) : \E path \in Paths(in, Behind(h, service)) :
            w = [host |-> Range_(HostStart, h), service |-> service, path |-> path]
    BY DEF Ways
  <1>3. PICK service \in Services(in, h) : \E path \in Paths(in, Behind(h, service)) :
          w = [host |-> Range_(HostStart, h), service |-> service, path |-> path]
    BY <1>2
  <1>0. PICK path \in Paths(in, Behind(h, service)) :
          w = [host |-> Range_(HostStart, h), service |-> service, path |-> path]
    BY <1>3
  <1>4. h \in Int /\ 5 <= h /\ h <= Len(in) + 1
    BY <1>1 DEF HostEnds
  <1>5. \/ service = Unmatched
        \/ \E s \in Int : service = Range_(h + 1, s) /\ h + 2 <= s /\ s <= Len(in) + 1
    BY <1>4 DEF Services
  <1>6. service \in [from : Int, to : Int] /\ Behind(h, service) \in Int
    BY <1>4, <1>5 DEF Unmatched, Range_, Behind
  <1>7. \/ path = Unmatched
        \/ \E e \in Int : /\ path = Range_(Behind(h, service) + 1, e)
                         /\ Behind(h, service) + 1 <= e /\ e <= Len(in) + 1
    BY <1>1, <1>6 DEF Paths
  <1>8. h <= Behind(h, service)
        /\ (service # Unmatched => Behind(h, service) = service.to)
    BY <1>4, <1>5, <1>6 DEF Behind, Range_
  <1>9. /\ w.host = [from |-> 5, to |-> h] /\ w.service = service /\ w.path = path
        /\ w = [host |-> w.host, service |-> w.service, path |-> w.path]
    BY <1>0, <1>1 DEF Range_
  <1>10. path \in [from : Int, to : Int]
    BY <1>6, <1>7 DEF Unmatched, Range_
  <1>11. w \in [host : [from : Int, to : Int], service : [from : Int, to : Int],
                path : [from : Int, to : Int]]
    BY <1>4, <1>6, <1>9, <1>10
  <1>12. \/ service = Unmatched
         \/ h < service.from /\ service.from <= service.to /\ service.to <= Len(in) + 1
    BY <1>4, <1>5 DEF Range_
  <1>13. \/ path = Unmatched
         \/ Behind(h, service) < path.from /\ path.from <= path.to /\ path.to <= Len(in) + 1
    BY <1>6, <1>7 DEF Range_
  <1> QED
    BY <1>1, <1>4, <1>6, <1>8, <1>9, <1>10, <1>11, <1>12, <1>13 DEF Ordered

\* A C string goes up to the first NUL.
LEMMA StringEnds ==
  ASSUME NEW m \in Seq(Chars), NEW p \in Int, NEW q \in Int,
         1 <= p, p <= q, q <= Len(m), m[q] = "NUL", \A i \in p..q - 1 : m[i] # "NUL"
  PROVE  StringAt(m, p) = SubSeq(m, p, q - 1)
  <1> DEFINE S == {i \in p..Len(m) : m[i] = "NUL"} \cup {Len(m) + 1}
  <1>1. q \in S /\ \A y \in S : q <= y
    OBVIOUS
  <1>2. Min(S) = q
    BY <1>1 DEF Min
  <1> QED
    BY <1>2 DEF StringAt

-------------------------------------------------------------------------------
LEMMA InitIInv == Init => IInv
  <1> SUFFICES ASSUME Init PROVE IInv
    OBVIOUS
  <1>1. url \in Urls /\ url \in Seq(STRING) /\ \A i \in DOMAIN url : url[i] # "NUL"
    BY UrlsAssumption DEF Init
  <1>2. memory \in Seq(Chars) /\ Len(memory) = Len(url) + 1
    <2>1. memory = Append(url, "NUL")
      BY DEF Init
    <2>2. "NUL" \in Chars /\ url \in Seq(Chars)
      BY <1>1 DEF Chars
    <2> QED
      BY <2>1, <2>2, AppendProperties
  <1>3. \A i \in 1..Len(url) + 1 : memory[i] = IF i = Len(url) + 1 THEN "NUL" ELSE url[i]
    BY <1>1 DEF Init
  <1>4. Split = {} /\ step = "match"
    BY DEF Init, Split
  <1> QED
    BY <1>1, <1>2, <1>3, <1>4 DEF Init, IInv, Written, Names

LEMMA MatchIInv == IInv /\ Match => IInv'
  <1> SUFFICES ASSUME IInv, Match PROVE IInv'
    OBVIOUS
  <1>1. url \in Seq(STRING)
    BY UrlsAssumption DEF IInv
  <1>2. step' = "host" => Ordered(groups', Len(url))
    BY <1>1, LongestMatches, WaysOrdered DEF Match
  <1>3. Split = {} /\ Split' = {} /\ step' \in {"failed", "host"}
    BY DEF Split, Match
  <1>4. Written'
    BY <1>3 DEF Written, IInv, Match, Names
  <1> QED
    BY <1>2, <1>3, <1>4 DEF IInv, Match

\* A part is split behind the others that stand in front of it.
LEMMA SplitMatchIInv ==
  ASSUME IInv, NEW part \in Names, NEW next \in {"service", "path", "done"},
         SplitMatch(part, next), Split' = Split \cup {part}, part \notin Split
  PROVE  IInv'
  <1>1. url \in Seq(STRING) /\ url' = url /\ groups' = groups /\ Len(url) \in Nat
    BY UrlsAssumption DEF IInv, SplitMatch
  <1>2. step \in {"host", "service", "path"} /\ Ordered(groups, Len(url))
    BY DEF IInv, SplitMatch, Names
  <1>3. groups[part] # Unmatched =>
          groups[part].to \in 1..Len(url) + 1 /\ groups[part].from \in Int
    BY <1>1, <1>2 DEF Ordered, Names, Unmatched
  <1>4. memory' \in Seq(Chars) /\ Len(memory') = Len(url) + 1
    <2>1. memory \in Seq(Chars) /\ Len(memory) = Len(url) + 1 /\ "NUL" \in Chars
      BY DEF IInv, Written, Chars
    <2>2. CASE groups[part] = Unmatched
      BY <2>1, <2>2 DEF SplitMatch
    <2>3. CASE groups[part] # Unmatched
      <3>1. memory' = [memory EXCEPT ![groups[part].to] = "NUL"]
        BY <2>3 DEF SplitMatch, Terminator
      <3>2. groups[part].to \in 1..Len(memory)
        BY <1>3, <2>1, <2>3
      <3> QED
        BY <2>1, <3>1, <3>2, ExceptSeq
    <2> QED
      BY <2>2, <2>3
  <1>5. ASSUME NEW i \in 1..Len(url) + 1
        PROVE  memory'[i] = IF i = Len(url) + 1
                               \/ \E n \in Split' : groups[n] # Unmatched /\ groups[n].to = i
                            THEN "NUL" ELSE url[i]
    <2>1. memory[i] = IF i = Len(url) + 1
                         \/ \E n \in Split : groups[n] # Unmatched /\ groups[n].to = i
                      THEN "NUL" ELSE url[i]
      BY DEF IInv, Written
    <2>2. CASE groups[part] = Unmatched
      BY <2>1, <2>2 DEF SplitMatch
    <2>3. CASE groups[part] # Unmatched
      <3>1. memory'[i] = IF i = groups[part].to THEN "NUL" ELSE memory[i]
        BY <1>1, <1>3, <2>3 DEF SplitMatch, IInv, Written, Terminator
      <3> QED
        BY <2>1, <2>3, <3>1
    <2> QED
      BY <2>2, <2>3
  <1>6. parts' \in [host : Int, service : Int, path : Int]
    BY <1>3 DEF SplitMatch, IInv, Written, Names
  <1>7. ASSUME NEW n \in Names
        PROVE  parts'[n] = IF n \in Split' /\ groups[n] # Unmatched THEN groups[n].from ELSE 0
    BY <1>3 DEF SplitMatch, IInv, Written, Names
  <1>8. step' = next
    BY DEF SplitMatch
  <1> QED
    BY <1>1, <1>2, <1>4, <1>5, <1>6, <1>7, <1>8 DEF IInv, Written

LEMMA NextIInv == IInv /\ [Next]_vars => IInv'
  <1> SUFFICES ASSUME IInv, [Next]_vars PROVE IInv'
    OBVIOUS
  <1>1. CASE Match
    BY <1>1, MatchIInv
  <1>2. CASE SplitMatch("host", "service")
    <2>1. Split = {} /\ Split' = {"host"}
      BY <1>2 DEF Split, SplitMatch
    <2> QED
      BY <1>2, <2>1, SplitMatchIInv DEF Names
  <1>3. CASE SplitMatch("service", "path")
    <2>1. Split = {"host"} /\ Split' = {"host", "service"}
      BY <1>3 DEF Split, SplitMatch
    <2> QED
      BY <1>3, <2>1, SplitMatchIInv DEF Names
  <1>4. CASE SplitMatch("path", "done")
    <2>1. Split = {"host", "service"} /\ Split' = Names
      BY <1>4 DEF Split, SplitMatch
    <2> QED
      BY <1>4, <2>1, SplitMatchIInv DEF Names
  <1>5. CASE UNCHANGED vars
    BY <1>5 DEF IInv, Written, Ordered, Split, vars
  <1> QED
    BY <1>1, <1>2, <1>3, <1>4, <1>5 DEF Next

-------------------------------------------------------------------------------
LEMMA IInvTypes == IInv => TypeOK
  <1> SUFFICES ASSUME IInv PROVE TypeOK
    OBVIOUS
  <1>1. url \in Seq(STRING) /\ Len(url) \in Nat
    BY UrlsAssumption DEF IInv
  <1>2. DOMAIN parts = Names /\ Split \subseteq Names
    BY DEF IInv, Written, Names, Split
  <1>3. ASSUME NEW n \in Names PROVE parts[n] \in 0..Len(url) + 1
    <2>1. CASE n \in Split /\ groups[n] # Unmatched
      <3>1. step \in {"service", "path", "done"}
        BY <2>1 DEF Split, IInv
      <3>2. Ordered(groups, Len(url)) /\ parts[n] = groups[n].from
        BY <2>1, <3>1 DEF IInv, Written
      <3> QED
        BY <1>1, <2>1, <3>2 DEF Ordered, Names
    <2>2. CASE ~(n \in Split /\ groups[n] # Unmatched)
      BY <1>1, <2>2 DEF IInv, Written
    <2> QED
      BY <2>1, <2>2
  <1>4. \A i \in DOMAIN url : memory[i] \in {url[i], "NUL"}
    BY <1>1 DEF IInv, Written
  <1> QED
    BY <1>2, <1>3, <1>4 DEF TypeOK, IInv, Written

LEMMA IInvParts == IInv => PartsRead
  <1> SUFFICES ASSUME IInv, step = "done", NEW name \in DOMAIN parts, parts[name] # 0
               PROVE  Part(name) = SubSeq(url, groups[name].from, groups[name].to - 1)
    BY DEF PartsRead
  <1> DEFINE p == groups[name].from
             q == groups[name].to
  <1>1. /\ url \in Seq(STRING) /\ Len(url) \in Nat
        /\ \A i \in 1..Len(url) : url[i] # "NUL"
    BY UrlsAssumption DEF IInv
  <1>2. Ordered(groups, Len(url)) /\ name \in Names /\ Split = Names
    BY DEF IInv, Written, Names, Split
  <1>3. groups[name] # Unmatched /\ parts[name] = p
    BY <1>2 DEF IInv, Written
  <1>4. p \in Int /\ q \in Int /\ 1 <= p /\ p <= q /\ q <= Len(url) + 1
    BY <1>1, <1>2, <1>3 DEF Ordered, Names
  <1>5. \A n \in Names : groups[n] # Unmatched => groups[n].to \notin p..q - 1
    BY <1>1, <1>2, <1>3 DEF Ordered, Names
  <1>6. memory[q] = "NUL"
    BY <1>2, <1>3, <1>4 DEF IInv, Written
  <1>7. \A i \in p..q - 1 : memory[i] = url[i] /\ memory[i] # "NUL"
    <2> TAKE i \in p..q - 1
    <2>1. i \in 1..Len(url) /\ i # Len(url) + 1 /\ i \in 1..Len(url) + 1
      BY <1>1, <1>4
    <2>2. ~ \E n \in Split : groups[n] # Unmatched /\ groups[n].to = i
      BY <1>2, <1>5
    <2>3. memory[i] = url[i]
      BY <2>1, <2>2 DEF IInv, Written
    <2> QED
      BY <1>1, <2>1, <2>3
  <1>8. memory \in Seq(Chars) /\ Len(memory) = Len(url) + 1
    BY DEF IInv, Written
  <1>9. StringAt(memory, p) = SubSeq(memory, p, q - 1)
    BY <1>4, <1>6, <1>7, <1>8, StringEnds
  <1>10. SubSeq(memory, p, q - 1) = SubSeq(url, p, q - 1)
    <2>1. \A i \in p..q - 1 : memory[i] \in Chars /\ url[i] \in Chars
      <3> TAKE i \in p..q - 1
      <3>1. i \in 1..Len(memory) /\ i \in 1..Len(url)
        BY <1>1, <1>4, <1>8
      <3> QED
        BY <1>1, <1>8, <3>1, ElementOfSeq DEF Chars
    <2> DEFINE r == q - 1
    <2>2. r \in Int /\ \A i \in 1..r - p + 1 : p + i - 1 \in p..r
      BY <1>4
    <2> HIDE DEF p, r
    <2>3. /\ SubSeq(memory, p, r) \in Seq(Chars)
          /\ Len(SubSeq(memory, p, r)) = IF p <= r THEN r - p + 1 ELSE 0
          /\ \A i \in 1..r - p + 1 : SubSeq(memory, p, r)[i] = memory[p + i - 1]
      BY <1>4, <2>1, <2>2, SubSeqProperties DEF r
    <2>4. /\ SubSeq(url, p, r) \in Seq(Chars)
          /\ Len(SubSeq(url, p, r)) = IF p <= r THEN r - p + 1 ELSE 0
          /\ \A i \in 1..r - p + 1 : SubSeq(url, p, r)[i] = url[p + i - 1]
      BY <1>4, <2>1, <2>2, SubSeqProperties DEF r
    <2>5. \A i \in 1..Len(SubSeq(memory, p, r)) : i \in 1..r - p + 1
      BY <1>4, <2>2, <2>3
    <2>6. \A i \in 1..Len(SubSeq(memory, p, r)) : SubSeq(memory, p, r)[i] = SubSeq(url, p, r)[i]
      BY <1>7, <2>2, <2>3, <2>4, <2>5 DEF r
    <2> QED
      BY <2>3, <2>4, <2>6, SeqEqual DEF r
  <1> QED
    BY <1>3, <1>9, <1>10 DEF Part

\* The copy of the URL loses only the characters that end a part, and what is returned
\* points into it.
THEOREM UrlTypes == Spec => []TypeOK
  <1> QED
    BY InitIInv, NextIInv, IInvTypes, PTL DEF Spec

\* reactor_http_split_match ends each part of every URL where its group ends, and none
\* of them within another.
THEOREM PartsApart == Spec => []PartsRead
  <1> QED
    BY InitIInv, NextIInv, IInvParts, PTL DEF Spec

-------------------------------------------------------------------------------
(***************************************************************************)
(* What a longest match leaves out                                         *)
(***************************************************************************)
\* What is split is a longest match.
Matched ==
  step \in {"host", "service", "path", "done"} =>
    groups \in Ways(url) /\ \A way \in Ways(url) : MatchEnd(way) <= MatchEnd(groups)

\* The service and the path of a match begin where their separator is.
Separated(in, g) ==
  /\ IsPrefix(Prefix, in) /\ g.host.from = 5 /\ g.host.to \in HostEnds(in)
  /\ g.service \in Services(in, g.host.to)
  /\ g.path \in Paths(in, Behind(g.host.to, g.service))

LEMMA WaysSeparated ==
  ASSUME NEW in, NEW w \in Ways(in) PROVE Separated(in, w)
<1>1. IsPrefix(Prefix, in) /\ HostStart = 5
  BY DEF Ways, HostStart, Prefix
<1>2. PICK h \in HostEnds(in) :
        \E service \in Services(in, h) : \E path \in Paths(in, Behind(h, service)) :
          w = [host |-> Range_(HostStart, h), service |-> service, path |-> path]
  BY DEF Ways
<1>3. PICK service \in Services(in, h) : \E path \in Paths(in, Behind(h, service)) :
        w = [host |-> Range_(HostStart, h), service |-> service, path |-> path]
  BY <1>2
<1>4. PICK path \in Paths(in, Behind(h, service)) :
        w = [host |-> Range_(HostStart, h), service |-> service, path |-> path]
  BY <1>3
<1>5. w.host.from = 5 /\ w.host.to = h /\ w.service = service /\ w.path = path
  BY <1>1, <1>4 DEF Range_
<1> QED
  BY <1>1, <1>5 DEF Separated

\* Groups that are where they may be are a match.
LEMMA SeparatedMatches ==
  ASSUME NEW in, IsPrefix(Prefix, in), NEW h \in HostEnds(in), NEW service \in Services(in, h),
         NEW path \in Paths(in, Behind(h, service))
  PROVE  [host |-> Range_(HostStart, h), service |-> service, path |-> path] \in Ways(in)
  BY DEF Ways

\* The end of a match is that of its last group.
LEMMA MatchEnds ==
  ASSUME NEW w, w.host.to \in Int, w.service.to \in Int, w.path.to \in Int
  PROVE  /\ MatchEnd(w) \in Int
         /\ w.host.to <= MatchEnd(w) /\ w.service.to <= MatchEnd(w) /\ w.path.to <= MatchEnd(w)
         /\ MatchEnd(w) \in {w.host.to, w.service.to, w.path.to}
<1> DEFINE a == w.host.to
           b == w.service.to
           c == w.path.to
           S == {a, b, c}
<1>1. a \in Int /\ b \in Int /\ c \in Int
  OBVIOUS
<1>2. MatchEnd(w) = Max(S)
  BY DEF MatchEnd
<1> HIDE DEF a, b, c
<1>3. \E x \in S : \A y \in S : x >= y
  <2>1. CASE a >= b /\ a >= c
    BY <1>1, <2>1
  <2>2. CASE b >= a /\ b >= c
    BY <1>1, <2>2
  <2>3. CASE c >= a /\ c >= b
    BY <1>1, <2>3
  <2> QED
    BY <1>1, <2>1, <2>2, <2>3
<1>4. Max(S) \in S /\ \A y \in S : Max(S) >= y
  BY <1>3 DEF Max
<1>5. /\ Max(S) \in Int /\ Max(S) \in {a, b, c}
      /\ a <= Max(S) /\ b <= Max(S) /\ c <= Max(S)
  BY <1>1, <1>4
<1> QED
  BY <1>2, <1>5 DEF a, b, c

LEMMA InitMatched == Init => Matched
  BY DEF Init, Matched

LEMMA NextMatched == IInv /\ Matched /\ [Next]_vars => Matched'
<1> SUFFICES ASSUME IInv, Matched, [Next]_vars PROVE Matched'
  OBVIOUS
<1>1. CASE Match
  <2>1. CASE Ways(url) = {}
    BY <1>1, <2>1 DEF Match, Matched
  <2>2. CASE Ways(url) # {}
    <3>1. groups' \in Longest(Ways(url)) /\ url' = url
      BY <1>1, <2>2 DEF Match
    <3>2. groups' \in Ways(url) /\ \A way \in Ways(url) : MatchEnd(way) <= MatchEnd(groups')
      BY <3>1 DEF Longest
    <3> QED
      BY <3>1, <3>2 DEF Matched, MatchEnd
  <2> QED
    BY <2>1, <2>2
<1>2. ASSUME NEW part \in Names, NEW next, SplitMatch(part, next) PROVE Matched'
  <2>1. step \in {"host", "service", "path", "done"} /\ url' = url /\ groups' = groups
    BY <1>2 DEF SplitMatch, Names
  <2> QED
    BY <2>1 DEF Matched, MatchEnd
<1>3. CASE UNCHANGED vars
  BY <1>3 DEF vars, Matched, MatchEnd
<1> QED
  BY <1>1, <1>2, <1>3 DEF Next, Names

-------------------------------------------------------------------------------
\* Where a longest match ends, which is what the groups that have matched tell.
LEMMA LongestEnds ==
  ASSUME NEW in \in Seq(STRING), NEW w \in Ways(in),
         \A way \in Ways(in) : MatchEnd(way) <= MatchEnd(w)
  PROVE  LET e == MatchEnd(w)
         IN /\ e \in 5..Len(in) + 1
            /\ w.path # Unmatched => e = w.path.to
            /\ w.path = Unmatched => e = Behind(w.host.to, w.service)
            /\ w.path # Unmatched \/ w.service # Unmatched => e = Len(in) + 1
            /\ \/ e = Len(in) + 1
               \/ in[e] \in {"?", "#"}
               \/ in[e] = ":" /\ (e = Len(in) \/ in[e + 1] = "/")
<1> DEFINE h == w.host.to
           service == w.service
           path == w.path
           b == Behind(h, service)
           len == Len(in)
           e == MatchEnd(w)
<1>1. Separated(in, w) /\ Ordered(w, len)
  BY WaysSeparated, WaysOrdered
<1>2. /\ h \in Int /\ 5 <= h /\ h <= len + 1 /\ len \in Nat /\ HostStart = 5
      /\ h \in HostEnds(in) /\ IsPrefix(Prefix, in)
      /\ service \in Services(in, h) /\ path \in Paths(in, b)
  BY <1>1 DEF Separated, Ordered, HostStart, Prefix
<1>3. service.to \in Int /\ path.to \in Int
  BY <1>1 DEF Ordered
<1>4. b \in Int /\ h <= b /\ b <= len + 1
  <2>1. CASE service = Unmatched
    BY <1>2, <2>1 DEF Behind
  <2>2. CASE service # Unmatched
    BY <1>1, <1>2, <2>2 DEF Ordered, Behind
  <2> QED
    BY <2>1, <2>2
<1>5. path # Unmatched => path.to \in Int /\ b < path.to /\ path.to <= len + 1
  <2> SUFFICES ASSUME path # Unmatched PROVE path.to \in Int /\ b < path.to /\ path.to <= len + 1
    OBVIOUS
  <2>1. PICK k \in b + 1..len + 1 : path = Range_(b + 1, k)
    BY <1>2 DEF Paths
  <2>2. path.to = k
    BY <2>1 DEF Range_
  <2> HIDE DEF b, len
  <2> QED
    BY <1>2, <1>4, <2>1, <2>2
<1>6. /\ e \in Int /\ h <= e /\ service.to <= e /\ path.to <= e
      /\ e \in {h, service.to, path.to}
  BY <1>2, <1>3, MatchEnds
<1>7. service = Unmatched => service.to = -1 /\ b = h
  BY DEF Unmatched, Behind
<1>8. service # Unmatched => b = service.to
  BY DEF Behind
<1>9. path = Unmatched => path.to = -1
  BY DEF Unmatched
\* Every other match ends no later.
<1>10. ASSUME NEW g \in HostEnds(in), NEW s \in Services(in, g), NEW p \in Paths(in, Behind(g, s)),
              g \in Int, s.to \in Int, p.to \in Int
       PROVE  g <= e /\ s.to <= e /\ p.to <= e
  <2> DEFINE v == [host |-> Range_(HostStart, g), service |-> s, path |-> p]
  <2>1. v \in Ways(in)
    BY <1>2, SeparatedMatches
  <2>2. MatchEnd(v) <= e
    BY <2>1
  <2>3. v.host.to = g /\ v.service.to = s.to /\ v.path.to = p.to
    BY DEF Range_
  <2> HIDE DEF v, e
  <2>4. MatchEnd(v) \in Int /\ g <= MatchEnd(v) /\ s.to <= MatchEnd(v) /\ p.to <= MatchEnd(v)
    BY <1>10, <2>3, MatchEnds
  <2> QED
    BY <1>6, <1>10, <2>2, <2>4
<1> HIDE DEF h, service, path, b, len, e
<1>11. path # Unmatched => e = path.to
  BY <1>2, <1>3, <1>4, <1>5, <1>6, <1>7, <1>8
<1>12. path = Unmatched => e = b
  BY <1>2, <1>3, <1>4, <1>6, <1>7, <1>8, <1>9
<1>13. e \in 5..len + 1
  BY <1>2, <1>4, <1>5, <1>6, <1>11, <1>12
\* A slash behind host and service begins a path that goes to the end.
<1>14. b <= len /\ in[b] = "/" => e = len + 1
  <2> SUFFICES ASSUME b <= len, in[b] = "/" PROVE e = len + 1
    OBVIOUS
  <2> DEFINE p == Range_(b + 1, len + 1)
  <2>1. len + 1 \in {k \in b + 1..Len(in) + 1 : in[b] = "/"}
    BY <1>2, <1>4 DEF len
  <2>2. p \in Paths(in, b)
    BY <2>1 DEF Paths
  <2>3. p.to = len + 1 /\ p.to \in Int
    BY <1>2 DEF Range_
  <2> HIDE DEF p
  <2>4. p.to <= e
    BY <1>2, <1>3, <1>10, <2>2, <2>3 DEF b
  <2> QED
    BY <1>2, <1>13, <2>3, <2>4
<1>15. path # Unmatched => e = len + 1
  <2> SUFFICES ASSUME path # Unmatched PROVE e = len + 1
    OBVIOUS
  <2>1. PICK k \in {k \in b + 1..Len(in) + 1 : in[b] = "/"} : path = Range_(b + 1, k)
    BY <1>2 DEF Paths
  <2>2. in[b] = "/" /\ b + 1 <= len + 1
    <3>1. k \in Int /\ b + 1 <= k /\ k <= len + 1
      BY <1>2, <1>4, <2>1 DEF len
    <3> QED
      BY <1>2, <1>4, <2>1, <3>1
  <2> QED
    BY <1>2, <1>4, <1>14, <2>2
<1>16. service # Unmatched => e = len + 1
  <2> SUFFICES ASSUME service # Unmatched, path = Unmatched, b <= len, in[b] # "/" PROVE FALSE
    BY <1>2, <1>4, <1>12, <1>14, <1>15
  <2>1. PICK k \in {k \in h + 2..Len(in) + 1 : in[h] = ":" /\ Free(in, h + 1, k, {"/"})} :
          service = Range_(h + 1, k)
    BY <1>2 DEF Services
  <2>2. k = b
    BY <1>8, <2>1 DEF Range_
  <2>3. in[h] = ":" /\ Free(in, h + 1, k, {"/"}) /\ h + 2 <= k
    BY <1>2, <2>1
  <2>4. Free(in, h + 1, k + 1, {"/"})
    <3> SUFFICES ASSUME NEW i \in h + 1..(k + 1) - 1 PROVE in[i] # "/"
      BY DEF Free
    <3>1. i = k \/ i \in h + 1..k - 1
      BY <1>2, <1>4, <2>2
    <3> QED
      BY <2>2, <2>3, <3>1 DEF Free
  <2> DEFINE s == Range_(h + 1, k + 1)
  <2>5. k + 1 \in h + 2..Len(in) + 1
    BY <1>2, <1>4, <2>2, <2>3 DEF len
  <2>6. s \in Services(in, h)
    BY <2>3, <2>4, <2>5 DEF Services
  <2>7. Unmatched \in Paths(in, Behind(h, s)) /\ Unmatched.to \in Int
    BY DEF Paths, Unmatched
  <2>8. s.to = k + 1 /\ s.to \in Int
    BY <1>4, <2>2 DEF Range_
  <2> HIDE DEF s
  <2>9. s.to <= e
    BY <1>2, <1>10, <2>6, <2>7, <2>8
  <2> QED
    BY <1>4, <1>12, <2>2, <2>8, <2>9
<1>17. service = Unmatched /\ path = Unmatched /\ e # len + 1
       => \/ in[e] \in {"?", "#"}
          \/ in[e] = ":" /\ (e = len \/ in[e + 1] = "/")
  <2> SUFFICES ASSUME service = Unmatched, path = Unmatched, h <= len, e = h
               PROVE  \/ in[h] \in {"?", "#"}
                      \/ in[h] = ":" /\ (h = len \/ in[h + 1] = "/")
    BY <1>2, <1>7, <1>12
  <2>1. in[h] \in HostStops
    <3> SUFFICES ASSUME in[h] \notin HostStops PROVE FALSE
      OBVIOUS
    <3>1. Free(in, HostStart, h, HostStops)
      BY <1>2 DEF HostEnds
    <3>2. Free(in, HostStart, h + 1, HostStops)
      <4> SUFFICES ASSUME NEW i \in HostStart..(h + 1) - 1 PROVE in[i] \notin HostStops
        BY DEF Free
      <4>1. i = h \/ i \in HostStart..h - 1
        BY <1>2
      <4> QED
        BY <3>1, <4>1 DEF Free
    <3>3. h + 1 \in HostStart..Len(in) + 1
      BY <1>2 DEF len
    <3>4. h + 1 \in HostEnds(in) /\ h + 1 \in Int
      BY <3>2, <3>3 DEF HostEnds
    <3>5. Unmatched \in Services(in, h + 1) /\ Unmatched \in Paths(in, Behind(h + 1, Unmatched))
          /\ Unmatched.to \in Int
      BY DEF Services, Paths, Unmatched
    <3>6. h + 1 <= e
      BY <1>10, <3>4, <3>5
    <3> QED
      BY <1>2, <3>6
  <2>2. in[h] # "/"
    BY <1>2, <1>7, <1>14
  <2>3. ASSUME in[h] = ":", h # len, in[h + 1] # "/" PROVE FALSE
    <3> DEFINE s == Range_(h + 1, h + 2)
    <3>1. Free(in, h + 1, h + 2, {"/"})
      <4> SUFFICES ASSUME NEW i \in h + 1..(h + 2) - 1 PROVE in[i] # "/"
        BY DEF Free
      <4>1. i = h + 1
        BY <1>2
      <4> QED
        BY <2>3, <4>1
    <3>2. h + 2 \in h + 2..Len(in) + 1
      BY <1>2, <2>3 DEF len
    <3>3. s \in Services(in, h)
      BY <2>3, <3>1, <3>2 DEF Services
    <3>4. Unmatched \in Paths(in, Behind(h, s)) /\ Unmatched.to \in Int
      BY DEF Paths, Unmatched
    <3>5. s.to = h + 2 /\ s.to \in Int
      BY <1>2 DEF Range_
    <3> HIDE DEF s
    <3>6. s.to <= e
      BY <1>2, <1>10, <3>3, <3>4, <3>5
    <3> QED
      BY <1>2, <3>5, <3>6
  <2> QED
    BY <2>1, <2>2, <2>3 DEF HostStops
<1>18. path # Unmatched \/ service # Unmatched => e = len + 1
  BY <1>15, <1>16
<1> QED
  BY <1>11, <1>12, <1>13, <1>17, <1>18 DEF h, service, path, b, len, e

-------------------------------------------------------------------------------
\* A range of a sequence and the one behind it make up one.
LEMMA SubSeqConcat ==
  ASSUME NEW S, NEW s \in Seq(S), NEW a \in Int, NEW b \in Int, NEW c \in Int,
         1 <= a, a <= b, b <= c, c <= Len(s) + 1
  PROVE  SubSeq(s, a, b - 1) \o SubSeq(s, b, c - 1) = SubSeq(s, a, c - 1)
<1> DEFINE x == SubSeq(s, a, b - 1)
           y == SubSeq(s, b, c - 1)
           z == SubSeq(s, a, c - 1)
<1>1. \A i \in 1..Len(s) : s[i] \in S
  BY ElementOfSeq
<1>2. x \in Seq(S) /\ Len(x) = b - a /\ \A i \in 1..b - a : x[i] = s[a + i - 1]
  <2>1. /\ x \in Seq(S) /\ Len(x) = IF a <= b - 1 THEN (b - 1) - a + 1 ELSE 0
        /\ \A i \in 1..(b - 1) - a + 1 : x[i] = s[a + i - 1]
    BY <1>1, SubSeqProperties
  <2> QED
    BY <2>1
<1>3. y \in Seq(S) /\ Len(y) = c - b /\ \A i \in 1..c - b : y[i] = s[b + i - 1]
  <2>1. /\ y \in Seq(S) /\ Len(y) = IF b <= c - 1 THEN (c - 1) - b + 1 ELSE 0
        /\ \A i \in 1..(c - 1) - b + 1 : y[i] = s[b + i - 1]
    BY <1>1, SubSeqProperties
  <2> QED
    BY <2>1
<1>4. z \in Seq(S) /\ Len(z) = c - a /\ \A i \in 1..c - a : z[i] = s[a + i - 1]
  <2>1. /\ z \in Seq(S) /\ Len(z) = IF a <= c - 1 THEN (c - 1) - a + 1 ELSE 0
        /\ \A i \in 1..(c - 1) - a + 1 : z[i] = s[a + i - 1]
    BY <1>1, SubSeqProperties
  <2> QED
    BY <2>1
<1> HIDE DEF x, y, z
<1>5. /\ x \o y \in Seq(S) /\ Len(x \o y) = c - a
      /\ \A i \in 1..c - a : (x \o y)[i] = IF i <= b - a THEN x[i] ELSE y[i - (b - a)]
  <2>1. x \in Seq(S) /\ y \in Seq(S) /\ Len(x) = b - a /\ Len(y) = c - b
    BY <1>2, <1>3
  <2>2. /\ x \o y \in Seq(S) /\ Len(x \o y) = Len(x) + Len(y)
        /\ \A i \in 1..Len(x) + Len(y) : (x \o y)[i] = IF i <= Len(x) THEN x[i] ELSE y[i - Len(x)]
    BY <2>1, ConcatProperties
  <2>3. Len(x) + Len(y) = c - a
    BY <2>1
  <2> QED
    BY <2>1, <2>2, <2>3
<1>6. ASSUME NEW i \in 1..c - a PROVE (x \o y)[i] = z[i]
  <2>1. z[i] = s[a + i - 1]
    BY <1>4
  <2>2. CASE i <= b - a
    <3>1. x[i] = s[a + i - 1]
      BY <1>2, <2>2
    <3> QED
      BY <1>5, <2>1, <2>2, <3>1
  <2>3. CASE ~(i <= b - a)
    <3>1. i - (b - a) \in 1..c - b /\ b + (i - (b - a)) - 1 = a + i - 1
      BY <2>3
    <3>2. y[i - (b - a)] = s[a + i - 1]
      BY <1>3, <3>1
    <3> QED
      BY <1>5, <2>1, <2>3, <3>2
  <2> QED
    BY <2>2, <2>3
<1> QED
  BY <1>4, <1>5, <1>6, SeqEqual DEF x, y, z

\* So do the character at a place and the range behind it.
LEMMA CharThenRange ==
  ASSUME NEW S, NEW s \in Seq(S), NEW m \in 1..Len(s), NEW n \in m..Len(s), NEW c, s[m] = c
  PROVE  <<c>> \o SubSeq(s, m + 1, n) = SubSeq(s, m, n)
  BY SubSeqRecursiveFirst

LEMMA IInvLost == IInv /\ Matched => NothingLost
<1> SUFFICES ASSUME IInv, Matched, step = "done" PROVE NothingLost
  BY DEF NothingLost
<1> DEFINE h == groups.host.to
           b == Behind(h, groups.service)
           len == Len(url)
           e == MatchEnd(groups)
           service == IF parts.service = 0 THEN <<>> ELSE <<":">> \o Part("service")
           path == IF parts.path = 0 THEN <<>> ELSE <<"/">> \o Part("path")
           whole == Prefix \o Part("host") \o service \o path
           rest == SubSeq(url, Len(whole) + 1, Len(url))
<1>1. url \in Seq(STRING) /\ len \in Nat
  BY UrlsAssumption DEF IInv
<1>2. /\ groups \in Ways(url) /\ \A way \in Ways(url) : MatchEnd(way) <= MatchEnd(groups)
      /\ Ordered(groups, len) /\ PartsRead /\ Split = Names
  BY IInvParts DEF Matched, IInv, Split
<1>3. Separated(url, groups)
  BY <1>2, WaysSeparated
<1>4. \A n \in Names : parts[n] = IF groups[n] # Unmatched THEN groups[n].from ELSE 0
  BY <1>2 DEF IInv, Written
<1>5. /\ h \in Int /\ 5 <= h /\ h <= len + 1 /\ groups.host.from = 5
      /\ groups.service \in Services(url, h) /\ groups.path \in Paths(url, b)
      /\ IsPrefix(Prefix, url)
  BY <1>2, <1>3 DEF Separated, Ordered
<1>6. /\ e \in 5..len + 1
      /\ groups.path # Unmatched => e = groups.path.to
      /\ groups.path = Unmatched => e = b
      /\ groups.path # Unmatched \/ groups.service # Unmatched => e = len + 1
      /\ \/ e = len + 1
         \/ url[e] \in {"?", "#"}
         \/ url[e] = ":" /\ (e = len \/ url[e + 1] = "/")
  BY <1>1, <1>2, LongestEnds
<1>7. DOMAIN parts = Names /\ Names = {"host", "service", "path"}
  BY DEF IInv, Written, Names
<1>8. Part("host") = SubSeq(url, 5, h - 1)
  <2>1. groups.host # Unmatched
    BY <1>5 DEF Unmatched
  <2>2. parts["host"] # 0
    BY <1>4, <1>5, <1>7, <2>1
  <2> QED
    BY <1>2, <1>5, <1>7, <2>2 DEF PartsRead
<1>9. Prefix = SubSeq(url, 1, 4)
  <2>1. Len(Prefix) = 4 /\ Prefix \in Seq({"h", ":", "/"})
    BY DEF Prefix
  <2>2. SubSeq(Prefix, 1, Len(Prefix)) = SubSeq(url, 1, Len(Prefix))
    BY <1>5 DEF IsPrefix
  <2>3. SubSeq(Prefix, 1, Len(Prefix)) = Prefix
    BY <2>1, SubSeqFull
  <2> QED
    BY <2>1, <2>2, <2>3
<1>10. Prefix \o Part("host") = SubSeq(url, 1, h - 1)
  <2> DEFINE five == 5
  <2>1. /\ url \in Seq(STRING) /\ 1 \in Int /\ five \in Int /\ h \in Int
        /\ 1 <= five /\ five <= h /\ h <= Len(url) + 1 /\ five - 1 = 4
    BY <1>1, <1>5
  <2> HIDE DEF five, h
  <2>2. SubSeq(url, 1, five - 1) \o SubSeq(url, five, h - 1) = SubSeq(url, 1, h - 1)
    BY <2>1, SubSeqConcat
  <2> QED
    BY <1>8, <1>9, <2>1, <2>2 DEF five
<1>11. /\ b \in Int /\ h <= b /\ b <= len + 1
       /\ service = SubSeq(url, h, b - 1)
       /\ parts.service = 0 <=> groups.service = Unmatched
  <2>1. CASE groups.service = Unmatched
    <3>1. b = h /\ parts.service = 0
      BY <1>4, <1>7, <2>1 DEF Behind
    <3>2. SubSeq(url, h, b - 1) = <<>>
      BY <1>5, <3>1, SubSeqEmpty
    <3> QED
      BY <1>5, <2>1, <3>1, <3>2
  <2>2. CASE groups.service # Unmatched
    <3>1. PICK k \in {k \in h + 2..Len(url) + 1 : url[h] = ":" /\ Free(url, h + 1, k, {"/"})} :
            groups.service = Range_(h + 1, k)
      BY <1>5, <2>2 DEF Services
    <3>2. groups.service.from = h + 1 /\ groups.service.to = k /\ b = k
      BY <2>2, <3>1 DEF Range_, Behind
    <3>3. k \in Int /\ h + 2 <= k /\ k <= len + 1 /\ url[h] = ":"
      BY <1>1, <1>5, <3>1
    <3>4. parts["service"] # 0
      BY <1>4, <1>5, <1>7, <2>2, <3>2
    <3>5. Part("service") = SubSeq(url, h + 1, k - 1)
      BY <1>2, <1>7, <3>2, <3>4 DEF PartsRead
    <3>6. h \in 1..len /\ k - 1 \in h..len
      BY <1>1, <1>5, <3>3
    <3>7. <<":">> \o SubSeq(url, h + 1, k - 1) = SubSeq(url, h, k - 1)
      BY <1>1, <3>3, <3>6, CharThenRange
    <3>8. b \in Int /\ h <= b /\ b <= len + 1
      BY <1>5, <3>2, <3>3
    <3> QED
      BY <2>2, <3>2, <3>4, <3>5, <3>7, <3>8
  <2> QED
    BY <2>1, <2>2
<1>12. /\ b <= e /\ path = SubSeq(url, b, e - 1)
       /\ parts.path = 0 <=> groups.path = Unmatched
  <2>1. CASE groups.path = Unmatched
    <3>1. e = b /\ parts.path = 0
      BY <1>4, <1>6, <1>7, <2>1
    <3>2. SubSeq(url, b, e - 1) = <<>>
      BY <1>11, <3>1, SubSeqEmpty
    <3> QED
      BY <1>11, <2>1, <3>1, <3>2
  <2>2. CASE groups.path # Unmatched
    <3>1. PICK k \in {k \in b + 1..Len(url) + 1 : url[b] = "/"} :
            groups.path = Range_(b + 1, k)
      BY <1>5, <2>2 DEF Paths
    <3>2. groups.path.from = b + 1 /\ groups.path.to = k /\ e = k
      BY <1>6, <2>2, <3>1 DEF Range_
    <3>3. k \in Int /\ b + 1 <= k /\ k <= len + 1 /\ url[b] = "/"
      BY <1>1, <1>11, <3>1
    <3>4. parts["path"] # 0
      BY <1>4, <1>5, <1>7, <1>11, <2>2, <3>2
    <3>5. Part("path") = SubSeq(url, b + 1, k - 1)
      BY <1>2, <1>7, <3>2, <3>4 DEF PartsRead
    <3>6. b \in 1..len /\ k - 1 \in b..len
      BY <1>1, <1>5, <1>11, <3>3
    <3>7. <<"/">> \o SubSeq(url, b + 1, k - 1) = SubSeq(url, b, k - 1)
      BY <1>1, <3>3, <3>6, CharThenRange
    <3>8. b <= e
      BY <1>11, <3>2, <3>3
    <3> QED
      BY <2>2, <3>2, <3>4, <3>5, <3>7, <3>8
  <2> QED
    BY <2>1, <2>2
<1> HIDE DEF h, b, e, len, service, path
<1>13. whole = SubSeq(url, 1, e - 1)
  <2>1. SubSeq(url, 1, h - 1) \o SubSeq(url, h, b - 1) = SubSeq(url, 1, b - 1)
    BY <1>1, <1>5, <1>11, SubSeqConcat DEF len
  <2>2. e \in Int /\ e <= len + 1
    BY <1>1, <1>6
  <2>3. SubSeq(url, 1, b - 1) \o SubSeq(url, b, e - 1) = SubSeq(url, 1, e - 1)
    BY <1>1, <1>5, <1>11, <1>12, <2>2, SubSeqConcat DEF len
  <2> QED
    BY <1>10, <1>11, <1>12, <2>1, <2>3
<1>14. whole \in Seq(STRING) /\ Len(whole) = e - 1
  <2>1. \A i \in 1..e - 1 : i \in 1..Len(url)
    BY <1>1, <1>6 DEF len
  <2>2. \A i \in 1..e - 1 : url[i] \in STRING
    BY <1>1, <2>1, ElementOfSeq
  <2>3. e - 1 \in Int /\ 1 \in Int /\ 1 <= e - 1 /\ (e - 1) - 1 + 1 = e - 1
    BY <1>1, <1>6
  <2>4. /\ SubSeq(url, 1, e - 1) \in Seq(STRING)
        /\ Len(SubSeq(url, 1, e - 1)) = IF 1 <= e - 1 THEN (e - 1) - 1 + 1 ELSE 0
    BY <2>2, <2>3, SubSeqProperties
  <2> QED
    BY <1>13, <2>3, <2>4
<1>15. IsPrefix(whole, url)
  <2>1. SubSeq(whole, 1, Len(whole)) = whole
    BY <1>14, SubSeqFull
  <2>2. Len(whole) <= Len(url)
    BY <1>1, <1>6, <1>14 DEF len
  <2> QED
    BY <1>13, <1>14, <2>1, <2>2 DEF IsPrefix
<1> HIDE DEF whole
<1>16. rest = SubSeq(url, e, len) /\ e \in Int
  <2>1. Len(whole) + 1 = e /\ e \in Int
    BY <1>1, <1>6, <1>14
  <2> QED
    BY <2>1 DEF len
<1> HIDE DEF rest
<1>17. CASE e = len + 1
  <2>1. rest = <<>>
    BY <1>1, <1>16, <1>17, SubSeqEmpty
  <2> QED
    BY <1>15, <2>1 DEF NothingLost, whole, rest, service, path
<1>18. CASE e # len + 1
  <2>1. parts.path = 0 /\ parts.service = 0
    BY <1>6, <1>11, <1>12, <1>18
  <2>2. Len(rest) = len - e + 1 /\ \A i \in 1..len - e + 1 : rest[i] = url[e + i - 1]
    <3>1. \A i \in e..len : i \in 1..Len(url)
      BY <1>1, <1>6 DEF len
    <3>2. \A i \in e..len : url[i] \in STRING
      BY <1>1, <3>1, ElementOfSeq
    <3>3. /\ Len(rest) = IF e <= len THEN len - e + 1 ELSE 0
          /\ \A i \in 1..len - e + 1 : rest[i] = url[e + i - 1]
      BY <1>1, <1>16, <3>2, SubSeqProperties
    <3> QED
      BY <1>1, <1>6, <1>18, <3>3
  <2>3. 1 \in 1..len - e + 1 /\ e + 1 - 1 = e
    BY <1>1, <1>6, <1>18
  <2>4. rest[1] = url[e]
    BY <2>2, <2>3
  <2>5. e # len => rest[2] = url[e + 1]
    <3> SUFFICES ASSUME e # len PROVE rest[2] = url[e + 1]
      OBVIOUS
    <3>1. 2 \in 1..len - e + 1 /\ e + 2 - 1 = e + 1
      BY <1>1, <1>6, <1>18
    <3>2. rest[2] = url[e + 2 - 1]
      BY <2>2, <3>1
    <3> QED
      BY <3>1, <3>2
  <2>6. e = len => Len(rest) = 1
    BY <1>1, <1>6, <2>2
  <2>7. \/ rest[1] \in {"?", "#"}
        \/ rest[1] = ":" /\ (Len(rest) = 1 \/ rest[2] = "/")
    BY <1>6, <1>18, <2>4, <2>5, <2>6
  <2> QED
    BY <1>15, <2>1, <2>7 DEF NothingLost, whole, rest, service, path
<1> QED
  BY <1>17, <1>18

\* Of every URL, what the three parts do not hold is a query, a fragment, or an empty port.
THEOREM NothingIsLost == Spec => []NothingLost
<1> QED
  BY InitIInv, NextIInv, InitMatched, NextMatched, IInvLost, PTL DEF Spec

-------------------------------------------------------------------------------
(*****************************************************************************)
(* What the request is made of                                               *)
(*****************************************************************************)
\* A sequence put together of two, and where one is in a text: behind k characters.
Joined(S, a, b, c) == a \in Seq(S) /\ b \in Seq(S) /\ c = a \o b
At(t, k, s) == \A i \in 1..Len(s) : t[k + i] = s[i]

LEMMA JoinedSeq ==
  ASSUME NEW S, NEW a, NEW b, NEW c, Joined(S, a, b, c)
  PROVE  c \in Seq(S) /\ Len(a) \in Nat /\ Len(b) \in Nat /\ Len(c) = Len(a) + Len(b)
  BY DEF Joined

LEMMA JoinedAt ==
  ASSUME NEW S, NEW a, NEW b, NEW c, Joined(S, a, b, c), NEW t, NEW k \in Nat, At(t, k, c)
  PROVE  At(t, k, a) /\ At(t, k + Len(a), b)
<1>1. a \in Seq(S) /\ b \in Seq(S) /\ c = a \o b
  BY DEF Joined
<1>2. Len(a) \in Nat /\ Len(b) \in Nat /\ Len(c) = Len(a) + Len(b)
  BY <1>1
<1>3. \A i \in 1..Len(a) : c[i] = a[i]
  BY <1>1
<1>4. \A i \in 1..Len(b) : c[Len(a) + i] = b[i]
  BY <1>1
<1>5. At(t, k, a)
  BY <1>2, <1>3 DEF At
<1>6. \A i \in 1..Len(b) : t[k + Len(a) + i] = b[i]
  <2> TAKE i \in 1..Len(b)
  <2>1. Len(a) + i \in 1..Len(c) /\ k + (Len(a) + i) = k + Len(a) + i
    BY <1>2
  <2> QED
    BY <1>4, <2>1 DEF At
<1> QED
  BY <1>5, <1>6 DEF At

LEMMA AtOnes ==
  ASSUME NEW t, NEW k \in Nat
  PROVE  /\ \A x : At(t, k, <<x>>) => t[k + 1] = x
         /\ \A x, y : At(t, k, <<x, y>>) => t[k + 1] = x /\ t[k + 2] = y
<1>1. ASSUME NEW x, At(t, k, <<x>>) PROVE t[k + 1] = x
  <2>1. Len(<<x>>) = 1 /\ <<x>>[1] = x
    OBVIOUS
  <2> QED
    BY <1>1, <2>1 DEF At
<1>2. ASSUME NEW x, NEW y, At(t, k, <<x, y>>) PROVE t[k + 1] = x /\ t[k + 2] = y
  <2>1. Len(<<x, y>>) = 2 /\ <<x, y>>[1] = x /\ <<x, y>>[2] = y
    OBVIOUS
  <2> QED
    BY <1>2, <2>1 DEF At
<1> QED
  BY <1>1, <1>2

LEMMA FlattenOne ==
  ASSUME NEW s, Len(s) = 1
  PROVE  FlattenSeq(s) = s[1]
<1> DEFINE g == CHOOSE f : f = [i \in 1..Len(s) |-> IF i = 1 THEN s[i] ELSE f[i-1] \o s[i]]
<1>1. \E f : f = [i \in 1..Len(s) |-> IF i = 1 THEN s[i] ELSE f[i-1] \o s[i]]
  <2> DEFINE e == [i \in 1..Len(s) |-> s[1]]
  <2>1. \A i \in 1..Len(s) : i = 1
    OBVIOUS
  <2>2. e = [i \in 1..Len(s) |-> IF i = 1 THEN s[i] ELSE e[i-1] \o s[i]]
    BY <2>1
  <2> QED
    BY <2>2
<1>2. g = [i \in 1..Len(s) |-> IF i = 1 THEN s[i] ELSE g[i-1] \o s[i]]
  BY <1>1
<1>3. FlattenSeq(s) = g[Len(s)]
  BY DEF FlattenSeq
<1> HIDE DEF g
<1>4. g[1] = s[1]
  BY <1>2
<1> QED
  BY <1>3, <1>4

\* The characters of a request: those of its parts, and those written of its own.
Letters == {"G", "SP", "/", "H", ".", "1", "CR", "LF", "t", ":", "C", "c"}
RequestChars == STRING \cup Letters

Method == <<"G">>
PathFront == <<"SP", "/">>
Blank == <<"SP">>
Minor == <<"1">>

LEMMA PiecesWritten ==
  /\ Method \in Seq(RequestChars) /\ PathFront \in Seq(RequestChars) /\ Blank \in Seq(RequestChars)
  /\ Version \in Seq(RequestChars) /\ Minor \in Seq(RequestChars) /\ CrLf \in Seq(RequestChars)
  /\ HostKey \in Seq(RequestChars) /\ Separator \in Seq(RequestChars)
  /\ ConnectionKey \in Seq(RequestChars) /\ CloseValue \in Seq(RequestChars)
  BY DEF RequestChars, Letters, Method, PathFront, Blank, Minor, Version, CrLf, HostKey, Separator, ConnectionKey, CloseValue

LEMMA PiecesLong ==
  /\ Len(Method) = 1 /\ Len(PathFront) = 2 /\ Len(Blank) = 1
  /\ Len(Version) = 2 /\ Len(Minor) = 1 /\ Len(CrLf) = 2
  /\ Len(HostKey) = 2 /\ Len(Separator) = 2 /\ Len(ConnectionKey) = 1 /\ Len(CloseValue) = 1
  BY DEF Method, PathFront, Blank, Minor, Version, CrLf, HostKey, Separator, ConnectionKey, CloseValue

\* What is in a text, position by position: a start line, a Host field, and the rest.
LineLaid(t, k, n, p) ==
  /\ t[k + 1] = "G" /\ t[k + 2] = "SP" /\ t[k + 3] = "/" /\ At(t, k + 3, p)
  /\ t[k + n + 4] = "SP" /\ t[k + n + 5] = "H" /\ t[k + n + 6] = "." /\ t[k + n + 7] = "1"
  /\ t[k + n + 8] = "CR" /\ t[k + n + 9] = "LF"

HostLaid(t, k, m, h) ==
  /\ t[k + 1] = "H" /\ t[k + 2] = "t" /\ t[k + 3] = ":" /\ t[k + 4] = "SP"
  /\ At(t, k + 4, h) /\ t[k + m + 5] = "CR" /\ t[k + m + 6] = "LF"

RestLaid(t, k) ==
  /\ t[k + 1] = "C" /\ t[k + 2] = ":" /\ t[k + 3] = "SP" /\ t[k + 4] = "c"
  /\ t[k + 5] = "CR" /\ t[k + 6] = "LF" /\ t[k + 7] = "CR" /\ t[k + 8] = "LF"

LEMMA LineIsLaid ==
  ASSUME NEW p \in Seq(STRING), NEW h, NEW f
  PROVE  LET x == RequestLine([method |-> Method, host |-> h, path |-> p, fields |-> f])
         IN /\ x \in Seq(RequestChars) /\ Len(x) = Len(p) + 9
            /\ \A t : \A k \in Nat : At(t, k, x) => LineLaid(t, k, Len(p), p)
<1> DEFINE n == Len(p)
           a == Method \o PathFront
           b == a \o p
           c == b \o Blank
           d == c \o VersionText
           x == RequestLine([method |-> Method, host |-> h, path |-> p, fields |-> f])
<1>1. n \in Nat /\ p \in Seq(RequestChars)
  BY DEF RequestChars
<1>2. x = d \o CrLf
  BY DEF RequestLine, PathFront, Blank
<1>3. Joined(RequestChars, Method, PathFront, a)
  BY PiecesWritten DEF Joined
<1>4. Joined(RequestChars, Version, Minor, VersionText)
  BY PiecesWritten DEF Joined, VersionText, Minor
<1> HIDE DEF a, b, c, d, x
<1>5. a \in Seq(RequestChars) /\ Len(a) = 3
  <2>1. /\ a \in Seq(RequestChars) /\ Len(Method) \in Nat /\ Len(PathFront) \in Nat
        /\ Len(a) = Len(Method) + Len(PathFront)
    BY <1>3, JoinedSeq
  <2> QED
    BY <2>1, PiecesLong
<1>6. VersionText \in Seq(RequestChars) /\ Len(VersionText) = 3
  <2>1. /\ VersionText \in Seq(RequestChars) /\ Len(Version) \in Nat /\ Len(Minor) \in Nat
        /\ Len(VersionText) = Len(Version) + Len(Minor)
    BY <1>4, JoinedSeq
  <2> QED
    BY <2>1, PiecesLong
<1>7. Joined(RequestChars, a, p, b)
  BY <1>1, <1>5 DEF Joined, b
<1>8. b \in Seq(RequestChars) /\ Len(b) = n + 3
  <2>1. /\ b \in Seq(RequestChars) /\ Len(a) \in Nat /\ Len(p) \in Nat
        /\ Len(b) = Len(a) + Len(p)
    BY <1>7, JoinedSeq
  <2> QED
    BY <1>1, <1>5, <2>1
<1>9. Joined(RequestChars, b, Blank, c)
  BY <1>8, PiecesWritten DEF Joined, c
<1>10. c \in Seq(RequestChars) /\ Len(c) = n + 4
  <2>1. /\ c \in Seq(RequestChars) /\ Len(b) \in Nat /\ Len(Blank) \in Nat
        /\ Len(c) = Len(b) + Len(Blank)
    BY <1>9, JoinedSeq
  <2> QED
    BY <1>1, <1>8, <2>1, PiecesLong
<1>11. Joined(RequestChars, c, VersionText, d)
  BY <1>6, <1>10 DEF Joined, d
<1>12. d \in Seq(RequestChars) /\ Len(d) = n + 7
  <2>1. /\ d \in Seq(RequestChars) /\ Len(c) \in Nat /\ Len(VersionText) \in Nat
        /\ Len(d) = Len(c) + Len(VersionText)
    BY <1>11, JoinedSeq
  <2> QED
    BY <1>1, <1>6, <1>10, <2>1
<1>13. Joined(RequestChars, d, CrLf, x)
  BY <1>2, <1>12, PiecesWritten DEF Joined
<1>14. x \in Seq(RequestChars) /\ Len(x) = n + 9
  <2>1. /\ x \in Seq(RequestChars) /\ Len(d) \in Nat /\ Len(CrLf) \in Nat
        /\ Len(x) = Len(d) + Len(CrLf)
    BY <1>13, JoinedSeq
  <2> QED
    BY <1>1, <1>12, <2>1, PiecesLong
<1>15. ASSUME NEW t, NEW k \in Nat, At(t, k, x) PROVE LineLaid(t, k, n, p)
  <2>1. At(t, k, d) /\ At(t, k + (n + 7), CrLf)
    BY <1>12, <1>13, <1>15, JoinedAt
  <2>2. At(t, k, c) /\ At(t, k + (n + 4), VersionText)
    BY <1>10, <1>11, <2>1, JoinedAt
  <2>3. At(t, k, b) /\ At(t, k + (n + 3), Blank)
    BY <1>8, <1>9, <2>2, JoinedAt
  <2>4. At(t, k, a) /\ At(t, k + 3, p)
    BY <1>5, <1>7, <2>3, JoinedAt
  <2>5. At(t, k, Method) /\ At(t, k + 1, PathFront)
    BY <1>3, <2>4, JoinedAt, PiecesLong
  <2>6. k + (n + 4) \in Nat /\ k + (n + 3) \in Nat /\ k + (n + 7) \in Nat /\ k + 1 \in Nat
        /\ k + (n + 4) + 2 \in Nat
    BY <1>1
  <2>7. At(t, k + (n + 4), Version) /\ At(t, k + (n + 4) + 2, Minor)
    <3>1. At(t, k + (n + 4), Version) /\ At(t, k + (n + 4) + Len(Version), Minor)
      BY <1>4, <2>2, <2>6, JoinedAt
    <3> QED
      BY <3>1, PiecesLong
  <2>8. t[k + 1] = "G" /\ t[k + 1 + 1] = "SP" /\ t[k + 1 + 2] = "/"
    BY <2>5, <2>6, AtOnes DEF Method, PathFront
  <2>9. t[k + (n + 3) + 1] = "SP"
    BY <2>3, <2>6, AtOnes DEF Blank
  <2>10. t[k + (n + 4) + 1] = "H" /\ t[k + (n + 4) + 2] = "." /\ t[k + (n + 4) + 2 + 1] = "1"
    BY <2>6, <2>7, AtOnes DEF Version, Minor
  <2>11. t[k + (n + 7) + 1] = "CR" /\ t[k + (n + 7) + 2] = "LF"
    BY <2>1, <2>6, AtOnes DEF CrLf
  <2>12. /\ k + 1 + 1 = k + 2 /\ k + 1 + 2 = k + 3 /\ k + (n + 3) + 1 = k + n + 4
         /\ k + (n + 4) + 1 = k + n + 5 /\ k + (n + 4) + 2 = k + n + 6
         /\ k + (n + 4) + 2 + 1 = k + n + 7
         /\ k + (n + 7) + 1 = k + n + 8 /\ k + (n + 7) + 2 = k + n + 9
    BY <1>1
  <2> HIDE DEF n
  <2> QED
    BY <2>4, <2>8, <2>9, <2>10, <2>11, <2>12 DEF LineLaid
<1> QED
  BY <1>14, <1>15 DEF x

\* The text of a field with a key and a value, to which both belong.
LEMMA FieldJoined ==
  ASSUME NEW key \in Seq(RequestChars), NEW value \in Seq(RequestChars), Null \notin {key, value}
  PROVE  LET y == FieldText(Field(key, value))
         IN /\ y \in Seq(RequestChars) /\ Len(y) = Len(key) + Len(value) + 4
            /\ \A t : \A k \in Nat : At(t, k, y) =>
                 /\ At(t, k, key) /\ At(t, k + Len(key), Separator)
                 /\ At(t, k + Len(key) + 2, value) /\ At(t, k + Len(key) + Len(value) + 2, CrLf)
<1> DEFINE a == key \o Separator
           b == a \o value
           y == FieldText(Field(key, value))
           i == Len(key)
           j == Len(value)
<1>1. i \in Nat /\ j \in Nat
  OBVIOUS
<1>2. y = b \o CrLf
  BY DEF FieldText, Field
<1>3. Joined(RequestChars, key, Separator, a)
  BY PiecesWritten DEF Joined
<1> HIDE DEF a, b, y
<1>4. a \in Seq(RequestChars) /\ Len(a) = i + 2
  <2>1. /\ a \in Seq(RequestChars) /\ Len(key) \in Nat /\ Len(Separator) \in Nat
        /\ Len(a) = Len(key) + Len(Separator)
    BY <1>3, JoinedSeq
  <2> QED
    BY <2>1, PiecesLong
<1>5. Joined(RequestChars, a, value, b)
  BY <1>4 DEF Joined, b
<1>6. b \in Seq(RequestChars) /\ Len(b) = i + 2 + j
  <2>1. /\ b \in Seq(RequestChars) /\ Len(a) \in Nat /\ Len(value) \in Nat
        /\ Len(b) = Len(a) + Len(value)
    BY <1>5, JoinedSeq
  <2> QED
    BY <1>4, <2>1
<1>7. Joined(RequestChars, b, CrLf, y)
  BY <1>2, <1>6, PiecesWritten DEF Joined
<1>8. y \in Seq(RequestChars) /\ Len(y) = i + 2 + j + 2
  <2>1. /\ y \in Seq(RequestChars) /\ Len(b) \in Nat /\ Len(CrLf) \in Nat
        /\ Len(y) = Len(b) + Len(CrLf)
    BY <1>7, JoinedSeq
  <2> QED
    BY <1>6, <2>1, PiecesLong
<1>9. ASSUME NEW t, NEW k \in Nat, At(t, k, y)
      PROVE  /\ At(t, k, key) /\ At(t, k + i, Separator)
             /\ At(t, k + (i + 2), value) /\ At(t, k + (i + 2 + j), CrLf)
  <2>1. At(t, k, b) /\ At(t, k + (i + 2 + j), CrLf)
    BY <1>6, <1>7, <1>9, JoinedAt
  <2>2. At(t, k, a) /\ At(t, k + (i + 2), value)
    BY <1>4, <1>5, <2>1, JoinedAt
  <2>3. At(t, k, key) /\ At(t, k + i, Separator)
    BY <1>3, <2>2, JoinedAt
  <2> QED
    BY <2>1, <2>2, <2>3
<1> HIDE DEF i, j
<1>10. i + 2 + j + 2 = i + j + 4
       /\ \A k \in Nat : k + (i + 2) = k + i + 2 /\ k + (i + 2 + j) = k + i + j + 2
  BY <1>1
<1> QED
  BY <1>8, <1>9, <1>10 DEF i, j, y

LEMMA HostIsLaid ==
  ASSUME NEW h \in Seq(STRING), h # Null
  PROVE  LET y == FieldText(Field(HostKey, h))
         IN /\ y \in Seq(RequestChars) /\ Len(y) = Len(h) + 6
            /\ \A t : \A k \in Nat : At(t, k, y) => HostLaid(t, k, Len(h), h)
<1> DEFINE m == Len(h)
           y == FieldText(Field(HostKey, h))
<1>1. m \in Nat /\ h \in Seq(RequestChars)
  BY DEF RequestChars
<1>2. Null \notin {HostKey, h}
  BY DEF HostKey, Null
<1>3. Len(HostKey) = 2 /\ HostKey \in Seq(RequestChars)
  BY PiecesLong, PiecesWritten
<1> HIDE DEF y
<1>4. /\ y \in Seq(RequestChars) /\ Len(y) = Len(HostKey) + Len(h) + 4
      /\ \A t : \A k \in Nat : At(t, k, y) =>
           /\ At(t, k, HostKey) /\ At(t, k + Len(HostKey), Separator)
           /\ At(t, k + Len(HostKey) + 2, h) /\ At(t, k + Len(HostKey) + Len(h) + 2, CrLf)
  BY <1>1, <1>2, <1>3, FieldJoined DEF y
<1> HIDE DEF m
<1>5. Len(y) = m + 6
  <2>1. Len(y) = 2 + m + 4
    BY <1>3, <1>4 DEF m
  <2> QED
    BY <1>1, <2>1
<1>6. ASSUME NEW t, NEW k \in Nat, At(t, k, y) PROVE HostLaid(t, k, m, h)
  <2>1. /\ At(t, k, HostKey) /\ At(t, k + 2, Separator)
        /\ At(t, k + 2 + 2, h) /\ At(t, k + 2 + m + 2, CrLf)
    BY <1>3, <1>4, <1>6 DEF m
  <2>2. k + 2 \in Nat /\ k + 2 + m + 2 \in Nat
    BY <1>1
  <2>3. t[k + 1] = "H" /\ t[k + 2] = "t"
    BY <2>1, AtOnes DEF HostKey
  <2>4. t[k + 2 + 1] = ":" /\ t[k + 2 + 2] = "SP"
    BY <2>1, <2>2, AtOnes DEF Separator
  <2>5. t[k + 2 + m + 2 + 1] = "CR" /\ t[k + 2 + m + 2 + 2] = "LF"
    BY <2>1, <2>2, AtOnes DEF CrLf
  <2>6. /\ k + 2 + 1 = k + 3 /\ k + 2 + 2 = k + 4
        /\ k + 2 + m + 2 + 1 = k + m + 5 /\ k + 2 + m + 2 + 2 = k + m + 6
    BY <1>1
  <2> QED
    BY <2>1, <2>3, <2>4, <2>5, <2>6 DEF HostLaid
<1> QED
  BY <1>4, <1>5, <1>6 DEF m, y

LEMMA RestIsLaid ==
  LET z == FieldsText(<<Field(ConnectionKey, CloseValue)>>)
  IN /\ z \in Seq(RequestChars) /\ Len(z) = 8
     /\ \A t : \A k \in Nat : At(t, k, z) => RestLaid(t, k)
<1> DEFINE f == Field(ConnectionKey, CloseValue)
           s == [i \in DOMAIN <<f>> |-> FieldText(<<f>>[i])]
           y == FieldText(Field(ConnectionKey, CloseValue))
           z == FieldsText(<<Field(ConnectionKey, CloseValue)>>)
<1>1. Null \notin {ConnectionKey, CloseValue}
  BY DEF ConnectionKey, CloseValue, Null
<1>2. Len(ConnectionKey) = 1 /\ Len(CloseValue) = 1
      /\ ConnectionKey \in Seq(RequestChars) /\ CloseValue \in Seq(RequestChars)
  BY PiecesLong, PiecesWritten
<1>3. Len(s) = 1 /\ s[1] = y
  <2>1. DOMAIN <<f>> = 1..1 /\ <<f>>[1] = f
    OBVIOUS
  <2> HIDE DEF f
  <2>2. s \in Seq({FieldText(f)})
    BY <2>1
  <2>3. Len(s) = 1 /\ s[1] = FieldText(f)
    BY <2>1, <2>2
  <2> QED
    BY <2>3 DEF f
<1>4. z = FlattenSeq(s) \o CrLf
  BY DEF FieldsText
<1> HIDE DEF f, s, y, z
<1>5. z = y \o CrLf
  BY <1>3, <1>4, FlattenOne
<1>6. /\ y \in Seq(RequestChars) /\ Len(y) = Len(ConnectionKey) + Len(CloseValue) + 4
      /\ \A t : \A k \in Nat : At(t, k, y) =>
           /\ At(t, k, ConnectionKey) /\ At(t, k + Len(ConnectionKey), Separator)
           /\ At(t, k + Len(ConnectionKey) + 2, CloseValue)
           /\ At(t, k + Len(ConnectionKey) + Len(CloseValue) + 2, CrLf)
  BY <1>1, <1>2, FieldJoined DEF y
<1>7. Len(y) = 6
  BY <1>2, <1>6
<1>8. Joined(RequestChars, y, CrLf, z)
  BY <1>5, <1>6, PiecesWritten DEF Joined
<1>9. z \in Seq(RequestChars) /\ Len(z) = Len(y) + Len(CrLf)
  BY <1>8, JoinedSeq
<1>10. Len(z) = 8
  BY <1>7, <1>9, PiecesLong
<1>11. ASSUME NEW t, NEW k \in Nat, At(t, k, z) PROVE RestLaid(t, k)
  <2>1. At(t, k, y) /\ At(t, k + 6, CrLf)
    BY <1>7, <1>8, <1>11, JoinedAt
  <2>2. /\ At(t, k, ConnectionKey) /\ At(t, k + 1, Separator)
        /\ At(t, k + 1 + 2, CloseValue) /\ At(t, k + 1 + 1 + 2, CrLf)
    BY <1>2, <1>6, <2>1
  <2>3. k + 6 \in Nat /\ k + 1 \in Nat /\ k + 1 + 2 \in Nat /\ k + 1 + 1 + 2 \in Nat
    OBVIOUS
  <2>4. t[k + 1] = "C" /\ t[k + 1 + 2 + 1] = "c"
    BY <2>2, <2>3, AtOnes DEF ConnectionKey, CloseValue
  <2>5. t[k + 1 + 1] = ":" /\ t[k + 1 + 2] = "SP"
    BY <2>2, <2>3, AtOnes DEF Separator
  <2>6. t[k + 1 + 1 + 2 + 1] = "CR" /\ t[k + 1 + 1 + 2 + 2] = "LF"
    BY <2>2, <2>3, AtOnes DEF CrLf
  <2>7. t[k + 6 + 1] = "CR" /\ t[k + 6 + 2] = "LF"
    BY <2>1, <2>3, AtOnes DEF CrLf
  <2>8. /\ k + 1 + 1 = k + 2 /\ k + 1 + 2 = k + 3 /\ k + 1 + 2 + 1 = k + 4
        /\ k + 1 + 1 + 2 + 1 = k + 5 /\ k + 1 + 1 + 2 + 2 = k + 6
        /\ k + 6 + 1 = k + 7 /\ k + 6 + 2 = k + 8
    OBVIOUS
  <2> QED
    BY <2>4, <2>5, <2>6, <2>7, <2>8 DEF RestLaid
<1> QED
  BY <1>9, <1>10, <1>11 DEF z

\* The text of the client's request, and where its parts are in it.
RequestLaid(t, n, m, p, h) ==
  /\ t \in Seq(RequestChars) /\ n \in Nat /\ m \in Nat /\ Len(t) = n + m + 23
  /\ LineLaid(t, 0, n, p) /\ HostLaid(t, n + 9, m, h) /\ RestLaid(t, n + m + 15)

LEMMA RequestIsLaid ==
  ASSUME NEW p \in Seq(STRING), NEW h \in Seq(STRING), h # Null
  PROVE  RequestLaid(RequestText(ClientRequest(Method, h, p)), Len(p), Len(h), p, h)
<1> DEFINE f == <<Field(ConnectionKey, CloseValue)>>
           n == Len(p)
           m == Len(h)
           x == RequestLine([method |-> Method, host |-> h, path |-> p, fields |-> f])
           y == FieldText(Field(HostKey, h))
           z == FieldsText(<<Field(ConnectionKey, CloseValue)>>)
           b == x \o y
           t == RequestText(ClientRequest(Method, h, p))
<1>1. t = b \o z
  BY DEF RequestText, ClientRequest
<1>2. /\ x \in Seq(RequestChars) /\ Len(x) = n + 9
      /\ \A u : \A k \in Nat : At(u, k, x) => LineLaid(u, k, n, p)
  BY LineIsLaid
<1>3. /\ y \in Seq(RequestChars) /\ Len(y) = m + 6
      /\ \A u : \A k \in Nat : At(u, k, y) => HostLaid(u, k, m, h)
  BY HostIsLaid
<1>4. /\ z \in Seq(RequestChars) /\ Len(z) = 8
      /\ \A u : \A k \in Nat : At(u, k, z) => RestLaid(u, k)
  BY RestIsLaid
<1>5. n \in Nat /\ m \in Nat
  OBVIOUS
<1> HIDE DEF x, y, z, b, t, n, m
<1>6. Joined(RequestChars, x, y, b)
  BY <1>2, <1>3 DEF Joined, b
<1>7. b \in Seq(RequestChars) /\ Len(b) = Len(x) + Len(y)
  BY <1>6, JoinedSeq
<1>8. Len(b) = n + m + 15
  BY <1>2, <1>3, <1>5, <1>7
<1>9. Joined(RequestChars, b, z, t)
  BY <1>1, <1>4, <1>7 DEF Joined
<1>10. t \in Seq(RequestChars) /\ Len(t) = Len(b) + Len(z)
  BY <1>9, JoinedSeq
<1>11. Len(t) = n + m + 23
  BY <1>4, <1>5, <1>8, <1>10
<1>12. At(t, 0, t)
  BY <1>10 DEF At
<1>13. At(t, 0, b) /\ At(t, 0 + Len(b), z)
  BY <1>9, <1>12, JoinedAt
<1>14. At(t, 0, x) /\ At(t, 0 + Len(x), y)
  BY <1>6, <1>13, JoinedAt
<1>15. LineLaid(t, 0, n, p)
  BY <1>2, <1>14
<1>16. 0 + Len(x) = n + 9 /\ n + 9 \in Nat /\ 0 + Len(b) = n + m + 15 /\ n + m + 15 \in Nat
  BY <1>2, <1>5, <1>8
<1>17. HostLaid(t, n + 9, m, h)
  BY <1>3, <1>14, <1>16
<1>18. RestLaid(t, n + m + 15)
  BY <1>4, <1>13, <1>16
<1> QED
  BY <1>5, <1>10, <1>11, <1>15, <1>17, <1>18 DEF RequestLaid, t, n, m


-------------------------------------------------------------------------------
(*****************************************************************************)
(* How the request is read                                                   *)
(*****************************************************************************)
\* Where a scan ends that meets its first stop at q.
LEMMA LeastAt ==
  ASSUME NEW S, S \subseteq Int, NEW q \in S, \A y \in S : q <= y
  PROVE  S # {} /\ Min(S) = q
<1>1. \E x \in S : \A y \in S : x <= y
  OBVIOUS
<1>2. Min(S) \in S /\ \A y \in S : Min(S) <= y
  BY <1>1 DEF Min
<1>3. Min(S) \in Int /\ q \in Int /\ Min(S) <= q /\ q <= Min(S)
  BY <1>2
<1> QED
  BY <1>3

LEMMA TokenAt ==
  ASSUME NEW in, Len(in) \in Nat, NEW p \in Int, NEW q \in Int, p <= q, q <= Len(in), q >= 0,
         in[q] = "SP", \A i \in p..q - 1 : in[i] \notin Below \cup {"SP", "DEL"}
  PROVE  Token(in, p) = q
<1> DEFINE S == {i \in p..Len(in) : in[i] \in Below \cup {"SP", "DEL"}}
<1>1. S \subseteq Int /\ q \in S /\ \A y \in S : q <= y
  OBVIOUS
<1>2. S # {} /\ Min(S) = q
  BY <1>1, LeastAt
<1>3. Scan(in, p, LAMBDA c : c \in Below \cup {"SP", "DEL"}) = q
  BY <1>2 DEF Scan
<1> QED
  BY <1>3 DEF Token, Then

LEMMA ValueStopAt ==
  ASSUME NEW in, Len(in) \in Nat, NEW p \in Int, NEW q \in Int, p <= q, q <= Len(in),
         in[q] = "CR", \A i \in p..q - 1 : in[i] \notin Below \cup {"DEL"}
  PROVE  ValueStop(in, p) = q
<1> DEFINE S == {i \in p..Len(in) : in[i] \in (Below \ {"HT"}) \cup {"DEL"}}
<1>1. S \subseteq Int /\ q \in S /\ \A y \in S : q <= y
  BY DEF Below
<1>2. S # {} /\ Min(S) = q
  BY <1>1, LeastAt
<1> QED
  BY <1>2 DEF ValueStop, Scan

LEMMA BlankStopAt ==
  ASSUME NEW in, Len(in) \in Nat, NEW p \in Int, p + 1 <= Len(in), in[p] = "SP", in[p + 1] \notin Blanks
  PROVE  BlankStop(in, p) = p + 1
<1> DEFINE S == {i \in p..Len(in) : in[i] \notin Blanks}
<1>1. S \subseteq Int /\ p + 1 \in S /\ \A y \in S : p + 1 <= y
  BY DEF Blanks
<1>2. S # {} /\ Min(S) = p + 1
  BY <1>1, LeastAt
<1> QED
  BY <1>2 DEF BlankStop, Scan

LEMMA NameStopAt ==
  ASSUME NEW in, Len(in) \in Nat, NEW p \in Int, NEW q \in Int, p <= q, q <= Len(in),
         in[q] = ":", \A i \in p..q - 1 : in[i] \notin Below \cup {":", "HIGH"}
  PROVE  NameStop(in, p) = q
<1> DEFINE S == {i \in p..Len(in) : \/ in[i] \in Below \cup {":"}
                                    \/ (i >= Unsearched(in, p) /\ in[i] = "HIGH")}
<1>1. S \subseteq Int /\ q \in S /\ \A y \in S : q <= y
  OBVIOUS
<1>2. S # {} /\ Min(S) = q
  BY <1>1, LeastAt
<1> QED
  BY <1>2 DEF NameStop

LEMMA LineEndAt ==
  ASSUME NEW in, Len(in) \in Nat, NEW p \in Int, p + 1 <= Len(in), in[p] = "CR", in[p + 1] = "LF"
  PROVE  LineEnd(in, p) = p + 2
<1>1. LineEnd(in, p) = Expect(in, p + 1, "LF")
  BY DEF LineEnd
<1>2. Expect(in, p + 1, "LF") = p + 1 + 1
  BY DEF Expect
<1> QED
  BY <1>1, <1>2

LEMMA VersionAt ==
  ASSUME NEW in, Len(in) \in Nat, NEW p \in Int, p + 3 <= Len(in),
         in[p] = "H", in[p + 1] = ".", in[p + 2] = "1", in[p + 3] = "CR"
  PROVE  HttpVersion(in, p) = p + 3
<1> DEFINE other == {i \in DOMAIN Version : p + i - 1 > Len(in) \/ in[p + i - 1] # Version[i]}
           S == {i \in p + 2..Len(in) : in[i] \notin Digits}
<1>1. other = {}
  <2>1. DOMAIN Version = 1..2 /\ Version[1] = "H" /\ Version[2] = "."
    BY DEF Version
  <2>2. p + 1 - 1 = p /\ p + 2 - 1 = p + 1
    OBVIOUS
  <2>3. \A i \in 1..2 : i = 1 \/ i = 2
    OBVIOUS
  <2>4. ASSUME NEW i \in 1..2 PROVE ~(p + i - 1 > Len(in)) /\ in[p + i - 1] = Version[i]
    BY <2>1, <2>2, <2>3
  <2> QED
    BY <2>1, <2>4
<1>2. HttpVersion(in, p) = Int_(in, p + 2)
  BY <1>1, PiecesLong DEF HttpVersion
<1>3. S \subseteq Int /\ p + 3 \in S /\ \A y \in S : p + 3 <= y
  BY DEF Digits
<1>4. S # {} /\ Min(S) = p + 3
  BY <1>3, LeastAt
<1>5. Scan(in, p + 2, LAMBDA c : c \notin Digits) = p + 3
  BY <1>4 DEF Scan
<1>6. in[p + 2] \in Digits
  BY DEF Digits
<1> QED
  BY <1>2, <1>5, <1>6 DEF Int_

\* A field's line, with its colon at c, its value from v to s.
LineAt(in, p, c, s) ==
  /\ p \in Int /\ c \in Int /\ s \in Int /\ Len(in) \in Nat
  /\ 1 <= p /\ p < c /\ c + 2 <= s /\ s + 1 <= Len(in)
  /\ TokenChar(in[p]) /\ in[p] \notin Blanks
  /\ \A i \in p..c - 1 : in[i] \notin Below \cup {":", "HIGH"}
  /\ in[c] = ":" /\ in[c + 1] = "SP" /\ in[c + 2] \notin Blanks
  /\ \A i \in c + 2..s - 1 : in[i] \notin Below \cup {"DEL"}
  /\ in[s] = "CR" /\ in[s + 1] = "LF"

LineRead(line, p, c, s) ==
  /\ line.name = [from |-> p, to |-> c]
  /\ line.value.from = c + 2 /\ line.value.to = s /\ line.next = s + 2

LEMMA LineIs ==
  ASSUME NEW in, NEW p, NEW c, NEW s, NEW first, LineAt(in, p, c, s)
  PROVE  LineRead(Line(in, p, first), p, c, s)
<1>1. /\ p \in Int /\ c \in Int /\ s \in Int /\ Len(in) \in Nat
      /\ 1 <= p /\ p < c /\ c + 2 <= s /\ s + 1 <= Len(in)
  BY DEF LineAt
<1>2. ~Folded(in, p, first)
  BY DEF LineAt, Folded
<1>3. Colon(in, p) = c
  <2>1. NameStop(in, p) = c
    BY <1>1, NameStopAt DEF LineAt
  <2> QED
    BY <2>1 DEF LineAt, Colon
<1>4. BlankStop(in, c + 1) = c + 2
  <2>1. (c + 1) + 1 = c + 2 /\ c + 1 \in Int /\ (c + 1) + 1 <= Len(in)
    BY <1>1
  <2>2. BlankStop(in, c + 1) = (c + 1) + 1
    BY <1>1, <2>1, BlankStopAt DEF LineAt
  <2> QED
    BY <2>1, <2>2
<1>5. ValueStart(in, p, first) = c + 2
  BY <1>1, <1>2, <1>3, <1>4 DEF ValueStart
<1>6. ValueStop(in, c + 2) = s
  BY <1>1, ValueStopAt DEF LineAt
<1>7. LineEnd(in, s) = s + 2
  BY <1>1, LineEndAt DEF LineAt
<1>8. ToLineEnd(in, c + 2) = s + 2
  BY <1>1, <1>6, <1>7 DEF ToLineEnd, Then
<1>9. ~(c + 2 < 0)
  BY <1>1
<1> DEFINE line == Line(in, p, first)
           v == ValueStart(in, p, first)
<1>10. /\ line.name = IF Folded(in, p, first) THEN NULL ELSE [from |-> p, to |-> Colon(in, p)]
       /\ line.value.from = v
       /\ ~(v < 0) => line.value.to = ValueStop(in, v)
       /\ line.next = IF v < 0 THEN v ELSE ToLineEnd(in, v)
  BY LineParts
<1> HIDE DEF line, v
<1>11. v = c + 2
  BY <1>5 DEF v
<1>12. line.name = [from |-> p, to |-> c] /\ line.value.from = c + 2
  BY <1>2, <1>3, <1>10, <1>11
<1>13. line.value.to = s /\ line.next = s + 2
  BY <1>6, <1>8, <1>9, <1>10, <1>11
<1> QED
  BY <1>12, <1>13 DEF line, LineRead

\* A header of two fields behind a start line, and an empty line.
LEMMA LineBounds ==
  ASSUME NEW in, NEW p, NEW c, NEW s, LineAt(in, p, c, s)
  PROVE  /\ p \in Int /\ s \in Int /\ Len(in) \in Nat /\ 1 <= p /\ p <= Len(in) /\ p <= s
         /\ in[p] \notin LineEnds
<1>1. p \in Int /\ c \in Int /\ s \in Int /\ Len(in) \in Nat
      /\ 1 <= p /\ p < c /\ c + 2 <= s /\ s + 1 <= Len(in)
  BY DEF LineAt
<1>2. TokenChar(in[p])
  BY DEF LineAt
<1> QED
  BY <1>1, <1>2 DEF TokenChar, Below, LineEnds

LEMMA HeadersOfTwo ==
  ASSUME NEW in, NEW a, NEW c, NEW s, LineAt(in, a, c, s),
         NEW b, NEW d, NEW u, LineAt(in, b, d, u), b = s + 2,
         u + 3 <= Len(in), in[u + 2] = "CR", in[u + 3] = "LF"
  PROVE  /\ Headers(in, a).next = u + 4
         /\ Headers(in, a).fields[1] = Line(in, a, TRUE)
<1>1. /\ a \in Int /\ 1 <= a /\ a <= Len(in) /\ in[a] \notin LineEnds /\ Len(in) \in Nat
  BY LineBounds
<1>2. /\ b \in Int /\ u \in Int /\ 1 <= b /\ b <= Len(in) /\ b <= u /\ in[b] \notin LineEnds
  BY LineBounds
<1>3. PICK f : /\ ReadsLines(f, in, a)
               /\ Headers(in, a).fields = f[MaxFields].fields
               /\ Headers(in, a).next =
                    IF f[MaxFields].next < 0 THEN f[MaxFields].next ELSE LineEnd(in, f[MaxFields].next)
  BY HeadersValue
<1>4. MaxFields \in Nat /\ MaxFields >= 2
  BY MaxFieldsAssumption, FieldsAssumption
<1>5. /\ f[0] = [next |-> a, fields |-> <<>>]
      /\ \A n \in 0..MaxFields - 1 : f[n + 1] = NextLine(in, f[n])
  BY <1>3, ReadsLinesAt
<1> DEFINE l == f[0]
           k == f[1]
           yes == TRUE
           no == FALSE
           x == Line(in, a, yes)
           y == Line(in, b, no)
<1>6. l.next = a /\ l.fields = <<>>
  BY <1>5
<1>7. 0 \in 0..MaxFields - 1 /\ 1 \in 0..MaxFields - 1
  BY <1>4
<1>8. k = NextLine(in, l) /\ f[2] = NextLine(in, k)
  BY <1>5, <1>7
<1> HIDE DEF l, k, yes, no, x, y
<1>9. x.next = s + 2 /\ y.next = u + 2
  <2>1. LineRead(x, a, c, s)
    BY LineIs DEF x
  <2>2. LineRead(y, b, d, u)
    BY LineIs DEF y
  <2> QED
    BY <2>1, <2>2 DEF LineRead
<1>10. k.next = b /\ k.fields = <<x>>
  <2>1. ~(l.next < 0 \/ l.next > Len(in) \/ in[l.next] \in LineEnds)
    BY <1>1, <1>6
  <2>2. /\ k.next = Line(in, l.next, l.fields = <<>>).next
        /\ k.fields = Append(l.fields, Line(in, l.next, l.fields = <<>>))
    BY <1>8, <2>1, NextLineEnds
  <2>3. (l.fields = <<>>) = yes
    BY <1>6 DEF yes
  <2>4. Line(in, l.next, l.fields = <<>>) = x
    BY <1>6, <2>3 DEF x
  <2>5. k.next = x.next /\ k.fields = Append(<<>>, x)
    BY <1>6, <2>2, <2>4
  <2>6. Append(<<>>, x) = <<x>>
    OBVIOUS
  <2> QED
    BY <1>9, <2>5, <2>6
<1>11. f[2].next = u + 2 /\ f[2].fields = Append(<<x>>, y)
  <2>1. ~(k.next < 0 \/ k.next > Len(in) \/ in[k.next] \in LineEnds)
    BY <1>2, <1>10
  <2>2. /\ f[2].next = Line(in, k.next, k.fields = <<>>).next
        /\ f[2].fields = Append(k.fields, Line(in, k.next, k.fields = <<>>))
    BY <1>8, <2>1, NextLineEnds
  <2>3. (k.fields = <<>>) = no
    <3>1. <<x>> # <<>>
      OBVIOUS
    <3> QED
      BY <1>10, <3>1 DEF no
  <2>4. Line(in, k.next, k.fields = <<>>) = y
    BY <1>10, <2>3 DEF y
  <2> QED
    BY <1>9, <1>10, <2>2, <2>4
<1> DEFINE z == Append(<<x>>, y)
<1>12. z[1] = x
  OBVIOUS
<1> HIDE DEF z
\* From the second line on, no line is read any more.
<1> DEFINE T == {i \in Nat : 2 + i <= MaxFields => f[2 + i].next = u + 2 /\ f[2 + i].fields = z}
<1>13. 0 \in T
  <2>1. 2 + 0 = 2
    OBVIOUS
  <2> QED
    BY <1>11, <2>1 DEF z
<1>14. ASSUME NEW i \in Nat, i \in T PROVE i + 1 \in T
  <2> SUFFICES ASSUME 2 + (i + 1) <= MaxFields
               PROVE  f[2 + (i + 1)].next = u + 2 /\ f[2 + (i + 1)].fields = z
    OBVIOUS
  <2> DEFINE j == 2 + i
  <2>1. j \in 0..MaxFields - 1 /\ 2 + (i + 1) = j + 1 /\ 2 + i <= MaxFields
    BY <1>4
  <2>2. f[j].next = u + 2 /\ f[j].fields = z
    BY <1>14, <2>1
  <2> HIDE DEF j
  <2>3. f[j + 1] = NextLine(in, f[j])
    BY <1>5, <2>1
  <2> DEFINE w == f[j]
  <2>4. w.next < 0 \/ w.next > Len(in) \/ in[w.next] \in LineEnds
    BY <2>2 DEF LineEnds
  <2> HIDE DEF w
  <2>5. NextLine(in, w) = w
    BY <2>4, NextLineEnds
  <2> QED
    BY <2>1, <2>2, <2>3, <2>5 DEF w
<1>15. T = Nat
  <2> HIDE DEF T
  <2>1. T \subseteq Nat
    BY DEF T
  <2> QED
    BY <1>13, <1>14, <2>1, NatSetInduction
<1>16. f[MaxFields].next = u + 2 /\ f[MaxFields].fields = z
  <2> DEFINE i == MaxFields - 2
  <2>1. i \in Nat /\ 2 + i = MaxFields
    BY <1>4
  <2> HIDE DEF i
  <2>2. i \in T
    BY <1>15, <2>1
  <2>3. f[2 + i].next = u + 2 /\ f[2 + i].fields = z
    BY <1>4, <2>1, <2>2
  <2> QED
    BY <2>1, <2>3
<1>17. LineEnd(in, u + 2) = u + 2 + 2
  <2>1. u + 2 + 1 = u + 3 /\ u + 2 \in Int
    BY <1>2
  <2> QED
    BY <1>1, <2>1, LineEndAt
<1>18. ~(u + 2 < 0) /\ u + 2 + 2 = u + 4
  BY <1>2
<1>19. Headers(in, a).next = u + 4
  BY <1>3, <1>16, <1>17, <1>18
<1> QED
  BY <1>3, <1>12, <1>16, <1>19 DEF x, yes

\* What a text laid out like the client's request is read as.
Printed(s) == \A i \in 1..Len(s) : s[i] \notin Below \cup {"SP", "DEL"}

RequestRanges(request, n, m) ==
  /\ request.next = n + m + 24 /\ request.line[2] = [from |-> 3, to |-> n + 4]
  /\ request.fields[1].name = [from |-> n + 10, to |-> n + 12]
  /\ request.fields[1].value.from = n + 14 /\ request.fields[1].value.to = n + m + 14

LEMMA RequestIsRead ==
  ASSUME NEW t, NEW n, NEW m, NEW p, NEW h, RequestLaid(t, n, m, p, h),
         Len(p) = n, Len(h) = m, Printed(p), Printed(h)
  PROVE  RequestRanges(Request(t), n, m)
<1>1. n \in Nat /\ m \in Nat /\ Len(t) = n + m + 23 /\ t # <<>>
  BY DEF RequestLaid
<1>2. /\ t[1] = "G" /\ t[2] = "SP" /\ t[3] = "/" /\ \A i \in 1..n : t[3 + i] = p[i]
      /\ t[n + 4] = "SP" /\ t[n + 5] = "H" /\ t[n + 6] = "." /\ t[n + 7] = "1"
      /\ t[n + 8] = "CR" /\ t[n + 9] = "LF"
  <2>1. LineLaid(t, 0, n, p)
    BY DEF RequestLaid
  <2>2. /\ 0 + 1 = 1 /\ 0 + 2 = 2 /\ 0 + 3 = 3 /\ 0 + n + 4 = n + 4 /\ 0 + n + 5 = n + 5
        /\ 0 + n + 6 = n + 6 /\ 0 + n + 7 = n + 7 /\ 0 + n + 8 = n + 8 /\ 0 + n + 9 = n + 9
    BY <1>1
  <2> QED
    BY <2>1, <2>2 DEF LineLaid, At
<1>3. /\ t[n + 10] = "H" /\ t[n + 11] = "t" /\ t[n + 12] = ":" /\ t[n + 13] = "SP"
      /\ \A i \in 1..m : t[n + 13 + i] = h[i]
      /\ t[n + m + 14] = "CR" /\ t[n + m + 15] = "LF"
  <2>1. HostLaid(t, n + 9, m, h)
    BY DEF RequestLaid
  <2>2. /\ n + 9 + 1 = n + 10 /\ n + 9 + 2 = n + 11 /\ n + 9 + 3 = n + 12 /\ n + 9 + 4 = n + 13
        /\ n + 9 + m + 5 = n + m + 14 /\ n + 9 + m + 6 = n + m + 15
    BY <1>1
  <2> QED
    BY <2>1, <2>2 DEF HostLaid, At
<1>4. /\ t[n + m + 16] = "C" /\ t[n + m + 17] = ":" /\ t[n + m + 18] = "SP" /\ t[n + m + 19] = "c"
      /\ t[n + m + 20] = "CR" /\ t[n + m + 21] = "LF" /\ t[n + m + 22] = "CR" /\ t[n + m + 23] = "LF"
  <2>1. RestLaid(t, n + m + 15)
    BY DEF RequestLaid
  <2>2. /\ n + m + 15 + 1 = n + m + 16 /\ n + m + 15 + 2 = n + m + 17 /\ n + m + 15 + 3 = n + m + 18
        /\ n + m + 15 + 4 = n + m + 19 /\ n + m + 15 + 5 = n + m + 20 /\ n + m + 15 + 6 = n + m + 21
        /\ n + m + 15 + 7 = n + m + 22 /\ n + m + 15 + 8 = n + m + 23
    BY <1>1
  <2> QED
    BY <2>1, <2>2 DEF RestLaid
<1>5. FirstStart(t) = 1
  BY <1>1, <1>2 DEF FirstStart, LineEnds
<1>6. MethodEnd(t) = 2
  <2> DEFINE a == 1
             b == 2
  <2>1. a \in Int /\ b \in Int /\ a <= b /\ b >= 0 /\ Len(t) \in Nat /\ b <= Len(t)
        /\ \A i \in a..b - 1 : i = 1
    BY <1>1
  <2>2. t[b] = "SP"
    BY <1>2
  <2> HIDE DEF a, b
  <2>3. \A i \in a..b - 1 : t[i] \notin Below \cup {"SP", "DEL"}
    BY <1>2, <2>1 DEF Below
  <2>4. Token(t, a) = b
    BY <2>1, <2>2, <2>3, TokenAt
  <2> QED
    BY <1>5, <2>4 DEF MethodEnd, a, b
<1>7. PathEnd(t) = n + 4
  <2>1. \A i \in 3..(n + 4) - 1 : t[i] \notin Below \cup {"SP", "DEL"}
    <3> TAKE i \in 3..(n + 4) - 1
    <3>1. CASE i = 3
      BY <1>2, <3>1 DEF Below
    <3>2. CASE i # 3
      <4>1. i - 3 \in 1..n /\ 3 + (i - 3) = i
        BY <1>1, <3>2
      <4>2. t[i] = p[i - 3]
        BY <1>2, <4>1
      <4> QED
        BY <4>1, <4>2 DEF Printed
    <3> QED
      BY <3>1, <3>2
  <2> DEFINE a == 3
             b == n + 4
  <2>2. a \in Int /\ b \in Int /\ a <= b /\ b >= 0 /\ Len(t) \in Nat /\ b <= Len(t)
    BY <1>1
  <2>3. t[b] = "SP" /\ \A i \in a..b - 1 : t[i] \notin Below \cup {"SP", "DEL"}
    BY <1>2, <2>1
  <2> HIDE DEF a, b
  <2>4. Token(t, a) = b
    BY <2>2, <2>3, TokenAt
  <2> QED
    BY <1>6, <2>4 DEF PathEnd, a, b
<1>8. VersionEnd(t) = n + 8
  <2> DEFINE k == n + 5
  <2>1. k \in Int /\ k + 1 = n + 6 /\ k + 2 = n + 7 /\ k + 3 = n + 8 /\ (n + 4) + 1 = k
        /\ k + 3 <= Len(t) /\ Len(t) \in Nat /\ ~(n + 4 < 0)
    BY <1>1
  <2>2. t[k] = "H"
    BY <1>2
  <2> HIDE DEF k
  <2>3. t[k + 1] = "." /\ t[k + 2] = "1" /\ t[k + 3] = "CR"
    BY <1>2, <2>1
  <2>4. HttpVersion(t, k) = k + 3
    BY <2>1, <2>2, <2>3, VersionAt
  <2> QED
    BY <1>7, <2>1, <2>4 DEF VersionEnd
<1>9. RequestLineEnd(t) = n + 10
  <2> DEFINE k == n + 8
  <2>1. k \in Int /\ k + 1 = n + 9 /\ k + 2 = n + 10 /\ k + 1 <= Len(t) /\ Len(t) \in Nat /\ ~(k < 0)
    BY <1>1
  <2>2. t[k] = "CR" /\ VersionEnd(t) = k
    BY <1>2, <1>8
  <2> HIDE DEF k
  <2>3. t[k + 1] = "LF"
    BY <1>2, <2>1
  <2>4. LineEnd(t, k) = k + 2
    BY <2>1, <2>2, <2>3, LineEndAt
  <2> QED
    BY <2>1, <2>2, <2>4 DEF RequestLineEnd
<1>10. LineAt(t, n + 10, n + 12, n + m + 14)
  <2>1. /\ n + 10 \in Int /\ n + 12 \in Int /\ n + m + 14 \in Int /\ Len(t) \in Nat
        /\ 1 <= n + 10 /\ n + 10 < n + 12 /\ n + 12 + 2 <= n + m + 14 /\ n + m + 14 + 1 <= Len(t)
        /\ n + 12 + 1 = n + 13 /\ n + 12 + 2 = n + 14 /\ n + m + 14 + 1 = n + m + 15
    BY <1>1
  <2>2. TokenChar(t[n + 10]) /\ t[n + 10] \notin Blanks
    BY <1>3 DEF TokenChar, Below, Blanks
  <2>3. \A i \in n + 10..n + 12 - 1 : t[i] \notin Below \cup {":", "HIGH"}
    <3> TAKE i \in n + 10..n + 12 - 1
    <3>1. i = n + 10 \/ i = n + 11
      BY <1>1
    <3>2. t[i] = "H" \/ t[i] = "t"
      BY <1>3, <3>1
    <3> QED
      BY <3>2 DEF Below
  <2>4. \A i \in n + 14..n + m + 14 - 1 : t[i] \notin Below \cup {"SP", "DEL"}
    <3> TAKE i \in n + 14..n + m + 14 - 1
    <3>1. i - (n + 13) \in 1..m /\ n + 13 + (i - (n + 13)) = i
      BY <1>1
    <3>2. t[i] = h[i - (n + 13)]
      BY <1>3, <3>1
    <3> QED
      BY <3>1, <3>2 DEF Printed
  <2>5. t[n + 14] \notin Blanks
    <3>1. CASE m = 0
      <4>1. n + m + 14 = n + 14
        BY <1>1, <3>1
      <4>2. t[n + 14] = "CR"
        BY <1>3, <4>1
      <4> QED
        BY <4>2 DEF Blanks
    <3>2. CASE m # 0
      <4>1. n + 14 \in n + 14..n + m + 14 - 1
        BY <1>1, <3>2
      <4> QED
        BY <2>4, <4>1 DEF Below, Blanks
    <3> QED
      BY <3>1, <3>2
  <2>6. \A i \in n + 12 + 2..n + m + 14 - 1 : t[i] \notin Below \cup {"DEL"}
    BY <2>1, <2>4
  <2> DEFINE a == n + 10
             c == n + 12
             s == n + m + 14
  <2>7. /\ a \in Int /\ c \in Int /\ s \in Int /\ Len(t) \in Nat
        /\ 1 <= a /\ a < c /\ c + 2 <= s /\ s + 1 <= Len(t)
    BY <2>1
  <2>8. /\ TokenChar(t[a]) /\ t[a] \notin Blanks
        /\ \A i \in a..c - 1 : t[i] \notin Below \cup {":", "HIGH"}
    BY <2>2, <2>3
  <2>9. t[c] = ":" /\ t[c + 1] = "SP" /\ t[c + 2] \notin Blanks
    BY <1>3, <2>1, <2>5
  <2>10. /\ \A i \in c + 2..s - 1 : t[i] \notin Below \cup {"DEL"}
         /\ t[s] = "CR" /\ t[s + 1] = "LF"
    <3>1. \A i \in c + 2..s - 1 : t[i] \notin Below \cup {"DEL"}
      BY <2>6
    <3>2. t[s] = "CR" /\ t[s + 1] = "LF"
      BY <1>3, <2>1
    <3> QED
      BY <3>1, <3>2
  <2> HIDE DEF a, c, s
  <2>11. LineAt(t, a, c, s)
    BY <2>7, <2>8, <2>9, <2>10 DEF LineAt
  <2> QED
    BY <2>11 DEF a, c, s
<1>11. LineAt(t, n + m + 14 + 2, n + m + 17, n + m + 20)
  <2> DEFINE k == n + m + 16
  <2>1. /\ n + m + 14 + 2 = k /\ n + m + 17 = k + 1 /\ n + m + 20 = k + 4
        /\ k \in Int /\ 1 <= k /\ k + 7 = Len(t) /\ Len(t) \in Nat
    BY <1>1
  <2>2. t[k] = "C"
    BY <1>4
  <2>9. k + 1 = n + m + 17 /\ k + 2 = n + m + 18 /\ k + 3 = n + m + 19 /\ k + 4 = n + m + 20
        /\ k + 5 = n + m + 21
    BY <1>1
  <2> HIDE DEF k
  <2>3. /\ t[k + 1] = ":" /\ t[k + 2] = "SP" /\ t[k + 3] = "c" /\ t[k + 4] = "CR" /\ t[k + 5] = "LF"
    BY <1>4, <2>9
  <2>4. TokenChar(t[k]) /\ t[k] \notin Blanks /\ t[k + 3] \notin Blanks
    BY <2>2, <2>3 DEF TokenChar, Below, Blanks
  <2>5. \A i \in k..(k + 1) - 1 : t[i] \notin Below \cup {":", "HIGH"}
    <3> TAKE i \in k..(k + 1) - 1
    <3>1. i = k
      BY <2>1
    <3> QED
      BY <2>2, <3>1 DEF Below
  <2>6. \A i \in k + 3..(k + 4) - 1 : t[i] \notin Below \cup {"DEL"}
    <3> TAKE i \in k + 3..(k + 4) - 1
    <3>1. i = k + 3
      BY <2>1
    <3> QED
      BY <2>3, <3>1 DEF Below
  <2>7. /\ (k + 1) + 1 = k + 2 /\ (k + 1) + 2 = k + 3 /\ (k + 4) + 1 = k + 5
        /\ k + 1 \in Int /\ k + 4 \in Int /\ k < k + 1 /\ (k + 1) + 2 <= k + 4 /\ (k + 4) + 1 <= Len(t)
    BY <2>1
  <2>8. LineAt(t, k, k + 1, k + 4)
    BY <2>1, <2>2, <2>3, <2>4, <2>5, <2>6, <2>7 DEF LineAt
  <2> QED
    BY <2>1, <2>8
<1> DEFINE yes == TRUE
<1> HIDE DEF yes
<1>12. /\ Headers(t, n + 10).next = n + m + 24
       /\ Headers(t, n + 10).fields[1] = Line(t, n + 10, yes)
  <2>1. /\ n + m + 20 + 2 = n + m + 22 /\ n + m + 20 + 3 = n + m + 23 /\ n + m + 20 + 4 = n + m + 24
        /\ n + m + 20 + 3 <= Len(t)
    BY <1>1
  <2> DEFINE s == n + m + 14
             u == n + m + 20
             d == n + m + 17
             b == n + m + 14 + 2
             a == n + 10
             c == n + 12
  <2>2. LineAt(t, a, c, s) /\ LineAt(t, b, d, u) /\ b = s + 2 /\ u + 3 <= Len(t) /\ t[u + 2] = "CR" /\ t[u + 3] = "LF"
    BY <1>4, <1>10, <1>11, <2>1
  <2> HIDE DEF s, u, d, a, c, b
  <2>3. Headers(t, a).next = u + 4 /\ Headers(t, a).fields[1] = Line(t, a, yes)
    BY <2>2, HeadersOfTwo DEF yes
  <2> QED
    BY <2>1, <2>3 DEF a, u
<1>13. /\ Request(t).next = Headers(t, n + 10).next
       /\ Request(t).fields = Headers(t, n + 10).fields
       /\ Request(t).line = <<[from |-> 1, to |-> 2], [from |-> 2 + 1, to |-> n + 4]>>
  BY <1>5, <1>6, <1>7, <1>9, RequestParts
<1>14. Request(t).line[2] = [from |-> 3, to |-> n + 4]
  BY <1>13
<1>15. /\ Line(t, n + 10, yes).name = [from |-> n + 10, to |-> n + 12]
       /\ Line(t, n + 10, yes).value.from = n + 14
       /\ Line(t, n + 10, yes).value.to = n + m + 14
  <2> DEFINE a == n + 10
             c == n + 12
             s == n + m + 14
  <2>1. LineAt(t, a, c, s) /\ c + 2 = n + 14
    BY <1>1, <1>10
  <2> HIDE DEF a, c, s
  <2>2. LineRead(Line(t, a, yes), a, c, s)
    BY <2>1, LineIs
  <2> QED
    BY <2>1, <2>2 DEF LineRead, a, c, s
<1> QED
  BY <1>12, <1>13, <1>14, <1>15 DEF RequestRanges


-------------------------------------------------------------------------------
(*****************************************************************************)
(* The request is read as it was meant                                       *)
(*****************************************************************************)
\* The text has s behind its first a characters, and that is the range from c to b.
Occurs(S, t, a, s, c, b) ==
  /\ t \in Seq(S) /\ s \in Seq(S) /\ a \in Nat /\ a + Len(s) <= Len(t) /\ At(t, a, s)
  /\ c = a + 1 /\ b = a + Len(s)

LEMMA RangeIs ==
  ASSUME NEW S, NEW t, NEW a, NEW s, NEW c, NEW b, Occurs(S, t, a, s, c, b)
  PROVE  SubSeq(t, c, b) = s
<1> DEFINE m == Len(s)
           u == SubSeq(t, c, b)
<1>1. /\ m \in Nat /\ Len(t) \in Nat /\ a \in Nat /\ c = a + 1 /\ b = a + m /\ a + m <= Len(t)
      /\ t \in Seq(S) /\ s \in Seq(S) /\ At(t, a, s)
  BY DEF Occurs
<1>2. s = [i \in 1..m |-> s[i]]
  BY <1>1
<1> HIDE DEF m
<1>3. u = [i \in 1..b - c + 1 |-> t[c + i - 1]]
  BY <1>1
<1>4. b - c + 1 = m /\ \A i \in 1..m : c + i - 1 = a + i
  BY <1>1
<1>5. \A i \in 1..m : t[c + i - 1] = s[i]
  BY <1>1, <1>4 DEF At, m
<1>6. u = [i \in 1..m |-> s[i]]
  BY <1>3, <1>4, <1>5
<1> QED
  BY <1>2, <1>6

\* What is returned of a group that matched is of the URL's characters.
LEMMA PartWritten ==
  ASSUME IInv, step = "done", NEW name \in Names, groups[name] # Unmatched,
         \A i \in DOMAIN url : url[i] \notin Below \cup {"SP", "DEL"}
  PROVE  /\ Part(name) \in Seq(STRING) /\ Printed(Part(name)) /\ Part(name) # Null
<1> DEFINE p == groups[name].from
           q == groups[name].to
           s == Part(name)
<1>1. /\ url \in Seq(STRING) /\ Len(url) \in Nat /\ DOMAIN url = 1..Len(url)
      /\ \A i \in 1..Len(url) : url[i] # "NULL"
  BY UrlsAssumption DEF IInv
<1>2. Ordered(groups, Len(url)) /\ Split = Names
  BY DEF IInv, Split
<1>3. p \in Int /\ q \in Int /\ 1 <= p /\ p <= q /\ q <= Len(url) + 1
  BY <1>1, <1>2 DEF Ordered, Names
<1>4. parts[name] = p /\ name \in DOMAIN parts
  BY <1>2 DEF IInv, Written, Names
<1>5. s = SubSeq(url, p, q - 1)
  <2>1. parts[name] # 0
    BY <1>3, <1>4
  <2> QED
    BY <1>4, <2>1, IInvParts DEF PartsRead
<1> HIDE DEF p, q, s
<1>6. s \in Seq(STRING) /\ \A i \in 1..Len(s) : p + i - 1 \in 1..Len(url) /\ s[i] = url[p + i - 1]
  <2> DEFINE r == q - 1
  <2>1. r \in Int /\ r <= Len(url) /\ p <= r + 1
    BY <1>1, <1>3
  <2> HIDE DEF r
  <2>2. s = SubSeq(url, p, r)
    BY <1>5 DEF r
  <2>3. SubSeq(url, p, r) \in Seq(STRING) /\ Len(SubSeq(url, p, r)) = IF p <= r THEN r - p + 1 ELSE 0
    BY <1>1, <1>3, <2>1
  <2>4. \A i \in 1..r - p + 1 : SubSeq(url, p, r)[i] = url[p + i - 1]
    BY <1>1, <1>3, <2>1
  <2>5. \A i \in 1..Len(s) : i \in 1..r - p + 1 /\ p + i - 1 \in 1..Len(url)
    BY <1>1, <1>3, <2>1, <2>2, <2>3
  <2> QED
    BY <2>2, <2>3, <2>4, <2>5
<1>7. Printed(s)
  BY <1>1, <1>6 DEF Printed
<1>8. s # Null
  <2> SUFFICES ASSUME s = Null PROVE FALSE
    OBVIOUS
  <2>1. Len(s) = 1 /\ s[1] = "NULL"
    BY DEF Null
  <2>2. 1 \in 1..Len(s)
    BY <2>1
  <2> QED
    BY <1>1, <1>6, <2>1, <2>2
<1> QED
  BY <1>6, <1>7, <1>8 DEF s

LEMMA IInvRequest == IInv => RequestRead
<1> SUFFICES ASSUME IInv, step = "done", \A i \in DOMAIN url : url[i] \notin Below \cup {"SP", "DEL"}
             PROVE  LET text == RequestText(ClientRequest(<<"G">>, Part("host"), Part("path")))
                        parse == Parse("request", text, 0)
                        Text(range) == SubSeq(text, range.from, range.to - 1)
                    IN /\ Answer(parse) = Len(text)
                       /\ Text(parse.line[2]) = <<"/">> \o Part("path")
                       /\ Text(parse.fields[1].name) = HostKey
                       /\ Text(parse.fields[1].value) = Part("host")
  BY DEF RequestRead
<1> DEFINE h == Part("host")
           p == Part("path")
           n == Len(Part("path"))
           m == Len(Part("host"))
           t == RequestText(ClientRequest(Method, h, p))
           r == Request(t)
<1>1. h \in Seq(STRING) /\ Printed(h) /\ h # Null
  <2>1. groups["host"] # Unmatched
    <3>1. Ordered(groups, Len(url))
      BY DEF IInv
    <3> QED
      BY <3>1 DEF Ordered, Unmatched
  <2> QED
    BY <2>1, PartWritten DEF Names
<1>2. p \in Seq(STRING) /\ Printed(p)
  <2>1. CASE groups["path"] # Unmatched
    BY <2>1, PartWritten DEF Names
  <2>2. CASE groups["path"] = Unmatched
    <3>1. parts["path"] = 0
      BY <2>2 DEF IInv, Written, Names
    <3>2. p = <<>>
      BY <3>1 DEF Part, Defaults
    <3>3. <<>> \in Seq(STRING) /\ Len(<<>>) = 0
      OBVIOUS
    <3> HIDE DEF p
    <3> QED
      BY <3>2, <3>3 DEF Printed
  <2> QED
    BY <2>1, <2>2
<1> HIDE DEF h, p, n, m, t, r
<1>3. n = Len(p) /\ m = Len(h)
  BY DEF n, m, p, h
<1>4. RequestLaid(t, n, m, p, h)
  <2>1. RequestLaid(RequestText(ClientRequest(Method, h, p)), Len(p), Len(h), p, h)
    BY <1>1, <1>2, RequestIsLaid
  <2> QED
    BY <1>3, <2>1 DEF t
<1>5. RequestRanges(r, n, m)
  BY <1>1, <1>2, <1>3, <1>4, RequestIsRead DEF r
<1>6. n \in Nat /\ m \in Nat /\ t \in Seq(RequestChars) /\ Len(t) = n + m + 23
  BY <1>4 DEF RequestLaid
<1>7. p \in Seq(RequestChars) /\ h \in Seq(RequestChars)
  BY <1>1, <1>2 DEF RequestChars
<1>8. Parse("request", t, 0) = r
  BY DEF Parse, r
<1>9. Answer(r) = Len(t)
  <2>1. r.next = n + m + 24
    BY <1>5 DEF RequestRanges
  <2> QED
    BY <1>6, <2>1 DEF Answer
<1>10. SubSeq(t, 3, n + 4 - 1) = <<"/">> \o p
  <2> DEFINE a == <<"/">>
             s == <<"/">> \o p
  <2>1. a \in Seq(RequestChars) /\ Len(a) = 1 /\ a[1] = "/"
    BY DEF RequestChars, Letters
  <2> HIDE DEF a, s
  <2>2. Joined(RequestChars, a, p, s)
    BY <1>7, <2>1 DEF Joined, a, s
  <2>3. s \in Seq(RequestChars) /\ Len(s) = Len(a) + Len(p)
    BY <2>2, JoinedSeq
  <2>4. Len(s) = n + 1
    BY <1>3, <1>6, <2>1, <2>3
  <2>5. LineLaid(t, 0, n, p)
    BY <1>4 DEF RequestLaid
  <2>6. t[3] = "/" /\ At(t, 3, p)
    BY <2>5 DEF LineLaid
  <2>7. \A i \in 1..Len(s) : t[2 + i] = s[i]
    <3>1. At(s, 0, s)
      BY DEF At
    <3>2. At(s, 0, a) /\ At(s, 0 + Len(a), p)
      BY <2>2, <3>1, JoinedAt
    <3>3. s[1] = "/"
      BY <2>1, <3>2 DEF At
    <3>4. \A j \in 1..n : s[1 + j] = p[j]
      BY <1>3, <2>1, <3>2 DEF At
    <3> TAKE i \in 1..Len(s)
    <3>5. CASE i = 1
      BY <2>6, <3>3, <3>5
    <3>6. CASE i # 1
      <4> DEFINE j == i - 1
      <4>1. j \in 1..n /\ i = 1 + j /\ 2 + i = 3 + j
        BY <1>6, <2>4, <3>6
      <4> HIDE DEF j
      <4>2. s[1 + j] = p[j]
        BY <3>4, <4>1
      <4>3. t[3 + j] = p[j]
        BY <1>3, <2>6, <4>1 DEF At
      <4> QED
        BY <4>1, <4>2, <4>3
    <3> QED
      BY <3>5, <3>6
  <2> DEFINE k == 2
             e == n + 4 - 1
  <2>8. k \in Nat /\ k + 1 = 3 /\ k + Len(s) <= Len(t) /\ e = k + Len(s)
    BY <1>6, <2>4
  <2>9. At(t, k, s)
    BY <2>7 DEF At
  <2> HIDE DEF k, e
  <2>10. Occurs(RequestChars, t, k, s, k + 1, e)
    BY <1>6, <2>3, <2>8, <2>9 DEF Occurs
  <2>11. SubSeq(t, k + 1, e) = s
    BY <2>10, RangeIs
  <2> QED
    BY <2>8, <2>11 DEF e, s
<1>11. SubSeq(t, n + 10, n + 12 - 1) = HostKey
  <2> DEFINE k == n + 9
             e == n + 12 - 1
  <2>1. HostLaid(t, k, m, h)
    BY <1>4 DEF RequestLaid
  <2>2. k \in Nat /\ k + 1 = n + 10 /\ e = k + 2 /\ k + 2 <= Len(t)
    BY <1>6
  <2> HIDE DEF k, e
  <2>3. t[k + 1] = "H" /\ t[k + 2] = "t"
    BY <2>1 DEF HostLaid
  <2>4. Len(HostKey) = 2 /\ HostKey[1] = "H" /\ HostKey[2] = "t"
    BY DEF HostKey
  <2>5. At(t, k, HostKey)
    <3>1. \A i \in 1..2 : i = 1 \/ i = 2
      OBVIOUS
    <3> QED
      BY <2>3, <2>4, <3>1 DEF At
  <2>6. Occurs(RequestChars, t, k, HostKey, k + 1, e)
    BY <1>6, <2>2, <2>4, <2>5, PiecesWritten DEF Occurs
  <2>7. SubSeq(t, k + 1, e) = HostKey
    BY <2>6, RangeIs
  <2> QED
    BY <2>2, <2>7 DEF e
<1>12. SubSeq(t, n + 14, n + m + 14 - 1) = h
  <2> DEFINE k == n + 13
             e == n + m + 14 - 1
  <2>1. HostLaid(t, n + 9, m, h)
    BY <1>4 DEF RequestLaid
  <2>2. n + 9 + 4 = k /\ k \in Nat /\ k + 1 = n + 14 /\ e = k + m /\ k + m <= Len(t)
    BY <1>6
  <2>3. At(t, k, h)
    BY <2>1, <2>2 DEF HostLaid
  <2> HIDE DEF k, e
  <2>4. Occurs(RequestChars, t, k, h, k + 1, e)
    BY <1>3, <1>6, <1>7, <2>2, <2>3 DEF Occurs
  <2>5. SubSeq(t, k + 1, e) = h
    BY <2>4, RangeIs
  <2> QED
    BY <2>2, <2>5 DEF e
<1>13. /\ r.line[2].from = 3 /\ r.line[2].to = n + 4
       /\ r.fields[1].name.from = n + 10 /\ r.fields[1].name.to = n + 12
       /\ r.fields[1].value.from = n + 14 /\ r.fields[1].value.to = n + m + 14
  BY <1>5 DEF RequestRanges
<1>14. /\ SubSeq(t, r.line[2].from, r.line[2].to - 1) = <<"/">> \o p
       /\ SubSeq(t, r.fields[1].name.from, r.fields[1].name.to - 1) = HostKey
       /\ SubSeq(t, r.fields[1].value.from, r.fields[1].value.to - 1) = h
  <2>1. SubSeq(t, r.line[2].from, r.line[2].to - 1) = <<"/">> \o p
    <3>1. r.line[2].from = 3 /\ r.line[2].to - 1 = n + 4 - 1
      BY <1>6, <1>13
    <3> QED
      BY <1>10, <3>1
  <2>2. SubSeq(t, r.fields[1].name.from, r.fields[1].name.to - 1) = HostKey
    <3>1. r.fields[1].name.from = n + 10 /\ r.fields[1].name.to - 1 = n + 12 - 1
      BY <1>6, <1>13
    <3> QED
      BY <1>11, <3>1
  <2>3. SubSeq(t, r.fields[1].value.from, r.fields[1].value.to - 1) = h
    <3>1. r.fields[1].value.from = n + 14 /\ r.fields[1].value.to - 1 = n + m + 14 - 1
      BY <1>6, <1>13
    <3> QED
      BY <1>12, <3>1
  <2> QED
    BY <2>1, <2>2, <2>3
<1>15. t = RequestText(ClientRequest(<<"G">>, Part("host"), Part("path")))
  BY DEF t, h, p, Method
<1> QED
  BY <1>8, <1>9, <1>14, <1>15 DEF h, p

\* A peer that reads the client's request with picohttpparser finds the host and the path
\* that reactor_http_split_url split off, for every URL without spaces and controls.
THEOREM RequestIsRight == Spec => []RequestRead
<1> QED
  BY InitIInv, NextIInv, IInvRequest, PTL DEF Spec
================================================================================
