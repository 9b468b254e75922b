-------------------------------- MODULE HttpUrl --------------------------------
(***************************************************************************)
(* reactor_http_split_url: a URL is matched once, and then split in place, *)
(* each part being ended by a NUL over the character behind it.  The       *)
(* client's request is made from the parts.                                *)
(***************************************************************************)
EXTENDS HttpWriter

CONSTANT Urls  \* the URLs that are split

\* They are C strings ("NULL", which marks a pointer, is no character).
ASSUME UrlsAssumption ==
  /\ Urls \subseteq Seq(STRING)
  /\ \A u \in Urls : \A i \in DOMAIN u : u[i] \notin {"NUL", "NULL"}

\* There is room for the fields of the client's request.
ASSUME FieldsAssumption == MaxFields >= 2

VARIABLES
  url,     \* the URL, as it was given
  memory,  \* the copy of it that is split
  groups,  \* where the expression's groups matched: [host, service, path]
  parts,   \* what was returned so far: positions in memory, or default texts
  step     \* the next part to split, or "done" or "failed"

vars == <<url, memory, groups, parts, step>>

\* "http://", shortened.
Prefix == <<"h", ":", "/", "/">>

HostStops == {"/", "?", "#", ":"}

\* A group that did not take part in the match: rm_so and rm_eo are -1.
Unmatched == [from |-> -1, to |-> -1]

Range_(from, to) == [from |-> from, to |-> to]

-------------------------------------------------------------------------------
\* regexec of "^http://([^/?#:]*)(:([^/]+))?(/(.*))?", group by group: where the host may
\* end, which services may stand behind an end h of it, and which paths at p.
Free(in, from, to, stops) == \A i \in from..to - 1 : in[i] \notin stops

HostStart == Len(Prefix) + 1
HostEnds(in) == {h \in HostStart..Len(in) + 1 : Free(in, HostStart, h, HostStops)}

Services(in, h) ==
  {Unmatched} \cup
  {Range_(h + 1, e) : e \in {k \in h + 2..Len(in) + 1 : in[h] = ":" /\ Free(in, h + 1, k, {"/"})}}

Paths(in, p) ==
  {Unmatched} \cup {Range_(p + 1, e) : e \in {k \in p + 1..Len(in) + 1 : in[p] = "/"}}

Behind(h, service) == IF service = Unmatched THEN h ELSE service.to

\* Every way the expression can match, and of these the longest whose groups, taken in
\* order, are the longest.
Ways(in) ==
  IF IsPrefix(Prefix, in)
  THEN UNION {UNION {{[host |-> Range_(HostStart, h), service |-> service, path |-> path] :
                        path \in Paths(in, Behind(h, service))} :
                       service \in Services(in, h)} : h \in HostEnds(in)}
  ELSE {}

\* Where the match ends.
MatchEnd(way) == Max({way.host.to, way.service.to, way.path.to})

Longest(ways) ==
  LET Best(set, Of(_)) == {w \in set : \A v \in set : Of(v) <= Of(w)}
      matches == Best(ways, MatchEnd)
      hosts == Best(matches, LAMBDA w : w.host.to)
      services == Best(hosts, LAMBDA w : w.service.to)
  IN Best(services, LAMBDA w : w.path.to)

\* Mutant: the terminator goes to the last character of the part.
TerminatorEarly(range) == range.to - 1

\* Where the NUL behind a part goes.
Terminator(range) == range.to

Init ==
  /\ url \in Urls /\ memory = Append(url, "NUL")
  /\ groups = [host |-> Unmatched, service |-> Unmatched, path |-> Unmatched]
  /\ parts = [host |-> 0, service |-> 0, path |-> 0]
  /\ step = "match"

Match ==
  /\ step = "match"
  /\ IF Ways(url) = {}
     THEN step' = "failed" /\ UNCHANGED groups
     ELSE step' = "host" /\ groups' \in Longest(Ways(url))
  /\ UNCHANGED <<url, memory, parts>>

\* Mutant: a group that did not take part in the match is not told apart.
SplitMatchAlways(part, next) ==
  /\ step = part /\ step' = next
  /\ memory' = [memory EXCEPT ![Terminator(groups[part])] = "NUL"]
  /\ parts' = [parts EXCEPT ![part] = groups[part].from]
  /\ UNCHANGED <<url, groups>>

\* reactor_http_split_match, which returns a position in its string or, where the part
\* is not there, the default, which is written 0 here.
SplitMatch(part, next) ==
  /\ step = part /\ step' = next
  /\ IF groups[part] = Unmatched
     THEN UNCHANGED <<memory, parts>>
     ELSE /\ memory' = [memory EXCEPT ![Terminator(groups[part])] = "NUL"]
          /\ parts' = [parts EXCEPT ![part] = groups[part].from]
  /\ UNCHANGED <<url, groups>>

Next ==
  \/ Match
  \/ SplitMatch("host", "service")
  \/ SplitMatch("service", "path")
  \/ SplitMatch("path", "done")

Spec == Init /\ [][Next]_vars

\* "localhost", "80" and the empty path.
Defaults == [host |-> <<"l">>, service |-> <<"8", "0">>, path |-> <<>>]

\* What the caller reads where a part points to.
Part(name) == IF parts[name] = 0 THEN Defaults[name] ELSE StringAt(memory, parts[name])

-------------------------------------------------------------------------------
(***************************************************************************)
(* Properties                                                              *)
(***************************************************************************)
\* The parts are where the match found them, and the copy has lost only characters
\* that end a part.
TypeOK ==
  /\ url \in Urls /\ Len(memory) = Len(url) + 1
  /\ step \in {"match", "host", "service", "path", "done", "failed"}
  /\ \A name \in DOMAIN parts : parts[name] \in 0..Len(url) + 1
  /\ \A i \in DOMAIN url : memory[i] \in {url[i], "NUL"}

\* No terminator cuts another part short: when the caller has all three, each reads as
\* the characters its group matched.
PartsRead ==
  step = "done" =>
    \A name \in DOMAIN parts :
      parts[name] # 0 => Part(name) = SubSeq(url, groups[name].from, groups[name].to - 1)

\* Put together again, what the caller reads is the URL up to the end of its match, and
\* what is behind that is a query or a fragment without a path in front, or a port that
\* is empty.
NothingLost ==
  step = "done" =>
    LET service == IF parts.service = 0 THEN <<>> ELSE <<":">> \o Part("service")
        path == IF parts.path = 0 THEN <<>> ELSE <<"/">> \o Part("path")
        whole == Prefix \o Part("host") \o service \o path
        rest == SubSeq(url, Len(whole) + 1, Len(url))
    IN /\ IsPrefix(whole, url)
       /\ \/ rest = <<>>
          \/ parts.path = 0 /\ parts.service = 0 /\ rest[1] \in {"?", "#"}
          \/ parts.path = 0 /\ parts.service = 0 /\ rest[1] = ":" /\ (Len(rest) = 1 \/ rest[2] = "/")

\* The request the client makes of the parts is read by a peer as a request for their
\* path from their host, whatever stands in the URL but a space or a control.
RequestRead ==
  step = "done" /\ (\A i \in DOMAIN url : url[i] \notin Below \cup {"SP", "DEL"}) =>
    LET text == RequestText(ClientRequest(<<"G">>, Part("host"), Part("path")))
        parse == Parse("request", text, 0)
        Text(range) == SubSeq(text, range.from, range.to - 1)
    IN /\ Answer(parse) = Len(text)
       /\ Text(parse.line[2]) = <<"/">> \o Part("path")
       /\ Text(parse.fields[1].name) = HostKey /\ Text(parse.fields[1].value) = Part("host")
================================================================================
