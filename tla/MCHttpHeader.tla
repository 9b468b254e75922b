----------------------------- MODULE MCHttpHeader -----------------------------
(***************************************************************************)
(* Headers for TLC: those the client and the server write, and some that   *)
(* other peers may send.                                                   *)
(***************************************************************************)
EXTENDS HttpHeader

Shown(line, fields, size) == [line |-> line, fields |-> fields, chunked |-> FALSE, size |-> size]

Requested(method, path) ==
  LET request == ClientRequest(method, <<"h">>, path)
  IN [kind |-> "request", text |-> RequestText(request), end |-> Len(RequestText(request)),
      shown |-> Shown(<<method, <<"/">> \o path>>,
                      <<Field(HostKey, <<"h">>), Field(ConnectionKey, CloseValue)>>, 0)]

Responded(name, status, type, content, fields) ==
  LET date == <<"d", "SP", "1">>
      response == SessionResponse(name, date, status, type, content, fields)
      written == <<Field(LengthKey, Decimal(Len(content))), Field(ServerKey, name),
                   Field(DateKey, date), Field(TypeKey, type)>> \o fields
  IN [kind |-> "response", text |-> ResponseText(response), end |-> Len(ResponseHead(response)),
      shown |-> Shown(<<>>, SelectSeq(written, LAMBDA f : Null \notin {f.key, f.value}),
                      Len(content))]

\* Another peer's: an empty line in front, lines that end with LF only, no space and
\* several behind a colon, an empty value, a coding, and no field at all.
EmptyLineFirst ==
  [kind |-> "request",
   text |-> CrLf \o <<"G", "SP", "/", "SP">> \o VersionText
            \o <<"LF", "c", "l", ":", "7", "LF", "LF">>,
   end |-> 16, shown |-> Shown(<<<<"G">>, <<"/">>>>, <<Field(<<"c", "l">>, <<"7">>)>>, 7)]

Coded ==
  [kind |-> "response",
   text |-> VersionText \o <<"SP", "2", "SP", "LF", "t", "e", ":", "HT", "SP", "C", "h">> \o CrLf
            \o <<"x", ":">> \o CrLf \o CrLf,
   end |-> 22,
   shown |-> [Shown(<<>>, <<Field(<<"t", "e">>, <<"C", "h">>), Field(<<"x">>, <<>>)>>, 0)
                EXCEPT !.chunked = TRUE]]

NoFields ==
  [kind |-> "request", text |-> <<"G", "SP", "*", "SP">> \o VersionText \o CrLf \o CrLf,
   end |-> 11, shown |-> Shown(<<<<"G">>, <<"*">>>>, <<>>, 0)]

Requests == {Requested(<<"G">>, <<"p">>), EmptyLineFirst, NoFields}

Responses ==
  {Responded(Null, 404, Null, <<>>, <<>>),
   Responded(<<"s">>, 200, <<"t">>, <<"x", "LF">>, <<>>),
   Responded(Null, 500, Null, [i \in 1..10 |-> "x"],
             <<Field(<<"k">>, Null), Field(<<"c", "l">>, <<"5">>)>>),
   Coded}
===============================================================================
