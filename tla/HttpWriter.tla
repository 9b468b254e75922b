------------------------------ MODULE HttpWriter -------------------------------
(***************************************************************************)
(* The headers libreactor_http writes: a client's request and a session's  *)
(* response, as sequences of characters (see PicoHttp).                    *)
(*                                                                         *)
(* A C string is a sequence, Null a NULL pointer; a field is a record      *)
(* [key, value].  Names and status texts are shortened to a few letters.   *)
(***************************************************************************)
EXTENDS PicoHttp, SequencesExt

Null == <<"NULL">>

\* The C string at position p.
StringAt(memory, p) ==
  SubSeq(memory, p, Min({i \in p..Len(memory) : memory[i] = "NUL"} \cup {Len(memory) + 1}) - 1)

CrLf == <<"CR", "LF">>
Separator == <<":", "SP">>
VersionText == Version \o <<"1">>

\* "Host", "Content-Length", "Transfer-Encoding", "Content-Type", "Server", "Date" and
\* "Connection" with "close".
HostKey == <<"H", "t">>
LengthKey == <<"C", "L">>
CodingKey == <<"T", "E">>
TypeKey == <<"C", "T">>
ServerKey == <<"S">>
DateKey == <<"D">>
ConnectionKey == <<"C">>
CloseValue == <<"c">>

Field(key, value) == [key |-> key, value |-> value]

\* reactor_stream_putu: decimal digits, without leading zeros.
DigitOf == <<"0", "1", "2", "3", "4", "5", "6", "7", "8", "9">>
Decimal(n) ==
  LET text[i \in Nat] == (IF i < 10 THEN <<>> ELSE text[i \div 10]) \o <<DigitOf[(i % 10) + 1]>>
  IN text[n]

\* A field is written if it has a key and a value.
FieldText(field) ==
  IF Null \in {field.key, field.value}
  THEN <<>>
  ELSE field.key \o Separator \o field.value \o CrLf

FieldsText(fields) == FlattenSeq([i \in DOMAIN fields |-> FieldText(fields[i])]) \o CrLf

\* Mutant: the path goes out as the URL was split, without its slash.
RequestLineBare(request) ==
  request.method \o <<"SP">> \o request.path \o <<"SP">> \o VersionText \o CrLf

RequestLine(request) ==
  request.method \o <<"SP", "/">> \o request.path \o <<"SP">> \o VersionText \o CrLf

\* reactor_http_request_send.
RequestText(request) ==
  RequestLine(request)
    \o FieldText(Field(HostKey, request.host)) \o FieldsText(request.fields)

\* reactor_http_client_open: the request it sends once it is connected.
ClientRequest(method, host, path) ==
  [method |-> method, host |-> host, path |-> path,
   fields |-> <<Field(ConnectionKey, CloseValue)>>]

\* reactor_http_response_message, of which two entries are enough.
StatusMessages == [n \in {200, 404} |-> IF n = 200 THEN <<"O", "K">> ELSE <<"N", "SP", "F">>]

\* reactor_http_response_create.
ResponseCreate(status, content) ==
  [status |-> status, content |-> content, fields |-> <<>>,
   message |-> IF status \in DOMAIN StatusMessages THEN StatusMessages[status] ELSE <<"U">>]

\* Mutant: in front of the others.
AddHeaderFirst(response, key, value) ==
  [response EXCEPT !.fields = <<Field(key, value)>> \o @]

\* reactor_http_response_add_header.
AddHeader(response, key, value) == [response EXCEPT !.fields = Append(@, Field(key, value))]

\* reactor_http_server_session_respond_fields up to the response's text: the server's
\* name and date, the type of the content, and the application's fields.
SessionResponse(name, date, status, type, content, fields) ==
  LET created == ResponseCreate(status, content)
      named == IF name = Null THEN created ELSE AddHeader(created, ServerKey, name)
      dated == AddHeader(named, DateKey, date)
      typed == IF type = Null THEN dated ELSE AddHeader(dated, TypeKey, type)
  IN [typed EXCEPT !.fields = @ \o fields]

\* reactor_http_response_send, without the content behind the header.
ResponseHead(response) ==
  VersionText \o <<"SP">> \o Decimal(response.status) \o <<"SP">> \o response.message \o CrLf
    \o FieldText(Field(LengthKey, Decimal(Len(response.content)))) \o FieldsText(response.fields)

ResponseText(response) == ResponseHead(response) \o response.content
================================================================================
