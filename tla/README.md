# A verification of libreactor_http

libreactor_http is an HTTP/1.1 client and server for the libreactor event loop:
about 1,000 lines of C over a vendored header tokenizer (picohttpparser). Paths
below are relative to the repository, which keeps its code in
`src/reactor_http/` and `src/picohttpparser/`.

## 1. Inventory

### Components

**Incremental parser** (`reactor_http_parser.c`). State: `state`, `flags`, the
address `base` of the input when the header was read, the sizes and offsets
`size`, `content_begin`, `content_end`, `chunk_begin`, and the message object its
owner gave it. Operations: `open_request`, `open_response`, `close`, `error`,
`data`. `data` dispatches on the state to one of five handlers, each of which
ends by returning (more input needed) or by calling `data` again with the next
state. It reads the stream's unconsumed input in place, writes terminators into
it, decodes the chunked coding by moving content down over what it has read, and
shows its owner ERROR, HEADER, CHUNK and DONE. *Correct when* no offset leaves the
input, the same messages come out however the bytes are split, and a handler
survives what its owner does in the callback it is in the middle of.

**Client** (`reactor_http_client.c`). State: CLOSED, CONNECTING, CONNECTED or
CLOSING, the copy of the URI, and the TCP client, stream, request, response and
parser it owns. Operations: `open`, `close`, and the event handlers of its three
objects. *Correct when* its user sees one outcome and one CLOSE for each open,
nothing behind CLOSE, the URI is freed once, and the client is closed exactly when
its objects are.

**Server and sessions** (`reactor_http_server.c`). State: CLOSED, LISTENING or
CLOSING, a TCP server, and a timer that keeps the text of the Date field; and for
every accepted connection a session on the heap: a stream, a request, a parser, a
pointer back to the server. A session is freed when its stream reports CLOSE; the
server keeps no list of them. *Correct when* the server closes once per open after
both its objects, and no session is used behind its `free`.

**Messages and fields** (`reactor_http.c`). Requests and responses with a vector
of header fields (add, look up, shift by an offset, clear), URL splitting by a
regular expression, and serialisation into a stream. *Correct when* fields are
those of the message and point into the current input, and what is written can be
read back.

**picohttpparser** (vendored). `phr_parse_request` and `phr_parse_response` answer
the length of a complete header, -1 for a malformed one and -2 for an incomplete
one.

**Not built.** `reactor_http_response.c`, `reactor_http_response.h` and the empty
`reactor_http_request.*` are an earlier version and not in `Makefile.am`.

**External.** The event loop, streams, TCP client and server and timers are the
libraries reactor_core and reactor_net.

### How they interact

Everything runs in one thread, by callbacks. The event loop gives a stream's DATA
event to the client or a session, which calls its parser, which calls back its
owner (`reactor_user_dispatch`), which calls the user. The user may call the
client, server or session from within. Closing a TCP client, TCP server, timer or
stream either dispatches its CLOSE event before the call returns, which re-enters
the owner's `close`, or leaves it to the event loop.

### What is hard

* Input arrives in any split, and the stream may move it between events.
* A callback may close the parser, the client or the session whose handler is in
  progress; the handler goes on behind it.
* `close` is re-entered from inside itself, in an order the libraries decide.
* A client is opened again, also out of its CLOSE event, with a parser that keeps
  the numbers of the earlier connection.
* Several steps of open and accept can fail after earlier ones have succeeded.
* Sizes from the wire are added in `size_t`.
* A header is parsed again from its first character whenever more has arrived
  (picohttpparser's shortcut for that, `is_complete`, is never taken by this library, which
  gives 0 as `last_len`); the strings shown of it are terminated in the input itself.
* Offsets and field pointers of an earlier message are still there when the next one is
  read, and some are used.

`PROJECT.json` lists the hazards one by one, each at the line where it bites.

## 2. Modules

| Module | What it is |
| --- | --- |
| `HttpWire` | What a peer sends: framings, and their bytes as records |
| `HttpParser` | The parser with the window of input the stream shows it |
| `MessageDelivery` | Abstract: what the owner of a parser is promised |
| `ExchangeContract` | Abstract: what a client promises its user |
| `HttpClient` | The client over an assumed parser |
| `HttpExchange` | The client over the real parser: `HttpClient` and `HttpParser` composed |
| `HttpServer` | The server and its sessions |
| `PicoHttp` | picohttpparser's reading of a header, as operators on characters |
| `HttpWriter` | The requests and responses the library writes, as sequences of characters |
| `HttpHeader` | A header written, cut, perhaps damaged, parsed and shown as C strings |
| `HttpUrl` | The splitting of a URL, and the request made of its parts |
| `HttpParserProofs`, `HttpDeliveryProofs`, `HttpClientProofs`, `HttpExchangeProofs`, `HttpServerProofs`, `PicoHttpProofs`, `HttpHeaderProofs`, `HttpUrlProofs` | Theorems about these |
| `MCHttpParser`, `MCHttpClient`, `MCHttpExchange`, `MCHttpServer`, `MCHttpHeader`, `MCHttpUrl` | Instances for TLC |

`HttpExchange` composes `HttpClient` and `HttpParser`; `HttpHeader` and `HttpUrl` extend
`HttpWriter`, which extends `PicoHttp`. The definitions called mutants in the modules
are what a plausible mistake would make of the definition behind them; every property
of a run is broken by one.

### HttpWire and HttpParser

A message is a *framing*: how its header announces the body (`length`, `chunked`,
`malformed`), the number announced, and what is sent. On the wire a header is
`HdrLen` opaque bytes, content bytes are numbered, and a chunk line is one byte
that stands for its digits, then CR, then LF. Every byte names its message, so a
property can tell whose bytes a DONE event shows. What the code reads from a
header (the framing) is looked up in `sent`; what it finds by looking at bytes
(`\r\n`, the chunk size, a header's beginning) is looked up in `data`.

`data` is the unconsumed input and `data_base` its address. `Data(k, b)` appends
`k` more bytes of the connection and moves everything to the address `b`: every
split, every relocation.

One step is one call of one handler, up to the first callback of the owner. There
the step ends with `pc` naming the callback, the owner may take steps (`Close`,
`ClearFields`), and `HeaderReturns`, `BodyChunkReturns`, `ChunkReturns`,
`FinalReturns` and `ErrorReturns` are the rest of the handler. `take` and `last`
are its locals.

Choices the model leaves open:

* `ParseResults`: complete, incomplete or malformed as the bytes are; for input
  that does not begin with a header, incomplete or malformed. (`HttpHeader` has the
  characters.)
* `FoundFramings`: the framing of the message, if its fields alone are in the vector.
  Behind entries of an earlier message, whose pointers are at whatever bytes are there
  now, the lookups may find any number, none, or the word "chunked".
* `ChunkSizes`: content read as a chunk size may be any number.

`SizeMod` is the modulus of `size_t`. `Wrap` is applied to the two sums that take a
number from the wire: `n + content_size` and `size + 2`. When the latter wraps the
code moves memory it does not have, and the model stops (`pc = "corrupt"`), as it
does when more is consumed than there is.

The history variables `sent`, `cur`, `content`, `delivered` record the exchange.
`Carries` (in `HttpWire`) is what is assumed of a peer: its bytes are those of the messages
it sends, one behind the other, up to the header of the first that is not as announced;
behind that they may be anything, but no header begins twice or before one of an earlier
message. It is what gives the content of `sent` a meaning, and `Encode` satisfies it.

`Shown` is the range of the input that `request_final` and `response_final` set as the
content of the message, for a HEADER and for a DONE event. At HEADER the offsets are still
those of an earlier message (`reactor_http_parser.c:157`).

`fits` says that no header with the content announced behind it was longer than a
`size_t` can tell: no `n + content_size` has wrapped on this connection, whether the number
was the peer's or was found through stale fields. `sound` says that every message so far began where the one before ended and found
an empty field vector: it is ended by a message that is not well-formed, by an
application that does not clear the fields, and by a chunked message that was not
streamed, behind which the code consumes only the length of the content. `fresh`
says that the parser was opened with `size = 0`.

### MessageDelivery

The owner of a parser is told the messages of a connection in their order, none
twice unless a length wrapped (`fits`), behind which a header may be left in the input and
be read again; while receiver and peer are in step (`sync`) none is left out, what is told is
the content that was sent, and a streamed body only grows towards it. Once they are
out of step (`Lose`) messages may be left out. `HttpParser` implements it
(`ImplementsDelivery`) with `current <- cur`, `partial <- content`, `told <-
delivered` and `sync <- Synced`: `sound`, and no stale `size` was used. A stale one is
used only behind the first message of a connection, so that the first is always
received in step; `NoNeedlessWait` and `PipelineKept` have the same premise.

### HttpClient and ExchangeContract

`stack` holds what is left to do of the calls in progress: names of places in
`reactor_http_client_close`, in the parser's handlers and in the event handlers,
and `"user"` for a callback of the user. A step does the head of the stack and may
push more. With an empty stack the event loop dispatches the next event. The
parser is reduced to its state and the events it may dispatch.

A user may close the client as the last thing a callback does, open a closed one
anywhere, and do either between events. Closing the TCP client or the stream
completes at once (and re-enters `close`) or later; an object whose own event is
being handled completes later, since the libraries hold it until its handler
returns.

`ExchangeContract` knows only the sequence `seen` of events in the current
exchange: nothing behind CLOSE until the next open, at most one of RESPONSE and
ERROR, CHUNK only behind HEADER and before the outcome. `HttpClient` has the same
variable and implements it (`ImplementsContract`).

### HttpExchange

The variables of both modules, the client's `parser` and `streaming` being read off
`parser_state` and `flags`. A step of the client that does not call its parser is
`HttpClient`'s with the parser's variables unchanged; a call of the parser is a step
of both. In `Parses` a handler of `HttpParser` does a step, and the event it dispatches
(`pc'`) decides what is left to do on the client's stack (`Handled`, the cases of
`reactor_http_client_parser_event`); in `GoesOn` the parser goes on behind it.

What each module assumes of the other becomes a property here: `ImplementsClient`
(`HttpClient`'s parser may do what the real one does) and `ParserUsedAsAssumed`
(`HttpParser`'s owner calls it only where the client does).

### HttpServer

The same `stack`, each frame with the session it works for. Memory of a session is
`unused`, then `allocated`, then `freed`. Sessions are never reused, so that a use
of freed memory shows. `fields` counts the messages in a session's field vector.
The application may respond (which may find the stream failing), close sessions
and the server in any callback, and clear the fields of a request it was called
for. `stray` records that an open failed behind the opening of the timer, which then
stays open: nothing closes it, since `close` does nothing for a server that is CLOSED.

### PicoHttp, HttpWriter and HttpHeader

Here headers are sequences of characters. `PicoHttp` has the scanners of
picohttpparser, each an operator from a position to the next, or to `Malformed` or
`Incomplete`: token, version, number, value, line end, field lines with continuation
lines, the limit of `MaxFields`, and `is_complete`. `findchar_fast` compares `Block` characters at a
time with SSE 4.2 and none in the default build (`Makefile.am` sets no `-msse4.2`); what it
leaves is searched by code that compares signed characters, the blocks by unsigned
ones. `HttpWriter` has `reactor_http_request_send`,
`reactor_http_response_send`, the response's creation and the fields the server adds.
Names and literals are shortened ("Host" is `H t`, "HTTP/1." is `H .`), which changes
where a header may be cut but not which cuts there are.

`HttpHeader` sends such a text, whole or with one character replaced, in parts of every
length in `Steps`; each time the header is parsed again from its first character, either
with the length of the input of the time before (`fast`: a caller of `phr_parse_request` may
give it) or with 0, as `reactor_http_parser.c` does. When it is accepted the terminators are
written into the input (`Terminated`), and the strings, the two field lookups, the
comparison with "chunked" and `strtoul` read it as it is then.

### HttpUrl

`Ways` are all the ways the regular expression can match, `Longest` the one that
`regexec` reports. `SplitMatch` is `reactor_http_split_match`, one step for each part:
it writes a NUL behind the part, which is the first character of the next group's
delimiter, and returns where the part begins, or the default. `RequestRead` then makes
the client's request of the parts and reads it with `PicoHttp`.

### What is assumed of the libraries

The event loop, streams, TCP client and server and timers are modelled by what the
code needs of them: an object reports events only while it is open; opening it, or
writing to its stream, dispatches at most a stream's ERROR; closing it dispatches
CLOSE once, before the call returns or from the event loop later; an object whose
own event is being handled is not CLOSED before its handler has returned (sessions
rely on it when they free themselves); an object that is not closed cannot be
opened. DATA events show all unconsumed input, at any address. A TCP client stays
open while its stream is.

## 3. Runs

All runs finish in under two minutes.

| Run | Instance | Shows |
| --- | --- | --- |
| `parser_requests` | one keep-alive connection, 10 traffics | delivery, waiting, pipelining, the header's address |
| `parser_responses` | streaming and not, two connections in turn, 8 traffics | bounds and delivery, with stale sizes |
| `parser_returns` | as above, one connection, `FairSpec` | the recursion ends |
| `client` | 3 opens | the contract, agreement of the objects, ownership |
| `client_closes` | 2 opens, `FairSpec` | a close ends |
| `exchange` | 2 opens, 5 connections | client and parser are right about each other |
| `exchange_closes` | 1 open, 5 connections, `FairSpec` | a response is reported, a close ends |
| `server` | 2 opens, 2 sessions, 2 messages in a vector | agreement, one close each, memory |
| `server_closes` | 2 opens, 1 session, `FairSpec` | closes of server and sessions end |
| `header_requests` | 3 requests, every single damage, splits of 1, 2 and 5, no blocks | reading of headers |
| `header_responses` | 4 responses, the same, splits of 1 and 7, blocks of 4 | reading of headers |
| `url` | every URL of up to 5 characters of 5 kinds | splitting |

**Properties of the parser.**

* `TypeOK` (`parser_responses`): types, and that no `size_t` subtraction goes below zero.
* `BufferBounds`, `NoOverrun`, `ContentInBuffer` (`parser_responses`): the offsets the
  parser keeps lie within the input, between events and around callbacks; it consumes
  and moves no more than there is; the content shown at DONE begins behind the header
  and ends in the input, and that of a streamed message is empty at HEADER and at DONE
  (but for the first HEADER event of a parser that was used before).
* `ImplementsDelivery` (both): the messages told are those sent, as `MessageDelivery` says.
* `LineFollowsBuffer` (`parser_requests`): the header pointers shown with a message are
  where the header is now.
* `NoNeedlessWait` (`parser_requests`): after a DATA event the parser waits only for
  bytes that have not arrived.
* `PipelineKept` (`parser_requests`): between two messages, the messages told, the input
  that is left and what is still to arrive are together exactly what was sent.
* `HandlerReturns` (`parser_returns`): the handling of every event ends.

**Of the client:** `TypeOK`, `ImplementsContract`, `ObjectsAgree` (what it and its objects
are between events), `UrisFreed`, `ParserReady`, `ClosesOutsideHandlers` (no handler of
the stream or the parser finds the client CLOSED), `CloseCompletes`.

**Of client and parser together:** `ImplementsClient`, `ParserUsedAsAssumed`;
`ResponseIsOwn` (one response per connection, with the content of the first message
sent on this very connection, whatever was left of an earlier one);
`ResponseReported` (a response that has arrived to its last byte is reported without
another event, unless the client is closed before) and `CloseCompletes`, without any
assumption about the parser's progress.

**Of the server:** `TypeOK`, `ObjectsAgree`, `OneCloseEach`, `SessionsInMemory`,
`FieldsCleared`, `ServerCloseCompletes`, `SessionCloseCompletes`.

**Of headers:** `TypeOK`; `AnswerStands` (both runs: a header is accepted or refused for
what it is, not for how it was cut); `CompleteAnswered` (an undamaged header is
answered when its last character is there and not before, also by `is_complete`);
`ReadBack` (both: what is shown is what was written); `TerminatorsApart` (no terminator
cuts another string, whatever damaged header was accepted).

**Of URLs:** `TypeOK`; `PartsRead` (each part reads as its group matched); `NothingLost` (put
together the parts are the URL, up to what the expression cannot match);
`RequestRead` (the request made of the parts is read as one for them).

**Bounds and why they are enough.** Parser: a header of two bytes can be cut
before, in and behind; two messages show what one leaves to the next; two chunks of
different lengths show a move over a line and the second search; a body longer
than announced, trailer fields, a malformed header, a Content-Length that wraps and a
chunk size that wraps are the outsiders; two addresses show that input has moved; two
opens show stale numbers. `SizeMod` is larger than any connection. Client: the third
open shows a reopened client reopened. Exchange: a header of one byte, since its cuts
are `HttpParser`'s; two opens, with a second response, a chunked one, a body longer
than announced or a malformed header behind a closed connection; one open for
liveness, as only the safety properties relate two. Server: two sessions are enough for
one to be handled while another closes; one vector with two messages shows one left
over. Headers: the texts have every part a header can have, present and absent; one
damaged character reaches every scanner's failure at every position; parts of one
character cut everywhere, longer ones let `is_complete` skip; `MaxFields` of 2 is
exceeded by a damage that makes one line two, as well as reached exactly by the
client's request. URLs: five characters hold a host, a port and a path, or any two with a
query or one of them empty.

**Fairness.** Handlers that were entered go on and callbacks return (`WF`): it is one
thread, and no user is assumed to block. A close that the event loop has to
complete is completed (`SF`), whatever else the loop dispatches in between, since
epoll serves every descriptor. In the client alone, `ParseWaits` has `SF`: the assumed
parser may choose another chunk again and again, but its input is finite. In
`HttpExchange` this is not assumed but follows: its parser's steps have `WF` with the
rest of the thread. Nothing obliges a peer to send, a connection to be made, or a user
to open or close.

**Deadlock** is not checked: opens are bounded, and a system at rest has nothing it
must do. `ObjectsAgree` and `NoNeedlessWait` say when it may rest. A header or a URL
that was read is the end of its behaviour.

**What the code does not guarantee.** Where a property has a premise, the runs found
behaviours of the code outside it, and the premise names them:

* `SizeIsOwn`: a streaming parser opened behind a connection closed in the middle of a body
  keeps its `size`; a chunked response then has `final` consume by it, which may be more
  than there is (`corrupt`), in the client as well.
* `fits`, `ChunkSizeWraps`: numbers from the wire, or found through stale fields, near the
  largest `size_t`. When `n + content_size` wraps, the content may begin behind its end, and
  `final` may consume less than the header, which is then read again.
* `ContentInBuffer` leaves out the first HEADER event of a parser that was used before: line
  157 of `reactor_http_parser.c` sets the content by the offsets that an earlier exchange
  left, which may be a range beyond the input.
* `LineFollowsBuffer` leaves out the DONE event of a streamed message: the header was
  consumed, and the pointers of the message and its fields are moved by an offset that
  includes its length, to bytes that are not theirs.
* `sound`: see `HttpParser` above. Trailer fields are among it: `chunked_body` takes two of
  their bytes for the CR LF behind the last chunk.
* `reentrant`: a client opened in the CLOSE event of a nested `close` has its parser closed
  when the outer one continues at line 69.
* `stray`: an open of the server that fails at the TCP server leaves the timer open, and a
  server opened under it never becomes CLOSED.
* An accept that fails at `malloc` (`reactor_http_server.c:93-97`) leaves the accepted
  descriptor open; descriptors are not modelled.
* `UrisFreed` counts the URIs of failed opens, which nobody frees.
* A pipelined request that came together with the one before it waits for another DATA event
  (but nothing of it is lost: `PipelineKept`).
* `Corrupt`: for a continuation line, which has no name, `field_add_range` writes its
  terminator through NULL.
* `AnswerStands` leaves out characters with the top bit in names when `Block` is not 0:
  whether such a name is accepted depends on where a block ends.
* `NothingLost`: a query or a fragment directly behind the host, and a port that is empty,
  have the path left out; a query behind a path stays with it. The default host is never
  used, since its group takes part in every match.
* `RequestRead` leaves out URLs with a space or a control, which go into the request line as
  they are. `reactor_http_request_send` writes the host without the port, and neither
  content nor Content-Length, whatever content the client was opened with.
* `strtoul` reads a Content-Length with a leading 0 as octal; the message of a response gets
  no terminator.

The repository's documentation promises nothing about these, so none is listed as a
disagreement.

## 4. Theorems

Proved by TLAPS for every value of the constants, from the named assumptions
(of the parser: `HdrLen` at least 1, `SizeMod` larger, traffic made of bytes of its
messages that carries them (`Carries`), streaming parsers opened for responses only; of
the exchange the same, its parser being opened for responses; of client and server:
their bounds are numbers; of headers: what is sent, and what damages it, are characters
other than NUL, and at least one arrives at a time; of the URLs: they are C strings, and the parser takes at least
the two fields of the client's request).

### The parser

`HttpParserProofs`: `TypeCorrect`, `BufferSafe`, `ContentSafe`, `OverrunFree` and
`LineSafe` say that `TypeOK`, `BufferBounds`, `ContentInBuffer`, `NoOverrun` and
`LineFollowsBuffer` hold always.

*The argument.* None of the first four is inductive alone. A subtraction stays above
zero (`TypeOK`) because what is subtracted was in the buffer when the callback began
(`TakeInBuffer`) and the callback changed nothing but the parser's state and the
fields; what is in the buffer when `final` consumes it (`NoOverrun`) follows from
what the body handlers established in FINAL; and for chunked bodies from the order
`content_begin <= content_end <= chunk_begin <= Len(data)` (`ChunksInBuffer`), which
the decoding in place preserves. `BufferBounds` contains what links a callback to
the state its handler was in (`CallMatchesState`) and what a streaming parser has
left to consume (`NothingPending`). Their conjunction `IInv` is inductive: first
the types, then the bounds, one lemma per action. `LineFollowsBuffer` needs in
addition that, from the header to the DONE event, the text is at `base`
(`LineAtBase`), and is proved on top of `IInv`. So is `ContentSafe`: `IInv` knows where the
content ends (`ContentInside`), and `ShownInv` who set the offsets last, in each of the
parser's states. A streaming parser that was opened once, or has told a message or begun a body,
has both at 0 (`StreamedOffsets`); one that does not stream has the first at the end of the
header (`WholeOffsets`).

`HttpDeliveryProofs`: `DeliveryKept` says that `HttpParser` implements `MessageDelivery`,
`WaitsOnlyIfNeeded` and `PipelineSafe` that `NoNeedlessWait` and `PipelineKept` hold
always, for every traffic, every split of it and everything the owner does.

*The argument.* `IInv` knows nothing of which bytes are in the input. `DInv` does: the
unread input and what is in flight are the traffic's bytes from some place `p` on
(`Placed`), and as long as parser and peer are in step the place is the one the parser's
state says (`InPlace`): the beginning of the next message, or so far into the body as
`size`, `take`, `chunk_begin` and the content tell (`LengthKept`, `ChunksKept`,
`WholeKept`). In a chunked body that is a number of whole chunks, of which the sizes before
are summed (`SizeBefore`), and for one that is not streamed the content moved down so far is
what follows the header in `data` (`Decoded`). In step or not, as long
as `fits` the headers that can still be found are of later messages than those told
(`HeadRead`, `Ordered`). `NoNeedlessWait` follows
since a place before the end of a message leaves bytes of it in flight; `PipelineKept` from
the place alone; and for the refinement every step is mapped to one of `MessageDelivery` or
shows nothing (`NextShows`): a header begins a message, a chunk or a part grows it,
`Final` tells it, and `FinalReturns` alone may lose the place.

`HttpParserProofs` has what that needs of the bytes: where header, body and chunks of each
message are in `Encode(sent)` (`Offset`, `ChunkOffset`). `Encode` and `SizeBefore` are
recursive functions; what they are for every input is shown by induction over the natural
numbers, stated of sets (`NatSetInduction`, from the well-foundedness of `<`), since the
library's theorems with an operator as a parameter are out of the provers' reach.

### The client

`HttpClientProofs`: `ClientTypes`, `UrisOwned`, `ObjectsConsistent`, `ParserOpen` and
`ClosedUnhandled` say that `TypeOK`, `UrisFreed`, `ObjectsAgree`, `ParserReady` and
`ClosesOutsideHandlers` hold always, for every number of opens (`MaxOpens`).

*The argument.* `ObjectsAgree` speaks of moments when no call is in progress, and
none of the properties says what calls in progress still have to do. `IInv` does:
under a closing client with an open stream, `close_stream` is on the stack, and as
long as neither object has a CLOSE event to come, some call of `close` is (`Agree`);
the handler of an event is the outermost call, and the parser runs only in one of
the stream's, during which the stream does not become CLOSED (`Handled`); while the
client is connecting or connected no earlier `close` has the parser before it, except
if it was opened within (`Ready`). The lemma `Calls` says what a step does to the
set of frames on the stack, so that the lemmas about the actions need no sequences.

There too, `ContractKept` says that `HttpClient` implements
`ExchangeContract`, under the identity on `seen`.

*The argument.* On top of `IInv`, `CInv` ties what the user was told to what is left to
do: CLOSE was reported just when the client is closed (`ToldClosed`); behind an
outcome a close is on the stack or has begun, and the parser does not parse on
(`Outcomes`); CHUNK needs a parser in BODY, which a streaming one reaches behind
HEADER only, and a parser that expects a header has reported nothing (`Streamed`).
The last needs that no two handlers of the parser are on the stack together: the
parser's is right above the outermost frame (`Inner`). Every action's lemma then
proves `CInv'` and that the step is one of the contract's or changes nothing of
`seen`.

### Client and parser

`HttpExchangeProofs`: `ParserRefined` and `OwnerAsAssumed` say that `ImplementsClient` and
`ParserUsedAsAssumed` hold; `ParserIsHttpParser` that the parser in the client is
`HttpParser`; and from these follow, for the two together, the contract with the user
(`ExchangesKept`) and what is proved of the parser's offsets and of the content it shows
(`ParserSafe`). `ResponseSafe` says that
`ResponseIsOwn` holds always.

*The argument.* A step of `HttpExchange` is a step of `HttpParser` by its definition,
and one of `HttpClient` by cases over what the handler dispatches and the state it goes
to; the assumed parser of `HttpClient` may do each of them if the real one expects
responses, which every open sees to (`Mode`), and if the client's own invariant holds,
which is therefore proved along. `OwnerAsAssumed` needs that the parser's call in
progress (`pc`) is the one left to do on the client's stack (`Link`): under it there is
the end of the stream's handler and nothing else (`ParserAlone`), so that a call that
returns leaves none, and a CLOSED client, which has no handler of the stream in
progress, has an idle parser. The theorems about each module are used
through instances of their proof modules, whose definitions are shown to be the same
(`SameParser`, `SameClient`).

`ResponseSafe` puts the contract and the delivery together. The client has no more parsing
left to do behind a RESPONSE (`Outcomes` of the contract's invariant), and a message was told
to it just when a RESPONSE was reported (`ReportTied`); so while its parser runs nothing was
told (`NothingTold`), the parser is in step with its peer, and all that `MessageDelivery`
allows it is to receive message 1 (`FirstOnly`).

### The server

`HttpServerProofs`: `ServerTypes`, `ClosesOnce`, `ServerAgrees`, `SessionsSafe` and
`FieldsGone` say that `TypeOK`, `OneCloseEach`, `ObjectsAgree`, `SessionsInMemory` and
`FieldsCleared` hold always, for every number of sessions, opens and fields.

*The argument.* `SessionsInMemory` fails if a stream reports CLOSE with work for its
session still on the stack; it does not do so in its own event, and so what is left to
do for a session must stand above the end of the handler of its stream. The
exception is a call of `session_close` by the application, which is the innermost
call. That is `Shape`, which also has the parser on top only (so that a session whose
parser runs has an open stream, `Parses`, and collects no fields behind its close) and
the call that closes the timer at most one CLOSE event away from the top. `Agree` is
`ObjectsAgree` with the calls of `close` in progress: a closing server with an open
timer has that call on the stack, or a stray timer. The lemmas `ShapeKept` and `Steps`
carry the order over any call that goes on with few frames.

### Headers

`PicoHttpProofs` is about the scanners, for inputs of any length. Each is compared with
itself on an input that goes on behind this one (`Reads`): if it goes to a position, or finds
a wrong character, it does the same there; and if it asks for more input, it asks there too,
or goes to a position behind this input, or finds a wrong character; and it has stepped over
no CR without an LF (`Clean`). Scanner by scanner, and by induction over the lines of `Headers`, this
gives `WholeReads`: a complete header, or a malformed one, is not read differently when more
arrives, and `WholeStays`: nor does it have other fields, or another method and path. Along the
way come where the ranges are: in their lines, the value behind the name,
the lines in order (`Apart`, `WholeApart`, `RequestLineApart`). `SearchAgrees` is about
`is_complete`, which looks from three characters before the end of the input of the time
before: when it finds no end of the header, the scanners do not read it whole either, and
when it refuses it, so do they.

`HttpHeaderProofs`: `TypeCorrect`, `AnswersStand` and `TerminatorsStandApart` say that
`TypeOK`, `AnswerStands` and `TerminatorsApart` hold for everything that is sent, every
damage to it, every split, and both ways of calling the parser.

*The argument.* `AnswerStands` is not inductive, since it says nothing while more input is
awaited. `IInv` relates the answer to what reading all that has arrived, from its first
character, answers: a header that was accepted reads the same (`Answered`), one that was refused
reads as malformed, and one that is awaited does not read whole (`Stands`). It need not read
as incomplete: the search does not see a wrong character before the header's end is there.
`WholeReads` carries the answer to the whole text, for texts without characters that the two
searches of `findchar_fast` tell apart (`Plain`), which is the property's premise. A
terminator is behind its range and in no other (`FieldEndsApart`), so that the first NUL from
a range's beginning is its own.

`SplitIsUnseen` says of what is shown what `AnswersStand` says of the answer: it is what all of
the text would have been shown as (but for the message of a response, which has no terminator),
by `WholeStays` and because each string is its range. So whether a header is read right in pieces
is a matter of reading it in one piece: `AnsweredInTime` proves `CompleteAnswered` if `Parse`
answers each text of `Sent`, given whole, with its length (`Answers`), and `ShownAsWritten` proves
`ReadBack` if `Accepted` shows it as what was written (`Shows`). Both are hypotheses of these
theorems about the constant `Sent`, and hold of the texts of both runs: what the runs check of
`ReadBack`, `SplitIsUnseen` makes a statement about the whole text, as `AnswersStand` does of
`CompleteAnswered`. They are no assumptions of `HttpHeader`: a text that is read wrong is an
instance of it too.

### URLs

`HttpUrlProofs`: `UrlTypes`, `PartsApart`, `NothingIsLost` and `RequestIsRight` say that
`TypeOK`, `PartsRead`, `NothingLost` and `RequestRead` hold for every set of URLs.

*The argument.* The groups of a match follow each other with a character between them
(`Ordered`), the copy differs from the URL exactly at the ends of the parts split so
far (`Written`), and so the first NUL from a part's beginning is its own. `NothingIsLost`
needs that the match is a longest one (`Matched`): each group begins where its separator is
(`Separated`), and behind the end of the longest match no group could have gone on
(`LongestEnds`), which leaves a query, a fragment or an empty port. `RequestIsRight` lays the
request out position by position (`RequestIsLaid`: each `\o` of the writer puts its second
operand behind its first, `JoinedAt`) and follows the scanners along it (`RequestIsRead`), where
the first character that stops one is what the writer put behind the part, since neither host
nor path has such a character.

**Only model-checked:** that the texts of the runs' `Sent` are read right in one piece, which
`CompleteAnswered` and `ReadBack` of `HttpHeader` come down to (for the requests of the client,
`RequestIsRight` proves it of host and path); and all liveness, as fairness and `ENABLED` are
beyond the prover.

## 5. Not modelled

* `phr_parse_headers` and `phr_decode_chunked`, which nothing that is built calls; the values
  of the numbers picohttpparser reads, which the library does not use.
* The text of the Date field; the names of statuses beyond two;
  `reactor_http_server_session_peer`, a query; how the stream buffers and flushes what is
  written to it.
* A failing allocator in the regular expression's functions, for which the code tests
  one result only.
* The release of a server by its application while sessions are open: the server does
  not know its sessions, and the order is the application's.
* The files that are not built: `reactor_http_response.c`, `reactor_http_response.h`,
  `reactor_http_request.c`, `reactor_http_request.h`.
* The libraries, except as the code uses them.

## 6. Plan

The parser, the client, the server, the two abstract specifications, the composition
of client and parser, the reading and writing of headers and the splitting of URLs are
done, with the theorems above.

What a later extension would add, in this order:

1. A session of the server over the real parser, as `HttpExchange` is the client's, with
   the fields that a request behind another finds.
2. Theorems about what is read, in one piece, of the texts that are written with any number of
   fields (`Answers` and `Shows` of `HttpHeaderProofs`), as `RequestIsRight` is for two.
