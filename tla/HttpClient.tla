------------------------------ MODULE HttpClient ------------------------------
(***************************************************************************)
(* The HTTP client, reactor_http_client.c, between its user and the three  *)
(* objects it owns: the TCP client, the stream and the parser.             *)
(*                                                                         *)
(* Everything runs in one thread, but calls nest: closing the TCP client   *)
(* or the stream may dispatch their CLOSE event at once, which enters      *)
(* reactor_http_client_close again; a callback of the user may close the   *)
(* client or open it anew.  stack holds what is left to do of the calls in *)
(* progress, the innermost first, and a step does the head of it.  When it *)
(* is empty the event loop may dispatch the next event.                    *)
(*                                                                         *)
(* Of the parser only its state and the events it may dispatch are kept:   *)
(* HttpParser has the rest.                                                *)
(***************************************************************************)
EXTENDS Integers, Sequences

CONSTANT MaxOpens  \* bound on the calls of reactor_http_client_open

ASSUME MaxOpensAssumption == MaxOpens \in Nat

VARIABLES
  state,      \* client->state
  tcp_client, \* client->tcp_client.state
  stream,     \* client->stream.state
  parser,     \* client->parser.state; BODY stands for CHUNKED_BODY as well
  streaming,  \* whether client->parser.flags has STREAM
  stack       \* what is left to do of the calls in progress

\* History: the exchange as the user sees it (ExchangeContract); the copies of
\* a URI not yet freed; the opens that failed having made one; all opens; and
\* whether the client was opened while a close of it was in progress.
VARIABLES seen, uris, failed, opens, reentrant

objects == <<tcp_client, stream>>
history == <<uris, failed, opens, reentrant>>
vars == <<state, objects, parser, streaming, stack, seen, history>>

States == {"CLOSED", "CONNECTING", "CONNECTED", "CLOSING"}
ObjectStates == {"CLOSED", "OPEN", "CLOSING"}
ParserStates == {"CLOSED", "RESPONSE_HEADER", "BODY", "FINAL"}

\* "user": a callback of the user runs.  "close", "close_stream",
\* "close_parser", "finish": reactor_http_client_close from its first line,
\* from the call on the stream, from the call on the parser, from its last
\* condition.  "parse": reactor_http_parser_data.  "after_*": the parser's
\* handler behind its dispatch.  "in_tcp", "in_stream": the end of an event
\* handler of that object.
CloseFrames == {"close", "close_stream", "close_parser", "finish"}
ParserFrames == {"parse", "after_header", "after_chunk", "after_done"}
Frames == {"user", "in_tcp", "in_stream"} \cup CloseFrames \cup ParserFrames

OnStack(frames) == \E i \in DOMAIN stack : stack[i] \in frames

\* The innermost call is at frame, and goes on with todo.
At(frame) == stack # <<>> /\ Head(stack) = frame
Continue(todo) == stack' = todo \o Tail(stack)
Return == Continue(<<>>)

\* The event loop dispatches an event, handled by todo.
Dispatch(todo) == stack = <<>> /\ stack' = todo

\* reactor_user_dispatch(&client->user, event, ...): the callback itself is the
\* frame "user".
Contract == INSTANCE ExchangeContract
Report(event) == seen' = Contract!Record(event)

Init ==
  /\ state = "CLOSED" /\ tcp_client = "CLOSED" /\ stream = "CLOSED"
  /\ parser = "CLOSED" /\ streaming = FALSE /\ stack = <<>>
  /\ seen = <<"CLOSE">> /\ uris = 0 /\ failed = 0 /\ opens = 0 /\ reentrant = FALSE

-------------------------------------------------------------------------------
(***************************************************************************)
(* The user, from the event loop or from a callback                        *)
(***************************************************************************)
UserRuns == stack = <<>> \/ At("user")

\* Mutant: the parser is left as the last exchange left it.
OpenWithoutParser(fl) ==
  /\ UserRuns /\ state = "CLOSED" /\ opens < MaxOpens
  /\ tcp_client = "CLOSED"
  /\ state' = "CONNECTING" /\ tcp_client' = "OPEN"
  /\ streaming' = fl
  /\ uris' = uris + 1 /\ opens' = opens + 1
  /\ reentrant' = OnStack(CloseFrames)
  /\ seen' = <<>>
  /\ UNCHANGED <<stream, parser, stack, failed>>

\* An open that succeeds.  The request is built and the parser opened before
\* the TCP client is.
OpenSucceeds(fl) ==
  /\ UserRuns /\ state = "CLOSED" /\ opens < MaxOpens
  /\ tcp_client = "CLOSED"
  /\ state' = "CONNECTING" /\ tcp_client' = "OPEN"
  /\ parser' = "RESPONSE_HEADER" /\ streaming' = fl
  /\ uris' = uris + 1 /\ opens' = opens + 1
  /\ reentrant' = OnStack(CloseFrames)
  /\ seen' = <<>>
  /\ UNCHANGED <<stream, stack, failed>>

\* An open that fails with a URI that does not match, or behind the opening of
\* the parser because the TCP client cannot be opened.
OpenFails(fl) ==
  /\ UserRuns /\ state = "CLOSED" /\ opens < MaxOpens
  /\ uris' = uris + 1 /\ opens' = opens + 1 /\ failed' = failed + 1
  /\ \/ UNCHANGED <<parser, streaming>>
     \/ parser' = "RESPONSE_HEADER" /\ streaming' = fl
  /\ UNCHANGED <<state, objects, stack, seen, reentrant>>

\* The user closes the client: from the event loop, or as the last thing a
\* callback does.
UserCloses ==
  /\ UserRuns /\ state # "CLOSED"
  /\ stack' = IF stack = <<>> THEN <<"close">> ELSE <<"close">> \o Tail(stack)
  /\ UNCHANGED <<state, objects, parser, streaming, seen, history>>

UserReturns ==
  /\ At("user") /\ Return
  /\ UNCHANGED <<state, objects, parser, streaming, seen, history>>

-------------------------------------------------------------------------------
(***************************************************************************)
(* reactor_http_client_close                                               *)
(***************************************************************************)
\* Closing an object dispatches its CLOSE event at once, handled by a call of
\* reactor_http_client_close, or leaves that to the event loop; an object whose
\* own event is being handled does the latter.
CloseAtOnce(marker, rest) == ~OnStack({marker}) /\ Continue(<<"close", rest>>)

CloseEnter ==
  /\ At("close")
  /\ \/ state = "CLOSED" /\ Return /\ UNCHANGED <<state, tcp_client>>
     \/ state = "CLOSING" /\ Continue(<<"finish">>) /\ UNCHANGED <<state, tcp_client>>
     \/ /\ state \in {"CONNECTING", "CONNECTED"} /\ state' = "CLOSING"
        /\ \/ tcp_client' = "CLOSED" /\ CloseAtOnce("in_tcp", "close_stream")
           \/ tcp_client' = "CLOSING" /\ Continue(<<"close_stream">>)
  /\ UNCHANGED <<stream, parser, streaming, seen, history>>

\* Mutant: the stream is not closed.
CloseStreamForgotten ==
  /\ At("close_stream") /\ Continue(<<"close_parser">>)
  /\ UNCHANGED <<state, objects, parser, streaming, seen, history>>

CloseStream ==
  /\ At("close_stream")
  /\ \/ stream = "OPEN" /\ stream' = "CLOSED" /\ CloseAtOnce("in_stream", "close_parser")
     \/ stream = "OPEN" /\ stream' = "CLOSING" /\ Continue(<<"close_parser">>)
     \/ stream # "OPEN" /\ Continue(<<"close_parser">>) /\ UNCHANGED stream
  /\ UNCHANGED <<state, tcp_client, parser, streaming, seen, history>>

CloseParser ==
  /\ At("close_parser") /\ Continue(<<"finish">>)
  /\ parser' = "CLOSED"
  /\ UNCHANGED <<state, objects, streaming, seen, history>>

\* Mutants: a part of the condition is missing.
CanFinishAgain == tcp_client = "CLOSED" /\ stream = "CLOSED"
CanFinishBeforeTcp == state # "CLOSED" /\ stream = "CLOSED"
CanFinishBeforeStream == state # "CLOSED" /\ tcp_client = "CLOSED"

\* The last condition of reactor_http_client_close.
CanFinish == state # "CLOSED" /\ tcp_client = "CLOSED" /\ stream = "CLOSED"

Finish ==
  /\ At("finish")
  /\ IF CanFinish
     THEN /\ state' = "CLOSED" /\ uris' = uris - 1 /\ Report("CLOSE")
          /\ Continue(<<"user">>)
     ELSE Return /\ UNCHANGED <<state, uris, seen>>
  /\ UNCHANGED <<objects, parser, streaming, failed, opens, reentrant>>

-------------------------------------------------------------------------------
(***************************************************************************)
(* Events of the TCP client and of the stream                              *)
(***************************************************************************)
\* The connection cannot be made.
TcpError ==
  /\ tcp_client = "OPEN" /\ stream = "CLOSED"
  /\ Dispatch(<<"user", "close", "in_tcp">>)
  /\ Report("ERROR")
  /\ UNCHANGED <<state, objects, parser, streaming, history>>

\* The connection is made: the TCP client has opened the stream, and the client
\* sends its request, which may find that the stream fails.
StreamConnect ==
  /\ tcp_client = "OPEN" /\ stream = "CLOSED" /\ stream' = "OPEN"
  /\ state' = "CONNECTED"
  /\ \/ Dispatch(<<"in_stream">>) /\ UNCHANGED seen
     \/ Dispatch(<<"user", "close", "in_stream">>) /\ Report("ERROR")
  /\ UNCHANGED <<tcp_client, parser, streaming, history>>

StreamData ==
  /\ stream = "OPEN" /\ Dispatch(<<"parse", "in_stream">>)
  /\ UNCHANGED <<state, objects, parser, streaming, seen, history>>

\* reactor_http_client_error reports only while connected.
StreamError ==
  /\ stream = "OPEN"
  /\ IF state = "CONNECTED"
     THEN Dispatch(<<"user", "close", "in_stream">>) /\ Report("ERROR")
     ELSE Dispatch(<<"close", "in_stream">>) /\ UNCHANGED seen
  /\ UNCHANGED <<state, objects, parser, streaming, history>>

\* The peer has ended the stream, or an event the client does not know.
StreamEnd ==
  /\ stream = "OPEN" /\ Dispatch(<<"close", "in_stream">>)
  /\ UNCHANGED <<state, objects, parser, streaming, seen, history>>

\* The event loop completes a close that did not complete at once.
TcpClosed ==
  /\ tcp_client = "CLOSING" /\ tcp_client' = "CLOSED" /\ Dispatch(<<"close">>)
  /\ UNCHANGED <<state, stream, parser, streaming, seen, history>>

StreamClosed ==
  /\ stream = "CLOSING" /\ stream' = "CLOSED" /\ Dispatch(<<"close">>)
  /\ UNCHANGED <<state, tcp_client, parser, streaming, seen, history>>

\* An event handler is done.
HandlerEnds ==
  /\ At("in_tcp") \/ At("in_stream")
  /\ Return
  /\ UNCHANGED <<state, objects, parser, streaming, seen, history>>

-------------------------------------------------------------------------------
(***************************************************************************)
(* The parser and reactor_http_client_parser_event                         *)
(***************************************************************************)
\* The parser needs more input, or is closed.
ParseWaits ==
  /\ At("parse") /\ parser # "FINAL" /\ Return
  /\ UNCHANGED <<state, objects, parser, streaming, seen, history>>

ParseError ==
  /\ At("parse") /\ parser = "RESPONSE_HEADER"
  /\ Continue(<<"user", "close">>) /\ Report("ERROR")
  /\ UNCHANGED <<state, objects, parser, streaming, history>>

ParseHeader ==
  /\ At("parse") /\ parser = "RESPONSE_HEADER"
  /\ IF streaming
     THEN Continue(<<"user", "after_header">>) /\ Report("HEADER") /\ UNCHANGED parser
     ELSE Continue(<<"parse">>) /\ parser' = "BODY" /\ UNCHANGED seen
  /\ UNCHANGED <<state, objects, streaming, history>>

AfterHeader ==
  /\ At("after_header") /\ Continue(<<"parse">>)
  /\ parser' = "BODY"
  /\ UNCHANGED <<state, objects, streaming, seen, history>>

\* The body is complete, and none of it is left for the user to see.
ParseBody ==
  /\ At("parse") /\ parser = "BODY" /\ Continue(<<"parse">>)
  /\ parser' = "FINAL"
  /\ UNCHANGED <<state, objects, streaming, seen, history>>

ParseChunk ==
  /\ At("parse") /\ parser = "BODY" /\ streaming
  /\ Continue(<<"user", "after_chunk">>)
  /\ Report("CHUNK")
  /\ UNCHANGED <<state, objects, parser, streaming, history>>

\* Behind a CHUNK: the body waits for more, or is over and the state is set
\* whatever the user did, or the next chunk is looked for.
AfterChunk ==
  /\ At("after_chunk")
  /\ \/ Return /\ UNCHANGED parser
     \/ Continue(<<"parse">>) /\ parser' \in {parser, "FINAL"}
  /\ UNCHANGED <<state, objects, streaming, seen, history>>

ParseFinal ==
  /\ At("parse") /\ parser = "FINAL"
  /\ Continue(<<"user", "close", "after_done">>) /\ Report("RESPONSE")
  /\ UNCHANGED <<state, objects, parser, streaming, history>>

AfterDone ==
  /\ At("after_done") /\ Return
  /\ parser' = "RESPONSE_HEADER"
  /\ UNCHANGED <<state, objects, streaming, seen, history>>
-------------------------------------------------------------------------------
User == UserCloses \/ UserReturns \/ \E fl \in BOOLEAN : OpenSucceeds(fl) \/ OpenFails(fl)

Closing == CloseEnter \/ CloseStream \/ CloseParser \/ Finish

Network == TcpError \/ StreamConnect \/ StreamData \/ StreamError \/ StreamEnd

Closed == TcpClosed \/ StreamClosed

Parser ==
  \/ ParseWaits \/ ParseError \/ ParseHeader \/ AfterHeader \/ ParseBody
  \/ ParseChunk \/ AfterChunk \/ ParseFinal \/ AfterDone

Next == User \/ Closing \/ Network \/ Closed \/ Parser \/ HandlerEnds

Spec == Init /\ [][Next]_vars

\* A call in progress goes on and the user's callbacks return; the parser comes
\* to the end of its input, which is finite (HandlerReturns of HttpParser); and
\* the event loop completes the closes it has begun, whatever else it dispatches
\* meanwhile.  Nothing obliges the user to open or close, or the network to answer.
FairSpec ==
  /\ Spec
  /\ WF_vars(Closing) /\ WF_vars(HandlerEnds) /\ WF_vars(UserReturns)
  /\ SF_vars(ParseWaits) /\ WF_vars(AfterHeader \/ AfterChunk \/ ParseFinal \/ AfterDone)
  /\ SF_vars(Closed)

-------------------------------------------------------------------------------
(***************************************************************************)
(* Properties                                                              *)
(***************************************************************************)
\* Every variable has its type, and no URI is freed that nobody made.
TypeOK ==
  /\ state \in States /\ tcp_client \in ObjectStates /\ stream \in ObjectStates
  /\ parser \in ParserStates /\ streaming \in BOOLEAN
  /\ stack \in Seq(Frames)
  /\ seen \in Seq(Contract!Events)
  /\ uris \in Nat /\ failed \in 0..opens /\ opens \in 0..MaxOpens
  /\ reentrant \in BOOLEAN

\* The user of the client sees the exchanges ExchangeContract describes: no
\* event before an open or after CLOSE, one outcome, one CLOSE.
ImplementsContract == Contract!Spec

\* Between two events of the event loop the client and its objects agree: a
\* closed client has closed its connection, a client that is closing has a
\* CLOSE event to come and nothing left open, and a client that is connected
\* or connecting has what it needs to go on.
ObjectsAgree ==
  stack = <<>> =>
    /\ state = "CLOSED"     => tcp_client = "CLOSED" /\ stream = "CLOSED"
    /\ state = "CONNECTING" => tcp_client = "OPEN" /\ stream = "CLOSED"
    /\ state = "CONNECTED"  => tcp_client = "OPEN" /\ stream = "OPEN"
    /\ state = "CLOSING"    => /\ tcp_client # "OPEN" /\ stream # "OPEN"
                              /\ "CLOSING" \in {tcp_client, stream}

\* Every copy of a URI is freed exactly once, by the close that ends its
\* exchange, but for those of failed opens, which nobody frees.
UrisFreed == uris = failed + (IF state = "CLOSED" THEN 0 ELSE 1)

\* While a connection is made or open the parser is ready for its data, unless
\* the user opened the client from a CLOSE event inside another close, which
\* closes the parser as it unwinds.
ParserReady ==
  state \in {"CONNECTING", "CONNECTED"} /\ ~reentrant => parser # "CLOSED"

\* The user sees CLOSE only when no handler of the stream or of the parser is
\* in progress, so that none of them finds the client gone.
ClosesOutsideHandlers == state = "CLOSED" => ~OnStack(ParserFrames \cup {"in_stream"})

\* A close that has begun ends.
CloseCompletes == (state = "CLOSING") ~> (state = "CLOSED")
===============================================================================
