------------------------------ MODULE HttpServer ------------------------------
(***************************************************************************)
(* The HTTP server and its sessions, reactor_http_server.c, between the    *)
(* application and the objects of the reactor: the server's TCP server and *)
(* date timer, and the stream of every session.                            *)
(*                                                                         *)
(* As in HttpClient, calls nest in one thread: stack holds what is left to *)
(* do of the calls in progress, the innermost first, each with the session *)
(* it works for (0 for none); with an empty stack the event loop may       *)
(* dispatch an event.                                                      *)
(*                                                                         *)
(* A session is one allocation, made when a connection is accepted and     *)
(* freed when its stream reports CLOSE.  Of its parser the state and the   *)
(* events are kept (HttpParser has the rest), of its request the number of *)
(* messages whose header fields are in the vector.                         *)
(***************************************************************************)
EXTENDS Integers, Sequences

CONSTANTS
  MaxSessions,  \* bound on the sessions ever allocated
  MaxOpens,     \* bound on the calls of reactor_http_server_open
  MaxFields     \* bound on the messages whose fields one vector collects

ASSUME MaxSessionsAssumption == MaxSessions \in Nat
ASSUME MaxOpensAssumption == MaxOpens \in Nat
ASSUME MaxFieldsAssumption == MaxFields \in Nat \ {0}

Sessions == 1..MaxSessions

VARIABLES
  state,       \* server->state
  tcp_server,  \* server->tcp_server.state
  date_timer,  \* server->date_timer.state
  memory,      \* per session: "unused", "allocated" or "freed"
  stream,      \* per session: session->stream.state
  parser,      \* per session: session->parser.state; BODY stands for CHUNKED_BODY as well
  fields,      \* per session: messages whose fields are in session->request.fields
  stack        \* what is left to do of the calls in progress

\* History: the opens; those that succeeded; the CLOSE events of the server; and
\* whether an open failed behind the opening of the timer.
VARIABLES opens, listened, closes, stray

serverVars == <<state, tcp_server, date_timer>>
sessionVars == <<memory, stream, parser, fields>>
history == <<opens, listened, closes, stray>>
vars == <<serverVars, sessionVars, stack, history>>

States == {"CLOSED", "LISTENING", "CLOSING"}
ObjectStates == {"CLOSED", "OPEN", "CLOSING"}
ParserStates == {"CLOSED", "REQUEST_HEADER", "BODY", "FINAL"}

\* "user": a callback of the application runs.  "close", "close_timer",
\* "finish": reactor_http_server_close from its first line, from the call on the
\* timer, from its last condition.  "session_close", "report_error": a call of
\* reactor_http_server_session_close, a dispatch through session->server.
\* "parse", "after_done": reactor_http_parser_data, and behind its DONE.
\* "in_tcp", "in_stream": the end of an event handler of that object.  (The
\* timer's TIMEOUT rewrites server->date and calls nobody.)
ServerFrames == {"user", "close", "close_timer", "finish", "in_tcp"}
SessionFrames == {"session_close", "report_error", "parse", "after_done", "in_stream"}

Frame(at, s) == [at |-> at, s |-> s]
Frames == {Frame(at, 0) : at \in ServerFrames} \cup {Frame(at, s) : at \in SessionFrames, s \in Sessions}

User == Frame("user", 0)

OnStack(frame) == \E i \in DOMAIN stack : stack[i] = frame

\* The innermost call is at frame, and goes on with todo.
At(frame) == stack # <<>> /\ Head(stack) = frame
Continue(todo) == stack' = todo \o Tail(stack)
Return == Continue(<<>>)

\* The event loop dispatches an event, handled by todo.
Dispatch(todo) == stack = <<>> /\ stack' = todo

Init ==
  /\ state = "CLOSED" /\ tcp_server = "CLOSED" /\ date_timer = "CLOSED"
  /\ memory = [s \in Sessions |-> "unused"] /\ stream = [s \in Sessions |-> "CLOSED"]
  /\ parser = [s \in Sessions |-> "CLOSED"] /\ fields = [s \in Sessions |-> 0]
  /\ stack = <<>>
  /\ opens = 0 /\ listened = 0 /\ closes = 0 /\ stray = FALSE

-------------------------------------------------------------------------------
(***************************************************************************)
(* The application, from the event loop or as the last thing of a callback *)
(***************************************************************************)
UserRuns == stack = <<>> \/ At(User)

UserCalls(frames) ==
  IF stack = <<>> THEN stack' = frames ELSE At(User) /\ Continue(frames)

\* reactor_http_server_open: the timer, then the TCP server, either of which
\* cannot be opened unless it is closed, and may fail if it is.
OpenSucceeds ==
  /\ UserRuns /\ opens < MaxOpens
  /\ date_timer = "CLOSED" /\ date_timer' = "OPEN"
  /\ tcp_server = "CLOSED" /\ tcp_server' = "OPEN"
  /\ state' = "LISTENING"
  /\ opens' = opens + 1 /\ listened' = listened + 1
  /\ UNCHANGED <<sessionVars, stack, closes, stray>>

OpenFailsAtTimer ==
  /\ UserRuns /\ opens < MaxOpens
  /\ opens' = opens + 1
  /\ UNCHANGED <<serverVars, sessionVars, stack, listened, closes, stray>>

OpenFailsAtTcp ==
  /\ UserRuns /\ opens < MaxOpens
  /\ date_timer = "CLOSED" /\ date_timer' = "OPEN"
  /\ opens' = opens + 1 /\ stray' = TRUE
  /\ UNCHANGED <<state, tcp_server, sessionVars, stack, listened, closes>>

UserClosesServer ==
  /\ state # "CLOSED" /\ UserCalls(<<Frame("close", 0)>>)
  /\ UNCHANGED <<serverVars, sessionVars, history>>

UserClosesSession(s) ==
  /\ memory[s] = "allocated" /\ UserCalls(<<Frame("session_close", s)>>)
  /\ UNCHANGED <<serverVars, sessionVars, history>>

\* A response to a session changes nothing but the stream's output, unless the
\* stream fails and reports it at once.
UserResponds(s) ==
  /\ memory[s] = "allocated" /\ stream[s] = "OPEN"
  /\ UserCalls(<<Frame("session_close", s), Frame("report_error", s), Frame("in_stream", s)>>)
  /\ UNCHANGED <<serverVars, sessionVars, history>>

\* The application is done with the request of a session it was called for.
UserClearsFields(s) ==
  /\ At(User) /\ Len(stack) > 1 /\ stack[2] = Frame("after_done", s)
  /\ fields[s] # 0 /\ fields' = [fields EXCEPT ![s] = 0]
  /\ UNCHANGED <<serverVars, memory, stream, parser, stack, history>>

UserReturns ==
  /\ At(User) /\ Return
  /\ UNCHANGED <<serverVars, sessionVars, history>>

-------------------------------------------------------------------------------
(***************************************************************************)
(* reactor_http_server_close                                               *)
(***************************************************************************)
\* Closing an object dispatches its CLOSE event at once, handled by a call of
\* reactor_http_server_close, or leaves that to the event loop; the TCP server
\* does the latter while an event of its own is being handled.
CloseEnter ==
  /\ At(Frame("close", 0))
  /\ \/ state = "CLOSED" /\ Return /\ UNCHANGED <<state, tcp_server>>
     \/ state = "CLOSING" /\ Continue(<<Frame("finish", 0)>>) /\ UNCHANGED <<state, tcp_server>>
     \/ /\ state = "LISTENING" /\ state' = "CLOSING"
        /\ \/ /\ tcp_server' = "CLOSED" /\ ~OnStack(Frame("in_tcp", 0))
              /\ Continue(<<Frame("close", 0), Frame("close_timer", 0)>>)
           \/ tcp_server' = "CLOSING" /\ Continue(<<Frame("close_timer", 0)>>)
  /\ UNCHANGED <<date_timer, sessionVars, history>>

\* Mutant: the timer is not closed.
CloseTimerForgotten ==
  /\ At(Frame("close_timer", 0)) /\ Continue(<<Frame("finish", 0)>>)
  /\ UNCHANGED <<serverVars, sessionVars, history>>

CloseTimer ==
  /\ At(Frame("close_timer", 0))
  /\ \/ date_timer' = "CLOSED" /\ Continue(<<Frame("close", 0), Frame("finish", 0)>>)
     \/ date_timer' = "CLOSING" /\ Continue(<<Frame("finish", 0)>>)
  /\ UNCHANGED <<state, tcp_server, sessionVars, history>>

\* Mutants: a part of the condition is missing.
CanFinishAgain == tcp_server = "CLOSED" /\ date_timer = "CLOSED"
CanFinishBeforeTimer == state # "CLOSED" /\ tcp_server = "CLOSED"

\* The last condition of reactor_http_server_close.
CanFinish == state # "CLOSED" /\ tcp_server = "CLOSED" /\ date_timer = "CLOSED"

Finish ==
  /\ At(Frame("finish", 0))
  /\ IF CanFinish
     THEN state' = "CLOSED" /\ closes' = closes + 1 /\ Continue(<<User>>)
     ELSE Return /\ UNCHANGED <<state, closes>>
  /\ UNCHANGED <<tcp_server, date_timer, sessionVars, opens, listened, stray>>

\* The event loop completes a close that did not complete at once.
TcpClosed ==
  /\ tcp_server = "CLOSING" /\ tcp_server' = "CLOSED" /\ Dispatch(<<Frame("close", 0)>>)
  /\ UNCHANGED <<state, date_timer, sessionVars, history>>

TimerClosed ==
  /\ date_timer = "CLOSING" /\ date_timer' = "CLOSED" /\ Dispatch(<<Frame("close", 0)>>)
  /\ UNCHANGED <<state, tcp_server, sessionVars, history>>

\* The TCP server reports an error, which the server passes on.
TcpError ==
  /\ tcp_server = "OPEN" /\ Dispatch(<<User, Frame("in_tcp", 0)>>)
  /\ UNCHANGED <<serverVars, sessionVars, history>>

-------------------------------------------------------------------------------
(***************************************************************************)
(* Sessions                                                                *)
(***************************************************************************)
\* A connection is accepted, into memory not used before.
AcceptSucceeds(s) ==
  /\ tcp_server = "OPEN" /\ memory[s] = "unused"
  /\ memory' = [memory EXCEPT ![s] = "allocated"]
  /\ stream' = [stream EXCEPT ![s] = "OPEN"]
  /\ parser' = [parser EXCEPT ![s] = "REQUEST_HEADER"]
  /\ Dispatch(<<User, Frame("in_tcp", 0)>>)
  /\ UNCHANGED <<serverVars, fields, history>>

\* No memory: reported while listening.
AcceptFailsAtMalloc ==
  /\ tcp_server = "OPEN"
  /\ IF state = "LISTENING"
     THEN Dispatch(<<User, Frame("in_tcp", 0)>>)
     ELSE Dispatch(<<Frame("in_tcp", 0)>>)
  /\ UNCHANGED <<serverVars, sessionVars, history>>

\* The stream cannot be opened: the descriptor is closed, the session freed.
AcceptFailsAtStream(s) ==
  /\ tcp_server = "OPEN" /\ memory[s] = "unused"
  /\ memory' = [memory EXCEPT ![s] = "freed"]
  /\ Dispatch(<<Frame("in_tcp", 0)>>)
  /\ UNCHANGED <<serverVars, stream, parser, fields, history>>

\* Mutants: the session is freed with its close; its fields are not cleared.
SessionCloseFrees(s) ==
  /\ At(Frame("session_close", s)) /\ Return
  /\ IF stream[s] = "OPEN"
     THEN /\ fields' = [fields EXCEPT ![s] = 0]
          /\ stream' = [stream EXCEPT ![s] = "CLOSED"]
          /\ memory' = [memory EXCEPT ![s] = "freed"]
     ELSE UNCHANGED <<fields, stream, memory>>
  /\ UNCHANGED <<serverVars, parser, history>>

SessionCloseKeepsFields(s) ==
  /\ At(Frame("session_close", s)) /\ Return
  /\ IF stream[s] = "OPEN"
     THEN \/ /\ ~OnStack(Frame("in_stream", s))
             /\ stream' = [stream EXCEPT ![s] = "CLOSED"]
             /\ memory' = [memory EXCEPT ![s] = "freed"]
          \/ stream' = [stream EXCEPT ![s] = "CLOSING"] /\ UNCHANGED memory
     ELSE UNCHANGED <<stream, memory>>
  /\ UNCHANGED <<serverVars, parser, fields, history>>

\* reactor_http_server_session_close.  The stream reports CLOSE at once, and the
\* session is freed, or later.
SessionClose(s) ==
  /\ At(Frame("session_close", s)) /\ Return
  /\ IF stream[s] = "OPEN"
     THEN /\ fields' = [fields EXCEPT ![s] = 0]
          /\ \/ /\ ~OnStack(Frame("in_stream", s))
                /\ stream' = [stream EXCEPT ![s] = "CLOSED"]
                /\ memory' = [memory EXCEPT ![s] = "freed"]
             \/ stream' = [stream EXCEPT ![s] = "CLOSING"] /\ UNCHANGED memory
     ELSE UNCHANGED <<fields, stream, memory>>
  /\ UNCHANGED <<serverVars, parser, history>>

StreamData(s) ==
  /\ stream[s] = "OPEN" /\ Dispatch(<<Frame("parse", s), Frame("in_stream", s)>>)
  /\ UNCHANGED <<serverVars, sessionVars, history>>

\* The session is closed, and then its server's user told.
StreamError(s) ==
  /\ stream[s] = "OPEN"
  /\ Dispatch(<<Frame("session_close", s), Frame("report_error", s), Frame("in_stream", s)>>)
  /\ UNCHANGED <<serverVars, sessionVars, history>>

StreamEnd(s) ==
  /\ stream[s] = "OPEN" /\ Dispatch(<<Frame("session_close", s), Frame("in_stream", s)>>)
  /\ UNCHANGED <<serverVars, sessionVars, history>>

\* reactor_user_dispatch(&session->server->user, ...).
ReportError(s) ==
  /\ At(Frame("report_error", s)) /\ Continue(<<User>>)
  /\ UNCHANGED <<serverVars, sessionVars, history>>

\* Mutant: the session is not freed.
StreamClosedLeaks(s) ==
  /\ stream[s] = "CLOSING" /\ stack = <<>>
  /\ stream' = [stream EXCEPT ![s] = "CLOSED"]
  /\ UNCHANGED <<serverVars, memory, parser, fields, stack, history>>

\* The stream of a session has closed, and the session is freed.
StreamClosed(s) ==
  /\ stream[s] = "CLOSING" /\ stack = <<>>
  /\ stream' = [stream EXCEPT ![s] = "CLOSED"]
  /\ memory' = [memory EXCEPT ![s] = "freed"]
  /\ UNCHANGED <<serverVars, parser, fields, stack, history>>

-------------------------------------------------------------------------------
(***************************************************************************)
(* The parser of a session and reactor_http_server_session_parser_event    *)
(***************************************************************************)
ParseWaits(s) ==
  /\ At(Frame("parse", s)) /\ parser[s] # "FINAL" /\ Return
  /\ UNCHANGED <<serverVars, sessionVars, history>>

ParseError(s) ==
  /\ At(Frame("parse", s)) /\ parser[s] = "REQUEST_HEADER"
  /\ Continue(<<User, Frame("session_close", s)>>)
  /\ UNCHANGED <<serverVars, sessionVars, history>>

ParseHeader(s) ==
  /\ At(Frame("parse", s)) /\ parser[s] = "REQUEST_HEADER" /\ fields[s] < MaxFields
  /\ parser' = [parser EXCEPT ![s] = "BODY"]
  /\ fields' = [fields EXCEPT ![s] = @ + 1]
  /\ UNCHANGED <<serverVars, memory, stream, stack, history>>

ParseBody(s) ==
  /\ At(Frame("parse", s)) /\ parser[s] = "BODY"
  /\ parser' = [parser EXCEPT ![s] = "FINAL"]
  /\ UNCHANGED <<serverVars, memory, stream, fields, stack, history>>

ParseFinal(s) ==
  /\ At(Frame("parse", s)) /\ parser[s] = "FINAL"
  /\ Continue(<<User, Frame("after_done", s)>>)
  /\ UNCHANGED <<serverVars, sessionVars, history>>

AfterDone(s) ==
  /\ At(Frame("after_done", s)) /\ Return
  /\ parser' = [parser EXCEPT ![s] = "REQUEST_HEADER"]
  /\ UNCHANGED <<serverVars, memory, stream, fields, history>>

HandlerEnds ==
  /\ \/ At(Frame("in_tcp", 0))
     \/ \E s \in Sessions : At(Frame("in_stream", s))
  /\ Return
  /\ UNCHANGED <<serverVars, sessionVars, history>>
-------------------------------------------------------------------------------
Application ==
  \/ OpenSucceeds \/ OpenFailsAtTimer \/ OpenFailsAtTcp \/ UserClosesServer \/ UserReturns
  \/ \E s \in Sessions : UserClosesSession(s) \/ UserResponds(s) \/ UserClearsFields(s)

Closing == CloseEnter \/ CloseTimer \/ Finish

Events ==
  \/ TcpError \/ AcceptFailsAtMalloc
  \/ \E s \in Sessions : \/ AcceptSucceeds(s) \/ AcceptFailsAtStream(s)
                        \/ StreamData(s) \/ StreamError(s) \/ StreamEnd(s)

Session(s) ==
  \/ SessionClose(s) \/ ReportError(s)
  \/ ParseWaits(s) \/ ParseError(s) \/ ParseHeader(s) \/ ParseBody(s) \/ ParseFinal(s)
  \/ AfterDone(s)

\* What is left to do of the calls in progress, but for the application's part.
Handling == Closing \/ HandlerEnds \/ \E s \in Sessions : Session(s)

Next == Application \/ Events \/ Handling \/ TcpClosed \/ TimerClosed \/ \E s \in Sessions : StreamClosed(s)

Spec == Init /\ [][Next]_vars

\* A call in progress goes on, the application's callbacks return, and the event
\* loop completes each close that was begun, whatever else it dispatches
\* meanwhile.  Nothing obliges the application or the network to do anything.
FairSpec ==
  /\ Spec
  /\ WF_vars(Handling) /\ WF_vars(UserReturns)
  /\ SF_vars(TcpClosed) /\ SF_vars(TimerClosed)
  /\ \A s \in Sessions : SF_vars(StreamClosed(s))

-------------------------------------------------------------------------------
(***************************************************************************)
(* Properties                                                              *)
(***************************************************************************)
\* Every variable has its type, and no CLOSE event comes but for an open.
TypeOK ==
  /\ state \in States /\ tcp_server \in ObjectStates /\ date_timer \in ObjectStates
  /\ memory \in [Sessions -> {"unused", "allocated", "freed"}]
  /\ stream \in [Sessions -> ObjectStates]
  /\ parser \in [Sessions -> ParserStates]
  /\ fields \in [Sessions -> 0..MaxFields]
  /\ stack \in Seq(Frames)
  /\ opens \in 0..MaxOpens /\ listened \in 0..MaxOpens /\ closes \in 0..MaxOpens
  /\ stray \in BOOLEAN

\* Between two events of the event loop the server and its objects agree: they are
\* open while it listens, and a server that is closing has a CLOSE event to come.
\* An open that fails at the TCP server leaves the timer running (stray): it is
\* open from then on, and a server it was opened under never gets to CLOSED.
ObjectsAgree ==
  stack = <<>> =>
    /\ tcp_server = "OPEN" <=> state = "LISTENING"
    /\ date_timer = "OPEN" <=> state = "LISTENING" \/ stray
    /\ state = "CLOSED"  => tcp_server = "CLOSED" /\ date_timer # "CLOSING"
    /\ state = "CLOSING" => stray \/ "CLOSING" \in {tcp_server, date_timer}

\* Every open that succeeded is answered by one CLOSE event, however its two
\* objects' CLOSE events nest or follow each other.
OneCloseEach == listened = closes + (IF state = "CLOSED" THEN 0 ELSE 1)

\* A session in use, by a call in progress or as the target of an event, is
\* allocated: it is freed once, and no handler goes on with it after that.
SessionsInMemory ==
  /\ \A i \in DOMAIN stack : stack[i].s # 0 => memory[stack[i].s] = "allocated"
  /\ \A s \in Sessions : (memory[s] = "allocated") <=> (stream[s] # "CLOSED")

\* The field vector of a session does not outlive it: session_close clears it
\* and the parser, which goes on to the end of its message, adds nothing more.
FieldsCleared == \A s \in Sessions : stream[s] # "OPEN" => fields[s] = 0

\* A close of the server that has begun ends, if no failed open interfered: both
\* of its objects come to report CLOSE, and the later one closes the server.
ServerCloseCompletes == (state = "CLOSING") ~> (state = "CLOSED" \/ stray)

\* A session whose stream has begun to close is freed in the end.
SessionCloseCompletes == \A s \in Sessions : (stream[s] = "CLOSING") ~> (memory[s] = "freed")
===============================================================================
