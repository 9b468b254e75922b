--------------------------- MODULE HttpClientProofs ---------------------------
(***************************************************************************)
(* The client and its objects agree whenever the event loop is back, its   *)
(* URIs are freed once, and it is never closed under a handler: for every  *)
(* number of opens and every nesting of calls.                             *)
(*                                                                         *)
(* The argument is about what is on the stack: a stream that is still open *)
(* under a closing client has its close pending there, and the handler of  *)
(* a stream's event is the outermost call.                                 *)
(***************************************************************************)
EXTENDS HttpClient, SequenceTheorems, TLAPS

Handlers == {"in_tcp", "in_stream"}

\* The handler of an event is the outermost call.
Outermost == \A i \in DOMAIN stack : stack[i] \in Handlers => i = Len(stack)

\* A connected or connecting client has its TCP client open, a closed one has
\* nothing, and a closing one has a CLOSE event to come or a close in progress,
\* which goes on to close the stream if it has not.
Agree ==
  /\ state = "CLOSED"     => tcp_client = "CLOSED" /\ stream = "CLOSED"
  /\ state = "CONNECTING" => tcp_client = "OPEN" /\ stream = "CLOSED"
  /\ state = "CONNECTED"  => /\ tcp_client = "OPEN" /\ stream = "OPEN"
                             /\ "close_stream" \notin Range(stack)
  /\ state = "CLOSING" =>
       /\ tcp_client # "OPEN"
       /\ stream = "OPEN" => "close_stream" \in Range(stack)
       /\ "CLOSING" \in {tcp_client, stream} \/ \E f \in CloseFrames : f \in Range(stack)

\* The parser runs only in the handler of a stream event, during which the
\* stream does not become CLOSED.
Handled ==
  /\ Outermost
  /\ (\E f \in ParserFrames : f \in Range(stack)) => "in_stream" \in Range(stack)
  /\ "in_stream" \in Range(stack) => stream # "CLOSED"

\* No close that began before the last open goes on to close the new parser,
\* unless the client was opened within it.
Ready ==
  ~reentrant /\ state \in {"CONNECTING", "CONNECTED"} =>
    /\ parser # "CLOSED"
    /\ "close_stream" \notin Range(stack) /\ "close_parser" \notin Range(stack)

IInv == TypeOK /\ Agree /\ Handled /\ Ready /\ UrisFreed
-------------------------------------------------------------------------------
(***************************************************************************)
(* The stack                                                               *)
(***************************************************************************)
\* The frames of a sequence written out.
LEMMA RangeFew ==
  ASSUME NEW a, NEW b, NEW c
  PROVE  /\ Range(<<>>) = {} /\ Range(<<a>>) = {a}
         /\ Range(<<a, b>>) = {a, b} /\ Range(<<a, b, c>>) = {a, b, c}
<1>1. Range(<<>>) = {}
  BY DEF Range
<1>2. Range(<<a>>) = {a}
  BY DEF Range
<1>3. Range(<<a, b>>) = {a, b}
  <2>1. DOMAIN <<a, b>> = {1, 2} /\ <<a, b>>[1] = a /\ <<a, b>>[2] = b
    OBVIOUS
  <2> QED
    BY <2>1 DEF Range
<1>4. Range(<<a, b, c>>) = {a, b, c}
  <2>1. /\ DOMAIN <<a, b, c>> = {1, 2, 3}
        /\ <<a, b, c>>[1] = a /\ <<a, b, c>>[2] = b /\ <<a, b, c>>[3] = c
    OBVIOUS
  <2> QED
    BY <2>1 DEF Range
<1> QED
  BY <1>1, <1>2, <1>3, <1>4

\* A stack that is not empty is its innermost frame and the rest.
LEMMA RangeHead ==
  ASSUME NEW S, NEW s \in Seq(S), s # <<>>
  PROVE  /\ Head(s) \in S /\ Tail(s) \in Seq(S) /\ Len(Tail(s)) = Len(s) - 1
         /\ Range(s) = {Head(s)} \cup Range(Tail(s))
<1>1. /\ Head(s) = s[1] /\ Tail(s) \in Seq(S) /\ Len(Tail(s)) = Len(s) - 1
      /\ Len(s) \in Nat /\ Len(s) >= 1
      /\ \A i \in 1..Len(Tail(s)) : Tail(s)[i] = s[i + 1]
  <2>1. Len(s) \in Nat /\ Len(s) # 0
    BY EmptySeq
  <2> QED
    BY <2>1, HeadTailProperties
<1>2. Range(s) = {s[i] : i \in 1..Len(s)} /\ Range(Tail(s)) = {Tail(s)[i] : i \in 1..Len(s) - 1}
  BY <1>1, RangeEquality
<1>3. ASSUME NEW i \in 1..Len(s)
      PROVE  s[i] = Head(s) \/ s[i] \in Range(Tail(s))
  <2>1. CASE i # 1
    <3>1. i - 1 \in 1..Len(s) - 1 /\ Tail(s)[i - 1] = s[i]
      BY <1>1, <2>1
    <3> QED
      BY <1>2, <3>1
  <2> QED
    BY <1>1, <2>1
<1>4. ASSUME NEW i \in 1..Len(s) - 1
      PROVE  Tail(s)[i] \in Range(s)
  <2>1. i + 1 \in 1..Len(s) /\ Tail(s)[i] = s[i + 1]
    BY <1>1
  <2> QED
    BY <1>2, <2>1
<1>5. Head(s) \in Range(s)
  <2>1. 1 \in 1..Len(s)
    BY <1>1
  <2> QED
    BY <1>1, <1>2, <2>1
<1> QED
  BY <1>1, <1>2, <1>3, <1>4, <1>5, ElementOfSeq

\* A call goes on with todo, which begins no handler.
LEMMA GoesOn ==
  ASSUME stack \in Seq(Frames), stack # <<>>, NEW todo \in Seq(Frames), Continue(todo)
  PROVE  /\ stack' \in Seq(Frames)
         /\ Range(stack) = {Head(stack)} \cup Range(Tail(stack))
         /\ Range(stack') = Range(todo) \cup Range(Tail(stack))
         /\ Outermost /\ Range(todo) \cap Handlers = {} => Outermost'
<1>1. /\ Tail(stack) \in Seq(Frames) /\ Len(Tail(stack)) = Len(stack) - 1
      /\ Range(stack) = {Head(stack)} \cup Range(Tail(stack))
  BY RangeHead
<1>2. stack' = todo \o Tail(stack)
  BY DEF Continue
<1>3. stack' \in Seq(Frames) /\ Range(stack') = Range(todo) \cup Range(Tail(stack))
  <2>1. ASSUME NEW rest \in Seq(Frames)
        PROVE  todo \o rest \in Seq(Frames) /\ Range(todo \o rest) = Range(todo) \cup Range(rest)
    BY RangeConcatenation
  <2> QED
    BY <1>1, <1>2, <2>1, Zenon
<1>4. ASSUME Outermost, Range(todo) \cap Handlers = {}
      PROVE  Outermost'
  <2> SUFFICES ASSUME NEW i \in DOMAIN stack', stack'[i] \in Handlers
               PROVE  i = Len(stack')
    BY DEF Outermost
  <2>1. /\ Len(stack') = Len(todo) + Len(stack) - 1 /\ Len(todo) \in Nat /\ Len(stack) \in Nat
        /\ i \in 1..Len(stack')
        /\ stack'[i] = IF i <= Len(todo) THEN todo[i] ELSE Tail(stack)[i - Len(todo)]
    BY <1>1, <1>2, <1>3, ConcatProperties
  <2>2. ~(i <= Len(todo))
    <3>1. ASSUME i <= Len(todo) PROVE todo[i] \in Range(todo)
      BY <2>1, <3>1, RangeEquality
    <3> QED
      BY <1>4, <2>1, <3>1
  <2>3. /\ i - Len(todo) + 1 \in 1..Len(stack)
        /\ Tail(stack)[i - Len(todo)] = stack[i - Len(todo) + 1]
    <3>1. i - Len(todo) \in 1..Len(Tail(stack))
      BY <1>1, <2>1, <2>2
    <3> QED
      BY <1>1, <2>1, <3>1, HeadTailProperties, EmptySeq
  <2> QED
    BY <1>4, <2>1, <2>2, <2>3 DEF Outermost
<1> QED
  BY <1>1, <1>3, <1>4

\* Behind the handler of an event there is nothing on the stack.
LEMMA HandlerIsLast ==
  ASSUME stack \in Seq(Frames), stack # <<>>, Outermost, Head(stack) \in Handlers
  PROVE  Tail(stack) = <<>>
<1>1. Len(Tail(stack)) = Len(stack) - 1 /\ Tail(stack) \in Seq(Frames) /\ Len(stack) >= 1
      /\ Head(stack) = stack[1]
  BY HeadTailProperties, EmptySeq
<1>2. Len(stack) = 1
  BY <1>1 DEF Outermost
<1>3. Len(Tail(stack)) = 0
  BY <1>1, <1>2
<1> QED
  BY <1>1, <1>3, EmptySeq

\* What going on with the frames of a set does to the stack.
Effect(frames) ==
  /\ stack' \in Seq(Frames) /\ Range(stack') = frames \cup Range(Tail(stack))
  /\ Outermost => Outermost'

\* A call goes on with none, one, two or three frames.
LEMMA Calls ==
  ASSUME stack \in Seq(Frames), stack # <<>>,
         NEW a \in Frames \ Handlers, NEW b \in Frames \ Handlers, NEW c \in Frames \ Handlers
  PROVE  /\ Range(stack) = {Head(stack)} \cup Range(Tail(stack))
         /\ Return => Effect({})
         /\ Continue(<<a>>) => Effect({a})
         /\ Continue(<<a, b>>) => Effect({a, b})
         /\ Continue(<<a, b, c>>) => Effect({a, b, c})
<1>1. Range(stack) = {Head(stack)} \cup Range(Tail(stack))
  BY RangeHead
<1>2. ASSUME NEW todo \in Seq(Frames), Range(todo) \cap Handlers = {}, Continue(todo)
      PROVE  Effect(Range(todo))
  BY <1>2, GoesOn DEF Effect
<1>3. /\ <<>> \in Seq(Frames) /\ <<a>> \in Seq(Frames)
      /\ <<a, b>> \in Seq(Frames) /\ <<a, b, c>> \in Seq(Frames)
  OBVIOUS
<1>4. /\ Range(<<>>) = {} /\ Range(<<a>>) = {a}
      /\ Range(<<a, b>>) = {a, b} /\ Range(<<a, b, c>>) = {a, b, c}
  BY RangeFew
<1>5. Return => Effect({})
  BY <1>2, <1>3, <1>4 DEF Return
<1>6. Continue(<<a>>) => Effect({a})
  <2>1. Range(<<a>>) \cap Handlers = {}
    BY <1>4
  <2> QED
    BY <1>2, <1>3, <1>4, <2>1, Zenon
<1>7. Continue(<<a, b>>) => Effect({a, b})
  <2>1. Range(<<a, b>>) \cap Handlers = {}
    BY <1>4
  <2> QED
    BY <1>2, <1>3, <1>4, <2>1, Zenon
<1>8. Continue(<<a, b, c>>) => Effect({a, b, c})
  <2>1. Range(<<a, b, c>>) \cap Handlers = {}
    BY <1>4
  <2> QED
    BY <1>2, <1>3, <1>4, <2>1, Zenon
<1> QED
  BY <1>1, <1>5, <1>6, <1>7, <1>8
-------------------------------------------------------------------------------
(***************************************************************************)
(* The invariant, action by action                                         *)
(***************************************************************************)
\* reactor_http_client_close up to its first call.
LEMMA CloseEnterIInv ==
  ASSUME IInv, CloseEnter
  PROVE  IInv'
<1>1. stack \in Seq(Frames) /\ stack # <<>> /\ Head(stack) = "close"
  BY DEF IInv, TypeOK, CloseEnter, At
<1>2. {"close", "close_stream", "finish"} \subseteq Frames \ Handlers
  BY DEF Frames, CloseFrames, ParserFrames, Handlers
<1>3. /\ Range(stack) = {"close"} \cup Range(Tail(stack))
      /\ \/ state = "CLOSED" /\ Effect({}) /\ UNCHANGED <<state, tcp_client>>
         \/ state = "CLOSING" /\ Effect({"finish"}) /\ UNCHANGED <<state, tcp_client>>
         \/ /\ state \in {"CONNECTING", "CONNECTED"} /\ state' = "CLOSING"
            /\ tcp_client' \in {"CLOSED", "CLOSING"}
            /\ Effect({"close", "close_stream"}) \/ Effect({"close_stream"})
  BY <1>1, <1>2, Calls DEF CloseEnter, CloseAtOnce
<1>4. UNCHANGED <<stream, parser, streaming, seen, uris, failed, opens, reentrant>>
  BY DEF CloseEnter, history
<1> QED
  BY <1>1, <1>3, <1>4
     DEF IInv, TypeOK, Agree, Handled, Ready, UrisFreed, Effect, States, ObjectStates,
         CloseFrames, ParserFrames

\* The call on the stream, which completes at once only outside its handler.
LEMMA CloseStreamIInv ==
  ASSUME IInv, CloseStream
  PROVE  IInv'
<1>1. stack \in Seq(Frames) /\ stack # <<>> /\ Head(stack) = "close_stream"
  BY DEF IInv, TypeOK, CloseStream, At
<1>2. {"close", "close_parser"} \subseteq Frames \ Handlers
  BY DEF Frames, CloseFrames, ParserFrames, Handlers
<1>3. /\ Range(stack) = {"close_stream"} \cup Range(Tail(stack))
      /\ \/ /\ stream = "OPEN" /\ stream' = "CLOSED" /\ "in_stream" \notin Range(stack)
            /\ Effect({"close", "close_parser"})
         \/ stream = "OPEN" /\ stream' = "CLOSING" /\ Effect({"close_parser"})
         \/ stream # "OPEN" /\ stream' = stream /\ Effect({"close_parser"})
  BY <1>1, <1>2, Calls DEF CloseStream, CloseAtOnce, OnStack, Range
<1>4. UNCHANGED <<state, tcp_client, parser, streaming, seen, uris, failed, opens, reentrant>>
  BY DEF CloseStream, history
<1> QED
  BY <1>1, <1>3, <1>4
     DEF IInv, TypeOK, Agree, Handled, Ready, UrisFreed, Effect, States, ObjectStates,
         CloseFrames, ParserFrames

\* The call on the parser.
LEMMA CloseParserIInv ==
  ASSUME IInv, CloseParser
  PROVE  IInv'
<1>1. stack \in Seq(Frames) /\ stack # <<>> /\ Head(stack) = "close_parser"
  BY DEF IInv, TypeOK, CloseParser, At
<1>2. "finish" \in Frames \ Handlers
  BY DEF Frames, CloseFrames, ParserFrames, Handlers
<1>3. Range(stack) = {"close_parser"} \cup Range(Tail(stack)) /\ Effect({"finish"})
  BY <1>1, <1>2, Calls DEF CloseParser
<1>4. /\ parser' = "CLOSED"
      /\ UNCHANGED <<state, tcp_client, stream, streaming, seen, uris, failed, opens, reentrant>>
  BY DEF CloseParser, history, objects
<1> QED
  BY <1>1, <1>3, <1>4
     DEF IInv, TypeOK, Agree, Handled, Ready, UrisFreed, Effect, ParserStates,
         CloseFrames, ParserFrames

\* The user sees events of the contract.
LEMMA ReportType ==
  ASSUME seen \in Seq(Contract!Events), NEW e \in Contract!Events, Report(e)
  PROVE  seen' \in Seq(Contract!Events)
BY DEF Report, Contract!Record

\* The last condition: it is either true, and both objects are closed, or false,
\* and a CLOSE event or the close of the stream is still to come.
LEMMA FinishIInv ==
  ASSUME IInv, Finish
  PROVE  IInv'
<1>1. stack \in Seq(Frames) /\ stack # <<>> /\ Head(stack) = "finish"
  BY DEF IInv, TypeOK, Finish, At
<1>2. "user" \in Frames \ Handlers
  BY DEF Frames, CloseFrames, ParserFrames, Handlers
<1>3. /\ Range(stack) = {"finish"} \cup Range(Tail(stack))
      /\ \/ /\ CanFinish /\ state' = "CLOSED" /\ uris' = uris - 1
            /\ Effect({"user"})
         \/ ~CanFinish /\ Effect({}) /\ UNCHANGED <<state, uris>>
  BY <1>1, <1>2, Calls DEF Finish
<1>4. seen' \in Seq(Contract!Events)
  <2>1. "CLOSE" \in Contract!Events
    BY DEF Contract!Events
  <2> QED
    BY <2>1, ReportType DEF Finish, IInv, TypeOK
<1>5. UNCHANGED <<tcp_client, stream, parser, streaming, failed, opens, reentrant>>
  BY DEF Finish, objects
<1>6. uris' \in Nat
  BY <1>3 DEF IInv, TypeOK, UrisFreed, CanFinish
<1> QED
  BY <1>1, <1>3, <1>4, <1>5, <1>6
     DEF IInv, TypeOK, Agree, Handled, Ready, UrisFreed, Effect, CanFinish, States, ObjectStates,
         CloseFrames, ParserFrames

\* The user opens, closes, or returns.
LEMMA UserIInv ==
  ASSUME IInv, User
  PROVE  IInv'
<1>1. ASSUME NEW fl \in BOOLEAN, OpenSucceeds(fl)
      PROVE  IInv'
  <2>1. ~reentrant' => \A f \in CloseFrames : f \notin Range(stack)
    BY <1>1 DEF OpenSucceeds, OnStack, Range
  <2>2. Outermost' <=> Outermost
    BY <1>1 DEF OpenSucceeds, Outermost
  <2>3. seen' \in Seq(Contract!Events)
    BY <1>1, EmptySeq DEF OpenSucceeds
  <2>4. reentrant' \in BOOLEAN /\ streaming' \in BOOLEAN
    BY <1>1 DEF OpenSucceeds, OnStack
  <2>5. TypeOK'
    BY <1>1, <2>3, <2>4, MaxOpensAssumption
       DEF OpenSucceeds, IInv, TypeOK, States, ObjectStates, ParserStates
  <2>6. Agree' /\ Handled' /\ UrisFreed'
    BY <1>1, <2>2 DEF OpenSucceeds, IInv, TypeOK, Agree, Handled, UrisFreed
  <2>7. Ready'
    BY <1>1, <2>1 DEF OpenSucceeds, Ready, CloseFrames
  <2> QED
    BY <2>5, <2>6, <2>7 DEF IInv
<1>2. ASSUME NEW fl \in BOOLEAN, OpenFails(fl)
      PROVE  IInv'
  <2>1. Outermost' <=> Outermost
    BY <1>2 DEF OpenFails, Outermost
  <2>2. TypeOK'
    BY <1>2, MaxOpensAssumption DEF OpenFails, IInv, TypeOK, objects, ParserStates
  <2>3. Agree' /\ Handled' /\ Ready' /\ UrisFreed'
    BY <1>2, <2>1 DEF OpenFails, IInv, TypeOK, Agree, Handled, Ready, UrisFreed, objects
  <2> QED
    BY <2>2, <2>3 DEF IInv
<1>3. CASE UserCloses
  <2>1. UNCHANGED <<state, tcp_client, stream, parser, streaming, seen, uris, failed, opens, reentrant>>
    BY <1>3 DEF UserCloses, objects, history
  <2>2. "close" \in Frames \ Handlers
    BY DEF Frames, CloseFrames, ParserFrames, Handlers
  <2>3. CASE stack = <<>>
    <3>1. stack' = <<"close">> /\ Range(stack) = {} /\ Range(stack') = {"close"}
      BY <1>3, <2>3, RangeFew DEF UserCloses
    <3>2. stack' \in Seq(Frames) /\ Outermost'
      BY <2>2, <3>1 DEF Outermost
    <3> QED
      BY <2>1, <3>1, <3>2
         DEF IInv, TypeOK, Agree, Handled, Ready, UrisFreed, CloseFrames, ParserFrames
  <2>4. CASE stack # <<>>
    <3>1. Head(stack) = "user" /\ Continue(<<"close">>)
      BY <1>3, <2>4 DEF UserCloses, UserRuns, At, Continue
    <3>2. Range(stack) = {"user"} \cup Range(Tail(stack)) /\ Effect({"close"})
      BY <2>2, <2>4, <3>1, Calls DEF IInv, TypeOK
    <3> QED
      BY <2>1, <3>2
         DEF IInv, TypeOK, Agree, Handled, Ready, UrisFreed, Effect, CloseFrames, ParserFrames
  <2> QED
    BY <2>3, <2>4
<1>4. CASE UserReturns
  <2>1. UNCHANGED <<state, tcp_client, stream, parser, streaming, seen, uris, failed, opens, reentrant>>
    BY <1>4 DEF UserReturns, objects, history
  <2>2. Range(stack) = {"user"} \cup Range(Tail(stack)) /\ Effect({})
    <3>1. stack \in Seq(Frames) /\ stack # <<>> /\ Head(stack) = "user" /\ Return
      BY <1>4 DEF UserReturns, At, IInv, TypeOK
    <3>2. "close" \in Frames \ Handlers
      BY DEF Frames, CloseFrames, ParserFrames, Handlers
    <3> QED
      BY <3>1, <3>2, Calls
  <2> QED
    BY <2>1, <2>2
       DEF IInv, TypeOK, Agree, Handled, Ready, UrisFreed, Effect, CloseFrames, ParserFrames
<1> QED
  BY <1>1, <1>2, <1>3, <1>4 DEF User

\* The stack was empty, and the event loop has put frames on it.
Begins(frames) ==
  /\ Range(stack) = {} /\ stack' \in Seq(Frames) /\ Range(stack') = frames /\ Outermost'

\* An event the loop dispatches meets no call in progress, and its handler h is
\* the outermost one.
LEMMA Dispatches ==
  ASSUME NEW a \in Frames \ Handlers, NEW b \in Frames \ Handlers, NEW h \in Frames
  PROVE  /\ Dispatch(<<h>>) => Begins({h})
         /\ Dispatch(<<a, h>>) => Begins({a, h})
         /\ Dispatch(<<a, b, h>>) => Begins({a, b, h})
<1>1. stack = <<>> => Range(stack) = {}
  BY DEF Range
<1>2. /\ Range(<<h>>) = {h} /\ Range(<<a, h>>) = {a, h} /\ Range(<<a, b, h>>) = {a, b, h}
  <2>1. Range(<<a, h>>) = {a, h}
    BY RangeFew
  <2>2. Range(<<h>>) = {h}
    BY DEF Range
  <2>3. Range(<<a, b, h>>) = {a, b, h}
    <3>1. /\ DOMAIN <<a, b, h>> = {1, 2, 3}
          /\ <<a, b, h>>[1] = a /\ <<a, b, h>>[2] = b /\ <<a, b, h>>[3] = h
      OBVIOUS
    <3> QED
      BY <3>1 DEF Range
  <2> QED
    BY <2>1, <2>2, <2>3
<1>3. Dispatch(<<h>>) => Begins({h})
  BY <1>1, <1>2 DEF Dispatch, Begins, Outermost
<1>4. ASSUME Dispatch(<<a, h>>) PROVE Begins({a, h})
  <2>1. Outermost'
    BY <1>4 DEF Dispatch, Outermost
  <2> QED
    BY <1>1, <1>2, <1>4, <2>1 DEF Dispatch, Begins
<1>5. ASSUME Dispatch(<<a, b, h>>) PROVE Begins({a, b, h})
  <2>1. stack' = <<a, b, h>> /\ stack = <<>>
    BY <1>5 DEF Dispatch
  <2>2. ASSUME NEW i \in {1, 2, 3}, stack'[i] \in Handlers PROVE i = 3
    BY <2>1, <2>2
  <2>3. Outermost'
    <3>1. DOMAIN stack' = {1, 2, 3} /\ Len(stack') = 3
      BY <2>1
    <3> QED
      BY <2>2, <3>1 DEF Outermost
  <2>4. stack' \in Seq(Frames)
    BY <2>1
  <2> QED
    BY <1>1, <1>2, <2>1, <2>3, <2>4 DEF Begins
<1> QED
  BY <1>3, <1>4, <1>5

\* The events of the network.
LEMMA NetworkIInv ==
  ASSUME IInv, Network
  PROVE  IInv'
<1>1. /\ {"user", "close", "parse"} \subseteq Frames \ Handlers
      /\ {"in_tcp", "in_stream"} \subseteq Frames
  BY DEF Frames, CloseFrames, ParserFrames, Handlers
<1>2. UNCHANGED <<tcp_client, parser, streaming, uris, failed, opens, reentrant>>
  BY DEF Network, TcpError, StreamConnect, StreamData, StreamError, StreamEnd, objects, history
<1>3. seen' \in Seq(Contract!Events)
  <2>1. "ERROR" \in Contract!Events /\ seen \in Seq(Contract!Events)
    BY DEF Contract!Events, IInv, TypeOK
  <2>2. seen' = seen \/ Report("ERROR")
    BY DEF Network, TcpError, StreamConnect, StreamData, StreamError, StreamEnd
  <2> QED
    BY <2>1, <2>2, ReportType
<1>4. CASE TcpError
  <2>1. Begins({"user", "close", "in_tcp"}) /\ UNCHANGED <<state, stream>>
    BY <1>1, <1>4, Dispatches DEF TcpError, objects
  <2> QED
    BY <1>2, <1>3, <2>1
       DEF IInv, TypeOK, Agree, Handled, Ready, UrisFreed, Begins, CloseFrames, ParserFrames
<1>5. CASE StreamConnect
  <2>1. /\ Begins({"in_stream"}) \/ Begins({"user", "close", "in_stream"})
        /\ tcp_client = "OPEN" /\ stream = "CLOSED" /\ stream' = "OPEN" /\ state' = "CONNECTED"
    BY <1>1, <1>5, Dispatches DEF StreamConnect
  <2> QED
    BY <1>2, <1>3, <2>1
       DEF IInv, TypeOK, Agree, Handled, Ready, UrisFreed, Begins, CloseFrames, ParserFrames,
           States, ObjectStates
<1>6. CASE StreamData \/ StreamError \/ StreamEnd
  <2>1. /\ stream = "OPEN" /\ UNCHANGED <<state, stream>>
        /\ \/ Begins({"parse", "in_stream"}) \/ Begins({"user", "close", "in_stream"})
           \/ Begins({"close", "in_stream"})
    BY <1>1, <1>6, Dispatches DEF StreamData, StreamError, StreamEnd, objects
  <2> QED
    BY <1>2, <1>3, <2>1
       DEF IInv, TypeOK, Agree, Handled, Ready, UrisFreed, Begins, CloseFrames, ParserFrames
<1> QED
  BY <1>4, <1>5, <1>6 DEF Network

\* The event loop completes a close: the client is closing, and closes next.
LEMMA ClosedIInv ==
  ASSUME IInv, Closed
  PROVE  IInv'
<1>1. "close" \in Frames
  BY DEF Frames, CloseFrames
<1>2. /\ Begins({"close"})
      /\ \/ tcp_client = "CLOSING" /\ tcp_client' = "CLOSED" /\ stream' = stream
         \/ stream = "CLOSING" /\ stream' = "CLOSED" /\ tcp_client' = tcp_client
  <2>1. "close" \in Frames \ Handlers
    BY DEF Frames, CloseFrames, Handlers
  <2> QED
    BY <2>1, Dispatches DEF Closed, TcpClosed, StreamClosed
<1>3. UNCHANGED <<state, parser, streaming, seen, uris, failed, opens, reentrant>>
  BY DEF Closed, TcpClosed, StreamClosed, history
<1> QED
  BY <1>2, <1>3
     DEF IInv, TypeOK, Agree, Handled, Ready, UrisFreed, Begins, CloseFrames, ParserFrames,
         ObjectStates

\* The handlers of the parser leave the client and its objects to the calls they
\* make, and stay within the handler of the stream.
LEMMA ParserIInv ==
  ASSUME IInv, Parser
  PROVE  IInv'
<1>1. {"user", "close", "parse", "after_header", "after_chunk", "after_done"}
        \subseteq Frames \ Handlers
  BY DEF Frames, CloseFrames, ParserFrames, Handlers
<1>2. /\ stack \in Seq(Frames) /\ stack # <<>>
      /\ Head(stack) \in {"parse", "after_header", "after_chunk", "after_done"}
  BY DEF IInv, TypeOK, At, Parser, ParseWaits, ParseError, ParseHeader, AfterHeader, ParseBody,
         ParseChunk, AfterChunk, ParseFinal, AfterDone
<1>3. UNCHANGED <<state, tcp_client, stream, streaming, uris, failed, opens, reentrant>>
  BY DEF Parser, ParseWaits, ParseError, ParseHeader, AfterHeader, ParseBody, ParseChunk,
         AfterChunk, ParseFinal, AfterDone, objects, history
<1>4. parser' \in {parser, "RESPONSE_HEADER", "BODY", "FINAL"}
  BY DEF Parser, ParseWaits, ParseError, ParseHeader, AfterHeader, ParseBody, ParseChunk,
         AfterChunk, ParseFinal, AfterDone
<1>5. seen' \in Seq(Contract!Events)
  <2>1. /\ {"ERROR", "HEADER", "CHUNK", "RESPONSE"} \subseteq Contract!Events
        /\ seen \in Seq(Contract!Events)
    BY DEF Contract!Events, IInv, TypeOK
  <2>2. seen' = seen \/ Report("ERROR") \/ Report("HEADER") \/ Report("CHUNK") \/ Report("RESPONSE")
    BY DEF Parser, ParseWaits, ParseError, ParseHeader, AfterHeader, ParseBody, ParseChunk,
           AfterChunk, ParseFinal, AfterDone
  <2> QED
    BY <2>1, <2>2, ReportType
<1>6. Range(stack) = {Head(stack)} \cup Range(Tail(stack))
  BY <1>1, <1>2, Calls
<1>7. \/ Effect({}) \/ Effect({"parse"})
      \/ Effect({"user", "close"}) \/ Effect({"user", "after_header"})
      \/ Effect({"user", "after_chunk"}) \/ Effect({"user", "close", "after_done"})
  <2>1. CASE ParseWaits \/ AfterDone \/ AfterHeader \/ ParseBody \/ AfterChunk
    BY <1>1, <1>2, <2>1, Calls DEF ParseWaits, AfterDone, AfterHeader, ParseBody, AfterChunk
  <2>2. CASE ParseError \/ ParseHeader \/ ParseChunk
    BY <1>1, <1>2, <2>2, Calls DEF ParseError, ParseHeader, ParseChunk
  <2>3. CASE ParseFinal
    BY <1>1, <1>2, <2>3, Calls DEF ParseFinal
  <2> QED
    BY <2>1, <2>2, <2>3 DEF Parser
<1>8. TypeOK'
  BY <1>3, <1>4, <1>5, <1>7 DEF IInv, TypeOK, Effect, ParserStates
<1>9. Agree' /\ UrisFreed'
  BY <1>2, <1>3, <1>6, <1>7 DEF IInv, Agree, UrisFreed, Effect, CloseFrames
<1>10. Handled' /\ Ready'
  BY <1>2, <1>3, <1>4, <1>6, <1>7 DEF IInv, Handled, Ready, Effect, ParserFrames
<1> QED
  BY <1>8, <1>9, <1>10 DEF IInv

\* The handler of an event ends, and with it the calls from the event loop.
LEMMA HandlerEndsIInv ==
  ASSUME IInv, HandlerEnds
  PROVE  IInv'
<1>1. stack \in Seq(Frames) /\ stack # <<>> /\ Head(stack) \in Handlers /\ Return
  BY DEF IInv, TypeOK, HandlerEnds, At, Handlers
<1>2. Tail(stack) = <<>>
  BY <1>1, HandlerIsLast DEF IInv, Handled
<1>3. Range(stack) = {Head(stack)} /\ Effect({}) /\ Range(Tail(stack)) = {}
  <2>1. "close" \in Frames \ Handlers
    BY DEF Frames, CloseFrames, Handlers
  <2> QED
    BY <1>1, <1>2, <2>1, Calls, RangeFew
<1>4. UNCHANGED <<state, tcp_client, stream, parser, streaming, seen, uris, failed, opens, reentrant>>
  BY DEF HandlerEnds, objects, history
<1> QED
  BY <1>1, <1>3, <1>4
     DEF IInv, TypeOK, Agree, Handled, Ready, UrisFreed, Effect, CloseFrames, ParserFrames, Handlers
-------------------------------------------------------------------------------
(***************************************************************************)
(* The theorems                                                            *)
(***************************************************************************)
\* A client that has been initialised is closed, with nothing in progress.
LEMMA InitIInv == Init => IInv
<1> SUFFICES ASSUME Init PROVE IInv
  OBVIOUS
<1>1. stack = <<>> /\ stack \in Seq(Frames) /\ DOMAIN stack = {}
  BY DEF Init
<1>2. Range(stack) = {}
  BY <1>1 DEF Range
<1>3. seen \in Seq(Contract!Events)
  BY DEF Init, Contract!Events
<1>4. TypeOK
  <2>1. uris \in Nat /\ failed \in 0..opens /\ opens \in 0..MaxOpens
    BY MaxOpensAssumption DEF Init
  <2>2. /\ state \in States /\ tcp_client \in ObjectStates /\ stream \in ObjectStates
        /\ parser \in ParserStates /\ streaming \in BOOLEAN /\ reentrant \in BOOLEAN
    BY DEF Init, States, ObjectStates, ParserStates
  <2> QED
    BY <1>1, <1>3, <2>1, <2>2 DEF TypeOK
<1>5. Handled
  BY <1>1, <1>2 DEF Handled, Outermost
<1> QED
  BY <1>2, <1>4, <1>5 DEF Init, IInv, Agree, Ready, UrisFreed

\* Every step keeps the invariant: the cases are the actions.
LEMMA NextIInv == IInv /\ [Next]_vars => IInv'
<1> SUFFICES ASSUME IInv, [Next]_vars PROVE IInv'
  OBVIOUS
<1>1. CASE Next
  BY <1>1, UserIInv, CloseEnterIInv, CloseStreamIInv, CloseParserIInv, FinishIInv, NetworkIInv,
     ClosedIInv, ParserIInv, HandlerEndsIInv
     DEF Next, Closing
<1>2. CASE UNCHANGED vars
  BY <1>2 DEF vars, objects, history, IInv, TypeOK, Agree, Handled, Ready, UrisFreed, Outermost
<1> QED
  BY <1>1, <1>2

\* The inductive invariant holds of every behaviour.
LEMMA Invariance == Spec => []IInv
BY InitIInv, NextIInv, PTL DEF Spec

\* Every variable of the client keeps its type, and no URI is freed that nobody
\* made.
THEOREM ClientTypes == Spec => []TypeOK
<1>1. IInv => TypeOK
  BY DEF IInv
<1> QED
  BY <1>1, Invariance, PTL

\* Each copy of a URI that reactor_http_client_open made is freed by the close
\* that ends its exchange, once, however calls of close nest.
THEOREM UrisOwned == Spec => []UrisFreed
<1>1. IInv => UrisFreed
  BY DEF IInv
<1> QED
  BY <1>1, Invariance, PTL

\* Whenever the event loop is back the client agrees with its TCP client and its
\* stream: nothing is left open by a close, and a closing client is called again.
THEOREM ObjectsConsistent == Spec => []ObjectsAgree
<1>1. IInv => ObjectsAgree
  <2> SUFFICES ASSUME IInv, stack = <<>> PROVE ObjectsAgree
    BY DEF ObjectsAgree
  <2>1. Range(stack) = {}
    BY RangeFew
  <2> QED
    BY <2>1 DEF IInv, TypeOK, States, Agree, ObjectsAgree
<1> QED
  BY <1>1, Invariance, PTL

\* A client that connects or is connected has a parser that reads its response.
THEOREM ParserOpen == Spec => []ParserReady
<1>1. IInv => ParserReady
  BY DEF IInv, Ready, ParserReady
<1> QED
  BY <1>1, Invariance, PTL

\* The client is never CLOSED while a handler of its stream or its parser is in
\* progress, so none of them goes on with what the user was told is over.
THEOREM ClosedUnhandled == Spec => []ClosesOutsideHandlers
<1>1. IInv => ClosesOutsideHandlers
  BY DEF IInv, Agree, Handled, ClosesOutsideHandlers, OnStack, Range
<1> QED
  BY <1>1, Invariance, PTL

-------------------------------------------------------------------------------
(***************************************************************************)
(* The client implements ExchangeContract: whatever the network, the       *)
(* libraries and the callbacks of the user do, and for every number of     *)
(* opens, the user is told of each exchange as the contract says.          *)
(*                                                                         *)
(* The argument ties what the user has been told to what is left to do: an *)
(* outcome has a close pending behind it and no more parsing, and what the *)
(* parser may still report follows from its state.                         *)
(***************************************************************************)
\* What the user has been told in the current exchange.
Told(e) == Contract!Saw(e)

Decided == Told("RESPONSE") \/ Told("ERROR")

\* The parser is called by the outermost handler, and calls itself only last.
Inner == \A i \in DOMAIN stack : stack[i] \in ParserFrames => i = Len(stack) - 1

\* An outcome is followed by a close, and by no more parsing; after_done is
\* behind an outcome.
Outcomes ==
  /\ Decided =>
       /\ state \in {"CLOSING", "CLOSED"} \/ "close" \in Range(stack)
       /\ \A f \in ParserFrames \ {"after_done"} : f \notin Range(stack)
  /\ "after_done" \in Range(stack) => Decided

\* A body is streamed behind HEADER, and a parser that expects a header has
\* reported nothing.
Streamed ==
  /\ "after_header" \in Range(stack) => Told("HEADER")
  /\ state # "CLOSED" /\ streaming /\ parser = "BODY" => Told("HEADER")
  /\ state # "CLOSED" /\ parser = "RESPONSE_HEADER" /\ ~Decided /\ "after_header" \notin Range(stack)
       => seen = <<>>

\* The user was told of the CLOSE of the exchange just when the client is closed.
ToldClosed == Told("CLOSE") <=> state = "CLOSED"

CInv == ToldClosed /\ Inner /\ Outcomes /\ Streamed
-------------------------------------------------------------------------------
(***************************************************************************)
(* The stack and the history                                               *)
(***************************************************************************)
\* Under a handler of the parser there is the stream's alone.
LEMMA ParserAlone ==
  ASSUME IInv, Inner, stack # <<>>, Head(stack) \in ParserFrames
  PROVE  Range(Tail(stack)) = {"in_stream"}
<1>1. stack \in Seq(Frames)
  BY DEF IInv, TypeOK
<1>2. /\ Head(stack) \in Frames /\ Tail(stack) \in Seq(Frames) /\ Len(Tail(stack)) = Len(stack) - 1
      /\ Range(stack) = {Head(stack)} \cup Range(Tail(stack))
  BY <1>1, RangeHead
<1>3. Head(stack) = stack[1] /\ Len(stack) \in Nat /\ Len(stack) >= 1 /\ 1 \in DOMAIN stack
  <2>1. Len(stack) \in Nat /\ Len(stack) # 0 /\ DOMAIN stack = 1..Len(stack)
    BY <1>1, EmptySeq
  <2> QED
    BY <1>1, <2>1, HeadTailProperties
<1>4. Len(stack) = 2
  <2>1. 1 = Len(stack) - 1
    BY <1>3 DEF Inner
  <2> QED
    BY <1>3, <2>1
<1>5. DOMAIN Tail(stack) = {1}
  <2>1. DOMAIN Tail(stack) = 1..Len(Tail(stack)) /\ Len(Tail(stack)) = 1
    BY <1>2, <1>4
  <2>2. 1..1 = {1}
    OBVIOUS
  <2> QED
    BY <2>1, <2>2
<1>6. Range(Tail(stack)) = {Tail(stack)[1]}
  BY <1>5 DEF Range
<1>7. "in_stream" \in Range(stack) /\ Head(stack) # "in_stream"
  BY <1>2 DEF IInv, Handled, ParserFrames
<1> QED
  BY <1>2, <1>6, <1>7

\* A call that is not of the parser begins none of the parser's, and one that is
\* begins at most one, as the last thing it does.
LEMMA InnerGoesOn ==
  ASSUME stack \in Seq(Frames), stack # <<>>, Inner, NEW todo \in Seq(Frames), Continue(todo),
         \A i \in 1..Len(todo) :
            todo[i] \in ParserFrames => i = Len(todo) /\ Head(stack) \in ParserFrames
  PROVE  Inner'
<1>1. /\ Tail(stack) \in Seq(Frames) /\ Len(Tail(stack)) = Len(stack) - 1
      /\ Len(stack) \in Nat /\ Len(stack) >= 1 /\ Len(todo) \in Nat
      /\ Head(stack) = stack[1]
  <2>1. Len(stack) \in Nat /\ Len(stack) # 0
    BY EmptySeq
  <2> QED
    BY <2>1, HeadTailProperties
<1>2. stack' = todo \o Tail(stack)
  BY DEF Continue
<1> SUFFICES ASSUME NEW i \in DOMAIN stack', stack'[i] \in ParserFrames
             PROVE  i = Len(stack') - 1
  BY DEF Inner
<1>3. /\ Len(stack') = Len(todo) + Len(stack) - 1 /\ i \in 1..Len(stack')
      /\ stack'[i] = IF i <= Len(todo) THEN todo[i] ELSE Tail(stack)[i - Len(todo)]
  BY <1>1, <1>2, ConcatProperties
<1>4. CASE i <= Len(todo)
  <2>1. i = Len(todo) /\ stack[1] \in ParserFrames
    BY <1>1, <1>3, <1>4
  <2>2. Len(stack) = 2
    <3>1. 1 \in DOMAIN stack
      BY <1>1
    <3>2. Len(stack) \in Nat /\ Len(stack) - 1 = 1
      BY <1>1, <2>1, <3>1 DEF Inner
    <3> QED
      BY <3>2
  <2>3. Len(stack') = Len(todo) + 1
    BY <1>1, <1>3, <2>2
  <2> QED
    BY <1>1, <2>1, <2>3
<1>5. CASE ~(i <= Len(todo))
  <2>1. i - Len(todo) \in 1..Len(Tail(stack))
    BY <1>1, <1>3, <1>5
  <2>2. Tail(stack)[i - Len(todo)] = stack[i - Len(todo) + 1]
    BY <1>1, <2>1, HeadTailProperties
  <2>3. i - Len(todo) + 1 \in 1..Len(stack) /\ stack[i - Len(todo) + 1] \in ParserFrames
    BY <1>1, <1>3, <1>5, <2>1, <2>2
  <2>4. i - Len(todo) + 1 = Len(stack) - 1
    BY <2>3 DEF Inner
  <2> QED
    BY <1>1, <1>3, <2>4
<1> QED
  BY <1>4, <1>5

\* What going on with the frames of a set does to the stack, which keeps its shape.
Goes(frames) == Effect(frames) /\ Inner'

\* Calls with the shape of the stack: only a parser's call goes on with another
\* of the parser's, c.
LEMMA InnerCalls ==
  ASSUME IInv, Inner, stack # <<>>,
         NEW a \in Frames \ (Handlers \cup ParserFrames), NEW b \in Frames \ (Handlers \cup ParserFrames),
         NEW c \in Frames \ Handlers, c \in ParserFrames => Head(stack) \in ParserFrames
  PROVE  /\ Range(stack) = {Head(stack)} \cup Range(Tail(stack))
         /\ Return => Goes({})
         /\ Continue(<<c>>) => Goes({c})
         /\ Continue(<<a, c>>) => Goes({a, c})
         /\ Continue(<<a, b, c>>) => Goes({a, b, c})
<1>1. stack \in Seq(Frames)
  BY DEF IInv, TypeOK
<1>2. /\ Range(stack) = {Head(stack)} \cup Range(Tail(stack))
      /\ Return => Effect({})
      /\ Continue(<<c>>) => Effect({c})
      /\ Continue(<<a, c>>) => Effect({a, c})
      /\ Continue(<<a, b, c>>) => Effect({a, b, c})
  BY <1>1, Calls
<1>3. ASSUME NEW todo \in Seq(Frames), Continue(todo),
             \A i \in 1..Len(todo) :
                todo[i] \in ParserFrames => i = Len(todo) /\ Head(stack) \in ParserFrames
      PROVE  Inner'
  BY <1>1, <1>3, InnerGoesOn
<1>4. Return => Inner'
  <2>1. <<>> \in Seq(Frames) /\ \A i \in 1..Len(<<>>) : FALSE
    OBVIOUS
  <2> QED
    BY <1>3, <2>1 DEF Return
<1>5. Continue(<<c>>) => Inner'
  <2>1. <<c>> \in Seq(Frames)
    OBVIOUS
  <2>2. Len(<<c>>) = 1 /\ <<c>>[1] = c
    OBVIOUS
  <2>3. \A i \in 1..Len(<<c>>) :
          <<c>>[i] \in ParserFrames => i = Len(<<c>>) /\ Head(stack) \in ParserFrames
    <3> SUFFICES ASSUME NEW i \in 1..1, <<c>>[i] \in ParserFrames
                 PROVE  i = 1 /\ Head(stack) \in ParserFrames
      BY <2>2
    <3> QED
      BY <2>2
  <2> QED
    BY <1>3, <2>1, <2>3, Zenon
<1>6. Continue(<<a, c>>) => Inner'
  <2>1. <<a, c>> \in Seq(Frames)
    OBVIOUS
  <2>2. Len(<<a, c>>) = 2 /\ <<a, c>>[1] = a /\ <<a, c>>[2] = c
    OBVIOUS
  <2>3. \A i \in 1..Len(<<a, c>>) :
          <<a, c>>[i] \in ParserFrames => i = Len(<<a, c>>) /\ Head(stack) \in ParserFrames
    <3> SUFFICES ASSUME NEW i \in 1..2, <<a, c>>[i] \in ParserFrames
                 PROVE  i = 2 /\ Head(stack) \in ParserFrames
      BY <2>2
    <3> QED
      BY <2>2
  <2> QED
    BY <1>3, <2>1, <2>3, Zenon
<1>7. Continue(<<a, b, c>>) => Inner'
  <2>1. <<a, b, c>> \in Seq(Frames)
    OBVIOUS
  <2>2. Len(<<a, b, c>>) = 3 /\ <<a, b, c>>[1] = a /\ <<a, b, c>>[2] = b /\ <<a, b, c>>[3] = c
    OBVIOUS
  <2>3. \A i \in 1..Len(<<a, b, c>>) :
          <<a, b, c>>[i] \in ParserFrames => i = Len(<<a, b, c>>) /\ Head(stack) \in ParserFrames
    <3> SUFFICES ASSUME NEW i \in 1..3, <<a, b, c>>[i] \in ParserFrames
                 PROVE  i = 3 /\ Head(stack) \in ParserFrames
      BY <2>2
    <3> QED
      BY <2>2
  <2> QED
    BY <1>3, <2>1, <2>3, Zenon
<1> QED
  BY <1>2, <1>4, <1>5, <1>6, <1>7 DEF Goes

\* The events the client reports are those of the contract, and the user was
\* told of an event if it was before or if it is the one reported.
LEMMA Reported ==
  ASSUME IInv, NEW e \in Contract!Events, Report(e), NEW x
  PROVE  Told(x)' <=> Told(x) \/ x = e
<1>1. seen \in Seq(Contract!Events)
  BY DEF IInv, TypeOK
<1>2. CASE seen' = Append(seen, e)
  <2>1. /\ Len(seen) \in Nat /\ Len(seen') = Len(seen) + 1
        /\ \A i \in 1..Len(seen) : seen'[i] = seen[i]
        /\ seen'[Len(seen) + 1] = e
        /\ DOMAIN seen = 1..Len(seen) /\ DOMAIN seen' = 1..Len(seen')
    BY <1>1, <1>2, AppendProperties
  <2> QED
    BY <2>1 DEF Told, Contract!Saw
<1>3. CASE seen' = seen /\ seen # <<>> /\ seen[Len(seen)] = e
  <2>1. Len(seen) \in DOMAIN seen
    BY <1>1, <1>3, EmptySeq
  <2> QED
    BY <1>3, <2>1 DEF Told, Contract!Saw
<1> QED
  BY <1>2, <1>3 DEF Report, Contract!Record

\* Nothing is reported, and so the user is told of nothing.
LEMMA Unreported ==
  ASSUME UNCHANGED seen, NEW x
  PROVE  Told(x)' <=> Told(x)
BY DEF Told, Contract!Saw
-------------------------------------------------------------------------------
(***************************************************************************)
(* The invariant and the contract, action by action                        *)
(***************************************************************************)
Permitted == Contract!Next \/ UNCHANGED seen

\* The calls of reactor_http_client_close report nothing.
LEMMA CallsCInv ==
  ASSUME IInv, CInv, CloseEnter \/ CloseStream \/ CloseParser
  PROVE  CInv' /\ Permitted
<1>1. stack # <<>> /\ Head(stack) \in {"close", "close_stream", "close_parser"}
  BY DEF CloseEnter, CloseStream, CloseParser, At
<1>2. {"close", "close_stream", "close_parser", "finish"} \subseteq Frames \ (Handlers \cup ParserFrames)
  BY DEF Frames, CloseFrames, ParserFrames, Handlers
<1>3. /\ Range(stack) = {Head(stack)} \cup Range(Tail(stack))
      /\ \/ state \in {"CONNECTING", "CONNECTED"} /\ state' = "CLOSING"
         \/ state' = state /\ (Head(stack) = "close" => state \in {"CLOSED", "CLOSING"})
      /\ \/ Goes({}) \/ Goes({"finish"}) \/ Goes({"close_stream"}) \/ Goes({"close_parser"})
         \/ Goes({"close", "close_stream"}) \/ Goes({"close", "close_parser"})
  <2>1. CASE CloseEnter
    <3>1. /\ Range(stack) = {Head(stack)} \cup Range(Tail(stack))
          /\ Return => Goes({})
          /\ Continue(<<"finish">>) => Goes({"finish"})
          /\ Continue(<<"close_stream">>) => Goes({"close_stream"})
          /\ Continue(<<"close", "close_stream">>) => Goes({"close", "close_stream"})
      BY <1>1, <1>2, InnerCalls DEF CInv
    <3>2. \/ state \in {"CLOSED", "CLOSING"} /\ state' = state
          \/ state \in {"CONNECTING", "CONNECTED"} /\ state' = "CLOSING"
      BY <2>1 DEF CloseEnter
    <3>3. \/ Return \/ Continue(<<"finish">>) \/ Continue(<<"close_stream">>)
          \/ Continue(<<"close", "close_stream">>)
      BY <2>1 DEF CloseEnter, CloseAtOnce
    <3> QED
      BY <3>1, <3>2, <3>3
  <2>2. CASE CloseStream \/ CloseParser
    BY <1>1, <1>2, <2>2, InnerCalls DEF CInv, CloseStream, CloseParser, CloseAtOnce, At
  <2> QED
    BY <2>1, <2>2
<1>4. UNCHANGED <<streaming, seen>> /\ parser' \in {parser, "CLOSED"}
  BY DEF CloseEnter, CloseStream, CloseParser
<1>5. (Told("RESPONSE")' <=> Told("RESPONSE")) /\ (Told("ERROR")' <=> Told("ERROR"))
      /\ (Told("HEADER")' <=> Told("HEADER")) /\ (Told("CLOSE")' <=> Told("CLOSE"))
  BY <1>4, Unreported
<1>6. (state' = "CLOSED") <=> (state = "CLOSED")
  BY <1>3
<1>7. ToldClosed' /\ Inner' /\ Outcomes'
  BY <1>1, <1>3, <1>5, <1>6 DEF CInv, ToldClosed, Outcomes, Decided, Goes, Effect, ParserFrames
<1>8. Streamed'
  BY <1>1, <1>3, <1>4, <1>5, <1>6 DEF CInv, Streamed, Decided, Goes, Effect
<1> QED
  BY <1>4, <1>7, <1>8 DEF CInv, Permitted

\* The exchange ends: it was not closed before, nor is anything of the parser
\* left to do, and the user is told of it.
LEMMA FinishCInv ==
  ASSUME IInv, CInv, Finish
  PROVE  CInv' /\ Permitted
<1>1. stack # <<>> /\ Head(stack) = "finish"
  BY DEF Finish, At
<1>2. {"user", "finish"} \subseteq Frames \ (Handlers \cup ParserFrames)
  BY DEF Frames, CloseFrames, ParserFrames, Handlers
<1>3. /\ Range(stack) = {"finish"} \cup Range(Tail(stack))
      /\ Return => Goes({})
      /\ Continue(<<"user">>) => Goes({"user"})
  BY <1>1, <1>2, InnerCalls DEF CInv, ParserFrames
<1>4. UNCHANGED <<stream, parser, streaming>>
  BY DEF Finish, objects
<1>5. CASE CanFinish
  <2>1. state # "CLOSED" /\ stream = "CLOSED" /\ state' = "CLOSED" /\ Report("CLOSE") /\ Goes({"user"})
    BY <1>3, <1>5 DEF Finish, CanFinish
  <2>2. \A f \in ParserFrames : f \notin Range(stack)
    BY <2>1 DEF IInv, Handled
  <2>3. "CLOSE" \in Contract!Events
    BY DEF Contract!Events
  <2>4. /\ Told("CLOSE")'
        /\ (Told("RESPONSE")' <=> Told("RESPONSE")) /\ (Told("ERROR")' <=> Told("ERROR"))
        /\ (Told("HEADER")' <=> Told("HEADER"))
    BY <2>1, <2>3, Reported
  <2>5. CInv'
    BY <1>3, <2>1, <2>2, <2>4
       DEF CInv, ToldClosed, Outcomes, Streamed, Decided, Goes, Effect, ParserFrames
  <2>6. Contract!Close
    BY <2>1 DEF CInv, ToldClosed, Told, Contract!Close, Report
  <2> QED
    BY <2>5, <2>6 DEF Permitted, Contract!Next
<1>6. CASE ~CanFinish
  <2>1. Goes({}) /\ UNCHANGED <<state, seen>>
    BY <1>3, <1>6 DEF Finish
  <2>2. /\ (Told("RESPONSE")' <=> Told("RESPONSE")) /\ (Told("ERROR")' <=> Told("ERROR"))
        /\ (Told("HEADER")' <=> Told("HEADER")) /\ (Told("CLOSE")' <=> Told("CLOSE"))
    BY <2>1, Unreported
  <2>3. CInv'
    BY <1>3, <1>4, <2>1, <2>2
       DEF CInv, ToldClosed, Outcomes, Streamed, Decided, Goes, Effect, ParserFrames
  <2> QED
    BY <2>1, <2>3 DEF Permitted
<1> QED
  BY <1>5, <1>6

\* The user opens a closed client, for which the stack is as it was: whatever
\* was left to do of the parser is done.
LEMMA OpenCInv ==
  ASSUME IInv, CInv, NEW fl \in BOOLEAN, OpenSucceeds(fl) \/ OpenFails(fl)
  PROVE  CInv' /\ Permitted
<1>1. state = "CLOSED" /\ stack' = stack
  BY DEF OpenSucceeds, OpenFails
<1>2. \A f \in ParserFrames : f \notin Range(stack)
  BY <1>1 DEF IInv, Agree, Handled
<1>3. Inner'
  BY <1>1 DEF CInv, Inner
<1>4. CASE OpenSucceeds(fl)
  <2>1. state' = "CONNECTING" /\ parser' = "RESPONSE_HEADER" /\ seen' = <<>>
    BY <1>4 DEF OpenSucceeds
  <2>2. ~Told("CLOSE")' /\ ~Told("RESPONSE")' /\ ~Told("ERROR")'
    BY <2>1 DEF Told, Contract!Saw
  <2>3. CInv'
    BY <1>1, <1>2, <1>3, <2>1, <2>2
       DEF CInv, ToldClosed, Outcomes, Streamed, Decided, ParserFrames
  <2>4. Contract!Open
    BY <1>1, <2>1 DEF CInv, ToldClosed, Told, Contract!Open
  <2> QED
    BY <2>3, <2>4 DEF Permitted, Contract!Next
<1>5. CASE OpenFails(fl)
  <2>1. UNCHANGED <<state, seen>>
    BY <1>5 DEF OpenFails
  <2>2. /\ (Told("RESPONSE")' <=> Told("RESPONSE")) /\ (Told("ERROR")' <=> Told("ERROR"))
        /\ (Told("HEADER")' <=> Told("HEADER")) /\ (Told("CLOSE")' <=> Told("CLOSE"))
    BY <2>1, Unreported
  <2>3. CInv'
    BY <1>1, <1>3, <2>1, <2>2
       DEF CInv, ToldClosed, Outcomes, Streamed, Decided, ParserFrames
  <2> QED
    BY <2>1, <2>3 DEF Permitted
<1> QED
  BY <1>4, <1>5

\* The user closes, or returns.
LEMMA CallbackCInv ==
  ASSUME IInv, CInv, UserCloses \/ UserReturns
  PROVE  CInv' /\ Permitted
<1>1. UNCHANGED <<state, parser, streaming, seen>>
  BY DEF UserCloses, UserReturns
<1>2. /\ (Told("RESPONSE")' <=> Told("RESPONSE")) /\ (Told("ERROR")' <=> Told("ERROR"))
      /\ (Told("HEADER")' <=> Told("HEADER")) /\ (Told("CLOSE")' <=> Told("CLOSE"))
  BY <1>1, Unreported
<1>3. {"user", "close"} \subseteq Frames \ (Handlers \cup ParserFrames)
  BY DEF Frames, CloseFrames, ParserFrames, Handlers
<1>4. CASE stack = <<>>
  <2>1. stack' = <<"close">> /\ Range(stack) = {} /\ Range(stack') = {"close"}
    <3>1. stack' = <<"close">>
      BY <1>4 DEF UserCloses, UserReturns, At
    <3>2. Range(<<"close">>) = {"close"} /\ Range(<<>>) = {}
      BY DEF Range
    <3> QED
      BY <1>4, <3>1, <3>2
  <2>2. Inner'
    BY <1>3, <2>1 DEF Inner
  <2> QED
    BY <1>1, <1>2, <2>1, <2>2
       DEF CInv, ToldClosed, Outcomes, Streamed, Decided, ParserFrames, Permitted
<1>5. CASE stack # <<>>
  <2>1. Head(stack) = "user" /\ (Continue(<<"close">>) \/ Return)
    BY <1>5 DEF UserCloses, UserReturns, UserRuns, At, Continue
  <2>2. Range(stack) = {"user"} \cup Range(Tail(stack)) /\ (Goes({"close"}) \/ Goes({}))
    BY <1>3, <1>5, <2>1, InnerCalls DEF CInv, ParserFrames
  <2> QED
    BY <1>1, <1>2, <2>2
       DEF CInv, ToldClosed, Outcomes, Streamed, Decided, Goes, Effect, ParserFrames, Permitted
<1> QED
  BY <1>4, <1>5

\* The event loop has put frames on an empty stack, which has its shape.
Begun(frames) == Begins(frames) /\ Inner'

\* The parser is called right by the handler of an event.
LEMMA InnerDispatches ==
  ASSUME NEW a \in Frames \ (Handlers \cup ParserFrames), NEW b \in Frames \ Handlers,
         NEW h \in Frames \ ParserFrames
  PROVE  /\ Dispatch(<<h>>) => Begun({h})
         /\ Dispatch(<<b, h>>) => Begun({b, h})
         /\ Dispatch(<<a, b, h>>) => Begun({a, b, h})
<1>1. ASSUME Dispatch(<<h>>) PROVE Inner'
  <2>1. DOMAIN stack' = {1} /\ stack'[1] = h
    BY <1>1 DEF Dispatch
  <2> QED
    BY <2>1 DEF Inner
<1>2. ASSUME Dispatch(<<b, h>>) PROVE Inner'
  <2>1. DOMAIN stack' = {1, 2} /\ stack'[2] = h /\ Len(stack') = 2
    BY <1>2 DEF Dispatch
  <2> QED
    BY <2>1 DEF Inner
<1>3. ASSUME Dispatch(<<a, b, h>>) PROVE Inner'
  <2>1. DOMAIN stack' = {1, 2, 3} /\ stack'[1] = a /\ stack'[3] = h /\ Len(stack') = 3
    BY <1>3 DEF Dispatch
  <2> QED
    BY <2>1 DEF Inner
<1> QED
  BY <1>1, <1>2, <1>3, Dispatches DEF Begun

\* The events of the network come while the exchange is open and undecided: an
\* outcome would have a close on the stack, which is empty.
LEMMA NetworkCInv ==
  ASSUME IInv, CInv, Network
  PROVE  CInv' /\ Permitted
<1>1. /\ {"user", "close"} \subseteq Frames \ (Handlers \cup ParserFrames)
      /\ "parse" \in Frames \ Handlers
      /\ {"in_tcp", "in_stream"} \subseteq Frames \ ParserFrames
  BY DEF Frames, CloseFrames, ParserFrames, Handlers
<1>2. UNCHANGED <<parser, streaming>>
  BY DEF Network, TcpError, StreamConnect, StreamData, StreamError, StreamEnd
<1>3. stack = <<>> /\ (tcp_client = "OPEN" \/ stream = "OPEN")
  BY DEF Network, TcpError, StreamConnect, StreamData, StreamError, StreamEnd, Dispatch
<1>4. Range(stack) = {}
  BY <1>3 DEF Range
<1>5. state \in {"CONNECTING", "CONNECTED"} /\ ~Told("CLOSE") /\ ~Decided
  BY <1>3, <1>4 DEF IInv, TypeOK, States, Agree, CInv, ToldClosed, Outcomes
<1>6. /\ state' \in {"CONNECTING", "CONNECTED"}
      /\ \/ /\ seen' = seen
            /\ Begun({"in_stream"}) \/ Begun({"parse", "in_stream"}) \/ Begun({"close", "in_stream"})
         \/ /\ Report("ERROR")
            /\ Begun({"user", "close", "in_tcp"}) \/ Begun({"user", "close", "in_stream"})
  <2>1. CASE TcpError \/ StreamConnect
    BY <1>1, <1>5, <2>1, InnerDispatches DEF TcpError, StreamConnect
  <2>2. CASE StreamData \/ StreamEnd
    BY <1>1, <1>5, <2>2, InnerDispatches DEF StreamData, StreamEnd
  <2>3. CASE StreamError
    BY <1>1, <1>5, <2>3, InnerDispatches DEF StreamError
  <2> QED
    BY <2>1, <2>2, <2>3 DEF Network
<1>7. CASE seen' = seen
  <2>1. /\ (Told("RESPONSE")' <=> Told("RESPONSE")) /\ (Told("ERROR")' <=> Told("ERROR"))
        /\ (Told("HEADER")' <=> Told("HEADER")) /\ (Told("CLOSE")' <=> Told("CLOSE"))
    BY <1>7, Unreported
  <2>2. ~Decided'
    BY <1>5, <2>1 DEF Decided
  <2>3. /\ "after_header" \notin Range(stack') /\ "after_done" \notin Range(stack') /\ Inner'
    BY <1>6 DEF Begun, Begins
  <2> QED
    BY <1>2, <1>4, <1>5, <1>6, <1>7, <2>1, <2>2, <2>3
       DEF CInv, ToldClosed, Outcomes, Streamed, Permitted
<1>8. CASE Report("ERROR") /\ (Begun({"user", "close", "in_tcp"}) \/ Begun({"user", "close", "in_stream"}))
  <2>1. "ERROR" \in Contract!Events
    BY DEF Contract!Events
  <2>2. Told("ERROR")' /\ ~Told("CLOSE")' /\ (Told("HEADER")' <=> Told("HEADER"))
    BY <1>5, <1>8, <2>1, Reported
  <2>3. CInv'
    BY <1>2, <1>4, <1>5, <1>6, <1>8, <2>2
       DEF CInv, ToldClosed, Outcomes, Streamed, Decided, Begun, Begins, ParserFrames
  <2>4. Contract!Outcome("ERROR")
    BY <1>5, <1>8 DEF Decided, Told, Contract!Outcome, Report
  <2> QED
    BY <2>3, <2>4 DEF Permitted, Contract!Next
<1> QED
  BY <1>6, <1>7, <1>8

\* The event loop completes a close, in an exchange that is closing.
LEMMA ClosedCInv ==
  ASSUME IInv, CInv, Closed
  PROVE  CInv' /\ Permitted
<1>1. "close" \in Frames \ ParserFrames
  BY DEF Frames, CloseFrames, ParserFrames
<1>2. UNCHANGED <<state, parser, streaming, seen>>
  BY DEF Closed, TcpClosed, StreamClosed
<1>3. Begun({"close"})
  <2>1. Dispatch(<<"close">>)
    BY DEF Closed, TcpClosed, StreamClosed
  <2>2. "user" \in Frames \ (Handlers \cup ParserFrames)
    BY DEF Frames, CloseFrames, ParserFrames, Handlers
  <2> QED
    BY <1>1, <2>1, <2>2, InnerDispatches
<1>4. /\ (Told("RESPONSE")' <=> Told("RESPONSE")) /\ (Told("ERROR")' <=> Told("ERROR"))
      /\ (Told("HEADER")' <=> Told("HEADER")) /\ (Told("CLOSE")' <=> Told("CLOSE"))
  BY <1>2, Unreported
<1> QED
  BY <1>2, <1>3, <1>4
     DEF CInv, ToldClosed, Outcomes, Streamed, Decided, Begun, Begins, ParserFrames, Permitted

\* The handler of an event ends.
LEMMA HandlerEndsCInv ==
  ASSUME IInv, CInv, HandlerEnds
  PROVE  CInv' /\ Permitted
<1>1. stack # <<>> /\ Head(stack) \in Handlers /\ Return
  BY DEF HandlerEnds, At, Handlers
<1>2. "user" \in Frames \ (Handlers \cup ParserFrames)
  BY DEF Frames, CloseFrames, ParserFrames, Handlers
<1>3. Range(stack) = {Head(stack)} \cup Range(Tail(stack)) /\ Goes({})
  BY <1>1, <1>2, InnerCalls DEF CInv
<1>4. UNCHANGED <<state, parser, streaming, seen>>
  BY DEF HandlerEnds
<1>5. /\ (Told("RESPONSE")' <=> Told("RESPONSE")) /\ (Told("ERROR")' <=> Told("ERROR"))
      /\ (Told("HEADER")' <=> Told("HEADER")) /\ (Told("CLOSE")' <=> Told("CLOSE"))
  BY <1>4, Unreported
<1> QED
  BY <1>1, <1>3, <1>4, <1>5
     DEF CInv, ToldClosed, Outcomes, Streamed, Decided, Goes, Effect, Handlers, ParserFrames, Permitted

\* The parser looks at its input, in an exchange that is open and undecided, and
\* with nothing else of it in progress.
LEMMA ParseState ==
  ASSUME IInv, CInv, stack # <<>>, Head(stack) \in ParserFrames
  PROVE  /\ Range(stack) = {Head(stack), "in_stream"} /\ Range(Tail(stack)) = {"in_stream"}
         /\ state # "CLOSED" /\ ~Told("CLOSE")
         /\ Head(stack) # "after_done" => ~Decided
         /\ Head(stack) = "after_done" => Decided
         /\ Return => Goes({})
         /\ Continue(<<"parse">>) => Goes({"parse"})
         /\ Continue(<<"user", "close">>) => Goes({"user", "close"})
         /\ Continue(<<"user", "after_header">>) => Goes({"user", "after_header"})
         /\ Continue(<<"user", "after_chunk">>) => Goes({"user", "after_chunk"})
         /\ Continue(<<"user", "close", "after_done">>) => Goes({"user", "close", "after_done"})
<1>1. Range(Tail(stack)) = {"in_stream"}
  BY ParserAlone DEF CInv
<1>2. /\ {"user", "close"} \subseteq Frames \ (Handlers \cup ParserFrames)
      /\ {"parse", "after_header", "after_chunk", "after_done"} \subseteq Frames \ Handlers
  BY DEF Frames, CloseFrames, ParserFrames, Handlers
<1>3. Range(stack) = {Head(stack)} \cup Range(Tail(stack))
  BY <1>2, InnerCalls DEF CInv
<1>4. /\ Return => Goes({})
      /\ Continue(<<"parse">>) => Goes({"parse"})
      /\ Continue(<<"user", "close">>) => Goes({"user", "close"})
      /\ Continue(<<"user", "after_header">>) => Goes({"user", "after_header"})
      /\ Continue(<<"user", "after_chunk">>) => Goes({"user", "after_chunk"})
      /\ Continue(<<"user", "close", "after_done">>) => Goes({"user", "close", "after_done"})
  BY <1>2, InnerCalls DEF CInv
<1>5. state # "CLOSED"
  BY <1>1, <1>3 DEF IInv, Agree, Handled
<1>6. /\ Head(stack) # "after_done" => ~Decided
      /\ Head(stack) = "after_done" => Decided
  BY <1>3 DEF CInv, Outcomes
<1> QED
  BY <1>1, <1>3, <1>4, <1>5, <1>6 DEF CInv, ToldClosed

\* The handlers that report nothing.
LEMMA SilentCInv ==
  ASSUME IInv, CInv, UNCHANGED seen,
         ParseWaits \/ ParseHeader \/ AfterHeader \/ ParseBody \/ AfterChunk \/ AfterDone
  PROVE  CInv' /\ Permitted
<1>1. stack # <<>> /\ Head(stack) \in ParserFrames
  BY DEF ParseWaits, ParseHeader, AfterHeader, ParseBody, AfterChunk, AfterDone, At, ParserFrames
<1>2. /\ Range(stack) = {Head(stack), "in_stream"} /\ Range(Tail(stack)) = {"in_stream"}
      /\ state # "CLOSED" /\ ~Told("CLOSE")
      /\ Head(stack) # "after_done" => ~Decided
      /\ Head(stack) = "after_done" => Decided
      /\ Continue(<<"parse">>) => Goes({"parse"})
      /\ Continue(<<"user", "after_header">>) => Goes({"user", "after_header"})
      /\ Return => Goes({})
  BY <1>1, ParseState
<1>3. UNCHANGED <<state, streaming>>
  BY DEF ParseWaits, ParseHeader, AfterHeader, ParseBody, AfterChunk, AfterDone
<1>4. /\ (Told("RESPONSE")' <=> Told("RESPONSE")) /\ (Told("ERROR")' <=> Told("ERROR"))
      /\ (Told("HEADER")' <=> Told("HEADER")) /\ (Told("CLOSE")' <=> Told("CLOSE"))
  BY Unreported
<1>5. Decided' <=> Decided
  BY <1>4 DEF Decided
<1>6. CASE ParseWaits
  <2>1. Goes({}) /\ Head(stack) = "parse" /\ parser' = parser
    BY <1>2, <1>6 DEF ParseWaits, At
  <2> QED
    BY <1>2, <1>3, <1>4, <1>5, <2>1
       DEF CInv, ToldClosed, Outcomes, Streamed, Goes, Effect, Permitted
<1>7. CASE AfterDone
  <2>1. Goes({}) /\ Head(stack) = "after_done" /\ parser' = "RESPONSE_HEADER"
    BY <1>2, <1>7 DEF AfterDone, At
  <2> QED
    BY <1>2, <1>3, <1>4, <1>5, <2>1
       DEF CInv, ToldClosed, Outcomes, Streamed, Goes, Effect, ParserFrames, Permitted
<1>8. CASE AfterHeader \/ ParseBody
  <2>1. /\ Goes({"parse"}) /\ Head(stack) \in {"parse", "after_header"}
        /\ \/ parser' = "FINAL"
           \/ Head(stack) = "after_header" /\ parser' = "BODY"
    BY <1>2, <1>8 DEF AfterHeader, ParseBody, At
  <2> QED
    BY <1>2, <1>3, <1>4, <1>5, <2>1
       DEF CInv, ToldClosed, Outcomes, Streamed, Goes, Effect, Permitted
<1>9. CASE AfterChunk
  <2>1. /\ Goes({"parse"}) \/ Goes({})
        /\ Head(stack) = "after_chunk" /\ parser' \in {parser, "FINAL"}
    BY <1>2, <1>9 DEF AfterChunk, At
  <2> QED
    BY <1>2, <1>3, <1>4, <1>5, <1>9, <2>1
       DEF AfterChunk, At, CInv, ToldClosed, Outcomes, Streamed, Goes, Effect, Permitted
<1>10. CASE ParseHeader
  <2>1. Head(stack) = "parse" /\ parser = "RESPONSE_HEADER" /\ seen = <<>>
    BY <1>2, <1>10 DEF ParseHeader, At, CInv, Streamed
  <2>2. ~streaming
    <3>1. \/ ~streaming \/ Report("HEADER")
      BY <1>10 DEF ParseHeader
    <3>2. "HEADER" \in Contract!Events
      BY DEF Contract!Events
    <3>3. Report("HEADER") => Told("HEADER")'
      BY <3>2, Reported
    <3>4. ~Told("HEADER")
      BY <2>1 DEF Told, Contract!Saw
    <3> QED
      BY <1>4, <3>1, <3>3, <3>4
  <2>3. Goes({"parse"}) /\ parser' = "BODY"
    BY <1>2, <1>10, <2>2 DEF ParseHeader
  <2> QED
    BY <1>2, <1>3, <1>4, <1>5, <2>1, <2>2, <2>3
       DEF CInv, ToldClosed, Outcomes, Streamed, Goes, Effect, Permitted
<1> QED
  BY <1>6, <1>7, <1>8, <1>9, <1>10

\* The handlers that report what they found, each where the contract has it.
LEMMA ReportCInv ==
  ASSUME IInv, CInv, ParseError \/ ParseFinal \/ ParseChunk \/ (ParseHeader /\ Report("HEADER"))
  PROVE  CInv' /\ Permitted
<1>1. stack # <<>> /\ Head(stack) = "parse" /\ Head(stack) \in ParserFrames
  BY DEF ParseError, ParseFinal, ParseChunk, ParseHeader, At, ParserFrames
<1>2. /\ Range(stack) = {"parse", "in_stream"} /\ Range(Tail(stack)) = {"in_stream"}
      /\ state # "CLOSED" /\ ~Told("CLOSE") /\ ~Decided
      /\ Continue(<<"user", "after_header">>) => Goes({"user", "after_header"})
      /\ Continue(<<"user", "after_chunk">>) => Goes({"user", "after_chunk"})
      /\ Continue(<<"user", "close", "after_done">>) => Goes({"user", "close", "after_done"})
      /\ Continue(<<"user", "close">>) => Goes({"user", "close"})
  BY <1>1, ParseState
<1>3. UNCHANGED <<state, streaming>>
  BY DEF ParseError, ParseFinal, ParseChunk, ParseHeader
<1>4. {"ERROR", "RESPONSE", "CHUNK", "HEADER"} \subseteq Contract!Events
  BY DEF Contract!Events
<1>5. ~Told("RESPONSE") /\ ~Told("ERROR")
  BY <1>2 DEF Decided
<1>6. CASE ParseError \/ ParseFinal
  <2>1. /\ parser' = parser
        /\ \/ Report("ERROR") /\ Goes({"user", "close"})
           \/ Report("RESPONSE") /\ Goes({"user", "close", "after_done"})
    BY <1>2, <1>6 DEF ParseError, ParseFinal
  <2>2. /\ Told("ERROR")' \/ Told("RESPONSE")'
        /\ ~Told("CLOSE")' /\ (Told("HEADER")' <=> Told("HEADER"))
    BY <1>2, <1>4, <2>1, Reported
  <2>3. CInv'
    BY <1>2, <1>3, <2>1, <2>2
       DEF CInv, ToldClosed, Outcomes, Streamed, Decided, Goes, Effect, ParserFrames
  <2>4. Contract!Outcome("ERROR") \/ Contract!Outcome("RESPONSE")
    BY <1>2, <1>5, <2>1 DEF Told, Contract!Outcome, Report
  <2> QED
    BY <2>3, <2>4 DEF Permitted, Contract!Next
<1>7. CASE ParseChunk
  <2>1. parser = "BODY" /\ parser' = "BODY" /\ streaming /\ Report("CHUNK") /\ Goes({"user", "after_chunk"})
    BY <1>2, <1>7 DEF ParseChunk
  <2>2. Told("HEADER")
    BY <1>2, <2>1 DEF CInv, Streamed
  <2>3. /\ Told("HEADER")' /\ ~Told("CLOSE")' /\ ~Told("RESPONSE")' /\ ~Told("ERROR")'
    BY <1>2, <1>4, <1>5, <2>1, <2>2, Reported
  <2>4. CInv'
    BY <1>2, <1>3, <2>1, <2>3
       DEF CInv, ToldClosed, Outcomes, Streamed, Decided, Goes, Effect
  <2>5. Contract!Chunk
    BY <1>2, <1>5, <2>1, <2>2 DEF Told, Contract!Chunk, Report
  <2> QED
    BY <2>4, <2>5 DEF Permitted, Contract!Next
<1>8. CASE ParseHeader /\ Report("HEADER")
  <2>1. parser = "RESPONSE_HEADER" /\ seen = <<>>
    BY <1>2, <1>8 DEF ParseHeader, CInv, Streamed
  <2>2. /\ Told("HEADER")' /\ ~Told("CLOSE")' /\ ~Told("RESPONSE")' /\ ~Told("ERROR")'
    BY <1>2, <1>4, <1>5, <1>8, Reported
  <2>3. streaming /\ parser' = parser /\ Goes({"user", "after_header"})
    <3>1. ~(UNCHANGED seen)
      BY <2>1, <2>2 DEF Told, Contract!Saw
    <3> QED
      BY <1>2, <1>8, <3>1 DEF ParseHeader
  <2>4. CInv'
    BY <1>2, <1>3, <2>1, <2>2, <2>3
       DEF CInv, ToldClosed, Outcomes, Streamed, Decided, Goes, Effect
  <2>5. Contract!Header
    BY <1>8, <2>1 DEF Contract!Header, Report
  <2> QED
    BY <2>4, <2>5 DEF Permitted, Contract!Next
<1> QED
  BY <1>6, <1>7, <1>8
-------------------------------------------------------------------------------
(***************************************************************************)
(* The theorem                                                             *)
(***************************************************************************)
\* Before the first open the user sees no exchange.
LEMMA InitCInv == Init => CInv
<1> SUFFICES ASSUME Init PROVE CInv
  OBVIOUS
<1>1. state = "CLOSED" /\ stack = <<>> /\ seen = <<"CLOSE">>
  BY DEF Init
<1>2. Range(stack) = {} /\ DOMAIN stack = {}
  BY <1>1 DEF Range
<1>3. Told("CLOSE") /\ ~Told("RESPONSE") /\ ~Told("ERROR")
  BY <1>1 DEF Told, Contract!Saw
<1> QED
  BY <1>1, <1>2, <1>3 DEF CInv, ToldClosed, Inner, Outcomes, Streamed, Decided

\* Every step keeps the invariant and is one the contract has.
LEMMA NextCInv ==
  ASSUME IInv, CInv, [Next]_vars
  PROVE  CInv' /\ Permitted
<1>1. CASE User
  BY <1>1, OpenCInv, CallbackCInv DEF User
<1>2. CASE Closing
  BY <1>2, CallsCInv, FinishCInv DEF Closing
<1>3. CASE Network \/ Closed \/ HandlerEnds
  BY <1>3, NetworkCInv, ClosedCInv, HandlerEndsCInv
<1>4. CASE Parser
  <2>1. CASE ParseHeader
    BY <2>1, SilentCInv, ReportCInv DEF ParseHeader
  <2>2. CASE ParseWaits \/ AfterHeader \/ ParseBody \/ AfterChunk \/ AfterDone
    <3>1. UNCHANGED seen
      BY <2>2 DEF ParseWaits, AfterHeader, ParseBody, AfterChunk, AfterDone
    <3> QED
      BY <2>2, <3>1, SilentCInv
  <2>3. CASE ParseError \/ ParseFinal \/ ParseChunk
    BY <2>3, ReportCInv
  <2> QED
    BY <1>4, <2>1, <2>2, <2>3 DEF Parser
<1>5. CASE UNCHANGED vars
  <2>1. UNCHANGED <<state, parser, streaming, stack, seen>>
    BY <1>5 DEF vars
  <2>2. /\ (Told("RESPONSE")' <=> Told("RESPONSE")) /\ (Told("ERROR")' <=> Told("ERROR"))
        /\ (Told("HEADER")' <=> Told("HEADER")) /\ (Told("CLOSE")' <=> Told("CLOSE"))
    BY <2>1, Unreported
  <2> QED
    BY <2>1, <2>2 DEF CInv, ToldClosed, Inner, Outcomes, Streamed, Decided, Permitted
<1> QED
  BY <1>1, <1>2, <1>3, <1>4, <1>5 DEF Next

\* The user of a client, whatever happens to its connection and whatever the
\* user does in its callbacks, sees the exchanges ExchangeContract describes:
\* one outcome at most, a body behind its header, one CLOSE, and nothing more.
THEOREM ContractKept == Spec => ImplementsContract
<1>1. Init => IInv /\ CInv /\ Contract!Init
  BY InitIInv, InitCInv DEF Init, Contract!Init
<1>2. (IInv /\ CInv) /\ [Next]_vars => (IInv /\ CInv)' /\ [Contract!Next]_seen
  BY NextIInv, NextCInv DEF Permitted
<1> QED
  BY <1>1, <1>2, PTL DEF Spec, ImplementsContract, Contract!Spec
===============================================================================
