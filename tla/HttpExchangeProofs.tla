-------------------------- MODULE HttpExchangeProofs --------------------------
(***************************************************************************)
(* The client and its parser are right about each other: over the real     *)
(* parser the client does only what HttpClient has it do, and it uses the  *)
(* parser only as HttpParser lets an owner.  So what is proved of each     *)
(* alone holds of the two together, for every traffic, every split of it   *)
(* and every nesting of calls.                                             *)
(*                                                                         *)
(* The argument has two parts.  A step of the composition is a step of the *)
(* client, by cases over what the parser dispatches, and a step of the     *)
(* parser, by its definition.  And the parser's call in progress (pc) is   *)
(* the one that is left to do on the client's stack (Link).                *)
(***************************************************************************)
EXTENDS HttpExchange, SequenceTheorems, TLAPS

\* The theorems about the two.  Instances of their own, they define anew what
\* Parser and Client of HttpExchange define; the first lemmas say it is the same.
ParserTheory == INSTANCE HttpDeliveryProofs WITH state <- parser_state, opens <- connections

ClientTheory ==
  INSTANCE HttpClientProofs
    WITH parser <- IF parser_state = "CHUNKED_BODY" THEN "BODY" ELSE parser_state,
         streaming <- "STREAM" \in flags

-------------------------------------------------------------------------------
\* The same framings are well-formed.
LEMMA SameWellFormed == ASSUME NEW f PROVE Parser!WellFormed(f) <=> ParserTheory!WellFormed(f)
  <1>1. Parser!SizeBefore(f.chunks) = ParserTheory!SizeBefore(f.chunks)
    BY DEF Parser!SizeBefore, ParserTheory!SizeBefore
  <1> QED
    BY <1>1 DEF Parser!WellFormed, ParserTheory!WellFormed

\* The same bytes carry the same messages.
LEMMA SameCarries ==
  ASSUME NEW bytes, NEW msgs
  PROVE  Parser!Carries(bytes, msgs) <=> ParserTheory!Carries(bytes, msgs)
  <1>1. \A m : Parser!HeaderBytes(m) = ParserTheory!HeaderBytes(m)
    BY DEF Parser!HeaderBytes, ParserTheory!HeaderBytes, Parser!Byte, ParserTheory!Byte
  <1>2. \A m, from, n : Parser!DataBytes(m, from, n) = ParserTheory!DataBytes(m, from, n)
    BY DEF Parser!DataBytes, ParserTheory!DataBytes, Parser!Byte, ParserTheory!Byte
  <1>3. \A m, from, n : Parser!ChunkBytes(m, from, n) = ParserTheory!ChunkBytes(m, from, n)
    BY <1>2 DEF Parser!ChunkBytes, ParserTheory!ChunkBytes, Parser!CrLf, ParserTheory!CrLf,
                Parser!Byte, ParserTheory!Byte
  <1>4. \A s : Parser!FlattenSeq(s) = ParserTheory!FlattenSeq(s)
    BY DEF Parser!FlattenSeq, ParserTheory!FlattenSeq
  <1>5. \A m, f : Parser!BodyBytes(m, f) = ParserTheory!BodyBytes(m, f)
    <2> TAKE m, f
    <2>1. Parser!SizeBefore(f.chunks) = ParserTheory!SizeBefore(f.chunks)
      BY DEF Parser!SizeBefore, ParserTheory!SizeBefore
    <2>2. [k \in 1..Len(f.chunks) |->
             Parser!ChunkBytes(m, Parser!SizeBefore(f.chunks)[k-1], f.chunks[k])]
            = [k \in 1..Len(f.chunks) |->
                 ParserTheory!ChunkBytes(m, ParserTheory!SizeBefore(f.chunks)[k-1], f.chunks[k])]
      BY <1>3, <2>1
    <2> QED
      BY <1>2, <1>3, <1>4, <2>2 DEF Parser!BodyBytes, ParserTheory!BodyBytes
  <1>6. \A s : Parser!Encode(s) = ParserTheory!Encode(s)
    <2> TAKE s
    <2>1. [m \in 1..Len(s) |-> Parser!HeaderBytes(m) \o Parser!BodyBytes(m, s[m])]
            = [m \in 1..Len(s) |-> ParserTheory!HeaderBytes(m) \o ParserTheory!BodyBytes(m, s[m])]
      BY <1>1, <1>5
    <2> QED
      BY <1>4, <2>1 DEF Parser!Encode, ParserTheory!Encode
  <1>7. \A s, t : Parser!IsPrefix(s, t) <=> ParserTheory!IsPrefix(s, t)
    BY DEF Parser!IsPrefix, ParserTheory!IsPrefix
  <1> QED
    BY <1>1, <1>6, <1>7, SameWellFormed DEF Parser!Carries, ParserTheory!Carries

\* What HttpParser assumes of the constants is assumed here.
LEMMA ParserAssumptions ==
  /\ HdrLen \in Nat \ {0} /\ SizeMod \in Nat /\ SizeMod > HdrLen
  /\ Traffic \subseteq [sent : Seq(ParserTheory!Framings), bytes : Seq(ParserTheory!Bytes)]
  /\ \A t \in Traffic : /\ Len(t.bytes) + 2 < SizeMod
                        /\ \A i \in 1..Len(t.bytes) : t.bytes[i].m \in 1..Len(t.sent)
  /\ \A t \in Traffic : ParserTheory!Carries(t.bytes, t.sent)
  /\ OpenFlags \subseteq {{}, {"RESPONSE"}, {"RESPONSE", "STREAM"}}
  /\ Bases \subseteq Nat /\ MaxOpens \in Nat
  <1>1. ParserTheory!Framings = Parser!Framings /\ ParserTheory!Bytes = Parser!Bytes
    BY DEF ParserTheory!Framings, Parser!Framings, ParserTheory!FramingKinds,
           Parser!FramingKinds, ParserTheory!Bytes, Parser!Bytes, ParserTheory!ByteKinds,
           Parser!ByteKinds
  <1>2. \A t \in Traffic : ParserTheory!Carries(t.bytes, t.sent)
    <2>1. \A t \in Traffic : Parser!Carries(t.bytes, t.sent)
      BY ExchangeAssumption
    <2> QED
      BY <2>1, SameCarries
  <1> QED
    BY <1>1, <1>2, ExchangeAssumption

\* The parser's specification is the same in the two instances.
LEMMA SameParser ==
  /\ Parser!Init <=> ParserTheory!Init
  /\ [Parser!Next]_Parser!vars <=> [ParserTheory!Next]_ParserTheory!vars
  <1> USE DEF Parser!parserVars, ParserTheory!parserVars, Parser!messageVars, ParserTheory!messageVars,
         Parser!streamVars, ParserTheory!streamVars, Parser!controlVars, ParserTheory!controlVars,
         Parser!historyVars, ParserTheory!historyVars
  <1> USE DEF Parser!Streaming, ParserTheory!Streaming, Parser!Min2, ParserTheory!Min2, Parser!Wrap, ParserTheory!Wrap,
              Parser!Consume, ParserTheory!Consume, Parser!Callbacks, ParserTheory!Callbacks
  <1>1. Parser!Init <=> ParserTheory!Init
    BY DEF Parser!Init, ParserTheory!Init
  <1>2. Parser!Close <=> ParserTheory!Close
    BY DEF Parser!Close, ParserTheory!Close
  <1>3. Parser!ClearFields <=> ParserTheory!ClearFields
    BY DEF Parser!ClearFields, ParserTheory!ClearFields
  <1>4. Parser!Error <=> ParserTheory!Error
    BY DEF Parser!Error, ParserTheory!Error
  <1>5. \A fl \in OpenFlags, t \in Traffic : Parser!Open(fl, t) <=> ParserTheory!Open(fl, t)
    BY DEF Parser!Open, ParserTheory!Open
  <1>6. \A k \in 1..Len(inflight), b \in Bases : Parser!Data(k, b) <=> ParserTheory!Data(k, b)
    BY DEF Parser!Data, ParserTheory!Data
  <1>7. Parser!Ignore <=> ParserTheory!Ignore
    BY DEF Parser!Ignore, ParserTheory!Ignore
  <1>8. Parser!ErrorReturns <=> ParserTheory!ErrorReturns
    BY DEF Parser!ErrorReturns, ParserTheory!ErrorReturns
  <1>9. Parser!ParseResults = ParserTheory!ParseResults
    BY DEF Parser!ParseResults, ParserTheory!ParseResults
  <1>10. \A flds : Parser!FoundFramings(flds) = ParserTheory!FoundFramings(flds)
    BY DEF Parser!FoundFramings, ParserTheory!FoundFramings
  <1>11. \A n, flds : Parser!SelectBody(n, flds) <=> ParserTheory!SelectBody(n, flds)
    BY <1>10 DEF Parser!SelectBody, ParserTheory!SelectBody
  <1>12. Parser!HeaderFails <=> ParserTheory!HeaderFails
    BY <1>9 DEF Parser!HeaderFails, ParserTheory!HeaderFails
  <1>13. \A m : Parser!AddFields(m) <=> ParserTheory!AddFields(m)
    BY DEF Parser!AddFields, ParserTheory!AddFields
  <1>14. Parser!RequestHeader <=> ParserTheory!RequestHeader
    BY <1>9, <1>11, <1>12, <1>13 DEF Parser!RequestHeader, ParserTheory!RequestHeader
  <1>15. Parser!ResponseHeader <=> ParserTheory!ResponseHeader
    BY <1>9, <1>11, <1>12, <1>13 DEF Parser!ResponseHeader, ParserTheory!ResponseHeader
  <1>16. Parser!HeaderReturns <=> ParserTheory!HeaderReturns
    BY <1>11 DEF Parser!HeaderReturns, ParserTheory!HeaderReturns
  <1>17. Parser!Body <=> ParserTheory!Body
    BY DEF Parser!Body, ParserTheory!Body, Parser!BodyEnds, ParserTheory!BodyEnds
  <1>18. Parser!BodyChunkReturns <=> ParserTheory!BodyChunkReturns
    BY DEF Parser!BodyChunkReturns, ParserTheory!BodyChunkReturns, Parser!BodyEnds, ParserTheory!BodyEnds
  <1>19. \A from : Parser!LineEnds(from) = ParserTheory!LineEnds(from)
    BY DEF Parser!LineEnds, ParserTheory!LineEnds
  <1>20. \A byte : Parser!ChunkSizes(byte) = ParserTheory!ChunkSizes(byte)
    BY DEF Parser!ChunkSizes, ParserTheory!ChunkSizes
  <1>21. \A n, rest : Parser!ChunkFits(n, rest) <=> ParserTheory!ChunkFits(n, rest)
    BY DEF Parser!ChunkFits, ParserTheory!ChunkFits
  <1>22. \A to, from, n : Parser!Moved(to, from, n) = ParserTheory!Moved(to, from, n)
    BY DEF Parser!Moved, ParserTheory!Moved
  <1>23. \A start, n : Parser!TakeChunk(start, n) <=> ParserTheory!TakeChunk(start, n)
    BY <1>22 DEF Parser!TakeChunk, ParserTheory!TakeChunk
  <1>24. Parser!ChunkedBody <=> ParserTheory!ChunkedBody
    BY <1>19, <1>20, <1>21, <1>23 DEF Parser!ChunkedBody, ParserTheory!ChunkedBody
  <1>25. Parser!ChunkReturns <=> ParserTheory!ChunkReturns
    BY DEF Parser!ChunkReturns, ParserTheory!ChunkReturns
  <1>26. Parser!Final <=> ParserTheory!Final
    BY DEF Parser!Final, ParserTheory!Final, Parser!FinalLine, ParserTheory!FinalLine,
           Parser!FinalContent, ParserTheory!FinalContent, Parser!Shown, ParserTheory!Shown
  <1>27. Parser!FinalReturns <=> ParserTheory!FinalReturns
    BY SameWellFormed DEF Parser!FinalReturns, ParserTheory!FinalReturns
  <1>28. Parser!Next <=> ParserTheory!Next
    BY <1>2, <1>3, <1>4, <1>5, <1>6, <1>7, <1>8, <1>14, <1>15, <1>16, <1>17, <1>18, <1>24, <1>25, <1>26, <1>27
       DEF Parser!Next, ParserTheory!Next, Parser!Handler, ParserTheory!Handler, Parser!Returns, ParserTheory!Returns,
           Parser!Owner, ParserTheory!Owner, Parser!Stream, ParserTheory!Stream
  <1>29. [Parser!Next]_Parser!vars <=> [ParserTheory!Next]_ParserTheory!vars
    BY <1>28 DEF Parser!vars, ParserTheory!vars
  <1> QED
    BY <1>1, <1>29
-------------------------------------------------------------------------------
\* And so is the client's.
LEMMA SameClient ==
  /\ Client!Init <=> ClientTheory!Init
  /\ [Client!Next]_Client!vars <=> [ClientTheory!Next]_ClientTheory!vars
  <1> USE DEF Client!objects, ClientTheory!objects, Client!history, ClientTheory!history,
              Client!At, ClientTheory!At, Client!Continue, ClientTheory!Continue, Client!Return,
              ClientTheory!Return, Client!OnStack, ClientTheory!OnStack, Client!Dispatch,
              ClientTheory!Dispatch, Client!UserRuns, ClientTheory!UserRuns, Client!CloseAtOnce,
              ClientTheory!CloseAtOnce, Client!CloseFrames, ClientTheory!CloseFrames,
              Client!CanFinish, ClientTheory!CanFinish
  <1>1. \A e : Client!Report(e) <=> ClientTheory!Report(e)
    BY DEF Client!Report, ClientTheory!Report, Client!Contract!Record,
           ClientTheory!Contract!Record
  <1>2. Client!Init <=> ClientTheory!Init
    BY DEF Client!Init, ClientTheory!Init
  <1>3. \A fl \in BOOLEAN : Client!OpenSucceeds(fl) <=> ClientTheory!OpenSucceeds(fl)
    BY DEF Client!OpenSucceeds, ClientTheory!OpenSucceeds
  <1>4. \A fl \in BOOLEAN : Client!OpenFails(fl) <=> ClientTheory!OpenFails(fl)
    BY DEF Client!OpenFails, ClientTheory!OpenFails
  <1>5. /\ Client!UserCloses <=> ClientTheory!UserCloses
        /\ Client!UserReturns <=> ClientTheory!UserReturns
    BY <1>1 DEF Client!UserCloses, ClientTheory!UserCloses, Client!UserReturns,
                ClientTheory!UserReturns
  <1>6. /\ Client!CloseEnter <=> ClientTheory!CloseEnter
        /\ Client!CloseStream <=> ClientTheory!CloseStream
    BY <1>1 DEF Client!CloseEnter, ClientTheory!CloseEnter, Client!CloseStream,
                ClientTheory!CloseStream
  <1>7. /\ Client!CloseParser <=> ClientTheory!CloseParser
        /\ Client!Finish <=> ClientTheory!Finish
    BY <1>1 DEF Client!CloseParser, ClientTheory!CloseParser, Client!Finish, ClientTheory!Finish
  <1>8. /\ Client!TcpError <=> ClientTheory!TcpError
        /\ Client!StreamConnect <=> ClientTheory!StreamConnect
    BY <1>1 DEF Client!TcpError, ClientTheory!TcpError, Client!StreamConnect,
                ClientTheory!StreamConnect
  <1>9. /\ Client!StreamData <=> ClientTheory!StreamData
        /\ Client!StreamError <=> ClientTheory!StreamError
        /\ Client!StreamEnd <=> ClientTheory!StreamEnd
    BY <1>1 DEF Client!StreamData, ClientTheory!StreamData, Client!StreamError,
                ClientTheory!StreamError, Client!StreamEnd, ClientTheory!StreamEnd
  <1>10. /\ Client!TcpClosed <=> ClientTheory!TcpClosed
         /\ Client!StreamClosed <=> ClientTheory!StreamClosed
         /\ Client!HandlerEnds <=> ClientTheory!HandlerEnds
    BY <1>1 DEF Client!TcpClosed, ClientTheory!TcpClosed, Client!StreamClosed,
                ClientTheory!StreamClosed, Client!HandlerEnds, ClientTheory!HandlerEnds
  <1>11. /\ Client!ParseWaits <=> ClientTheory!ParseWaits
         /\ Client!ParseError <=> ClientTheory!ParseError
    BY <1>1 DEF Client!ParseWaits, ClientTheory!ParseWaits, Client!ParseError,
                ClientTheory!ParseError
  <1>12. /\ Client!ParseHeader <=> ClientTheory!ParseHeader
         /\ Client!AfterHeader <=> ClientTheory!AfterHeader
    BY <1>1 DEF Client!ParseHeader, ClientTheory!ParseHeader, Client!AfterHeader,
                ClientTheory!AfterHeader
  <1>13. /\ Client!ParseBody <=> ClientTheory!ParseBody
         /\ Client!ParseChunk <=> ClientTheory!ParseChunk
    BY <1>1 DEF Client!ParseBody, ClientTheory!ParseBody, Client!ParseChunk,
                ClientTheory!ParseChunk
  <1>14. /\ Client!AfterChunk <=> ClientTheory!AfterChunk
         /\ Client!ParseFinal <=> ClientTheory!ParseFinal
         /\ Client!AfterDone <=> ClientTheory!AfterDone
    BY <1>1 DEF Client!AfterChunk, ClientTheory!AfterChunk, Client!ParseFinal,
                ClientTheory!ParseFinal, Client!AfterDone, ClientTheory!AfterDone
  <1>15. Client!Next <=> ClientTheory!Next
    BY <1>2, <1>3, <1>4, <1>5, <1>6, <1>7, <1>8, <1>9, <1>10, <1>11, <1>12, <1>13, <1>14
       DEF Client!Next, ClientTheory!Next, Client!User, ClientTheory!User, Client!Closing,
           ClientTheory!Closing, Client!Network, ClientTheory!Network, Client!Closed,
           ClientTheory!Closed, Client!Parser, ClientTheory!Parser
  <1> QED
    BY <1>2, <1>15 DEF Client!vars, ClientTheory!vars
-------------------------------------------------------------------------------
(***************************************************************************)
(* The client over the real parser does what it does over the assumed one  *)
(***************************************************************************)
\* A parser that has anything to do is one for responses.
Mode == "RESPONSE" \in flags \/ (parser_state = "CLOSED" /\ pc \in {"idle", "run"})

\* What is proved of the client alone.
ClientInv == ClientTheory!IInv /\ ClientTheory!CInv /\ Mode

\* A parser that calls itself leaves the stack as it is.
LEMMA ParseAgain ==
  ASSUME stack \in Seq(Client!Frames), At("parse"), UNCHANGED stack
  PROVE  Client!Continue(<<"parse">>)
  <1>1. stack # <<>> /\ Head(stack) = "parse"
    BY DEF At, Client!At
  <1> DEFINE again == <<"parse">> \o Tail(stack)
  <1>2. /\ Tail(stack) \in Seq(Client!Frames) /\ Len(Tail(stack)) = Len(stack) - 1
        /\ Len(stack) \in Nat /\ Len(stack) >= 1 /\ Head(stack) = stack[1]
        /\ \A i \in 1..Len(stack) - 1 : Tail(stack)[i] = stack[i + 1]
    <2>1. Len(stack) \in Nat /\ Len(stack) # 0
      BY <1>1, EmptySeq
    <2> QED
      BY <2>1, HeadTailProperties
  <1>3. "parse" \in Client!Frames
    BY DEF Client!Frames, Client!ParserFrames
  <1>4. /\ again \in Seq(Client!Frames) /\ Len(again) = Len(stack)
        /\ \A i \in 1..Len(stack) : again[i] = IF i <= 1 THEN "parse" ELSE Tail(stack)[i - 1]
    BY <1>2, <1>3, ConcatProperties
  <1>5. \A i \in 1..Len(stack) : again[i] = stack[i]
    BY <1>1, <1>2, <1>4
  <1>6. again = stack
    BY <1>4, <1>5, SeqEqual
  <1> QED
    BY <1>6 DEF Client!Continue

\* A step of the parser is one the client assumes it may do, or none.
LEMMA ParsesClient == ClientInv /\ Parses => [Client!Next]_Client!vars
  <1> SUFFICES ASSUME ClientInv, Parses PROVE Client!Parser \/ UNCHANGED Client!vars
    BY DEF Client!Next
  <1> USE DEF Client!objects, Client!history, At
  <1>1. /\ stack \in Seq(Client!Frames) /\ parser_state # "REQUEST_HEADER"
    BY DEF ClientInv, ClientTheory!IInv, ClientTheory!TypeOK, ClientTheory!ParserStates,
           ClientTheory!Frames, Client!Frames, ClientTheory!CloseFrames, Client!CloseFrames,
           ClientTheory!ParserFrames, Client!ParserFrames
  <1>2. /\ UNCHANGED <<state, tcp_client, stream, uris, failed, opens, reentrant>>
        /\ At("parse") /\ Parser!Handler /\ pc = "run"
    BY DEF Parses, Parser!Handler, Parser!Ignore, Parser!RequestHeader, Parser!ResponseHeader,
           Parser!Body, Parser!ChunkedBody, Parser!Final
  <1>3. /\ pc' = "run" => UNCHANGED <<stack, seen>> /\ Client!Continue(<<"parse">>)
        /\ pc' \in {"idle", "corrupt"} => Client!Return /\ UNCHANGED seen
        /\ pc' = "HEADER" => Client!Continue(<<"user", "after_header">>) /\ Client!Report("HEADER")
        /\ pc' \in {"CHUNK", "BODY_CHUNK"} =>
             Client!Continue(<<"user", "after_chunk">>) /\ Client!Report("CHUNK")
        /\ pc' = "DONE" =>
             Client!Continue(<<"user", "close", "after_done">>) /\ Client!Report("RESPONSE")
        /\ pc' = "ERROR" => Client!Continue(<<"user", "close">>) /\ Client!Report("ERROR")
    <2>1. /\ DOMAIN Handled = {"HEADER", "CHUNK", "BODY_CHUNK", "DONE", "ERROR"}
          /\ Handled["HEADER"] = <<"user", "after_header">> /\ Reported["HEADER"] = "HEADER"
          /\ Handled["CHUNK"] = <<"user", "after_chunk">> /\ Reported["CHUNK"] = "CHUNK"
          /\ Handled["BODY_CHUNK"] = <<"user", "after_chunk">> /\ Reported["BODY_CHUNK"] = "CHUNK"
          /\ Handled["DONE"] = <<"user", "close", "after_done">> /\ Reported["DONE"] = "RESPONSE"
          /\ Handled["ERROR"] = <<"user", "close">> /\ Reported["ERROR"] = "ERROR"
      BY DEF Handled, Reported
    <2>2. \/ pc' = "run" /\ UNCHANGED <<stack, seen>>
          \/ pc' \in {"idle", "corrupt"} /\ Client!Return /\ UNCHANGED seen
          \/ /\ pc' \in DOMAIN Handled
             /\ Client!Continue(Handled[pc']) /\ Client!Report(Reported[pc'])
      BY DEF Parses
    <2> QED
      BY <1>1, <1>2, <2>1, <2>2, ParseAgain
  <1>4. CASE Parser!Ignore
    BY <1>2, <1>3, <1>4
       DEF Parser!Ignore, Parser!parserVars, Client!ParseWaits, Client!Parser
  <1>5. CASE Parser!ResponseHeader
    <2>1. CASE Parser!HeaderFails
      <3>1. UNCHANGED <<parser_state, flags>> /\ parser_state = "RESPONSE_HEADER"
            /\ pc' \in {"idle", "ERROR"}
        BY <1>5, <2>1 DEF Parser!ResponseHeader, Parser!HeaderFails
      <3> QED
        BY <1>2, <1>3, <3>1 DEF Client!ParseWaits, Client!ParseError, Client!Parser
    <2>2. CASE ~Parser!HeaderFails
      <3>1. /\ UNCHANGED flags /\ parser_state = "RESPONSE_HEADER"
            /\ "STREAM" \in flags => pc' = "HEADER" /\ UNCHANGED parser_state
            /\ "STREAM" \notin flags => pc' = "run" /\ parser_state' \in {"BODY", "CHUNKED_BODY"}
        BY <1>5, <2>2 DEF Parser!ResponseHeader, Parser!SelectBody, Parser!Streaming
      <3> QED
        BY <1>2, <1>3, <3>1 DEF Client!ParseHeader, Client!Parser
    <2> QED
      BY <2>1, <2>2
  <1>6. CASE Parser!Body
    <2>1. /\ UNCHANGED flags /\ parser_state = "BODY"
          /\ \/ pc' = "BODY_CHUNK" /\ "STREAM" \in flags /\ UNCHANGED parser_state
             \/ pc' = "idle" /\ UNCHANGED parser_state
             \/ pc' = "run" /\ parser_state' = "FINAL"
      BY <1>6 DEF Parser!Body, Parser!BodyEnds, Parser!Streaming
    <2> QED
      BY <1>2, <1>3, <2>1 DEF Client!ParseWaits, Client!ParseBody, Client!ParseChunk, Client!Parser
  <1>7. CASE Parser!ChunkedBody
    <2>1. /\ UNCHANGED flags /\ parser_state = "CHUNKED_BODY"
          /\ \/ pc' = "CHUNK" /\ "STREAM" \in flags /\ UNCHANGED parser_state
             \/ pc' \in {"idle", "corrupt"} /\ UNCHANGED parser_state
             \/ pc' = "run" /\ parser_state' \in {"FINAL", parser_state}
      BY <1>2, <1>7 DEF Parser!ChunkedBody, Parser!TakeChunk, Parser!Streaming
    <2> QED
      BY <1>2, <1>3, <2>1
         DEF Client!ParseWaits, Client!ParseBody, Client!ParseChunk, Client!Parser, Client!vars
  <1>8. CASE Parser!Final
    <2>1. UNCHANGED <<parser_state, flags>> /\ parser_state = "FINAL" /\ pc' = "DONE"
      BY <1>8 DEF Parser!Final, Parser!parserVars
    <2> QED
      BY <1>2, <1>3, <2>1 DEF Client!ParseFinal, Client!Parser
  <1> QED
    BY <1>1, <1>2, <1>4, <1>5, <1>6, <1>7, <1>8 DEF Parser!Handler, Parser!RequestHeader

\* And what it does behind an event.
LEMMA GoesOnClient == ClientInv /\ GoesOn => [Client!Next]_Client!vars
  <1> SUFFICES ASSUME ClientInv, GoesOn PROVE Client!Parser \/ Client!HandlerEnds
    BY DEF Client!Next
  <1> USE DEF Client!objects, Client!history, At
  <1>1. /\ UNCHANGED <<state, tcp_client, stream, seen, uris, failed, opens, reentrant>>
        /\ Client!Continue(IF pc' = "run" THEN <<"parse">> ELSE <<>>)
    BY DEF GoesOn
  <1>2. CASE At("after_header") /\ Parser!HeaderReturns
    <2>1. UNCHANGED flags /\ pc' = "run" /\ parser_state' \in {"BODY", "CHUNKED_BODY"}
      BY <1>2 DEF Parser!HeaderReturns, Parser!SelectBody
    <2> QED
      BY <1>1, <1>2, <2>1 DEF Client!AfterHeader, Client!Parser
  <1>3. CASE At("after_chunk") /\ (Parser!BodyChunkReturns \/ Parser!ChunkReturns)
    <2>1. /\ UNCHANGED flags
          /\ \/ pc' = "idle" /\ UNCHANGED parser_state
             \/ pc' = "run" /\ parser_state' \in {"FINAL", parser_state}
      BY <1>3 DEF Parser!BodyChunkReturns, Parser!BodyEnds, Parser!ChunkReturns
    <2> QED
      BY <1>1, <1>3, <2>1 DEF Client!AfterChunk, Client!Return, Client!Parser
  <1>4. CASE At("after_done") /\ Parser!FinalReturns
    <2>1. UNCHANGED flags /\ pc' # "run" /\ parser_state' = "RESPONSE_HEADER"
      BY <1>4 DEF Parser!FinalReturns, ClientInv, Mode
    <2> QED
      BY <1>1, <1>4, <2>1 DEF Client!AfterDone, Client!Return, Client!Parser
  <1>5. CASE At("in_stream") /\ pc = "ERROR" /\ Parser!ErrorReturns
    <2>1. UNCHANGED <<flags, parser_state>> /\ pc' # "run"
      BY <1>5 DEF Parser!ErrorReturns
    <2> QED
      BY <1>1, <1>5, <2>1 DEF Client!HandlerEnds, Client!Return
  <1> QED
    BY <1>2, <1>3, <1>4, <1>5 DEF GoesOn

\* Every step is one of the client over the parser it assumes, or none of its.
LEMMA ClientStep == ClientInv /\ [Next]_vars => [Client!Next]_Client!vars
  <1> SUFFICES ASSUME ClientInv, [Next]_vars PROVE [Client!Next]_Client!vars
    OBVIOUS
  <1>1. CASE Handling \/ UserReturns \/ UserCloses \/ Network \/ Closed \/ CloseParser
    BY <1>1 DEF Handling, UserReturns, UserCloses, Network, Closed, CloseParser,
                Client!Next, Client!User, Client!Closing, Client!Network
  <1>2. CASE OpenFailsEarly
    <2>1. ("STREAM" \in flags) \in BOOLEAN
      OBVIOUS
    <2>2. Client!OpenFails("STREAM" \in flags)
      BY <1>2 DEF OpenFailsEarly
    <2> QED
      BY <2>1, <2>2, Zenon DEF Client!Next, Client!User
  <1>3. CASE \E fl \in OpenFlags, t \in Traffic : Open(fl, t)
    <2>1. PICK fl \in OpenFlags, t \in Traffic : Open(fl, t)
      BY <1>3
    <2>2. ("STREAM" \in fl) \in BOOLEAN
      OBVIOUS
    <2>3. Client!OpenSucceeds("STREAM" \in fl) \/ Client!OpenFails("STREAM" \in fl)
      BY <2>1 DEF Open
    <2> QED
      BY <2>2, <2>3, Zenon DEF Client!Next, Client!User
  <1>4. CASE \E k \in 1..Len(inflight), b \in Bases : StreamData(k, b)
    BY <1>4 DEF StreamData, Client!Next, Client!Network
  <1>5. CASE UNCHANGED vars
    BY <1>5 DEF vars, clientVars, parserVars, Client!vars, Client!objects, Client!history
  <1> QED
    BY <1>1, <1>2, <1>3, <1>4, <1>5, ParsesClient, GoesOnClient DEF Next

\* Only an open sets flags, and it sets RESPONSE.
LEMMA ModeKept == Mode /\ [Next]_vars => Mode'
  <1> SUFFICES ASSUME Mode, [Next]_vars PROVE Mode'
    OBVIOUS
  <1>1. CASE UNCHANGED parserVars
    BY <1>1 DEF parserVars, Mode
  <1>2. CASE CloseParser
    BY <1>2 DEF CloseParser, Parser!Close, Parser!controlVars, parserVars, Mode
  <1>3. CASE Parses
    BY <1>3 DEF Parses, Parser!Handler, Parser!Ignore, Parser!RequestHeader, Parser!ResponseHeader,
                Parser!Body, Parser!ChunkedBody, Parser!Final, Parser!parserVars, Mode
  <1>4. CASE GoesOn
    BY <1>4 DEF GoesOn, Parser!HeaderReturns, Parser!BodyChunkReturns, Parser!ChunkReturns,
                Parser!FinalReturns, Parser!ErrorReturns, Mode
  <1>5. CASE \E fl \in OpenFlags, t \in Traffic : Open(fl, t)
    BY <1>5, ExchangeAssumption DEF Open, Parser!Open, Mode
  <1>6. CASE \E k \in 1..Len(inflight), b \in Bases : StreamData(k, b)
    BY <1>6 DEF StreamData, Parser!Data, Parser!parserVars, Mode
  <1> QED
    BY <1>1, <1>2, <1>3, <1>4, <1>5, <1>6
       DEF Next, vars, Handling, UserReturns, UserCloses, Network, Closed, OpenFailsEarly

\* The invariant holds before the first open.
LEMMA InitClientInv == Init => ClientInv /\ Client!Init
  <1>1. Init => Client!Init /\ Mode
    BY DEF Init, Parser!Init, Client!Init, Mode
  <1>2. MaxOpens \in Nat
    BY ExchangeAssumption
  <1> QED
    BY <1>1, <1>2, SameClient, ClientTheory!InitIInv, ClientTheory!InitCInv DEF ClientInv

\* Every step keeps it, and shows the user what the contract permits.
LEMMA NextClientInv == ClientInv /\ [Next]_vars => ClientInv' /\ ClientTheory!Permitted
  <1> SUFFICES ASSUME ClientInv, [Next]_vars PROVE ClientInv' /\ ClientTheory!Permitted
    OBVIOUS
  <1>1. MaxOpens \in Nat
    BY ExchangeAssumption
  <1>2. [ClientTheory!Next]_ClientTheory!vars
    BY ClientStep, SameClient
  <1>3. ClientTheory!IInv'
    BY <1>1, <1>2, ClientTheory!NextIInv DEF ClientInv
  <1>4. ClientTheory!CInv' /\ ClientTheory!Permitted
    BY <1>1, <1>2, ClientTheory!NextCInv DEF ClientInv
  <1> QED
    BY <1>3, <1>4, ModeKept DEF ClientInv

\* HttpClient assumes no more of the parser than the real one does: over it the
\* client has no behaviour that HttpClient has not, however the peer's input is
\* split, whatever it holds and whatever the user does in the callbacks.
THEOREM ParserRefined == Spec => ImplementsClient
  <1>1. ClientInv /\ [Next]_vars => ClientInv'
    BY NextClientInv
  <1> QED
    BY <1>1, InitClientInv, ClientStep, PTL DEF Spec, ImplementsClient, Client!Spec

\* The user of the client over the real parser is told of its exchanges as
\* ExchangeContract promises: nothing of what the peer sends, splits or leaves out
\* makes the client report two outcomes or an event behind CLOSE.
THEOREM ExchangesKept == Spec => Client!ImplementsContract
  <1>1. Init => ClientInv /\ Client!Contract!Init
    BY InitClientInv DEF Client!Init, Client!Contract!Init
  <1>2. ClientInv /\ [Next]_vars => ClientInv' /\ [Client!Contract!Next]_seen
    <2>1. ClientTheory!Permitted => Client!Contract!Next \/ UNCHANGED seen
      BY DEF ClientTheory!Permitted, ClientTheory!Contract!Next, Client!Contract!Next,
             ClientTheory!Contract!Open, Client!Contract!Open,
             ClientTheory!Contract!Header, Client!Contract!Header,
             ClientTheory!Contract!Chunk, Client!Contract!Chunk,
             ClientTheory!Contract!Outcome, Client!Contract!Outcome,
             ClientTheory!Contract!Close, Client!Contract!Close,
             ClientTheory!Contract!Saw, Client!Contract!Saw,
             ClientTheory!Contract!Record, Client!Contract!Record
    <2> QED
      BY <2>1, NextClientInv
  <1> QED
    BY <1>1, <1>2, PTL DEF Spec, Client!ImplementsContract, Client!Contract!Spec

-------------------------------------------------------------------------------
(***************************************************************************)
(* The client uses its parser as HttpParser says an owner does             *)
(***************************************************************************)
\* Every step is one of the parser, or none of its.
LEMMA ParserStep == [Next]_vars => [Parser!Next]_Parser!vars
  <1> SUFFICES ASSUME [Next]_vars PROVE [Parser!Next]_Parser!vars
    OBVIOUS
  <1>1. CASE UNCHANGED parserVars
    BY <1>1 DEF parserVars, Parser!vars, Parser!parserVars, Parser!messageVars,
                Parser!streamVars, Parser!controlVars, Parser!historyVars
  <1>2. CASE CloseParser
    BY <1>1, <1>2 DEF CloseParser, Parser!Next, Parser!Owner
  <1>3. CASE Parses
    BY <1>3 DEF Parses, Parser!Next
  <1>4. CASE GoesOn
    BY <1>4 DEF GoesOn, Parser!Next, Parser!Returns
  <1>5. CASE \E fl \in OpenFlags, t \in Traffic : Open(fl, t)
    BY <1>5 DEF Open, Parser!Next, Parser!Owner
  <1>6. CASE \E k \in 1..Len(inflight), b \in Bases : StreamData(k, b)
    BY <1>6 DEF StreamData, Parser!Next, Parser!Stream
  <1> QED
    BY <1>1, <1>2, <1>3, <1>4, <1>5, <1>6
       DEF Next, vars, Handling, UserReturns, UserCloses, Network, Closed, OpenFailsEarly

\* In the client the parser does nothing that HttpParser does not describe: its
\* owner calls it only where an owner may, also from its callbacks.
THEOREM ParserIsHttpParser == Spec => Parser!Spec
  <1>1. Init => Parser!Init
    BY DEF Init
  <1> QED
    BY <1>1, ParserStep, PTL DEF Spec, Parser!Spec

\* In the client the parser never leaves its input, whatever the peer sends and
\* the user does: the offsets it keeps over a callback, in which it may be closed,
\* are within what is left of the input.  And the content that the user is shown with
\* a whole message begins behind its header and ends within the input; with the events
\* of a streamed one it is shown none, but for the first header on a connection that
\* is not the first.
THEOREM ParserSafe == Spec => [](Parser!BufferBounds /\ Parser!ContentInBuffer /\ Parser!NoOverrun)
  <1> DEFINE Inside == ParserTheory!IInv /\ ParserTheory!ShownInv
  <1>2. ParserTheory!Init => Inside
    BY ParserAssumptions, ParserTheory!InitIInv, ParserTheory!InitShownInv
  <1>3. Inside /\ [ParserTheory!Next]_ParserTheory!vars => Inside'
    BY ParserAssumptions, ParserTheory!NextIInv, ParserTheory!NextShownInv
  <1>4. Inside => Parser!BufferBounds /\ Parser!ContentInBuffer /\ Parser!NoOverrun
    <2> SUFFICES ASSUME ParserTheory!IInv, ParserTheory!ShownInv
                 PROVE  Parser!BufferBounds /\ Parser!ContentInBuffer /\ Parser!NoOverrun
      OBVIOUS
    <2>1. ParserTheory!Bounds
      BY DEF ParserTheory!IInv
    <2> USE DEF Parser!Streaming, ParserTheory!Streaming, Parser!SizeIsOwn, ParserTheory!SizeIsOwn
    <2>2. Parser!BufferBounds
      BY <2>1 DEF ParserTheory!Bounds, Parser!BufferBounds, ParserTheory!BufferBounds,
             Parser!CallMatchesState, ParserTheory!CallMatchesState,
             Parser!TakeInBuffer, ParserTheory!TakeInBuffer, Parser!Min2, ParserTheory!Min2,
             Parser!ChunksInBuffer, ParserTheory!ChunksInBuffer,
             Parser!NothingPending, ParserTheory!NothingPending
    <2>3. Parser!ContentInBuffer
      <3>1. ParserTheory!ContentInBuffer
        BY ParserAssumptions, ParserTheory!ShownIsInBuffer
      <3> QED
        BY <3>1 DEF Parser!ContentInBuffer, ParserTheory!ContentInBuffer, Parser!Shown,
                    ParserTheory!Shown
    <2>4. Parser!NoOverrun
      BY <2>1 DEF ParserTheory!Bounds, Parser!NoOverrun, ParserTheory!NoOverrun,
             Parser!ChunkSizeWraps, ParserTheory!ChunkSizeWraps, Parser!ChunkSizes,
             ParserTheory!ChunkSizes
    <2> QED
      BY <2>2, <2>3, <2>4
  <1> HIDE DEF Inside
  <1> QED
    BY <1>2, <1>3, <1>4, ParserIsHttpParser, SameParser, PTL DEF Parser!Spec

-------------------------------------------------------------------------------
(***************************************************************************)
(* The parser's call and the client's                                      *)
(***************************************************************************)
\* f is left to do.
InProgress(f) == f \in ClientTheory!Range(stack)

\* The parser's call is in progress in the client just when it is in the parser;
\* nothing runs inside reactor_http_parser_data but what it dispatches.
Link ==
  /\ pc \in {"idle", "run", "corrupt", "HEADER", "CHUNK", "BODY_CHUNK", "DONE", "ERROR"}
  /\ InProgress("parse") <=> pc = "run"
  /\ InProgress("after_header") <=> pc = "HEADER"
  /\ InProgress("after_chunk") <=> pc \in {"CHUNK", "BODY_CHUNK"}
  /\ InProgress("after_done") <=> pc = "DONE"
  /\ pc = "ERROR" => InProgress("in_stream")
  /\ pc = "run" => Head(stack) = "parse"

\* A call that is not of the parser leaves it as it is.
LEMMA LeavesParser ==
  ASSUME ClientInv, Link, UNCHANGED pc, stack # <<>>,
         Head(stack) \notin ClientTheory!ParserFrames, Head(stack) = "in_stream" => pc # "ERROR",
         NEW a \in {"user", "close", "close_stream", "close_parser", "finish"},
         NEW b \in {"user", "close", "close_stream", "close_parser", "finish"},
         Client!Return \/ Client!Continue(<<a>>) \/ Client!Continue(<<a, b>>)
  PROVE  Link'
  <1>1. stack \in Seq(ClientTheory!Frames)
    BY DEF ClientInv, ClientTheory!IInv, ClientTheory!TypeOK
  <1>2. {a, b} \subseteq ClientTheory!Frames \ ClientTheory!Handlers
    BY DEF ClientTheory!Frames, ClientTheory!CloseFrames, ClientTheory!ParserFrames,
           ClientTheory!Handlers
  <1>3. /\ ClientTheory!Range(stack) = {Head(stack)} \cup ClientTheory!Range(Tail(stack))
        /\ ClientTheory!Return => ClientTheory!Effect({})
        /\ ClientTheory!Continue(<<a>>) => ClientTheory!Effect({a})
        /\ ClientTheory!Continue(<<a, b>>) => ClientTheory!Effect({a, b})
    BY <1>1, <1>2, ClientTheory!Calls, ExchangeAssumption
  <1>4. \/ ClientTheory!Effect({}) \/ ClientTheory!Effect({a}) \/ ClientTheory!Effect({a, b})
    BY <1>3 DEF Client!Return, Client!Continue, ClientTheory!Return, ClientTheory!Continue
  <1>5. PICK begun \in {{}, {a}, {a, b}} :
          ClientTheory!Range(stack') = begun \cup ClientTheory!Range(Tail(stack))
    BY <1>4 DEF ClientTheory!Effect
  <1> QED
    BY <1>3, <1>5 DEF Link, InProgress, ClientTheory!ParserFrames

\* The frames of a stack written out.
LEMMA FramesOf ==
  ASSUME NEW a, NEW b, NEW c
  PROVE  ClientTheory!Range(<<a, b>>) = {a, b} /\ ClientTheory!Range(<<a, b, c>>) = {a, b, c}
  <1>1. DOMAIN <<a, b>> = {1, 2} /\ <<a, b>>[1] = a /\ <<a, b>>[2] = b
    OBVIOUS
  <1>2. /\ DOMAIN <<a, b, c>> = {1, 2, 3}
        /\ <<a, b, c>>[1] = a /\ <<a, b, c>>[2] = b /\ <<a, b, c>>[3] = c
    OBVIOUS
  <1> QED
    BY <1>1, <1>2 DEF ClientTheory!Range

\* An event that is not DATA finds no call of the parser in progress, and begins none.
LEMMA BeginsWithoutParser ==
  ASSUME Link, UNCHANGED pc, stack = <<>>,
         NEW h \in {"in_tcp", "in_stream", "close"},
         \/ stack' = <<h>> \/ stack' = <<"close", h>> \/ stack' = <<"user", "close", h>>
  PROVE  Link'
  <1>1. ClientTheory!Range(stack) = {}
    BY ClientTheory!RangeFew, ExchangeAssumption
  <1>2. ClientTheory!Range(stack') \subseteq {"user", "close", h}
    <2>1. ClientTheory!Range(<<h>>) = {h}
      BY ClientTheory!RangeFew, ExchangeAssumption
    <2>2. ClientTheory!Range(<<"close", h>>) = {"close", h}
      BY FramesOf
    <2>3. ClientTheory!Range(<<"user", "close", h>>) = {"user", "close", h}
      BY FramesOf
    <2> QED
      BY <2>1, <2>2, <2>3
  <1>3. pc' \in {"idle", "corrupt"}
    BY <1>1 DEF Link, InProgress
  <1> QED
    BY <1>2, <1>3 DEF Link, InProgress

\* A step of the parser's own call: what is left of it, and of its handler.
LEMMA ParserGoesOn ==
  ASSUME ClientInv, stack # <<>>, Head(stack) \in ClientTheory!ParserFrames
  PROVE  /\ Client!Return => ClientTheory!Range(stack') = {"in_stream"}
         /\ Client!Continue(<<"parse">>) =>
              /\ ClientTheory!Range(stack') = {"parse", "in_stream"}
              /\ Head(stack') = "parse"
         /\ Client!Continue(<<"user", "close">>) =>
              ClientTheory!Range(stack') = {"user", "close", "in_stream"}
         /\ \A f \in ClientTheory!ParserFrames :
              /\ Client!Continue(<<"user", f>>) =>
                   ClientTheory!Range(stack') = {"user", f, "in_stream"}
              /\ Client!Continue(<<"user", "close", f>>) =>
                   ClientTheory!Range(stack') = {"user", "close", f, "in_stream"}
  <1>1. stack \in Seq(ClientTheory!Frames)
    BY DEF ClientInv, ClientTheory!IInv, ClientTheory!TypeOK
  <1>2. ClientTheory!Range(Tail(stack)) = {"in_stream"}
    BY ClientTheory!ParserAlone, ExchangeAssumption DEF ClientInv, ClientTheory!CInv
  <1>3. /\ {"user", "close", "parse"} \subseteq ClientTheory!Frames \ ClientTheory!Handlers
        /\ ClientTheory!ParserFrames \subseteq ClientTheory!Frames \ ClientTheory!Handlers
    BY DEF ClientTheory!Frames, ClientTheory!CloseFrames, ClientTheory!ParserFrames,
           ClientTheory!Handlers
  <1> USE DEF Client!Return, Client!Continue, ClientTheory!Return, ClientTheory!Continue
  <1>4. Client!Return => ClientTheory!Effect({})
    BY <1>1, <1>3, ClientTheory!Calls, ExchangeAssumption
  <1>5. Client!Continue(<<"parse">>) => ClientTheory!Effect({"parse"}) /\ Head(stack') = "parse"
    <2>1. Client!Continue(<<"parse">>) => ClientTheory!Effect({"parse"})
      BY <1>1, <1>3, ClientTheory!Calls, ExchangeAssumption
    <2>2. Tail(stack) \in Seq(ClientTheory!Frames) /\ <<"parse">> \in Seq(ClientTheory!Frames)
      BY <1>1, <1>3, ClientTheory!RangeHead, ExchangeAssumption
    <2>3. Head(<<"parse">> \o Tail(stack)) = "parse"
      BY <2>2, ConcatProperties, HeadTailProperties
    <2> QED
      BY <2>1, <2>3
  <1>6. Client!Continue(<<"user", "close">>) => ClientTheory!Effect({"user", "close"})
    BY <1>1, <1>3, ClientTheory!Calls, ExchangeAssumption
  <1>7. ASSUME NEW f \in ClientTheory!ParserFrames
        PROVE  /\ Client!Continue(<<"user", f>>) => ClientTheory!Effect({"user", f})
               /\ Client!Continue(<<"user", "close", f>>) => ClientTheory!Effect({"user", "close", f})
    BY <1>1, <1>3, ClientTheory!Calls, ExchangeAssumption
  <1> HIDE DEF Client!Return, Client!Continue, ClientTheory!Return, ClientTheory!Continue
  <1> QED
    BY <1>2, <1>4, <1>5, <1>6, <1>7 DEF ClientTheory!Effect

\* The client's own steps and the network's leave the parser's call alone.
LEMMA ClientLink ==
  ASSUME ClientInv, Link, Handling \/ UserReturns \/ UserCloses \/ Network \/ Closed
  PROVE  Link'
  <1>1. UNCHANGED pc
    BY DEF Handling, UserReturns, UserCloses, Network, Closed, parserVars
  <1> USE DEF Client!At, ClientTheory!ParserFrames
  <1>2. CASE Handling
    <2>1. CASE Client!CloseEnter
      <3>1. /\ stack # <<>> /\ Head(stack) = "close"
            /\ \/ Client!Return \/ Client!Continue(<<"finish">>)
               \/ Client!Continue(<<"close_stream">>) \/ Client!Continue(<<"close", "close_stream">>)
        BY <2>1 DEF Client!CloseEnter, Client!CloseAtOnce
      <3> QED
        BY <1>1, <3>1, LeavesParser
    <2>2. CASE Client!CloseStream
      <3>1. /\ stack # <<>> /\ Head(stack) = "close_stream"
            /\ \/ Client!Continue(<<"close_parser">>) \/ Client!Continue(<<"close", "close_parser">>)
        BY <2>2 DEF Client!CloseStream, Client!CloseAtOnce
      <3> QED
        BY <1>1, <3>1, LeavesParser
    <2>3. CASE Client!Finish
      <3>1. /\ stack # <<>> /\ Head(stack) = "finish"
            /\ Client!Return \/ Client!Continue(<<"user">>)
        BY <2>3 DEF Client!Finish
      <3> QED
        BY <1>1, <3>1, LeavesParser
    <2>4. CASE Client!HandlerEnds /\ pc # "ERROR"
      <3>1. stack # <<>> /\ Head(stack) \in {"in_tcp", "in_stream"} /\ Client!Return
        BY <2>4 DEF Client!HandlerEnds
      <3> QED
        BY <1>1, <2>4, <3>1, LeavesParser
    <2> QED
      BY <1>2, <2>1, <2>2, <2>3, <2>4 DEF Handling
  <1>3. CASE UserReturns
    <2>1. stack # <<>> /\ Head(stack) = "user" /\ Client!Return
      BY <1>3 DEF UserReturns, Client!UserReturns
    <2> QED
      BY <1>1, <2>1, LeavesParser
  <1>4. CASE UserCloses
    <2>1. CASE stack = <<>>
      <3>1. stack' = <<"close">>
        BY <1>4, <2>1 DEF UserCloses, Client!UserCloses
      <3> QED
        BY <1>1, <2>1, <3>1, BeginsWithoutParser
    <2>2. CASE stack # <<>>
      <3>1. Head(stack) = "user" /\ Client!Continue(<<"close">>)
        BY <1>4, <2>2 DEF UserCloses, Client!UserCloses, Client!UserRuns, Client!Continue
      <3> QED
        BY <1>1, <2>2, <3>1, LeavesParser
    <2> QED
      BY <2>1, <2>2
  <1>5. CASE Network \/ Closed
    <2>1. /\ stack = <<>>
          /\ \E h \in {"in_tcp", "in_stream", "close"} :
               \/ stack' = <<h>> \/ stack' = <<"close", h>> \/ stack' = <<"user", "close", h>>
      BY <1>5 DEF Network, Closed, Client!TcpError, Client!StreamConnect, Client!StreamError,
                  Client!StreamEnd, Client!Closed, Client!TcpClosed, Client!StreamClosed,
                  Client!Dispatch
    <2> QED
      BY <1>1, <2>1, BeginsWithoutParser
  <1> QED
    BY <1>2, <1>3, <1>4, <1>5

\* A handler of the parser does a step: its call ends, goes on, or waits for the
\* event it has dispatched.
LEMMA ParsesLink ==
  ASSUME ClientInv, Link, Parses
  PROVE  Link'
  <1>1. /\ stack # <<>> /\ Head(stack) = "parse" /\ pc = "run"
    BY DEF Parses, At, Client!At, Parser!Handler, Parser!Ignore, Parser!RequestHeader,
           Parser!ResponseHeader, Parser!Body, Parser!ChunkedBody, Parser!Final
  <1>2. /\ DOMAIN Handled = {"HEADER", "CHUNK", "BODY_CHUNK", "DONE", "ERROR"}
        /\ Handled["HEADER"] = <<"user", "after_header">>
        /\ Handled["CHUNK"] = <<"user", "after_chunk">>
        /\ Handled["BODY_CHUNK"] = <<"user", "after_chunk">>
        /\ Handled["DONE"] = <<"user", "close", "after_done">>
        /\ Handled["ERROR"] = <<"user", "close">>
    BY DEF Handled
  <1>3. \/ pc' = "run" /\ UNCHANGED stack
        \/ pc' \in {"idle", "corrupt"} /\ Client!Return
        \/ pc' = "HEADER" /\ Client!Continue(<<"user", "after_header">>)
        \/ pc' \in {"CHUNK", "BODY_CHUNK"} /\ Client!Continue(<<"user", "after_chunk">>)
        \/ pc' = "DONE" /\ Client!Continue(<<"user", "close", "after_done">>)
        \/ pc' = "ERROR" /\ Client!Continue(<<"user", "close">>)
    BY <1>2 DEF Parses
  <1>4. {"parse", "after_header", "after_chunk", "after_done"} \subseteq ClientTheory!ParserFrames
    BY DEF ClientTheory!ParserFrames
  <1>5. \/ pc' = "run" /\ UNCHANGED stack
        \/ /\ pc' \in {"idle", "corrupt"}
           /\ ClientTheory!Range(stack') = {"in_stream"}
        \/ /\ pc' = "HEADER"
           /\ ClientTheory!Range(stack') = {"user", "after_header", "in_stream"}
        \/ /\ pc' \in {"CHUNK", "BODY_CHUNK"}
           /\ ClientTheory!Range(stack') = {"user", "after_chunk", "in_stream"}
        \/ /\ pc' = "DONE"
           /\ ClientTheory!Range(stack') = {"user", "close", "after_done", "in_stream"}
        \/ pc' = "ERROR" /\ ClientTheory!Range(stack') = {"user", "close", "in_stream"}
    BY <1>1, <1>3, <1>4, ParserGoesOn
  <1> QED
    BY <1>1, <1>5 DEF Link, InProgress

\* The parser goes on behind an event: with its next call, or it is done.
LEMMA GoesOnLink ==
  ASSUME ClientInv, Link, GoesOn
  PROVE  Link'
  <1>1. Client!Continue(IF pc' = "run" THEN <<"parse">> ELSE <<>>)
    BY DEF GoesOn
  <1>2. /\ stack # <<>>
        /\ \/ /\ Head(stack) \in {"after_header", "after_chunk", "after_done"}
              /\ pc' \in {"run", "idle", "corrupt"}
           \/ Head(stack) = "in_stream" /\ pc = "ERROR" /\ pc' = "idle"
    BY DEF GoesOn, At, Client!At, Parser!HeaderReturns, Parser!SelectBody,
           Parser!BodyChunkReturns, Parser!BodyEnds, Parser!ChunkReturns, Parser!FinalReturns,
           Parser!ErrorReturns
  <1>3. CASE Head(stack) \in {"after_header", "after_chunk", "after_done"}
    <2>1. Head(stack) \in ClientTheory!ParserFrames
      BY <1>3 DEF ClientTheory!ParserFrames
    <2>2. \/ /\ pc' = "run" /\ Head(stack') = "parse"
             /\ ClientTheory!Range(stack') = {"parse", "in_stream"}
          \/ pc' \in {"idle", "corrupt"} /\ ClientTheory!Range(stack') = {"in_stream"}
      BY <1>1, <1>2, <1>3, <2>1, ParserGoesOn DEF Client!Return
    <2> QED
      BY <2>2 DEF Link, InProgress
  <1>4. CASE Head(stack) = "in_stream"
    <2>1. pc = "ERROR" /\ pc' = "idle" /\ Client!Return
      BY <1>1, <1>2, <1>4 DEF Client!Return
    <2>2. stack \in Seq(ClientTheory!Frames)
      BY DEF ClientInv, ClientTheory!IInv, ClientTheory!TypeOK
    <2>3. ClientTheory!Return => ClientTheory!Effect({})
      <3>1. "user" \in ClientTheory!Frames \ ClientTheory!Handlers
        BY DEF ClientTheory!Frames, ClientTheory!CloseFrames, ClientTheory!ParserFrames,
               ClientTheory!Handlers
      <3> QED
        BY <1>2, <2>2, <3>1, ClientTheory!Calls, ExchangeAssumption
    <2>4. /\ ClientTheory!Range(stack') = ClientTheory!Range(Tail(stack))
          /\ ClientTheory!Range(stack) = {Head(stack)} \cup ClientTheory!Range(Tail(stack))
      BY <1>2, <2>1, <2>2, <2>3, ClientTheory!RangeHead, ExchangeAssumption
         DEF ClientTheory!Effect, ClientTheory!Return, ClientTheory!Continue,
             Client!Return, Client!Continue
    <2> QED
      BY <2>1, <2>4 DEF Link, InProgress
  <1> QED
    BY <1>2, <1>3, <1>4

\* Every step keeps the two calls together.
LEMMA NextLink == ClientInv /\ Link /\ [Next]_vars => Link'
  <1> SUFFICES ASSUME ClientInv, Link, [Next]_vars PROVE Link'
    OBVIOUS
  <1>1. CASE OpenFailsEarly \/ UNCHANGED vars
    <2>1. UNCHANGED <<pc, stack>>
      BY <1>1 DEF OpenFailsEarly, Client!OpenFails, vars, clientVars, parserVars
    <2> QED
      BY <2>1 DEF Link, InProgress
  <1>2. CASE \E fl \in OpenFlags, t \in Traffic : Open(fl, t)
    <2>1. UNCHANGED <<pc, stack>>
      BY <1>2 DEF Open, Client!OpenSucceeds, Client!OpenFails, Parser!Open, Parser!controlVars
    <2> QED
      BY <2>1 DEF Link, InProgress
  <1>3. CASE CloseParser
    <2>1. /\ UNCHANGED pc /\ stack # <<>> /\ Head(stack) = "close_parser"
          /\ Client!Continue(<<"finish">>)
      BY <1>3 DEF CloseParser, Client!CloseParser, Client!At, Parser!Close, Parser!controlVars,
                  parserVars
    <2> QED
      BY <2>1, LeavesParser DEF ClientTheory!ParserFrames
  <1>4. CASE \E k \in 1..Len(inflight), b \in Bases : StreamData(k, b)
    <2>1. pc' = "run" /\ stack' = <<"parse", "in_stream">>
      BY <1>4 DEF StreamData, Parser!Data, Client!StreamData, Client!Dispatch
    <2>2. ClientTheory!Range(<<"parse", "in_stream">>) = {"parse", "in_stream"}
      BY FramesOf
    <2> QED
      BY <2>1, <2>2 DEF Link, InProgress
  <1> QED
    BY <1>1, <1>2, <1>3, <1>4, ClientLink, ParsesLink, GoesOnLink DEF Next

\* HttpParser assumes no more of its owner than the client keeps to: its user opens
\* the client anew only when the parser is idle, closes it only between the parser's
\* calls or in a callback of it, and no call of the parser outlasts the handler of
\* its DATA event.
THEOREM OwnerAsAssumed == Spec => []ParserUsedAsAssumed
  <1>1. Init => ClientInv /\ Link
    <2>1. ClientTheory!Range(<<>>) = {}
      BY ClientTheory!RangeFew, ExchangeAssumption
    <2> QED
      BY <2>1, InitClientInv DEF Init, Parser!Init, Link, InProgress
  <1>2. (ClientInv /\ Link) /\ [Next]_vars => (ClientInv /\ Link)'
    BY NextClientInv, NextLink
  <1>3. ClientInv /\ Link => ParserUsedAsAssumed
    <2> SUFFICES ASSUME ClientInv, Link, pc # "corrupt"
                 PROVE  /\ Client!UserRuns /\ state = "CLOSED" => pc = "idle"
                        /\ At("close_parser") => pc \in Parser!Callbacks \cup {"idle"}
                        /\ stack = <<>> => pc = "idle"
                        /\ Client!OnStack({"parse"}) <=> pc = "run"
      BY DEF ParserUsedAsAssumed, Defined
    <2>1. \A f : InProgress(f) <=> \E i \in DOMAIN stack : stack[i] = f
      BY DEF InProgress, ClientTheory!Range
    <2>2. state = "CLOSED" => pc = "idle"
      <3>1. state = "CLOSED" =>
              \A f \in ClientTheory!ParserFrames \cup {"in_stream"} : ~InProgress(f)
        BY DEF InProgress, ClientInv, ClientTheory!IInv, ClientTheory!Agree, ClientTheory!Handled
      <3> QED
        BY <3>1 DEF Link, ClientTheory!ParserFrames
    <2>3. At("close_parser") => pc \in Parser!Callbacks \cup {"idle"}
      BY DEF At, Client!At, Link, Parser!Callbacks
    <2>4. stack = <<>> => pc = "idle"
      BY <2>1 DEF Link
    <2>5. Client!OnStack({"parse"}) <=> pc = "run"
      BY <2>1 DEF Client!OnStack, Link
    <2> QED
      BY <2>2, <2>3, <2>4, <2>5
  <1> QED
    BY <1>1, <1>2, <1>3, PTL DEF Spec
-------------------------------------------------------------------------------
(***************************************************************************)
(* The response of a client is its own                                     *)
(***************************************************************************)
\* A response was reported just when its message was told to the client.
ReportTied ==
  /\ delivered # <<>> => ClientTheory!Told("RESPONSE") \/ state = "CLOSED"
  /\ seen # <<>> /\ Last(seen) = "RESPONSE" => delivered # <<>>
  /\ state = "CLOSED" => seen # <<>> /\ Last(seen) = "CLOSE"

\* What the peer sent as its first message.
FirstContent == ParserTheory!Content(1, sent[1])

\* Of a connection the client receives the first message, for which its parser is in
\* step with the peer, and no other.
FirstOnly ==
  /\ Len(delivered) <= 1
  /\ delivered = <<>> => ParserTheory!Synced
  /\ ParserTheory!WellFormed(sent[1]) =>
       /\ cur # 0 => cur = 1 /\ IsPrefix(content, FirstContent)
       /\ delivered # <<>> => delivered[1] = [m |-> 1, content |-> FirstContent]

\* A client whose parser runs, or goes on behind an event other than its last, was told
\* of no message: it would have no more parsing left to do.
LEMMA NothingTold ==
  ASSUME ClientInv, ReportTied, stack # <<>>, Head(stack) \in {"parse", "after_header", "after_chunk"}
  PROVE  delivered = <<>> /\ state # "CLOSED"
  <1>1. Head(stack) \in ClientTheory!Range(stack)
    <2>1. stack \in Seq(ClientTheory!Frames)
      BY DEF ClientInv, ClientTheory!IInv, ClientTheory!TypeOK
    <2> QED
      BY <2>1, ClientTheory!RangeHead, ExchangeAssumption
  <1>2. Head(stack) \in ClientTheory!ParserFrames \ {"after_done"}
    BY DEF ClientTheory!ParserFrames
  <1>3. ~ClientTheory!Told("RESPONSE")
    BY <1>1, <1>2 DEF ClientInv, ClientTheory!CInv, ClientTheory!Outcomes, ClientTheory!Decided
  <1>4. state # "CLOSED"
    BY <1>1, <1>2 DEF ClientInv, ClientTheory!IInv, ClientTheory!Agree, ClientTheory!Handled
  <1> QED
    BY <1>3, <1>4 DEF ReportTied

\* So a step tells the client something of a message only if it was told none before.
LEMMA ToldFirst ==
  ASSUME ClientInv, ReportTied, [Next]_vars
  PROVE  \/ delivered = <<>>
         \/ delivered' = <<>> /\ cur' = 0
         \/ UNCHANGED <<sent, cur, content, delivered>>
  <1>1. CASE UNCHANGED parserVars
    BY <1>1 DEF parserVars
  <1>2. CASE CloseParser
    BY <1>2 DEF CloseParser, Parser!Close, Parser!historyVars, parserVars
  <1>3. CASE Parses
    BY <1>3, NothingTold DEF Parses, At, Client!At
  <1>4. CASE GoesOn
    <2>1. \/ stack # <<>> /\ Head(stack) \in {"after_header", "after_chunk"}
          \/ Parser!FinalReturns \/ Parser!ErrorReturns
      BY <1>4 DEF GoesOn, At, Client!At
    <2> QED
      BY <2>1, NothingTold DEF Parser!FinalReturns, Parser!ErrorReturns, Parser!historyVars
  <1>5. CASE \E fl \in OpenFlags, t \in Traffic : Open(fl, t)
    BY <1>5 DEF Open, Parser!Open
  <1>6. CASE \E k \in 1..Len(inflight), b \in Bases : StreamData(k, b)
    BY <1>6 DEF StreamData, Parser!Data, Parser!historyVars
  <1> QED
    BY <1>1, <1>2, <1>3, <1>4, <1>5, <1>6
       DEF Next, vars, Handling, UserReturns, UserCloses, Network, Closed, OpenFailsEarly

\* The last of the events is the one reported.
LEMMA LastReported ==
  ASSUME ClientInv, NEW e \in ClientTheory!Contract!Events, Client!Report(e)
  PROVE  /\ seen' # <<>> /\ Last(seen') = e
         /\ \A x : ClientTheory!Told(x)' <=> ClientTheory!Told(x) \/ x = e
  <1>1. seen \in Seq(ClientTheory!Contract!Events)
    BY DEF ClientInv, ClientTheory!IInv, ClientTheory!TypeOK
  <1>2. seen' = Append(seen, e) \/ (seen' = seen /\ seen # <<>> /\ seen[Len(seen)] = e)
    BY DEF Client!Report, Client!Contract!Record
  <1>3. seen' # <<>> /\ Last(seen') = e
    <2>1. CASE seen' = Append(seen, e)
      <3>1. Append(seen, e) # <<>> /\ Append(seen, e)[Len(Append(seen, e))] = e
        BY <1>1, AppendProperties
      <3> QED
        BY <2>1, <3>1 DEF Last
    <2> QED
      BY <1>2, <2>1 DEF Last
  <1>4. ClientTheory!Report(e)
    BY DEF Client!Report, Client!Contract!Record, ClientTheory!Report, ClientTheory!Contract!Record
  <1>5. ClientTheory!IInv
    BY DEF ClientInv
  <1>6. ASSUME NEW x PROVE ClientTheory!Told(x)' <=> ClientTheory!Told(x) \/ x = e
    BY <1>4, <1>5, ClientTheory!Reported, ExchangeAssumption
  <1> QED
    BY <1>3, <1>6

\* What a step reports, and whether it tells a message.
ReportsAsTold ==
  \/ /\ UNCHANGED <<seen, delivered>>
     /\ state' = state \/ (state # "CLOSED" /\ state' # "CLOSED")
  \/ /\ \E e \in {"ERROR", "HEADER", "CHUNK"} : Client!Report(e)
     /\ UNCHANGED delivered /\ state # "CLOSED" /\ state' # "CLOSED"
  \/ Client!Report("CLOSE") /\ UNCHANGED delivered /\ state' = "CLOSED"
  \/ Client!Report("RESPONSE") /\ delivered' # <<>> /\ state # "CLOSED" /\ state' # "CLOSED"
  \/ delivered' = <<>> /\ seen' = <<>> /\ state' # "CLOSED"
  \/ delivered' = <<>> /\ UNCHANGED <<seen, state>> /\ state = "CLOSED"

\* While the parser runs a RESPONSE is reported just when its message is told.
LEMMA ParsesReports ==
  ASSUME ClientInv, ParserTheory!TypeOK, ReportTied, Parses
  PROVE  ReportsAsTold
  <1>1. state # "CLOSED" /\ state' = state
    BY NothingTold DEF Parses, At, Client!At
  <1>2. /\ DOMAIN Handled = {"HEADER", "CHUNK", "BODY_CHUNK", "DONE", "ERROR"}
        /\ Reported["HEADER"] = "HEADER" /\ Reported["CHUNK"] = "CHUNK"
        /\ Reported["BODY_CHUNK"] = "CHUNK" /\ Reported["DONE"] = "RESPONSE"
        /\ Reported["ERROR"] = "ERROR"
    BY DEF Handled, Reported
  <1>3. \/ pc' \in {"run", "idle", "corrupt"} /\ UNCHANGED seen
        \/ pc' \in {"HEADER", "CHUNK", "BODY_CHUNK", "ERROR"}
           /\ \E e \in {"ERROR", "HEADER", "CHUNK"} : Client!Report(e)
        \/ pc' = "DONE" /\ Client!Report("RESPONSE")
    BY <1>2 DEF Parses
  <1>4. CASE Parser!Final
    <2>1. delivered \in Seq([m : Nat, content : Seq(ParserTheory!Bytes)])
      BY DEF ParserTheory!TypeOK
    <2>2. pc' = "DONE" /\ \E x : delivered' = Append(delivered, x)
      BY <1>4 DEF Parser!Final
    <2>3. delivered' # <<>>
      BY <2>1, <2>2
    <2> QED
      BY <1>1, <1>3, <2>2, <2>3 DEF ReportsAsTold
  <1>5. CASE ~Parser!Final
    <2>1. pc' # "DONE" /\ UNCHANGED delivered
      BY <1>5 DEF Parses, Parser!Handler, Parser!Ignore, Parser!RequestHeader, Parser!ResponseHeader,
              Parser!HeaderFails, Parser!SelectBody, Parser!Body, Parser!BodyEnds,
              Parser!ChunkedBody, Parser!TakeChunk, Parser!historyVars
    <2> QED
      BY <1>1, <1>3, <2>1 DEF ReportsAsTold
  <1> QED
    BY <1>4, <1>5

\* Every step reports as it tells.
LEMMA StepReports ==
  ASSUME ClientInv, ParserTheory!TypeOK, ReportTied, [Next]_vars
  PROVE  ReportsAsTold
  <1>1. /\ state = "CLOSED" => tcp_client = "CLOSED" /\ stream = "CLOSED"
        /\ state \in {"CLOSED", "CONNECTING", "CONNECTED", "CLOSING"}
    BY DEF ClientInv, ClientTheory!IInv, ClientTheory!TypeOK, ClientTheory!States,
           ClientTheory!Agree
  <1>2. CASE Handling
    <2>1. UNCHANGED delivered
      BY <1>2 DEF Handling, parserVars
    <2>2. CASE Client!Finish
      BY <2>1, <2>2 DEF Client!Finish, ReportsAsTold, Client!CanFinish
    <2>3. CASE Client!CloseEnter
      <3>1. /\ UNCHANGED seen
            /\ state' = state \/ (state \in {"CONNECTING", "CONNECTED"} /\ state' = "CLOSING")
        BY <2>3 DEF Client!CloseEnter
      <3> QED
        BY <2>1, <3>1 DEF ReportsAsTold
    <2>4. CASE Client!CloseStream \/ Client!HandlerEnds
      <3>1. UNCHANGED <<seen, state>>
        BY <2>4 DEF Client!CloseStream, Client!HandlerEnds
      <3> QED
        BY <2>1, <3>1 DEF ReportsAsTold
    <2> QED
      BY <1>2, <2>2, <2>3, <2>4 DEF Handling
  <1>3. CASE UserReturns \/ UserCloses \/ Closed \/ UNCHANGED vars
    BY <1>3 DEF UserReturns, UserCloses, Closed, Client!UserReturns, Client!UserCloses,
                Client!Closed, Client!TcpClosed, Client!StreamClosed, vars, clientVars,
                parserVars, ReportsAsTold
  <1>4. CASE Network
    <2>1. UNCHANGED delivered /\ state # "CLOSED"
      BY <1>1, <1>4 DEF Network, parserVars, Client!TcpError, Client!StreamConnect,
                        Client!StreamError, Client!StreamEnd
    <2>2. /\ state' = state \/ state' = "CONNECTED"
          /\ UNCHANGED seen \/ Client!Report("ERROR")
      BY <1>4 DEF Network, Client!TcpError, Client!StreamConnect, Client!StreamError,
                  Client!StreamEnd
    <2> QED
      BY <2>1, <2>2 DEF ReportsAsTold
  <1>5. CASE CloseParser
    <2>1. UNCHANGED <<seen, state>>
      BY <1>5 DEF CloseParser, Client!CloseParser
    <2>2. UNCHANGED delivered
      BY <1>5 DEF CloseParser, Parser!Close, Parser!historyVars, parserVars
    <2> QED
      BY <2>1, <2>2 DEF ReportsAsTold
  <1>6. CASE GoesOn
    <2>1. UNCHANGED <<seen, state>>
      BY <1>6 DEF GoesOn
    <2>2. UNCHANGED delivered
      BY <1>6 DEF GoesOn, Parser!HeaderReturns, Parser!SelectBody, Parser!BodyChunkReturns,
                  Parser!BodyEnds, Parser!ChunkReturns, Parser!FinalReturns,
                  Parser!ErrorReturns, Parser!historyVars
    <2> QED
      BY <2>1, <2>2 DEF ReportsAsTold
  <1>7. CASE OpenFailsEarly
    BY <1>7 DEF OpenFailsEarly, Client!OpenFails, parserVars, ReportsAsTold
  <1>8. CASE \E fl \in OpenFlags, t \in Traffic : Open(fl, t)
    <2>1. PICK fl \in OpenFlags, t \in Traffic : Open(fl, t)
      BY <1>8
    <2>2. delivered' = <<>>
      BY <2>1 DEF Open, Parser!Open
    <2>3. \/ seen' = <<>> /\ state' = "CONNECTING"
          \/ UNCHANGED <<seen, state>> /\ state = "CLOSED"
      BY <2>1 DEF Open, Client!OpenSucceeds, Client!OpenFails
    <2> QED
      BY <2>2, <2>3 DEF ReportsAsTold
  <1>9. CASE \E k \in 1..Len(inflight), b \in Bases : StreamData(k, b)
    <2>1. UNCHANGED <<seen, state, delivered>>
      BY <1>9 DEF StreamData, Client!StreamData, Parser!Data, Parser!historyVars
    <2> QED
      BY <2>1 DEF ReportsAsTold
  <1> QED
    BY <1>2, <1>3, <1>4, <1>5, <1>6, <1>7, <1>8, <1>9, ParsesReports DEF Next

\* And so report and message stay tied.
LEMMA NextReportTied ==
  ASSUME ClientInv, ParserTheory!TypeOK, ReportTied, [Next]_vars
  PROVE  ReportTied'
  <1>1. {"ERROR", "HEADER", "CHUNK", "CLOSE", "RESPONSE"} \subseteq ClientTheory!Contract!Events
    BY DEF ClientTheory!Contract!Events
  <1>2. \A e \in {"ERROR", "HEADER", "CHUNK", "CLOSE", "RESPONSE"} : Client!Report(e) =>
          /\ seen' # <<>> /\ Last(seen') = e
          /\ ClientTheory!Told("RESPONSE")' <=> ClientTheory!Told("RESPONSE") \/ "RESPONSE" = e
    BY <1>1, LastReported
  <1>3. UNCHANGED seen => (ClientTheory!Told("RESPONSE")' <=> ClientTheory!Told("RESPONSE"))
    BY DEF ClientTheory!Told, ClientTheory!Contract!Saw
  <1> QED
    BY <1>2, <1>3, StepReports DEF ReportsAsTold, ReportTied

\* The content of a first message is a sequence, of which its beginnings are prefixes.
LEMMA ContentOfFirst ==
  ASSUME ParserTheory!TypeOK, 1 \in DOMAIN sent
  PROVE  IsPrefix(<<>>, FirstContent) /\ IsPrefix(FirstContent, FirstContent)
  <1> DEFINE b == sent[1].body
  <1>1. b \in Nat
    <2>1. sent \in Seq(ParserTheory!Framings)
      BY DEF ParserTheory!TypeOK
    <2>2. sent[1] \in ParserTheory!Framings
      BY <2>1, ElementOfSeq
    <2> QED
      BY <2>2 DEF ParserTheory!Framings
  <1>2. FirstContent = ParserTheory!DataBytes(1, 0, b)
    BY DEF FirstContent, ParserTheory!Content
  <1> HIDE DEF b
  <1>3. \A k \in 0..b :
          ParserTheory!IsPrefix(ParserTheory!DataBytes(1, 0, k), ParserTheory!DataBytes(1, 0, b))
    BY <1>1, ParserAssumptions, ParserTheory!ContentPrefix
  <1>4. ParserTheory!DataBytes(1, 0, 0) = <<>>
    <2>1. /\ ParserTheory!DataBytes(1, 0, 0) \in Seq(ParserTheory!Bytes)
          /\ Len(ParserTheory!DataBytes(1, 0, 0)) = 0
      BY ParserAssumptions, ParserTheory!ContentBytesAt
    <2> QED
      BY <2>1, EmptySeq
  <1>5. 0 \in 0..b /\ b \in 0..b
    BY <1>1
  <1>6. /\ ParserTheory!IsPrefix(<<>>, FirstContent)
        /\ ParserTheory!IsPrefix(FirstContent, FirstContent)
    BY <1>2, <1>3, <1>4, <1>5
  <1> QED
    BY <1>6 DEF IsPrefix, ParserTheory!IsPrefix

\* What MessageDelivery is in terms of the parser.
LEMMA SameDelivery ==
  /\ \A f : ParserTheory!Delivery!WellFormed(f) <=> ParserTheory!WellFormed(f)
  /\ \A m, f : ParserTheory!Delivery!Content(m, f) = ParserTheory!Content(m, f)
  /\ \A s, t : ParserTheory!Delivery!IsPrefix(s, t) <=> IsPrefix(s, t)
  <1>1. \A s, t : ParserTheory!IsPrefix(s, t) <=> IsPrefix(s, t)
    BY DEF ParserTheory!IsPrefix, IsPrefix
  <1> QED
    BY <1>1, ParserAssumptions, ParserTheory!SameWire DEF ParserTheory!Content

\* As MessageDelivery allows no other step, the client goes on receiving the first message.
LEMMA NextFirstOnly ==
  ASSUME ClientInv, ParserTheory!TypeOK, ParserTheory!TypeOK', ReportTied, FirstOnly, [Next]_vars,
         [ParserTheory!Delivery!Next]_ParserTheory!Delivery!vars
  PROVE  FirstOnly'
  <1>1. /\ delivered \in Seq([m : Nat, content : Seq(ParserTheory!Bytes)])
        /\ Len(<<>>) = 0
        /\ cur \in {0} \cup DOMAIN sent /\ cur' \in {0} \cup DOMAIN sent'
    BY DEF ParserTheory!TypeOK
  <1>2. \/ delivered = <<>>
        \/ delivered' = <<>> /\ cur' = 0
        \/ UNCHANGED <<sent, cur, content, delivered>>
    BY ToldFirst
  <1>3. CASE ParserTheory!Delivery!Connect
    <2>1. cur' = 0 /\ delivered' = <<>> /\ ParserTheory!Synced'
      BY <1>3 DEF ParserTheory!Delivery!Connect
    <2> QED
      BY <1>1, <2>1 DEF FirstOnly
  <1>4. CASE delivered # <<>> /\ ~ParserTheory!Delivery!Connect
    <2>1. delivered' # <<>>
      <3>1. \/ delivered' = delivered
            \/ \E x : delivered' = Append(delivered, x)
        BY <1>4 DEF ParserTheory!Delivery!Next, ParserTheory!Delivery!vars,
                    ParserTheory!Delivery!Begin, ParserTheory!Delivery!Grow,
                    ParserTheory!Delivery!Tell, ParserTheory!Delivery!Lose
      <3> QED
        BY <1>1, <1>4, <3>1
    <2>2. UNCHANGED <<sent, cur, content, delivered>>
      BY <1>2, <1>4, <2>1
    <2>3. FirstContent' = FirstContent
      BY <2>2 DEF FirstContent
    <2>4. ParserTheory!WellFormed(sent[1])' <=> ParserTheory!WellFormed(sent[1])
      BY <2>2 DEF ParserTheory!WellFormed
    <2> QED
      BY <1>4, <2>2, <2>3, <2>4 DEF FirstOnly
  <1>5. CASE delivered = <<>> /\ ~ParserTheory!Delivery!Connect
    <2>1. ParserTheory!Synced /\ Len(delivered) + 1 = 1
      BY <1>1, <1>5 DEF FirstOnly
    <2>2. /\ UNCHANGED sent /\ ParserTheory!Synced' = ParserTheory!Synced
          /\ \/ /\ cur' = 1 /\ content' = <<>> /\ delivered' = delivered
             \/ /\ cur # 0 /\ cur' = cur /\ delivered' = delivered
                /\ ParserTheory!WellFormed(sent[cur]) =>
                     IsPrefix(content', ParserTheory!Content(cur, sent[cur]))
             \/ /\ cur = 1 /\ cur' = 1
                /\ delivered' = Append(delivered, [m |-> 1, content |-> content'])
                /\ ParserTheory!WellFormed(sent[1]) => content' = FirstContent
             \/ UNCHANGED <<cur, content, delivered>>
      BY <1>5, <2>1, SameDelivery
         DEF ParserTheory!Delivery!Next, ParserTheory!Delivery!vars, FirstContent,
             ParserTheory!Delivery!Begin, ParserTheory!Delivery!Grow,
             ParserTheory!Delivery!Tell, ParserTheory!Delivery!Lose
    <2>3. FirstContent' = FirstContent
      BY <2>2 DEF FirstContent
    <2>4. ParserTheory!WellFormed(sent[1])' <=> ParserTheory!WellFormed(sent[1])
      BY <2>2 DEF ParserTheory!WellFormed
    <2>5. Append(<<>>, [m |-> 1, content |-> content']) = <<[m |-> 1, content |-> content']>>
      OBVIOUS
    <2>6. Len(delivered') <= 1
      <3>1. delivered' = <<>> \/ delivered' = Append(<<>>, [m |-> 1, content |-> content'])
        BY <1>5, <2>2
      <3>2. Len(<<[m |-> 1, content |-> content']>>) = 1
        OBVIOUS
      <3> DEFINE n == Len(delivered')
      <3>3. n = 0 \/ n = 1
        BY <1>1, <2>5, <3>1, <3>2, Zenon
      <3> HIDE DEF n
      <3>4. n <= 1
        BY <3>3
      <3> QED
        BY <3>4 DEF n
    <2>7. ASSUME ParserTheory!WellFormed(sent[1])
          PROVE  /\ cur' # 0 => cur' = 1 /\ IsPrefix(content', FirstContent)
                 /\ delivered' # <<>> => delivered'[1] = [m |-> 1, content |-> FirstContent]
      <3>1. cur # 0 => cur = 1 /\ IsPrefix(content, FirstContent)
        BY <2>7 DEF FirstOnly
      <3>2. 1 \in DOMAIN sent => IsPrefix(<<>>, FirstContent) /\ IsPrefix(FirstContent, FirstContent)
        BY ContentOfFirst
      <3>3. cur' = 1 => 1 \in DOMAIN sent
        BY <1>1, <2>2
      <3> QED
        BY <1>5, <2>2, <2>5, <2>7, <3>1, <3>2, <3>3 DEF FirstContent
    <2> QED
      BY <2>1, <2>2, <2>3, <2>4, <2>6, <2>7 DEF FirstOnly
  <1> QED
    BY <1>3, <1>4, <1>5

\* A response is reported once per connection, with the content the peer sent as the
\* first message of this connection, for every traffic, split and nesting of calls.
THEOREM ResponseSafe == Spec => []ResponseIsOwn
  <1> DEFINE ParserInv == ParserTheory!IInv /\ ParserTheory!DInv
             Inv == ClientInv /\ Link /\ ReportTied /\ FirstOnly
  <1>1. ParserTheory!Init => ParserInv
    BY ParserAssumptions, ParserTheory!InitIInv, ParserTheory!InitDInv
  <1>2. ParserInv /\ [ParserTheory!Next]_ParserTheory!vars => ParserInv'
    BY ParserAssumptions, ParserTheory!NextIInv, ParserTheory!NextDInv
  <1>3. ParserInv => ParserTheory!Streamed
    BY ParserAssumptions, ParserTheory!StreamedContent
  <1>4. Spec => [](ParserInv /\ ParserTheory!Streamed)
    BY <1>1, <1>2, <1>3, ParserIsHttpParser, SameParser, PTL DEF Parser!Spec
  <1>5. Init => Inv
    <2> SUFFICES ASSUME Init PROVE Inv
      OBVIOUS
    <2>1. ClientInv /\ Link
      <3>1. ClientTheory!Range(<<>>) = {}
        BY ClientTheory!RangeFew, ExchangeAssumption
      <3> QED
        BY <3>1, InitClientInv DEF Init, Parser!Init, Link, InProgress
    <2>2. /\ delivered = <<>> /\ cur = 0 /\ sound = TRUE
          /\ state = "CLOSED" /\ seen = <<"CLOSE">>
      BY DEF Init, Parser!Init
    <2>3. Len(<<>>) = 0 /\ <<"CLOSE">> # <<>> /\ Last(<<"CLOSE">>) = "CLOSE"
      BY DEF Last
    <2> QED
      BY <2>1, <2>2, <2>3 DEF ReportTied, FirstOnly, ParserTheory!Synced
  <1>6. ParserInv /\ ParserTheory!IInv' /\ ParserTheory!Streamed' /\ Inv /\ [Next]_vars => Inv'
    <2> SUFFICES ASSUME ParserInv, ParserTheory!IInv', ParserTheory!Streamed', Inv, [Next]_vars
                 PROVE  Inv'
      OBVIOUS
    <2>1. [ParserTheory!Delivery!Next]_ParserTheory!Delivery!vars
      <3>1. [ParserTheory!Next]_ParserTheory!vars
        BY ParserStep, SameParser
      <3> QED
        BY <3>1, ParserAssumptions, ParserTheory!NextShows
    <2>2. ParserTheory!TypeOK /\ ParserTheory!TypeOK'
      BY DEF ParserTheory!IInv
    <2> QED
      BY <2>1, <2>2, NextClientInv, NextLink, NextReportTied, NextFirstOnly
  <1>7. ParserInv /\ Inv => ResponseIsOwn
    <2> SUFFICES ASSUME ParserInv, Inv PROVE ResponseIsOwn
      OBVIOUS
    <2>1. Len(delivered) \in Nat /\ (delivered # <<>> => Len(delivered) # 0)
      <3>1. delivered \in Seq([m : Nat, content : Seq(ParserTheory!Bytes)])
        BY DEF ParserTheory!IInv, ParserTheory!TypeOK
      <3> QED
        BY <3>1, EmptySeq
    <2>2. Parser!WellFormed(sent[1]) <=> ParserTheory!WellFormed(sent[1])
      BY SameWellFormed
    <2>3. FirstContent = Parser!Content(1, sent[1])
      BY DEF FirstContent, Parser!Content, ParserTheory!Content, Parser!DataBytes,
             ParserTheory!DataBytes, Parser!Byte, ParserTheory!Byte
    <2>4. Len(delivered) <= 1 /\ (delivered # <<>> => Len(delivered) = 1)
      <3> DEFINE n == Len(delivered)
      <3>1. n <= 1
        BY DEF FirstOnly
      <3> HIDE DEF n
      <3>2. n \in Nat /\ n # 0 => n = 1
        BY <3>1
      <3> QED
        BY <2>1, <3>1, <3>2 DEF n
    <2> QED
      BY <2>2, <2>3, <2>4 DEF FirstOnly, ReportTied, ResponseIsOwn
  <1> QED
    BY <1>4, <1>5, <1>6, <1>7, PTL DEF Spec
================================================================================
