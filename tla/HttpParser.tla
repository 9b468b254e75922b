------------------------------ MODULE HttpParser ------------------------------
(***************************************************************************)
(* The incremental HTTP parser, reactor_http_parser.c, together with the   *)
(* window of the connection its stream shows it.                           *)
(*                                                                         *)
(* A DATA event of the stream (Data) enters reactor_http_parser_data,      *)
(* whose handlers end either by returning (pc = "idle") or by calling      *)
(* reactor_http_parser_data again (pc = "run"), so that one step is one    *)
(* call of one handler.  A handler that calls out to the owner in the      *)
(* middle of its work is split there: pc names the call that is in         *)
(* progress, and the handler's locals wait in take and last.  While the    *)
(* owner runs it may close the parser or clear the fields of the message,  *)
(* as the client and the server's application do.                          *)
(*                                                                         *)
(* The bytes the parser reads are those of data, the stream's unconsumed   *)
(* input, which the stream may move to another address before every event. *)
(***************************************************************************)
EXTENDS HttpWire

CONSTANTS
  Traffic,    \* the connections: records [sent, bytes], bytes being what sent encodes to
  OpenFlags,  \* the flags the parser is opened with
  Bases,      \* addresses at which the stream keeps its input
  MaxOpens    \* bound on the connections one parser serves

ASSUME TrafficAssumption ==
  Traffic \subseteq [sent : Seq(Framings), bytes : Seq(Bytes)]
\* What is on a connection at any time fits into a size_t, as it is in memory.
ASSUME SmallTrafficAssumption ==
  \A t \in Traffic : /\ Len(t.bytes) + 2 < SizeMod
                     /\ \A i \in 1..Len(t.bytes) : t.bytes[i].m \in 1..Len(t.sent)
ASSUME EncodedTrafficAssumption == \A t \in Traffic : Carries(t.bytes, t.sent)
\* The server opens its parsers without flags; the client adds RESPONSE to its
\* user's flags.  Nobody opens a streaming parser for requests.
ASSUME OpenFlagsAssumption == OpenFlags \subseteq {{}, {"RESPONSE"}, {"RESPONSE", "STREAM"}}
ASSUME BasesAssumption == Bases \subseteq Nat
ASSUME MaxOpensAssumption == MaxOpens \in Nat

VARIABLES
  state, flags,      \* struct reactor_http_parser
  base, size, content_begin, content_end, chunk_begin,
  fields,            \* the field vector of request or response: whose header each entry is from
  line,              \* address of the header text: request->method and path, the field pointers
  data, data_base,   \* the reactor_stream_data of the event: bytes and address of the first
  inflight,          \* bytes of the connection the stream has not read yet
  pc, take, last     \* which call is in progress, and the locals that survive it

\* History: what the peer sent, the message whose header was read last, its
\* content as far as the owner has it, and the messages dispatched as DONE.
\* sound: so far every message began where the previous one ended and found
\* an empty field vector; fits: so far every header and the content announced
\* behind it were within a size_t; fresh: the parser was opened with size = 0.
VARIABLES sent, cur, content, delivered, sound, fits, fresh, opens

parserVars == <<state, flags, base, size, content_begin, content_end, chunk_begin>>
messageVars == <<fields, line>>
streamVars == <<data, data_base, inflight>>
controlVars == <<pc, take, last>>
historyVars == <<sent, cur, content, delivered, sound, fits, fresh, opens>>
vars == <<parserVars, messageVars, streamVars, controlVars, historyVars>>

States == {"CLOSED", "RESPONSE_HEADER", "REQUEST_HEADER", "BODY", "CHUNKED_BODY", "FINAL"}

\* The owner's code runs while pc is one of these; "ERROR_CLOSE" is the call
\* made by reactor_http_parser_error.
Callbacks == {"HEADER", "CHUNK", "BODY_CHUNK", "DONE", "ERROR", "ERROR_CLOSE"}

\* "corrupt": more input was consumed than there is, or moved, and the code's
\* behaviour is undefined from here on.
Controls == {"idle", "run", "corrupt"} \cup Callbacks

Streaming == "STREAM" \in flags

Min2(a, b) == IF a <= b THEN a ELSE b

\* size_t addition of two numbers below SizeMod.
Wrap(n) == IF n >= SizeMod THEN n - SizeMod ELSE n

Init ==
  /\ state = "CLOSED" /\ flags = {}
  /\ base = 0 /\ size = 0 /\ content_begin = 0 /\ content_end = 0 /\ chunk_begin = 0
  /\ fields = <<>> /\ line = 0
  /\ data = <<>> /\ data_base = 0 /\ inflight = <<>>
  /\ pc = "idle" /\ take = 0 /\ last = FALSE
  /\ sent = <<>> /\ cur = 0 /\ content = <<>> /\ delivered = <<>>
  /\ sound = TRUE /\ fits = TRUE /\ fresh = TRUE /\ opens = 0

-------------------------------------------------------------------------------
\* The owner opens the parser for a new connection, whose message object has
\* been initialised.  Only state and flags are assigned: the sizes and offsets
\* of an earlier connection stay.
Open(fl, t) ==
  /\ pc = "idle" /\ opens < MaxOpens
  /\ state' = IF "RESPONSE" \in fl THEN "RESPONSE_HEADER" ELSE "REQUEST_HEADER"
  /\ flags' = fl
  /\ fields' = <<>> /\ line' = 0
  /\ data' = <<>> /\ inflight' = t.bytes
  /\ sent' = t.sent /\ cur' = 0 /\ content' = <<>> /\ delivered' = <<>>
  /\ sound' = TRUE /\ fits' = TRUE /\ fresh' = (size = 0) /\ opens' = opens + 1
  /\ UNCHANGED <<base, size, content_begin, content_end, chunk_begin, data_base, controlVars>>

\* reactor_http_parser_close, from outside or from within a callback.
Close ==
  /\ pc \in Callbacks \cup {"idle"} /\ state # "CLOSED"
  /\ state' = "CLOSED"
  /\ UNCHANGED <<flags, base, size, content_begin, content_end, chunk_begin,
                 messageVars, streamVars, controlVars, historyVars>>

\* The owner empties the field vector once it is done with the message.
ClearFields ==
  /\ pc = "DONE" /\ fields # <<>>
  /\ fields' = <<>>
  /\ UNCHANGED <<parserVars, line, streamVars, controlVars, historyVars>>

\* reactor_http_parser_error: reports, then closes.
Error ==
  /\ pc = "idle" /\ state # "CLOSED"
  /\ pc' = "ERROR_CLOSE"
  /\ UNCHANGED <<parserVars, messageVars, streamVars, take, last, historyVars>>

\* The return from either kind of ERROR event.
ErrorReturns ==
  /\ pc \in {"ERROR", "ERROR_CLOSE"}
  /\ state' = IF pc = "ERROR_CLOSE" THEN "CLOSED" ELSE state
  /\ pc' = "idle"
  /\ UNCHANGED <<flags, base, size, content_begin, content_end, chunk_begin,
                 messageVars, streamVars, take, last, historyVars>>

-------------------------------------------------------------------------------
\* The stream reads k more bytes and shows all its unconsumed input, now at
\* address b, in a DATA event.
Data(k, b) ==
  /\ pc = "idle" /\ k \in 1..Len(inflight)
  /\ data' = data \o SubSeq(inflight, 1, k)
  /\ inflight' = SubSeq(inflight, k + 1, Len(inflight))
  /\ data_base' = b
  /\ pc' = "run"
  /\ UNCHANGED <<parserVars, messageVars, take, last, historyVars>>

\* reactor_stream_data_consume(data, k).
Consume(k) ==
  /\ data' = SubSeq(data, k + 1, Len(data))
  /\ data_base' = data_base + k

\* The default of the switch in reactor_http_parser_data.
Ignore ==
  /\ pc = "run" /\ state = "CLOSED"
  /\ pc' = "idle"
  /\ UNCHANGED <<parserVars, messageVars, streamVars, take, last, historyVars>>

-------------------------------------------------------------------------------
\* What phr_parse_request and phr_parse_response can answer: the length of the
\* header, -2 for more input needed, -1 for a failure.  Input that does not
\* begin with a header (the rest of an earlier body) may look like either of
\* the last two.
ParseResults ==
  LET intact == data # <<>> /\ data[1].kind = "head" /\ data[1].arg = 1
      accepted == intact /\ sent[data[1].m].kind # "malformed"
      complete == Len(data) >= HdrLen
  IN {n \in {-2, -1, HdrLen} :
        /\ n = HdrLen => accepted /\ complete
        /\ n = -1     => data # <<>> /\ ~accepted
        /\ n = -2     => data = <<>> \/ ~complete \/ ~intact}

\* The framings that the two field lookups can find in a field vector flds: that
\* of the message whose header alone is there.  Entries left by an earlier message
\* point to memory that has been consumed or overwritten, and with them any
\* number may be found, or none, or the word "chunked".
FoundFramings(flds) ==
  IF Len(flds) = 1
  THEN {sent[flds[1]]}
  ELSE [kind : {"length", "chunked"}, announced : 0..SizeMod-1]

\* Mutant: the size of the message without its header.
SelectBodyWithoutHeader(n, flds) ==
  /\ content_begin' = n /\ content_end' = n
  /\ \E f \in FoundFramings(flds) :
       \/ /\ f.kind = "chunked"
          /\ chunk_begin' = n /\ state' = "CHUNKED_BODY" /\ UNCHANGED <<size, fits>>
       \/ /\ f.kind # "chunked"
          /\ size' = f.announced /\ state' = "BODY" /\ UNCHANGED chunk_begin
          /\ fits' = (fits /\ n + f.announced < SizeMod)
  /\ pc' = "run"

\* The second half of both header handlers, for a header that ends at n.
SelectBody(n, flds) ==
  /\ content_begin' = n /\ content_end' = n
  /\ \E f \in FoundFramings(flds) :
       \/ /\ f.kind = "chunked"
          /\ chunk_begin' = n /\ state' = "CHUNKED_BODY" /\ UNCHANGED <<size, fits>>
       \/ /\ f.kind # "chunked"
          /\ size' = Wrap(n + f.announced) /\ state' = "BODY" /\ UNCHANGED chunk_begin
          /\ fits' = (fits /\ n + f.announced < SizeMod)
  /\ pc' = "run"

\* The header fields of message m join the vector.
AddFields(m) ==
  /\ fields' = Append(fields, m) /\ line' = data_base
  /\ cur' = m /\ content' = <<>>

\* A header handler that gets no header: it waits for more input, or reports.
HeaderFails ==
  /\ \/ -2 \in ParseResults /\ pc' = "idle"
     \/ -1 \in ParseResults /\ pc' = "ERROR"
  /\ UNCHANGED <<state, size, content_begin, content_end, chunk_begin, messageVars, streamVars,
                 take, last, historyVars>>

RequestHeader ==
  /\ pc = "run" /\ state = "REQUEST_HEADER"
  /\ base' = data_base
  /\ \/ HeaderFails
     \/ /\ HdrLen \in ParseResults
        /\ AddFields(data[1].m)
        /\ SelectBody(HdrLen, fields')
        /\ UNCHANGED <<streamVars, take, last, sent, delivered, sound, fresh, opens>>
  /\ UNCHANGED flags

\* A streaming parser dispatches HEADER before it goes on.  It calls response_final
\* for it, which shows the owner the offsets as they are: see Shown.
ResponseHeader ==
  /\ pc = "run" /\ state = "RESPONSE_HEADER"
  /\ base' = data_base
  /\ \/ HeaderFails
     \/ /\ HdrLen \in ParseResults
        /\ AddFields(data[1].m)
        /\ IF Streaming
           THEN /\ pc' = "HEADER" /\ take' = HdrLen
                /\ UNCHANGED <<state, size, content_begin, content_end, chunk_begin, fits>>
           ELSE SelectBody(HdrLen, fields') /\ UNCHANGED take
        /\ UNCHANGED <<streamVars, last, sent, delivered, sound, fresh, opens>>
  /\ UNCHANGED flags

HeaderReturns ==
  /\ pc = "HEADER"
  /\ Consume(take)
  /\ SelectBody(0, fields)
  /\ UNCHANGED <<flags, base, messageVars, inflight, take, last,
                 sent, cur, content, delivered, sound, fresh, opens>>

-------------------------------------------------------------------------------
\* Mutants: a complete body is taken for incomplete; one byte short is taken for
\* complete; the other final state of the enumeration; no return on a wait.
BodyEndsLate(sz, avail) ==
  /\ size' = sz
  /\ IF avail <= sz
     THEN pc' = "idle" /\ UNCHANGED <<state, content_end>>
     ELSE pc' = "run" /\ state' = "FINAL" /\ content_end' = sz

BodyEndsEarly(sz, avail) ==
  /\ size' = sz
  /\ IF avail + 1 < sz
     THEN pc' = "idle" /\ UNCHANGED <<state, content_end>>
     ELSE pc' = "run" /\ state' = "FINAL" /\ content_end' = sz

BodyEndsDone(sz, avail) ==
  /\ size' = sz
  /\ IF avail < sz
     THEN pc' = "idle" /\ UNCHANGED <<state, content_end>>
     ELSE pc' = "run" /\ state' = "DONE" /\ content_end' = sz

BodyEndsRetries(sz, avail) ==
  /\ size' = sz /\ pc' = "run"
  /\ IF avail < sz
     THEN UNCHANGED <<state, content_end>>
     ELSE state' = "FINAL" /\ content_end' = sz

\* Mutant: all the input there is counts as the body.
BodyEndsGreedy(sz, avail) ==
  IF avail < sz
  THEN size' = sz /\ pc' = "idle" /\ UNCHANGED <<state, content_end>>
  ELSE size' = avail /\ pc' = "run" /\ state' = "FINAL" /\ content_end' = sz

\* The end of reactor_http_parser_body, when sz bytes are missing from the
\* body and avail bytes of input are there.
BodyEnds(sz, avail) ==
  /\ size' = sz
  /\ IF avail < sz
     THEN pc' = "idle" /\ UNCHANGED <<state, content_end>>
     ELSE pc' = "run" /\ state' = "FINAL" /\ content_end' = sz

Body ==
  /\ pc = "run" /\ state = "BODY"
  /\ IF data # <<>> /\ Streaming
     THEN /\ pc' = "BODY_CHUNK" /\ take' = Min2(size, Len(data))
          /\ content' = content \o SubSeq(data, 1, take')
          /\ UNCHANGED <<state, size, content_end>>
     ELSE BodyEnds(size, Len(data)) /\ UNCHANGED <<take, content>>
  /\ UNCHANGED <<flags, base, content_begin, chunk_begin, messageVars, streamVars, last,
                 sent, cur, delivered, sound, fits, fresh, opens>>

BodyChunkReturns ==
  /\ pc = "BODY_CHUNK"
  /\ Consume(take)
  /\ BodyEnds(size - take, Len(data) - take)
  /\ UNCHANGED <<flags, base, content_begin, chunk_begin, messageVars, inflight, take, last,
                 historyVars>>

-------------------------------------------------------------------------------
\* Where a CR LF starts at or after the offset from.
LineEnds(from) ==
  {i \in from + 1 .. Len(data) - 1 : data[i].kind = "cr" /\ data[i+1].kind = "lf"}

\* strtoul(start, NULL, 16).  Content taken for a chunk size may read as anything:
\* all that is more than the input, and does not wrap, is waited for alike.
ChunkSizes(byte) == IF byte.kind = "size" THEN {byte.arg} ELSE 0..Len(data) \cup {SizeMod - 1}

\* Mutant: the CR LF behind the chunk is not waited for.
ChunkFitsAlone(n, rest) == n <= rest

\* A chunk of n bytes and its CR LF are within the rest of the input, which is
\* decided in size_t arithmetic.
ChunkFits(n, rest) == Wrap(n + 2) <= rest

\* memmove of n bytes from offset from to offset to.
Moved(to, from, n) ==
  [i \in 1..Len(data) |-> IF i \in to+1 .. to+n THEN data[i - to + from] ELSE data[i]]

\* A complete chunk of n bytes at offset start: a streaming parser dispatches
\* it, the other moves it down to the end of the content.
TakeChunk(start, n) ==
  /\ last' = (n = 0)
  /\ IF Streaming
     THEN /\ pc' = "CHUNK" /\ take' = start + n + 2
          /\ content' = content \o SubSeq(data, start + 1, start + n)
          /\ UNCHANGED <<state, size, content_end, chunk_begin, data>>
     ELSE /\ data' = Moved(content_end, start, n)
          /\ content_end' = content_end + n /\ size' = content_end + n
          /\ chunk_begin' = start + n + 2
          /\ state' = IF n = 0 THEN "FINAL" ELSE state
          /\ UNCHANGED <<pc, take, content>>

ChunkedBody ==
  /\ pc = "run" /\ state = "CHUNKED_BODY"
  /\ \/ /\ LineEnds(chunk_begin) = {}
        /\ pc' = "idle"
        /\ UNCHANGED <<state, size, content_end, chunk_begin, data, take, last, content>>
     \/ \E eol \in LineEnds(chunk_begin) :
          /\ \A i \in LineEnds(chunk_begin) : eol <= i
          /\ \E n \in ChunkSizes(data[chunk_begin + 1]) :
               \/ /\ ChunkFits(n, Len(data) - (eol + 1)) /\ n + 2 < SizeMod
                  /\ TakeChunk(eol + 1, n)
               \/ /\ IF ChunkFits(n, Len(data) - (eol + 1))
                     THEN n + 2 >= SizeMod /\ pc' = "corrupt"
                     ELSE pc' = "idle"
                  /\ UNCHANGED <<state, size, content_end, chunk_begin, data, take, last, content>>
  /\ UNCHANGED <<flags, base, content_begin, messageVars, data_base, inflight,
                 sent, cur, delivered, sound, fits, fresh, opens>>

\* Mutant: the CR LF behind the chunk is not consumed.
ChunkReturnsEarly ==
  /\ pc = "CHUNK"
  /\ Consume(take - 2)
  /\ state' = IF last THEN "FINAL" ELSE state
  /\ pc' = "run"
  /\ UNCHANGED <<flags, base, size, content_begin, content_end, chunk_begin, messageVars,
                 inflight, take, last, historyVars>>

ChunkReturns ==
  /\ pc = "CHUNK"
  /\ Consume(take)
  /\ state' = IF last THEN "FINAL" ELSE state
  /\ pc' = "run"
  /\ UNCHANGED <<flags, base, size, content_begin, content_end, chunk_begin, messageVars,
                 inflight, take, last, historyVars>>

-------------------------------------------------------------------------------
\* Mutants: the content with the header in front; pointers that stay behind.
FinalContentWithHeader == SubSeq(data, 1, content_end)
FinalLineStays == line

\* The content as request_final and response_final show it to the owner, in a
\* HEADER and in a DONE event: a range of the input.  The HEADER event has the
\* offsets of an earlier message, as those of its own are set behind it.
Shown == [from |-> content_begin, to |-> content_end]

FinalContent == SubSeq(data, Shown.from + 1, Shown.to)

\* The header pointers, moved by as much as the input has moved.
FinalLine == line + (data_base - base)

Final ==
  /\ pc = "run" /\ state = "FINAL"
  /\ line' = FinalLine
  /\ content' = IF Streaming THEN content ELSE FinalContent
  /\ delivered' = Append(delivered, [m |-> cur, content |-> content'])
  /\ pc' = "DONE"
  /\ UNCHANGED <<parserVars, fields, streamVars, take, last, sent, cur, sound, fits, fresh, opens>>

\* After the DONE event the parser is ready for a header again, and the stream
\* drops size bytes.
FinalReturns ==
  /\ pc = "DONE"
  /\ state' = IF "RESPONSE" \in flags THEN "RESPONSE_HEADER" ELSE "REQUEST_HEADER"
  /\ IF size <= Len(data)
     THEN Consume(size) /\ pc' = "idle"
     ELSE pc' = "corrupt" /\ UNCHANGED <<data, data_base>>
  /\ sound' = (sound /\ fields = <<>> /\ WellFormed(sent[cur])
               /\ (Streaming \/ sent[cur].kind # "chunked"))
  /\ UNCHANGED <<flags, base, size, content_begin, content_end, chunk_begin, messageVars,
                 inflight, take, last, sent, cur, content, delivered, fits, fresh, opens>>

-------------------------------------------------------------------------------
Handler == Ignore \/ RequestHeader \/ ResponseHeader \/ Body \/ ChunkedBody \/ Final

Returns == ErrorReturns \/ HeaderReturns \/ BodyChunkReturns \/ ChunkReturns \/ FinalReturns

Owner == Close \/ ClearFields \/ Error \/ (\E fl \in OpenFlags, t \in Traffic : Open(fl, t))

Stream == \E k \in 1..Len(inflight), b \in Bases : Data(k, b)

Next == Handler \/ Returns \/ Owner \/ Stream

Spec == Init /\ [][Next]_vars

\* The event loop runs a handler it has entered, and an owner's callback
\* returns.  Nothing obliges a peer to send or an owner to open.
FairSpec == Spec /\ WF_vars(Handler) /\ WF_vars(Returns)

-------------------------------------------------------------------------------
(***************************************************************************)
(* Properties                                                              *)
(***************************************************************************)
\* What is on the wire of the current connection.
WireBytes == [kind : ByteKinds, m : DOMAIN sent, arg : Nat]

\* Every variable has its type: size_t values are naturals, and no subtraction
\* of the handlers (parser->size -= size above all) goes below zero.
TypeOK ==
  /\ state \in States /\ flags \in OpenFlags \cup {{}}
  /\ base \in Nat /\ size \in Nat
  /\ content_begin \in Nat /\ content_end \in Nat /\ chunk_begin \in Nat
  /\ sent \in Seq(Framings)
  /\ fields \in Seq(DOMAIN sent) /\ line \in Int
  /\ data \in Seq(WireBytes) /\ data_base \in Nat /\ inflight \in Seq(WireBytes)
  /\ pc \in Controls /\ take \in Nat /\ last \in BOOLEAN
  /\ cur \in {0} \cup DOMAIN sent /\ content \in Seq(Bytes)
  /\ delivered \in Seq([m : Nat, content : Seq(Bytes)])
  /\ sound \in BOOLEAN /\ fits \in BOOLEAN /\ fresh \in BOOLEAN /\ opens \in 0..MaxOpens

\* The parser's size does not come from an earlier connection.
SizeIsOwn == fresh \/ ~Streaming

\* The call in progress and the state the parser is in, unless the owner has
\* closed it from within that call.
CallMatchesState ==
  /\ pc = "HEADER"     => Streaming /\ state \in {"RESPONSE_HEADER", "CLOSED"}
  /\ pc = "BODY_CHUNK" => Streaming /\ state \in {"BODY", "CLOSED"}
  /\ pc = "CHUNK"      => Streaming /\ state \in {"CHUNKED_BODY", "CLOSED"}
  /\ pc = "DONE"       => state \in {"FINAL", "CLOSED"}
  /\ pc = "ERROR"      => state \in {"REQUEST_HEADER", "RESPONSE_HEADER", "CLOSED"}
  /\ state = "FINAL"   => pc \in {"run", "DONE"}
  /\ state = "REQUEST_HEADER" => "RESPONSE" \notin flags

\* What a handler consumes after its callback returns is still there.
TakeInBuffer ==
  /\ pc \in {"HEADER", "BODY_CHUNK", "CHUNK"} => take <= Len(data)
  /\ pc = "BODY_CHUNK" => take = Min2(size, Len(data))

\* The chunked coding is decoded in place: content before the next chunk line,
\* and that within the input.
ChunksInBuffer ==
  state = "CHUNKED_BODY" =>
    IF Streaming
    THEN chunk_begin = 0
    ELSE content_begin <= content_end /\ content_end <= chunk_begin /\ chunk_begin <= Len(data)

\* A streaming parser has nothing left to consume outside a counted body.
NothingPending ==
  Streaming /\ fresh /\ size # 0 =>
    state \in {"BODY", "CLOSED"} /\ pc \in {"idle", "run", "BODY_CHUNK", "ERROR_CLOSE"}

\* Between two DATA events, and before and after every owner's callback, the
\* offsets of parser->chunk_begin, content_begin and content_end are where the
\* handlers can use them without leaving the input.
BufferBounds == CallMatchesState /\ TakeInBuffer /\ ChunksInBuffer /\ NothingPending

\* The chunk size the parser is about to read is so near the largest size_t that
\* adding 2 to it wraps.
ChunkSizeWraps ==
  /\ state = "CHUNKED_BODY" /\ chunk_begin + 1 \in DOMAIN data
  /\ \E n \in ChunkSizes(data[chunk_begin + 1]) : n + 2 >= SizeMod

\* reactor_http_parser_final never drops more input than there is, and no chunk
\* reaches beyond it.  (After a stale size, or with a chunk size that wraps, they
\* may: see SizeIsOwn and ChunkSizeWraps.)
NoOverrun ==
  SizeIsOwn =>
    /\ pc = "corrupt" => ChunkSizeWraps
    /\ state = "FINAL" \/ pc = "DONE" => size <= Len(data)

\* The content the owner is shown is in the input.  A whole message that was not
\* streamed shows it from the end of its header on, and no less than nothing unless a
\* Content-Length, of the peer's or found through stale fields, made parser->size wrap;
\* of a streamed one neither HEADER nor DONE shows any.  (The first HEADER event of a
\* parser that was used before shows what range an earlier exchange left.)
ContentInBuffer ==
  /\ pc = "DONE" /\ ~Streaming =>
       Shown.from = HdrLen /\ Shown.to <= Len(data) /\ (fits => Shown.from <= Shown.to)
  /\ pc = "DONE" /\ Streaming => Shown.from = Shown.to
  /\ pc = "HEADER" /\ (opens = 1 \/ delivered # <<>>) => Shown.from = Shown.to

\* The stream moves its input between two events, and request_final and
\* response_final move the header pointers along: when a message that was not
\* streamed is dispatched they point at its header, the first byte of the input.
LineFollowsBuffer == pc = "HEADER" \/ (pc = "DONE" /\ ~Streaming) => line = data_base

\* The parser is in step with its peer: every message so far began where the one before
\* it ended.  A size of an earlier connection is used only behind the first message.
Synced ==
  sound /\ (SizeIsOwn \/ delivered = <<>> \/ (pc = "DONE" /\ Len(delivered) = 1))

\* The message whose header or body the parser waits for.
Awaited == IF state \in {"REQUEST_HEADER", "RESPONSE_HEADER"} THEN 1 ELSE cur

\* The parser never waits for input it has: when the handler of a DATA event
\* has returned in the middle of a message, or before the first one, bytes of
\* that message are still to come.  (It does wait with a pipelined message: the
\* first message of an event ends its handling.)
NoNeedlessWait ==
  /\ pc = "idle" /\ state # "CLOSED" /\ Synced
  /\ Awaited \in DOMAIN sent /\ WellFormed(sent[Awaited]) /\ Awaited > Len(delivered)
  => \E i \in DOMAIN inflight : inflight[i].m = Awaited

\* The owner is told the connection's messages as MessageDelivery promises, also
\* behind a chunked message that was not streamed, stale fields or a body longer
\* than announced, where the parser loses its place: then it may leave messages
\* out, but tells none twice and none out of order.
Delivery ==
  INSTANCE MessageDelivery
    WITH current <- cur, partial <- content, told <- delivered, sync <- Synced

ImplementsDelivery == Delivery!Spec

\* A pipelined request waits for the next DATA event, but it waits whole: between
\* two messages the unread input is just what was sent behind the last one told.
PipelineKept ==
  /\ pc = "idle" /\ state \in {"REQUEST_HEADER", "RESPONSE_HEADER"}
  /\ Synced /\ \A m \in DOMAIN sent : WellFormed(sent[m])
  => Encode(SubSeq(sent, 1, Len(delivered))) \o data \o inflight = Encode(sent)

\* Every DATA event is handled to the end, whatever the owner does in its
\* callbacks: the recursion of reactor_http_parser_data ends.
HandlerReturns == (pc = "run") ~> (pc \in {"idle", "corrupt"})
===============================================================================
