-------------------------- MODULE HttpDeliveryProofs --------------------------
(***************************************************************************)
(* The parser tells its owner the messages of a connection, as             *)
(* MessageDelivery promises, waits for nothing it has, and loses nothing   *)
(* between two messages: for every traffic that Carries its messages.      *)
(*                                                                         *)
(* The argument is about one number, p: how many bytes of the connection   *)
(* the stream has dropped.  While the parser is with a message or waits    *)
(* for one, its input and what the stream has not read are the bytes       *)
(* behind p (Unread).  While it is in step with its peer, p is where a     *)
(* message begins, or a part of its body, and what the parser knows of the *)
(* message is what the bytes up to there say (InStep).  HttpParserProofs   *)
(* has where those bytes are.                                              *)
(***************************************************************************)
EXTENDS HttpParserProofs

-------------------------------------------------------------------------------
(***************************************************************************)
(* The inductive invariant                                                 *)
(***************************************************************************)
\* Where the parser is: in front of a header; with a counted body; with a chunked
\* body; with a whole message.  In a callback that is the message it is called for,
\* also when the owner has closed the parser from within it.
InHeader == state \in {"REQUEST_HEADER", "RESPONSE_HEADER"} /\ pc \in {"idle", "run", "ERROR"}
InLength == pc = "BODY_CHUNK" \/ (state = "BODY" /\ pc \in {"idle", "run"})
InChunks == pc = "CHUNK" \/ (state = "CHUNKED_BODY" /\ pc \in {"idle", "run"})
Complete == state = "FINAL" /\ pc = "run"
InBody == InLength \/ InChunks
Whole == Complete \/ pc = "DONE"
Untold == pc = "HEADER" \/ InBody \/ Complete
Live == InHeader \/ Untold \/ pc = "DONE"

\* Up to here the input may be content that was moved down.
Edge == IF ~Streaming /\ (InChunks \/ Whole) THEN content_end ELSE 0

\* The input behind the offset e, and what the stream has not read, is what is left of
\* the connection behind its first p bytes.
Rest(t, p, e) ==
  /\ p + Len(data) + Len(inflight) = Len(t.bytes)
  /\ \A i \in 1..Len(data) : i > e => data[i] = t.bytes[p + i]
  /\ \A i \in 1..Len(inflight) : inflight[i] = t.bytes[p + Len(data) + i]

Unread(t, p) == Live => Rest(t, p, Edge)

\* The header of the message is still in the input.
HeadKept == pc = "HEADER" \/ (~Streaming /\ (InBody \/ Whole))

\* The header that was read last is among the dropped bytes, or begins the input.
HeadRead(t, p) ==
  Live /\ fits /\ cur # 0 =>
    \E h \in 1..Len(t.bytes) :
      h <= p + (IF HeadKept THEN 1 ELSE 0) /\ t.bytes[h] = Byte("head", cur, 1)

\* What the parser carries from one call to the next, in step or not.
Carried ==
  /\ Untold => cur # 0
  /\ Untold /\ ~Streaming => content = <<>>
  /\ pc = "HEADER" => take = HdrLen
  /\ (InBody \/ Whole) /\ ~Streaming => content_begin = HdrLen
  /\ pc = "DONE" => cur # 0 /\ delivered # <<>>

\* No message was told before an earlier one, and the current one not yet.
Ordered ==
  fits => \A i \in 1..Len(delivered) :
            delivered[i].m <= cur /\ (Untold => delivered[i].m < cur)

\* In step: the message is the one behind those that were told, and begins where they
\* end.
InPlace(p) ==
  /\ InHeader => /\ Good(sent, Len(delivered)) /\ cur = Len(delivered)
                 /\ p = Offset(sent, cur) /\ fields = <<>>
  /\ Untold => Good(sent, Len(delivered)) /\ cur = Len(delivered) + 1
  /\ pc = "HEADER" => p = Offset(sent, cur - 1) /\ fields = <<cur>> /\ content = <<>>
  /\ pc = "DONE" => Good(sent, Len(delivered) - 1) /\ cur = Len(delivered)

\* The first n content bytes of the message were streamed; or were decoded in place.
Received(n) == content = DataBytes(cur, 0, n)
Decoded(n) ==
  /\ content_end = HdrLen + n
  /\ \A i \in 1..n : data[HdrLen + i] = Byte("data", cur, i)

\* How much of a counted body is dropped.
Got == Len(content) - (IF pc = "BODY_CHUNK" THEN take ELSE 0)

LengthStreams(p) ==
  /\ Received(Len(content)) /\ Got \in Nat
  /\ p = Offset(sent, cur - 1) + HdrLen + Got /\ size + Got = sent[cur].body
  /\ pc = "idle" => data = <<>> /\ size > 0

LengthWaits(p) ==
  /\ p = Offset(sent, cur - 1) /\ size = HdrLen + sent[cur].body
  /\ pc = "idle" => Len(data) < size

LengthKept(p) ==
  /\ sent[cur].kind = "length"
  /\ IF Streaming THEN LengthStreams(p) ELSE LengthWaits(p)

\* The parser is with chunk j + 1 of a chunked body.
ChunkStreams(p, j) ==
  LET chunks == sent[cur].chunks
      n == ChunkSize(chunks, j)
  IN  /\ p = Offset(sent, cur - 1) + HdrLen + ChunkOffset(chunks, j)
      /\ IF pc = "CHUNK"
         THEN take = n + 5 /\ last = (j = Len(chunks)) /\ Received(SizeBefore(chunks)[j] + n)
         ELSE Received(SizeBefore(chunks)[j])

ChunkWaits(p, j) ==
  LET chunks == sent[cur].chunks
  IN  /\ p = Offset(sent, cur - 1) /\ chunk_begin = HdrLen + ChunkOffset(chunks, j)
      /\ Decoded(SizeBefore(chunks)[j])

ChunkKept(p, j) ==
  /\ IF Streaming THEN ChunkStreams(p, j) ELSE ChunkWaits(p, j)
  /\ pc = "idle" => Len(data) < chunk_begin + ChunkSize(sent[cur].chunks, j) + 5

ChunksKept(p) ==
  /\ sent[cur].kind = "chunked"
  /\ \E j \in 0..Len(sent[cur].chunks) : ChunkKept(p, j)

\* A whole message.
WholeKept(p) ==
  IF Streaming
  THEN p = Offset(sent, cur) /\ (Complete => Received(sent[cur].body))
  ELSE /\ Complete => Decoded(sent[cur].body)
       /\ sent[cur].kind = "length" =>
            p = Offset(sent, cur - 1) /\ size = HdrLen + sent[cur].body

MessageKept(p) ==
  /\ InLength => LengthKept(p)
  /\ InChunks => ChunksKept(p)
  /\ Whole => WholeKept(p)

BodyKept(p) == (InBody \/ Whole) /\ WellFormed(sent[cur]) => MessageKept(p)

\* In front of the first message the parser waits only for its header.
Waits ==
  pc \in {"idle", "ERROR"} /\ InHeader /\ delivered = <<>> /\ sent # <<>> /\ WellFormed(sent[1])
    => Len(data) < HdrLen

InStep(p) == Synced => InPlace(p) /\ BodyKept(p) /\ Waits

Placed(t, p) == t.sent = sent /\ Unread(t, p) /\ HeadRead(t, p) /\ InStep(p)

Unopened == opens = 0 /\ pc = "idle" /\ state = "CLOSED" /\ inflight = <<>>

DInv ==
  /\ Carried /\ Ordered
  /\ Unopened \/ \E t \in Traffic : \E p \in 0..Len(t.bytes) : Placed(t, p)

\* Messages are told and received by their number.
LEMMA NumbersOfMessages ==
  ASSUME TypeOK
  PROVE  /\ cur \in Nat /\ Len(delivered) \in Nat
         /\ \A i \in 1..Len(delivered) : delivered[i].m \in Nat
<1>1. delivered \in Seq([m : Nat, content : Seq(Bytes)]) /\ Len(delivered) \in Nat
  BY DEF TypeOK
<1>2. \A i \in 1..Len(delivered) : delivered[i] \in [m : Nat, content : Seq(Bytes)]
  BY <1>1, ElementOfSeq
<1>3. cur \in Nat
  BY DEF TypeOK
<1> QED
  BY <1>1, <1>2, <1>3

\* Parser and peer are in step as before unless a message is told or dropped.
LEMMA SyncedStays ==
  ASSUME UNCHANGED <<flags, delivered, sound, fresh>>, (pc' = "DONE") <=> (pc = "DONE")
  PROVE  Synced' = Synced
BY DEF Synced, SizeIsOwn, Streaming

\* Telling a message does not change it.
LEMMA SyncedTold ==
  ASSUME TypeOK, Final
  PROVE  Synced' = Synced
<1>1. /\ delivered' = Append(delivered, [m |-> cur, content |-> content'])
      /\ UNCHANGED <<flags, sound, fresh>> /\ pc = "run" /\ pc' = "DONE"
  BY DEF Final, parserVars
<1>2. delivered' # <<>> /\ (Len(delivered') = 1 <=> delivered = <<>>)
  <2>1. delivered \in Seq([m : Nat, content : Seq(Bytes)])
    BY DEF TypeOK
  <2> QED
    BY <1>1, <2>1
<1>3. SizeIsOwn' = SizeIsOwn
  BY <1>1 DEF SizeIsOwn, Streaming
<1> QED
  BY <1>1, <1>2, <1>3 DEF Synced

\* What is read is bytes, and what is still to be read.
LEMMA InputBytes ==
  ASSUME TypeOK
  PROVE  data \in Seq(Bytes) /\ inflight \in Seq(Bytes) /\ Len(data) \in Nat /\ Len(inflight) \in Nat
<1>1. data \in Seq(WireBytes) /\ inflight \in Seq(WireBytes)
  BY DEF TypeOK
<1>2. WireBytes \subseteq Bytes
  BY WireBytesAreBytes
<1> QED
  BY <1>1, <1>2

\* The message whose header was read last.
LEMMA CurrentMessage ==
  ASSUME TypeOK, cur # 0
  PROVE  /\ sent \in Seq(Framings) /\ cur \in 1..Len(sent) /\ sent[cur] \in Framings
         /\ sent[cur].body \in Nat /\ sent[cur].announced \in 0..SizeMod-1
         /\ sent[cur].chunks \in Seq(Nat \ {0}) /\ Len(sent[cur].chunks) \in Nat
         /\ \A j \in 0..Len(sent[cur].chunks) :
              /\ SizeBefore(sent[cur].chunks)[j] \in Nat
              /\ ChunkOffset(sent[cur].chunks, j) \in Nat
              /\ ChunkSize(sent[cur].chunks, j) \in Nat
<1>1. sent \in Seq(Framings) /\ cur \in 1..Len(sent)
  BY DEF TypeOK
<1>2. sent[cur] \in Framings
  BY <1>1, ElementOfSeq
<1>3. /\ sent[cur].body \in Nat /\ sent[cur].announced \in 0..SizeMod-1
      /\ sent[cur].chunks \in Seq(Nat \ {0})
  BY <1>2 DEF Framings
<1> QED
  BY <1>1, <1>2, <1>3, ChunkNumbers
-------------------------------------------------------------------------------
(***************************************************************************)
(* Steps that leave the parser where it is                                 *)
(***************************************************************************)
Settled == <<flags, size, content_begin, content_end, chunk_begin, data, inflight, take, last,
             sent, cur, content, delivered, sound, fresh, fits>>

\* After a step that ends the parser's work there is nothing to show.
LEMMA NotLive ==
  ASSUME Ordered, ~Live', UNCHANGED <<sent, cur, delivered, fits>>, NEW t, NEW p, t.sent = sent
  PROVE  Carried' /\ Ordered' /\ Placed(t, p)'
<1>1. /\ ~InHeader' /\ ~Untold' /\ ~InBody' /\ ~InLength' /\ ~InChunks' /\ ~Complete' /\ ~Whole'
      /\ pc' # "DONE" /\ pc' # "HEADER"
  BY DEF Live, Untold, InBody, Whole
<1>2. Carried'
  BY <1>1 DEF Carried
<1>3. Ordered'
  BY <1>1 DEF Ordered
<1>4. Unread(t, p)' /\ HeadRead(t, p)'
  BY DEF Unread, HeadRead
<1>5. InPlace(p)' /\ BodyKept(p)' /\ Waits'
  BY <1>1 DEF InPlace, BodyKept, Waits
<1> QED
  BY <1>2, <1>3, <1>4, <1>5 DEF Placed, InStep

\* A step in which only the call in progress and the state change, and those not as
\* far as the parser's place is concerned.
LEMMA PlaceStays ==
  ASSUME Carried, Ordered, NEW t, NEW p, Placed(t, p), UNCHANGED Settled,
         InHeader' = InHeader, InLength' = InLength, InChunks' = InChunks, Complete' = Complete,
         \A c \in {"HEADER", "BODY_CHUNK", "CHUNK", "DONE"} : (pc' = c) <=> (pc = c),
         pc' = "idle" => InHeader \/ pc = "idle",
         pc = "DONE" \/ UNCHANGED fields,
         Synced => Waits'
  PROVE  Carried' /\ Ordered' /\ Placed(t, p)'
<1>1. /\ (pc' = "HEADER") <=> (pc = "HEADER")
      /\ (pc' = "BODY_CHUNK") <=> (pc = "BODY_CHUNK")
      /\ (pc' = "CHUNK") <=> (pc = "CHUNK")
      /\ (pc' = "DONE") <=> (pc = "DONE")
  OBVIOUS
<1>2. /\ InBody' = InBody
      /\ Whole' = Whole
      /\ Untold' = Untold
      /\ Live' = Live
  BY <1>1 DEF InBody, Whole, Untold, Live
<1>3. Streaming' = Streaming /\ fits' = fits /\ Synced' = Synced
  BY <1>1, SyncedStays DEF Settled, Streaming
<1>4. Edge' = Edge /\ HeadKept' = HeadKept
  BY <1>1, <1>2, <1>3 DEF Edge, HeadKept, Settled
<1>5. Carried'
  BY <1>1, <1>2, <1>3 DEF Carried, Settled
<1>6. Ordered'
  BY <1>2, <1>3 DEF Ordered, Settled
<1>7. Unread(t, p)'
  <2>1. Rest(t, p, Edge) => Rest(t, p, Edge)'
    BY <1>4 DEF Rest, Settled
  <2> QED
    BY <1>2, <2>1 DEF Unread, Placed
<1>8. HeadRead(t, p)'
  <2>1. cur' = cur
    BY DEF Settled
  <2> QED
    BY <1>2, <1>3, <1>4, <2>1 DEF HeadRead, Placed
<1>9. InPlace(p) => InPlace(p)'
  BY <1>1, <1>2 DEF InPlace, Settled, InHeader, Untold
<1>10. BodyKept(p) => BodyKept(p)'
  <2>0. InBody /\ pc' = "idle" => pc = "idle"
    BY DEF InBody, InHeader, InLength, InChunks
  <2>1. InLength => (LengthKept(p) => LengthKept(p)')
    BY <1>1, <1>3, <2>0 DEF InBody, LengthKept, LengthStreams, LengthWaits, Got, Received, Settled
  <2>2. ASSUME InChunks, ChunksKept(p)
        PROVE  ChunksKept(p)'
    <3>1. PICK j \in 0..Len(sent[cur].chunks) : ChunkKept(p, j)
      BY <2>2 DEF ChunksKept
    <3>2. ChunkKept(p, j)'
      BY <1>1, <1>3, <2>0, <2>2, <3>1
         DEF InBody, ChunkKept, ChunkStreams, ChunkWaits, Received, Decoded, Settled
    <3>3. sent' = sent /\ cur' = cur
      BY DEF Settled
    <3> QED
      BY <2>2, <3>2, <3>3 DEF ChunksKept
  <2>3. WholeKept(p) => WholeKept(p)'
    BY <1>2, <1>3 DEF WholeKept, Received, Decoded, Settled
  <2> QED
    BY <1>2, <2>1, <2>2, <2>3 DEF BodyKept, MessageKept, Settled
<1>11. InStep(p)'
  <2>1. InStep(p)
    BY DEF Placed
  <2> QED
    BY <1>3, <1>9, <1>10, <2>1 DEF InStep
<1>12. (t.sent = sent)'
  BY DEF Placed, Settled
<1> QED
  BY <1>5, <1>6, <1>7, <1>8, <1>11, <1>12 DEF Placed

\* The invariant holds after a step from place p if a place is known after it.
LEMMA PlaceFound ==
  ASSUME NEW t \in Traffic, NEW p \in 0..Len(t.bytes), Carried', Ordered', Placed(t, p)'
  PROVE  DInv'
BY DEF DInv

\* The owner opens the parser: nothing of the connection has been read.
LEMMA OpenKeeps ==
  ASSUME NEW fl \in OpenFlags, NEW t \in Traffic, Open(fl, t)
  PROVE  DInv'
<1> USE HdrLenAssumption
<1>1. /\ pc' = "idle" /\ state' \in {"RESPONSE_HEADER", "REQUEST_HEADER"}
      /\ data' = <<>> /\ inflight' = t.bytes /\ sent' = t.sent /\ cur' = 0 /\ content' = <<>>
      /\ delivered' = <<>> /\ fields' = <<>>
  BY DEF Open, controlVars
<1>2. t.bytes \in Seq(Bytes) /\ t.sent \in Seq(Framings) /\ Len(t.bytes) \in Nat
  BY TrafficAssumption
<1>3. InHeader' /\ ~InLength' /\ ~InChunks' /\ ~Complete' /\ ~Untold' /\ ~InBody' /\ ~Whole'
  BY <1>1 DEF InHeader, InLength, InChunks, Complete, Untold, InBody, Whole
<1>4. Carried' /\ Ordered'
  BY <1>1, <1>3 DEF Carried, Ordered
<1>5. Unread(t, 0)'
  BY <1>1, <1>2 DEF Unread, Rest
<1>6. HeadRead(t, 0)'
  BY <1>1 DEF HeadRead
<1>7. InPlace(0)'
  <2>1. Offset(t.sent, 0) = 0
    BY <1>2, EncodeStep
  <2> QED
    BY <1>1, <1>3, <2>1 DEF InPlace, Good
<1>8. BodyKept(0)' /\ Waits'
  BY <1>1, <1>3 DEF BodyKept, Waits
<1>9. 0 \in 0..Len(t.bytes)
  BY <1>2
<1>10. Placed(t, 0)'
  BY <1>1, <1>5, <1>6, <1>7, <1>8 DEF Placed, InStep
<1> QED
  BY <1>4, <1>9, <1>10, PlaceFound

\* The owner's other calls and the ends of its error callbacks move nothing.
LEMMA OwnerKeeps ==
  ASSUME IInv, DInv, Owner \/ ErrorReturns \/ Ignore
  PROVE  DInv'
<1>1. CallMatchesState
  BY DEF IInv, Bounds, BufferBounds
<1>2. CASE Unopened
  BY <1>2, OpenKeeps DEF Owner, Unopened, Close, ClearFields, Error, ErrorReturns, Ignore
<1>3. CASE ~Unopened
  <2>0. PICK t \in Traffic : \E p \in 0..Len(t.bytes) : Placed(t, p)
    BY <1>3 DEF DInv
  <2>1. PICK p \in 0..Len(t.bytes) : Placed(t, p)
    BY <2>0
  <2>2. Carried /\ Ordered /\ t.sent = sent
    BY <2>1 DEF DInv, Placed
  <2>3. CASE Close
    <3>1. UNCHANGED Settled /\ UNCHANGED fields /\ state' = "CLOSED" /\ pc' = pc
      BY <2>3 DEF Close, Settled, messageVars, streamVars, controlVars, historyVars
    <3>2. CASE pc \in {"idle", "ERROR", "ERROR_CLOSE"}
      <4>1. ~Live'
        BY <3>1, <3>2 DEF Live, Untold, InHeader, InBody, InLength, InChunks, Complete
      <4> QED
        BY <2>2, <3>1, <4>1, PlaceFound, NotLive DEF Settled
    <3>3. CASE pc \in {"HEADER", "BODY_CHUNK", "CHUNK", "DONE"}
      <4>1. /\ InHeader' = InHeader /\ InLength' = InLength /\ InChunks' = InChunks
            /\ Complete' = Complete /\ Waits'
        BY <3>1, <3>3 DEF InHeader, InLength, InChunks, Complete, Waits
      <4>2. Carried' /\ Ordered' /\ Placed(t, p)'
        BY <2>1, <2>2, <3>1, <3>3, <4>1, PlaceStays
      <4> QED
        BY <4>2, PlaceFound
    <3> QED
      BY <2>3, <3>2, <3>3 DEF Close, Callbacks
  <2>4. CASE ClearFields
    <3>1. UNCHANGED Settled /\ state' = state /\ pc' = pc /\ pc = "DONE"
      BY <2>4 DEF ClearFields, Settled, parserVars, streamVars, controlVars, historyVars
    <3>2. /\ InHeader' = InHeader /\ InLength' = InLength /\ InChunks' = InChunks
          /\ Complete' = Complete /\ Waits'
      BY <3>1 DEF InHeader, InLength, InChunks, Complete, Waits
    <3>3. Carried' /\ Ordered' /\ Placed(t, p)'
      BY <2>1, <2>2, <3>1, <3>2, PlaceStays
    <3> QED
      BY <3>3, PlaceFound
  <2>5. CASE Error
    <3>1. ~Live' /\ UNCHANGED <<sent, cur, delivered, fits>>
      BY <2>5 DEF Error, historyVars, Live, Untold, InHeader, InBody, InLength, InChunks, Complete
    <3> QED
      BY <2>2, <3>1, PlaceFound, NotLive
  <2>6. CASE ErrorReturns
    <3>1. UNCHANGED Settled /\ UNCHANGED fields /\ pc' = "idle"
      BY <2>6 DEF ErrorReturns, Settled, messageVars, streamVars, historyVars
    <3>2. CASE state' = "CLOSED"
      <4>1. ~Live'
        BY <3>1, <3>2 DEF Live, Untold, InHeader, InBody, InLength, InChunks, Complete
      <4> QED
        BY <2>2, <3>1, <4>1, PlaceFound, NotLive DEF Settled
    <3>3. CASE state' # "CLOSED"
      <4>1. pc = "ERROR" /\ state' = state /\ state \in {"REQUEST_HEADER", "RESPONSE_HEADER"}
        BY <1>1, <2>6, <3>3 DEF ErrorReturns, CallMatchesState
      <4>2. /\ InHeader' = InHeader /\ InLength' = InLength /\ InChunks' = InChunks
            /\ Complete' = Complete /\ InHeader
        BY <3>1, <4>1 DEF InHeader, InLength, InChunks, Complete
      <4>3. Synced => Waits'
        <5>1. Synced => Waits
          BY <2>1 DEF Placed, InStep
        <5> QED
          BY <3>1, <4>1, <4>2, <5>1 DEF Waits, Settled
      <4>4. Carried' /\ Ordered' /\ Placed(t, p)'
        BY <2>1, <2>2, <3>1, <4>1, <4>2, <4>3, PlaceStays
      <4> QED
        BY <4>4, PlaceFound
    <3> QED
      BY <3>2, <3>3
  <2>7. CASE Ignore
    <3>1. ~Live' /\ UNCHANGED <<sent, cur, delivered, fits>>
      BY <2>7 DEF Ignore, parserVars, historyVars, Live, Untold, InHeader, InBody, InLength, InChunks, Complete
    <3> QED
      BY <2>2, <3>1, PlaceFound, NotLive
  <2> QED
    BY <2>3, <2>4, <2>5, <2>6, <2>7, OpenKeeps DEF Owner
<1> QED
  BY <1>2, <1>3

\* The stream moves bytes from what it has not read to the input.
LEMMA DataPlace ==
  ASSUME NEW k \in 1..Len(inflight), NEW b \in Bases, NEW p \in Nat, NEW t, NEW e,
         TypeOK, Data(k, b), Rest(t, p, e)
  PROVE  /\ p + Len(data') + Len(inflight') = Len(t.bytes)
         /\ \A i \in 1..Len(data') : i > e => data'[i] = t.bytes[p + i]
         /\ \A i \in 1..Len(inflight') : inflight'[i] = t.bytes[p + Len(data') + i]
         /\ Len(data) <= Len(data') /\ \A i \in 1..Len(data) : data'[i] = data[i]
<1> DEFINE s == t.bytes
           read == SubSeq(inflight, 1, k)
           rest == SubSeq(inflight, k + 1, Len(inflight))
<1>1. /\ data \in Seq(WireBytes) /\ Len(data) \in Nat
      /\ inflight \in Seq(WireBytes) /\ Len(inflight) \in Nat /\ k \in Nat
  BY DEF TypeOK
<1>0. /\ p + Len(data) + Len(inflight) = Len(s)
      /\ \A i \in 1..Len(data) : i > e => data[i] = s[p + i]
      /\ \A i \in 1..Len(inflight) : inflight[i] = s[p + Len(data) + i]
  BY DEF Rest
<1> HIDE DEF s
<1>2. data' = data \o read /\ inflight' = rest
  BY DEF Data
<1>3. read \in Seq(WireBytes) /\ Len(read) = k /\ \A i \in 1..k : read[i] = inflight[i]
  BY <1>1
<1>4. Len(rest) = Len(inflight) - k /\ \A i \in 1..Len(inflight) - k : rest[i] = inflight[k + i]
  <2>1. \A i \in k + 1..Len(inflight) : inflight[i] \in WireBytes
    BY <1>1, ElementOfSeq
  <2>2. /\ Len(rest) = Len(inflight) - (k + 1) + 1
        /\ \A i \in 1..Len(inflight) - (k + 1) + 1 : rest[i] = inflight[(k + 1) + i - 1]
    BY <1>1, <2>1, SubSeqProperties
  <2>3. Len(inflight) - (k + 1) + 1 = Len(inflight) - k
    BY <1>1
  <2>4. \A i \in 1..Len(inflight) - k : rest[i] = inflight[k + i]
    <3> TAKE i \in 1..Len(inflight) - k
    <3>1. (k + 1) + i - 1 = k + i
      BY <1>1
    <3> QED
      BY <2>2, <2>3, <3>1
  <2> QED
    BY <2>2, <2>3, <2>4
<1> HIDE DEF read, rest
<1>5. /\ Len(data') = Len(data) + Len(read)
      /\ \A i \in 1..Len(data) : data'[i] = data[i]
      /\ \A i \in 1..Len(read) : data'[Len(data) + i] = read[i]
  <2>1. data \in Seq(WireBytes) /\ read \in Seq(WireBytes)
    BY <1>1, <1>3
  <2> QED
    BY <1>2, <2>1, ConcatPlace
<1>6. Len(data') = Len(data) + k /\ Len(inflight') = Len(inflight) - k
  BY <1>2, <1>3, <1>4, <1>5
<1>7. \A i \in 1..Len(data') : i > e => data'[i] = s[p + i]
  <2> SUFFICES ASSUME NEW i \in 1..Len(data'), i > e PROVE data'[i] = s[p + i]
    OBVIOUS
  <2>1. CASE i <= Len(data)
    BY <1>0, <1>1, <1>5, <2>1
  <2>2. CASE i > Len(data)
    <3> DEFINE j == i - Len(data)
    <3>1. j \in 1..k /\ j \in 1..Len(inflight) /\ i = Len(data) + j
      BY <1>1, <1>6, <2>2
    <3> HIDE DEF j
    <3>2. data'[i] = read[j]
      BY <1>3, <1>5, <3>1
    <3>3. read[j] = inflight[j]
      BY <1>3, <3>1
    <3>4. p + Len(data) + j = p + i
      BY <1>1, <3>1
    <3> QED
      BY <1>0, <3>1, <3>2, <3>3, <3>4
  <2> QED
    BY <1>1, <1>6, <2>1, <2>2
<1>8. \A i \in 1..Len(inflight') : inflight'[i] = s[p + Len(data') + i]
  <2> TAKE i \in 1..Len(inflight')
  <2>1. k + i \in 1..Len(inflight) /\ i \in 1..Len(inflight) - k
    BY <1>1, <1>6
  <2>2. inflight'[i] = inflight[k + i]
    BY <1>2, <1>4, <2>1
  <2>3. p + Len(data) + (k + i) = p + Len(data') + i
    BY <1>1, <1>6, <2>1
  <2> QED
    BY <1>0, <2>1, <2>2, <2>3
<1>9. p + Len(data') + Len(inflight') = Len(s) /\ Len(data) <= Len(data')
  <2>1. p + Len(data) + Len(inflight) = Len(s)
    BY <1>0
  <2>2. Len(data) \in Nat /\ Len(inflight) \in Nat /\ k \in Nat
    BY <1>1
  <2> QED
    BY <1>6, <2>1, <2>2
<1> QED
  BY <1>5, <1>7, <1>8, <1>9 DEF s

LEMMA StreamKeeps ==
  ASSUME IInv, DInv, NEW k \in 1..Len(inflight), NEW b \in Bases, Data(k, b)
  PROVE  DInv'
<1>1. TypeOK /\ CallMatchesState /\ ChunksInBuffer /\ HdrLen \in Nat
  BY HdrLenAssumption DEF IInv, Bounds, BufferBounds
<1>2. pc = "idle" /\ pc' = "run"
  BY DEF Data
<1>3. UNCHANGED <<parserVars, messageVars, take, last, historyVars>>
  BY DEF Data
<1>4. ~Unopened
  BY <1>1 DEF Unopened, TypeOK
<1>5. PICK t \in Traffic : \E p \in 0..Len(t.bytes) : Placed(t, p)
  BY <1>4 DEF DInv
<1>6. PICK p \in 0..Len(t.bytes) : Placed(t, p)
  BY <1>5
<1>7. Carried /\ Ordered /\ t.sent = sent /\ Unread(t, p) /\ HeadRead(t, p) /\ InStep(p)
  BY <1>6 DEF DInv, Placed
<1>8. state # "FINAL"
  BY <1>1, <1>2 DEF CallMatchesState
<1>9. /\ InHeader' = InHeader /\ InLength' = InLength /\ InChunks' = InChunks
      /\ ~Complete' /\ ~Complete /\ InBody' = InBody /\ Whole' = Whole /\ Untold' = Untold
      /\ Live' = Live
  BY <1>2, <1>3, <1>8
     DEF parserVars, InHeader, InLength, InChunks, Complete, InBody, Whole, Untold, Live
<1>10. Streaming' = Streaming /\ fits' = fits /\ Synced' = Synced
  BY <1>2, <1>3, SyncedStays DEF parserVars, historyVars, Streaming
<1>11. Edge' = Edge /\ HeadKept' = HeadKept
  BY <1>2, <1>3, <1>9, <1>10 DEF Edge, HeadKept, parserVars
<1>12. Carried' /\ Ordered'
  BY <1>2, <1>3, <1>7, <1>9, <1>10 DEF Carried, Ordered, parserVars, historyVars
<1>13. Unread(t, p)'
  <2>1. SUFFICES ASSUME Live' PROVE Rest(t, p, Edge)'
    BY DEF Unread
  <2>2. Rest(t, p, Edge)
    BY <1>7, <1>9, <2>1 DEF Unread
  <2>3. p \in Nat
    OBVIOUS
  <2>4. /\ p + Len(data') + Len(inflight') = Len(t.bytes)
        /\ \A i \in 1..Len(data') : i > Edge => data'[i] = t.bytes[p + i]
        /\ \A i \in 1..Len(inflight') : inflight'[i] = t.bytes[p + Len(data') + i]
    <3>1. TypeOK
      BY <1>1
    <3> HIDE DEF Edge
    <3> QED
      BY <2>2, <2>3, <3>1, DataPlace
  <2> QED
    BY <1>11, <2>4 DEF Rest
<1>14. HeadRead(t, p)'
  <2>1. cur' = cur
    BY <1>3 DEF historyVars
  <2> QED
    BY <1>7, <1>9, <1>10, <1>11, <2>1 DEF HeadRead
<1>15. InPlace(p) => InPlace(p)'
  BY <1>2, <1>3, <1>9 DEF InPlace, messageVars, historyVars
<1>16. ASSUME BodyKept(p)
       PROVE  BodyKept(p)'
  <2>1. InLength /\ LengthKept(p) => LengthKept(p)'
    BY <1>2, <1>3, <1>10
       DEF LengthKept, LengthStreams, LengthWaits, Got, Received, parserVars, historyVars
  <2>2. ASSUME InChunks, ChunksKept(p), WellFormed(sent[cur]), Live
        PROVE  ChunksKept(p)'
    <3>1. PICK j \in 0..Len(sent[cur].chunks) : ChunkKept(p, j)
      BY <2>2 DEF ChunksKept
    <3>2. CASE Streaming
      <4>1. ChunkKept(p, j)'
        BY <1>2, <1>3, <1>10, <3>1, <3>2
           DEF ChunkKept, ChunkStreams, Received, parserVars, historyVars
      <4> QED
        BY <1>3, <2>2, <4>1 DEF ChunksKept, historyVars
    <3>3. CASE ~Streaming
      <4> DEFINE before == SizeBefore(sent[cur].chunks)[j]
      <4>1. ChunkWaits(p, j)
        BY <3>1, <3>3 DEF ChunkKept
      <4>2. content_end <= Len(data) /\ Len(data) \in Nat /\ content_end \in Nat
        <5>1. state = "CHUNKED_BODY"
          BY <1>2, <2>2 DEF InChunks
        <5>2. content_end <= chunk_begin /\ chunk_begin <= Len(data)
          BY <1>1, <3>3, <5>1 DEF ChunksInBuffer
        <5>3. content_end \in Nat /\ chunk_begin \in Nat /\ Len(data) \in Nat
          BY <1>1 DEF TypeOK
        <5> QED
          BY <5>2, <5>3
      <4>3. \A i \in 1..Len(data) : data'[i] = data[i]
        <5>1. Rest(t, p, Edge) /\ p \in Nat
          BY <1>7, <2>2 DEF Unread
        <5> QED
          BY <1>1, <5>1, DataPlace
      <4>4. content_end = HdrLen + before /\ \A i \in 1..before : data[HdrLen + i] = Byte("data", cur, i)
        BY <4>1 DEF ChunkWaits, Decoded
      <4> HIDE DEF before
      <4>5. \A i \in 1..before : data'[HdrLen + i] = Byte("data", cur, i)
        <5> TAKE i \in 1..before
        <5>1. HdrLen + i \in 1..Len(data)
          <6>1. content_end = HdrLen + before /\ HdrLen \in Nat
            BY <1>1, <4>4
          <6>2. before \in Nat
            BY <1>1, <1>7, <2>2, CurrentMessage DEF Carried, Untold, InBody, before
          <6> QED
            BY <4>2, <6>1, <6>2
        <5> QED
          BY <4>3, <4>4, <5>1
      <4>6. ChunkKept(p, j)'
        BY <1>2, <1>3, <1>10, <3>3, <4>1, <4>5
           DEF ChunkKept, ChunkWaits, Decoded, parserVars, historyVars, before
      <4> QED
        BY <1>3, <2>2, <4>6 DEF ChunksKept, historyVars
    <3> QED
      BY <3>2, <3>3
  <2>3. Whole' => WholeKept(p)'
    BY <1>2, <1>9 DEF Whole
  <2>4. InBody => Live
    BY DEF Live, Untold
  <2>5. sent' = sent /\ cur' = cur
    BY <1>3 DEF historyVars
  <2> QED
    BY <1>9, <1>16, <2>1, <2>2, <2>3, <2>4, <2>5 DEF BodyKept, MessageKept, InBody
<1>17. InStep(p)'
  <2>1. Waits'
    BY <1>2, <1>3 DEF Waits
  <2> QED
    BY <1>7, <1>10, <1>15, <1>16, <2>1 DEF InStep
<1>18. (t.sent = sent)'
  BY <1>3, <1>7 DEF historyVars
<1> QED
  BY <1>12, <1>13, <1>14, <1>17, <1>18, PlaceFound DEF Placed

-------------------------------------------------------------------------------
(***************************************************************************)
(* Headers                                                                 *)
(***************************************************************************)
\* A header handler with a header.
HeaderFound ==
  /\ HdrLen \in ParseResults
  /\ AddFields(data[1].m)
  /\ IF Streaming
     THEN /\ pc' = "HEADER" /\ take' = HdrLen
          /\ UNCHANGED <<state, size, content_begin, content_end, chunk_begin, fits>>
     ELSE SelectBody(HdrLen, fields') /\ UNCHANGED take
  /\ UNCHANGED <<flags, streamVars, last, sent, delivered, sound, fresh, opens>>

LEMMA HeaderHandlers ==
  ASSUME IInv, RequestHeader \/ ResponseHeader
  PROVE  /\ pc = "run" /\ state \in {"REQUEST_HEADER", "RESPONSE_HEADER"} /\ flags' = flags
         /\ HeaderFails \/ HeaderFound
<1>1. CASE RequestHeader
  <2>1. ~Streaming
    <3>1. TypeOK /\ CallMatchesState
      BY DEF IInv, Bounds, BufferBounds
    <3>2. state = "REQUEST_HEADER"
      BY <1>1 DEF RequestHeader
    <3> QED
      BY <3>1, <3>2, StreamsResponses DEF CallMatchesState
  <2> QED
    BY <1>1, <2>1 DEF RequestHeader, HeaderFound
<1>2. CASE ResponseHeader
  BY <1>2 DEF ResponseHeader, HeaderFound
<1> QED
  BY <1>1, <1>2

\* In front of a header the input is what is next on the connection.
LEMMA InputAtHeader ==
  ASSUME NEW t \in Traffic, NEW p \in 0..Len(t.bytes), TypeOK, Unread(t, p), InHeader
  PROVE  /\ Len(data) \in Nat /\ Len(inflight) \in Nat /\ Len(t.bytes) \in Nat
         /\ p + Len(data) + Len(inflight) = Len(t.bytes)
         /\ \A i \in 1..Len(data) : data[i] = t.bytes[p + i]
<1>1. Len(data) \in Nat /\ Len(inflight) \in Nat /\ Len(t.bytes) \in Nat
  BY TrafficAssumption DEF TypeOK
<1>2. Edge = 0 /\ Live
  BY DEF Edge, Live, InHeader, InChunks, Complete, Whole
<1>3. Rest(t, p, 0)
  BY <1>2 DEF Unread
<1>4. \A i \in 1..Len(data) : data[i] = t.bytes[p + i]
  BY <1>1, <1>3 DEF Rest
<1> QED
  BY <1>1, <1>3, <1>4 DEF Rest

\* The header that is found is that of a later message; in step, of the next one.
LEMMA HeaderIsNext ==
  ASSUME NEW t \in Traffic, NEW p \in 0..Len(t.bytes), TypeOK, Placed(t, p), InHeader,
         HdrLen \in ParseResults
  PROVE  /\ data[1].m \in 1..Len(sent) /\ sent[data[1].m].kind # "malformed"
         /\ p + 1 \in 1..Len(t.bytes) /\ t.bytes[p + 1] = Byte("head", data[1].m, 1)
         /\ fits => cur < data[1].m
         /\ Synced => data[1].m = cur + 1
<1> DEFINE m == data[1].m
<1> USE HdrLenAssumption
<1>1. /\ t.sent = sent /\ Unread(t, p) /\ HeadRead(t, p) /\ InStep(p)
      /\ t.bytes \in Seq(Bytes) /\ sent \in Seq(Framings) /\ Carries(t.bytes, sent)
  <2>1. t.sent = sent
    BY DEF Placed
  <2> QED
    BY <2>1, TrafficAssumption, EncodedTrafficAssumption DEF Placed
<1>2. /\ data # <<>> /\ data[1].kind = "head" /\ data[1].arg = 1
      /\ sent[m].kind # "malformed" /\ m \in DOMAIN sent
  BY HeaderParsed DEF ParseResults
<1>3. /\ Len(data) \in Nat /\ Len(inflight) \in Nat /\ Len(t.bytes) \in Nat
      /\ p + Len(data) + Len(inflight) = Len(t.bytes)
      /\ \A i \in 1..Len(data) : data[i] = t.bytes[p + i]
  BY <1>1, InputAtHeader
<1>4. Len(data) >= 1
  BY <1>2, <1>3 DEF TypeOK
<1>5. p + 1 \in 1..Len(t.bytes) /\ t.bytes[p + 1] = data[1]
  <2>1. p + Len(data) + Len(inflight) = Len(t.bytes)
    BY <1>3
  <2>2. 1 \in 1..Len(data)
    BY <1>3, <1>4
  <2>3. t.bytes[p + 1] = data[1]
    BY <1>3, <2>2
  <2> QED
    BY <1>3, <1>4, <2>1, <2>3
<1>6. t.bytes[p + 1] = Byte("head", m, 1)
  <2>1. t.bytes[p + 1] \in Bytes
    BY <1>1, <1>5, ElementOfSeq
  <2> QED
    BY <1>2, <1>5, <2>1 DEF Bytes, Byte
<1>7. m \in 1..Len(sent)
  BY <1>1, <1>2
<1>8. ASSUME fits
      PROVE  cur < m
  <2>1. CASE cur = 0
    BY <1>7, <2>1
  <2>2. CASE cur # 0
    <3>1. Live /\ ~HeadKept
      BY DEF Live, HeadKept, InHeader, InBody, InLength, InChunks, Complete, Whole
    <3>2. PICK h \in 1..Len(t.bytes) : h <= p + 0 /\ t.bytes[h] = Byte("head", cur, 1)
      BY <1>1, <1>8, <2>2, <3>1 DEF HeadRead
    <3>3. h \in DOMAIN t.bytes /\ p + 1 \in DOMAIN t.bytes /\ h < p + 1
      BY <1>1, <1>5, <3>2
    <3>4. t.bytes[h].m < t.bytes[p + 1].m
      <4>1. \A i, j \in DOMAIN t.bytes :
              i < j /\ t.bytes[i].kind = "head" /\ t.bytes[j].kind = "head"
                    /\ t.bytes[i].arg = 1 /\ t.bytes[j].arg = 1 => t.bytes[i].m < t.bytes[j].m
        BY <1>1 DEF Carries
      <4>2. /\ t.bytes[h].kind = "head" /\ t.bytes[h].arg = 1
            /\ t.bytes[p + 1].kind = "head" /\ t.bytes[p + 1].arg = 1
        BY <1>6, <3>2 DEF Byte
      <4> QED
        BY <3>3, <4>1, <4>2
    <3>5. t.bytes[h].m = cur /\ t.bytes[p + 1].m = m
      BY <1>6, <3>2 DEF Byte
    <3> QED
      BY <3>4, <3>5
  <2> QED
    BY <2>1, <2>2
<1>9. ASSUME Synced
      PROVE  m = cur + 1
  <2>1. Good(sent, cur) /\ p = Offset(sent, cur)
    BY <1>1, <1>9 DEF InStep, InPlace
  <2>2. cur \in 0..Len(sent)
    BY <1>1 DEF TypeOK
  <2>3. /\ cur = Len(sent) => Len(t.bytes) = Offset(sent, cur)
        /\ cur < Len(sent) => \A i \in 1..HdrLen : t.bytes[Offset(sent, cur) + i] = Byte("head", cur + 1, i)
    BY <1>1, <2>1, <2>2, HeaderOnWire
  <2>4. cur < Len(sent)
    BY <1>5, <2>1, <2>2, <2>3
  <2>5. t.bytes[p + 1] = Byte("head", cur + 1, 1)
    <3>1. 1 \in 1..HdrLen
      OBVIOUS
    <3> QED
      BY <2>1, <2>3, <2>4, <3>1
  <2> QED
    BY <1>6, <2>5 DEF Byte
<1> QED
  BY <1>2, <1>5, <1>6, <1>7, <1>8, <1>9

\* A header handler that gets no header moves nothing; of a first message that is as
\* announced it has not got the whole header.
LEMMA HeaderFailsKeeps ==
  ASSUME NEW t \in Traffic, NEW p \in 0..Len(t.bytes), IInv, Carried, Ordered, Placed(t, p),
         pc = "run", state \in {"REQUEST_HEADER", "RESPONSE_HEADER"}, HeaderFails, flags' = flags
  PROVE  DInv'
<1> USE HdrLenAssumption
<1>1. TypeOK /\ InHeader
  BY DEF IInv, InHeader
<1>2. pc' \in {"idle", "ERROR"} /\ state' = state /\ UNCHANGED Settled /\ UNCHANGED fields
  BY DEF HeaderFails, Settled, messageVars, streamVars, historyVars
<1>3. InHeader' /\ InHeader' = InHeader /\ InLength' = InLength /\ InChunks' = InChunks /\ Complete' = Complete
  BY <1>2 DEF InHeader, InLength, InChunks, Complete
<1>4. ASSUME Synced
      PROVE  Waits'
  <2>1. SUFFICES ASSUME delivered = <<>>, sent # <<>>, WellFormed(sent[1]), Len(data) >= HdrLen
                 PROVE  FALSE
    <3>1. Len(data) \in Nat
      BY <1>1 DEF TypeOK
    <3> QED
      BY <1>2, <3>1 DEF Waits, Settled
  <2>2. /\ t.sent = sent /\ Unread(t, p) /\ InPlace(p)
        /\ t.bytes \in Seq(Bytes) /\ sent \in Seq(Framings) /\ Carries(t.bytes, sent)
    <3>1. t.sent = sent
      BY DEF Placed
    <3> QED
      BY <1>4, <3>1, TrafficAssumption, EncodedTrafficAssumption DEF Placed, InStep
  <2>3. p = Offset(sent, 0) /\ p = 0
    <3>1. p = Offset(sent, 0)
      BY <1>1, <2>1, <2>2 DEF InPlace
    <3> QED
      BY <2>2, <3>1, EncodeStep
  <2>4. 0 \in 0..Len(sent) /\ 0 < Len(sent) /\ Good(sent, 0)
    BY <2>1, <2>2 DEF Good
  <2>5. \A i \in 1..HdrLen : t.bytes[Offset(sent, 0) + i] = Byte("head", 0 + 1, i)
    BY <2>2, <2>4, HeaderOnWire
  <2>6. Len(data) \in Nat /\ \A i \in 1..Len(data) : data[i] = t.bytes[p + i]
    BY <1>1, <2>2, InputAtHeader
  <2>7. data[1] = Byte("head", 1, 1)
    <3>1. 1 \in 1..HdrLen /\ 1 \in 1..Len(data)
      BY <2>1, <2>6
    <3> QED
      BY <2>3, <2>5, <2>6, <3>1
  <2>8. data # <<>> /\ data[1].kind = "head" /\ data[1].arg = 1 /\ data[1].m = 1
    BY <1>1, <2>1, <2>7 DEF Byte, TypeOK
  <2>9. sent[1].kind # "malformed"
    BY <2>1 DEF WellFormed
  <2>10. -2 \notin ParseResults /\ -1 \notin ParseResults
    BY <2>1, <2>8, <2>9 DEF ParseResults
  <2> QED
    BY <2>10 DEF HeaderFails
<1>5. Carried' /\ Ordered' /\ Placed(t, p)'
  BY <1>1, <1>2, <1>3, <1>4, PlaceStays
<1> QED
  BY <1>5, PlaceFound

\* The lookups in a vector of one message's fields find that message's framing.
LEMMA FoundIsOwn ==
  ASSUME NEW m, NEW n, SelectBody(n, <<m>>)
  PROVE  /\ content_begin' = n /\ content_end' = n /\ pc' = "run"
         /\ IF sent[m].kind = "chunked"
            THEN chunk_begin' = n /\ state' = "CHUNKED_BODY" /\ size' = size
            ELSE size' = Wrap(n + sent[m].announced) /\ state' = "BODY"
<1>1. \A f \in FoundFramings(<<m>>) : f = sent[m]
  BY DEF FoundFramings
<1> QED
  BY <1>1 DEF SelectBody

\* The announcement of a message that is as announced does not wrap.
LEMMA AnnouncedFits ==
  ASSUME NEW f \in Framings, NEW n \in 0..HdrLen, WellFormed(f), f.kind # "chunked"
  PROVE  f.kind = "length" /\ Wrap(n + f.announced) = n + f.body
<1>1. f.announced \in Nat /\ HdrLen \in Nat /\ SizeMod \in Nat
  BY HdrLenAssumption, SizeModAssumption DEF Framings
<1>2. f.kind = "length" /\ f.body = f.announced /\ HdrLen + f.announced < SizeMod
  BY DEF WellFormed
<1> QED
  BY <1>1, <1>2 DEF Wrap

\* A message that wraps is not forgotten; no sum wraps without a header in it.
LEMMA FitsStays ==
  ASSUME NEW n, NEW flds, SelectBody(n, flds)
  PROVE  /\ fits' => fits
         /\ fits \in BOOLEAN => fits' \in {fits, FALSE}
<1>1. PICK f \in FoundFramings(flds) :
        UNCHANGED fits \/ fits' = (fits /\ n + f.announced < SizeMod)
  BY DEF SelectBody
<1>2. CASE UNCHANGED fits
  BY <1>2
<1>3. CASE fits' = (fits /\ n + f.announced < SizeMod)
  <2>1. CASE n + f.announced < SizeMod
    BY <1>3, <2>1, Zenon
  <2>2. CASE ~(n + f.announced < SizeMod)
    BY <1>3, <2>2, Zenon
  <2> QED
    BY <2>1, <2>2
<1> QED
  BY <1>1, <1>2, <1>3

\* A header that is found begins a message, with nothing of its body yet.
LEMMA HeaderFoundKeeps ==
  ASSUME NEW t \in Traffic, NEW p \in 0..Len(t.bytes), IInv, Carried, Ordered, Placed(t, p),
         pc = "run", state \in {"REQUEST_HEADER", "RESPONSE_HEADER"}, HeaderFound
  PROVE  DInv'
<1> USE HdrLenAssumption
<1> DEFINE m == data[1].m
<1>1. TypeOK /\ InHeader
  BY DEF IInv, InHeader
<1>2. /\ m \in 1..Len(sent) /\ p + 1 \in 1..Len(t.bytes) /\ t.bytes[p + 1] = Byte("head", m, 1)
      /\ fits => cur < m
      /\ Synced => m = cur + 1
  BY <1>1, HeaderIsNext DEF HeaderFound
<1> HIDE DEF m
<1>3. /\ cur' = m /\ content' = <<>> /\ fields' = Append(fields, m)
      /\ UNCHANGED <<flags, data, inflight, last, sent, delivered, sound, fresh>>
  BY DEF HeaderFound, AddFields, streamVars, m
<1>4. Streaming' = Streaming /\ Synced' = Synced /\ (fits' => fits)
  <2>1. pc' \in {"HEADER", "run"}
    BY DEF HeaderFound, SelectBody
  <2>2. fits' => fits
    BY FitsStays DEF HeaderFound
  <2> QED
    BY <1>3, <2>1, <2>2, SyncedStays DEF Streaming
<1>5. t.sent = sent /\ Unread(t, p) /\ InStep(p) /\ Len(sent) \in Nat
  BY <1>1 DEF Placed, TypeOK
<1>6. /\ p + Len(data) + Len(inflight) = Len(t.bytes)
      /\ \A i \in 1..Len(data) : data[i] = t.bytes[p + i]
  BY <1>1, <1>5, InputAtHeader
<1>7. \A i \in 1..Len(inflight) : inflight[i] = t.bytes[p + Len(data) + i]
  BY <1>1, <1>5 DEF Unread, Rest, Live
<1>8. Unread(t, p)'
  BY <1>3, <1>6, <1>7 DEF Unread, Rest
<1>9. ASSUME Synced
      PROVE  /\ Good(sent, Len(delivered)) /\ cur = Len(delivered) /\ m = cur + 1
             /\ p = Offset(sent, m - 1) /\ fields' = <<m>>
  <2>1. /\ Good(sent, Len(delivered)) /\ cur = Len(delivered) /\ p = Offset(sent, cur)
        /\ fields = <<>>
    BY <1>1, <1>5, <1>9 DEF InStep, InPlace
  <2>2. cur \in Nat /\ m - 1 = cur /\ m = cur + 1
    BY <1>1, <1>2, <1>9 DEF TypeOK
  <2> QED
    BY <1>3, <2>1, <2>2
<1>10. ASSUME fits
       PROVE  \A i \in 1..Len(delivered) : delivered[i].m <= m /\ delivered[i].m < m
  <2> TAKE i \in 1..Len(delivered)
  <2>1. delivered[i].m \in Nat /\ cur \in Nat
    BY <1>1, NumbersOfMessages
  <2>2. delivered[i].m <= cur /\ cur < m
    BY <1>2, <1>10 DEF Ordered
  <2> QED
    BY <1>2, <2>1, <2>2
<1>11. Ordered'
  BY <1>3, <1>4, <1>10 DEF Ordered
<1>12. CASE Streaming
  <2>1. /\ pc' = "HEADER" /\ take' = HdrLen /\ state' = state
    BY <1>12 DEF HeaderFound
  <2>2. ~InHeader' /\ Untold' /\ ~InBody' /\ ~InLength' /\ ~InChunks' /\ ~Whole' /\ HeadKept'
    BY <2>1 DEF InHeader, Untold, InBody, InLength, InChunks, Complete, Whole, HeadKept
  <2>3. Carried'
    BY <1>2, <1>3, <1>4, <1>12, <2>1, <2>2 DEF Carried
  <2>4. HeadRead(t, p)'
    BY <1>2, <1>3, <2>2 DEF HeadRead
  <2>5. ASSUME Synced
        PROVE  InPlace(p)'
    BY <1>3, <1>9, <2>1, <2>2, <2>5 DEF InPlace
  <2>6. BodyKept(p)' /\ Waits'
    BY <2>1, <2>2 DEF BodyKept, Waits
  <2>7. InStep(p)'
    BY <1>3, <1>4, <2>5, <2>6 DEF InStep
  <2> QED
    BY <1>3, <1>5, <1>8, <1>11, <2>3, <2>4, <2>7, PlaceFound DEF Placed
<1>13. CASE ~Streaming
  <2>1. SelectBody(HdrLen, fields')
    BY <1>13 DEF HeaderFound
  <2>2. /\ pc' = "run" /\ state' \in {"BODY", "CHUNKED_BODY"}
        /\ content_begin' = HdrLen /\ content_end' = HdrLen
    BY <2>1 DEF SelectBody
  <2>3. /\ ~InHeader' /\ Untold' /\ ~Whole' /\ HeadKept'
        /\ InLength' <=> state' = "BODY"
        /\ InChunks' <=> state' = "CHUNKED_BODY"
    BY <1>4, <1>13, <2>2 DEF InHeader, Untold, InBody, InLength, InChunks, Complete, Whole, HeadKept
  <2>4. Carried'
    BY <1>2, <1>3, <2>2 DEF Carried
  <2>5. HeadRead(t, p)'
    BY <1>2, <1>3, <2>3 DEF HeadRead
  <2>6. ASSUME Synced
        PROVE  InPlace(p)'
    BY <1>3, <1>9, <2>2, <2>3, <2>6 DEF InPlace
  <2>7. ASSUME Synced, WellFormed(sent[m])
        PROVE  /\ state' = "BODY" => LengthKept(p)'
               /\ state' = "CHUNKED_BODY" => ChunksKept(p)'
    <3>1. /\ fields' = <<m>> /\ p = Offset(sent, m - 1)
      BY <1>9, <2>7
    <3>2. IF sent[m].kind = "chunked"
          THEN chunk_begin' = HdrLen /\ state' = "CHUNKED_BODY"
          ELSE size' = Wrap(HdrLen + sent[m].announced) /\ state' = "BODY"
      BY <2>1, <3>1, FoundIsOwn
    <3>3. sent[m] \in Framings
      BY <1>1, <1>2, ElementOfSeq DEF TypeOK
    <3>4. CASE sent[m].kind = "chunked"
      <4>1. sent[m].chunks \in Seq(Nat \ {0})
        BY <3>3 DEF Framings
      <4>2. SizeBefore(sent[m].chunks)[0] = 0 /\ 0 \in 0..Len(sent[m].chunks)
        BY <4>1, ChunkNumbers
      <4>3. HdrLen + ChunkOffset(sent[m].chunks, 0) = HdrLen
        BY <4>2 DEF ChunkOffset
      <4>4. ChunkWaits(p, 0)'
        BY <1>3, <2>2, <3>1, <3>2, <3>4, <4>2, <4>3 DEF ChunkWaits, Decoded
      <4>5. ChunkKept(p, 0)'
        BY <1>4, <1>13, <2>2, <4>4 DEF ChunkKept
      <4> QED
        BY <1>3, <3>2, <3>4, <4>2, <4>5 DEF ChunksKept
    <3>5. CASE sent[m].kind # "chunked"
      <4>1. sent[m].kind = "length" /\ Wrap(HdrLen + sent[m].announced) = HdrLen + sent[m].body
        BY <2>7, <3>3, <3>5, AnnouncedFits
      <4> QED
        BY <1>3, <1>4, <1>13, <2>2, <3>1, <3>2, <3>5, <4>1 DEF LengthKept, LengthWaits
    <3> QED
      BY <3>4, <3>5
  <2>8. ASSUME Synced
        PROVE  BodyKept(p)'
    BY <1>3, <2>3, <2>7, <2>8 DEF BodyKept, MessageKept
  <2>9. InStep(p)'
    BY <1>3, <1>4, <2>2, <2>6, <2>8 DEF InStep, Waits
  <2> QED
    BY <1>3, <1>5, <1>8, <1>11, <2>4, <2>5, <2>9, PlaceFound DEF Placed
<1> QED
  BY <1>12, <1>13

\* The place moves by what is dropped of the input.
Moves(p, k, q) == p \in Nat /\ k \in Nat /\ q = p + k

LEMMA ConsumePlace ==
  ASSUME NEW k, NEW p, NEW q, NEW t, NEW e,
         Moves(p, k, q), TypeOK, k <= Len(data), Consume(k), inflight' = inflight, Rest(t, p, e)
  PROVE  /\ Len(data') = Len(data) - k
         /\ q + Len(data') + Len(inflight') = Len(t.bytes)
         /\ \A i \in 1..Len(data') : k + i > e => data'[i] = t.bytes[q + i]
         /\ \A i \in 1..Len(inflight') : inflight'[i] = t.bytes[q + Len(data') + i]
<1> DEFINE s == t.bytes
<1>1. data \in Seq(WireBytes) /\ Len(data) \in Nat /\ Len(inflight) \in Nat
  BY DEF TypeOK
<1>0. p \in Nat /\ k \in Nat /\ q = p + k
  BY DEF Moves
<1>2. /\ p + Len(data) + Len(inflight) = Len(s)
      /\ \A i \in 1..Len(data) : i > e => data[i] = s[p + i]
      /\ \A i \in 1..Len(inflight) : inflight[i] = s[p + Len(data) + i]
  BY DEF Rest
<1> HIDE DEF s
<1>3. /\ Len(data') = Len(data) - k
      /\ \A i \in 1..Len(data) - k : data'[i] = data[k + i]
  <2>1. \A i \in k + 1..Len(data) : data[i] \in WireBytes
    BY <1>0, <1>1, ElementOfSeq
  <2>2. data' = SubSeq(data, k + 1, Len(data))
    BY DEF Consume
  <2>3. /\ Len(data') = IF k + 1 <= Len(data) THEN Len(data) - (k + 1) + 1 ELSE 0
        /\ \A i \in 1..Len(data) - (k + 1) + 1 : data'[i] = data[(k + 1) + i - 1]
    <3> DEFINE m == k + 1
               l == Len(data)
    <3>1. m \in Int /\ l \in Int /\ m \in Nat /\ l \in Nat
      BY <1>0, <1>1
    <3>2. \A i \in m..l : data[i] \in WireBytes
      BY <2>1
    <3>3. data' = SubSeq(data, m, l)
      BY <2>2
    <3> HIDE DEF m, l
    <3>4. /\ Len(data') = IF m <= l THEN l - m + 1 ELSE 0
          /\ \A i \in 1..l - m + 1 : data'[i] = data[m + i - 1]
      BY <3>1, <3>2, <3>3, SubSeqProperties
    <3> QED
      BY <3>4 DEF m, l
  <2>4. Len(data) - (k + 1) + 1 = Len(data) - k
    BY <1>0, <1>1
  <2>5. Len(data') = Len(data) - k
    BY <1>0, <1>1, <2>3
  <2>6. \A i \in 1..Len(data) - k : data'[i] = data[k + i]
    <3> TAKE i \in 1..Len(data) - k
    <3>1. (k + 1) + i - 1 = k + i
      BY <1>0, <1>1
    <3> QED
      BY <2>3, <2>4, <3>1
  <2> QED
    BY <2>5, <2>6
<1>4. \A i \in 1..Len(data') : k + i > e => data'[i] = s[q + i]
  <2> SUFFICES ASSUME NEW i \in 1..Len(data'), k + i > e PROVE data'[i] = s[q + i]
    OBVIOUS
  <2>1. k + i \in 1..Len(data) /\ i \in 1..Len(data) - k /\ p + (k + i) = q + i
    BY <1>0, <1>1, <1>3
  <2>2. data[k + i] = s[p + (k + i)]
    BY <1>2, <2>1
  <2> QED
    BY <1>3, <2>1, <2>2
<1>5. p + Len(data) = q + Len(data')
  BY <1>0, <1>1, <1>3
<1>6. \A i \in 1..Len(inflight') : inflight'[i] = s[q + Len(data') + i]
  BY <1>2, <1>5
<1>7. q + Len(data') + Len(inflight') = Len(s)
  BY <1>2, <1>5
<1> QED
  BY <1>3, <1>4, <1>6, <1>7 DEF s

\* The header that was handed to the HEADER event is dropped.
LEMMA HeaderReturnsKeeps ==
  ASSUME NEW t \in Traffic, NEW p \in 0..Len(t.bytes), IInv, Carried, Ordered, Placed(t, p),
         HeaderReturns
  PROVE  DInv'
<1> USE HdrLenAssumption
<1> DEFINE q == p + HdrLen
<1>1. TypeOK /\ CallMatchesState /\ TakeInBuffer /\ pc = "HEADER"
  BY DEF IInv, Bounds, BufferBounds, HeaderReturns
<1>2. Streaming /\ Untold /\ Live /\ take = HdrLen /\ cur # 0 /\ take <= Len(data)
  BY <1>1 DEF CallMatchesState, Untold, Live, Carried, TakeInBuffer
<1>3. t.sent = sent /\ Unread(t, p) /\ HeadRead(t, p) /\ InStep(p) /\ Len(t.bytes) \in Nat
  BY TrafficAssumption DEF Placed
<1>4. /\ Consume(HdrLen) /\ SelectBody(0, fields)
      /\ UNCHANGED <<flags, fields, inflight, take, sent, cur, content, delivered, sound, fresh>>
  BY <1>2 DEF HeaderReturns, messageVars, historyVars
<1>6. pc' = "run" /\ state' \in {"BODY", "CHUNKED_BODY"}
  BY <1>4 DEF SelectBody
<1>5. Streaming' = Streaming /\ Synced' = Synced /\ (fits' => fits)
  BY <1>1, <1>4, <1>6, SyncedStays, FitsStays DEF Streaming
<1>7. /\ ~InHeader' /\ Untold' /\ ~Whole' /\ ~HeadKept'
      /\ InLength' <=> state' = "BODY"
      /\ InChunks' <=> state' = "CHUNKED_BODY"
  BY <1>2, <1>5, <1>6 DEF InHeader, Untold, InBody, InLength, InChunks, Complete, Whole, HeadKept
<1>8. Carried' /\ Ordered'
  BY <1>2, <1>4, <1>5, <1>6, <1>7 DEF Carried, Ordered
<1>9. Rest(t, p, 0)
  <2>1. Edge = 0
    BY <1>2 DEF Edge
  <2> QED
    BY <1>2, <1>3, <2>1 DEF Unread
<1>10. /\ Len(data') = Len(data) - HdrLen
       /\ q + Len(data') + Len(inflight') = Len(t.bytes)
       /\ \A i \in 1..Len(data') : HdrLen + i > 0 => data'[i] = t.bytes[q + i]
       /\ \A i \in 1..Len(inflight') : inflight'[i] = t.bytes[q + Len(data') + i]
  <2>1. /\ Moves(p, HdrLen, q) /\ HdrLen <= Len(data)
        /\ Consume(HdrLen) /\ inflight' = inflight
    BY <1>2, <1>4 DEF Moves
  <2> HIDE DEF q
  <2> QED
    BY <1>1, <1>9, <2>1, ConsumePlace
<1>11. q \in 0..Len(t.bytes)
  <2>1. Len(data) \in Nat /\ Len(inflight) \in Nat /\ inflight' = inflight
    BY <1>1, <1>4 DEF TypeOK
  <2>2. q + (Len(data) - HdrLen) + Len(inflight) = Len(t.bytes) /\ HdrLen <= Len(data)
    BY <1>2, <1>10, <2>1
  <2> QED
    BY <1>3, <2>1, <2>2
<1>12. Unread(t, q)'
  <2>1. \A i \in 1..Len(data') : data'[i] = t.bytes[q + i]
    BY <1>10
  <2> QED
    BY <1>10, <2>1 DEF Unread, Rest
<1>13. HeadRead(t, q)'
  <2>1. SUFFICES ASSUME fits
                 PROVE \E h \in 1..Len(t.bytes) : h <= q /\ t.bytes[h] = Byte("head", cur, 1)
    BY <1>4, <1>5, <1>7 DEF HeadRead
  <2>2. PICK h \in 1..Len(t.bytes) : h <= p + 1 /\ t.bytes[h] = Byte("head", cur, 1)
    BY <1>1, <1>2, <1>3, <2>1 DEF HeadRead, HeadKept
  <2>3. h <= q
    BY <2>2
  <2> QED
    BY <2>2, <2>3
<1>14. ASSUME Synced
       PROVE  InPlace(q)' /\ BodyKept(q)'
  <2>1. /\ Good(sent, Len(delivered)) /\ cur = Len(delivered) + 1
        /\ p = Offset(sent, cur - 1) /\ fields = <<cur>> /\ content = <<>>
    BY <1>1, <1>2, <1>3, <1>14 DEF InStep, InPlace
  <2>2. InPlace(q)'
    BY <1>4, <1>6, <1>7, <2>1 DEF InPlace
  <2>3. IF sent[cur].kind = "chunked"
        THEN chunk_begin' = 0 /\ state' = "CHUNKED_BODY" /\ size' = size
        ELSE size' = Wrap(0 + sent[cur].announced) /\ state' = "BODY"
    BY <1>4, <2>1, FoundIsOwn
  <2>4. /\ sent[cur] \in Framings /\ cur \in Nat /\ sent[cur].body \in Nat
        /\ sent[cur].chunks \in Seq(Nat \ {0})
    BY <1>1, <1>2, CurrentMessage, NumbersOfMessages
  <2>5. content = DataBytes(cur, 0, 0) /\ Len(content) = 0
    BY <2>1 DEF DataBytes
  <2>6. q = Offset(sent, cur - 1) + HdrLen + 0
    BY <2>1
  <2>7. CASE sent[cur].kind = "chunked"
    <3>1. SizeBefore(sent[cur].chunks)[0] = 0 /\ 0 \in 0..Len(sent[cur].chunks)
      BY <2>4, ChunkNumbers
    <3>2. ChunkOffset(sent[cur].chunks, 0) = 0
      BY <3>1 DEF ChunkOffset
    <3>3. ChunkKept(q, 0)'
      BY <1>2, <1>4, <1>5, <1>6, <2>5, <2>6, <3>1, <3>2 DEF ChunkKept, ChunkStreams, Received
    <3>4. ChunksKept(q)'
      BY <1>4, <2>7, <3>1, <3>3 DEF ChunksKept
    <3> QED
      BY <1>7, <2>2, <2>3, <2>7, <3>4 DEF BodyKept, MessageKept
  <2>8. CASE sent[cur].kind # "chunked"
    <3>1. ASSUME WellFormed(sent[cur])
          PROVE  LengthKept(q)'
      <4>1. sent[cur].kind = "length" /\ size' = 0 + sent[cur].body
        <5>1. 0 \in 0..HdrLen
          OBVIOUS
        <5> QED
          BY <2>3, <2>4, <2>8, <3>1, <5>1, AnnouncedFits
      <4>2. Got' = 0
        BY <1>4, <1>6, <2>5 DEF Got
      <4>3. LengthStreams(q)'
        BY <1>4, <1>6, <2>4, <2>5, <2>6, <4>1, <4>2 DEF LengthStreams, Received
      <4> QED
        BY <1>2, <1>4, <1>5, <4>1, <4>3 DEF LengthKept
    <3> QED
      BY <1>4, <1>7, <2>2, <2>3, <2>8, <3>1 DEF BodyKept, MessageKept
  <2> QED
    BY <2>7, <2>8
<1>15. InStep(q)'
  <2>1. Waits'
    BY <1>6 DEF Waits
  <2> QED
    BY <1>4, <1>5, <1>14, <2>1 DEF InStep
<1>16. Placed(t, q)'
  BY <1>3, <1>4, <1>12, <1>13, <1>15 DEF Placed
<1> QED
  BY <1>8, <1>11, <1>16, PlaceFound

-------------------------------------------------------------------------------
(***************************************************************************)
(* Bodies                                                                  *)
(***************************************************************************)
\* A step within a message, behind its header: what is left to show of it is that the
\* input is where it should be, and what the parser has of the body.
LEMMA MessageGoesOn ==
  ASSUME NEW t \in Traffic, NEW p \in 0..Len(t.bytes), NEW q \in 0..Len(t.bytes),
         Carried, Ordered, Placed(t, p), p <= q, InBody, InBody' \/ Complete', pc' # "HEADER",
         UNCHANGED <<flags, sent, cur, delivered, sound, fits, fresh, content_begin>>,
         ~Streaming => content' = content,
         Rest(t, q, Edge)',
         Synced /\ WellFormed(sent[cur]) => MessageKept(q)'
  PROVE  DInv'
<1>2. /\ Untold /\ Untold' /\ Live /\ ~InHeader' /\ pc' # "DONE" /\ pc # "HEADER"
      /\ pc' # "ERROR" /\ Live' /\ pc # "DONE"
  BY DEF Untold, Live, InHeader, InBody, InLength, InChunks, Complete
<1>1. Streaming' = Streaming /\ fits' = fits /\ Synced' = Synced
  BY <1>2, SyncedStays DEF Streaming
<1>3. HeadKept' = HeadKept
  BY <1>1, <1>2 DEF HeadKept, Whole
<1>4. Carried'
  BY <1>1, <1>2 DEF Carried
<1>5. Ordered'
  BY <1>1, <1>2 DEF Ordered
<1>6. t.sent = sent /\ HeadRead(t, p) /\ InStep(p)
  BY DEF Placed
<1>7. HeadRead(t, q)'
  <2>1. SUFFICES ASSUME fits, cur # 0
                 PROVE  \E h \in 1..Len(t.bytes) :
                          h <= q + (IF HeadKept THEN 1 ELSE 0) /\ t.bytes[h] = Byte("head", cur, 1)
    BY <1>1, <1>3 DEF HeadRead
  <2>2. PICK h \in 1..Len(t.bytes) :
               h <= p + (IF HeadKept THEN 1 ELSE 0) /\ t.bytes[h] = Byte("head", cur, 1)
    BY <1>2, <1>6, <2>1 DEF HeadRead
  <2>3. h <= q + (IF HeadKept THEN 1 ELSE 0)
    BY <2>2
  <2> QED
    BY <2>2, <2>3
<1>8. InPlace(p) => InPlace(q)'
  BY <1>2 DEF InPlace
<1>9. BodyKept(q)' <=> (WellFormed(sent[cur]) => MessageKept(q)')
  BY DEF BodyKept, Whole
<1>10. Waits'
  BY <1>2 DEF Waits
<1>11. InStep(q)'
  BY <1>1, <1>6, <1>8, <1>9, <1>10 DEF InStep
<1>12. Placed(t, q)'
  BY <1>6, <1>7, <1>11 DEF Placed, Unread
<1> QED
  BY <1>4, <1>5, <1>12, PlaceFound

\* What the invariant says of a place within a message.
LEMMA InMessage ==
  ASSUME NEW t \in Traffic, NEW p \in 0..Len(t.bytes), TypeOK, Carried, Placed(t, p), Untold
  PROVE  /\ p \in Nat /\ Len(t.bytes) \in Nat /\ Len(data) \in Nat /\ Len(inflight) \in Nat
         /\ t.bytes \in Seq(Bytes) /\ Carries(t.bytes, sent) /\ Rest(t, p, Edge)
         /\ sent \in Seq(Framings) /\ cur \in 1..Len(sent) /\ cur \in Nat
         /\ Synced =>
              /\ Good(sent, cur - 1) /\ (WellFormed(sent[cur]) => Good(sent, cur))
              /\ (InBody \/ Whole) /\ WellFormed(sent[cur]) => MessageKept(p)
<1>1. t.sent = sent /\ Live /\ cur # 0
  BY DEF Placed, Live, Carried
<1>2. t.bytes \in Seq(Bytes) /\ Carries(t.bytes, sent) /\ Rest(t, p, Edge) /\ Len(t.bytes) \in Nat
  BY <1>1, TrafficAssumption, EncodedTrafficAssumption DEF Placed, Unread
<1>3. sent \in Seq(Framings) /\ cur \in 1..Len(sent) /\ cur \in Nat
  BY <1>1, CurrentMessage, NumbersOfMessages
<1>4. ASSUME Synced
      PROVE  /\ Good(sent, cur - 1) /\ (WellFormed(sent[cur]) => Good(sent, cur))
             /\ (InBody \/ Whole) /\ WellFormed(sent[cur]) => MessageKept(p)
  <2>1. InPlace(p) /\ BodyKept(p)
    BY <1>4 DEF Placed, InStep
  <2>2. Good(sent, Len(delivered)) /\ cur = Len(delivered) + 1 /\ Len(delivered) \in Nat
    BY <2>1, NumbersOfMessages DEF InPlace
  <2>3. Good(sent, cur - 1)
    BY <2>2
  <2>4. WellFormed(sent[cur]) => Good(sent, cur)
    BY <1>3, <2>3 DEF Good
  <2> QED
    BY <2>1, <2>3, <2>4 DEF BodyKept
<1>5. Len(data) \in Nat /\ Len(inflight) \in Nat
  BY DEF TypeOK
<1> QED
  BY <1>2, <1>3, <1>4, <1>5

\* A part of a counted body is streamed.
LEMMA LengthStreamed ==
  ASSUME NEW t \in Traffic, NEW p \in 0..Len(t.bytes), IInv, Carried, Placed(t, p),
         Body, data # <<>>, Streaming, Synced, WellFormed(sent[cur])
  PROVE  LengthKept(p)'
<1> USE HdrLenAssumption
<1> DEFINE g == Len(content)
           k == take'
           b == sent[cur].body
<1>1. TypeOK /\ pc = "run" /\ state = "BODY"
  BY DEF IInv, Body
<1>2. InLength /\ InBody /\ Untold
  BY <1>1 DEF InLength, InBody, Untold
<1>3. /\ t.bytes \in Seq(Bytes) /\ Carries(t.bytes, sent) /\ Rest(t, p, Edge)
      /\ sent \in Seq(Framings) /\ cur \in 1..Len(sent) /\ cur \in Nat
      /\ Good(sent, cur) /\ MessageKept(p)
  BY <1>1, <1>2, InMessage
<1>4. /\ pc' = "BODY_CHUNK" /\ take' = Min2(size, Len(data))
      /\ content' = content \o SubSeq(data, 1, take')
      /\ UNCHANGED <<size, flags, sent, cur>>
  BY DEF Body
<1>5. sent[cur].kind = "length" /\ LengthStreams(p)
  BY <1>2, <1>3 DEF MessageKept, LengthKept
<1>6. /\ content = DataBytes(cur, 0, g) /\ p = Offset(sent, cur - 1) + HdrLen + g
      /\ size + g = b /\ g \in Nat
  BY <1>1, <1>5 DEF LengthStreams, Got, Received, TypeOK
<1>7. k \in Nat /\ k <= size /\ k <= Len(data) /\ size \in Nat /\ Len(data) \in Nat /\ data \in Seq(Bytes)
  <2>1. size \in Nat /\ Len(data) \in Nat
    BY <1>1 DEF TypeOK
  <2>2. data \in Seq(Bytes)
    BY <1>1, InputBytes
  <2> QED
    BY <1>4, <2>1, <2>2 DEF Min2
<1>8. /\ b \in Nat /\ Offset(sent, cur - 1) \in Nat
      /\ \A i \in 1..b : t.bytes[Offset(sent, cur - 1) + HdrLen + i] = Byte("data", cur, i)
  <2>1. sent[cur].kind # "chunked"
    BY <1>5
  <2> QED
    BY <1>3, <2>1, CountedOnWire, BodyOnWire
<1>9. \A i \in 1..Len(data) : data[i] = t.bytes[p + i]
  <2>1. \A i \in 1..Len(data) : i > Edge => data[i] = t.bytes[p + i]
    BY <1>3 DEF Rest
  <2>2. Edge = 0
    BY DEF Edge
  <2>3. \A i \in 1..Len(data) : i > 0
    OBVIOUS
  <2> QED
    BY <2>1, <2>2, <2>3
<1> HIDE DEF g, k, b
<1>10. \A i \in 1..k : data[0 + i] = Byte("data", cur, g + i)
  <2> TAKE i \in 1..k
  <2>1. i \in 1..Len(data) /\ g + i \in 1..b /\ 0 + i = i
    BY <1>6, <1>7
  <2>2. t.bytes[Offset(sent, cur - 1) + HdrLen + (g + i)] = Byte("data", cur, g + i)
    BY <1>8, <2>1
  <2>3. Offset(sent, cur - 1) + HdrLen + (g + i) = p + i
    BY <1>6, <1>8, <2>1
  <2> QED
    BY <1>9, <2>1, <2>2, <2>3
<1>11. content' = DataBytes(cur, 0, g + k)
  <2>1. DataBytes(cur, 0, g) \o SubSeq(data, 0 + 1, 0 + k) = DataBytes(cur, 0, g + k)
    <3>1. ContentAt(data, 0, k, cur, g)
      BY <1>3, <1>6, <1>7, <1>10 DEF ContentAt
    <3> QED
      BY <3>1, DataBytesGrow
  <2>2. 0 + k = k /\ 0 + 1 = 1
    BY <1>7
  <2>3. content' = DataBytes(cur, 0, g) \o SubSeq(data, 1, k)
    BY <1>4, <1>6 DEF k
  <2> QED
    BY <2>1, <2>2, <2>3
<1>12. g + k \in Nat /\ Len(content') = g + k
  BY <1>3, <1>6, <1>7, <1>11, ContentBytesAt
<1>13. Got' = g
  BY <1>4, <1>6, <1>7, <1>12 DEF Got, k
<1>14. LengthStreams(p)'
  BY <1>4, <1>6, <1>11, <1>12, <1>13 DEF LengthStreams, Received, b
<1>15. Streaming'
  BY <1>4 DEF Streaming
<1> QED
  BY <1>4, <1>5, <1>14, <1>15 DEF LengthKept

\* The end of reactor_http_parser_body for a body that is not streamed.
LEMMA LengthEnds ==
  ASSUME NEW t \in Traffic, NEW p \in 0..Len(t.bytes), IInv, Carried, Placed(t, p),
         Body, ~Streaming, Synced, WellFormed(sent[cur])
  PROVE  MessageKept(p)'
<1> USE HdrLenAssumption
<1> DEFINE b == sent[cur].body
           at == Offset(sent, cur - 1)
<1>1. TypeOK /\ pc = "run" /\ state = "BODY"
  BY DEF IInv, Body
<1>2. InLength /\ InBody /\ Untold
  BY <1>1 DEF InLength, InBody, Untold
<1>3. /\ Len(data) \in Nat /\ Rest(t, p, Edge) /\ Carries(t.bytes, sent)
      /\ t.bytes \in Seq(Bytes) /\ sent \in Seq(Framings) /\ cur \in 1..Len(sent)
      /\ Good(sent, cur) /\ MessageKept(p)
  BY <1>1, <1>2, InMessage
<1>4. BodyEnds(size, Len(data)) /\ UNCHANGED <<flags, data, sent, cur, content>>
  BY DEF Body, streamVars
<1>5. Streaming' = Streaming
  BY <1>4 DEF Streaming
<1>6. sent[cur].kind = "length" /\ p = at /\ size = HdrLen + b
  BY <1>2, <1>3 DEF MessageKept, LengthKept, LengthWaits
<1>7. /\ b \in Nat /\ at \in Nat
      /\ \A i \in 1..b : t.bytes[at + HdrLen + i] = Byte("data", cur, i)
  <2>1. sent[cur].kind # "chunked"
    BY <1>6
  <2> QED
    BY <1>3, <2>1, CountedOnWire, BodyOnWire
<1>8. \A i \in 1..Len(data) : data[i] = t.bytes[p + i]
  <2>1. Edge = 0
    BY <1>1 DEF Edge, InChunks, Whole, Complete
  <2> QED
    BY <1>3, <2>1 DEF Rest
<1> HIDE DEF b, at
<1>9. CASE Len(data) < size
  <2>1. pc' = "idle" /\ state' = "BODY" /\ size' = size
    BY <1>1, <1>4, <1>9 DEF BodyEnds
  <2>2. InLength' /\ ~InChunks' /\ ~Whole'
    BY <2>1 DEF InLength, InChunks, Whole, Complete
  <2>3. LengthKept(p)'
    BY <1>4, <1>5, <1>6, <1>9, <2>1 DEF LengthKept, LengthWaits, at, b
  <2> QED
    BY <2>2, <2>3 DEF MessageKept
<1>10. CASE ~(Len(data) < size)
  <2>1. pc' = "run" /\ state' = "FINAL" /\ size' = size /\ content_end' = size
    BY <1>4, <1>10 DEF BodyEnds
  <2>2. ~InLength' /\ ~InChunks' /\ Complete'
    BY <2>1 DEF InLength, InChunks, Complete
  <2>3. \A i \in 1..b : data[HdrLen + i] = Byte("data", cur, i)
    <3> TAKE i \in 1..b
    <3>1. size = HdrLen + b
      BY <1>6
    <3>2. HdrLen + i \in 1..Len(data)
      BY <1>3, <1>7, <1>10, <3>1
    <3>3. p + (HdrLen + i) = at + HdrLen + i
      BY <1>6, <1>7
    <3> QED
      BY <1>7, <1>8, <3>2, <3>3
  <2>4. Decoded(b)'
    BY <1>4, <1>6, <2>1, <2>3 DEF Decoded, b
  <2>5. WholeKept(p)'
    BY <1>4, <1>5, <1>6, <2>1, <2>4 DEF WholeKept, b, at
  <2> QED
    BY <2>2, <2>5 DEF MessageKept
<1> QED
  BY <1>9, <1>10

\* The end of reactor_http_parser_body for a streamed body, when got bytes of the
\* body are dropped, sz are missing and avail are there.
LEMMA StreamEnds ==
  ASSUME NEW t \in Traffic, NEW q, NEW got, NEW sz, NEW avail,
         BodyEnds(sz, avail), sz \in Nat, avail \in Nat, got \in Nat,
         avail >= sz => sz = 0, avail < sz => avail = 0,
         TypeOK, cur # 0, t.sent = sent, Good(sent, cur),
         UNCHANGED <<flags, sent, cur, content>>, Streaming,
         state \in {"BODY", "CLOSED"}, Len(data') = avail, data' \in Seq(Bytes),
         WellFormed(sent[cur]), sent[cur].kind = "length",
         content = DataBytes(cur, 0, got), Len(content) = got,
         q = Offset(sent, cur - 1) + HdrLen + got, sz + got = sent[cur].body
  PROVE  MessageKept(q)'
<1>1. Streaming' = Streaming
  BY DEF Streaming
<1>2. CASE avail < sz
  <2>1. pc' = "idle" /\ state' = state /\ size' = sz
    BY <1>2 DEF BodyEnds
  <2>2. ~InChunks' /\ ~Whole'
    BY <2>1 DEF InChunks, Whole, Complete
  <2>3. data' = <<>> /\ sz > 0
    BY <1>2
  <2>4. Got' = got
    BY <2>1 DEF Got
  <2>5. LengthStreams(q)'
    BY <2>1, <2>3, <2>4 DEF LengthStreams, Received
  <2>6. LengthKept(q)'
    BY <1>1, <2>5 DEF LengthKept
  <2> QED
    BY <2>2, <2>6 DEF MessageKept
<1>3. CASE ~(avail < sz)
  <2>1. pc' = "run" /\ state' = "FINAL"
    BY <1>3 DEF BodyEnds
  <2>2. ~InLength' /\ ~InChunks'
    BY <2>1 DEF InLength, InChunks
  <2>3. got = sent[cur].body
    BY <1>3
  <2>4. q = Offset(sent, cur)
    <3>1. sent \in Seq(Framings) /\ cur \in 1..Len(sent)
      BY CurrentMessage
    <3>2. t.bytes \in Seq(Bytes) /\ Carries(t.bytes, sent) /\ sent[cur].kind # "chunked"
      BY TrafficAssumption, EncodedTrafficAssumption
    <3>3. Offset(sent, cur) = Offset(sent, cur - 1) + HdrLen + sent[cur].body
      BY <3>1, <3>2, CountedOnWire
    <3> QED
      BY <2>3, <3>3
  <2>5. WholeKept(q)'
    BY <1>1, <2>3, <2>4 DEF WholeKept, Received
  <2> QED
    BY <2>2, <2>5 DEF MessageKept
<1> QED
  BY <1>2, <1>3

\* reactor_http_parser_body, up to its dispatch.
LEMMA BodyKeeps ==
  ASSUME NEW t \in Traffic, NEW p \in 0..Len(t.bytes), IInv, Carried, Ordered, Placed(t, p), Body
  PROVE  DInv'
<1>1. TypeOK /\ pc = "run" /\ state = "BODY"
  BY DEF IInv, Body
<1>2. InLength /\ InBody /\ Untold
  BY <1>1 DEF InLength, InBody, Untold
<1>3. /\ p \in Nat /\ Len(data) \in Nat /\ Rest(t, p, Edge) /\ cur # 0
      /\ Synced /\ WellFormed(sent[cur]) => MessageKept(p) /\ Good(sent, cur)
  BY <1>1, <1>2, InMessage DEF Carried
<1>4. UNCHANGED <<flags, content_begin, data, inflight, sent, cur, delivered, sound, fits, fresh>>
  BY DEF Body, streamVars
<1>5. Streaming' = Streaming
  BY <1>4 DEF Streaming
<1>6. Edge = 0
  BY <1>1 DEF Edge, InChunks, Whole, Complete
<1>7. Edge' \in Nat
  <2>1. content_end' \in Nat
    BY <1>1, BodyType DEF TypeOK
  <2> QED
    BY <2>1 DEF Edge
<1>8. Rest(t, p, Edge)'
  BY <1>3, <1>4, <1>6, <1>7 DEF Rest
<1>9. CASE data # <<>> /\ Streaming
  <2>1. /\ pc' = "BODY_CHUNK" /\ state' = state
    BY <1>9 DEF Body
  <2>2. InBody' /\ ~InChunks' /\ ~Whole'
    BY <1>1, <2>1 DEF InBody, InLength, InChunks, Whole, Complete
  <2>3. Synced /\ WellFormed(sent[cur]) => MessageKept(p)'
    BY <1>9, <2>2, LengthStreamed DEF MessageKept
  <2> QED
    BY <1>2, <1>4, <1>8, <1>9, <2>1, <2>2, <2>3, MessageGoesOn
<1>10. CASE ~(data # <<>> /\ Streaming)
  <2>1. BodyEnds(size, Len(data)) /\ content' = content
    BY <1>10 DEF Body
  <2>2. pc' \in {"idle", "run"} /\ (InBody' \/ Complete')
    BY <1>1, <2>1 DEF BodyEnds, InBody, InLength, Complete
  <2>3. ASSUME Synced, WellFormed(sent[cur])
        PROVE  MessageKept(p)'
    <3>1. CASE Streaming
      <4>1. data = <<>> /\ data' = <<>> /\ Len(data) = 0
        BY <1>4, <1>10, <3>1
      <4>2. sent[cur].kind = "length" /\ LengthStreams(p)
        BY <1>2, <1>3, <2>3, <3>1 DEF MessageKept, LengthKept
      <4>3. /\ content = DataBytes(cur, 0, Len(content)) /\ Len(content) \in Nat
            /\ p = Offset(sent, cur - 1) + HdrLen + Len(content)
            /\ size + Len(content) = sent[cur].body
        BY <1>1, <4>2 DEF LengthStreams, Got, Received
      <4>4. size \in Nat /\ t.sent = sent
        BY <1>1 DEF TypeOK, Placed
      <4>5. /\ Len(data) >= size => size = 0
            /\ Len(data') = Len(data) /\ data' \in Seq(Bytes)
        BY <4>1, <4>4
      <4> QED
        BY <1>1, <1>3, <1>4, <2>1, <2>3, <3>1, <4>1, <4>2, <4>3, <4>4, <4>5, StreamEnds
    <3>2. CASE ~Streaming
      BY <2>3, <3>2, LengthEnds
    <3> QED
      BY <3>1, <3>2
  <2> QED
    BY <1>2, <1>4, <1>8, <2>1, <2>2, <2>3, MessageGoesOn
<1> QED
  BY <1>9, <1>10

\* Where the input is behind a callback that was shown the first bytes of it.
LEMMA TakePlace ==
  ASSUME NEW t \in Traffic, NEW p \in 0..Len(t.bytes), NEW q, TypeOK, Carried, Placed(t, p), Untold,
         Moves(p, take, q),
         Streaming, take <= Len(data), Consume(take), UNCHANGED <<flags, inflight>>
  PROVE  /\ q \in 0..Len(t.bytes) /\ p <= q /\ Rest(t, q, Edge)'
         /\ Len(data') = Len(data) - take /\ data' \in Seq(Bytes)
<1>1. /\ p \in Nat /\ Len(t.bytes) \in Nat /\ Len(data) \in Nat /\ Len(inflight) \in Nat
      /\ Rest(t, p, Edge)
  BY InMessage
<1>2. take \in Nat /\ inflight' = inflight
  BY DEF TypeOK
<1>3. Edge = 0 /\ Edge' = 0
  BY DEF Edge, Streaming
<1>5. /\ Len(data') = Len(data) - take
      /\ q + Len(data') + Len(inflight') = Len(t.bytes)
      /\ \A i \in 1..Len(data') : take + i > Edge => data'[i] = t.bytes[q + i]
      /\ \A i \in 1..Len(inflight') : inflight'[i] = t.bytes[q + Len(data') + i]
  BY <1>1, <1>2, ConsumePlace
<1>6. Len(data') = Len(data) - take /\ q + Len(data') + Len(inflight') = Len(t.bytes)
  BY <1>5
<1>7. \A i \in 1..Len(data') : data'[i] = t.bytes[q + i]
  <2> TAKE i \in 1..Len(data')
  <2>1. take + i > 0
    BY <1>2
  <2> QED
    BY <1>3, <1>5, <2>1
<1>8. Rest(t, q, Edge)'
  BY <1>5, <1>7 DEF Rest
<1>9. data' \in Seq(Bytes)
  <2>1. data' \in Seq(WireBytes) /\ WireBytes \subseteq Bytes
    BY <1>2, ConsumeType, WireBytesAreBytes
  <2> QED
    BY <2>1
<1>10. q = p + take
  BY DEF Moves
<1>11. q \in 0..Len(t.bytes) /\ p <= q
  BY <1>1, <1>2, <1>6, <1>10
<1> QED
  BY <1>6, <1>8, <1>9, <1>10, <1>11

\* The part of a body that was shown to the owner is dropped.
LEMMA BodyChunkReturnsKeeps ==
  ASSUME NEW t \in Traffic, NEW p \in 0..Len(t.bytes), IInv, Carried, Ordered, Placed(t, p),
         BodyChunkReturns
  PROVE  DInv'
<1>1. TypeOK /\ CallMatchesState /\ TakeInBuffer /\ pc = "BODY_CHUNK"
  BY DEF IInv, Bounds, BufferBounds, BodyChunkReturns
<1>2. /\ Streaming /\ state \in {"BODY", "CLOSED"} /\ take <= Len(data) /\ take = Min2(size, Len(data))
      /\ InLength /\ InBody /\ Untold /\ Live
  BY <1>1 DEF CallMatchesState, TakeInBuffer, InLength, InBody, Untold, Live
<1>3. /\ Consume(take) /\ BodyEnds(size - take, Len(data) - take)
      /\ UNCHANGED <<flags, content_begin, inflight, take, sent, cur, content, delivered, sound,
                     fits, fresh>>
  BY DEF BodyChunkReturns, messageVars, historyVars
<1>4. /\ p \in Nat /\ Len(data) \in Nat /\ cur # 0 /\ t.sent = sent
      /\ Synced /\ WellFormed(sent[cur]) => MessageKept(p) /\ Good(sent, cur)
  BY <1>1, <1>2, InMessage DEF Carried, Placed
<1>6. size \in Nat /\ take \in Nat
  BY <1>1 DEF TypeOK
<1>12. PICK q : Moves(p, take, q)
  BY <1>4, <1>6 DEF Moves
<1>11. q = p + take
  BY <1>12 DEF Moves
<1>5. /\ q \in 0..Len(t.bytes) /\ p <= q /\ Rest(t, q, Edge)'
      /\ Len(data') = Len(data) - take /\ data' \in Seq(Bytes)
  BY <1>1, <1>2, <1>3, <1>12, TakePlace
<1>7. /\ size - take \in Nat /\ Len(data) - take \in Nat
      /\ Len(data) - take >= size - take => size - take = 0
      /\ Len(data) - take < size - take => Len(data) - take = 0
  BY <1>2, <1>4, <1>6 DEF Min2
<1>8. /\ pc' \in {"idle", "run"}
      /\ pc' = "idle" => state' = state
      /\ pc' = "run" => state' = "FINAL"
  BY <1>3 DEF BodyEnds
<1>9. CASE pc' = "idle" /\ state = "CLOSED"
  <2>1. ~Live'
    BY <1>8, <1>9 DEF Live, Untold, InHeader, InBody, InLength, InChunks, Complete
  <2> QED
    BY <1>3, <1>4, <2>1, NotLive, PlaceFound
<1>10. CASE ~(pc' = "idle" /\ state = "CLOSED")
  <2>1. InBody' \/ Complete'
    BY <1>2, <1>8, <1>10 DEF InBody, InLength, Complete
  <2>2. ASSUME Synced, WellFormed(sent[cur])
        PROVE  MessageKept(q)'
    <3> DEFINE got == Len(content) - take
    <3>1. sent[cur].kind = "length" /\ LengthStreams(p)
      BY <1>2, <1>4, <2>2 DEF MessageKept, LengthKept
    <3>2. /\ content = DataBytes(cur, 0, Len(content)) /\ got \in Nat
          /\ p = Offset(sent, cur - 1) + HdrLen + got /\ size + got = sent[cur].body
      BY <1>1, <3>1 DEF LengthStreams, Got, Received
    <3>3. Len(content) \in Nat
      BY <1>1 DEF TypeOK
    <3>4. Offset(sent, cur - 1) \in Nat /\ HdrLen \in Nat
      <4>1. sent \in Seq(Framings) /\ cur \in 1..Len(sent)
        BY <1>1, <1>4, CurrentMessage
      <4>2. cur - 1 \in 0..Len(sent)
        BY <4>1
      <4> QED
        BY <4>1, <4>2, EncodeStep, HdrLenAssumption
    <3>5. /\ q = Offset(sent, cur - 1) + HdrLen + Len(content)
          /\ (size - take) + Len(content) = sent[cur].body
      BY <1>6, <1>11, <3>2, <3>3, <3>4
    <3>6. /\ BodyEnds(size - take, Len(data) - take)
          /\ UNCHANGED <<flags, sent, cur, content>>
      BY <1>3
    <3> HIDE DEF got
    <3> QED
      BY <1>1, <1>2, <1>4, <1>5, <1>7, <2>2, <3>1, <3>2, <3>3, <3>5, <3>6, StreamEnds
  <2>3. pc' # "HEADER"
    BY <1>8
  <2> QED
    BY <1>2, <1>3, <1>5, <2>1, <2>2, <2>3, MessageGoesOn
<1> QED
  BY <1>9, <1>10

-------------------------------------------------------------------------------
(***************************************************************************)
(* Chunked bodies                                                          *)
(***************************************************************************)
\* The input at chunk_begin is a chunk of n bytes behind the first ones, or the
\* beginning of it; the chunk and its line ends are in memory.
ChunkAhead(n, before) ==
  /\ n \in Nat /\ before \in Nat /\ n + 5 < SizeMod
  /\ \E c : /\ IsChunk(c, cur, before, n)
            /\ \A i \in 1..n + 5 : chunk_begin + i <= Len(data) => data[chunk_begin + i] = c[i]

\* In step the parser is in front of a chunk.
LEMMA ChunkNext ==
  ASSUME NEW t \in Traffic, NEW p \in 0..Len(t.bytes), NEW j, IInv, Carried, Placed(t, p),
         pc \in {"idle", "run"}, state = "CHUNKED_BODY", Synced, WellFormed(sent[cur]),
         sent[cur].kind = "chunked", j \in 0..Len(sent[cur].chunks), ChunkKept(p, j)
  PROVE  /\ ChunkAhead(ChunkSize(sent[cur].chunks, j), SizeBefore(sent[cur].chunks)[j])
         /\ p + chunk_begin = Offset(sent, cur - 1) + HdrLen + ChunkOffset(sent[cur].chunks, j)
<1> DEFINE chunks == sent[cur].chunks
           n == ChunkSize(chunks, j)
           before == SizeBefore(chunks)[j]
           at == Offset(sent, cur - 1) + HdrLen + ChunkOffset(chunks, j)
<1>1. TypeOK /\ ChunksInBuffer
  BY DEF IInv, Bounds, BufferBounds
<1>2. Untold /\ InChunks
  BY DEF Untold, InBody, InChunks
<1>3. /\ p \in Nat /\ Len(t.bytes) \in Nat /\ Len(data) \in Nat /\ Len(inflight) \in Nat
      /\ t.bytes \in Seq(Bytes) /\ Carries(t.bytes, sent) /\ Rest(t, p, Edge)
      /\ sent \in Seq(Framings) /\ cur \in 1..Len(sent) /\ Good(sent, cur)
  BY <1>1, <1>2, InMessage
<1>4. /\ chunks \in Seq(Nat \ {0}) /\ at + n + 5 <= Offset(sent, cur)
      /\ IsChunk([i \in 1..n + 5 |-> t.bytes[at + i]], cur, before, n)
  BY <1>3, ChunkOnWire
<1>5. Offset(sent, cur) \in Nat /\ Offset(sent, cur) <= Len(t.bytes) /\ Offset(sent, cur - 1) \in Nat
  BY <1>3, BodyOnWire
<1>6. n \in Nat /\ before \in Nat /\ ChunkOffset(chunks, j) \in Nat
  BY <1>4, ChunkNumbers
<1>7. at \in Nat
  BY <1>5, <1>6, HdrLenAssumption
<1>8. p + chunk_begin = at /\ chunk_begin \in Nat /\ Edge \in Nat /\ Edge <= chunk_begin
  <2>1. chunk_begin \in Nat /\ content_end \in Nat
    BY <1>1 DEF TypeOK
  <2>2. CASE Streaming
    <3>1. p = at /\ chunk_begin = 0
      BY <1>1, <2>2 DEF ChunkKept, ChunkStreams, ChunksInBuffer
    <3>2. Edge = 0
      BY <2>2 DEF Edge
    <3> QED
      BY <1>3, <3>1, <3>2
  <2>3. CASE ~Streaming
    <3>1. p = Offset(sent, cur - 1) /\ chunk_begin = HdrLen + ChunkOffset(chunks, j)
      BY <2>3 DEF ChunkKept, ChunkWaits
    <3>2. Edge = content_end /\ content_end <= chunk_begin
      BY <1>1, <1>2, <2>3 DEF Edge, ChunksInBuffer
    <3>3. p \in Nat /\ HdrLen \in Nat /\ ChunkOffset(chunks, j) \in Nat
      BY <1>3, <1>6, HdrLenAssumption
    <3>4. p + chunk_begin = at
      BY <3>1, <3>3
    <3> QED
      BY <2>1, <3>2, <3>4
  <2> QED
    BY <2>2, <2>3
<1> DEFINE c == [i \in 1..n + 5 |-> t.bytes[at + i]]
<1> HIDE DEF n, before, at, chunks
<1>9. \A i \in 1..n + 5 : chunk_begin + i <= Len(data) => data[chunk_begin + i] = c[i]
  <2> SUFFICES ASSUME NEW i \in 1..n + 5, chunk_begin + i <= Len(data)
               PROVE  data[chunk_begin + i] = t.bytes[at + i]
    OBVIOUS
  <2>1. \A k \in 1..Len(data) : k > Edge => data[k] = t.bytes[p + k]
    BY <1>3 DEF Rest
  <2>2. chunk_begin + i \in 1..Len(data) /\ chunk_begin + i > Edge /\ p + (chunk_begin + i) = at + i
    BY <1>3, <1>6, <1>7, <1>8
  <2> QED
    BY <2>1, <2>2
<1>10. n + 5 < SizeMod
  <2>1. Len(t.bytes) + 2 < SizeMod /\ SizeMod \in Nat
    BY SmallTrafficAssumption, SizeModAssumption
  <2>2. at + n + 5 <= Offset(sent, cur) /\ Offset(sent, cur) <= Len(t.bytes)
    BY <1>4, <1>5
  <2>3. Offset(sent, cur) \in Nat /\ Len(t.bytes) \in Nat /\ n \in Nat /\ at \in Nat
    BY <1>3, <1>5, <1>6, <1>7
  <2> QED
    BY <2>1, <2>2, <2>3
<1>11. ChunkAhead(n, before)
  <2>1. IsChunk(c, cur, before, n)
    BY <1>4
  <2> HIDE DEF c
  <2> QED
    BY <1>6, <1>9, <1>10, <2>1 DEF ChunkAhead
<1> QED
  BY <1>8, <1>11 DEF n, before, at, chunks

\* In front of a chunk the parser finds its size and its line end, and waits until the
\* whole chunk is there.
LEMMA ChunkRead ==
  ASSUME NEW n, NEW before, TypeOK, ChunkAhead(n, before), ChunkedBody
  PROVE  \/ /\ pc' = "idle" /\ Len(data) < chunk_begin + n + 5
            /\ UNCHANGED <<state, size, content_end, chunk_begin, data, take, last, content>>
         \/ chunk_begin + n + 5 <= Len(data) /\ TakeChunk(chunk_begin + 3, n)
<1>1. /\ Len(data) \in Nat /\ chunk_begin \in Nat /\ SizeMod \in Nat
      /\ n \in Nat /\ n + 5 < SizeMod
  BY SizeModAssumption DEF TypeOK, ChunkAhead
<1>2. PICK c : /\ IsChunk(c, cur, before, n)
               /\ \A i \in 1..n + 5 : chunk_begin + i <= Len(data) => data[chunk_begin + i] = c[i]
  BY DEF ChunkAhead
<1>3. /\ chunk_begin + 1 <= Len(data) => data[chunk_begin + 1] = Byte("size", cur, n)
      /\ chunk_begin + 2 <= Len(data) => data[chunk_begin + 2] = Byte("cr", cur, 0)
      /\ chunk_begin + 3 <= Len(data) => data[chunk_begin + 3] = Byte("lf", cur, 0)
  <2>1. 1 \in 1..n + 5 /\ 2 \in 1..n + 5 /\ 3 \in 1..n + 5
    BY <1>1
  <2>2. c[1] = Byte("size", cur, n) /\ c[2] = Byte("cr", cur, 0) /\ c[3] = Byte("lf", cur, 0)
    BY <1>2 DEF IsChunk
  <2> QED
    BY <1>2, <2>1, <2>2
<1>4. chunk_begin + 3 <= Len(data) => chunk_begin + 2 \in LineEnds(chunk_begin)
  <2> SUFFICES ASSUME chunk_begin + 3 <= Len(data)
               PROVE  chunk_begin + 2 \in LineEnds(chunk_begin)
    OBVIOUS
  <2>1. /\ chunk_begin + 2 \in chunk_begin + 1 .. Len(data) - 1
        /\ (chunk_begin + 2) + 1 = chunk_begin + 3 /\ chunk_begin + 2 <= Len(data)
    BY <1>1
  <2>2. data[chunk_begin + 2].kind = "cr" /\ data[(chunk_begin + 2) + 1].kind = "lf"
    BY <1>3, <2>1 DEF Byte
  <2> QED
    BY <2>1, <2>2 DEF LineEnds
<1>5. \A eol \in LineEnds(chunk_begin) :
        eol \in Nat /\ chunk_begin + 2 <= eol /\ chunk_begin + 3 <= Len(data)
  <2> TAKE eol \in LineEnds(chunk_begin)
  <2>1. eol \in chunk_begin + 1 .. Len(data) - 1 /\ data[eol].kind = "cr"
    BY DEF LineEnds
  <2>2. eol \in Nat /\ chunk_begin + 1 <= eol /\ eol + 1 <= Len(data)
    BY <1>1, <2>1
  <2>3. eol # chunk_begin + 1
    <3>1. SUFFICES ASSUME eol = chunk_begin + 1 PROVE FALSE
      OBVIOUS
    <3>2. data[eol].kind = "size"
      BY <1>1, <1>3, <2>2, <3>1 DEF Byte
    <3> QED
      BY <2>1, <3>2
  <2> QED
    BY <1>1, <2>2, <2>3
<1>6. ChunkFits(n, Len(data) - (chunk_begin + 3)) <=> chunk_begin + n + 5 <= Len(data)
  BY <1>1 DEF ChunkFits, Wrap
<1>7. CASE LineEnds(chunk_begin) = {} /\ pc' = "idle"
           /\ UNCHANGED <<state, size, content_end, chunk_begin, data, take, last, content>>
  <2>1. ~(chunk_begin + 3 <= Len(data))
    BY <1>4, <1>7
  <2>2. Len(data) < chunk_begin + n + 5
    BY <1>1, <2>1
  <2> QED
    BY <1>7, <2>2
<1>8. ASSUME NEW eol \in LineEnds(chunk_begin), \A i \in LineEnds(chunk_begin) : eol <= i,
             NEW k \in ChunkSizes(data[chunk_begin + 1]),
             \/ /\ ChunkFits(k, Len(data) - (eol + 1)) /\ k + 2 < SizeMod
                /\ TakeChunk(eol + 1, k)
             \/ /\ IF ChunkFits(k, Len(data) - (eol + 1))
                   THEN k + 2 >= SizeMod /\ pc' = "corrupt"
                   ELSE pc' = "idle"
                /\ UNCHANGED <<state, size, content_end, chunk_begin, data, take, last, content>>
      PROVE  \/ /\ pc' = "idle" /\ Len(data) < chunk_begin + n + 5
                /\ UNCHANGED <<state, size, content_end, chunk_begin, data, take, last, content>>
             \/ chunk_begin + n + 5 <= Len(data) /\ TakeChunk(chunk_begin + 3, n)
  <2>1. eol \in Nat /\ chunk_begin + 2 <= eol /\ chunk_begin + 3 <= Len(data)
    BY <1>5
  <2>2. eol <= chunk_begin + 2
    BY <1>4, <1>8, <2>1
  <2>3. eol = chunk_begin + 2 /\ eol + 1 = chunk_begin + 3
    BY <1>1, <2>1, <2>2
  <2>4. k = n
    <3>1. data[chunk_begin + 1] = Byte("size", cur, n)
      BY <1>1, <1>3, <2>1
    <3> QED
      BY <3>1 DEF ChunkSizes, Byte
  <2>5. \/ ChunkFits(n, Len(data) - (chunk_begin + 3)) /\ TakeChunk(chunk_begin + 3, n)
        \/ /\ ~ChunkFits(n, Len(data) - (chunk_begin + 3)) /\ pc' = "idle"
           /\ UNCHANGED <<state, size, content_end, chunk_begin, data, take, last, content>>
    <3>1. ~(n + 2 >= SizeMod)
      BY <1>1
    <3> QED
      BY <1>8, <2>3, <2>4, <3>1
  <2>6. ~(chunk_begin + n + 5 <= Len(data)) => Len(data) < chunk_begin + n + 5
    BY <1>1
  <2> QED
    BY <1>6, <2>5, <2>6
<1> QED
  BY <1>7, <1>8 DEF ChunkedBody

\* The content bytes of the chunk that is there.
LEMMA ChunkContent ==
  ASSUME NEW n, NEW before, TypeOK, ChunkAhead(n, before), chunk_begin + n + 5 <= Len(data)
  PROVE  \A i \in 1..n : data[chunk_begin + 3 + i] = Byte("data", cur, before + i)
<1>1. n \in Nat /\ chunk_begin \in Nat /\ Len(data) \in Nat
  BY DEF TypeOK, ChunkAhead
<1>2. PICK c : /\ IsChunk(c, cur, before, n)
               /\ \A i \in 1..n + 5 : chunk_begin + i <= Len(data) => data[chunk_begin + i] = c[i]
  BY DEF ChunkAhead
<1> TAKE i \in 1..n
<1>3. 3 + i \in 1..n + 5 /\ chunk_begin + (3 + i) <= Len(data)
      /\ chunk_begin + (3 + i) = chunk_begin + 3 + i
  BY <1>1
<1>4. c[3 + i] = Byte("data", cur, before + i)
  BY <1>2 DEF IsChunk
<1> QED
  BY <1>2, <1>3, <1>4

\* A chunk that is moved down is behind the content of those before it.
LEMMA ChunkDecoded ==
  ASSUME NEW n, NEW before, TypeOK, ChunkAhead(n, before), Decoded(before),
         chunk_begin + n + 5 <= Len(data), content_end <= chunk_begin,
         data' = Moved(content_end, chunk_begin + 3, n), content_end' = content_end + n, cur' = cur
  PROVE  /\ content_end' = HdrLen + (before + n)
         /\ \A i \in 1..before + n : data'[HdrLen + i] = Byte("data", cur', i)
<1>1. /\ n \in Nat /\ before \in Nat /\ HdrLen \in Nat /\ chunk_begin \in Nat
      /\ content_end \in Nat /\ Len(data) \in Nat
  BY HdrLenAssumption DEF TypeOK, ChunkAhead
<1>2. content_end = HdrLen + before /\ \A i \in 1..before : data[HdrLen + i] = Byte("data", cur, i)
  BY DEF Decoded
<1>3. \A i \in 1..n : data[chunk_begin + 3 + i] = Byte("data", cur, before + i)
  BY ChunkContent
<1>4. \A i \in 1..Len(data) :
        data'[i] = IF i \in content_end + 1 .. content_end + n
                   THEN data[i - content_end + (chunk_begin + 3)] ELSE data[i]
  BY DEF Moved
<1>5. \A i \in 1..before + n : data'[HdrLen + i] = Byte("data", cur, i)
  <2> TAKE i \in 1..before + n
  <2>1. content_end = HdrLen + before
    BY <1>2
  <2>2. HdrLen + i \in 1..Len(data)
    BY <1>1, <2>1
  <2>3. CASE i <= before
    <3>1. HdrLen + i \notin content_end + 1 .. content_end + n /\ i \in 1..before
      BY <1>1, <2>1, <2>3
    <3>2. data'[HdrLen + i] = data[HdrLen + i]
      BY <1>4, <2>2, <3>1
    <3> QED
      BY <1>2, <3>1, <3>2
  <2>4. CASE before < i
    <3> DEFINE k == i - before
    <3>1. /\ HdrLen + i \in content_end + 1 .. content_end + n /\ k \in 1..n
          /\ (HdrLen + i) - content_end + (chunk_begin + 3) = chunk_begin + 3 + k
          /\ before + k = i
      BY <1>1, <2>1, <2>4
    <3> HIDE DEF k
    <3>2. data'[HdrLen + i] = data[(HdrLen + i) - content_end + (chunk_begin + 3)]
      BY <1>4, <2>2, <3>1
    <3>3. data[chunk_begin + 3 + k] = Byte("data", cur, before + k)
      BY <1>3, <3>1
    <3> QED
      BY <3>1, <3>2, <3>3
  <2> QED
    BY <1>1, <2>3, <2>4
<1>6. content_end' = HdrLen + (before + n)
  BY <1>1, <1>2
<1> QED
  BY <1>5, <1>6

\* In step, without streaming: the chunk is added to the content, and the next one is
\* in its place.
LEMMA ChunkTaken ==
  ASSUME NEW t \in Traffic, NEW p \in 0..Len(t.bytes), NEW j, IInv, Carried, Placed(t, p),
         pc = "run", state = "CHUNKED_BODY", Synced, WellFormed(sent[cur]),
         sent[cur].kind = "chunked", j \in 0..Len(sent[cur].chunks), ChunkKept(p, j), ~Streaming,
         chunk_begin + ChunkSize(sent[cur].chunks, j) + 5 <= Len(data),
         TakeChunk(chunk_begin + 3, ChunkSize(sent[cur].chunks, j)), UNCHANGED <<flags, sent, cur>>
  PROVE  MessageKept(p)'
<1> DEFINE chunks == sent[cur].chunks
           n == ChunkSize(chunks, j)
           before == SizeBefore(chunks)[j]
<1>1. TypeOK /\ ChunksInBuffer /\ cur # 0
  BY DEF IInv, Bounds, BufferBounds, Carried, Untold, InBody, InChunks
<1>2. /\ sent[cur] \in Framings /\ chunks \in Seq(Nat \ {0}) /\ Len(chunks) \in Nat
      /\ n \in Nat /\ before \in Nat /\ ChunkOffset(chunks, j) \in Nat
  BY <1>1, CurrentMessage
<1>3. ChunkAhead(n, before)
  BY ChunkNext
<1>4. /\ p = Offset(sent, cur - 1) /\ chunk_begin = HdrLen + ChunkOffset(chunks, j)
      /\ Decoded(before)
  BY DEF ChunkKept, ChunkWaits
<1>5. /\ data' = Moved(content_end, chunk_begin + 3, n) /\ content_end' = content_end + n
      /\ chunk_begin' = chunk_begin + 3 + n + 2 /\ pc' = "run"
      /\ state' = IF n = 0 THEN "FINAL" ELSE "CHUNKED_BODY"
  BY DEF TakeChunk
<1>6. Streaming' = Streaming
  BY DEF Streaming
<1>7. /\ content_end' = HdrLen + (before + n)
      /\ \A i \in 1..before + n : data'[HdrLen + i] = Byte("data", cur', i)
  <2>1. content_end <= chunk_begin
    BY <1>1 DEF ChunksInBuffer
  <2>2. chunk_begin + n + 5 <= Len(data) /\ cur' = cur
    OBVIOUS
  <2> HIDE DEF n, before
  <2> QED
    BY <1>1, <1>3, <1>4, <1>5, <2>1, <2>2, ChunkDecoded
<1>8. n = 0 <=> j = Len(chunks)
  BY <1>2, ChunkNumbers
<1>9. CASE j = Len(chunks)
  <2>1. ~InLength' /\ ~InChunks' /\ n = 0
    BY <1>5, <1>8, <1>9 DEF InLength, InChunks
  <2>2. before + n = sent[cur].body
    <3>1. before = sent[cur].body
      BY <1>9 DEF WellFormed
    <3> QED
      BY <1>2, <2>1, <3>1
  <2>3. Decoded(sent[cur].body)'
    <3>1. (before + n)' = before + n /\ (sent[cur].body)' = sent[cur].body
      OBVIOUS
    <3> QED
      BY <1>7, <2>2, <3>1 DEF Decoded
  <2>4. WholeKept(p)'
    BY <1>6, <2>3 DEF WholeKept
  <2> QED
    BY <2>1, <2>4 DEF MessageKept
<1>10. CASE j # Len(chunks)
  <2>1. ~InLength' /\ ~Whole'
    BY <1>5, <1>8, <1>10 DEF InLength, Whole, Complete
  <2>2. j + 1 \in 0..Len(chunks) /\ j < Len(chunks)
    BY <1>2, <1>10
  <2>3. /\ SizeBefore(chunks)[j + 1] = before + n
        /\ ChunkOffset(chunks, j + 1) = ChunkOffset(chunks, j) + n + 5
    BY <1>2, <2>2, ChunkNumbers
  <2>4. chunk_begin' = HdrLen + ChunkOffset(chunks, j + 1)
    <3>1. HdrLen \in Nat /\ chunk_begin \in Nat
      BY <1>1, HdrLenAssumption DEF TypeOK
    <3>2. chunk_begin' = chunk_begin + n + 5
      BY <1>2, <1>5, <3>1
    <3>3. n \in Nat /\ ChunkOffset(chunks, j) \in Nat
      BY <1>2
    <3>4. chunk_begin = HdrLen + ChunkOffset(chunks, j)
      BY <1>4
    <3> DEFINE o == ChunkOffset(chunks, j)
               next == ChunkOffset(chunks, j + 1)
    <3>5. next = o + n + 5 /\ chunk_begin = HdrLen + o /\ o \in Nat
      BY <2>3, <3>3, <3>4
    <3> HIDE DEF n, o, next
    <3>6. chunk_begin' = HdrLen + next
      BY <3>1, <3>2, <3>3, <3>5
    <3> QED
      BY <3>6 DEF next
  <2>5. ChunkWaits(p, j + 1)'
    BY <1>4, <1>7, <2>3, <2>4 DEF ChunkWaits, Decoded
  <2>6. ChunkKept(p, j + 1)'
    BY <1>5, <1>6, <2>5 DEF ChunkKept
  <2>7. ChunksKept(p)'
    BY <2>2, <2>6 DEF ChunksKept
  <2> QED
    BY <2>1, <2>7 DEF MessageKept
<1> QED
  BY <1>9, <1>10

\* In step, with streaming: the owner is shown the content of the chunk.
LEMMA ChunkShown ==
  ASSUME NEW t \in Traffic, NEW p \in 0..Len(t.bytes), NEW j, IInv, Carried, Placed(t, p),
         pc = "run", state = "CHUNKED_BODY", Synced, WellFormed(sent[cur]),
         sent[cur].kind = "chunked", j \in 0..Len(sent[cur].chunks), ChunkKept(p, j), Streaming,
         chunk_begin + ChunkSize(sent[cur].chunks, j) + 5 <= Len(data),
         TakeChunk(chunk_begin + 3, ChunkSize(sent[cur].chunks, j)), UNCHANGED <<flags, sent, cur>>
  PROVE  MessageKept(p)'
<1> DEFINE chunks == sent[cur].chunks
           n == ChunkSize(chunks, j)
           before == SizeBefore(chunks)[j]
<1>1. TypeOK /\ ChunksInBuffer /\ cur # 0
  BY DEF IInv, Bounds, BufferBounds, Carried, Untold, InBody, InChunks
<1>2. /\ sent[cur] \in Framings /\ chunks \in Seq(Nat \ {0}) /\ Len(chunks) \in Nat
      /\ n \in Nat /\ before \in Nat /\ cur \in Nat
  BY <1>1, CurrentMessage, NumbersOfMessages
<1>3. ChunkAhead(n, before) /\ chunk_begin = 0
  BY <1>1, ChunkNext DEF ChunksInBuffer
<1>4. /\ p = Offset(sent, cur - 1) + HdrLen + ChunkOffset(chunks, j) /\ Received(before)
  BY DEF ChunkKept, ChunkStreams
<1>5. /\ pc' = "CHUNK" /\ take' = chunk_begin + 3 + n + 2 /\ last' = (n = 0)
      /\ content' = content \o SubSeq(data, chunk_begin + 3 + 1, chunk_begin + 3 + n)
      /\ UNCHANGED <<state, chunk_begin>>
  BY DEF TakeChunk
<1>6. Streaming' = Streaming
  BY DEF Streaming
<1>7. n = 0 <=> j = Len(chunks)
  BY <1>2, ChunkNumbers
<1>8. content' = DataBytes(cur, 0, before + n)
  <2>1. ContentAt(data, 3, n, cur, before)
    <3>1. data \in Seq(Bytes) /\ Len(data) \in Nat
      BY <1>1, InputBytes
    <3>2. \A i \in 1..n : data[chunk_begin + 3 + i] = Byte("data", cur, before + i)
      BY <1>1, <1>3, ChunkContent
    <3>3. 3 + n <= Len(data) /\ chunk_begin + 3 = 3 /\ 3 \in Nat
      BY <1>2, <1>3, <3>1
    <3> HIDE DEF n, before
    <3> QED
      BY <1>2, <1>3, <3>1, <3>2, <3>3 DEF ContentAt, ChunkAhead
  <2>2. DataBytes(cur, 0, before) \o SubSeq(data, 3 + 1, 3 + n) = DataBytes(cur, 0, before + n)
    <3> HIDE DEF n, before
    <3> QED
      BY <2>1, DataBytesGrow
  <2>3. content = DataBytes(cur, 0, before)
    BY <1>4 DEF Received
  <2>4. chunk_begin + 3 = 3
    BY <1>3
  <2> HIDE DEF n, before
  <2> QED
    BY <1>5, <2>2, <2>3, <2>4
<1>9. take' = n + 5
  BY <1>2, <1>3, <1>5
<1>10. ChunkStreams(p, j)'
  BY <1>4, <1>5, <1>7, <1>8, <1>9 DEF ChunkStreams, Received
<1>11. ChunkKept(p, j)'
  BY <1>5, <1>6, <1>10 DEF ChunkKept
<1>12. ChunksKept(p)'
  BY <1>11 DEF ChunksKept
<1>13. ~InLength' /\ ~Whole'
  BY <1>5 DEF InLength, Whole, Complete
<1> QED
  BY <1>12, <1>13 DEF MessageKept

\* What reactor_http_parser_chunked_body can do, in step or not.
LEMMA ChunkedBodyCases ==
  ASSUME NEW t \in Traffic, NEW p \in 0..Len(t.bytes), IInv, Carried, Placed(t, p), ChunkedBody
  PROVE  \/ pc' = "corrupt"
         \/ /\ InBody' \/ Complete'
            /\ pc' # "HEADER" /\ Rest(t, p, Edge)' /\ (~Streaming => content' = content)
<1>1. TypeOK /\ ChunksInBuffer /\ pc = "run" /\ state = "CHUNKED_BODY"
  BY DEF IInv, Bounds, BufferBounds, ChunkedBody
<1>2. InChunks /\ Untold /\ ~InLength /\ ~Whole
  BY <1>1 DEF InChunks, InBody, Untold, InLength, Whole, Complete
<1>3. /\ Rest(t, p, Edge) /\ Len(data) \in Nat
      /\ chunk_begin \in Nat /\ content_end \in Nat /\ UNCHANGED <<flags, inflight>>
  BY <1>1, <1>2, InMessage DEF TypeOK, ChunkedBody
<1>4. Streaming' = Streaming /\ Edge = IF Streaming THEN 0 ELSE content_end
  BY <1>2, <1>3 DEF Streaming, Edge
<1>5. CASE /\ pc' = "idle"
           /\ UNCHANGED <<state, size, content_end, chunk_begin, data, take, last, content>>
  <2>1. InChunks' /\ InBody'
    BY <1>1, <1>5 DEF InChunks, InBody
  <2>2. Edge' = Edge
    BY <1>2, <1>4, <1>5, <2>1 DEF Edge
  <2> QED
    BY <1>3, <1>5, <2>1, <2>2 DEF Rest
<1>6. ASSUME NEW start, NEW n, start \in Nat, n \in Nat, TakeChunk(start, n),
             start + n + 2 <= Len(data), content_end <= start \/ Streaming
      PROVE  /\ InBody' \/ Complete'
             /\ pc' # "HEADER" /\ Rest(t, p, Edge)' /\ (~Streaming => content' = content)
  <2>1. CASE Streaming
    <3>1. pc' = "CHUNK" /\ data' = data /\ content_end' = content_end
      BY <1>6, <2>1 DEF TakeChunk
    <3>2. InBody' /\ Edge' = 0
      BY <1>4, <2>1, <3>1 DEF InBody, InChunks, Edge
    <3> QED
      BY <1>3, <1>4, <2>1, <3>1, <3>2 DEF Rest
  <2>2. CASE ~Streaming
    <3>1. /\ data' = Moved(content_end, start, n) /\ content_end' = content_end + n
          /\ pc' = "run" /\ state' \in {"FINAL", "CHUNKED_BODY"} /\ content' = content
      BY <1>1, <1>6, <2>2 DEF TakeChunk
    <3>2. (InBody' \/ Complete') /\ Edge' = content_end'
      BY <1>4, <2>2, <3>1 DEF InBody, InChunks, Complete, Whole, Edge
    <3>3. Len(data') = Len(data)
      <4>1. start + n <= Len(data)
        BY <1>3, <1>6
      <4> QED
        BY <1>1, <1>3, <1>6, <2>2, <3>1, <4>1, MovedType
    <3>4. /\ p + Len(data') + Len(inflight') = Len(t.bytes)
          /\ \A i \in 1..Len(data') : i > content_end + n => data'[i] = t.bytes[p + i]
          /\ \A i \in 1..Len(inflight') : inflight'[i] = t.bytes[p + Len(data') + i]
      <4>1. Rest(t, p, content_end)
        BY <1>3, <1>4, <2>2
      <4>2. content_end \in Nat /\ n \in Nat /\ inflight' = inflight /\ Len(data) \in Nat
        BY <1>3, <1>6
      <4>3. \A i \in 1..Len(data') : i > content_end + n => data'[i] = t.bytes[p + i]
        <5> SUFFICES ASSUME NEW i \in 1..Len(data'), i > content_end + n
                     PROVE  data'[i] = t.bytes[p + i]
          OBVIOUS
        <5>1. i \in 1..Len(data) /\ i \notin content_end + 1 .. content_end + n /\ i > content_end
          BY <3>3, <4>2
        <5>2. data'[i] = data[i]
          BY <3>1, <5>1 DEF Moved
        <5> QED
          BY <4>1, <5>1, <5>2 DEF Rest
      <4> QED
        BY <3>3, <4>1, <4>2, <4>3 DEF Rest
    <3>5. Rest(t, p, Edge)'
      BY <3>1, <3>2, <3>4 DEF Rest
    <3> QED
      BY <3>1, <3>2, <3>5
  <2> QED
    BY <2>1, <2>2
<1>7. ASSUME NEW eol \in LineEnds(chunk_begin), NEW k \in ChunkSizes(data[chunk_begin + 1]),
             ChunkFits(k, Len(data) - (eol + 1)), k + 2 < SizeMod, TakeChunk(eol + 1, k)
      PROVE  /\ InBody' \/ Complete'
             /\ pc' # "HEADER" /\ Rest(t, p, Edge)' /\ (~Streaming => content' = content)
  <2>1. eol \in Nat /\ k \in Nat /\ chunk_begin + 1 <= eol /\ eol + 1 <= Len(data)
    BY <1>1, ChunkLineType
  <2>2. eol + 1 \in Nat /\ (eol + 1) + k + 2 <= Len(data)
    BY <1>3, <1>7, <2>1, SizeModAssumption DEF ChunkFits, Wrap
  <2>3. content_end <= eol + 1 \/ Streaming
    <3>1. Streaming \/ content_end <= chunk_begin
      BY <1>1 DEF ChunksInBuffer
    <3> QED
      BY <1>3, <2>1, <3>1
  <2> QED
    BY <1>6, <1>7, <2>1, <2>2, <2>3
<1> QED
  BY <1>5, <1>7 DEF ChunkedBody

\* reactor_http_parser_chunked_body, up to its dispatch.
LEMMA ChunkedBodyKeeps ==
  ASSUME NEW t \in Traffic, NEW p \in 0..Len(t.bytes), IInv, Carried, Ordered, Placed(t, p),
         ChunkedBody
  PROVE  DInv'
<1>1. TypeOK /\ pc = "run" /\ state = "CHUNKED_BODY"
  BY DEF IInv, ChunkedBody
<1>2. InChunks /\ InBody /\ Untold
  BY <1>1 DEF InChunks, InBody, Untold
<1>3. UNCHANGED <<flags, content_begin, sent, cur, delivered, sound, fits, fresh>> /\ t.sent = sent
  BY DEF ChunkedBody, Placed
<1>4. CASE pc' = "corrupt"
  <2>1. ~Live'
    BY <1>4 DEF Live, Untold, InHeader, InBody, InLength, InChunks, Complete
  <2> QED
    BY <1>3, <2>1, NotLive, PlaceFound
<1>5. CASE pc' # "corrupt"
  <2>1. /\ InBody' \/ Complete'
        /\ pc' # "HEADER" /\ Rest(t, p, Edge)' /\ (~Streaming => content' = content)
    BY <1>5, ChunkedBodyCases
  <2>2. ASSUME Synced, WellFormed(sent[cur])
        PROVE  MessageKept(p)'
    <3>1. MessageKept(p)
      BY <1>1, <1>2, <2>2, InMessage
    <3>2. sent[cur].kind = "chunked" /\ ChunksKept(p)
      BY <1>2, <3>1 DEF MessageKept, ChunksKept
    <3>3. PICK j \in 0..Len(sent[cur].chunks) : ChunkKept(p, j)
      BY <3>2 DEF ChunksKept
    <3> DEFINE n == ChunkSize(sent[cur].chunks, j)
               before == SizeBefore(sent[cur].chunks)[j]
    <3>4. ChunkAhead(n, before)
      BY <1>1, <2>2, <3>2, <3>3, ChunkNext
    <3>5. \/ /\ pc' = "idle" /\ Len(data) < chunk_begin + n + 5
             /\ UNCHANGED <<state, size, content_end, chunk_begin, data, take, last, content>>
          \/ chunk_begin + n + 5 <= Len(data) /\ TakeChunk(chunk_begin + 3, n)
      <4> HIDE DEF n, before
      <4> QED
        BY <1>1, <3>4, ChunkRead
    <3>6. CASE /\ pc' = "idle" /\ Len(data) < chunk_begin + n + 5
               /\ UNCHANGED <<state, size, content_end, chunk_begin, data, take, last, content>>
      <4>1. ~InLength' /\ ~Whole'
        BY <1>1, <3>6 DEF InLength, Whole, Complete
      <4>2. Streaming' = Streaming
        BY <1>3 DEF Streaming
      <4>3. IF Streaming THEN ChunkStreams(p, j)' ELSE ChunkWaits(p, j)'
        BY <1>1, <1>3, <3>3, <3>6
           DEF ChunkKept, ChunkStreams, ChunkWaits, Received, Decoded
      <4>4. ChunkKept(p, j)'
        BY <1>3, <3>6, <4>2, <4>3 DEF ChunkKept
      <4>5. ChunksKept(p)'
        BY <1>3, <3>2, <4>4 DEF ChunksKept
      <4> QED
        BY <4>1, <4>5 DEF MessageKept
    <3>7. CASE chunk_begin + n + 5 <= Len(data) /\ TakeChunk(chunk_begin + 3, n)
      BY <1>1, <1>3, <2>2, <3>2, <3>3, <3>7, ChunkTaken, ChunkShown
    <3> QED
      BY <3>5, <3>6, <3>7
  <2> QED
    BY <1>2, <1>3, <2>1, <2>2, MessageGoesOn
<1> QED
  BY <1>4, <1>5

\* The chunk that was shown to the owner is dropped.
LEMMA ChunkReturnsKeeps ==
  ASSUME NEW t \in Traffic, NEW p \in 0..Len(t.bytes), IInv, Carried, Ordered, Placed(t, p),
         ChunkReturns
  PROVE  DInv'
<1>1. TypeOK /\ CallMatchesState /\ TakeInBuffer /\ pc = "CHUNK"
  BY DEF IInv, Bounds, BufferBounds, ChunkReturns
<1>2. /\ Streaming /\ state \in {"CHUNKED_BODY", "CLOSED"} /\ take <= Len(data)
      /\ InChunks /\ InBody /\ Untold /\ Live
  BY <1>1 DEF CallMatchesState, TakeInBuffer, InChunks, InBody, Untold, Live
<1>3. /\ Consume(take) /\ pc' = "run" /\ state' = IF last THEN "FINAL" ELSE state
      /\ UNCHANGED <<flags, content_begin, inflight, take, sent, cur, content, delivered, sound,
                     fits, fresh>>
  BY DEF ChunkReturns, messageVars, historyVars
<1>4. /\ p \in Nat /\ take \in Nat /\ last \in BOOLEAN /\ cur # 0 /\ t.sent = sent
      /\ Synced /\ WellFormed(sent[cur]) => MessageKept(p) /\ Good(sent, cur)
  BY <1>1, <1>2, InMessage DEF Carried, Placed, TypeOK
<1>5. PICK q : Moves(p, take, q)
  BY <1>4 DEF Moves
<1>6. q \in 0..Len(t.bytes) /\ p <= q /\ Rest(t, q, Edge)'
  BY <1>1, <1>2, <1>3, <1>5, TakePlace
<1>7. CASE ~last /\ state = "CLOSED"
  <2>1. ~Live'
    BY <1>3, <1>7 DEF Live, Untold, InHeader, InBody, InLength, InChunks, Complete
  <2> QED
    BY <1>3, <1>4, <2>1, NotLive, PlaceFound
<1>8. CASE ~(~last /\ state = "CLOSED")
  <2>1. /\ (InBody' \/ Complete') /\ ~InLength'
        /\ last => Complete' /\ ~InChunks'
        /\ ~last => ~Whole'
    BY <1>2, <1>3, <1>8 DEF InBody, InLength, InChunks, Whole, Complete
  <2>2. ASSUME Synced, WellFormed(sent[cur])
        PROVE  MessageKept(q)'
    <3> DEFINE chunks == sent[cur].chunks
               at == Offset(sent, cur - 1) + HdrLen
    <3>1. sent[cur].kind = "chunked" /\ ChunksKept(p)
      BY <1>2, <1>4, <2>2 DEF MessageKept, ChunksKept
    <3>2. PICK j \in 0..Len(chunks) : ChunkKept(p, j)
      BY <3>1 DEF ChunksKept
    <3> DEFINE n == ChunkSize(chunks, j)
               before == SizeBefore(chunks)[j]
               o == ChunkOffset(chunks, j)
    <3>3. /\ p = at + o /\ take = n + 5 /\ last = (j = Len(chunks)) /\ Received(before + n)
      BY <1>1, <1>2, <3>2 DEF ChunkKept, ChunkStreams
    <3>4. /\ chunks \in Seq(Nat \ {0}) /\ Len(chunks) \in Nat /\ n \in Nat /\ before \in Nat /\ o \in Nat
      BY <1>1, <1>4, CurrentMessage
    <3>5. at \in Nat
      <4>1. sent \in Seq(Framings) /\ cur \in 1..Len(sent)
        BY <1>1, <1>4, CurrentMessage
      <4>2. cur - 1 \in 0..Len(sent)
        BY <4>1
      <4>3. Offset(sent, cur - 1) \in Nat /\ HdrLen \in Nat
        BY <4>1, <4>2, EncodeStep, HdrLenAssumption
      <4> QED
        BY <4>3
    <3>6. Streaming' = Streaming
      BY <1>3 DEF Streaming
    <3>7. q = at + o + n + 5
      <4>1. q = p + take
        BY <1>5 DEF Moves
      <4> HIDE DEF at, o, n
      <4> QED
        BY <3>3, <3>4, <3>5, <4>1
    <3>8. CASE last
      <4>1. n = 0 /\ before = sent[cur].body
        <5>1. j = Len(chunks)
          BY <3>3, <3>8
        <5> QED
          BY <2>2, <3>1, <3>4, <5>1, ChunkNumbers DEF WellFormed
      <4>2. q = Offset(sent, cur)
        <5>1. sent \in Seq(Framings) /\ cur \in 1..Len(sent)
          BY <1>1, <1>4, CurrentMessage
        <5>2. t.bytes \in Seq(Bytes) /\ Carries(t.bytes, sent)
          BY <1>4, TrafficAssumption, EncodedTrafficAssumption
        <5>3. at + o + n + 5 = Offset(sent, cur)
          BY <1>4, <2>2, <3>1, <3>3, <3>8, <5>1, <5>2, ChunkOnWire
        <5> QED
          BY <3>7, <5>3
      <4>3. content = DataBytes(cur, 0, sent[cur].body)
        <5>1. before + n = sent[cur].body
          BY <3>4, <4>1
        <5> QED
          BY <3>3, <5>1 DEF Received
      <4>4. WholeKept(q)'
        BY <1>2, <1>3, <3>6, <4>2, <4>3 DEF WholeKept, Received
      <4> QED
        BY <2>1, <3>8, <4>4 DEF MessageKept
    <3>9. CASE ~last
      <4>1. j + 1 \in 0..Len(chunks) /\ j < Len(chunks)
        <5>1. j # Len(chunks)
          BY <3>3, <3>9
        <5> QED
          BY <3>4, <5>1
      <4>2. SizeBefore(chunks)[j + 1] = before + n /\ ChunkOffset(chunks, j + 1) = o + n + 5
        BY <3>4, <4>1, ChunkNumbers
      <4>3. q = at + ChunkOffset(chunks, j + 1)
        <5> DEFINE next == ChunkOffset(chunks, j + 1)
        <5>1. next = o + n + 5
          BY <4>2
        <5> HIDE DEF next, at, o, n
        <5>2. q = at + next
          BY <3>4, <3>5, <3>7, <5>1
        <5> QED
          BY <5>2 DEF next
      <4>4. content = DataBytes(cur, 0, SizeBefore(chunks)[j + 1])
        BY <3>3, <4>2 DEF Received
      <4>5. ChunkStreams(q, j + 1)'
        BY <1>3, <4>3, <4>4 DEF ChunkStreams, Received
      <4>6. ChunkKept(q, j + 1)'
        BY <1>2, <1>3, <3>6, <4>5 DEF ChunkKept
      <4>7. ChunksKept(q)'
        BY <1>3, <3>1, <4>1, <4>6 DEF ChunksKept
      <4> QED
        BY <2>1, <3>9, <4>7 DEF MessageKept
    <3> QED
      BY <1>4, <3>8, <3>9
  <2>3. pc' # "HEADER"
    BY <1>3
  <2> QED
    BY <1>2, <1>3, <1>6, <2>1, <2>2, <2>3, MessageGoesOn
<1> QED
  BY <1>7, <1>8

-------------------------------------------------------------------------------
(***************************************************************************)
(* Whole messages                                                          *)
(***************************************************************************)
\* What is appended comes last.
LEMMA AppendPlace ==
  ASSUME NEW S, NEW s \in Seq(S), NEW x
  PROVE  /\ Len(Append(s, x)) = Len(s) + 1 /\ Append(s, x)[Len(s) + 1] = x
         /\ \A i \in 1..Len(s) : Append(s, x)[i] = s[i]
OBVIOUS

\* The owner is told the message.
LEMMA FinalKeeps ==
  ASSUME NEW t \in Traffic, NEW p \in 0..Len(t.bytes), IInv, Carried, Ordered, Placed(t, p), Final
  PROVE  DInv'
<1>1. TypeOK /\ pc = "run" /\ state = "FINAL"
  BY DEF IInv, Final
<1>2. /\ Complete /\ Whole /\ Untold /\ Live /\ ~InHeader /\ ~InBody /\ ~InLength /\ ~InChunks
      /\ cur # 0
  BY <1>1 DEF Complete, Whole, Untold, Live, InHeader, InBody, InLength, InChunks, Carried
<1>3. /\ pc' = "DONE" /\ state' = "FINAL"
      /\ delivered' = Append(delivered, [m |-> cur, content |-> content'])
      /\ UNCHANGED <<flags, size, content_begin, content_end, data, inflight, sent, cur, sound,
                     fits, fresh>>
  BY <1>1 DEF Final, parserVars, streamVars
<1>4. /\ ~Complete' /\ Whole' /\ ~Untold' /\ Live' /\ ~InHeader' /\ ~InBody' /\ ~InLength' /\ ~InChunks'
  BY <1>3 DEF Complete, Whole, Untold, Live, InHeader, InBody, InLength, InChunks
<1>5. Streaming' = Streaming /\ fits' = fits /\ Synced' = Synced
  BY <1>1, <1>3, SyncedTold DEF Streaming
<1>6. Edge' = Edge /\ HeadKept' = HeadKept
  BY <1>1, <1>2, <1>3, <1>4, <1>5 DEF Edge, HeadKept
<1>7. /\ Len(delivered) \in Nat /\ cur \in Nat
      /\ \A i \in 1..Len(delivered) : delivered[i].m \in Nat
  BY <1>1, NumbersOfMessages
<1>8. /\ Len(delivered') = Len(delivered) + 1
      /\ delivered'[Len(delivered) + 1].m = cur
      /\ \A i \in 1..Len(delivered) : delivered'[i] = delivered[i]
  <2>1. delivered \in Seq([m : Nat, content : Seq(Bytes)])
    BY <1>1 DEF TypeOK
  <2> QED
    BY <1>3, <2>1, AppendPlace
<1>9. delivered' # <<>>
  BY <1>7, <1>8
<1>10. Carried'
  BY <1>2, <1>3, <1>4, <1>5, <1>9 DEF Carried
<1>11. Ordered'
  <2>1. SUFFICES ASSUME fits, NEW i \in 1..Len(delivered')
                 PROVE  delivered'[i].m <= cur
    BY <1>3, <1>4, <1>5 DEF Ordered
  <2>2. CASE i = Len(delivered) + 1
    BY <1>7, <1>8, <2>2
  <2>3. CASE i # Len(delivered) + 1
    <3>1. i \in 1..Len(delivered)
      BY <1>7, <1>8, <2>3
    <3> QED
      BY <1>8, <2>1, <3>1 DEF Ordered
  <2> QED
    BY <2>2, <2>3
<1>12. t.sent = sent /\ Rest(t, p, Edge) /\ HeadRead(t, p) /\ InStep(p)
  BY <1>2 DEF Placed, Unread
<1>13. Unread(t, p)'
  BY <1>3, <1>6, <1>12 DEF Unread, Rest
<1>14. HeadRead(t, p)'
  BY <1>2, <1>3, <1>5, <1>6, <1>12 DEF HeadRead
<1>15. ASSUME Synced
       PROVE  InPlace(p)' /\ BodyKept(p)'
  <2>1. Good(sent, Len(delivered)) /\ cur = Len(delivered) + 1
    BY <1>2, <1>12, <1>15 DEF InStep, InPlace
  <2>2. Len(delivered') - 1 = Len(delivered) /\ cur = Len(delivered')
    BY <1>7, <1>8, <2>1
  <2>3. InPlace(p)'
    BY <1>3, <1>4, <2>1, <2>2 DEF InPlace
  <2>4. WellFormed(sent[cur]) => WholeKept(p)
    BY <1>2, <1>12, <1>15 DEF InStep, BodyKept, MessageKept
  <2>5. WholeKept(p) => WholeKept(p)'
    BY <1>3, <1>4, <1>5 DEF WholeKept
  <2> QED
    BY <1>3, <1>4, <2>3, <2>4, <2>5 DEF BodyKept, MessageKept
<1>16. InStep(p)'
  BY <1>3, <1>5, <1>15 DEF InStep, Waits
<1>17. Placed(t, p)'
  BY <1>3, <1>12, <1>13, <1>14, <1>16 DEF Placed
<1> QED
  BY <1>10, <1>11, <1>17, PlaceFound

\* The message that was told is dropped, unless more is to be dropped than there is.
LEMMA FinalReturnsKeeps ==
  ASSUME NEW t \in Traffic, NEW p \in 0..Len(t.bytes), IInv, Carried, Ordered, Placed(t, p),
         FinalReturns
  PROVE  DInv'
<1>1. TypeOK /\ NothingPending /\ ContentInside /\ pc = "DONE"
  BY DEF IInv, Bounds, BufferBounds, FinalReturns
<1>2. Whole /\ Live /\ ~InBody /\ ~InChunks /\ ~Untold /\ cur # 0 /\ delivered # <<>>
      /\ (~Streaming => content_begin = HdrLen)
  <2>1. state \in {"FINAL", "CLOSED"}
    BY <1>1 DEF IInv, Bounds, BufferBounds, CallMatchesState
  <2> QED
    BY <1>1, <2>1 DEF Whole, Live, InBody, InLength, InChunks, Untold, Complete, Carried
<1>3. /\ state' \in {"RESPONSE_HEADER", "REQUEST_HEADER"}
      /\ IF size <= Len(data)
         THEN Consume(size) /\ pc' = "idle"
         ELSE pc' = "corrupt" /\ UNCHANGED <<data, data_base>>
      /\ sound' = (sound /\ fields = <<>> /\ WellFormed(sent[cur])
                   /\ (Streaming \/ sent[cur].kind # "chunked"))
      /\ UNCHANGED <<flags, size, fields, inflight, sent, cur, delivered, fits, fresh>>
  BY DEF FinalReturns, messageVars
<1>4. t.sent = sent /\ Rest(t, p, Edge) /\ HeadRead(t, p) /\ InStep(p)
  BY <1>2 DEF Placed, Unread
<1>5. CASE ~(size <= Len(data))
  <2>1. ~Live'
    BY <1>3, <1>5 DEF Live, Untold, InHeader, InBody, InLength, InChunks, Complete
  <2> QED
    BY <1>3, <1>4, <2>1, NotLive, PlaceFound
<1>6. CASE size <= Len(data)
  <2>1. pc' = "idle" /\ Consume(size)
    BY <1>3, <1>6
  <2>2. /\ InHeader' /\ ~InBody' /\ ~InLength' /\ ~InChunks' /\ ~Whole' /\ ~Untold' /\ Live' /\ ~HeadKept'
        /\ Edge' = 0
    BY <1>3, <2>1
       DEF InHeader, InBody, InLength, InChunks, Whole, Complete, Untold, Live, HeadKept, Edge
  <2>3. Streaming' = Streaming /\ fits' = fits
        /\ (Synced' => sound' /\ SizeIsOwn /\ Synced)
    <3>1. Streaming' = Streaming /\ fits' = fits /\ SizeIsOwn' = SizeIsOwn
      BY <1>3 DEF Streaming, SizeIsOwn
    <3>2. delivered' # <<>> /\ pc' # "DONE" /\ (sound' => sound)
      BY <1>2, <1>3, <2>1
    <3> QED
      BY <3>1, <3>2 DEF Synced
  <2>4. /\ size \in Nat /\ content_end \in Nat /\ Len(data) \in Nat /\ Len(inflight) \in Nat
        /\ p \in Nat /\ Len(t.bytes) \in Nat /\ HdrLen \in Nat /\ HdrLen >= 1
    BY <1>1, TrafficAssumption, HdrLenAssumption DEF TypeOK
  <2>5. PICK q : Moves(p, size, q)
    BY <2>4 DEF Moves
  <2>6. q = p + size
    BY <2>5 DEF Moves
  <2>7. /\ Len(data') = Len(data) - size
        /\ q + Len(data') + Len(inflight') = Len(t.bytes)
        /\ \A i \in 1..Len(data') : size + i > Edge => data'[i] = t.bytes[q + i]
        /\ \A i \in 1..Len(inflight') : inflight'[i] = t.bytes[q + Len(data') + i]
    <3>1. inflight' = inflight
      BY <1>3
    <3> QED
      BY <1>1, <1>4, <1>6, <2>1, <2>5, <3>1, ConsumePlace
  <2>8. q \in 0..Len(t.bytes)
    <3>1. Len(data') = Len(data) - size /\ q + Len(data') + Len(inflight') = Len(t.bytes)
      BY <2>7
    <3>2. inflight' = inflight
      BY <1>3
    <3> QED
      BY <1>6, <2>4, <2>6, <3>1, <3>2
  <2>9. Edge \in Nat /\ Edge <= size
    <3>1. ~Streaming => content_end <= size
      BY <1>1 DEF ContentInside
    <3> QED
      BY <1>2, <2>4, <3>1 DEF Edge
  <2>10. Unread(t, q)'
    <3>1. \A i \in 1..Len(data') : data'[i] = t.bytes[q + i]
      <4> TAKE i \in 1..Len(data')
      <4>1. size + i > Edge
        BY <2>4, <2>9
      <4> QED
        BY <2>7, <4>1
    <3> QED
      BY <2>2, <2>7, <3>1 DEF Unread, Rest
  <2>11. HeadRead(t, q)'
    <3>1. SUFFICES ASSUME fits
                   PROVE  \E h \in 1..Len(t.bytes) : h <= q /\ t.bytes[h] = Byte("head", cur, 1)
      <4>1. q + 0 = q
        BY <2>8
      <4>2. ~HeadKept' /\ fits' = fits /\ cur' = cur
        BY <1>3, <2>2, <2>3
      <4> QED
        BY <4>1, <4>2 DEF HeadRead
    <3>2. PICK h \in 1..Len(t.bytes) :
                 h <= p + (IF HeadKept THEN 1 ELSE 0) /\ t.bytes[h] = Byte("head", cur, 1)
      BY <1>2, <1>4, <3>1 DEF HeadRead
    <3>3. h <= q
      <4>1. CASE Streaming
        <5>1. ~HeadKept
          BY <1>1, <4>1 DEF HeadKept
        <5> QED
          BY <2>4, <2>6, <3>2, <5>1
      <4>2. CASE ~Streaming
        <5>1. content_begin <= content_end /\ content_end <= size /\ content_begin = HdrLen
          BY <1>1, <1>2, <3>1, <4>2 DEF ContentInside
        <5>2. size >= 1
          BY <2>4, <5>1
        <5>3. h <= p + 1
          BY <2>4, <3>2
        <5> QED
          BY <2>4, <2>6, <5>2, <5>3
      <4> QED
        BY <4>1, <4>2
    <3> QED
      BY <3>2, <3>3
  <2>12. Carried'
    BY <2>1, <2>2 DEF Carried
  <2>13. Ordered'
    BY <1>3, <2>2, <2>3 DEF Ordered
  <2>14. ASSUME sound', SizeIsOwn, Synced
         PROVE  InPlace(q)'
    <3>1. /\ sound /\ fields = <<>> /\ WellFormed(sent[cur])
          /\ (Streaming \/ sent[cur].kind # "chunked")
      BY <1>3, <2>14
    <3>2. /\ Good(sent, Len(delivered) - 1) /\ cur = Len(delivered) /\ WholeKept(p)
      BY <1>1, <1>2, <1>4, <2>14, <3>1 DEF InStep, InPlace, BodyKept, MessageKept
    <3>3. Good(sent, Len(delivered))
      <4>1. cur \in Nat
        BY <1>1, NumbersOfMessages
      <4> QED
        BY <3>1, <3>2, <4>1 DEF Good
    <3>4. /\ sent \in Seq(Framings) /\ cur \in 1..Len(sent) /\ sent[cur].body \in Nat
          /\ cur - 1 \in 0..Len(sent) /\ cur \in 0..Len(sent)
      <4>1. sent \in Seq(Framings) /\ cur \in 1..Len(sent) /\ sent[cur].body \in Nat
        BY <1>1, <1>2, CurrentMessage
      <4> QED
        BY <4>1
    <3>5. Offset(sent, cur) \in Nat /\ Offset(sent, cur - 1) \in Nat
      BY <3>4, EncodeStep
    <3>6. q = Offset(sent, cur)
      <4>1. CASE Streaming
        <5>1. size = 0
          <6>1. fresh
            BY <2>14, <4>1 DEF SizeIsOwn
          <6> QED
            BY <1>1, <4>1, <6>1 DEF NothingPending
        <5>2. p = Offset(sent, cur)
          BY <3>2, <4>1 DEF WholeKept
        <5> QED
          BY <2>4, <2>6, <5>1, <5>2
      <4>2. CASE ~Streaming
        <5>1. sent[cur].kind = "length"
          BY <3>1, <4>2 DEF WellFormed
        <5>2. p = Offset(sent, cur - 1) /\ size = HdrLen + sent[cur].body
          BY <3>2, <4>2, <5>1 DEF WholeKept
        <5>3. Offset(sent, cur) = Offset(sent, cur - 1) + HdrLen + sent[cur].body
          <6>1. /\ t.bytes \in Seq(Bytes) /\ Carries(t.bytes, sent) /\ Good(sent, cur)
                /\ sent[cur].kind # "chunked"
            BY <1>4, <3>2, <3>3, <5>1, TrafficAssumption, EncodedTrafficAssumption
          <6> QED
            BY <3>4, <6>1, CountedOnWire
        <5> DEFINE b == sent[cur].body
                   at == Offset(sent, cur - 1)
                   next == Offset(sent, cur)
        <5>4. /\ b \in Nat /\ at \in Nat /\ next \in Nat /\ next = at + HdrLen + b
              /\ p = at /\ size = HdrLen + b
          BY <3>4, <3>5, <5>2, <5>3
        <5> HIDE DEF b, at, next
        <5>5. q = next
          BY <2>4, <2>6, <5>4
        <5> QED
          BY <5>5 DEF next
      <4> QED
        BY <4>1, <4>2
    <3> QED
      BY <1>3, <2>1, <2>2, <3>1, <3>2, <3>3, <3>6 DEF InPlace
  <2>15. InStep(q)'
    <3>1. BodyKept(q)'
      BY <2>2 DEF BodyKept
    <3>2. Waits'
      BY <1>2, <1>3 DEF Waits
    <3> QED
      BY <2>3, <2>14, <3>1, <3>2 DEF InStep
  <2>16. Placed(t, q)'
    BY <1>3, <1>4, <2>10, <2>11, <2>15 DEF Placed
  <2> QED
    BY <2>8, <2>12, <2>13, <2>16, PlaceFound
<1> QED
  BY <1>5, <1>6

-------------------------------------------------------------------------------
(***************************************************************************)
(* The invariant                                                           *)
(***************************************************************************)
\* A parser that was never opened is nowhere.
LEMMA InitDInv == Init => DInv
<1> SUFFICES ASSUME Init PROVE DInv
  OBVIOUS
<1>1. /\ opens = 0 /\ pc = "idle" /\ state = "CLOSED" /\ inflight = <<>> /\ delivered = <<>>
  BY DEF Init
<1>2. Unopened
  BY <1>1 DEF Unopened
<1>3. ~InHeader /\ ~InBody /\ ~Whole /\ ~Untold
  BY <1>1 DEF InHeader, InBody, InLength, InChunks, Whole, Complete, Untold
<1>4. Carried /\ Ordered
  BY <1>1, <1>3 DEF Carried, Ordered
<1> QED
  BY <1>2, <1>4 DEF DInv

\* A step that changes nothing keeps the invariant.
LEMMA StutterKeeps ==
  ASSUME DInv, UNCHANGED vars
  PROVE  DInv'
<1>1. /\ UNCHANGED Settled /\ UNCHANGED fields /\ pc' = pc /\ state' = state /\ opens' = opens
  BY DEF vars, Settled, parserVars, messageVars, streamVars, controlVars, historyVars
<1>2. /\ InHeader' = InHeader /\ InLength' = InLength /\ InChunks' = InChunks
      /\ Complete' = Complete
  BY <1>1 DEF InHeader, InLength, InChunks, Complete
<1>3. CASE Unopened
  <2>1. ~InHeader' /\ ~InBody' /\ ~Whole' /\ ~Untold'
    BY <1>1, <1>3 DEF Unopened, InHeader, InBody, InLength, InChunks, Whole, Complete, Untold
  <2>2. Carried'
    BY <1>1, <1>3, <2>1 DEF Carried, Unopened
  <2>3. Ordered'
    BY <1>1, <2>1 DEF Ordered, Settled, DInv
  <2>4. Unopened'
    BY <1>1, <1>3 DEF Unopened, Settled
  <2> QED
    BY <2>2, <2>3, <2>4 DEF DInv
<1>4. CASE ~Unopened
  <2>1. PICK t \in Traffic : \E p \in 0..Len(t.bytes) : Placed(t, p)
    BY <1>4 DEF DInv
  <2>2. PICK p \in 0..Len(t.bytes) : Placed(t, p)
    BY <2>1
  <2>3. Synced => Waits'
    <3>1. Synced => Waits
      BY <2>2 DEF Placed, InStep
    <3>2. Waits => Waits'
      BY <1>1, <1>2 DEF Waits, Settled
    <3> QED
      BY <3>1, <3>2
  <2>4. Carried' /\ Ordered' /\ Placed(t, p)'
    BY <1>1, <1>2, <2>2, <2>3, PlaceStays DEF DInv
  <2> QED
    BY <2>4, PlaceFound
<1> QED
  BY <1>3, <1>4

\* Every step keeps the invariant: the cases are the actions.
LEMMA NextDInv == IInv /\ DInv /\ [Next]_vars => DInv'
<1> SUFFICES ASSUME IInv, DInv, [Next]_vars PROVE DInv'
  OBVIOUS
<1>1. CASE Owner \/ ErrorReturns \/ Ignore
  BY <1>1, OwnerKeeps
<1>2. CASE Stream
  BY <1>2, StreamKeeps DEF Stream
<1>3. CASE UNCHANGED vars
  BY <1>3, StutterKeeps
<1>4. CASE \/ RequestHeader \/ ResponseHeader \/ HeaderReturns \/ Body \/ BodyChunkReturns
           \/ ChunkedBody \/ ChunkReturns \/ Final \/ FinalReturns
  <2>1. ~Unopened
    BY <1>4 DEF Unopened, RequestHeader, ResponseHeader, HeaderReturns, Body, BodyChunkReturns,
                ChunkedBody, ChunkReturns, Final, FinalReturns
  <2>2. PICK t \in Traffic : \E p \in 0..Len(t.bytes) : Placed(t, p)
    BY <2>1 DEF DInv
  <2>3. PICK p \in 0..Len(t.bytes) : Placed(t, p)
    BY <2>2
  <2>4. Carried /\ Ordered
    BY DEF DInv
  <2>5. CASE RequestHeader \/ ResponseHeader
    <3>1. /\ pc = "run" /\ state \in {"REQUEST_HEADER", "RESPONSE_HEADER"} /\ flags' = flags
          /\ HeaderFails \/ HeaderFound
      BY <2>5, HeaderHandlers
    <3> QED
      BY <2>3, <2>4, <3>1, HeaderFailsKeeps, HeaderFoundKeeps
  <2>6. CASE HeaderReturns
    BY <2>3, <2>4, <2>6, HeaderReturnsKeeps
  <2>7. CASE Body
    BY <2>3, <2>4, <2>7, BodyKeeps
  <2>8. CASE BodyChunkReturns
    BY <2>3, <2>4, <2>8, BodyChunkReturnsKeeps
  <2>9. CASE ChunkedBody
    BY <2>3, <2>4, <2>9, ChunkedBodyKeeps
  <2>10. CASE ChunkReturns
    BY <2>3, <2>4, <2>10, ChunkReturnsKeeps
  <2>11. CASE Final
    BY <2>3, <2>4, <2>11, FinalKeeps
  <2>12. CASE FinalReturns
    BY <2>3, <2>4, <2>12, FinalReturnsKeeps
  <2> QED
    BY <1>4, <2>5, <2>6, <2>7, <2>8, <2>9, <2>10, <2>11, <2>12
<1> QED
  BY <1>1, <1>2, <1>3, <1>4 DEF Next, Handler, Returns

\* The invariant holds of every behaviour.
LEMMA DeliveryInvariance == Spec => []DInv
<1>1. IInv /\ DInv /\ [Next]_vars => DInv'
  BY NextDInv
<1> QED
  BY <1>1, InitDInv, Invariance, PTL DEF Spec

-------------------------------------------------------------------------------
(***************************************************************************)
(* Nothing is waited for that is there, and nothing is lost                *)
(***************************************************************************)
\* A byte of the connection that is not in the input is still to be read.
LEMMA StillToCome ==
  ASSUME NEW t, NEW p \in Nat, NEW e, NEW k \in Nat, TypeOK, Rest(t, p, e),
         Len(data) < k, p + k <= Len(t.bytes), Len(t.bytes) \in Nat
  PROVE  \E i \in DOMAIN inflight : inflight[i] = t.bytes[p + k]
<1> DEFINE i == k - Len(data)
<1>1. Len(data) \in Nat /\ Len(inflight) \in Nat /\ DOMAIN inflight = 1..Len(inflight)
  BY DEF TypeOK
<1>2. p + Len(data) + Len(inflight) = Len(t.bytes)
  BY DEF Rest
<1>3. i \in 1..Len(inflight) /\ p + Len(data) + i = p + k
  BY <1>1, <1>2
<1> HIDE DEF i
<1>4. inflight[i] = t.bytes[p + k]
  BY <1>3 DEF Rest
<1> QED
  BY <1>1, <1>3, <1>4

\* The first header is waited for.
LEMMA HeaderToCome ==
  ASSUME IInv, DInv, InHeader, pc = "idle", Synced,
         delivered = <<>>, sent # <<>>, WellFormed(sent[1])
  PROVE  \E i \in DOMAIN inflight : inflight[i].m = 1
<1>1. TypeOK /\ ~Unopened
  BY DEF IInv, Unopened, InHeader
<1>2. PICK t \in Traffic : \E p \in 0..Len(t.bytes) : Placed(t, p)
  BY <1>1 DEF DInv
<1>3. PICK p \in 0..Len(t.bytes) : Placed(t, p)
  BY <1>2
<1>4. t.sent = sent /\ Unread(t, p) /\ InPlace(p) /\ Waits
  BY <1>3 DEF Placed, InStep
<1>5. /\ t.bytes \in Seq(Bytes) /\ sent \in Seq(Framings) /\ Carries(t.bytes, sent)
      /\ Len(t.bytes) \in Nat /\ p \in Nat /\ HdrLen \in Nat /\ HdrLen >= 1
  BY <1>4, TrafficAssumption, EncodedTrafficAssumption, HdrLenAssumption
<1>6. Offset(sent, 0) = 0 /\ p = 0
  <2>1. p = Offset(sent, 0)
    BY <1>4 DEF InPlace
  <2> QED
    BY <1>5, <2>1, EncodeStep
<1>7. 0 + HdrLen <= Len(t.bytes) /\ \A i \in 1..HdrLen : t.bytes[0 + i] = Byte("head", 0 + 1, i)
  <2>1. 0 \in 0..Len(sent) /\ Good(sent, 0) /\ 0 < Len(sent)
    BY <1>5 DEF Good
  <2> QED
    BY <1>5, <1>6, <2>1, HeaderOnWire
<1>8. Len(data) < HdrLen
  BY <1>4 DEF Waits
<1>9. Rest(t, p, Edge)
  BY <1>4 DEF Unread, Live
<1>10. PICK i \in DOMAIN inflight : inflight[i] = t.bytes[p + HdrLen]
  <2>1. p + HdrLen <= Len(t.bytes)
    BY <1>5, <1>6, <1>7
  <2> QED
    BY <1>1, <1>5, <1>8, <1>9, <2>1, StillToCome
<1>11. t.bytes[p + HdrLen] = Byte("head", 1, HdrLen)
  <2>1. HdrLen \in 1..HdrLen
    BY <1>5
  <2>2. t.bytes[0 + HdrLen] = Byte("head", 0 + 1, HdrLen)
    BY <1>7, <2>1
  <2> QED
    BY <1>5, <1>6, <2>2
<1> QED
  BY <1>10, <1>11 DEF Byte

\* The last byte of a counted body is waited for; of its header if there is no body.
LEMMA LengthToCome ==
  ASSUME NEW t \in Traffic, NEW p \in 0..Len(t.bytes), IInv, Carried, Placed(t, p),
         pc = "idle", state = "BODY", Synced, WellFormed(sent[cur])
  PROVE  \E i \in DOMAIN inflight : inflight[i].m = cur
<1> DEFINE b == sent[cur].body
           at == Offset(sent, cur - 1)
<1>1. TypeOK /\ InLength /\ Untold /\ InBody
  BY DEF IInv, InLength, InBody, Untold
<1>2. /\ p \in Nat /\ Len(t.bytes) \in Nat /\ Len(data) \in Nat
      /\ t.bytes \in Seq(Bytes) /\ Carries(t.bytes, sent) /\ Rest(t, p, Edge)
      /\ sent \in Seq(Framings) /\ cur \in 1..Len(sent)
      /\ Good(sent, cur - 1) /\ Good(sent, cur) /\ MessageKept(p)
  BY <1>1, InMessage
<1>3. LengthKept(p) /\ sent[cur].kind # "chunked"
  BY <1>1, <1>2 DEF MessageKept, LengthKept
<1>4. /\ b \in Nat /\ at \in Nat /\ at + HdrLen + b <= Len(t.bytes)
      /\ \A i \in 1..b : t.bytes[at + HdrLen + i] = Byte("data", cur, i)
  BY <1>2, <1>3, CountedOnWire, BodyOnWire
<1>5. HdrLen \in Nat /\ HdrLen >= 1 /\ t.bytes[at + HdrLen] = Byte("head", cur, HdrLen)
  <2>1. HdrLen \in 1..HdrLen /\ HdrLen \in Nat /\ HdrLen >= 1
    BY HdrLenAssumption
  <2>2. cur - 1 \in 0..Len(sent) /\ cur - 1 < Len(sent) /\ (cur - 1) + 1 = cur
    BY <1>2
  <2>3. \A i \in 1..HdrLen : t.bytes[at + i] = Byte("head", (cur - 1) + 1, i)
    BY <1>2, <2>2, HeaderOnWire
  <2> QED
    BY <2>1, <2>2, <2>3
<1>6. \E k \in Nat : /\ Len(data) < k /\ p + k = at + HdrLen + b
                     /\ (b = 0 \/ b \in 1..b)
  <2>1. CASE Streaming
    <3>1. data = <<>> /\ size > 0 /\ p = at + HdrLen + Got /\ size + Got = b /\ Got \in Nat
      BY <1>3, <2>1 DEF LengthKept, LengthStreams
    <3>2. size \in Nat
      BY <1>1 DEF TypeOK
    <3> HIDE DEF at, b
    <3>3. p + size = at + HdrLen + b
      BY <1>4, <1>5, <3>1, <3>2
    <3>4. Len(data) < size
      BY <3>1, <3>2
    <3> QED
      BY <1>4, <3>2, <3>3, <3>4
  <2>2. CASE ~Streaming
    <3>1. p = at /\ size = HdrLen + b /\ Len(data) < size
      BY <1>3, <2>2 DEF LengthKept, LengthWaits
    <3> HIDE DEF at, b
    <3>2. p + size = at + HdrLen + b /\ size \in Nat
      BY <1>4, <1>5, <3>1
    <3> QED
      BY <1>4, <3>1, <3>2
  <2> QED
    BY <2>1, <2>2
<1>7. PICK k \in Nat : Len(data) < k /\ p + k = at + HdrLen + b
  BY <1>6
<1>8. PICK i \in DOMAIN inflight : inflight[i] = t.bytes[p + k]
  <2>1. p + k <= Len(t.bytes)
    BY <1>4, <1>7
  <2> QED
    BY <1>1, <1>2, <1>7, <2>1, StillToCome
<1>9. t.bytes[p + k].m = cur
  <2>1. CASE b = 0
    <3>1. p + k = at + HdrLen
      <4> HIDE DEF at, b
      <4> QED
        BY <1>4, <1>5, <1>7, <2>1
    <3> QED
      BY <1>5, <3>1 DEF Byte
  <2>2. CASE b # 0
    <3>1. b \in 1..b
      BY <1>4, <2>2
    <3>2. t.bytes[at + HdrLen + b] = Byte("data", cur, b)
      BY <1>4, <3>1
    <3> QED
      BY <1>7, <3>2 DEF Byte
  <2> QED
    BY <2>1, <2>2
<1> QED
  BY <1>8, <1>9

\* The line end behind a chunk is waited for.
LEMMA ChunkToCome ==
  ASSUME NEW t \in Traffic, NEW p \in 0..Len(t.bytes), IInv, Carried, Placed(t, p),
         pc = "idle", state = "CHUNKED_BODY", Synced, WellFormed(sent[cur])
  PROVE  \E i \in DOMAIN inflight : inflight[i].m = cur
<1>1. TypeOK /\ InChunks /\ Untold /\ InBody
  BY DEF IInv, InChunks, InBody, Untold
<1>2. /\ p \in Nat /\ Len(t.bytes) \in Nat /\ Len(data) \in Nat
      /\ t.bytes \in Seq(Bytes) /\ Carries(t.bytes, sent) /\ Rest(t, p, Edge)
      /\ sent \in Seq(Framings) /\ cur \in 1..Len(sent) /\ Good(sent, cur) /\ MessageKept(p)
  BY <1>1, InMessage
<1>3. sent[cur].kind = "chunked" /\ \E j \in 0..Len(sent[cur].chunks) : ChunkKept(p, j)
  BY <1>1, <1>2 DEF MessageKept, ChunksKept
<1>4. PICK j \in 0..Len(sent[cur].chunks) : ChunkKept(p, j)
  BY <1>3
<1> DEFINE chunks == sent[cur].chunks
           n == ChunkSize(chunks, j)
           at == Offset(sent, cur - 1) + HdrLen + ChunkOffset(chunks, j)
<1>5. p + chunk_begin = at
  BY <1>3, <1>4, ChunkNext
<1>6. Len(data) < chunk_begin + n + 5
  BY <1>4 DEF ChunkKept
<1>7. /\ chunks \in Seq(Nat \ {0}) /\ at + n + 5 <= Offset(sent, cur)
      /\ IsChunk([i \in 1..n + 5 |-> t.bytes[at + i]], cur, SizeBefore(chunks)[j], n)
  BY <1>2, <1>3, ChunkOnWire
<1>8. Offset(sent, cur) \in Nat /\ Offset(sent, cur) <= Len(t.bytes)
  BY <1>2, BodyOnWire
<1>9. n \in Nat /\ chunk_begin \in Nat
  BY <1>1, <1>7, ChunkNumbers DEF TypeOK
<1>10. t.bytes[at + (n + 5)] = Byte("lf", cur, 0)
  <2>1. n + 5 \in 1..n + 5
    BY <1>9
  <2>2. [i \in 1..n + 5 |-> t.bytes[at + i]][n + 5] = Byte("lf", cur, 0)
    BY <1>7 DEF IsChunk
  <2> HIDE DEF at, n
  <2> QED
    BY <2>1, <2>2
<1> HIDE DEF n, at
<1>11. /\ chunk_begin + n + 5 \in Nat /\ p + (chunk_begin + n + 5) = at + (n + 5)
       /\ p + (chunk_begin + n + 5) <= Len(t.bytes)
  <2>1. at + n + 5 <= Offset(sent, cur) /\ at = p + chunk_begin
    BY <1>5, <1>7
  <2> QED
    BY <1>2, <1>8, <1>9, <2>1
<1>12. PICK i \in DOMAIN inflight : inflight[i] = t.bytes[p + (chunk_begin + n + 5)]
  BY <1>1, <1>2, <1>6, <1>11, StillToCome
<1> QED
  BY <1>10, <1>11, <1>12 DEF Byte

\* The parser waits only for what is still to come of the message it is with: a
\* consequence of the invariant, which knows where the last byte of it is.
THEOREM WaitsOnlyIfNeeded == Spec => []NoNeedlessWait
<1>1. IInv /\ DInv => NoNeedlessWait
  <2> SUFFICES ASSUME IInv, DInv, pc = "idle", state # "CLOSED", Synced,
                      Awaited \in DOMAIN sent, WellFormed(sent[Awaited]), Awaited > Len(delivered)
               PROVE  \E i \in DOMAIN inflight : inflight[i].m = Awaited
    BY DEF NoNeedlessWait
  <2>1. TypeOK /\ CallMatchesState
    BY DEF IInv, Bounds, BufferBounds
  <2>2. state \in {"REQUEST_HEADER", "RESPONSE_HEADER", "BODY", "CHUNKED_BODY"}
    BY <2>1 DEF TypeOK, States, CallMatchesState
  <2>3. CASE state \in {"REQUEST_HEADER", "RESPONSE_HEADER"}
    <3>1. Awaited = 1 /\ InHeader
      BY <2>3 DEF Awaited, InHeader
    <3>2. delivered = <<>> /\ sent # <<>>
      <4>1. delivered \in Seq([m : Nat, content : Seq(Bytes)]) /\ sent \in Seq(Framings)
        BY <2>1 DEF TypeOK
      <4>2. Len(delivered) \in Nat /\ Len(delivered) < 1
        BY <3>1, <4>1
      <4>3. delivered = <<>>
        BY <4>1, <4>2
      <4> QED
        BY <3>1, <4>1, <4>3
    <3> QED
      BY <3>1, <3>2, HeaderToCome
  <2>4. CASE state \in {"BODY", "CHUNKED_BODY"}
    <3>1. Awaited = cur /\ ~Unopened /\ Carried
      BY <2>4 DEF Awaited, Unopened, DInv
    <3>2. PICK t \in Traffic : \E p \in 0..Len(t.bytes) : Placed(t, p)
      BY <3>1 DEF DInv
    <3>3. PICK p \in 0..Len(t.bytes) : Placed(t, p)
      BY <3>2
    <3> QED
      BY <2>4, <3>1, <3>3, LengthToCome, ChunkToCome
  <2> QED
    BY <2>2, <2>3, <2>4
<1> QED
  BY <1>1, Invariance, DeliveryInvariance, PTL

\* Between two messages nothing of the connection is lost: what the parser has dropped
\* is what it has told, and the rest is in its input or still to be read.
THEOREM PipelineSafe == Spec => []PipelineKept
<1>1. IInv /\ DInv => PipelineKept
  <2> SUFFICES ASSUME IInv, DInv, pc = "idle", state \in {"REQUEST_HEADER", "RESPONSE_HEADER"},
                      Synced, \A m \in DOMAIN sent : WellFormed(sent[m])
               PROVE  Encode(SubSeq(sent, 1, Len(delivered))) \o data \o inflight = Encode(sent)
    BY DEF PipelineKept
  <2>1. TypeOK /\ ~Unopened /\ InHeader
    BY DEF IInv, Unopened, InHeader
  <2>2. PICK t \in Traffic : \E p \in 0..Len(t.bytes) : Placed(t, p)
    BY <2>1 DEF DInv
  <2>3. PICK p \in 0..Len(t.bytes) : Placed(t, p)
    BY <2>2
  <2>4. t.sent = sent /\ Unread(t, p) /\ InPlace(p)
    BY <2>3 DEF Placed, InStep
  <2>5. /\ t.bytes \in Seq(Bytes) /\ sent \in Seq(Framings) /\ Carries(t.bytes, sent)
        /\ Len(sent) \in Nat /\ DOMAIN sent = 1..Len(sent)
    BY <2>4, TrafficAssumption, EncodedTrafficAssumption
  <2>6. Good(sent, cur) /\ p = Offset(sent, cur) /\ cur = Len(delivered) /\ cur \in 0..Len(sent)
    BY <2>1, <2>4, <2>5 DEF InPlace, TypeOK
  <2> DEFINE told == Encode(SubSeq(sent, 1, cur))
  <2>7. t.bytes = Encode(sent)
    <3>1. Good(sent, Len(sent)) /\ Len(sent) \in 0..Len(sent)
      BY <2>5 DEF Good
    <3> QED
      BY <2>5, <3>1, HeaderOnWire
  <2>8. /\ told \in Seq(Bytes) /\ Len(told) = p
        /\ \A i \in 1..Len(told) : t.bytes[i] = told[i]
    <3>1. told \in Seq(Bytes) /\ Len(told) = p
      BY <2>5, <2>6, EncodeStep DEF Offset
    <3>2. \A i \in 1..Offset(sent, cur) : t.bytes[i] = told[i]
      BY <2>5, <2>6, HeaderOnWire
    <3> QED
      BY <2>6, <3>1, <3>2
  <2>9. /\ data \in Seq(Bytes) /\ inflight \in Seq(Bytes)
        /\ Len(data) \in Nat /\ Len(inflight) \in Nat /\ p \in Nat
        /\ p + Len(data) + Len(inflight) = Len(t.bytes)
        /\ \A i \in 1..Len(data) : data[i] = t.bytes[p + i]
        /\ \A i \in 1..Len(inflight) : inflight[i] = t.bytes[p + Len(data) + i]
    <3>1. data \in Seq(Bytes) /\ inflight \in Seq(Bytes)
      BY <2>1, InputBytes
    <3>2. Rest(t, p, Edge)
      BY <2>1, <2>4 DEF Unread, Live
    <3> QED
      BY <2>1, <2>4, <3>1, <3>2, InputAtHeader DEF Rest
  <2> HIDE DEF told
  <2> DEFINE a == told \o data
             all == a \o inflight
  <2>10. /\ a \in Seq(Bytes) /\ Len(a) = p + Len(data)
         /\ \A i \in 1..Len(told) : a[i] = told[i]
         /\ \A i \in 1..Len(data) : a[Len(told) + i] = data[i]
    <3>1. told \in Seq(Bytes) /\ data \in Seq(Bytes) /\ Len(told) = p
      BY <2>8, <2>9
    <3>2. /\ a \in Seq(Bytes) /\ Len(a) = Len(told) + Len(data)
          /\ \A i \in 1..Len(told) : a[i] = told[i]
          /\ \A i \in 1..Len(data) : a[Len(told) + i] = data[i]
      BY <3>1
    <3> QED
      BY <3>1, <3>2
  <2> HIDE DEF a
  <2>11. /\ all \in Seq(Bytes) /\ Len(all) = Len(t.bytes)
         /\ \A i \in 1..Len(a) : all[i] = a[i]
         /\ \A i \in 1..Len(inflight) : all[Len(a) + i] = inflight[i]
    <3>1. a \in Seq(Bytes) /\ inflight \in Seq(Bytes)
      BY <2>9, <2>10
    <3>2. /\ all \in Seq(Bytes) /\ Len(all) = Len(a) + Len(inflight)
          /\ \A i \in 1..Len(a) : all[i] = a[i]
          /\ \A i \in 1..Len(inflight) : all[Len(a) + i] = inflight[i]
      BY <3>1, ConcatPlace
    <3>3. Len(a) + Len(inflight) = Len(t.bytes)
      BY <2>9, <2>10
    <3> QED
      BY <3>2, <3>3
  <2> HIDE DEF all
  <2>12. \A i \in 1..Len(t.bytes) : all[i] = t.bytes[i]
    <3> TAKE i \in 1..Len(t.bytes)
    <3>1. CASE i <= p
      <4>1. i \in 1..Len(told) /\ i \in 1..Len(a)
        BY <2>8, <2>9, <2>10, <3>1
      <4> QED
        BY <2>8, <2>10, <2>11, <4>1
    <3>2. CASE p < i /\ i <= p + Len(data)
      <4> DEFINE k == i - p
      <4>1. k \in 1..Len(data) /\ i \in 1..Len(a) /\ p + k = i
        BY <2>9, <2>10, <3>2
      <4> HIDE DEF k
      <4>2. all[i] = a[i] /\ a[Len(told) + k] = data[k] /\ data[k] = t.bytes[p + k]
        BY <2>9, <2>10, <2>11, <4>1
      <4> QED
        BY <2>8, <4>1, <4>2
    <3>3. CASE p + Len(data) < i
      <4> DEFINE k == i - (p + Len(data))
      <4>1. k \in 1..Len(inflight) /\ p + Len(data) + k = i
        BY <2>9, <3>3
      <4> HIDE DEF k
      <4>2. all[Len(a) + k] = inflight[k] /\ inflight[k] = t.bytes[p + Len(data) + k]
        BY <2>9, <2>11, <4>1
      <4>3. Len(a) = p + Len(data)
        BY <2>10
      <4> QED
        BY <4>1, <4>2, <4>3
    <3> QED
      BY <2>9, <3>1, <3>2, <3>3
  <2>13. all = t.bytes
    BY <2>5, <2>11, <2>12, SeqEqual
  <2> QED
    BY <2>6, <2>7, <2>13 DEF all, a, told
<1> QED
  BY <1>1, Invariance, DeliveryInvariance, PTL

-------------------------------------------------------------------------------
(***************************************************************************)
(* Refinement: what the owner sees is what MessageDelivery promises        *)
(***************************************************************************)
\* The instance of MessageDelivery defines anew what HttpWire defines.
LEMMA SameWire ==
  /\ \A f : Delivery!WellFormed(f) <=> WellFormed(f)
  /\ \A m, f : Delivery!Content(m, f) = DataBytes(m, 0, f.body)
  /\ \A s, t : Delivery!IsPrefix(s, t) <=> IsPrefix(s, t)
  /\ Delivery!Framings = Framings
<1>1. ASSUME NEW f
      PROVE  Delivery!WellFormed(f) <=> WellFormed(f)
  <2>1. Delivery!SizeBefore(f.chunks) = SizeBefore(f.chunks)
    BY DEF Delivery!SizeBefore, SizeBefore
  <2> QED
    BY <2>1 DEF Delivery!WellFormed, WellFormed
<1>2. ASSUME NEW m, NEW f
      PROVE  Delivery!Content(m, f) = DataBytes(m, 0, f.body)
  BY DEF Delivery!Content, Delivery!DataBytes, Delivery!Byte, DataBytes, Byte
<1>3. ASSUME NEW s, NEW t
      PROVE  Delivery!IsPrefix(s, t) <=> IsPrefix(s, t)
  BY DEF Delivery!IsPrefix, IsPrefix
<1>4. Delivery!Framings = Framings
  BY DEF Delivery!Framings, Delivery!FramingKinds, Framings, FramingKinds
<1> QED
  BY <1>1, <1>2, <1>3, <1>4

\* In step, what was streamed of a message is the beginning of its content.
Streamed ==
  Streaming /\ InBody /\ Synced /\ WellFormed(sent[cur]) =>
    \E k \in 0..sent[cur].body : content = DataBytes(cur, 0, k)

LEMMA StreamedContent == IInv /\ DInv => Streamed
<1> SUFFICES ASSUME IInv, DInv, Streaming, InBody, Synced, WellFormed(sent[cur])
             PROVE  \E k \in 0..sent[cur].body : content = DataBytes(cur, 0, k)
  BY DEF Streamed
<1>1. TypeOK /\ TakeInBuffer /\ ~Unopened /\ Untold /\ Carried /\ cur # 0
  BY DEF IInv, Bounds, BufferBounds, Unopened, Untold, InBody, InLength, InChunks, DInv, Carried
<1>2. PICK t \in Traffic : \E p \in 0..Len(t.bytes) : Placed(t, p)
  BY <1>1 DEF DInv
<1>3. PICK p \in 0..Len(t.bytes) : Placed(t, p)
  BY <1>2
<1>4. MessageKept(p)
  BY <1>1, <1>3, InMessage
<1> DEFINE b == sent[cur].body
           chunks == sent[cur].chunks
<1>5. b \in Nat /\ chunks \in Seq(Nat \ {0}) /\ Len(chunks) \in Nat
  BY <1>1, CurrentMessage
<1>6. CASE InLength
  <2>1. /\ content = DataBytes(cur, 0, Len(content)) /\ Got \in Nat /\ size + Got = b
        /\ Len(content) = Got + (IF pc = "BODY_CHUNK" THEN take ELSE 0)
        /\ Len(content) \in Nat /\ take \in Nat /\ size \in Nat
    <3>1. LengthStreams(p)
      BY <1>4, <1>6 DEF MessageKept, LengthKept
    <3>2. Len(content) \in Nat /\ take \in Nat /\ size \in Nat
      BY <1>1 DEF TypeOK
    <3>3. Len(content) = Got + (IF pc = "BODY_CHUNK" THEN take ELSE 0)
      BY <3>2 DEF Got
    <3> QED
      BY <3>1, <3>2, <3>3 DEF LengthStreams, Received
  <2>2. pc = "BODY_CHUNK" => take <= size
    <3>1. Len(data) \in Nat
      BY <1>1 DEF TypeOK
    <3> QED
      BY <1>1, <2>1, <3>1 DEF TakeInBuffer, Min2
  <2> HIDE DEF b
  <2>3. Len(content) \in 0..b
    BY <1>5, <2>1, <2>2
  <2> QED
    BY <2>1, <2>3 DEF b
<1>7. CASE InChunks
  <2>1. sent[cur].kind = "chunked" /\ ChunksKept(p)
    BY <1>4, <1>7 DEF MessageKept, ChunksKept
  <2>2. PICK j \in 0..Len(chunks) : ChunkKept(p, j)
    BY <2>1 DEF ChunksKept
  <2> DEFINE n == ChunkSize(chunks, j)
             before == SizeBefore(chunks)[j]
  <2>3. content = DataBytes(cur, 0, before) \/ content = DataBytes(cur, 0, before + n)
    BY <2>2 DEF ChunkKept, ChunkStreams, Received
  <2>4. before \in 0..b /\ before + n \in 0..b
    <3>1. b = SizeBefore(chunks)[Len(chunks)]
      BY <2>1 DEF WellFormed
    <3>2. before \in Nat /\ n \in Nat /\ before <= b
      BY <1>5, <3>1, ChunkNumbers, SizesGrow
    <3>3. before + n <= b
      <4>1. CASE j = Len(chunks)
        <5>1. n = 0
          BY <1>5, <4>1, ChunkNumbers
        <5> QED
          BY <3>2, <5>1
      <4>2. CASE j # Len(chunks)
        <5>1. j < Len(chunks) /\ j + 1 \in 0..Len(chunks)
          BY <1>5, <4>2
        <5>2. SizeBefore(chunks)[j + 1] = before + n
          BY <1>5, <5>1, ChunkNumbers
        <5>3. SizeBefore(chunks)[j + 1] <= b
          BY <1>5, <3>1, <5>1, SizesGrow
        <5> QED
          BY <5>2, <5>3
      <4> QED
        BY <4>1, <4>2
    <3> HIDE DEF b, n, before
    <3> QED
      BY <1>5, <3>2, <3>3
  <2> HIDE DEF n, before
  <2> QED
    BY <2>3, <2>4
<1> QED
  BY <1>6, <1>7 DEF InBody

\* A step that shows the owner nothing.
LEMMA ShowsNothing ==
  ASSUME UNCHANGED <<flags, sent, cur, content, delivered, sound, fits, fresh>>,
         (pc' = "DONE") <=> (pc = "DONE")
  PROVE  UNCHANGED Delivery!vars
BY SyncedStays DEF Delivery!vars

\* A connection begins.
LEMMA OpenConnects ==
  ASSUME NEW fl \in OpenFlags, NEW t \in Traffic, Open(fl, t)
  PROVE  Delivery!Connect
<1>1. t.sent \in Seq(Delivery!Framings)
  BY TrafficAssumption, SameWire
<1>2. Synced' = TRUE
  BY DEF Open, Synced
<1> QED
  BY <1>1, <1>2 DEF Open, Delivery!Connect

\* A header that is found begins the next message, or out of step a later one.
LEMMA HeaderBegins ==
  ASSUME IInv, DInv, pc = "run", state \in {"REQUEST_HEADER", "RESPONSE_HEADER"}, HeaderFound
  PROVE  Delivery!Begin
<1>1. TypeOK /\ InHeader /\ ~Unopened
  BY DEF IInv, InHeader, Unopened
<1>2. PICK t \in Traffic : \E p \in 0..Len(t.bytes) : Placed(t, p)
  BY <1>1 DEF DInv
<1>3. PICK p \in 0..Len(t.bytes) : Placed(t, p)
  BY <1>2
<1> DEFINE m == data[1].m
<1>4. /\ m \in 1..Len(sent)
      /\ sent[m].kind # "malformed"
      /\ (fits => cur < m)
  BY <1>1, <1>3, HeaderIsNext DEF HeaderFound
<1>5. Synced => m = Len(delivered) + 1
  <2>1. Synced => m = cur + 1
    BY <1>1, <1>3, HeaderIsNext DEF HeaderFound
  <2>2. Synced => cur = Len(delivered)
    BY <1>1, <1>3 DEF Placed, InStep, InPlace
  <2> QED
    BY <2>1, <2>2
<1>6. DOMAIN sent = 1..Len(sent)
  BY <1>1 DEF TypeOK
<1>7. /\ cur' = m /\ content' = <<>>
      /\ UNCHANGED <<flags, sent, delivered, sound, fresh>>
  BY DEF HeaderFound, AddFields
<1>8. Synced' = Synced
  <2>1. pc' \in {"HEADER", "run"}
    BY DEF HeaderFound, SelectBody
  <2> QED
    BY <1>7, <2>1, SyncedStays
<1> HIDE DEF m
<1>9. cur' \in DOMAIN sent /\ sent[cur'].kind # "malformed"
  BY <1>4, <1>6, <1>7
<1>10. (fits => cur < cur') /\ fits' \in {fits, FALSE}
  <2>1. fits' \in {fits, FALSE}
    BY <1>1, FitsStays DEF HeaderFound, TypeOK
  <2> QED
    BY <1>4, <1>7, <2>1
<1>11. Synced => cur' = Len(delivered) + 1
  BY <1>5, <1>7
<1>12. content' = <<>> /\ UNCHANGED <<sent, delivered>>
  BY <1>7
<1> QED
  BY <1>8, <1>9, <1>10, <1>11, <1>12 DEF Delivery!Begin

\* A part of the input that the owner is shown as content is more of it.
LEMMA ContentGrows ==
  ASSUME NEW i, NEW j, TypeOK, Streamed', cur # 0, i \in Nat, i >= 1, j \in Nat, j <= Len(data),
         content' = content \o SubSeq(data, i, j), Streaming, pc = "run", InBody',
         UNCHANGED <<flags, sent, cur, delivered, sound, fits, fresh>>
  PROVE  Delivery!Grow
<1>1. IsPrefix(content, content')
  <2>1. content \in Seq(Bytes) /\ SubSeq(data, i, j) \in Seq(Bytes)
    BY PartOfInput DEF TypeOK
  <2> QED
    BY <2>1, PrefixConcat
<1>3. Synced' = Synced
  <2>1. pc' # "DONE" /\ pc # "DONE"
    BY DEF InBody, InLength, InChunks
  <2> QED
    BY <2>1, SyncedStays
<1>2. ASSUME Synced, WellFormed(sent[cur])
      PROVE  IsPrefix(content', DataBytes(cur, 0, sent[cur].body))
  <2>1. Streaming' /\ Synced' /\ WellFormed(sent[cur])'
    BY <1>2, <1>3 DEF Streaming, WellFormed
  <2>2. PICK k \in 0..sent[cur].body : content' = DataBytes(cur, 0, k)
    BY <2>1 DEF Streamed
  <2>3. cur \in Nat /\ sent[cur].body \in Nat
    BY CurrentMessage, NumbersOfMessages
  <2> QED
    BY <2>2, <2>3, ContentPrefix
<1> QED
  BY <1>1, <1>2, <1>3, SameWire DEF Delivery!Grow

\* reactor_http_parser_body shows the owner what it dispatches.
LEMMA BodyShows ==
  ASSUME IInv, DInv, Streamed', Body
  PROVE  [Delivery!Next]_Delivery!vars
<1>1. TypeOK /\ cur # 0
  BY DEF IInv, DInv, Carried, Untold, InBody, InLength, Body
<1>2. CASE data # <<>> /\ Streaming
  <2> DEFINE i == 1
             k == Min2(size, Len(data))
  <2>1. /\ pc' = "BODY_CHUNK" /\ content' = content \o SubSeq(data, i, k)
        /\ pc = "run" /\ UNCHANGED <<flags, sent, cur, delivered, sound, fits, fresh>>
    BY <1>2 DEF Body
  <2>2. i \in Nat /\ i >= 1 /\ k \in Nat /\ k <= Len(data)
    BY <1>1 DEF TypeOK, Min2
  <2>3. InBody'
    BY <2>1 DEF InBody, InLength
  <2> HIDE DEF i, k
  <2> QED
    BY <1>1, <1>2, <2>1, <2>2, <2>3, ContentGrows DEF Delivery!Next
<1>3. CASE ~(data # <<>> /\ Streaming)
  BY <1>3, ShowsNothing DEF Body, BodyEnds
<1> QED
  BY <1>2, <1>3

\* reactor_http_parser_chunked_body shows the owner what it dispatches.
LEMMA ChunkedBodyShows ==
  ASSUME IInv, DInv, Streamed', ChunkedBody
  PROVE  [Delivery!Next]_Delivery!vars
<1>1. TypeOK /\ cur # 0
  BY DEF IInv, DInv, Carried, Untold, InBody, InChunks, ChunkedBody
<1>2. pc = "run" /\ pc' # "DONE" /\ UNCHANGED <<flags, sent, cur, delivered, sound, fits, fresh>>
  BY DEF ChunkedBody, TakeChunk
<1>3. CASE content' = content
  BY <1>2, <1>3, ShowsNothing
<1>4. CASE content' # content
  <2>1. PICK eol \in LineEnds(chunk_begin) : \E n \in ChunkSizes(data[chunk_begin + 1]) :
          ChunkFits(n, Len(data) - (eol + 1)) /\ n + 2 < SizeMod /\ TakeChunk(eol + 1, n)
    BY <1>4 DEF ChunkedBody
  <2>2. PICK n \in ChunkSizes(data[chunk_begin + 1]) :
          ChunkFits(n, Len(data) - (eol + 1)) /\ n + 2 < SizeMod /\ TakeChunk(eol + 1, n)
    BY <2>1
  <2>3. /\ eol \in Nat /\ n \in Nat
        /\ chunk_begin + 1 <= eol /\ eol + 1 <= Len(data)
    BY <1>1, ChunkLineType
  <2>4. Len(data) \in Nat /\ SizeMod \in Nat
    BY <1>1, SizeModAssumption DEF TypeOK
  <2>5. n + 2 <= Len(data) - (eol + 1)
    BY <2>2, <2>3, <2>4 DEF ChunkFits, Wrap
  <2> DEFINE i == eol + 1 + 1
             j == eol + 1 + n
  <2>6. Streaming /\ pc' = "CHUNK" /\ content' = content \o SubSeq(data, i, j)
    BY <1>4, <2>2 DEF TakeChunk
  <2>7. i \in Nat /\ i >= 1 /\ j \in Nat /\ j <= Len(data)
    BY <2>3, <2>4, <2>5
  <2>8. InBody'
    BY <2>6 DEF InBody, InChunks
  <2> HIDE DEF i, j
  <2> QED
    BY <1>1, <1>2, <2>6, <2>7, <2>8, ContentGrows DEF Delivery!Next
<1> QED
  BY <1>3, <1>4

\* The DONE event tells the message; in step, the next one, with the content that was sent.
LEMMA FinalTells ==
  ASSUME IInv, DInv, TypeOK', Final
  PROVE  Delivery!Tell
<1>1. TypeOK /\ Bounds /\ ~Unopened /\ Complete /\ Whole /\ Untold /\ Carried /\ Ordered /\ cur # 0
  BY DEF IInv, DInv, Carried, Unopened, Untold, Whole, Complete, Final
<1>2. PICK t \in Traffic : \E p \in 0..Len(t.bytes) : Placed(t, p)
  BY <1>1 DEF DInv
<1>3. PICK p \in 0..Len(t.bytes) : Placed(t, p)
  BY <1>2
<1>4. /\ content' = IF Streaming THEN content ELSE FinalContent
      /\ delivered' = Append(delivered, [m |-> cur, content |-> content'])
      /\ UNCHANGED <<flags, sent, cur, sound, fits, fresh>>
  BY DEF Final, parserVars
<1>5. Synced' = Synced
  BY <1>1, SyncedTold
<1>6. content \in Seq(Bytes) /\ content' \in Seq(Bytes)
  BY <1>1 DEF TypeOK
<1>7. IsPrefix(content, content')
  <2>1. Len(content) <= Len(content') /\ \A i \in 1..Len(content) : content'[i] = content[i]
    <3>1. CASE Streaming
      BY <1>4, <1>6, <3>1
    <3>2. CASE ~Streaming
      <4>1. content = <<>>
        BY <1>1, <3>2 DEF Carried
      <4> QED
        BY <1>6, <4>1
    <3> QED
      BY <3>1, <3>2
  <2> QED
    BY <1>6, <2>1, PrefixIf
<1>8. Synced => cur = Len(delivered) + 1
  BY <1>1, <1>3 DEF Placed, InStep, InPlace
<1>9. fits => \A i \in DOMAIN delivered : delivered[i].m < cur
  <2>1. DOMAIN delivered = 1..Len(delivered)
    BY <1>1 DEF TypeOK
  <2> QED
    BY <1>1, <2>1 DEF Ordered
<1>10. ASSUME Synced, WellFormed(sent[cur])
       PROVE  content' = DataBytes(cur, 0, sent[cur].body)
  <2> DEFINE b == sent[cur].body
  <2>1. WholeKept(p)
    BY <1>1, <1>3, <1>10, InMessage DEF MessageKept
  <2>2. cur \in Nat /\ b \in Nat
    BY <1>1, CurrentMessage, NumbersOfMessages
  <2>3. CASE Streaming
    BY <1>1, <1>4, <2>1, <2>3 DEF WholeKept, Received
  <2>4. CASE ~Streaming
    <3>1. content_begin = HdrLen /\ Decoded(b)
      BY <1>1, <2>1, <2>4 DEF Carried, WholeKept
    <3>2. content' = SubSeq(data, HdrLen + 1, HdrLen + b)
      BY <1>4, <2>4, <3>1 DEF FinalContent, Shown, Decoded
    <3>3. HdrLen + b <= Len(data)
      <4>1. content_end <= size /\ size <= Len(data)
        BY <1>1, <2>4 DEF Bounds, NoOverrun, SizeIsOwn, ContentInside, Complete
      <4>2. content_end \in Nat /\ size \in Nat /\ Len(data) \in Nat
        BY <1>1 DEF TypeOK
      <4> QED
        BY <3>1, <4>1, <4>2 DEF Decoded
    <3> HIDE DEF b
    <3>4. ContentAt(data, HdrLen, b, cur, 0)
      <4>1. data \in Seq(Bytes)
        BY <1>1, InputBytes
      <4>2. \A i \in 1..b : data[HdrLen + i] = Byte("data", cur, 0 + i)
        BY <3>1 DEF Decoded
      <4> QED
        BY <2>2, <3>3, <4>1, <4>2, HdrLenAssumption DEF ContentAt
    <3>5. DataBytes(cur, 0, 0) \o content' = DataBytes(cur, 0, 0 + b)
      BY <3>2, <3>4, DataBytesGrow
    <3>6. DataBytes(cur, 0, 0) = <<>>
      BY <2>2, ContentBytesAt
    <3>7. 0 + b = b
      BY <2>2
    <3>8. <<>> \o content' = content'
      BY <1>6
    <3> QED
      BY <3>5, <3>6, <3>7, <3>8 DEF b
  <2> QED
    BY <2>3, <2>4 DEF b
<1>11. Synced => /\ cur = Len(delivered) + 1
                 /\ Delivery!WellFormed(sent[cur]) =>
                      content' = Delivery!Content(cur, sent[cur])
  BY <1>8, <1>10, SameWire
<1>12. Delivery!IsPrefix(content, content')
  BY <1>7, SameWire
<1> QED
  BY <1>1, <1>4, <1>5, <1>9, <1>11, <1>12 DEF Delivery!Tell

\* Behind a message the parser may turn out to have lost its place.
LEMMA FinalReturnsShows ==
  ASSUME IInv, DInv, FinalReturns
  PROVE  [Delivery!Next]_Delivery!vars
<1>1. delivered # <<>>
  BY DEF DInv, Carried, FinalReturns
<1>2. UNCHANGED <<flags, sent, cur, content, delivered, fits, fresh>> /\ pc' # "DONE" /\ (sound' => sound)
  BY DEF FinalReturns
<1>3. Synced' => Synced
  BY <1>1, <1>2 DEF Synced, SizeIsOwn, Streaming
<1>4. CASE Synced' <=> Synced
  <2>1. Synced' = Synced
    BY <1>4 DEF Synced
  <2> QED
    BY <1>2, <2>1 DEF Delivery!vars
<1>5. CASE Synced /\ ~Synced'
  BY <1>1, <1>2, <1>5 DEF Delivery!Lose, Delivery!Next
<1> QED
  BY <1>3, <1>4, <1>5

\* The return from the HEADER event shows its owner nothing: the header is consumed, and
\* no length wraps without one in front of it.
LEMMA HeaderReturnsShows ==
  ASSUME TypeOK, HeaderReturns
  PROVE  UNCHANGED Delivery!vars
<1>1. /\ UNCHANGED <<flags, sent, cur, content, delivered, sound, fresh>>
      /\ pc = "HEADER" /\ pc' = "run" /\ SelectBody(0, fields)
  BY DEF HeaderReturns, SelectBody
<1>2. \A f \in FoundFramings(fields) : 0 + f.announced < SizeMod
  <2>1. \A f \in FoundFramings(fields) : f.announced \in 0..SizeMod-1
    BY FoundFramingsType DEF TypeOK
  <2> QED
    BY <2>1, SizeModAssumption
<1>3. fits' = fits
  BY <1>1, <1>2 DEF SelectBody, TypeOK
<1> QED
  BY <1>1, <1>3, ShowsNothing

\* Every other step of the parser shows its owner nothing.
LEMMA OthersShowNothing ==
  ASSUME \/ Close \/ ClearFields \/ Error \/ ErrorReturns \/ Ignore
         \/ BodyChunkReturns \/ ChunkReturns \/ Stream \/ UNCHANGED vars
         \/ HeaderFails /\ pc = "run" /\ flags' = flags
  PROVE  UNCHANGED Delivery!vars
<1>1. /\ UNCHANGED <<flags, sent, cur, content, delivered, sound, fits, fresh>>
      /\ (pc' = "DONE") <=> (pc = "DONE")
  BY DEF Close, ClearFields, Error, ErrorReturns, Ignore, BodyChunkReturns,
         ChunkReturns, Stream, Data, HeaderFails, BodyEnds, vars, parserVars,
         controlVars, historyVars
<1> QED
  BY <1>1, ShowsNothing

\* Every step of the parser is one that MessageDelivery allows, or shows nothing.
LEMMA NextShows ==
  IInv /\ IInv' /\ DInv /\ Streamed' /\ [Next]_vars => [Delivery!Next]_Delivery!vars
<1> SUFFICES ASSUME IInv, IInv', DInv, Streamed', [Next]_vars
             PROVE  [Delivery!Next]_Delivery!vars
  OBVIOUS
<1>1. CASE RequestHeader \/ ResponseHeader
  <2>1. /\ pc = "run" /\ state \in {"REQUEST_HEADER", "RESPONSE_HEADER"} /\ flags' = flags
        /\ HeaderFails \/ HeaderFound
    BY <1>1, HeaderHandlers
  <2>2. CASE HeaderFails
    BY <2>1, <2>2, OthersShowNothing
  <2>3. CASE HeaderFound
    BY <2>1, <2>3, HeaderBegins DEF Delivery!Next
  <2> QED
    BY <2>1, <2>2, <2>3
<1>2. CASE Body
  BY <1>2, BodyShows
<1>3. CASE ChunkedBody
  BY <1>3, ChunkedBodyShows
<1>4. CASE Final
  BY <1>4, FinalTells DEF IInv, Delivery!Next
<1>5. CASE FinalReturns
  BY <1>5, FinalReturnsShows
<1>6. CASE \E fl \in OpenFlags, t \in Traffic : Open(fl, t)
  BY <1>6, OpenConnects DEF Delivery!Next
<1>7. CASE HeaderReturns
  BY <1>7, HeaderReturnsShows DEF IInv
<1>8. CASE \/ Close \/ ClearFields \/ Error \/ ErrorReturns \/ Ignore
           \/ BodyChunkReturns \/ ChunkReturns \/ Stream \/ UNCHANGED vars
  BY <1>8, OthersShowNothing
<1> QED
  BY <1>1, <1>2, <1>3, <1>4, <1>5, <1>6, <1>7, <1>8 DEF Next, Handler, Returns, Owner

\* The parser implements MessageDelivery: its owner is told the messages of the
\* connection in their order, each once and, in step, with the content that was sent.
THEOREM DeliveryKept == Spec => ImplementsDelivery
<1>1. Init => Delivery!Init
  BY DEF Init, Delivery!Init, Synced
<1> QED
  BY <1>1, NextShows, StreamedContent, Invariance, DeliveryInvariance, PTL
     DEF Spec, ImplementsDelivery, Delivery!Spec
===============================================================================
