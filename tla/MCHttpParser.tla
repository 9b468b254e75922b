----------------------------- MODULE MCHttpParser -----------------------------
(***************************************************************************)
(* Instances of HttpParser for TLC: connections of at most two messages,   *)
(* whose bytes arrive in every possible split.                             *)
(***************************************************************************)
EXTENDS HttpParser

Length(n) == [kind |-> "length", announced |-> n, body |-> n, chunks |-> <<>>]
Chunked(chunks) ==
  [kind |-> "chunked", announced |-> 0, body |-> SumFunction(chunks), chunks |-> chunks]
Malformed == [kind |-> "malformed", announced |-> 0, body |-> 1, chunks |-> <<>>]
\* A body longer than announced, and an announcement that wraps a size_t.
Longer == [kind |-> "length", announced |-> 1, body |-> 2, chunks |-> <<>>]
Huge == [kind |-> "length", announced |-> SizeMod - 1, body |-> 2, chunks |-> <<>>]

\* A chunk size to which 2 cannot be added in a size_t, with a body of one byte.
HugeChunk ==
  [sent  |-> <<[kind |-> "chunked", announced |-> 0, body |-> 1, chunks |-> <<SizeMod - 1>>]>>,
   bytes |-> HeaderBytes(1) \o <<Byte("size", 1, SizeMod - 1)>> \o CrLf(1) \o DataBytes(1, 0, 1)]

\* Trailer fields behind the last chunk, counted as a body longer than its chunks;
\* the code takes two of their bytes for the CR LF of that chunk.
Trailer ==
  [sent  |-> <<[kind |-> "chunked", announced |-> 0, body |-> 2, chunks |-> <<1>>], Length(0)>>,
   bytes |-> HeaderBytes(1) \o ChunkBytes(1, 0, 1) \o <<Byte("size", 1, 0)>> \o CrLf(1)
               \o DataBytes(1, 1, 1) \o CrLf(1) \o CrLf(1) \o HeaderBytes(2)]

Connection(msgs) == [sent |-> msgs, bytes |-> Encode(msgs)]

RequestTraffic ==
  {Connection(msgs) : msgs \in
     {<<Length(0), Length(2)>>, <<Length(2), Length(0)>>, <<Chunked(<<1, 2>>)>>,
      <<Length(1), Chunked(<<1>>)>>, <<Chunked(<<>>), Length(1)>>,
      <<Longer, Length(0)>>, <<Huge>>, <<Malformed>>}} \cup {HugeChunk, Trailer}

ResponseTraffic ==
  {Connection(msgs) : msgs \in
     {<<Length(2), Length(0)>>, <<Chunked(<<2, 1>>)>>, <<Chunked(<<1>>), Length(1)>>,
      <<Longer>>, <<Huge>>, <<Malformed>>}} \cup {HugeChunk, Trailer}

RequestFlags == {{}}
ResponseFlags == {{"RESPONSE"}, {"RESPONSE", "STREAM"}}
===============================================================================
