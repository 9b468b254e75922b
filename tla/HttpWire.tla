------------------------------- MODULE HttpWire -------------------------------
(***************************************************************************)
(* What a peer puts on a connection, at the granularity the parser of      *)
(* src/src/reactor_http/reactor_http_parser.c tells apart.                 *)
(*                                                                         *)
(* A message is described by its framing: how its header announces the     *)
(* body and what body follows.  Its bytes are records: a header is HdrLen  *)
(* opaque bytes, content bytes are numbered, and the lines of the chunked  *)
(* coding are a byte standing for the digits of the chunk size, then CR    *)
(* and LF.  The m of a byte is the position of its message on the          *)
(* connection, so a byte says whose it is and the properties can tell when *)
(* the parser mistakes one for another.                                    *)
(***************************************************************************)
EXTENDS Integers, Sequences, SequencesExt

CONSTANTS
  HdrLen,   \* bytes of a complete header: at least one
  SizeMod   \* size_t arithmetic is modulo SizeMod

ASSUME HdrLenAssumption == HdrLen \in Nat \ {0}
ASSUME SizeModAssumption == SizeMod \in Nat /\ SizeMod > HdrLen

\* How a header announces its body: by Content-Length (or by nothing, which
\* announces 0), by Transfer-Encoding: chunked, or not at all because the
\* header is malformed and picohttpparser answers -1.
FramingKinds == {"length", "chunked", "malformed"}

\* announced is the number strtoul reads in Content-Length; body is the number
\* of content bytes the peer sends; chunks are the sizes of the chunks before
\* the terminating empty one.
Framings ==
  [kind : FramingKinds, announced : 0..SizeMod-1, body : Nat, chunks : Seq(Nat \ {0})]

ByteKinds == {"head", "data", "size", "cr", "lf"}

Bytes == [kind : ByteKinds, m : Nat, arg : Nat]

Byte(kind, m, arg) == [kind |-> kind, m |-> m, arg |-> arg]

HeaderBytes(m) == [i \in 1..HdrLen |-> Byte("head", m, i)]

DataBytes(m, from, n) == [i \in 1..n |-> Byte("data", m, from + i)]

CrLf(m) == <<Byte("cr", m, 0), Byte("lf", m, 0)>>

\* One chunk of n content bytes, of which the first has number from + 1.
ChunkBytes(m, from, n) ==
  <<Byte("size", m, n)>> \o CrLf(m) \o DataBytes(m, from, n) \o CrLf(m)

\* The sum of the first chunks, by their number.
SizeBefore(chunks) ==
  LET sum[k \in 0..Len(chunks)] == IF k = 0 THEN 0 ELSE sum[k-1] + chunks[k] IN sum

BodyBytes(m, f) ==
  IF f.kind = "chunked"
  THEN FlattenSeq([k \in 1..Len(f.chunks) |->
                     ChunkBytes(m, SizeBefore(f.chunks)[k-1], f.chunks[k])])
       \o ChunkBytes(m, 0, 0)
  ELSE DataBytes(m, 0, f.body)

\* All the bytes of a connection on which the messages sent follow each other.
Encode(sent) ==
  FlattenSeq([m \in 1..Len(sent) |-> HeaderBytes(m) \o BodyBytes(m, sent[m])])

\* The content of message m, which is what its receiver is to see of its body.
Content(m, f) == DataBytes(m, 0, f.body)

\* The peer sends what it announces, and the announcement leaves room for the
\* header in a size_t.
WellFormed(f) ==
  \/ f.kind = "length" /\ f.body = f.announced /\ HdrLen + f.announced < SizeMod
  \/ f.kind = "chunked" /\ f.body = SizeBefore(f.chunks)[Len(f.chunks)]

\* The bytes are those of the messages sent, one behind the other, up to the header of
\* the first that is not as announced; what its peer puts behind that may be anything,
\* but no header begins twice, and none before one of an earlier message.
Carries(bytes, sent) ==
  /\ \A n \in 0..Len(sent) : (\A m \in 1..n : WellFormed(sent[m])) =>
       IF n = Len(sent)
       THEN bytes = Encode(sent)
       ELSE IsPrefix(Encode(SubSeq(sent, 1, n)) \o HeaderBytes(n + 1), bytes)
  /\ \A i, j \in DOMAIN bytes :
       i < j /\ bytes[i].kind = "head" /\ bytes[j].kind = "head"
             /\ bytes[i].arg = 1 /\ bytes[j].arg = 1 => bytes[i].m < bytes[j].m
===============================================================================
