---------------------------- MODULE MCHttpExchange ----------------------------
(***************************************************************************)
(* Connections for TLC: a response and what may follow it.                 *)
(***************************************************************************)
EXTENDS HttpExchange

Wire == INSTANCE HttpWire

Length(n) == [kind |-> "length", announced |-> n, body |-> n, chunks |-> <<>>]
Chunked(chunks) ==
  [kind |-> "chunked", announced |-> 0, body |-> Len(chunks), chunks |-> chunks]
Malformed == [kind |-> "malformed", announced |-> 0, body |-> 0, chunks |-> <<>>]

Connection(msgs) == [sent |-> msgs, bytes |-> Wire!Encode(msgs)]

\* A body longer than announced.
Longer == [kind |-> "length", announced |-> 1, body |-> 2, chunks |-> <<>>]

Answers ==
  {Connection(msgs) : msgs \in
     {<<Length(2), Length(0)>>, <<Chunked(<<1, 1>>)>>, <<Chunked(<<1>>), Length(1)>>,
      <<Longer>>, <<Malformed>>}}

ClientFlags == {{"RESPONSE"}, {"RESPONSE", "STREAM"}}
================================================================================
