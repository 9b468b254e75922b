----------------------------- MODULE HttpExchange -----------------------------
(***************************************************************************)
(* The client over its parser: HttpClient with HttpParser in the place of  *)
(* the parser it assumes.                                                  *)
(*                                                                         *)
(* The client's own steps are those of HttpClient; what its parser does is *)
(* done by HttpParser, and the client goes on with the event the parser    *)
(* dispatches.  Each function of the parser that the client calls is one   *)
(* step of both.                                                           *)
(***************************************************************************)
EXTENDS Integers, Sequences, SequencesExt

CONSTANTS HdrLen, SizeMod, Traffic, OpenFlags, Bases, MaxOpens  \* see HttpParser

\* The client, but for its parser.
VARIABLES state, tcp_client, stream, stack, seen, uris, failed, opens, reentrant

\* client->parser, with the input of its stream.
VARIABLES
  parser_state, flags, base, size, content_begin, content_end, chunk_begin, fields, line,
  data, data_base, inflight, pc, take, last,
  sent, cur, content, delivered, sound, fits, fresh, connections

clientVars == <<state, tcp_client, stream, stack, seen, uris, failed, opens, reentrant>>
parserVars ==
  <<parser_state, flags, base, size, content_begin, content_end, chunk_begin, fields, line,
    data, data_base, inflight, pc, take, last,
    sent, cur, content, delivered, sound, fits, fresh, connections>>
vars == <<clientVars, parserVars>>

\* What HttpClient keeps of its parser.
Parser == INSTANCE HttpParser WITH state <- parser_state, opens <- connections

Client ==
  INSTANCE HttpClient
    WITH parser <- IF parser_state = "CHUNKED_BODY" THEN "BODY" ELSE parser_state,
         streaming <- "STREAM" \in flags

\* What the two assume of the constants; and the client's parser is opened by
\* reactor_http_parser_open_response, which sets RESPONSE.
ASSUME ExchangeAssumption ==
  /\ HdrLen \in Nat \ {0} /\ SizeMod \in Nat /\ SizeMod > HdrLen
  /\ Traffic \subseteq [sent : Seq(Parser!Framings), bytes : Seq(Parser!Bytes)]
  /\ \A t \in Traffic : /\ Len(t.bytes) + 2 < SizeMod
                        /\ \A i \in 1..Len(t.bytes) : t.bytes[i].m \in 1..Len(t.sent)
                        /\ Parser!Carries(t.bytes, t.sent)
  /\ OpenFlags \subseteq {{"RESPONSE"}, {"RESPONSE", "STREAM"}}
  /\ Bases \subseteq Nat /\ MaxOpens \in Nat

At(frame) == Client!At(frame)

Init ==
  /\ Parser!Init
  /\ state = "CLOSED" /\ tcp_client = "CLOSED" /\ stream = "CLOSED" /\ stack = <<>>
  /\ seen = <<"CLOSE">> /\ uris = 0 /\ failed = 0 /\ opens = 0 /\ reentrant = FALSE

-------------------------------------------------------------------------------
\* reactor_http_client_open: its connection is one the peer may answer on as it likes.
Open(fl, t) ==
  /\ Parser!Open(fl, t)
  /\ Client!OpenSucceeds("STREAM" \in fl) \/ Client!OpenFails("STREAM" \in fl)

\* An open that fails in front of the parser's.
OpenFailsEarly ==
  /\ UNCHANGED parserVars
  /\ Client!OpenFails("STREAM" \in flags)

\* A DATA event of the client's stream.
StreamData(k, b) == Parser!Data(k, b) /\ Client!StreamData

\* The call of reactor_http_parser_close in reactor_http_client_close.
CloseParser ==
  /\ Parser!Close \/ (parser_state = "CLOSED" /\ UNCHANGED parserVars)
  /\ Client!CloseParser

\* The client's steps that leave its parser alone: those of the calls in progress, of
\* its user, and of the network.
Handling ==
  /\ UNCHANGED parserVars
  /\ \/ Client!CloseEnter \/ Client!CloseStream \/ Client!Finish
     \/ (Client!HandlerEnds /\ pc # "ERROR")

UserReturns == UNCHANGED parserVars /\ Client!UserReturns

UserCloses == UNCHANGED parserVars /\ Client!UserCloses

Network ==
  /\ UNCHANGED parserVars
  /\ Client!TcpError \/ Client!StreamConnect \/ Client!StreamError \/ Client!StreamEnd

Closed == UNCHANGED parserVars /\ Client!Closed

\* Mutant: the client stays open behind its response.
HandledOpen ==
  [HEADER     |-> <<"user", "after_header">>,
   CHUNK      |-> <<"user", "after_chunk">>,
   BODY_CHUNK |-> <<"user", "after_chunk">>,
   DONE       |-> <<"user", "after_done">>,
   ERROR      |-> <<"user", "close">>]

\* reactor_http_client_parser_event: what is left to do of it, by event.
Handled ==
  [HEADER     |-> <<"user", "after_header">>,
   CHUNK      |-> <<"user", "after_chunk">>,
   BODY_CHUNK |-> <<"user", "after_chunk">>,
   DONE       |-> <<"user", "close", "after_done">>,
   ERROR      |-> <<"user", "close">>]

\* And what it reports.
Reported ==
  [HEADER |-> "HEADER", CHUNK |-> "CHUNK", BODY_CHUNK |-> "CHUNK",
   DONE |-> "RESPONSE", ERROR |-> "ERROR"]

\* reactor_http_parser_data does a step: it goes on, returns, or dispatches an event.
Parses ==
  /\ At("parse") /\ Parser!Handler
  /\ \/ pc' = "run" /\ UNCHANGED <<stack, seen>>
     \/ pc' \in {"idle", "corrupt"} /\ Client!Return /\ UNCHANGED seen
     \/ pc' \in DOMAIN Handled /\ Client!Continue(Handled[pc']) /\ Client!Report(Reported[pc'])
  /\ UNCHANGED <<state, tcp_client, stream, uris, failed, opens, reentrant>>

\* The parser goes on behind an event it has dispatched.
GoesOn ==
  /\ \/ At("after_header") /\ Parser!HeaderReturns
     \/ At("after_chunk") /\ (Parser!BodyChunkReturns \/ Parser!ChunkReturns)
     \/ At("after_done") /\ Parser!FinalReturns
     \/ At("in_stream") /\ pc = "ERROR" /\ Parser!ErrorReturns
  /\ Client!Continue(IF pc' = "run" THEN <<"parse">> ELSE <<>>)
  /\ UNCHANGED <<state, tcp_client, stream, seen, uris, failed, opens, reentrant>>

Next ==
  \/ Handling \/ UserReturns \/ UserCloses \/ Network \/ Closed
  \/ CloseParser \/ OpenFailsEarly \/ Parses \/ GoesOn
  \/ \E fl \in OpenFlags, t \in Traffic : Open(fl, t)
  \/ \E k \in 1..Len(inflight), b \in Bases : StreamData(k, b)

Spec == Init /\ [][Next]_vars

\* A call in progress goes on, the user's callbacks return, and the event loop
\* completes the closes it has begun.  What HttpClient assumes of its parser is not
\* assumed here.
FairSpec ==
  /\ Spec
  /\ WF_vars(Handling \/ CloseParser \/ Parses \/ GoesOn) /\ WF_vars(UserReturns)
  /\ SF_vars(Closed)

-------------------------------------------------------------------------------
(***************************************************************************)
(* Properties                                                              *)
(***************************************************************************)
\* The parser's code is undefined from a stale size on.
Defined == pc # "corrupt"

\* HttpClient is right about its parser: the client over the real one does nothing
\* that it does not do over the one it assumes.
ImplementsClient == Client!Spec

\* HttpParser is right about its owner, too: the client calls none of its parser's
\* functions where the parser does not expect it.
ParserUsedAsAssumed ==
  Defined =>
    /\ Client!UserRuns /\ state = "CLOSED" => pc = "idle"
    /\ At("close_parser") => pc \in Parser!Callbacks \cup {"idle"}
    /\ stack = <<>> => pc = "idle"
    /\ Client!OnStack({"parse"}) <=> pc = "run"

\* A response is reported once per connection, and with the content the peer sent as
\* its first message on this connection, not one of another or of an earlier
\* connection, whatever the user does in its callbacks.
ResponseIsOwn ==
  /\ Len(delivered) <= 1
  /\ cur # 0 /\ Parser!WellFormed(sent[1]) =>
       cur = 1 /\ IsPrefix(content, Parser!Content(1, sent[1]))
  /\ At("user") /\ seen # <<>> /\ Last(seen) = "RESPONSE" =>
       /\ Len(delivered) = 1
       /\ Parser!WellFormed(sent[1]) =>
            delivered[1] = [m |-> 1, content |-> Parser!Content(1, sent[1])]

\* A response that has arrived is reported, unless the client is closed before.
ResponseReported ==
  /\ state = "CONNECTED" /\ pc = "run" /\ Parser!WellFormed(sent[1])
  /\ \A i \in DOMAIN inflight : inflight[i].m # 1
  ~> delivered # <<>> \/ state \in {"CLOSING", "CLOSED"}

\* A close of the client ends over the real parser, of which no fairness is assumed.
CloseCompletes == Client!CloseCompletes
================================================================================
