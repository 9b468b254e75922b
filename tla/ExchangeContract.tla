---------------------------- MODULE ExchangeContract ----------------------------
(***************************************************************************)
(* What a client promises its user, in terms of the events of              *)
(* reactor_http_client.h alone: after an open that succeeded come at most  *)
(* one HEADER with CHUNKs behind it, then at most one RESPONSE or ERROR,   *)
(* and then CLOSE, exactly once and last.                                  *)
(***************************************************************************)
EXTENDS Sequences

\* The events of the current exchange in the order the user saw them, the
\* CHUNKs of a body being one.
VARIABLE seen

Events == {"ERROR", "RESPONSE", "HEADER", "CHUNK", "CLOSE"}

Saw(e) == \E i \in DOMAIN seen : seen[i] = e

\* The history after the event e.
Record(e) == IF e = "CHUNK" /\ seen # <<>> /\ seen[Len(seen)] = e THEN seen ELSE Append(seen, e)

\* Before the first open there is no exchange, as after the last CLOSE.
Init == seen = <<"CLOSE">>

Open == Saw("CLOSE") /\ seen' = <<>>

Header == seen = <<>> /\ seen' = Record("HEADER")

Chunk == Saw("HEADER") /\ ~Saw("RESPONSE") /\ ~Saw("ERROR") /\ ~Saw("CLOSE") /\ seen' = Record("CHUNK")

Outcome(e) == ~Saw("RESPONSE") /\ ~Saw("ERROR") /\ ~Saw("CLOSE") /\ seen' = Record(e)

Close == ~Saw("CLOSE") /\ seen' = Record("CLOSE")

Next == Open \/ Header \/ Chunk \/ Outcome("RESPONSE") \/ Outcome("ERROR") \/ Close

Spec == Init /\ [][Next]_seen
===============================================================================
