---------------------------- MODULE MessageDelivery ----------------------------
(***************************************************************************)
(* What the owner of a parser is promised: the messages of a connection,   *)
(* in the order of the connection, each told once; while receiver and peer *)
(* are in step (sync) none is left out, what is told is the content that   *)
(* was sent, and a streamed body only grows towards it.  Nothing is said   *)
(* of input, buffers or events.                                            *)
(***************************************************************************)
EXTENDS HttpWire

VARIABLES
  sent,     \* the messages the peer sends on the connection
  current,  \* the message being received; 0 before the first
  partial,  \* its content as far as the owner has it
  told,     \* the messages dispatched to the owner: records [m, content]
  sync,     \* every message so far was framed as its sender meant
  fits      \* and every length so far was a number the receiver can count to

vars == <<sent, current, partial, told, sync, fits>>

Init ==
  /\ sent = <<>> /\ current = 0 /\ partial = <<>> /\ told = <<>> /\ sync = TRUE /\ fits = TRUE

\* The parser is opened for a connection.
Connect ==
  /\ sent' \in Seq(Framings) /\ sync' = TRUE /\ fits' = TRUE
  /\ current' = 0 /\ partial' = <<>> /\ told' = <<>>

\* A header is accepted: the next one, or behind a loss a later one.  Behind a length
\* the receiver cannot count to it may be the same one again.
Begin ==
  /\ current' \in DOMAIN sent /\ sent[current'].kind # "malformed"
  /\ sync => current' = Len(told) + 1
  /\ fits => current < current'
  /\ partial' = <<>> /\ fits' \in {fits, FALSE}
  /\ UNCHANGED <<sent, told, sync>>

\* A part of a body is streamed.
Grow ==
  /\ current # 0 /\ IsPrefix(partial, partial')
  /\ sync /\ WellFormed(sent[current]) => IsPrefix(partial', Content(current, sent[current]))
  /\ UNCHANGED <<sent, current, told, sync, fits>>

\* The message is told, whole.
Tell ==
  /\ current # 0 /\ IsPrefix(partial, partial')
  /\ told' = Append(told, [m |-> current, content |-> partial'])
  /\ sync => /\ current = Len(told) + 1
             /\ WellFormed(sent[current]) => partial' = Content(current, sent[current])
  /\ fits => \A i \in DOMAIN told : told[i].m < current
  /\ UNCHANGED <<sent, current, sync, fits>>

\* Behind a message that was told the receiver may lose its place.
Lose ==
  /\ sync /\ sync' = FALSE /\ told # <<>>
  /\ UNCHANGED <<sent, current, partial, told, fits>>

Next == Connect \/ Begin \/ Grow \/ Tell \/ Lose

Spec == Init /\ [][Next]_vars
===============================================================================
