--------------------------- MODULE HttpServerProofs ---------------------------
(***************************************************************************)
(* The server closes once for each open and agrees with its objects, and   *)
(* no session is used behind its free: for every number of sessions and of *)
(* opens, and every nesting of calls.                                      *)
(*                                                                         *)
(* As in HttpClientProofs the argument is about the stack.  What is left   *)
(* to do for a session stands above the end of the handler of its stream,  *)
(* in which the stream does not report CLOSE; only a call of session_close *)
(* may be without one, and it is the innermost call.                       *)
(***************************************************************************)
EXTENDS HttpServer, SequenceTheorems, TLAPS

Timer == Frame("close_timer", 0)
Stream(s) == Frame("in_stream", s)

\* What is left of a close above the rest of another.
Closers == {"close", "finish"}

\* The frame i of stk is above the end of its session's handler.
Backed(stk, i) == \E j \in i..Len(stk) : stk[j] = Stream(stk[i].s)

\* The order of the frames: see above for those of a session; the parser runs
\* on top only; and the timer is closed next, but for what the CLOSE event of
\* the TCP server has to do before.
Shape ==
  \A i \in DOMAIN stack :
    /\ stack[i].s # 0 => (i = 1 /\ stack[i].at = "session_close") \/ Backed(stack, i)
    /\ stack[i].at = "parse" => i = 1
    /\ stack[i] = Timer => i = 1 \/ (i = 2 /\ stack[1].at \in Closers)

\* The server and its objects, with the calls of close that are in progress.
Agree ==
  /\ OnStack(Timer) => state = "CLOSING" /\ date_timer = "OPEN" /\ ~stray
  /\ stray => date_timer = "OPEN"
  /\ state = "LISTENING" => tcp_server = "OPEN" /\ date_timer = "OPEN" /\ ~stray
  /\ state = "CLOSED" => /\ tcp_server = "CLOSED" /\ date_timer # "CLOSING"
                         /\ date_timer = "OPEN" => stray
  /\ state = "CLOSING" =>
       /\ tcp_server # "OPEN"
       /\ date_timer = "OPEN" => stray \/ OnStack(Timer)
       /\ tcp_server = "CLOSED" /\ date_timer = "CLOSED" =>
            stack # <<>> /\ Head(stack).at \in Closers

\* A parser that runs belongs to a session whose stream is open.
Parses == stack # <<>> /\ Head(stack).at = "parse" => stream[Head(stack).s] = "OPEN"

\* Opens that succeeded are among the opens.
Counted == listened <= opens

IInv ==
  /\ TypeOK /\ Shape /\ Agree /\ OneCloseEach /\ Counted
  /\ SessionsInMemory /\ FieldsCleared /\ Parses
-------------------------------------------------------------------------------
(***************************************************************************)
(* The stack                                                               *)
(***************************************************************************)
\* What the frames todo must be for Shape to be preserved when they take the
\* place of the innermost frame.
Fits(todo) ==
  /\ \A i \in DOMAIN todo :
       /\ todo[i].s # 0 =>
            \/ i = 1 /\ todo[i].at = "session_close"
            \/ Backed(todo, i)
            \/ stack # <<>> /\ Head(stack).s = todo[i].s
               /\ Head(stack).at \notin {"session_close", "in_stream"}
       /\ todo[i].at = "parse" => i = 1
       /\ todo[i] = Timer => i = 1 \/ (i = 2 /\ todo[1].at \in Closers)
  /\ stack # <<>> /\ Head(stack).at \in Closers /\ OnStack(Timer) =>
       Len(todo) = 0 \/ (Len(todo) = 1 /\ todo[1].at \in Closers)

\* The stack after a call has gone on with todo, frame by frame.
LEMMA GoesOn ==
  ASSUME stack \in Seq(Frames), stack # <<>>, NEW todo \in Seq(Frames), Continue(todo)
  PROVE  /\ stack' \in Seq(Frames) /\ Len(stack) \in Nat /\ Len(stack) >= 1 /\ Len(todo) \in Nat
         /\ Head(stack) = stack[1] /\ stack[1] \in Frames
         /\ Len(stack') = Len(todo) + Len(stack) - 1
         /\ DOMAIN stack' = 1..Len(stack') /\ DOMAIN stack = 1..Len(stack) /\ DOMAIN todo = 1..Len(todo)
         /\ \A i \in 1..Len(todo) : stack'[i] = todo[i]
         /\ \A i \in 2..Len(stack) : stack'[i + Len(todo) - 1] = stack[i]
<1>1. /\ Tail(stack) \in Seq(Frames) /\ Len(Tail(stack)) = Len(stack) - 1
      /\ \A i \in 1..Len(Tail(stack)) : Tail(stack)[i] = stack[i + 1]
      /\ Head(stack) = stack[1] /\ Len(stack) \in Nat /\ Len(stack) >= 1
  <2>1. Len(stack) \in Nat /\ Len(stack) # 0
    BY EmptySeq
  <2> QED
    BY <2>1, HeadTailProperties
<1>2. stack' = todo \o Tail(stack)
  BY DEF Continue
<1>3. /\ stack' \in Seq(Frames) /\ Len(stack') = Len(todo) + Len(Tail(stack)) /\ Len(todo) \in Nat
      /\ \A i \in 1..Len(stack') :
           stack'[i] = IF i <= Len(todo) THEN todo[i] ELSE Tail(stack)[i - Len(todo)]
  BY <1>1, <1>2, ConcatProperties
<1>4. ASSUME NEW i \in 1..Len(todo)
      PROVE  stack'[i] = todo[i]
  BY <1>1, <1>3
<1>5. ASSUME NEW i \in 2..Len(stack)
      PROVE  stack'[i + Len(todo) - 1] = stack[i]
  <2>1. i + Len(todo) - 1 \in 1..Len(stack') /\ ~(i + Len(todo) - 1 <= Len(todo))
    BY <1>1, <1>3
  <2>2. i - 1 \in 1..Len(Tail(stack)) /\ (i + Len(todo) - 1) - Len(todo) = i - 1 /\ (i - 1) + 1 = i
    BY <1>1, <1>3
  <2> QED
    BY <1>1, <1>3, <2>1, <2>2
<1>6. stack[1] \in Frames
  BY <1>1, ElementOfSeq
<1> QED
  BY <1>1, <1>3, <1>4, <1>5, <1>6

\* The frames below the innermost one.
Below(frame) == \E i \in 2..Len(stack) : stack[i] = frame
In(todo, frame) == \E i \in 1..Len(todo) : todo[i] = frame

\* Frames that fit keep the order.
LEMMA ShapeKept ==
  ASSUME stack \in Seq(Frames), stack # <<>>, Shape,
         NEW todo \in Seq(Frames), Fits(todo), Continue(todo)
  PROVE  Shape'
<1> DEFINE n == Len(todo)
<1>1. /\ n \in Nat /\ Len(stack) \in Nat /\ Len(stack) >= 1 /\ Len(stack') = n + Len(stack) - 1
      /\ DOMAIN stack' = 1..Len(stack') /\ DOMAIN stack = 1..Len(stack) /\ DOMAIN todo = 1..n
      /\ \A i \in 1..n : stack'[i] = todo[i]
      /\ \A i \in 2..Len(stack) : stack'[i + n - 1] = stack[i]
      /\ Head(stack) = stack[1]
  BY GoesOn
<1>2. ASSUME NEW k \in 2..Len(stack), NEW s, Stream(s) = stack[k]
      PROVE  /\ k + n - 1 \in 1..Len(stack')
             /\ stack'[k + n - 1] = Stream(s)
  BY <1>1, <1>2
<1>3. ASSUME NEW i \in 1..n
      PROVE  /\ stack'[i].s # 0 => (i = 1 /\ stack'[i].at = "session_close") \/ Backed(stack, i)'
             /\ stack'[i].at = "parse" => i = 1
             /\ stack'[i] = Timer => i = 1 \/ (i = 2 /\ stack'[1].at \in Closers)
  <2>1. stack'[i] = todo[i] /\ (n >= 1 => stack'[1] = todo[1]) /\ i \in 1..Len(stack')
    BY <1>1
  <2>2. ASSUME Backed(todo, i)
        PROVE  Backed(stack, i)'
    <3>1. PICK j \in i..n : todo[j] = Stream(todo[i].s)
      BY <2>2 DEF Backed
    <3>2. j \in i..Len(stack') /\ stack'[j] = Stream(stack'[i].s)
      BY <1>1, <2>1, <3>1
    <3> QED
      BY <3>2 DEF Backed, Stream
  <2>3. ASSUME todo[i].s # 0, Head(stack).s = todo[i].s, Head(stack).at \notin {"session_close", "in_stream"}
        PROVE  Backed(stack, i)'
    <3>1. PICK j \in 1..Len(stack) : stack[j] = Stream(stack[1].s)
      BY <1>1, <2>3 DEF Shape, Backed
    <3>2. j # 1
      BY <1>1, <2>3, <3>1 DEF Stream, Frame
    <3>3. j + n - 1 \in i..Len(stack') /\ stack'[j + n - 1] = Stream(stack'[i].s)
      BY <1>1, <2>1, <2>3, <3>1, <3>2
    <3> QED
      BY <3>3 DEF Backed, Stream
  <2>4. stack'[i].s # 0 => (i = 1 /\ stack'[i].at = "session_close") \/ Backed(stack, i)'
    BY <1>1, <2>1, <2>2, <2>3 DEF Fits
  <2>5. stack'[i].at = "parse" => i = 1
    BY <1>1, <2>1 DEF Fits
  <2>6. stack'[i] = Timer => i = 1 \/ (i = 2 /\ stack'[1].at \in Closers)
    BY <1>1, <2>1 DEF Fits
  <2> QED
    BY <2>4, <2>5, <2>6
<1>4. ASSUME NEW i \in 2..Len(stack)
      PROVE  /\ stack'[i + n - 1].s # 0 => Backed(stack, i + n - 1)'
             /\ stack'[i + n - 1].at # "parse"
             /\ stack'[i + n - 1] = Timer =>
                  i + n - 1 = 1 \/ (i + n - 1 = 2 /\ stack'[1].at \in Closers)
  <2>1. stack'[i + n - 1] = stack[i] /\ i \in DOMAIN stack /\ i # 1
    BY <1>1
  <2>2. ASSUME stack[i].s # 0
        PROVE  Backed(stack, i + n - 1)'
    <3>1. PICK j \in i..Len(stack) : stack[j] = Stream(stack[i].s)
      BY <2>1, <2>2 DEF Shape, Backed
    <3>2. j + n - 1 \in i + n - 1..Len(stack') /\ stack'[j + n - 1] = Stream(stack'[i + n - 1].s)
      BY <1>1, <2>1, <3>1
    <3> QED
      BY <3>2 DEF Backed, Stream
  <2>3. stack[i].at # "parse"
    BY <2>1 DEF Shape
  <2>4. ASSUME stack[i] = Timer
        PROVE  i + n - 1 = 1 \/ (i + n - 1 = 2 /\ stack'[1].at \in Closers)
    <3>1. i = 2 /\ Head(stack).at \in Closers
      BY <1>1, <2>1, <2>4 DEF Shape
    <3>2. n = 0 \/ (n = 1 /\ todo[1].at \in Closers)
      BY <2>1, <2>4, <3>1 DEF Fits, OnStack
    <3> QED
      BY <1>1, <3>1, <3>2
  <2> QED
    BY <2>1, <2>2, <2>3, <2>4
<1>5. ASSUME NEW i \in DOMAIN stack', ~(i \in 1..n)
      PROVE  i - n + 1 \in 2..Len(stack) /\ (i - n + 1) + n - 1 = i
  BY <1>1, <1>5
<1>6. ASSUME NEW i \in DOMAIN stack'
      PROVE  /\ stack'[i].s # 0 => (i = 1 /\ stack'[i].at = "session_close") \/ Backed(stack, i)'
             /\ stack'[i].at = "parse" => i = 1
             /\ stack'[i] = Timer => i = 1 \/ (i = 2 /\ stack'[1].at \in Closers)
  <2>1. CASE i \in 1..n
    BY <1>3, <2>1
  <2>2. CASE ~(i \in 1..n)
    <3>1. PICK k \in 2..Len(stack) : k + n - 1 = i
      BY <1>5, <2>2
    <3> QED
      BY <1>4, <3>1
  <2> QED
    BY <2>1, <2>2
<1> QED
  BY <1>6 DEF Shape, Timer, Closers

\* What is on the stack behind a step, by frame.
LEMMA OnIt ==
  ASSUME stack \in Seq(Frames), stack # <<>>, NEW todo \in Seq(Frames), Continue(todo), NEW frame
  PROVE  /\ OnStack(frame)' <=> In(todo, frame) \/ Below(frame)
         /\ OnStack(frame) <=> Head(stack) = frame \/ Below(frame)
<1>1. /\ Len(todo) \in Nat /\ Len(stack) \in Nat /\ Len(stack) >= 1
      /\ Len(stack') = Len(todo) + Len(stack) - 1
      /\ DOMAIN stack' = 1..Len(stack') /\ DOMAIN stack = 1..Len(stack)
      /\ \A i \in 1..Len(todo) : stack'[i] = todo[i]
      /\ \A i \in 2..Len(stack) : stack'[i + Len(todo) - 1] = stack[i]
      /\ Head(stack) = stack[1]
  BY GoesOn
<1>2. ASSUME NEW i \in DOMAIN stack', stack'[i] = frame
      PROVE  In(todo, frame) \/ Below(frame)
  <2>1. CASE i \in 1..Len(todo)
    BY <1>1, <1>2, <2>1 DEF In
  <2>2. CASE ~(i \in 1..Len(todo))
    <3>1. i - Len(todo) + 1 \in 2..Len(stack) /\ (i - Len(todo) + 1) + Len(todo) - 1 = i
      BY <1>1, <2>2
    <3> QED
      BY <1>1, <1>2, <3>1 DEF Below
  <2> QED
    BY <2>1, <2>2
<1>3. ASSUME In(todo, frame)
      PROVE  \E i \in DOMAIN stack' : stack'[i] = frame
  <2>1. PICK i \in 1..Len(todo) : todo[i] = frame
    BY <1>3 DEF In
  <2>2. i \in DOMAIN stack'
    BY <1>1
  <2> QED
    BY <1>1, <2>1, <2>2
<1>4. ASSUME Below(frame)
      PROVE  \E i \in DOMAIN stack' : stack'[i] = frame
  <2>1. PICK i \in 2..Len(stack) : stack[i] = frame
    BY <1>4 DEF Below
  <2>2. i + Len(todo) - 1 \in DOMAIN stack'
    BY <1>1
  <2> QED
    BY <1>1, <2>1, <2>2
<1>5. OnStack(frame)' <=> In(todo, frame) \/ Below(frame)
  <2>1. OnStack(frame)' <=> \E i \in DOMAIN stack' : stack'[i] = frame
    BY DEF OnStack
  <2> QED
    BY <1>2, <1>3, <1>4, <2>1
<1>6. OnStack(frame) <=> Head(stack) = frame \/ Below(frame)
  <2>1. OnStack(frame) <=> \E i \in 1..Len(stack) : stack[i] = frame
    BY <1>1 DEF OnStack
  <2>2. \A i \in 1..Len(stack) : i = 1 \/ i \in 2..Len(stack)
    BY <1>1
  <2>3. 1 \in 1..Len(stack) /\ \A i \in 2..Len(stack) : i \in 1..Len(stack)
    BY <1>1
  <2> QED
    BY <1>1, <2>1, <2>2, <2>3 DEF Below
<1> QED
  BY <1>5, <1>6

\* What a step leaves of the stack: its innermost frame is head, and the timer is
\* still to be closed if that is among the new frames (timed) or was below.
Used == \A i \in DOMAIN stack : stack[i].s # 0 => memory[stack[i].s] = "allocated"
TimerBelow == OnStack(Timer) /\ ~(stack # <<>> /\ Head(stack) = Timer)

Went(head, timed) ==
  /\ stack' \in Seq(Frames) /\ Shape'
  /\ memory' = memory => Used'
  /\ OnStack(Timer)' <=> timed \/ TimerBelow
  /\ stack' # <<>> /\ Head(stack') = head

Returned ==
  /\ stack' \in Seq(Frames) /\ Shape'
  /\ memory' = memory => Used'
  /\ OnStack(Timer)' <=> TimerBelow
  /\ stack' = <<>> \/ Head(stack').at # "parse"

\* A step to todo from within a call or from the event loop.
Begins(todo) == IF stack = <<>> THEN stack' = todo ELSE Continue(todo)

\* The innermost frame behind a step that returns.
LEMMA ReturnsTo ==
  ASSUME stack \in Seq(Frames), stack # <<>>, Shape, Continue(<<>>)
  PROVE  stack' = <<>> \/ Head(stack').at # "parse"
<1>1. /\ stack' \in Seq(Frames) /\ Len(stack) \in Nat /\ Len(stack) >= 1
      /\ Len(<<>>) = 0 /\ Len(stack') = Len(<<>>) + Len(stack) - 1 /\ DOMAIN stack = 1..Len(stack)
      /\ \A i \in 2..Len(stack) : stack'[i + Len(<<>>) - 1] = stack[i]
  <2>1. <<>> \in Seq(Frames) /\ Len(<<>>) = 0
    OBVIOUS
  <2> QED
    BY <2>1, GoesOn
<1> SUFFICES ASSUME stack' # <<>>
             PROVE  Head(stack').at # "parse"
  OBVIOUS
<1>2. Len(stack') # 0 /\ Head(stack') = stack'[1]
  BY <1>1, EmptySeq, HeadTailProperties
<1>3. 2 \in 2..Len(stack) /\ 2 \in DOMAIN stack
  BY <1>1, <1>2
<1>4. stack'[2 + Len(<<>>) - 1] = stack[2]
  BY <1>1, <1>3
<1>5. 2 + Len(<<>>) - 1 = 1
  BY <1>1
<1>6. stack[2].at # "parse"
  BY <1>3 DEF Shape
<1> QED
  BY <1>2, <1>4, <1>5, <1>6

\* The timer frame is on the stack once.
LEMMA TimerOnce ==
  ASSUME stack \in Seq(Frames), stack # <<>>, Shape
  PROVE  Below(Timer) <=> TimerBelow
<1>1. Len(stack) \in Nat /\ Len(stack) >= 1 /\ DOMAIN stack = 1..Len(stack) /\ Head(stack) = stack[1]
  BY EmptySeq, HeadTailProperties
<1>2. ASSUME Below(Timer)
      PROVE  stack[1].at \in Closers /\ OnStack(Timer)
  <2>1. PICK i \in 2..Len(stack) : stack[i] = Timer
    BY <1>2 DEF Below
  <2>2. i \in DOMAIN stack /\ i # 1
    BY <1>1, <2>1
  <2> QED
    BY <2>1, <2>2 DEF Shape, OnStack
<1>3. ASSUME TimerBelow
      PROVE  Below(Timer)
  <2>1. PICK i \in 1..Len(stack) : stack[i] = Timer
    BY <1>1, <1>3 DEF TimerBelow, OnStack
  <2>2. i # 1
    BY <1>1, <1>3, <2>1 DEF TimerBelow
  <2>3. i \in 2..Len(stack)
    BY <1>1, <2>1, <2>2
  <2> QED
    BY <2>1, <2>3 DEF Below
<1> QED
  BY <1>1, <1>2, <1>3 DEF TimerBelow, Timer, Frame, Closers

\* A step to frames that fit, whose sessions are allocated.
LEMMA Steps ==
  ASSUME stack \in Seq(Frames), Shape, Used,
         NEW todo \in Seq(Frames), Fits(todo), Begins(todo),
         \A i \in 1..Len(todo) : todo[i].s # 0 => memory[todo[i].s] = "allocated"
  PROVE  /\ stack' \in Seq(Frames) /\ Shape'
         /\ memory' = memory => Used'
         /\ OnStack(Timer)' <=> In(todo, Timer) \/ TimerBelow
         /\ todo # <<>> => stack' # <<>> /\ Head(stack') = todo[1]
<1>1. CASE stack = <<>>
  <2>1. stack' = todo /\ DOMAIN todo = 1..Len(todo)
    BY <1>1 DEF Begins
  <2>2. Shape'
    <3>1. ASSUME NEW i \in DOMAIN todo
          PROVE  todo[i].s # 0 => (i = 1 /\ todo[i].at = "session_close") \/ Backed(todo, i)
      BY <1>1 DEF Fits
    <3>2. \A i \in DOMAIN todo : Backed(stack, i)' <=> Backed(todo, i)
      BY <2>1 DEF Backed, Stream
    <3>3. \A i \in DOMAIN todo :
            /\ todo[i].at = "parse" => i = 1
            /\ todo[i] = Timer => i = 1 \/ (i = 2 /\ todo[1].at \in Closers)
      BY DEF Fits
    <3> QED
      BY <2>1, <3>1, <3>2, <3>3 DEF Shape, Timer, Closers
  <2>3. OnStack(Timer)' <=> In(todo, Timer)
    BY <2>1 DEF OnStack, In, Timer
  <2>4. ~TimerBelow
    BY <1>1 DEF TimerBelow, OnStack
  <2>5. todo # <<>> => Head(todo) = todo[1]
    BY HeadTailProperties
  <2>6. memory' = memory => Used'
    BY <2>1 DEF Used
  <2> QED
    BY <2>1, <2>2, <2>3, <2>4, <2>5, <2>6
<1>2. CASE stack # <<>>
  <2>1. Continue(todo)
    BY <1>2 DEF Begins
  <2>2. stack' \in Seq(Frames) /\ Shape'
    BY <1>2, <2>1, GoesOn, ShapeKept
  <2>3. OnStack(Timer)' <=> In(todo, Timer) \/ TimerBelow
    BY <1>2, <2>1, OnIt, TimerOnce
  <2>4. /\ Len(todo) \in Nat /\ Len(stack) \in Nat /\ Len(stack) >= 1
        /\ Len(stack') = Len(todo) + Len(stack) - 1
        /\ DOMAIN stack' = 1..Len(stack') /\ DOMAIN stack = 1..Len(stack)
        /\ \A i \in 1..Len(todo) : stack'[i] = todo[i]
        /\ \A i \in 2..Len(stack) : stack'[i + Len(todo) - 1] = stack[i]
    BY <1>2, <2>1, GoesOn
  <2>5. ASSUME memory' = memory, NEW i \in DOMAIN stack', stack'[i].s # 0
        PROVE  memory[stack'[i].s] = "allocated"
    <3>1. CASE i \in 1..Len(todo)
      BY <2>4, <2>5, <3>1
    <3>2. CASE ~(i \in 1..Len(todo))
      <4>1. i - Len(todo) + 1 \in 2..Len(stack) /\ (i - Len(todo) + 1) + Len(todo) - 1 = i
        BY <2>4, <3>2
      <4>2. stack'[i] = stack[i - Len(todo) + 1] /\ i - Len(todo) + 1 \in DOMAIN stack
        BY <2>4, <4>1
      <4> QED
        BY <2>5, <4>2 DEF Used
    <3> QED
      BY <3>1, <3>2
  <2>6. memory' = memory => Used'
    BY <2>5 DEF Used
  <2>7. ASSUME todo # <<>>
        PROVE  stack' # <<>> /\ Head(stack') = todo[1]
    <3>1. Len(todo) # 0
      BY <2>7, EmptySeq
    <3>2. Len(stack') # 0 /\ 1 \in 1..Len(todo)
      BY <2>4, <3>1
    <3> QED
      BY <2>2, <2>4, <3>2, EmptySeq, HeadTailProperties
  <2> QED
    BY <2>2, <2>3, <2>6, <2>7
<1> QED
  BY <1>1, <1>2

\* Frames are pairs.
LEMMA FrameFacts ==
  ASSUME NEW a, NEW s
  PROVE  /\ Frame(a, s).at = a /\ Frame(a, s).s = s
         /\ \A b, t : Frame(a, s) = Frame(b, t) <=> a = b /\ s = t
<1>1. Frame(a, s).at = a /\ Frame(a, s).s = s
  BY DEF Frame
<1>2. ASSUME NEW b, NEW t, Frame(a, s) = Frame(b, t)
      PROVE  a = b /\ s = t
  <2>1. Frame(b, t).at = b /\ Frame(b, t).s = t
    BY DEF Frame
  <2> QED
    BY <1>1, <1>2, <2>1
<1> QED
  BY <1>1, <1>2

\* A step to one frame.
LEMMA GoesToOne ==
  ASSUME stack \in Seq(Frames), Shape, Used, NEW a \in Frames, Begins(<<a>>),
         a.s # 0 => /\ a.at = "session_close"
                    /\ memory[a.s] = "allocated",
         stack # <<>> /\ Head(stack).at \in Closers /\ OnStack(Timer) => a.at \in Closers
  PROVE  Went(a, a = Timer)
<1> DEFINE todo == <<a>>
<1>1. todo \in Seq(Frames) /\ Len(todo) = 1 /\ DOMAIN todo = {1} /\ todo[1] = a /\ todo # <<>>
  OBVIOUS
<1>2. 1..Len(todo) = {1}
  BY <1>1
<1>3. Fits(todo)
  BY <1>1 DEF Fits
<1>4. In(todo, Timer) <=> a = Timer
  BY <1>1, <1>2 DEF In
<1>5. \A i \in 1..Len(todo) : todo[i].s # 0 => memory[todo[i].s] = "allocated"
  BY <1>1, <1>2
<1> HIDE DEF todo
<1>6. Begins(todo)
  BY DEF todo
<1> QED
  BY <1>1, <1>3, <1>4, <1>5, <1>6, Steps DEF Went

\* A step to two frames, of which the second may work for the session of the
\* frame that goes on.
LEMMA GoesToTwo ==
  ASSUME stack \in Seq(Frames), Shape, Used, NEW a \in Frames, NEW b \in Frames, Begins(<<a, b>>),
         a.s = 0, b.at # "parse", b = Timer => a.at \in Closers,
         b.s # 0 => /\ stack # <<>> /\ Head(stack).s = b.s /\ memory[b.s] = "allocated"
                    /\ Head(stack).at \notin {"session_close", "in_stream"},
         ~(stack # <<>> /\ Head(stack).at \in Closers /\ OnStack(Timer))
  PROVE  Went(a, a = Timer \/ b = Timer)
<1> DEFINE todo == <<a, b>>
<1>1. /\ todo \in Seq(Frames) /\ Len(todo) = 2 /\ DOMAIN todo = {1, 2} /\ todo[1] = a /\ todo[2] = b
      /\ todo # <<>>
  OBVIOUS
<1>2. 1..Len(todo) = {1, 2}
  BY <1>1
<1>3. Fits(todo)
  BY <1>1 DEF Fits
<1>4. In(todo, Timer) <=> a = Timer \/ b = Timer
  BY <1>1, <1>2 DEF In
<1>5. \A i \in 1..Len(todo) : todo[i].s # 0 => memory[todo[i].s] = "allocated"
  BY <1>1, <1>2
<1> HIDE DEF todo
<1>6. Begins(todo)
  BY DEF todo
<1> QED
  BY <1>1, <1>3, <1>4, <1>5, <1>6, Steps DEF Went

\* The handler of an event of a session's stream begins: a and, if there is one,
\* b are what it does for the session.
LEMMA Handles ==
  ASSUME stack \in Seq(Frames), Shape, Used, NEW s \in Sessions, memory[s] = "allocated",
         NEW a \in Frames, NEW b \in Frames, a.s = s, b.s = s, b.at # "parse",
         Begins(<<a, b, Stream(s)>>) \/ Begins(<<a, Stream(s)>>),
         ~(stack # <<>> /\ Head(stack).at \in Closers)
  PROVE  Went(a, FALSE)
<1>1. /\ Stream(s) \in Frames /\ Stream(s).at = "in_stream" /\ Stream(s).s = s /\ s # 0
      /\ a # Timer /\ b # Timer /\ Stream(s) # Timer
  <2>1. s # 0
    BY MaxSessionsAssumption DEF Sessions
  <2> QED
    BY <2>1, FrameFacts DEF Stream, Timer, Frames, SessionFrames
<1>2. CASE Begins(<<a, b, Stream(s)>>)
  <2> DEFINE todo == <<a, b, Stream(s)>>
  <2>1. /\ todo \in Seq(Frames) /\ Len(todo) = 3 /\ DOMAIN todo = {1, 2, 3} /\ todo # <<>>
        /\ todo[1] = a /\ todo[2] = b /\ todo[3] = Stream(s)
    BY <1>1
  <2>2. 1..Len(todo) = {1, 2, 3} /\ 3 \in 1..Len(todo) /\ 3 \in 2..Len(todo) /\ 3 \in 3..Len(todo)
    BY <2>1
  <2>3. \A i \in DOMAIN todo : todo[i].s = s /\ Backed(todo, i)
    BY <1>1, <2>1, <2>2 DEF Backed
  <2>4. Fits(todo)
    BY <1>1, <2>1, <2>3 DEF Fits
  <2>5. ~In(todo, Timer)
    BY <1>1, <2>1, <2>2 DEF In
  <2>6. \A i \in 1..Len(todo) : todo[i].s # 0 => memory[todo[i].s] = "allocated"
    BY <2>1, <2>2, <2>3
  <2> HIDE DEF todo
  <2>7. Begins(todo)
    BY <1>2 DEF todo
  <2> QED
    BY <2>1, <2>4, <2>5, <2>6, <2>7, Steps DEF Went
<1>3. CASE Begins(<<a, Stream(s)>>)
  <2> DEFINE todo == <<a, Stream(s)>>
  <2>1. /\ todo \in Seq(Frames) /\ Len(todo) = 2 /\ DOMAIN todo = {1, 2} /\ todo # <<>>
        /\ todo[1] = a /\ todo[2] = Stream(s)
    BY <1>1
  <2>2. 1..Len(todo) = {1, 2} /\ 2 \in 1..Len(todo) /\ 2 \in 2..Len(todo)
    BY <2>1
  <2>3. \A i \in DOMAIN todo : todo[i].s = s /\ Backed(todo, i)
    BY <1>1, <2>1, <2>2 DEF Backed
  <2>4. Fits(todo)
    BY <1>1, <2>1, <2>3 DEF Fits
  <2>5. ~In(todo, Timer)
    BY <1>1, <2>1, <2>2 DEF In
  <2>6. \A i \in 1..Len(todo) : todo[i].s # 0 => memory[todo[i].s] = "allocated"
    BY <2>1, <2>2, <2>3
  <2> HIDE DEF todo
  <2>7. Begins(todo)
    BY <1>3 DEF todo
  <2> QED
    BY <2>1, <2>4, <2>5, <2>6, <2>7, Steps DEF Went
<1> QED
  BY <1>2, <1>3

\* A call returns.
LEMMA Returns ==
  ASSUME stack \in Seq(Frames), stack # <<>>, Shape, Used, Return
  PROVE  Returned
<1> DEFINE todo == <<>>
<1>1. todo \in Seq(Frames) /\ Len(todo) = 0 /\ DOMAIN todo = {} /\ 1..Len(todo) = {} /\ Continue(todo)
  BY DEF Return
<1>2. Fits(todo) /\ ~In(todo, Timer)
  BY <1>1 DEF Fits, In
<1>3. Begins(todo) /\ \A i \in 1..Len(todo) : todo[i].s # 0 => memory[todo[i].s] = "allocated"
  BY <1>1 DEF Begins
<1>4. stack' = <<>> \/ Head(stack').at # "parse"
  BY <1>1, ReturnsTo
<1> HIDE DEF todo
<1> QED
  BY <1>1, <1>2, <1>3, <1>4, Steps DEF Returned
-------------------------------------------------------------------------------
(***************************************************************************)
(* The invariant, action by action                                         *)
(***************************************************************************)
\* What the lemmas on the stack need of the invariant.
LEMMA StackFacts ==
  ASSUME IInv
  PROVE  /\ stack \in Seq(Frames) /\ Shape /\ Used
         /\ stack # <<>> => Head(stack) \in Frames
         /\ User \in Frames /\ User.at = "user" /\ User.s = 0 /\ User # Timer
         /\ Timer \in Frames /\ Timer.at = "close_timer" /\ Timer.s = 0
         /\ \A at \in ServerFrames : Frame(at, 0) \in Frames
         /\ \A at \in SessionFrames, s \in Sessions : Frame(at, s) \in Frames /\ s # 0
<1>1. stack \in Seq(Frames) /\ Shape /\ Used
  BY DEF IInv, TypeOK, SessionsInMemory, Used
<1>2. stack # <<>> => Head(stack) \in Frames
  BY <1>1, HeadTailProperties
<1>3. /\ User.at = "user" /\ User.s = 0 /\ Timer.at = "close_timer" /\ Timer.s = 0 /\ User # Timer
  BY FrameFacts DEF User, Timer
<1>4. \A at \in ServerFrames : Frame(at, 0) \in Frames
  BY DEF Frames
<1>5. User \in Frames /\ Timer \in Frames
  BY <1>4 DEF User, Timer, ServerFrames
<1>6. \A at \in SessionFrames, s \in Sessions : Frame(at, s) \in Frames /\ s # 0
  BY MaxSessionsAssumption DEF Frames, Sessions
<1> QED
  BY <1>1, <1>2, <1>3, <1>4, <1>5, <1>6

\* A step of which the server and its objects see nothing.
LEMMA AgreeStays ==
  ASSUME IInv, UNCHANGED <<state, tcp_server, date_timer, stray, listened, closes>>,
         OnStack(Timer)' <=> TimerBelow,
         stack = <<>> \/ Head(stack).at \notin Closers \cup {"close_timer"}
  PROVE  Agree' /\ OneCloseEach'
<1>1. OnStack(Timer)' <=> OnStack(Timer)
  BY StackFacts DEF TimerBelow
<1>2. ~(stack # <<>> /\ Head(stack).at \in Closers)
  BY DEF Closers
<1>3. Agree
  BY DEF IInv
<1>4. Agree'
  BY <1>1, <1>2, <1>3 DEF Agree
<1>5. OneCloseEach'
  BY DEF IInv, OneCloseEach
<1> QED
  BY <1>4, <1>5

\* A step that changes the stack only.
LEMMA Quiet ==
  ASSUME IInv, UNCHANGED <<serverVars, sessionVars, history>>,
         stack = <<>> \/ Head(stack).at \notin Closers \cup {"close_timer"},
         NEW head,
         Returned \/ (Went(head, FALSE) /\ (head.at = "parse" => stream[head.s] = "OPEN"))
  PROVE  IInv'
<1>1. /\ stack' \in Seq(Frames) /\ Shape' /\ (memory' = memory => Used') /\ (OnStack(Timer)' <=> TimerBelow)
      /\ stack' # <<>> /\ Head(stack').at = "parse" => stream[Head(stack').s] = "OPEN"
  BY DEF Returned, Went
<1>2. Agree' /\ OneCloseEach'
  BY <1>1, AgreeStays DEF serverVars, history
<1>3. /\ memory' = memory /\ stream' = stream /\ parser' = parser /\ fields' = fields
      /\ UNCHANGED <<state, tcp_server, date_timer, opens, listened, closes, stray>>
  BY DEF serverVars, sessionVars, history
<1>4. TypeOK' /\ Counted'
  BY <1>1, <1>3 DEF IInv, TypeOK, Counted
<1>5. SessionsInMemory'
  <2>1. Used'
    BY <1>1, <1>3
  <2>2. SessionsInMemory' <=> Used' /\ (\A s \in Sessions : (memory[s] = "allocated") <=> (stream[s] # "CLOSED"))
    BY <1>3 DEF SessionsInMemory, Used
  <2> QED
    BY <2>1, <2>2 DEF IInv, SessionsInMemory
<1>6. FieldsCleared'
  BY <1>3 DEF IInv, FieldsCleared
<1>7. Parses'
  BY <1>1, <1>3 DEF Parses
<1> QED
  BY <1>1, <1>2, <1>4, <1>5, <1>6, <1>7 DEF IInv

\* What the application does without the server or a session noticing at once.
LEMMA UserCallsIInv ==
  ASSUME IInv,
         \/ UserClosesServer \/ UserReturns
         \/ \E s \in Sessions : UserClosesSession(s) \/ UserResponds(s)
  PROVE  IInv'
<1>1. ASSUME NEW todo, UserCalls(todo)
      PROVE  Begins(todo) /\ (stack = <<>> \/ Head(stack) = User)
  BY <1>1 DEF UserCalls, Begins, At
<1>2. User.at \notin Closers \cup {"close_timer"}
  BY StackFacts DEF Closers
<1>3. CASE UserClosesServer
  <2> DEFINE a == Frame("close", 0)
  <2>1. /\ Begins(<<a>>) /\ (stack = <<>> \/ Head(stack) = User) /\ UNCHANGED <<serverVars, sessionVars, history>>
    BY <1>1, <1>3 DEF UserClosesServer
  <2>2. a \in Frames /\ a.s = 0 /\ a.at = "close" /\ a # Timer
    BY FrameFacts, StackFacts DEF ServerFrames
  <2>3. Went(a, FALSE)
    BY <1>2, <2>1, <2>2, StackFacts, GoesToOne
  <2> QED
    BY <1>2, <2>1, <2>2, <2>3, Quiet
<1>4. CASE UserReturns
  <2>1. stack # <<>> /\ Head(stack) = User /\ Return /\ UNCHANGED <<serverVars, sessionVars, history>>
    BY <1>4 DEF UserReturns, At
  <2> QED
    BY <1>2, <2>1, StackFacts, Returns, Quiet
<1>5. ASSUME NEW s \in Sessions, UserClosesSession(s)
      PROVE  IInv'
  <2> DEFINE a == Frame("session_close", s)
  <2>1. /\ Begins(<<a>>) /\ (stack = <<>> \/ Head(stack) = User) /\ UNCHANGED <<serverVars, sessionVars, history>>
        /\ memory[s] = "allocated"
    BY <1>1, <1>5 DEF UserClosesSession
  <2>2. a \in Frames /\ a.s = s /\ a.at = "session_close" /\ a # Timer
    BY FrameFacts, StackFacts DEF SessionFrames, Timer
  <2>3. Went(a, FALSE)
    BY <1>2, <2>1, <2>2, StackFacts, GoesToOne
  <2> QED
    BY <1>2, <2>1, <2>2, <2>3, Quiet
<1>6. ASSUME NEW s \in Sessions, UserResponds(s)
      PROVE  IInv'
  <2> DEFINE a == Frame("session_close", s)
             b == Frame("report_error", s)
  <2>1. /\ Begins(<<a, b, Stream(s)>>) /\ (stack = <<>> \/ Head(stack) = User)
        /\ memory[s] = "allocated" /\ UNCHANGED <<serverVars, sessionVars, history>>
    BY <1>1, <1>6 DEF UserResponds, Stream
  <2>2. /\ a \in Frames /\ a.s = s /\ a.at = "session_close"
        /\ b \in Frames /\ b.s = s /\ b.at # "parse"
    BY FrameFacts, StackFacts DEF SessionFrames
  <2>3. Went(a, FALSE)
    BY <1>2, <2>1, <2>2, StackFacts, Handles
  <2> QED
    BY <1>2, <2>1, <2>2, <2>3, Quiet
<1> QED
  BY <1>3, <1>4, <1>5, <1>6

\* Events whose handlers have yet to do something.
LEMMA EventsIInv ==
  ASSUME IInv,
         \/ TcpError \/ AcceptFailsAtMalloc
         \/ \E s \in Sessions : StreamData(s) \/ StreamError(s) \/ StreamEnd(s)
  PROVE  IInv'
<1>1. ASSUME NEW todo, Dispatch(todo)
      PROVE  Begins(todo) /\ stack = <<>>
  BY <1>1 DEF Dispatch, Begins
<1> DEFINE end == Frame("in_tcp", 0)
<1>2. end \in Frames /\ end.s = 0 /\ end.at = "in_tcp" /\ end # Timer
  BY FrameFacts, StackFacts DEF ServerFrames, Timer
<1>3. CASE TcpError \/ AcceptFailsAtMalloc
  <2>1. /\ stack = <<>> /\ UNCHANGED <<serverVars, sessionVars, history>>
        /\ Begins(<<User, end>>) \/ Begins(<<end>>)
    BY <1>1, <1>3 DEF TcpError, AcceptFailsAtMalloc
  <2>2. Went(User, FALSE) \/ Went(end, FALSE)
    BY <1>2, <2>1, StackFacts, GoesToOne, GoesToTwo
  <2> QED
    BY <1>2, <2>1, <2>2, StackFacts, Quiet
<1>4. ASSUME NEW s \in Sessions, stream[s] = "OPEN"
      PROVE  memory[s] = "allocated"
  BY <1>4 DEF IInv, SessionsInMemory
<1>5. ASSUME NEW s \in Sessions, StreamData(s)
      PROVE  IInv'
  <2> DEFINE a == Frame("parse", s)
  <2>1. /\ stack = <<>> /\ UNCHANGED <<serverVars, sessionVars, history>> /\ stream[s] = "OPEN"
        /\ Begins(<<a, Stream(s)>>)
    BY <1>1, <1>5 DEF StreamData, Stream
  <2>2. a \in Frames /\ a.s = s /\ a.at = "parse"
    BY FrameFacts, StackFacts DEF SessionFrames
  <2>3. Stream(s) \in Frames /\ Stream(s).s = s /\ Stream(s).at # "parse"
    BY FrameFacts, StackFacts DEF SessionFrames, Stream
  <2>4. Went(a, FALSE)
    BY <1>4, <2>1, <2>2, <2>3, StackFacts, Handles
  <2> QED
    BY <2>1, <2>2, <2>4, Quiet
<1>6. ASSUME NEW s \in Sessions, StreamError(s) \/ StreamEnd(s)
      PROVE  IInv'
  <2> DEFINE a == Frame("session_close", s)
             b == Frame("report_error", s)
  <2>1. /\ stack = <<>> /\ UNCHANGED <<serverVars, sessionVars, history>> /\ stream[s] = "OPEN"
        /\ Begins(<<a, b, Stream(s)>>) \/ Begins(<<a, Stream(s)>>)
    BY <1>1, <1>6 DEF StreamError, StreamEnd, Stream
  <2>2. /\ a \in Frames /\ a.s = s /\ a.at = "session_close"
        /\ b \in Frames /\ b.s = s /\ b.at # "parse"
    BY FrameFacts, StackFacts DEF SessionFrames
  <2>3. Went(a, FALSE)
    BY <1>4, <2>1, <2>2, StackFacts, Handles
  <2> QED
    BY <2>1, <2>2, <2>3, Quiet
<1> QED
  BY <1>3, <1>5, <1>6

\* The steps of a session's handlers that change the stack only.
LEMMA HandlersIInv ==
  ASSUME IInv,
         \/ HandlerEnds
         \/ \E s \in Sessions : ReportError(s) \/ ParseWaits(s) \/ ParseError(s) \/ ParseFinal(s)
  PROVE  IInv'
<1>1. CASE HandlerEnds
  <2>1. /\ stack # <<>> /\ Return /\ UNCHANGED <<serverVars, sessionVars, history>>
        /\ Head(stack).at \in {"in_tcp", "in_stream"}
    BY <1>1, FrameFacts DEF HandlerEnds, At
  <2>2. Head(stack).at \notin Closers \cup {"close_timer"}
    BY <2>1 DEF Closers
  <2> QED
    BY <2>1, <2>2, StackFacts, Returns, Quiet
<1>2. ASSUME NEW s \in Sessions, ReportError(s) \/ ParseWaits(s) \/ ParseError(s) \/ ParseFinal(s)
      PROVE  IInv'
  <2>1. /\ stack # <<>> /\ UNCHANGED <<serverVars, sessionVars, history>>
        /\ Head(stack).s = s /\ Head(stack).at \in {"report_error", "parse"}
    BY <1>2, FrameFacts DEF ReportError, ParseWaits, ParseError, ParseFinal, At
  <2>2. /\ Head(stack).at \notin Closers \cup {"close_timer"}
        /\ Head(stack).at \notin {"session_close", "in_stream"}
    BY <2>1 DEF Closers
  <2>3. memory[s] = "allocated"
    <3>1. 1 \in DOMAIN stack /\ stack[1] = Head(stack)
      BY <2>1, StackFacts, EmptySeq, HeadTailProperties
    <3>2. s # 0
      BY MaxSessionsAssumption DEF Sessions
    <3> QED
      BY <2>1, <3>1, <3>2, StackFacts DEF Used
  <2> DEFINE b == Frame("session_close", s)
             c == Frame("after_done", s)
  <2>4. b \in Frames /\ b.s = s /\ b.at = "session_close" /\ b # Timer
    BY FrameFacts, StackFacts DEF SessionFrames, Timer
  <2>5. c \in Frames /\ c.s = s /\ c.at = "after_done" /\ c # Timer
    BY FrameFacts, StackFacts DEF SessionFrames, Timer
  <2>6. CASE Return
    BY <2>1, <2>2, <2>6, StackFacts, Returns, Quiet
  <2>7. CASE Continue(<<User>>)
    <3>1. Begins(<<User>>)
      BY <2>1, <2>7 DEF Begins
    <3>2. Went(User, FALSE)
      BY <2>2, <3>1, StackFacts, GoesToOne
    <3> QED
      BY <2>1, <2>2, <3>2, StackFacts, Quiet
  <2>8. CASE Continue(<<User, b>>)
    <3>1. Begins(<<User, b>>)
      BY <2>1, <2>8 DEF Begins
    <3>2. Went(User, FALSE)
      BY <2>1, <2>2, <2>3, <2>4, <3>1, StackFacts, GoesToTwo
    <3> QED
      BY <2>1, <2>2, <3>2, StackFacts, Quiet
  <2>9. CASE Continue(<<User, c>>)
    <3>1. Begins(<<User, c>>)
      BY <2>1, <2>9 DEF Begins
    <3>2. Went(User, FALSE)
      BY <2>1, <2>2, <2>3, <2>5, <3>1, StackFacts, GoesToTwo
    <3> QED
      BY <2>1, <2>2, <3>2, StackFacts, Quiet
  <2>10. Return \/ Continue(<<User>>) \/ Continue(<<User, b>>) \/ Continue(<<User, c>>)
    BY <1>2 DEF ReportError, ParseWaits, ParseError, ParseFinal
  <2> QED
    BY <2>6, <2>7, <2>8, <2>9, <2>10
<1> QED
  BY <1>1, <1>2

\* Opening touches neither the stack nor a session.
LEMMA OpenIInv ==
  ASSUME IInv, OpenSucceeds \/ OpenFailsAtTimer \/ OpenFailsAtTcp
  PROVE  IInv'
<1>1. UNCHANGED <<stack, memory, stream, parser, fields>> /\ (stack = <<>> \/ Head(stack) = User)
  BY DEF OpenSucceeds, OpenFailsAtTimer, OpenFailsAtTcp, sessionVars, serverVars, UserRuns, At
<1>2. Shape' /\ SessionsInMemory' /\ FieldsCleared' /\ Parses' /\ (OnStack(Timer)' <=> OnStack(Timer))
  <2>1. Shape' <=> Shape
    BY <1>1 DEF Shape, Backed, Stream, Timer, Closers
  <2>2. SessionsInMemory' /\ FieldsCleared' /\ Parses' /\ (OnStack(Timer)' <=> OnStack(Timer))
    BY <1>1 DEF IInv, SessionsInMemory, FieldsCleared, Parses, OnStack, Timer
  <2> QED
    BY <2>1, <2>2 DEF IInv
<1>3. ~(stack # <<>> /\ Head(stack).at \in Closers)
  BY <1>1, StackFacts DEF Closers
<1>4. OneCloseEach /\ Agree /\ opens \in 0..MaxOpens /\ listened \in 0..MaxOpens /\ closes \in 0..MaxOpens
  BY DEF IInv, TypeOK
<1>5. CASE OpenSucceeds
  <2>1. state = "CLOSED" /\ ~stray /\ ~OnStack(Timer)
    BY <1>3, <1>5 DEF IInv, TypeOK, States, Agree, OpenSucceeds
  <2>2. Agree'
    BY <1>2, <1>5, <2>1 DEF Agree, OpenSucceeds
  <2>3. OneCloseEach'
    BY <1>4, <1>5, <2>1 DEF OneCloseEach, OpenSucceeds
  <2>4. opens' \in 0..MaxOpens /\ listened' \in 0..MaxOpens /\ Counted'
    BY <1>4, <1>5, MaxOpensAssumption DEF OpenSucceeds, IInv, Counted
  <2> QED
    BY <1>1, <1>2, <1>5, <2>2, <2>3, <2>4 DEF IInv, TypeOK, OpenSucceeds, States, ObjectStates
<1>6. CASE OpenFailsAtTimer
  <2>1. Agree' /\ OneCloseEach'
    BY <1>1, <1>2, <1>6 DEF IInv, Agree, OneCloseEach, OpenFailsAtTimer, serverVars
  <2>2. opens' \in 0..MaxOpens /\ Counted'
    BY <1>4, <1>6, MaxOpensAssumption DEF OpenFailsAtTimer, IInv, Counted
  <2> QED
    BY <1>1, <1>2, <1>6, <2>1, <2>2 DEF IInv, TypeOK, OpenFailsAtTimer, serverVars
<1>7. CASE OpenFailsAtTcp
  <2>1. ~OnStack(Timer) /\ state # "LISTENING"
    BY <1>4, <1>7 DEF Agree, OpenFailsAtTcp
  <2>2. Agree' /\ OneCloseEach'
    BY <1>1, <1>2, <1>4, <1>7, <2>1 DEF Agree, OneCloseEach, OpenFailsAtTcp
  <2>3. opens' \in 0..MaxOpens /\ Counted'
    BY <1>4, <1>7, MaxOpensAssumption DEF OpenFailsAtTcp, IInv, Counted
  <2> QED
    BY <1>1, <1>2, <1>7, <2>2, <2>3 DEF IInv, TypeOK, OpenFailsAtTcp, ObjectStates
<1> QED
  BY <1>5, <1>6, <1>7

\* The application is done with the fields of a request.
LEMMA ClearsIInv ==
  ASSUME IInv, NEW s \in Sessions, UserClearsFields(s)
  PROVE  IInv'
<1>1. /\ UNCHANGED <<state, tcp_server, date_timer, memory, stream, parser, stack>>
      /\ UNCHANGED <<opens, listened, closes, stray>>
      /\ fields' = [fields EXCEPT ![s] = 0]
  BY DEF UserClearsFields, serverVars, history
<1>2. Shape' /\ Agree' /\ OneCloseEach' /\ Counted' /\ SessionsInMemory' /\ Parses'
  <2>1. (Shape' <=> Shape) /\ (OnStack(Timer)' <=> OnStack(Timer))
    BY <1>1 DEF Shape, Backed, Stream, Timer, Closers, OnStack
  <2>2. Agree'
    BY <1>1, <2>1 DEF IInv, Agree
  <2>3. OneCloseEach' /\ Counted' /\ SessionsInMemory' /\ Parses'
    BY <1>1 DEF IInv, OneCloseEach, Counted, SessionsInMemory, Parses
  <2> QED
    BY <2>1, <2>2, <2>3 DEF IInv
<1>3. TypeOK' /\ FieldsCleared'
  BY <1>1, MaxFieldsAssumption DEF IInv, TypeOK, FieldsCleared
<1> QED
  BY <1>2, <1>3 DEF IInv

\* A step of the server's close: it sees no session.
LEMMA CloseStep ==
  ASSUME IInv, UNCHANGED sessionVars, NEW head, Returned \/ Went(head, head = Timer) \/ Went(head, TRUE),
         Returned \/ head.at # "parse"
  PROVE  /\ stack' \in Seq(Frames) /\ Shape'
         /\ SessionsInMemory' /\ FieldsCleared' /\ Parses'
<1>1. /\ stack' \in Seq(Frames) /\ Shape' /\ (memory' = memory => Used')
      /\ stack' = <<>> \/ Head(stack').at # "parse"
  BY DEF Returned, Went
<1>2. memory' = memory /\ stream' = stream /\ fields' = fields
  BY DEF sessionVars
<1>3. SessionsInMemory'
  <2>1. Used'
    BY <1>1, <1>2
  <2>2. SessionsInMemory' <=> Used' /\ (\A s \in Sessions : (memory[s] = "allocated") <=> (stream[s] # "CLOSED"))
    BY <1>2 DEF SessionsInMemory, Used
  <2> QED
    BY <2>1, <2>2 DEF IInv, SessionsInMemory
<1>4. FieldsCleared' /\ Parses'
  BY <1>1, <1>2 DEF IInv, FieldsCleared, Parses
<1> QED
  BY <1>1, <1>3, <1>4

\* reactor_http_server_close from its first line.
LEMMA CloseEnterIInv ==
  ASSUME IInv, CloseEnter
  PROVE  IInv'
<1> DEFINE close == Frame("close", 0)
           finish == Frame("finish", 0)
<1>1. /\ stack # <<>> /\ Head(stack) = close /\ UNCHANGED <<date_timer, opens, listened, closes, stray>>
      /\ UNCHANGED sessionVars
  BY DEF CloseEnter, At, history
<1>2. /\ close \in Frames /\ close.s = 0 /\ close.at = "close" /\ close.at \in Closers /\ close # Timer
      /\ finish \in Frames /\ finish.s = 0 /\ finish.at = "finish" /\ finish.at \in Closers /\ finish # Timer
  BY FrameFacts, StackFacts DEF ServerFrames, Timer, Closers
<1>3. /\ TypeOK /\ Agree /\ OneCloseEach /\ Counted
      /\ TimerBelow <=> OnStack(Timer)
  BY <1>1, <1>2 DEF IInv, TimerBelow
<1>4. CASE state = "CLOSED" /\ Return /\ UNCHANGED <<state, tcp_server>>
  <2>1. Returned
    BY <1>1, <1>4, StackFacts, Returns
  <2>2. OnStack(Timer)' <=> OnStack(Timer)
    BY <1>3, <2>1 DEF Returned
  <2>3. Agree' /\ OneCloseEach' /\ Counted'
    BY <1>1, <1>3, <1>4, <2>2 DEF Agree, OneCloseEach, Counted
  <2>4. stack' \in Seq(Frames) /\ Shape' /\ SessionsInMemory' /\ FieldsCleared' /\ Parses'
    BY <1>1, <2>1, CloseStep
  <2>5. TypeOK'
    BY <1>1, <1>3, <1>4, <2>4 DEF TypeOK, sessionVars
  <2> QED
    BY <2>3, <2>4, <2>5 DEF IInv
<1>5. CASE state = "CLOSING" /\ Continue(<<finish>>) /\ UNCHANGED <<state, tcp_server>>
  <2>1. Went(finish, FALSE)
    BY <1>1, <1>2, <1>5, StackFacts, GoesToOne DEF Begins
  <2>2. (OnStack(Timer)' <=> OnStack(Timer)) /\ stack' # <<>> /\ Head(stack') = finish
    BY <1>3, <2>1 DEF Went
  <2>3. Agree' /\ OneCloseEach' /\ Counted'
    BY <1>1, <1>2, <1>3, <1>5, <2>2 DEF Agree, OneCloseEach, Counted
  <2>4. stack' \in Seq(Frames) /\ Shape' /\ SessionsInMemory' /\ FieldsCleared' /\ Parses'
    BY <1>1, <1>2, <2>1, CloseStep
  <2>5. TypeOK'
    BY <1>1, <1>3, <1>5, <2>4 DEF TypeOK, sessionVars
  <2> QED
    BY <2>3, <2>4, <2>5 DEF IInv
<1>6. CASE /\ state = "LISTENING" /\ state' = "CLOSING"
           /\ \/ tcp_server' = "CLOSED" /\ Continue(<<close, Timer>>)
              \/ tcp_server' = "CLOSING" /\ Continue(<<Timer>>)
  <2>1. ~OnStack(Timer) /\ date_timer = "OPEN" /\ ~stray
    BY <1>3, <1>6 DEF Agree
  <2>2. Went(close, TRUE) \/ Went(Timer, TRUE)
    <3>1. CASE Continue(<<close, Timer>>)
      <4>1. Begins(<<close, Timer>>)
        BY <1>1, <3>1 DEF Begins
      <4>2. Went(close, close = Timer \/ Timer = Timer)
        BY <1>2, <2>1, <4>1, StackFacts, GoesToTwo
      <4> QED
        BY <4>2
    <3>2. CASE Continue(<<Timer>>)
      <4>1. Begins(<<Timer>>)
        BY <1>1, <3>2 DEF Begins
      <4>2. Went(Timer, Timer = Timer)
        BY <2>1, <4>1, StackFacts, GoesToOne
      <4> QED
        BY <4>2
    <3> QED
      BY <1>6, <3>1, <3>2
  <2>3. OnStack(Timer)'
    BY <2>2 DEF Went
  <2>4. Agree' /\ OneCloseEach' /\ Counted'
    BY <1>1, <1>3, <1>6, <2>1, <2>3 DEF Agree, OneCloseEach, Counted
  <2>5. stack' \in Seq(Frames) /\ Shape' /\ SessionsInMemory' /\ FieldsCleared' /\ Parses'
    BY <1>1, <1>2, <2>2, StackFacts, CloseStep
  <2>6. TypeOK'
    BY <1>1, <1>3, <1>6, <2>5 DEF TypeOK, sessionVars, States, ObjectStates
  <2> QED
    BY <2>4, <2>5, <2>6 DEF IInv
<1> QED
  BY <1>4, <1>5, <1>6 DEF CloseEnter, Timer

\* reactor_http_server_close from the call on the timer.
LEMMA CloseTimerIInv ==
  ASSUME IInv, CloseTimer
  PROVE  IInv'
<1> DEFINE close == Frame("close", 0)
           finish == Frame("finish", 0)
<1>1. /\ stack # <<>> /\ Head(stack) = Timer /\ UNCHANGED <<state, tcp_server, opens, listened, closes, stray>>
      /\ UNCHANGED sessionVars
  BY DEF CloseTimer, At, history, Timer
<1>2. /\ close \in Frames /\ close.s = 0 /\ close.at = "close" /\ close.at \in Closers /\ close # Timer
      /\ finish \in Frames /\ finish.s = 0 /\ finish.at = "finish" /\ finish.at \in Closers /\ finish # Timer
  BY FrameFacts, StackFacts DEF ServerFrames, Timer, Closers
<1>3. Timer.at \notin Closers
  BY StackFacts DEF Closers
<1>4. TypeOK /\ Agree /\ OneCloseEach /\ Counted /\ ~TimerBelow
  BY <1>1 DEF IInv, TimerBelow
<1>5. OnStack(Timer)
  BY <1>1, StackFacts, EmptySeq, HeadTailProperties DEF OnStack
<1>6. state = "CLOSING" /\ date_timer = "OPEN" /\ ~stray /\ tcp_server # "OPEN"
  BY <1>4, <1>5 DEF Agree
<1>7. \/ date_timer' = "CLOSED" /\ Went(close, FALSE)
      \/ date_timer' = "CLOSING" /\ Went(finish, FALSE)
  <2>1. CASE date_timer' = "CLOSED" /\ Continue(<<close, finish>>)
    BY <1>1, <1>2, <1>3, <2>1, StackFacts, GoesToTwo DEF Begins
  <2>2. CASE date_timer' = "CLOSING" /\ Continue(<<finish>>)
    BY <1>1, <1>2, <1>3, <2>2, StackFacts, GoesToOne DEF Begins
  <2> QED
    BY <2>1, <2>2 DEF CloseTimer
<1>8. ~OnStack(Timer)' /\ stack' # <<>> /\ Head(stack').at \in Closers /\ Head(stack').at # "parse"
  BY <1>2, <1>4, <1>7 DEF Went
<1>9. Agree' /\ OneCloseEach' /\ Counted'
  BY <1>1, <1>4, <1>6, <1>7, <1>8 DEF Agree, OneCloseEach, Counted
<1>10. stack' \in Seq(Frames) /\ Shape' /\ SessionsInMemory' /\ FieldsCleared' /\ Parses'
  BY <1>1, <1>2, <1>7, CloseStep
<1>11. TypeOK'
  BY <1>1, <1>4, <1>7, <1>10 DEF TypeOK, sessionVars, ObjectStates
<1> QED
  BY <1>9, <1>10, <1>11 DEF IInv

\* The last condition of reactor_http_server_close, and a close that the event
\* loop completes.
LEMMA FinishIInv ==
  ASSUME IInv, Finish \/ TcpClosed \/ TimerClosed
  PROVE  IInv'
<1> DEFINE close == Frame("close", 0)
           finish == Frame("finish", 0)
<1>1. /\ close \in Frames /\ close.s = 0 /\ close.at = "close" /\ close.at \in Closers /\ close # Timer
      /\ finish \in Frames /\ finish.s = 0 /\ finish.at = "finish" /\ finish.at \in Closers /\ finish # Timer
  BY FrameFacts, StackFacts DEF ServerFrames, Timer, Closers
<1>2. TypeOK /\ Agree /\ OneCloseEach /\ Counted /\ UNCHANGED sessionVars
  BY DEF IInv, Finish, TcpClosed, TimerClosed
<1>3. CASE Finish /\ CanFinish
  <2>1. /\ stack # <<>> /\ Head(stack) = finish /\ Continue(<<User>>)
        /\ state' = "CLOSED" /\ closes' = closes + 1
        /\ UNCHANGED <<tcp_server, date_timer, opens, listened, stray>>
    BY <1>3 DEF Finish, At
  <2>2. state # "CLOSED" /\ tcp_server = "CLOSED" /\ date_timer = "CLOSED" /\ ~OnStack(Timer) /\ ~stray
    BY <1>2, <1>3 DEF CanFinish, Agree
  <2>3. Went(User, FALSE)
    BY <2>1, <2>2, StackFacts, GoesToOne DEF Begins
  <2>4. ~OnStack(Timer)'
    BY <2>2, <2>3 DEF Went, TimerBelow
  <2>5. Agree'
    BY <2>1, <2>2, <2>4 DEF Agree
  <2>6. OneCloseEach' /\ Counted' /\ closes' \in 0..MaxOpens
    BY <1>2, <2>1, <2>2, MaxOpensAssumption DEF OneCloseEach, Counted, TypeOK
  <2>7. stack' \in Seq(Frames) /\ Shape' /\ SessionsInMemory' /\ FieldsCleared' /\ Parses'
    BY <1>2, <2>3, StackFacts, CloseStep
  <2>8. TypeOK'
    BY <1>2, <2>1, <2>6, <2>7 DEF TypeOK, sessionVars, States
  <2> QED
    BY <2>5, <2>6, <2>7, <2>8 DEF IInv
<1>4. CASE Finish /\ ~CanFinish
  <2>1. /\ stack # <<>> /\ Head(stack) = finish /\ Return
        /\ UNCHANGED <<state, tcp_server, date_timer, opens, listened, closes, stray>>
    BY <1>4 DEF Finish, At
  <2>2. Returned
    BY <2>1, StackFacts, Returns
  <2>3. OnStack(Timer)' <=> OnStack(Timer)
    BY <1>1, <2>1, <2>2 DEF Returned, TimerBelow
  <2>4. ~(state = "CLOSING" /\ tcp_server = "CLOSED" /\ date_timer = "CLOSED")
    BY <1>4 DEF CanFinish
  <2>5. Agree' /\ OneCloseEach' /\ Counted'
    BY <1>2, <2>1, <2>3, <2>4 DEF Agree, OneCloseEach, Counted
  <2>6. stack' \in Seq(Frames) /\ Shape' /\ SessionsInMemory' /\ FieldsCleared' /\ Parses'
    BY <1>2, <2>2, CloseStep
  <2>7. TypeOK'
    BY <1>2, <2>1, <2>6 DEF TypeOK, sessionVars
  <2> QED
    BY <2>5, <2>6, <2>7 DEF IInv
<1>5. CASE TcpClosed \/ TimerClosed
  <2>1. /\ stack = <<>> /\ Begins(<<close>>) /\ UNCHANGED <<state, opens, listened, closes, stray>>
        /\ \/ tcp_server = "CLOSING" /\ tcp_server' = "CLOSED" /\ UNCHANGED date_timer
           \/ date_timer = "CLOSING" /\ date_timer' = "CLOSED" /\ UNCHANGED tcp_server
    BY <1>5 DEF TcpClosed, TimerClosed, Dispatch, Begins, history
  <2>2. Went(close, FALSE)
    BY <1>1, <2>1, StackFacts, GoesToOne
  <2>3. ~OnStack(Timer) /\ ~OnStack(Timer)' /\ stack' # <<>> /\ Head(stack').at \in Closers
    BY <1>1, <2>1, <2>2 DEF Went, TimerBelow, OnStack
  <2>4. state = "CLOSING" \/ (state = "CLOSED" /\ FALSE)
    BY <1>2, <2>1 DEF TypeOK, States, Agree
  <2>5. Agree' /\ OneCloseEach' /\ Counted'
    BY <1>2, <2>1, <2>3, <2>4 DEF Agree, OneCloseEach, Counted
  <2>6. stack' \in Seq(Frames) /\ Shape' /\ SessionsInMemory' /\ FieldsCleared' /\ Parses'
    BY <1>1, <1>2, <2>2, CloseStep
  <2>7. TypeOK'
    BY <1>2, <2>1, <2>6 DEF TypeOK, sessionVars, ObjectStates
  <2> QED
    BY <2>5, <2>6, <2>7 DEF IInv
<1> QED
  BY <1>3, <1>4, <1>5

\* A session is allocated, or freed because its stream cannot be opened.
LEMMA AcceptIInv ==
  ASSUME IInv, NEW s \in Sessions, AcceptSucceeds(s) \/ AcceptFailsAtStream(s)
  PROVE  IInv'
<1> DEFINE end == Frame("in_tcp", 0)
<1>1. end \in Frames /\ end.s = 0 /\ end.at = "in_tcp" /\ end # Timer
  BY FrameFacts, StackFacts DEF ServerFrames, Timer
<1>2. /\ stack = <<>> /\ memory[s] = "unused" /\ stack' \in {<<User, end>>, <<end>>}
      /\ UNCHANGED <<state, tcp_server, date_timer, fields, opens, listened, closes, stray>>
      /\ \/ /\ memory' = [memory EXCEPT ![s] = "allocated"]
            /\ stream' = [stream EXCEPT ![s] = "OPEN"]
            /\ parser' = [parser EXCEPT ![s] = "REQUEST_HEADER"]
         \/ /\ memory' = [memory EXCEPT ![s] = "freed"]
            /\ UNCHANGED <<stream, parser>>
  BY DEF AcceptSucceeds, AcceptFailsAtStream, Dispatch, serverVars, history
<1>3. TypeOK /\ SessionsInMemory /\ FieldsCleared
  BY DEF IInv
<1>4. stream[s] = "CLOSED"
  BY <1>2, <1>3 DEF SessionsInMemory, TypeOK, ObjectStates
<1>5. Went(User, FALSE) \/ Went(end, FALSE)
  BY <1>1, <1>2, StackFacts, GoesToOne, GoesToTwo DEF Begins
<1>6. stack' \in Seq(Frames) /\ Shape' /\ (OnStack(Timer)' <=> TimerBelow) /\ stack' # <<>> /\ Head(stack').at # "parse"
  BY <1>1, <1>5, StackFacts DEF Went
<1>7. Agree' /\ OneCloseEach'
  BY <1>2, <1>6, AgreeStays
<1>8. Used'
  BY <1>1, <1>2, StackFacts DEF Used
<1>9. SessionsInMemory'
  <2>1. \A t \in Sessions : (memory'[t] = "allocated") <=> (stream'[t] # "CLOSED")
    BY <1>2, <1>3, <1>4 DEF SessionsInMemory, TypeOK
  <2> QED
    BY <1>8, <2>1 DEF SessionsInMemory, Used
<1>10. FieldsCleared' /\ Parses' /\ Counted'
  BY <1>2, <1>3, <1>4, <1>6 DEF FieldsCleared, Parses, TypeOK, IInv, Counted
<1>11. TypeOK'
  BY <1>2, <1>3, <1>6 DEF TypeOK, ObjectStates, ParserStates
<1> QED
  BY <1>6, <1>7, <1>9, <1>10, <1>11 DEF IInv

\* What a call that returns leaves is what was below it.
LEMMA Rest ==
  ASSUME stack \in Seq(Frames), stack # <<>>, Return, NEW i \in DOMAIN stack'
  PROVE  \E k \in DOMAIN stack : k # 1 /\ stack'[i] = stack[k]
<1>1. stack' = Tail(stack) /\ Len(stack) \in Nat
  BY ConcatProperties DEF Return, Continue
<1>2. /\ Len(stack') = Len(stack) - 1 /\ DOMAIN stack' = 1..Len(stack') /\ DOMAIN stack = 1..Len(stack)
      /\ \A j \in 1..Len(stack') : stack'[j] = stack[j + 1]
  BY <1>1, HeadTailProperties
<1>3. i + 1 \in DOMAIN stack /\ i + 1 # 1 /\ stack'[i] = stack[i + 1]
  BY <1>1, <1>2
<1> QED
  BY <1>3

\* The parser and the fields of an open session change.
LEMMA ParserStep ==
  ASSUME IInv, NEW s \in Sessions,
         stack # <<>>, Head(stack).s = s, Head(stack).at \in {"parse", "after_done"},
         UNCHANGED <<serverVars, memory, stream, history>>,
         parser' \in [Sessions -> ParserStates],
         fields' \in [Sessions -> 0..MaxFields],
         \A t \in Sessions : fields'[t] = fields[t] \/ (t = s /\ Head(stack).at = "parse"),
         UNCHANGED stack \/ Return
  PROVE  IInv'
<1>1. UNCHANGED <<state, tcp_server, date_timer, opens, listened, closes, stray>>
  BY DEF serverVars, history
<1>2. Head(stack).at \notin Closers \cup {"close_timer"} /\ ~(stack # <<>> /\ Head(stack) = Timer)
  BY StackFacts DEF Closers
<1>3. /\ stack' \in Seq(Frames) /\ Shape' /\ Used' /\ (OnStack(Timer)' <=> TimerBelow)
      /\ stack' # <<>> /\ Head(stack').at = "parse" => Head(stack') = Head(stack)
  <2>1. CASE UNCHANGED stack
    <3>1. (Shape' <=> Shape) /\ (OnStack(Timer)' <=> OnStack(Timer)) /\ (Used' <=> Used)
      BY <2>1 DEF Shape, Backed, Stream, Timer, Closers, OnStack, Used
    <3> QED
      BY <1>2, <2>1, <3>1, StackFacts DEF TimerBelow
  <2>2. CASE Return
    <3>1. Returned
      BY <2>2, StackFacts, Returns
    <3> QED
      BY <3>1 DEF Returned
  <2> QED
    BY <2>1, <2>2
<1>4. Agree' /\ OneCloseEach'
  BY <1>1, <1>2, <1>3, AgreeStays
<1>5. SessionsInMemory'
  <2>1. SessionsInMemory' <=> Used' /\ (\A t \in Sessions : (memory[t] = "allocated") <=> (stream[t] # "CLOSED"))
    BY DEF SessionsInMemory, Used
  <2> QED
    BY <1>3, <2>1 DEF IInv, SessionsInMemory
<1>6. FieldsCleared'
  <2>1. Head(stack).at = "parse" => stream[s] = "OPEN"
    BY DEF IInv, Parses
  <2> QED
    BY <2>1 DEF IInv, FieldsCleared
<1>7. Parses' /\ Counted'
  BY <1>1, <1>3 DEF IInv, Parses, Counted
<1>8. TypeOK'
  BY <1>1, <1>3 DEF IInv, TypeOK
<1> QED
  BY <1>3, <1>4, <1>5, <1>6, <1>7, <1>8 DEF IInv

LEMMA ParserIInv ==
  ASSUME IInv, NEW s \in Sessions, ParseHeader(s) \/ ParseBody(s) \/ AfterDone(s)
  PROVE  IInv'
<1>1. /\ stack # <<>> /\ Head(stack).s = s /\ Head(stack).at \in {"parse", "after_done"}
      /\ UNCHANGED <<serverVars, memory, stream, history>> /\ (UNCHANGED stack \/ Return)
  BY FrameFacts DEF ParseHeader, ParseBody, AfterDone, At
<1>2. parser \in [Sessions -> ParserStates] /\ fields \in [Sessions -> 0..MaxFields]
  BY DEF IInv, TypeOK
<1>3. parser' \in [Sessions -> ParserStates]
  BY <1>2 DEF ParseHeader, ParseBody, AfterDone, ParserStates
<1>4. /\ fields' \in [Sessions -> 0..MaxFields]
      /\ \A t \in Sessions : fields'[t] = fields[t] \/ (t = s /\ Head(stack).at = "parse")
  <2>1. CASE ParseHeader(s)
    <3>1. Head(stack).at = "parse"
      BY <2>1, FrameFacts DEF ParseHeader, At
    <3>2. fields[s] + 1 \in 0..MaxFields /\ fields' = [fields EXCEPT ![s] = fields[s] + 1]
      BY <1>2, <2>1, MaxFieldsAssumption DEF ParseHeader
    <3> QED
      BY <1>2, <3>1, <3>2
  <2>2. CASE UNCHANGED fields
    BY <1>2, <2>2
  <2> QED
    BY <2>1, <2>2 DEF ParseHeader, ParseBody, AfterDone
<1> QED
  BY <1>1, <1>3, <1>4, ParserStep

\* A session's stream closes.
LEMMA SessionEndsIInv ==
  ASSUME IInv, NEW s \in Sessions, SessionClose(s) \/ StreamClosed(s)
  PROVE  IInv'
<1>1. /\ UNCHANGED <<state, tcp_server, date_timer, parser, opens, listened, closes, stray>>
      /\ TypeOK /\ Shape /\ SessionsInMemory /\ FieldsCleared /\ Used
  BY StackFacts DEF IInv, SessionClose, StreamClosed, serverVars, history
<1>2. /\ stack' \in Seq(Frames) /\ Shape' /\ (memory' = memory => Used') /\ (OnStack(Timer)' <=> TimerBelow)
      /\ stack' = <<>> \/ Head(stack').at # "parse"
      /\ stack = <<>> \/ Head(stack).at \notin Closers \cup {"close_timer"}
  <2>1. CASE SessionClose(s)
    <3>1. stack # <<>> /\ Return /\ Head(stack).at = "session_close"
      BY <2>1, FrameFacts DEF SessionClose, At
    <3>2. Returned
      BY <3>1, StackFacts, Returns
    <3> QED
      BY <3>1, <3>2 DEF Returned, Closers
  <2>2. CASE StreamClosed(s)
    <3>1. stack = <<>> /\ stack' = <<>>
      BY <2>2 DEF StreamClosed
    <3> QED
      BY <3>1 DEF Shape, Used, OnStack, TimerBelow
  <2> QED
    BY <2>1, <2>2
<1>3. Agree' /\ OneCloseEach'
  BY <1>1, <1>2, AgreeStays
<1>4. Parses' /\ Counted'
  BY <1>1, <1>2 DEF Parses, IInv, Counted
<1>5. ASSUME SessionClose(s), stream[s] = "OPEN", ~OnStack(Stream(s))
      PROVE  \A i \in DOMAIN stack' : stack'[i].s # 0 => memory[stack'[i].s] = "allocated" /\ stack'[i].s # s
  <2>1. stack # <<>> /\ Return /\ stack \in Seq(Frames)
    BY <1>5, StackFacts DEF SessionClose, At
  <2>2. ASSUME NEW i \in DOMAIN stack', stack'[i].s # 0
        PROVE  memory[stack'[i].s] = "allocated" /\ stack'[i].s # s
    <3>1. PICK k \in DOMAIN stack : k # 1 /\ stack'[i] = stack[k]
      BY <2>1, Rest
    <3>2. memory[stack'[i].s] = "allocated" /\ Backed(stack, k)
      BY <1>1, <2>2, <3>1 DEF Used, Shape
    <3>3. PICK j \in k..Len(stack) : stack[j] = Stream(stack[k].s)
      BY <3>2 DEF Backed
    <3>4. j \in DOMAIN stack
      BY <2>1, <3>1, <3>3, LenProperties
    <3> QED
      BY <1>5, <3>1, <3>2, <3>3, <3>4 DEF OnStack
  <2> QED
    BY <2>2
<1>6. \/ /\ memory' = [memory EXCEPT ![s] = "freed"] /\ stream' = [stream EXCEPT ![s] = "CLOSED"]
         /\ fields' = [fields EXCEPT ![s] = 0] \/ (UNCHANGED fields /\ fields[s] = 0)
         /\ Used'
      \/ /\ stream[s] = "OPEN" /\ UNCHANGED memory /\ stream' = [stream EXCEPT ![s] = "CLOSING"]
         /\ fields' = [fields EXCEPT ![s] = 0]
      \/ UNCHANGED <<memory, stream, fields>>
  <2>1. CASE SessionClose(s) /\ stream[s] = "OPEN" /\ memory' = [memory EXCEPT ![s] = "freed"] /\ ~OnStack(Stream(s))
    <3>1. Used'
      BY <1>1, <1>5, <2>1 DEF Used, TypeOK
    <3> QED
      BY <2>1, <3>1 DEF SessionClose, Stream
  <2>2. CASE StreamClosed(s)
    <3>1. stack' = <<>> /\ fields[s] = 0
      BY <1>1, <2>2 DEF StreamClosed, FieldsCleared
    <3>2. Used'
      BY <3>1 DEF Used
    <3> QED
      BY <2>2, <3>1, <3>2 DEF StreamClosed
  <2> QED
    BY <2>1, <2>2 DEF SessionClose, Stream
<1>7. SessionsInMemory'
  <2>1. Used'
    BY <1>2, <1>6
  <2>2. \A t \in Sessions : (memory'[t] = "allocated") <=> (stream'[t] # "CLOSED")
    BY <1>1, <1>6 DEF SessionsInMemory, TypeOK
  <2> QED
    BY <2>1, <2>2 DEF SessionsInMemory, Used
<1>8. FieldsCleared'
  BY <1>1, <1>6 DEF FieldsCleared, TypeOK
<1>9. TypeOK'
  <2>1. fields' \in [Sessions -> 0..MaxFields]
    BY <1>1, <1>6, MaxFieldsAssumption DEF TypeOK
  <2>2. /\ memory' \in [Sessions -> {"unused", "allocated", "freed"}]
        /\ stream' \in [Sessions -> ObjectStates]
    BY <1>1, <1>6 DEF TypeOK, ObjectStates
  <2> QED
    BY <1>1, <1>2, <2>1, <2>2 DEF TypeOK
<1> QED
  BY <1>2, <1>3, <1>4, <1>7, <1>8, <1>9 DEF IInv
-------------------------------------------------------------------------------
(***************************************************************************)
(* The theorems                                                            *)
(***************************************************************************)
LEMMA IInvInit == Init => IInv
<1> SUFFICES ASSUME Init PROVE IInv
  OBVIOUS
<1>1. TypeOK
  <2>1. 0 \in 0..MaxOpens /\ 0 \in 0..MaxFields /\ stack \in Seq(Frames)
    BY MaxOpensAssumption, MaxFieldsAssumption DEF Init
  <2>2. /\ memory \in [Sessions -> {"unused", "allocated", "freed"}]
        /\ stream \in [Sessions -> ObjectStates] /\ parser \in [Sessions -> ParserStates]
        /\ fields \in [Sessions -> 0..MaxFields]
    BY <2>1 DEF Init, ObjectStates, ParserStates
  <2> QED
    BY <2>1, <2>2 DEF Init, TypeOK, States, ObjectStates
<1>2. Shape /\ Agree /\ OneCloseEach /\ Counted
  BY DEF Init, Shape, Agree, OneCloseEach, Counted, OnStack
<1>3. SessionsInMemory /\ FieldsCleared /\ Parses
  BY DEF Init, SessionsInMemory, FieldsCleared, Parses
<1> QED
  BY <1>1, <1>2, <1>3 DEF IInv

\* Every step keeps the invariant.
LEMMA IInvNext == IInv /\ [Next]_vars => IInv'
<1> SUFFICES ASSUME IInv, [Next]_vars PROVE IInv'
  OBVIOUS
<1>1. CASE Application
  BY <1>1, OpenIInv, UserCallsIInv, ClearsIInv DEF Application
<1>2. CASE Events
  BY <1>2, EventsIInv, AcceptIInv DEF Events
<1>3. CASE Handling
  <2>1. CASE Closing
    BY <2>1, CloseEnterIInv, CloseTimerIInv, FinishIInv DEF Closing
  <2>2. CASE HandlerEnds
    BY <2>2, HandlersIInv
  <2>3. ASSUME NEW s \in Sessions, Session(s)
        PROVE  IInv'
    BY <2>3, SessionEndsIInv, HandlersIInv, ParserIInv DEF Session
  <2> QED
    BY <1>3, <2>1, <2>2, <2>3 DEF Handling
<1>4. CASE TcpClosed \/ TimerClosed
  BY <1>4, FinishIInv
<1>5. ASSUME NEW s \in Sessions, StreamClosed(s)
      PROVE  IInv'
  BY <1>5, SessionEndsIInv
<1>6. CASE UNCHANGED vars
  <2>1. /\ UNCHANGED <<state, tcp_server, date_timer, memory, stream, parser, fields, stack>>
        /\ UNCHANGED <<opens, listened, closes, stray>>
    BY <1>6 DEF vars, serverVars, sessionVars, history
  <2>2. (Shape' <=> Shape) /\ (OnStack(Timer)' <=> OnStack(Timer))
    BY <2>1 DEF Shape, Backed, Stream, Timer, Closers, OnStack
  <2>3. Agree' /\ TypeOK'
    BY <2>1, <2>2 DEF IInv, Agree, TypeOK
  <2>4. OneCloseEach' /\ Counted' /\ SessionsInMemory' /\ FieldsCleared' /\ Parses'
    BY <2>1 DEF IInv, OneCloseEach, Counted, SessionsInMemory, FieldsCleared, Parses
  <2> QED
    BY <2>2, <2>3, <2>4 DEF IInv
<1> QED
  BY <1>1, <1>2, <1>3, <1>4, <1>5, <1>6 DEF Next

LEMMA SpecIInv == Spec => []IInv
BY IInvInit, IInvNext, PTL DEF Spec

\* Every variable keeps its type, in every run of the server.
THEOREM ServerTypes == Spec => []TypeOK
<1>1. IInv => TypeOK
  BY DEF IInv
<1> QED
  BY <1>1, SpecIInv, PTL

\* Every open that succeeded gets one CLOSE event, and no other comes.
THEOREM ClosesOnce == Spec => []OneCloseEach
<1>1. IInv => OneCloseEach
  BY DEF IInv
<1> QED
  BY <1>1, SpecIInv, PTL

\* Between two events the server's state says what its TCP server and its timer
\* are, and a server that is closing waits for one of them.
THEOREM ServerAgrees == Spec => []ObjectsAgree
<1>1. ASSUME IInv, stack = <<>>
      PROVE  ObjectsAgree
  <2>1. Agree /\ ~OnStack(Timer) /\ TypeOK
    BY <1>1 DEF IInv, OnStack
  <2> QED
    BY <1>1, <2>1 DEF Agree, ObjectsAgree, TypeOK, States, ObjectStates
<1>2. IInv => ObjectsAgree
  BY <1>1 DEF ObjectsAgree
<1> QED
  BY <1>2, SpecIInv, PTL

\* No call in progress and no event goes on with a session that was freed.
THEOREM SessionsSafe == Spec => []SessionsInMemory
<1>1. IInv => SessionsInMemory
  BY DEF IInv
<1> QED
  BY <1>1, SpecIInv, PTL

\* A session whose stream closes has no header fields, and gets none.
THEOREM FieldsGone == Spec => []FieldsCleared
<1>1. IInv => FieldsCleared
  BY DEF IInv
<1> QED
  BY <1>1, SpecIInv, PTL
===============================================================================
