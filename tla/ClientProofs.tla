----------------------------- MODULE ClientProofs -----------------------------
(***************************************************************************)
(* The safety properties of Client, for every behaviour of the network and *)
(* the clock and for event-loop queues of any length: what is left in the  *)
(* queue by one request may still be there in the next.                    *)
(***************************************************************************)
EXTENDS Client, TLAPS

-----------------------------------------------------------------------------
(* Queues of handlers *)

Has(q, h) == \E i \in 1..Len(q) : q[i] = h

AtMostOnce(q, h) == \A i, j \in 1..Len(q) : q[i] = h /\ q[j] = h => i = j

\* Some h is ahead of some g.
Ahead(q, h, g) == \E i, j \in 1..Len(q) : i < j /\ q[i] = h /\ q[j] = g

\* Each h has a g behind it.
Followed(q, h, g) ==
  \A i \in 1..Len(q) : q[i] = h => \E j \in 1..Len(q) : i < j /\ q[j] = g

\* The four completion handlers.
LEMMA HandlerNames ==
  "poll" \in Handlers /\ "read" \in Handlers /\ "timer" \in Handlers /\ "aborted" \in Handlers
BY DEF Handlers

\* A handler is queued.
LEMMA Queued ==
  ASSUME NEW q \in Seq(Handlers), NEW x \in Handlers
  PROVE  /\ Append(q, x) \in Seq(Handlers)
         /\ Has(Append(q, x), x)
         /\ \A h : Has(q, h) => Has(Append(q, x), h)
         /\ \A h : ~Has(q, h) /\ h # x => ~Has(Append(q, x), h)
         /\ \A h : AtMostOnce(q, h) /\ (h = x => ~Has(q, h)) => AtMostOnce(Append(q, x), h)
         /\ \A h, g : Ahead(q, h, g) => Ahead(Append(q, x), h, g)
         /\ \A h : Has(q, h) => Ahead(Append(q, x), h, x)
         /\ \A h, g : Followed(q, h, g) /\ h # x => Followed(Append(q, x), h, g)
         /\ \A h : h # x => Followed(Append(q, x), h, x)
<1> DEFINE r == Append(q, x)
<1>1. /\ r \in Seq(Handlers)
      /\ Len(q) \in Nat
      /\ Len(r) = Len(q) + 1
      /\ \A i \in 1..Len(q) : r[i] = q[i]
      /\ r[Len(q) + 1] = x
  OBVIOUS
<1> HIDE DEF r
<1>2. Has(r, x)
  BY <1>1 DEF Has
<1>3. \A h : Has(q, h) => Has(r, h)
  BY <1>1 DEF Has
<1>4. \A h : ~Has(q, h) /\ h # x => ~Has(r, h)
  BY <1>1 DEF Has
<1>5. \A h : AtMostOnce(q, h) /\ (h = x => ~Has(q, h)) => AtMostOnce(r, h)
  BY <1>1 DEF AtMostOnce, Has
<1>6. \A h, g : Ahead(q, h, g) => Ahead(r, h, g)
  BY <1>1 DEF Ahead
<1>7. \A h : Has(q, h) => Ahead(r, h, x)
  BY <1>1 DEF Ahead, Has
<1>8. \A h, g : Followed(q, h, g) /\ h # x => Followed(r, h, g)
  BY <1>1 DEF Followed
<1>9. \A h : h # x => Followed(r, h, x)
  BY <1>1 DEF Followed
<1> QED
  BY <1>1, <1>2, <1>3, <1>4, <1>5, <1>6, <1>7, <1>8, <1>9 DEF r

\* The handler at the head is taken.
LEMMA Taken ==
  ASSUME NEW q \in Seq(Handlers), q # <<>>
  PROVE  /\ Tail(q) \in Seq(Handlers)
         /\ \A h : Has(Tail(q), h) => Has(q, h)
         /\ \A h : Has(q, h) /\ Head(q) # h => Has(Tail(q), h)
         /\ \A h : AtMostOnce(q, h) => AtMostOnce(Tail(q), h)
         /\ \A h : AtMostOnce(q, h) /\ Head(q) = h => ~Has(Tail(q), h)
         /\ \A h, g : Ahead(q, h, g) /\ Head(q) # h => Ahead(Tail(q), h, g)
         /\ \A h, g : Ahead(q, h, g) /\ AtMostOnce(q, g) => Head(q) # g
         /\ \A h, g : Followed(q, h, g) => Followed(Tail(q), h, g)
         /\ \A h, g : Followed(q, h, g) /\ Head(q) = h => Has(Tail(q), g)
<1> DEFINE r == Tail(q)
<1>1. /\ r \in Seq(Handlers)
      /\ Len(q) \in Nat \ {0}
      /\ Len(r) = Len(q) - 1
      /\ \A i \in 1..Len(r) : r[i] = q[i + 1]
      /\ Head(q) = q[1]
  OBVIOUS
<1>x. \A i \in 1..Len(q) : i = 1 \/ (i - 1 \in 1..Len(r) /\ r[i - 1] = q[i])
  BY <1>1
<1> HIDE DEF r
<1>2. \A h : Has(r, h) => Has(q, h)
  BY <1>1 DEF Has
<1>3. \A h : Has(q, h) /\ Head(q) # h => Has(r, h)
  BY <1>1, <1>x DEF Has
<1>4. \A h : AtMostOnce(q, h) => AtMostOnce(r, h)
  <2> SUFFICES ASSUME NEW h, AtMostOnce(q, h), NEW i \in 1..Len(r), NEW j \in 1..Len(r),
                      r[i] = h, r[j] = h
               PROVE  i = j
    BY DEF AtMostOnce
  <2>1. i + 1 \in 1..Len(q) /\ j + 1 \in 1..Len(q) /\ q[i + 1] = h /\ q[j + 1] = h
    BY <1>1
  <2>2. i + 1 = j + 1
    BY <2>1, Zenon DEF AtMostOnce
  <2> QED
    BY <2>2
<1>5. \A h : AtMostOnce(q, h) /\ Head(q) = h => ~Has(r, h)
  BY <1>1 DEF AtMostOnce, Has
<1>6. \A h, g : Ahead(q, h, g) /\ Head(q) # h => Ahead(r, h, g)
  <2> SUFFICES ASSUME NEW h, NEW g, Head(q) # h,
                      NEW i \in 1..Len(q), NEW j \in 1..Len(q), i < j, q[i] = h, q[j] = g
               PROVE  Ahead(r, h, g)
    BY DEF Ahead
  <2>1. i - 1 \in 1..Len(r) /\ r[i - 1] = h /\ j - 1 \in 1..Len(r) /\ r[j - 1] = g
    BY <1>1, <1>x
  <2> QED
    BY <2>1 DEF Ahead
<1>7. \A h, g : Ahead(q, h, g) /\ AtMostOnce(q, g) => Head(q) # g
  BY <1>1 DEF Ahead, AtMostOnce
<1>8. \A h, g : Followed(q, h, g) => Followed(r, h, g)
  <2> SUFFICES ASSUME NEW h, NEW g, Followed(q, h, g), NEW i \in 1..Len(r), r[i] = h
               PROVE  \E j \in 1..Len(r) : i < j /\ r[j] = g
    BY DEF Followed
  <2>1. i + 1 \in 1..Len(q) /\ q[i + 1] = h
    BY <1>1
  <2>2. PICK j \in 1..Len(q) : i + 1 < j /\ q[j] = g
    BY <2>1 DEF Followed
  <2>3. j - 1 \in 1..Len(r) /\ i < j - 1 /\ r[j - 1] = g
    BY <1>1, <1>x, <2>2
  <2> QED
    BY <2>3
<1>9. \A h, g : Followed(q, h, g) /\ Head(q) = h => Has(r, g)
  <2> SUFFICES ASSUME NEW h, NEW g, Followed(q, h, g), q[1] = h
               PROVE  Has(r, g)
    BY <1>1
  <2>1. PICK j \in 1..Len(q) : 1 < j /\ q[j] = g
    BY <1>1 DEF Followed
  <2> QED
    BY <1>1, <1>x, <2>1 DEF Has
<1> QED
  BY <1>1, <1>2, <1>3, <1>4, <1>5, <1>6, <1>7, <1>8, <1>9 DEF r

-----------------------------------------------------------------------------
(* The invariant *)

\* The reactor has one turn in the queue.
OnePoll == Has(ready, "poll") /\ AtMostOnce(ready, "poll")

\* The handler of the read is in the queue once at most, and only for a read that
\* has completed.
OneRead ==
  /\ AtMostOnce(ready, "read")
  /\ read \in {"none", "pending"} => ~Has(ready, "read")

\* There is a read while the loop runs, and at no other time; once the client is
\* closed, it is not one that may take for ever.
ReadInRun ==
  /\ read # "none" <=> pc = "run"
  /\ closed => read # "pending"

\* While a read is outstanding, its timer is waited for, or the handler of a timer
\* is in the queue: before the reactor's next turn while the read is pending, and
\* behind the handler of the read if it has succeeded.
TimerBehind ==
  /\ read = "pending" => wait \/ Ahead(ready, "timer", "poll")
  /\ read = "ok" => wait \/ Followed(ready, "read", "timer")

\* The loop may be stopped between two requests only.
Running ==
  /\ pc \in {"connect", "write", "start", "run"} => ~stopped
  /\ pc = "check" => ec = "error" \/ (ec = "ok" /\ ~stopped)

\* What Request() has done so far is what its outcome will tell.
Progress ==
  /\ sock = "open" => ~closed
  /\ pc = "connect" => connect /\ sock # "open" /\ ~closed /\ sent = "none"
  /\ pc = "write" => sock = "open" /\ sent = "none"
  /\ pc \in {"start", "run", "check"} => sent = "all" /\ (~closed => sock = "open")

\* The timer is the one that was started with the last read, or later.
TimerIsNew == expired => waited

Inv == OnePoll /\ OneRead /\ ReadInRun /\ TimerBehind /\ Running /\ Progress /\ TimerIsNew

-----------------------------------------------------------------------------
(* What may be queued leaves the reactor's turn and the read's handler alone *)

\* An operation that is cancelled completes, later.
LEMMA AbortedIsQueued ==
  ASSUME NEW q \in Seq(Handlers), NEW r, r = q \/ r = Append(q, "aborted"),
         Has(q, "poll"), AtMostOnce(q, "poll"), AtMostOnce(q, "read")
  PROVE  /\ r \in Seq(Handlers)
         /\ Has(r, "poll") /\ AtMostOnce(r, "poll")
         /\ AtMostOnce(r, "read") /\ (~Has(q, "read") => ~Has(r, "read"))
<1>1. CASE r = q
  BY <1>1
<1>2. CASE r = Append(q, "aborted")
  BY <1>2, Queued, HandlerNames
<1> QED
  BY <1>1, <1>2

\* The requests, and what they do but for the read of the response, add nothing.
LEMMA WriteSteps ==
  ASSUME TypeOK, Inv,
         \/ Request \/ ConnectRefused \/ ConnectFails \/ Connect
         \/ WriteFails \/ WriteThrows \/ WriteRequest \/ Expire
  PROVE  TypeOK' /\ Inv'
<1> USE DEF Inv, timeVars
<1>1. ready' = ready /\ read' = read /\ wait' = wait
  BY DEF Request, ConnectRefused, ConnectFails, Connect, WriteFails, WriteThrows,
         WriteRequest, Expire, Close, CloseAfter, loopVars, ReadInRun, Progress
<1>2. TypeOK'
  <2>1. /\ pc' \in {"idle", "connect", "write", "start", "run", "check"}
        /\ connect' \in BOOLEAN /\ code' \in Codes /\ sent' \in {"none", "part", "all"}
    BY DEF TypeOK, Request, ConnectRefused, ConnectFails, Connect, WriteFails,
           WriteThrows, WriteRequest, Expire, Return, Codes, errorVars
  <2>2. sock' \in {"none", "open", "closed"} /\ closed' \in BOOLEAN
    BY DEF TypeOK, Request, ConnectRefused, ConnectFails, Connect, WriteFails,
           WriteThrows, WriteRequest, Expire, Close, CloseAfter, sockVars
  <2>3. timer_canceled' \in BOOLEAN /\ timeout' \in BOOLEAN
    BY DEF TypeOK, Request, ConnectRefused, ConnectFails, Connect, WriteFails,
           WriteThrows, WriteRequest, Expire, errorVars
  <2>4. /\ expired' \in BOOLEAN /\ waited' \in BOOLEAN /\ stopped' \in BOOLEAN
        /\ ec' \in {"would_block", "ok", "error"}
    BY DEF TypeOK, Request, ConnectRefused, ConnectFails, Connect, WriteFails,
           WriteThrows, WriteRequest, Expire, loopVars
  <2> QED
    BY <1>1, <2>1, <2>2, <2>3, <2>4 DEF TypeOK
<1>3. OnePoll' /\ OneRead' /\ TimerBehind'
  BY <1>1 DEF OnePoll, OneRead, TimerBehind
<1>4. ReadInRun'
  BY <1>1 DEF ReadInRun, Progress, Request, ConnectRefused, ConnectFails, Connect, WriteFails,
         WriteThrows, WriteRequest, Expire, Close, CloseAfter, Return, sockVars
<1>5. Running'
  BY DEF Running, Request, ConnectRefused, ConnectFails, Connect, WriteFails,
         WriteThrows, WriteRequest, Expire, Return, loopVars
<1>6. Progress'
  <2>1. CASE Request
    BY <2>1 DEF Progress, Request
  <2>2. CASE ConnectRefused \/ ConnectFails \/ Connect
    BY <2>2 DEF Progress, ConnectRefused, ConnectFails, Connect, Return, sockVars
  <2>3. CASE WriteFails \/ WriteThrows \/ WriteRequest
    BY <2>3 DEF Progress, WriteFails, WriteThrows, WriteRequest, Close, CloseAfter,
       Return, sockVars
  <2>4. CASE Expire
    BY <2>4 DEF Progress, Expire, sockVars
  <2> QED
    BY <2>1, <2>2, <2>3, <2>4
<1>7. TimerIsNew'
  BY DEF TimerIsNew, Request, ConnectRefused, ConnectFails, Connect, WriteFails,
         WriteThrows, WriteRequest, Expire, loopVars
<1> QED
  BY <1>2, <1>3, <1>4, <1>5, <1>6, <1>7

\* What follows a read may cancel the timer and close the socket.
LEMMA CheckSteps ==
  ASSUME TypeOK, Inv, ReadFails \/ ReadMore \/ ReadFinished
  PROVE  TypeOK' /\ Inv'
<1> USE DEF Inv, timeVars
<1>1. read = "none" /\ read' = "none"
  BY DEF ReadInRun, ReadFails, ReadMore, ReadFinished, CloseAfter
<1>2. ready' = ready \/ ready' = Append(ready, "aborted")
  BY <1>1 DEF ReadFails, ReadMore, ReadFinished, CloseAfter, Canceled
<1>3. ready' \in Seq(Handlers) /\ OnePoll' /\ OneRead'
  BY <1>1, <1>2, AbortedIsQueued DEF TypeOK, OnePoll, OneRead
<1>4. wait' \in BOOLEAN /\ timer_canceled' = TRUE
  BY DEF TypeOK, ReadFails, ReadMore, ReadFinished, CancelTimer
<1>5. TypeOK'
  BY <1>1, <1>3, <1>4 DEF TypeOK, ReadFails, ReadMore, ReadFinished, CloseAfter, Return,
         Codes, sockVars, errorVars
<1>6. TimerBehind'
  BY <1>1 DEF TimerBehind
<1>7. ReadInRun'
  BY <1>1 DEF ReadInRun, ReadFails, ReadMore, ReadFinished, Return
<1>8. Running'
  BY DEF Running, ReadFails, ReadMore, ReadFinished, Return
<1>9. Progress'
  BY DEF Progress, ReadFails, ReadMore, ReadFinished, CloseAfter, Return, sockVars
<1>10. TimerIsNew'
  BY DEF TimerIsNew, ReadFails, ReadMore, ReadFinished
<1> QED
  BY <1>3, <1>5, <1>6, <1>7, <1>8, <1>9, <1>10

-----------------------------------------------------------------------------
(* The event loop *)

\* A read that can complete at once is queued before the wait that it replaces is.
LEMMA ReadStarts ==
  ASSUME TypeOK, Inv, AsyncReadSome
  PROVE  TypeOK' /\ Inv'
<1> USE DEF Inv, timeVars
<1>1. /\ pc = "start" /\ pc' = "run" /\ read = "none"
      /\ read' \in {"pending", "ok", "error"} /\ wait' = TRUE /\ expired' = FALSE
      /\ closed => read' = "error"
  BY DEF AsyncReadSome, DoWaitTimer, ReadInRun, Progress
<1> DEFINE q == IF read' = "pending" THEN ready ELSE Append(ready, "read")
<1>2. /\ ready \in Seq(Handlers) /\ Has(ready, "poll") /\ AtMostOnce(ready, "poll")
      /\ AtMostOnce(ready, "read") /\ ~Has(ready, "read")
  BY <1>1 DEF TypeOK, OnePoll, OneRead
<1>3. /\ q \in Seq(Handlers) /\ Has(q, "poll") /\ AtMostOnce(q, "poll")
      /\ AtMostOnce(q, "read") /\ (read' = "pending" => ~Has(q, "read"))
  BY <1>2, Queued, HandlerNames
<1>4. ready' = q \/ ready' = Append(q, "aborted")
  BY DEF AsyncReadSome, DoWaitTimer
<1> HIDE DEF q
<1>5. ready' \in Seq(Handlers) /\ OnePoll' /\ OneRead'
  BY <1>1, <1>3, <1>4, AbortedIsQueued DEF OnePoll, OneRead
<1>6. TypeOK'
  BY <1>1, <1>5 DEF TypeOK, AsyncReadSome, sockVars, errorVars
<1>7. ReadInRun' /\ TimerBehind' /\ Running' /\ Progress' /\ TimerIsNew'
  BY <1>1 DEF ReadInRun, TimerBehind, Running, Progress, TimerIsNew, AsyncReadSome, sockVars
<1> QED
  BY <1>5, <1>6, <1>7

\* The reactor queues the read, the timer and itself, in this order.
LEMMA ReactorRuns ==
  ASSUME TypeOK, Inv, Poll
  PROVE  TypeOK' /\ Inv'
<1> USE DEF Inv, timeVars
<1> DEFINE a == Tail(ready)
           b == IF read' # read THEN Append(a, "read") ELSE a
           c == IF wait /\ expired THEN Append(b, "timer") ELSE b
<1>1. /\ ready \in Seq(Handlers) /\ ready # <<>> /\ Head(ready) = "poll"
      /\ pc = "run" /\ pc' = "run" /\ ~stopped /\ stopped' = stopped
      /\ wait' = (wait /\ ~expired)
      /\ read' \in IF read = "pending" THEN {"pending", "ok", "error"} ELSE {read}
  <2>1. ready \in Seq(Handlers) /\ Has(ready, "poll")
    BY DEF TypeOK, OnePoll
  <2>2. ready # <<>>
    BY <2>1 DEF Has
  <2> QED
    BY <2>1, <2>2 DEF Poll, Takes
<1>2. /\ a \in Seq(Handlers) /\ ~Has(a, "poll") /\ AtMostOnce(a, "read")
      /\ read \in {"none", "pending"} => ~Has(a, "read")
      /\ read = "ok" => wait \/ Followed(a, "read", "timer")
      /\ read = "pending" => wait
  BY <1>1, Taken DEF OnePoll, OneRead, TimerBehind
<1>3. /\ b \in Seq(Handlers) /\ ~Has(b, "poll") /\ AtMostOnce(b, "read")
      /\ read' = "pending" => ~Has(b, "read")
      /\ read' = "ok" => wait \/ Followed(b, "read", "timer")
      /\ read' = "pending" => wait
  <2>1. CASE read' # read
    BY <1>1, <1>2, <2>1, Queued, HandlerNames
  <2>2. CASE read' = read
    BY <1>1, <1>2, <2>2
  <2> QED
    BY <2>1, <2>2
<1>4. /\ c \in Seq(Handlers) /\ ~Has(c, "poll") /\ AtMostOnce(c, "read")
      /\ read' = "pending" => ~Has(c, "read")
      /\ read' = "ok" => wait' \/ Followed(c, "read", "timer")
      /\ read' = "pending" => wait' \/ Has(c, "timer")
  <2> HIDE DEF b
  <2>1. CASE wait /\ expired
    BY <1>1, <1>3, <2>1, Queued, HandlerNames
  <2>2. CASE ~(wait /\ expired)
    <3>1. c = b /\ (wait => wait')
      BY <1>1, <2>2
    <3> QED
      BY <1>3, <3>1
  <2> QED
    BY <2>1, <2>2
<1>5. ready' = Append(c, "poll")
  <2> DEFINE reads == IF read' # read THEN <<"read">> ELSE <<>>
             timers == IF wait /\ expired THEN <<"timer">> ELSE <<>>
  <2>1. ready' = a \o reads \o timers \o <<"poll">>
    BY DEF Poll
  <2>2. \A q \in Seq(Handlers), x \in Handlers : q \o <<x>> = Append(q, x) /\ q \o <<>> = q
    OBVIOUS
  <2>3. a \o reads = b
    BY <1>2, <2>2, HandlerNames
  <2>4. b \o timers = c
    BY <1>3, <2>2, HandlerNames
  <2>5. c \o <<"poll">> = Append(c, "poll")
    BY <1>4, <2>2, HandlerNames
  <2> HIDE DEF a, b, c, reads, timers
  <2> QED
    BY <2>1, <2>3, <2>4, <2>5
<1> HIDE DEF c
<1>6. /\ ready' \in Seq(Handlers) /\ OnePoll' /\ OneRead' /\ TimerBehind'
  <2> DEFINE d == Append(c, "poll")
  <2>c. c \in Seq(Handlers) /\ ~Has(c, "poll")
    BY <1>4
  <2>0. Has(c, "timer") => Ahead(d, "timer", "poll")
    BY <2>c, Queued, HandlerNames
  <2>a. d \in Seq(Handlers) /\ Has(d, "poll")
    BY <2>c, Queued, HandlerNames
  <2>p. AtMostOnce(c, "poll")
    BY <2>c DEF Has, AtMostOnce
  <2>b. AtMostOnce(d, "poll")
    BY <2>c, <2>p, Queued, HandlerNames
  <2>1. /\ d \in Seq(Handlers) /\ Has(d, "poll") /\ AtMostOnce(d, "poll")
        /\ Has(c, "timer") => Ahead(d, "timer", "poll")
    BY <2>0, <2>a, <2>b
  <2>2. /\ AtMostOnce(d, "read") /\ (~Has(c, "read") => ~Has(d, "read"))
        /\ Followed(c, "read", "timer") => Followed(d, "read", "timer")
    BY <1>4, Queued, HandlerNames
  <2>3. read # "none" /\ read' # "none"
    BY <1>1 DEF ReadInRun
  <2>4. ready' = d
    BY <1>5
  <2> HIDE DEF d
  <2> QED
    BY <1>4, <2>1, <2>2, <2>3, <2>4 DEF OnePoll, OneRead, TimerBehind
<1>7. TypeOK'
  <2>1. wait' \in BOOLEAN
    BY <1>1
  <2> QED
    BY <1>1, <1>6, <2>1 DEF TypeOK, Poll, sockVars, errorVars
<1>8. ReadInRun' /\ Running' /\ Progress' /\ TimerIsNew'
  BY <1>1 DEF ReadInRun, Running, Progress, TimerIsNew, Poll, sockVars
<1> QED
  BY <1>6, <1>7, <1>8

\* The handler of the read ends the loop; the queue is not empty if it was a
\* success, because the timer or its handler is still there.
LEMMA ReadEnded ==
  ASSUME TypeOK, Inv, OnReadSome
  PROVE  TypeOK' /\ Inv'
<1> USE DEF Inv, timeVars
<1>1. /\ ready \in Seq(Handlers) /\ ready # <<>> /\ Head(ready) = "read" /\ Has(ready, "read")
      /\ ready' = Tail(ready) /\ pc = "run" /\ pc' = "check"
      /\ read' = "none" /\ ec' = read /\ wait' = wait
  <2>1. ready \in Seq(Handlers) /\ Has(ready, "poll") /\ Head(ready) = "read"
    BY DEF TypeOK, OnePoll, OnReadSome, Takes
  <2>2. ready # <<>> /\ Has(ready, "read")
    BY <2>1 DEF Has
  <2> QED
    BY <2>1, <2>2 DEF OnReadSome, Takes
<1>2. read \in {"ok", "error"}
  BY <1>1 DEF OneRead, TypeOK
<1>3. /\ ready' \in Seq(Handlers)
      /\ Has(ready', "poll") /\ AtMostOnce(ready', "poll")
      /\ AtMostOnce(ready', "read") /\ ~Has(ready', "read")
      /\ Followed(ready, "read", "timer") => Has(ready', "timer")
  BY <1>1, Taken DEF OnePoll, OneRead
<1>4. read = "ok" => ~stopped'
  <2>1. read = "ok" => wait \/ Has(ready', "timer")
    BY <1>3 DEF TimerBehind
  <2>2. Has(ready', "timer") => ready' # <<"poll">>
    BY DEF Has
  <2>3. CASE wait
    BY <1>1, <2>3 DEF OnReadSome, Ran
  <2>4. CASE Has(ready', "timer")
    BY <2>2, <2>4 DEF OnReadSome, Ran
  <2> QED
    BY <2>1, <2>3, <2>4
<1>5. TypeOK'
  <2>1. stopped' \in BOOLEAN
    BY DEF OnReadSome, Ran
  <2> QED
    BY <1>1, <1>2, <1>3, <2>1 DEF TypeOK, OnReadSome, sockVars, errorVars
<1>6. OnePoll' /\ OneRead' /\ TimerBehind' /\ ReadInRun'
  BY <1>1, <1>3 DEF OnePoll, OneRead, TimerBehind, ReadInRun
<1>7. Running' /\ Progress' /\ TimerIsNew'
  BY <1>1, <1>2, <1>4 DEF Running, Progress, TimerIsNew, OnReadSome, sockVars
<1> QED
  BY <1>5, <1>6, <1>7

\* A wait that was cancelled does nothing.
LEMMA AbortedRuns ==
  ASSUME TypeOK, Inv, OnTimerAborted
  PROVE  TypeOK' /\ Inv'
<1> USE DEF Inv, timeVars
<1>1. /\ ready \in Seq(Handlers) /\ ready # <<>> /\ Head(ready) = "aborted"
      /\ ready' = Tail(ready) /\ pc = "run" /\ pc' = "run"
      /\ read' = read /\ wait' = wait
  <2>1. ready \in Seq(Handlers) /\ Has(ready, "poll")
    BY DEF TypeOK, OnePoll
  <2>2. ready # <<>>
    BY <2>1 DEF Has
  <2> QED
    BY <2>1, <2>2 DEF OnTimerAborted, Takes
<1>2. /\ ready' \in Seq(Handlers)
      /\ Has(ready', "poll") /\ AtMostOnce(ready', "poll")
      /\ AtMostOnce(ready', "read") /\ (~Has(ready, "read") => ~Has(ready', "read"))
      /\ Ahead(ready, "timer", "poll") => Ahead(ready', "timer", "poll")
      /\ Followed(ready, "read", "timer") => Followed(ready', "read", "timer")
  BY <1>1, Taken DEF OnePoll, OneRead
<1>3. ~stopped'
  BY <1>1 DEF OnTimerAborted, Ran, ReadInRun
<1>4. TypeOK'
  <2>1. wait' \in BOOLEAN /\ stopped' \in BOOLEAN
    BY <1>1, <1>3 DEF TypeOK, OnTimerAborted, Ran
  <2> QED
    BY <1>1, <1>2, <2>1 DEF TypeOK, OnTimerAborted, sockVars, errorVars
<1>5. OnePoll' /\ OneRead' /\ TimerBehind' /\ ReadInRun'
  BY <1>1, <1>2 DEF OnePoll, OneRead, TimerBehind, ReadInRun, OnTimerAborted, sockVars
<1>6. Running' /\ Progress' /\ TimerIsNew'
  BY <1>1, <1>3 DEF Running, Progress, TimerIsNew, OnTimerAborted, sockVars
<1> QED
  BY <1>4, <1>5, <1>6

\* The handler of a timer closes the client, or waits for the timer there is now;
\* a read that was pending is aborted or has its timer again.
LEMMA TimerRuns ==
  ASSUME TypeOK, Inv, OnTimer
  PROVE  TypeOK' /\ Inv'
<1> USE DEF Inv, timeVars
<1> DEFINE q == Tail(ready)
<1>1. /\ ready \in Seq(Handlers) /\ ready # <<>> /\ Head(ready) = "timer"
      /\ pc = "run" /\ pc' = "run"
  <2>1. ready \in Seq(Handlers) /\ Has(ready, "poll")
    BY DEF TypeOK, OnePoll
  <2>2. ready # <<>>
    BY <2>1 DEF Has
  <2> QED
    BY <2>1, <2>2 DEF OnTimer, Takes
<1>2. /\ q \in Seq(Handlers)
      /\ Has(q, "poll") /\ AtMostOnce(q, "poll")
      /\ AtMostOnce(q, "read") /\ (~Has(ready, "read") => ~Has(q, "read"))
      /\ Followed(ready, "read", "timer") => Followed(q, "read", "timer")
  BY <1>1, Taken DEF OnePoll, OneRead
<1>3. read \in {"pending", "ok", "error"}
  BY <1>1 DEF TypeOK, ReadInRun
<1> HIDE DEF q
<1>4. /\ ready' \in Seq(Handlers) /\ OnePoll' /\ OneRead' /\ TimerBehind' /\ ReadInRun'
      /\ read' \in {"pending", "ok", "error"} /\ wait' \in BOOLEAN /\ expired' \in BOOLEAN
      /\ timeout' \in BOOLEAN /\ sock' \in {"none", "open", "closed"} /\ closed' \in BOOLEAN
      /\ (sock' = "open" => ~closed') /\ (~closed' => sock' = "open")
  <2>1. CASE closed /\ ready' = q /\ UNCHANGED <<sockVars, timeout, read, wait, expired>>
    BY <1>1, <1>2, <1>3, <2>1
       DEF TypeOK, OnePoll, OneRead, TimerBehind, ReadInRun, Progress, sockVars
  <2>2. CASE ~closed /\ timeout' = TRUE /\ CloseAfter(q) /\ UNCHANGED <<wait, expired>>
    <3>1. CASE read = "pending"
      <4>1. ready' = Append(q, "read") /\ read' = "error" /\ ~Has(q, "read")
        BY <1>2, <2>2, <3>1 DEF CloseAfter, OneRead
      <4>2. /\ ready' \in Seq(Handlers) /\ Has(ready', "poll") /\ AtMostOnce(ready', "poll")
            /\ AtMostOnce(ready', "read")
        BY <1>2, <4>1, Queued, HandlerNames
      <4> QED
        BY <1>1, <2>2, <4>1, <4>2
           DEF TypeOK, OnePoll, OneRead, TimerBehind, ReadInRun, CloseAfter
    <3>2. CASE read # "pending"
      BY <1>1, <1>2, <1>3, <2>2, <3>2
         DEF TypeOK, OnePoll, OneRead, TimerBehind, ReadInRun, CloseAfter
    <3> QED
      BY <3>1, <3>2
  <2>3. CASE ~closed /\ DoWaitTimer(q) /\ UNCHANGED <<sockVars, timeout, read>>
    <3>1. /\ ready' \in Seq(Handlers)
          /\ Has(ready', "poll") /\ AtMostOnce(ready', "poll")
          /\ AtMostOnce(ready', "read") /\ (~Has(q, "read") => ~Has(ready', "read"))
      BY <1>2, <2>3, AbortedIsQueued DEF DoWaitTimer
    <3> QED
      BY <1>1, <1>2, <1>3, <2>3, <3>1
         DEF TypeOK, OnePoll, OneRead, TimerBehind, ReadInRun, Progress, sockVars, DoWaitTimer
  <2> QED
    BY <2>1, <2>2, <2>3 DEF OnTimer, q
<1>5. ~stopped'
  BY <1>4 DEF OnTimer, Ran
<1>6. TypeOK'
  <2>1. stopped' \in BOOLEAN
    BY DEF OnTimer, Ran
  <2>2. UNCHANGED <<connect, timer_canceled, code, sent, ec, waited>>
    BY DEF OnTimer
  <2> QED
    BY <1>1, <1>4, <2>1, <2>2 DEF TypeOK
<1>7. Running' /\ Progress'
  BY <1>1, <1>4, <1>5 DEF Running, Progress, OnTimer
<1>8. TimerIsNew'
  <2>1. waited' = waited /\ (expired' = expired \/ expired' = FALSE)
    BY DEF OnTimer, DoWaitTimer
  <2> QED
    BY <2>1 DEF TimerIsNew
<1> QED
  BY <1>4, <1>6, <1>7, <1>8

-----------------------------------------------------------------------------
(* The theorems *)

\* The invariant holds in every state: the loop has one turn of the reactor, one
\* handler for a read that completed, and a timer behind each read that may take
\* its time (DoReadResponse() and OnTimer(), client.cc).
THEOREM InvCorrect == Spec => [](TypeOK /\ Inv)
<1>1. Init => TypeOK /\ Inv
  <2> SUFFICES ASSUME Init PROVE TypeOK /\ Inv
    OBVIOUS
  <2>1. /\ ready \in Seq(Handlers) /\ Len(ready) = 1 /\ ready[1] = "poll"
    BY HandlerNames DEF Init
  <2>2. TypeOK
    BY <2>1 DEF Init, TypeOK, Codes
  <2>3. Has(ready, "poll") /\ AtMostOnce(ready, "poll") /\ AtMostOnce(ready, "read")
    BY <2>1 DEF Has, AtMostOnce
  <2>4. ~Has(ready, "read")
    BY <2>1 DEF Has
  <2> QED
    BY <2>2, <2>3, <2>4
       DEF Init, Inv, OnePoll, OneRead, ReadInRun, TimerBehind, Running, Progress, TimerIsNew
<1>2. TypeOK /\ Inv /\ [Next]_vars => TypeOK' /\ Inv'
  <2> SUFFICES ASSUME TypeOK, Inv, [Next]_vars PROVE TypeOK' /\ Inv'
    OBVIOUS
  <2>1. CASE UNCHANGED vars
    BY <2>1 DEF vars, sockVars, errorVars, loopVars, timeVars, TypeOK, Inv, OnePoll, OneRead,
                ReadInRun, TimerBehind, Running, Progress, TimerIsNew
  <2> QED
    BY <2>1, WriteSteps, CheckSteps, ReadStarts, ReactorRuns, ReadEnded, AbortedRuns, TimerRuns
       DEF Next, Step
<1> QED
  BY <1>1, <1>2, PTL DEF Spec

\* The handler of the read, which refers to variables of DoReadResponse(), runs
\* before that returns (client.cc, the loop over run_one()), and the buffer is
\* filled by one read at a time.
THEOREM NoReadIsLeft == Spec => []NoDanglingRead
<1>1. Inv => NoDanglingRead
  BY DEF Inv, OneRead, ReadInRun, NoDanglingRead, Has
<1> QED
  BY <1>1, InvCorrect, PTL

\* While DoReadResponse() waits for a read, io_context_ has work: run_one() does
\* not return at once for ever.
THEOREM TheLoopIsNotStopped == Spec => []LoopHasWork
<1>1. Inv => LoopHasWork
  BY DEF Inv, Running, LoopHasWork
<1> QED
  BY <1>1, InvCorrect, PTL

\* Whatever happens on the way, Request() returns with one of the outcomes that
\* ClientSession is written for: the error, closed(), the socket and what was sent
\* agree (client.cc, client_session.cc).
THEOREM TheContractIsKept == Spec => KeepsContract
<1>1. TypeOK /\ Inv /\ TypeOK' /\ [Next]_vars =>
        [pc # "idle" /\ pc' = "idle" => Left' \in Outcomes(connect)]_vars
  <2> SUFFICES ASSUME TypeOK, Inv, TypeOK', [Next]_vars, pc # "idle", pc' = "idle"
               PROVE  Left' \in Outcomes(connect)
    BY DEF vars
  <2> USE DEF Inv
  <2>1. Left' \in Outcome
    BY DEF Left, Outcome, TypeOK
  <2>2. /\ Left'.code = code' /\ Left'.closed = closed' /\ Left'.open = (sock' = "open")
        /\ Left'.sent = sent'
    BY DEF Left
  <2>3. \/ ConnectRefused \/ ConnectFails \/ WriteFails \/ WriteThrows
        \/ ReadFails \/ ReadFinished
    BY DEF Next, Step, Request, Connect, WriteRequest, AsyncReadSome, Poll, OnReadSome, OnTimerAborted,
           OnTimer, ReadMore, Expire, Takes, vars
  <2> HIDE DEF Left
  <2>4. CASE ConnectRefused
    <3>1. /\ connect /\ ~closed' /\ sock' # "open" /\ sent' = "none"
          /\ code' \in {"SyntaxError", "ResolveError"}
      BY <2>4 DEF ConnectRefused, Return, Progress
    <3> QED
      BY <2>1, <2>2, <3>1 DEF Outcomes
  <2>5. CASE ConnectFails
    BY <2>1, <2>2, <2>5 DEF ConnectFails, Return, Outcomes, Progress
  <2>6. CASE WriteFails
    BY <2>1, <2>2, <2>6 DEF WriteFails, Close, CloseAfter, Return, Outcomes, Progress
  <2>7. CASE WriteThrows
    <3>1. ~closed' /\ sock' = "open" /\ sent' = "part" /\ code' = "FileError"
      BY <2>7 DEF WriteThrows, Return, Progress, sockVars
    <3> QED
      BY <2>1, <2>2, <3>1 DEF Outcomes
  <2>8. CASE ReadFails
    BY <2>1, <2>2, <2>8 DEF ReadFails, CloseAfter, Return, Outcomes, Progress
  <2>9. CASE ReadFinished
    BY <2>1, <2>2, <2>9 DEF ReadFinished, CloseAfter, Return, Outcomes, Progress, sockVars
  <2> QED
    BY <2>3, <2>4, <2>5, <2>6, <2>7, <2>8, <2>9
<1> QED
  BY <1>1, InvCorrect, PTL DEF Spec, KeepsContract

\* A read times out only when the timeout has passed since it was begun: OnTimer()
\* looks at the expiry, which AsyncReadSome()'s DoWaitTimer() has moved, when it handles
\* the timer of an earlier read (client.cc).
THEOREM TheTimeoutIsReal == Spec => TimeoutIsReal
<1>1. Inv /\ [Next]_vars => [timeout' /\ ~timeout => waited]_vars
  <2> SUFFICES ASSUME Inv, [Next]_vars, timeout', ~timeout PROVE waited
    BY DEF vars
  <2>1. CASE OnTimer
    <3>1. expired
      BY <2>1 DEF OnTimer, CloseAfter, DoWaitTimer
    <3> QED
      BY <3>1 DEF Inv, TimerIsNew
  <2>2. CASE UNCHANGED timeout
    BY <2>2
  <2> QED
    BY <2>1, <2>2 DEF Next, Step, Request, ConnectRefused, ConnectFails, Connect, WriteFails,
       WriteThrows, WriteRequest, AsyncReadSome, Poll, OnReadSome, OnTimerAborted, ReadFails,
       ReadMore, ReadFinished, Expire, vars, errorVars
<1> QED
  BY <1>1, InvCorrect, PTL DEF Spec, TimeoutIsReal

=============================================================================
