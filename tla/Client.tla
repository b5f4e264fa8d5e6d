-------------------------------- MODULE Client --------------------------------
(***************************************************************************)
(* The HTTP client, webcc/client.cc over webcc/socket.cc.  Request() runs  *)
(* in one thread.  It connects and writes with synchronous calls; it reads *)
(* with an asynchronous read and a timer, and runs the handlers of both    *)
(* itself, one at a time, until the read has completed.                    *)
(*                                                                         *)
(* The event loop keeps its ready handlers in a queue.  "poll" stands in   *)
(* it for the turn of the reactor, which appends the read that has become  *)
(* ready, then the timer that has expired, then itself.  An operation that *)
(* can complete at once, and one that is cancelled, is appended at once.   *)
(* The loop stops for good, until restart(), when a handler leaves it with *)
(* no work: a handler in the queue is work, and so is a pending operation. *)
(***************************************************************************)
EXTENDS Naturals, Sequences, RequestOutcome

VARIABLES
  pc,              \* where the thread is in Request()
  connect,         \* the argument of Request()
  sock,            \* socket_: never connected, open or closed
  closed,          \* closed_
  timer_canceled,  \* timer_canceled_
  code,            \* error_.code(), or the code of the error that was thrown
  timeout,         \* error_.timeout()
  sent,            \* how much of the request was written
  read,            \* the asynchronous read, and what its handler will be given
  ec,              \* what the handler of the read has set
  wait,            \* an asynchronous wait on timer_ is pending
  expired,         \* timer_.expiry() has passed
  waited,          \* history: the timeout has passed since the last read began
  ready,           \* the queue of io_context_
  stopped          \* io_context_.stopped()

sockVars == <<sock, closed>>
errorVars == <<code, timeout>>
timeVars == <<expired, waited>>
loopVars == <<read, ec, wait, timeVars, ready, stopped>>
vars == <<pc, connect, sockVars, timer_canceled, errorVars, sent, loopVars>>

\* A "timer" in the queue is an OnTimer() for a timer that expired, an
\* "aborted" one for a wait that was cancelled.
Handlers == {"poll", "read", "timer", "aborted"}

TypeOK ==
  /\ pc \in {"idle", "connect", "write", "start", "run", "check"}
  /\ connect \in BOOLEAN
  /\ sock \in {"none", "open", "closed"}
  /\ closed \in BOOLEAN
  /\ timer_canceled \in BOOLEAN
  /\ code \in Codes
  /\ timeout \in BOOLEAN
  /\ sent \in {"none", "part", "all"}
  /\ read \in {"none", "pending", "ok", "error"}
  /\ ec \in {"would_block", "ok", "error"}
  /\ wait \in BOOLEAN
  /\ expired \in BOOLEAN
  /\ waited \in BOOLEAN
  /\ ready \in Seq(Handlers)
  /\ stopped \in BOOLEAN

Init ==
  /\ pc = "idle" /\ connect = TRUE
  /\ sock = "none" /\ closed = FALSE
  /\ timer_canceled = FALSE
  /\ code = "OK" /\ timeout = FALSE
  /\ sent = "none"
  /\ read = "none" /\ ec = "would_block"
  /\ wait = FALSE /\ expired = FALSE /\ waited = FALSE
  /\ ready = <<"poll">> /\ stopped = FALSE

-----------------------------------------------------------------------------
(* Request(): connect and write *)

\* Seeded bug: the event loop is not restarted.
RequestNoRestart ==
  /\ pc = "idle"
  /\ connect' = (sock # "open")
  /\ pc' = IF connect' THEN "connect" ELSE "write"
  /\ closed' = FALSE
  /\ timer_canceled' = FALSE
  /\ code' = "OK" /\ timeout' = FALSE
  /\ sent' = "none"
  /\ UNCHANGED <<sock, loopVars>>

\* Request() is called with connect, unless the socket was kept open.
Request ==
  /\ pc = "idle"
  /\ connect' = (sock # "open")
  /\ pc' = IF connect' THEN "connect" ELSE "write"
  /\ closed' = FALSE
  /\ timer_canceled' = FALSE
  /\ code' = "OK" /\ timeout' = FALSE
  /\ sent' = "none"
  /\ stopped' = FALSE
  /\ UNCHANGED <<sock, read, ec, wait, timeVars, ready>>

Return(c) == pc' = "idle" /\ code' = c

\* The scheme is not supported, or socket_ is a new one and the host cannot be
\* resolved.
ConnectRefused ==
  /\ pc = "connect"
  /\ \/ Return("SyntaxError") /\ UNCHANGED sock
     \/ Return("ResolveError") /\ sock' = "none"
  /\ UNCHANGED <<connect, closed, timer_canceled, timeout, sent, loopVars>>

ConnectFails ==
  /\ pc = "connect"
  /\ sock' = "closed"
  /\ closed' = TRUE
  /\ Return("ConnectError")
  /\ UNCHANGED <<connect, timer_canceled, timeout, sent, loopVars>>

Connect ==
  /\ pc = "connect"
  /\ sock' = "open"
  /\ pc' = "write"
  /\ UNCHANGED <<connect, closed, timer_canceled, errorVars, sent, loopVars>>

\* Close(): a pending read is aborted.  Appended is what is queued before.
CloseAfter(appended) ==
  IF closed
  THEN /\ ready' = appended
       /\ UNCHANGED <<sock, closed, read>>
  ELSE /\ closed' = TRUE
       /\ sock' = "closed"
       /\ IF read = "pending"
          THEN read' = "error" /\ ready' = Append(appended, "read")
          ELSE ready' = appended /\ UNCHANGED read

Close == CloseAfter(ready)

WriteFails ==
  /\ pc = "write"
  /\ sent' \in {"none", "part"}
  /\ Close
  /\ Return("SocketWriteError")
  /\ UNCHANGED <<connect, timer_canceled, timeout, ec, wait, timeVars, stopped>>

\* Reading a file of the body throws, after the headers were written.
WriteThrows ==
  /\ pc = "write"
  /\ sent' = "part"
  /\ Return("FileError")
  /\ UNCHANGED <<connect, sockVars, timer_canceled, timeout, loopVars>>

WriteRequest ==
  /\ pc = "write"
  /\ sent' = "all"
  /\ pc' = "start"
  /\ UNCHANGED <<connect, sockVars, timer_canceled, errorVars, loopVars>>

-----------------------------------------------------------------------------
(* DoReadResponse() *)

\* expires_after() cancels the wait there is; async_wait() starts another.
\* Appended is what is queued before.
DoWaitTimer(appended) ==
  /\ ready' = IF wait THEN Append(appended, "aborted") ELSE appended
  /\ wait' = TRUE
  /\ expired' = FALSE

\* Seeded bug: a timer that is still waited for is not started again.
AsyncReadSomeOldTimer ==
  /\ pc = "start"
  /\ ec' = "would_block"
  /\ read' \in IF sock = "open" THEN {"pending", "ok", "error"} ELSE {"error"}
  /\ LET appended == IF read' = "pending" THEN ready ELSE Append(ready, "read")
     IN  IF wait THEN ready' = appended /\ UNCHANGED <<wait, expired>> ELSE DoWaitTimer(appended)
  /\ waited' = FALSE
  /\ pc' = "run"
  /\ UNCHANGED <<connect, sockVars, timer_canceled, errorVars, sent, stopped>>

\* The top of the loop: AsyncReadSome() and DoWaitTimer().  The read completes
\* at once if the socket is closed or has something to read.
AsyncReadSome ==
  /\ pc = "start"
  /\ ec' = "would_block"
  /\ read' \in IF sock = "open" THEN {"pending", "ok", "error"} ELSE {"error"}
  /\ DoWaitTimer(IF read' = "pending" THEN ready ELSE Append(ready, "read"))
  /\ waited' = FALSE
  /\ pc' = "run"
  /\ UNCHANGED <<connect, sockVars, timer_canceled, errorVars, sent, stopped>>

\* run_one() takes the handler at the head of the queue.
Takes(h) == pc = "run" /\ ~stopped /\ Head(ready) = h

\* A handler has run.
Ran == stopped' = (read' = "none" /\ ~wait' /\ ready' = <<"poll">>)

\* The turn of the reactor; it blocks if there is nothing to run.
Poll ==
  /\ Takes("poll")
  /\ read' \in IF read = "pending" THEN {"pending", "ok", "error"} ELSE {read}
  /\ LET reads == IF read' # read THEN <<"read">> ELSE <<>>
         timers == IF wait /\ expired THEN <<"timer">> ELSE <<>>
     IN  /\ Len(ready) > 1 \/ reads # <<>> \/ timers # <<>>
         /\ ready' = Tail(ready) \o reads \o timers \o <<"poll">>
  /\ wait' = (wait /\ ~expired)
  /\ UNCHANGED <<pc, connect, sockVars, timer_canceled, errorVars, sent, ec,
                 timeVars, stopped>>

\* The handler of the read ends the inner loop.
OnReadSome ==
  /\ Takes("read")
  /\ ec' = read
  /\ read' = "none"
  /\ ready' = Tail(ready)
  /\ pc' = "check"
  /\ UNCHANGED <<connect, sockVars, timer_canceled, errorVars, sent, wait, timeVars>>
  /\ Ran

\* Seeded bug: a run_one() that has run a handler is taken for a read.
OnTimerAbortedReturns ==
  /\ Takes("aborted")
  /\ ready' = Tail(ready)
  /\ pc' = "check"
  /\ UNCHANGED <<read, wait>>
  /\ Ran
  /\ UNCHANGED <<connect, sockVars, timer_canceled, errorVars, sent, ec, timeVars>>

\* Seeded bug: a wait that was cancelled is started again.
OnTimerAbortedSleeps ==
  /\ Takes("aborted")
  /\ IF closed THEN ready' = Tail(ready) /\ UNCHANGED <<wait, expired>> ELSE DoWaitTimer(Tail(ready))
  /\ UNCHANGED read
  /\ Ran
  /\ UNCHANGED <<pc, connect, sockVars, timer_canceled, errorVars, sent, ec, waited>>

OnTimerAborted ==
  /\ Takes("aborted")
  /\ ready' = Tail(ready)
  /\ UNCHANGED <<read, wait>>
  /\ Ran
  /\ UNCHANGED <<pc, connect, sockVars, timer_canceled, errorVars, sent, ec, timeVars>>

\* Seeded bug: the socket is left open, the timer put back to sleep.
OnTimerSleeps ==
  /\ Takes("timer")
  /\ DoWaitTimer(Tail(ready))
  /\ UNCHANGED <<sockVars, timeout, read>>
  /\ Ran
  /\ UNCHANGED <<pc, connect, timer_canceled, code, sent, ec, waited>>

\* Seeded bug: the timer closes socket_ and not the client.
OnTimerSocketOnly ==
  /\ Takes("timer")
  /\ expired
  /\ timeout' = TRUE
  /\ sock' = "closed"
  /\ IF read = "pending"
     THEN read' = "error" /\ ready' = Append(Tail(ready), "read")
     ELSE ready' = Tail(ready) /\ UNCHANGED read
  /\ UNCHANGED <<closed, wait, expired>>
  /\ Ran
  /\ UNCHANGED <<pc, connect, timer_canceled, code, sent, ec, waited>>

\* OnTimer() for a timer that expired: it may be one of an earlier read, and
\* then timer_.expiry() is a later one.
OnTimer ==
  /\ Takes("timer")
  /\ \/ /\ closed
        /\ ready' = Tail(ready)
        /\ UNCHANGED <<sockVars, timeout, read, wait, expired>>
     \/ /\ ~closed
        /\ expired
        /\ timeout' = TRUE
        /\ CloseAfter(Tail(ready))
        /\ UNCHANGED <<wait, expired>>
     \/ /\ ~closed
        /\ ~expired
        /\ DoWaitTimer(Tail(ready))
        /\ UNCHANGED <<sockVars, timeout, read>>
  /\ Ran
  /\ UNCHANGED <<pc, connect, timer_canceled, code, sent, ec, waited>>

\* CancelTimer(), once in a Request().
Canceled == IF wait /\ ~timer_canceled THEN Append(ready, "aborted") ELSE ready

CancelTimer ==
  /\ timer_canceled' = TRUE
  /\ wait' = (wait /\ timer_canceled)

\* The read failed, or what was read cannot be parsed.
ReadFails ==
  /\ pc = "check"
  /\ CancelTimer
  /\ CloseAfter(Canceled)
  /\ Return(IF ec = "ok" THEN "ParseError" ELSE "SocketReadError")
  /\ UNCHANGED <<connect, timeout, sent, ec, timeVars, stopped>>

ReadMore ==
  /\ pc = "check"
  /\ ec = "ok"
  /\ CancelTimer
  /\ ready' = Canceled
  /\ pc' = "start"
  /\ UNCHANGED <<connect, sockVars, errorVars, sent, read, ec, timeVars, stopped>>

\* The response is complete; its Connection header may ask to keep the socket.
ReadFinished ==
  /\ pc = "check"
  /\ ec = "ok"
  /\ CancelTimer
  /\ \/ ready' = Canceled /\ UNCHANGED <<sockVars, read>>
     \/ CloseAfter(Canceled)
  /\ Return("OK")
  /\ UNCHANGED <<connect, timeout, sent, ec, timeVars, stopped>>

-----------------------------------------------------------------------------
\* Time passes, as long as the timer was set for.
Expire ==
  /\ ~expired
  /\ expired' = TRUE
  /\ waited' = TRUE
  /\ UNCHANGED <<pc, connect, sockVars, timer_canceled, errorVars, sent, read, ec,
                 wait, ready, stopped>>

Step ==
  \/ ConnectRefused \/ ConnectFails \/ Connect
  \/ WriteFails \/ WriteThrows \/ WriteRequest
  \/ AsyncReadSome
  \/ Poll \/ OnReadSome \/ OnTimerAborted \/ OnTimer
  \/ ReadFails \/ ReadMore \/ ReadFinished

Next == Request \/ Step \/ Expire

\* The thread runs and time passes.  The network owes nothing.
Spec == Init /\ [][Next]_vars /\ WF_vars(Step) /\ WF_vars(Expire)

-----------------------------------------------------------------------------
\* The handler of the read refers to variables of DoReadResponse(): it has run
\* before that returns, and no two reads fill the buffer.
NoDanglingRead == pc # "run" => read = "none" /\ \A i \in 1..Len(ready) : ready[i] # "read"

\* While DoReadResponse() waits for its read, the event loop has work and is
\* not stopped: run_one() does not return at once for ever.
LoopHasWork == pc = "run" => ~stopped

\* Request() leaves behind what a ClientSession relies on; in particular,
\* closed_ tells whether the socket can be used again, and a request that could
\* not be written was not sent as a whole.
Left == [code |-> code, closed |-> closed, open |-> (sock = "open"), sent |-> sent]
KeepsContract == [][pc # "idle" /\ pc' = "idle" => Left' \in Outcomes(connect)]_vars

\* A read does not time out before its time, whichever timers were left running by
\* the reads before it or by an earlier request.
TimeoutIsReal == [][timeout' /\ ~timeout => waited]_vars

\* CancelTimer() works once in a request, and run_one() is not called when there is
\* nothing to read: still, however many reads and requests there are, no more than two
\* handlers of their timers are left in the event loop.
IsOfTimer(h) == h \in {"timer", "aborted"}
TimersDoNotPileUp == Len(SelectSeq(ready, IsOfTimer)) <= 2

\* Whatever the server does, each read ends, by the timer if not otherwise.
ReadEnds == pc = "run" ~> pc # "run"

=============================================================================
