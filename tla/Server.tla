-------------------------------- MODULE Server --------------------------------
(***************************************************************************)
(* The HTTP server, webcc/server.cc, around its connections: Run(), which  *)
(* listens, starts the workers and runs the event loop in some threads;    *)
(* the handlers of the acceptor and of the signals; the workers; and       *)
(* DoStop(), which Stop() calls from any thread with state_mutex_ held and *)
(* the signal handler calls from a loop thread without it.  Run() may be   *)
(* called again after it has returned (examples/server_states.cc).         *)
(***************************************************************************)
EXTENDS Connection

CONSTANTS
  Stoppers,    \* the threads that call Stop()
  NoThread,    \* state_mutex_ is free
  MaxRuns,     \* bound: calls of Run() that start the server
  MaxStops,    \* bound: calls of Stop()
  MaxSignals   \* bound: signals the process gets

ASSUME StoppersAssumption ==
  Stoppers \cap Threads = {} /\ NoThread \notin Stoppers
ASSUME BoundsAssumption ==
  MaxRuns \in Nat /\ MaxStops \in Nat /\ MaxSignals \in Nat

VARIABLES
  run,             \* whether the thread that calls Run() is in it
  runs,            \* how often it started the server
  running,         \* running_
  mutex,           \* the thread that holds state_mutex_
  acceptor,        \* acceptor_: "open" if it is open but does not listen
  accept_waits,    \* async_accept calls that wait for a client
  accepted,        \* clients whose accept handler is ready to run
  accept_errors,   \* accept handlers ready to run with an error
  sig_pending,     \* signals the event loop has not seen yet
  sig_waits,       \* async_wait calls on signals_ that wait for a signal
  sig_ready,       \* signal handlers ready to run
  sig_undelivered, \* signals the event loop saw when nobody waited
  raised,          \* signals raised so far
  stops,           \* calls of Stop() so far
  stop             \* where each thread is in DoStop()

acceptVars == <<acceptor, accept_waits, accepted, accept_errors>>
sigVars == <<sig_pending, sig_waits, sig_ready, sig_undelivered, raised>>
runVars == <<run, runs, running>>
serverVars == <<runVars, mutex, acceptVars, sigVars, stops, stop>>
vars == <<connVars, queue, at, on, stopped, serverVars>>

StopPCs == {"none", "mutex", "acceptor", "drop", "poison", "join", "drain",
            "pool", "io", "flag"}

ServerTypeOK ==
  /\ run \in {"out", "in"}
  /\ runs \in Nat
  /\ running \in BOOLEAN
  /\ mutex \in Stoppers \cup {NoThread}
  /\ acceptor \in {"closed", "open", "listening"}
  /\ accept_waits \in Nat
  /\ accepted \in SUBSET Connections
  /\ accept_errors \in Nat
  /\ sig_pending \in Nat
  /\ sig_waits \in Nat
  /\ sig_ready \in Nat
  /\ sig_undelivered \in Nat
  /\ raised \in Nat
  /\ stop \in [Stoppers \cup Loops -> StopPCs]
  /\ stops \in Nat

TypeOK == SocketsTypeOK /\ ThreadsTypeOK /\ ServerTypeOK

Init ==
  /\ ConnInit
  /\ run = "out" /\ runs = 0 /\ running = FALSE
  /\ mutex = NoThread
  /\ acceptor = "closed" /\ accept_waits = 0 /\ accepted = {} /\ accept_errors = 0
  /\ sig_pending = 0 /\ sig_waits = 0 /\ sig_ready = 0 /\ sig_undelivered = 0
  /\ raised = 0
  /\ stop = [d \in Stoppers \cup Loops |-> "none"]
  /\ stops = 0

-----------------------------------------------------------------------------
(* Run() *)

IsRunning == running /\ ~stopped

\* async_wait(): a signal nobody waited for completes it at once.
AsyncWaitSignals ==
  /\ \/ /\ sig_undelivered = 0
        /\ sig_waits' = sig_waits + 1
        /\ UNCHANGED <<sig_ready, sig_undelivered>>
     \/ /\ sig_undelivered > 0
        /\ sig_ready' = sig_ready + 1
        /\ sig_undelivered' = sig_undelivered - 1
        /\ UNCHANGED sig_waits
  /\ UNCHANGED <<sig_pending, raised>>

\* The part of Run() that holds state_mutex_; while the server is running, it
\* returns without an effect.  io_context_ is restarted with all the handlers
\* that have not run yet.
BeginRun ==
  /\ run = "out"
  /\ runs < MaxRuns
  /\ mutex = NoThread
  /\ ~IsRunning
  /\ running' = TRUE
  /\ stopped' = FALSE

Run ==
  /\ BeginRun
  /\ run' = "in"
  /\ runs' = runs + 1
  /\ acceptor' = "listening"
  /\ accept_waits' = accept_waits + 1
  /\ AsyncWaitSignals
  /\ at' = [t \in Threads |-> IF t \in Loops THEN "idle" ELSE "pop"]
  /\ UNCHANGED <<connVars, queue, on, mutex, accepted, accept_errors, stops, stop>>

\* Listen() fails, with the acceptor open or not; running_ stays true.
RunNotListening ==
  /\ BeginRun
  /\ acceptor' \in {"closed", "open"}
  /\ UNCHANGED <<connVars, queue, at, on, run, runs, mutex, accept_waits, accepted,
                 accept_errors, sigVars, stops, stop>>

\* io_context::run() returns in one loop thread.
LoopReturns(l) ==
  /\ at[l] = "idle"
  /\ stopped
  /\ Goto(l, "out", NoConnection)
  /\ UNCHANGED <<connVars, queue, stopped, serverVars>>

RunReturns ==
  /\ run = "in"
  /\ \A l \in Loops : at[l] = "out"
  /\ run' = "out"
  /\ UNCHANGED <<connVars, queue, at, on, stopped, runs, running, mutex,
                 acceptVars, sigVars, stops, stop>>

-----------------------------------------------------------------------------
(* The acceptor and its handler *)

\* A client connects.
Connect(c) ==
  /\ acceptor = "listening"
  /\ accept_waits > 0
  /\ sock[c] = "none"
  /\ sock' = [sock EXCEPT ![c] = "open"]
  /\ accepted' = accepted \cup {c}
  /\ accept_waits' = accept_waits - 1
  /\ UNCHANGED <<pool, op, result, keep_alive, response, queue, at, on, stopped,
                 runVars, mutex, acceptor, accept_errors, sigVars, stops, stop>>

\* accept() fails, for example for want of file descriptors.
AcceptFails ==
  /\ acceptor = "listening"
  /\ accept_waits > 0
  /\ accept_waits' = accept_waits - 1
  /\ accept_errors' = accept_errors + 1
  /\ UNCHANGED <<connVars, queue, at, on, stopped, runVars, mutex, acceptor,
                 accepted, sigVars, stops, stop>>

\* The handler runs with a socket.  If the acceptor is closed, it returns and
\* the socket is destroyed.
OnAccept(l, c) ==
  /\ ~stopped
  /\ at[l] = "idle"
  /\ c \in accepted
  /\ accepted' = accepted \ {c}
  /\ \/ /\ acceptor = "closed"
        /\ sock' = [sock EXCEPT ![c] = "closed"]
        /\ UNCHANGED <<at, on>>
     \/ /\ acceptor # "closed"
        /\ Goto(l, "insert", c)
        /\ UNCHANGED sock
  /\ UNCHANGED <<pool, op, result, keep_alive, response, queue, stopped, runVars,
                 mutex, acceptor, accept_waits, accept_errors, sigVars, stops, stop>>

\* Seeded bug: the handler gives up on an error.
OnAcceptErrorGivesUp(l) ==
  /\ ~stopped
  /\ at[l] = "idle"
  /\ accept_errors > 0
  /\ accept_errors' = accept_errors - 1
  /\ UNCHANGED <<connVars, queue, at, on, stopped, runVars, mutex, acceptor,
                 accept_waits, accepted, sigVars, stops, stop>>

\* The handler runs with an error.
OnAcceptError(l) ==
  /\ ~stopped
  /\ at[l] = "idle"
  /\ accept_errors > 0
  /\ accept_errors' = accept_errors - 1
  /\ IF acceptor = "closed" THEN UNCHANGED <<at, on>> ELSE Goto(l, "rearm", NoConnection)
  /\ UNCHANGED <<connVars, queue, stopped, runVars, mutex, acceptor, accept_waits,
                 accepted, sigVars, stops, stop>>

\* The handler calls AsyncAccept() again.  The acceptor may have been closed
\* since the handler looked.
Rearm(l) ==
  /\ at[l] = "rearm"
  /\ IF acceptor = "listening"
     THEN accept_waits' = accept_waits + 1 /\ UNCHANGED accept_errors
     ELSE accept_errors' = accept_errors + 1 /\ UNCHANGED accept_waits
  /\ Goto(l, "idle", NoConnection)
  /\ UNCHANGED <<connVars, queue, stopped, runVars, mutex, acceptor, accepted,
                 sigVars, stops, stop>>

-----------------------------------------------------------------------------
(* Signals *)

RaiseSignal ==
  /\ raised < MaxSignals
  /\ raised' = raised + 1
  /\ sig_pending' = sig_pending + 1
  /\ UNCHANGED <<connVars, queue, at, on, stopped, runVars, mutex, acceptVars,
                 sig_waits, sig_ready, sig_undelivered, stops, stop>>

\* Seeded bug: a signal is taken to complete exactly one wait.
DeliverSignalToOne(l) ==
  /\ ~stopped
  /\ at[l] = "idle"
  /\ sig_pending > 0
  /\ sig_pending' = sig_pending - 1
  /\ sig_ready' = sig_ready + 1
  /\ sig_waits' = sig_waits - 1
  /\ UNCHANGED <<connVars, queue, at, on, stopped, runVars, mutex, acceptVars,
                 sig_undelivered, raised, stops, stop>>

\* The event loop sees the signal and completes every async_wait() there is.
\* Stop() does not cancel them, so a restarted server has several.
DeliverSignal(l) ==
  /\ ~stopped
  /\ at[l] = "idle"
  /\ sig_pending > 0
  /\ sig_pending' = sig_pending - 1
  /\ \/ /\ sig_waits = 0
        /\ sig_undelivered' = sig_undelivered + 1
        /\ UNCHANGED <<sig_waits, sig_ready>>
     \/ /\ sig_waits > 0
        /\ sig_ready' = sig_ready + sig_waits
        /\ sig_waits' = 0
        /\ UNCHANGED sig_undelivered
  /\ UNCHANGED <<connVars, queue, at, on, stopped, runVars, mutex, acceptVars,
                 raised, stops, stop>>

\* The handler calls DoStop() and does not take state_mutex_.
OnSignal(l) ==
  /\ ~stopped
  /\ at[l] = "idle"
  /\ sig_ready > 0
  /\ sig_ready' = sig_ready - 1
  /\ Goto(l, "signal", NoConnection)
  /\ stop' = [stop EXCEPT ![l] = "acceptor"]
  /\ UNCHANGED <<connVars, queue, stopped, runVars, mutex, acceptVars,
                 sig_pending, sig_waits, sig_undelivered, raised, stops>>

-----------------------------------------------------------------------------
(* Workers *)

\* PopOrWait() returns; a null connection ends the loop.
WorkerPop(w) ==
  /\ at[w] = "pop"
  /\ queue # <<>>
  /\ queue' = Tail(queue)
  /\ IF Head(queue) = Null THEN Goto(w, "relay", NoConnection)
                           ELSE Goto(w, "handle", Head(queue))
  /\ UNCHANGED <<connVars, stopped, serverVars>>

\* Seeded bug: the worker ends without stopping the next one.
WorkerRelayNothing(w) ==
  /\ at[w] = "relay"
  /\ Goto(w, "exited", NoConnection)
  /\ UNCHANGED <<connVars, queue, stopped, serverVars>>

\* The null connection is passed on for the next worker.
WorkerRelay(w) ==
  /\ at[w] = "relay"
  /\ queue' = Append(queue, Null)
  /\ Goto(w, "exited", NoConnection)
  /\ UNCHANGED <<connVars, stopped, serverVars>>

\* Seeded bug: the worker takes the end of a request for the order to stop.
HandleAndStop(w) ==
  /\ at[w] = "handle"
  /\ SendResponse(on[w], keep_alive[on[w]], FALSE)
  /\ Goto(w, "relay", NoConnection)
  /\ UNCHANGED <<sock, pool, keep_alive, queue, stopped, serverVars>>

\* Handle(): the view, the static file or an error status ends in
\* SendResponse() whatever the request was.
Handle(w) ==
  /\ at[w] = "handle"
  /\ SendResponse(on[w], keep_alive[on[w]], FALSE)
  /\ Goto(w, "pop", NoConnection)
  /\ UNCHANGED <<sock, pool, keep_alive, queue, stopped, serverVars>>

-----------------------------------------------------------------------------
(* Stop() and DoStop() *)

Move(d, from, to) ==
  /\ stop[d] = from
  /\ stop' = [stop EXCEPT ![d] = to]

Stop(s) ==
  /\ stops < MaxStops
  /\ stops' = stops + 1
  /\ Move(s, "none", "mutex")
  /\ UNCHANGED <<connVars, queue, at, on, stopped, runVars, mutex, acceptVars, sigVars>>

StopLock(s) ==
  /\ Move(s, "mutex", "acceptor")
  /\ mutex = NoThread
  /\ mutex' = s
  /\ UNCHANGED <<connVars, queue, at, on, stopped, runVars, acceptVars, sigVars, stops>>

\* acceptor_.close() aborts the accepts that wait.
CloseAcceptor(d) ==
  /\ Move(d, "acceptor", "drop")
  /\ acceptor' = "closed"
  /\ accept_errors' = accept_errors + accept_waits
  /\ accept_waits' = 0
  /\ UNCHANGED <<connVars, queue, at, on, stopped, runVars, mutex, accepted,
                 sigVars, stops>>

\* StopWorkers(): drop what waits in the queue, then push a null connection.
DropPending(d) ==
  /\ Move(d, "drop", "poison")
  /\ queue' = <<>>
  /\ UNCHANGED <<connVars, at, on, stopped, runVars, mutex, acceptVars, sigVars, stops>>

PushNull(d) ==
  /\ Move(d, "poison", "join")
  /\ queue' = Append(queue, Null)
  /\ UNCHANGED <<connVars, at, on, stopped, runVars, mutex, acceptVars, sigVars, stops>>

\* Seeded bug: the workers are not waited for.
JoinNone(d) ==
  /\ Move(d, "join", "drain")
  /\ UNCHANGED <<connVars, queue, at, on, stopped, runVars, mutex, acceptVars, sigVars, stops>>

\* Every worker has ended; worker_threads_.clear().
Join(d) ==
  /\ Move(d, "join", "drain")
  /\ \A w \in Workers : at[w] \in {"none", "exited"}
  /\ at' = [t \in Threads |-> IF t \in Workers THEN "none" ELSE at[t]]
  /\ UNCHANGED <<connVars, queue, on, stopped, runVars, mutex, acceptVars, sigVars, stops>>

\* Seeded bug: the null connection of the last worker stays in the queue.
DrainNothing(d) ==
  /\ Move(d, "drain", "pool")
  /\ UNCHANGED <<connVars, queue, at, on, stopped, runVars, mutex, acceptVars, sigVars, stops>>

\* The last worker has left a null connection in the queue.
Drain(d) ==
  /\ Move(d, "drain", "pool")
  /\ queue' = <<>>
  /\ UNCHANGED <<connVars, at, on, stopped, runVars, mutex, acceptVars, sigVars, stops>>

ClearPool(d) ==
  /\ Move(d, "pool", "io")
  /\ PoolClear
  /\ UNCHANGED <<queue, at, on, stopped, runVars, mutex, acceptVars, sigVars, stops>>

\* Seeded bug: the event loop is left to run out of work by itself.
StopLoopByItself(d) ==
  /\ Move(d, "io", "flag")
  /\ UNCHANGED <<connVars, queue, at, on, stopped, runVars, mutex, acceptVars, sigVars, stops>>

StopLoop(d) ==
  /\ Move(d, "io", "flag")
  /\ stopped' = TRUE
  /\ UNCHANGED <<connVars, queue, at, on, runVars, mutex, acceptVars, sigVars, stops>>

\* running_ = false; Stop() returns, or the signal handler does.
EndStop(d) ==
  /\ Move(d, "flag", "none")
  /\ running' = FALSE
  /\ mutex' = IF d \in Stoppers THEN NoThread ELSE mutex
  /\ IF d \in Loops THEN Goto(d, "idle", NoConnection) ELSE UNCHANGED <<at, on>>
  /\ UNCHANGED <<connVars, queue, stopped, run, runs, acceptVars, sigVars, stops>>

DoStop(d) ==
  \/ CloseAcceptor(d)
  \/ DropPending(d)
  \/ PushNull(d)
  \/ Join(d)
  \/ Drain(d)
  \/ ClearPool(d)
  \/ StopLoop(d)
  \/ EndStop(d)

-----------------------------------------------------------------------------
LoopStep(l) ==
  \/ ConnectionStep(l) /\ UNCHANGED serverVars
  \/ \E c \in Connections : OnAccept(l, c)
  \/ OnAcceptError(l)
  \/ Rearm(l)
  \/ DeliverSignal(l)
  \/ OnSignal(l)
  \/ LoopReturns(l)

WorkerStep(w) == WorkerPop(w) \/ WorkerRelay(w) \/ Handle(w)

\* What clients and the operating system do.
Environment ==
  \/ \E c \in Connections, r \in {"ok", "error"} : Complete(c, r) /\ UNCHANGED serverVars
  \/ \E c \in Connections : Connect(c)
  \/ AcceptFails
  \/ RaiseSignal

Next ==
  \/ Run
  \/ RunNotListening
  \/ RunReturns
  \/ \E l \in Loops : LoopStep(l)
  \/ \E w \in Workers : WorkerStep(w)
  \/ \E s \in Stoppers : Stop(s) \/ StopLock(s)
  \/ \E d \in Stoppers \cup Loops : DoStop(d)
  \/ Environment

Safety == Init /\ [][Next]_vars

\* Every thread that can go on does (a view returns, so Handle() ends), and
\* the event loop takes its handlers in the order they became ready, so a
\* signal handler is not overtaken for ever.  Clients, signals and the callers
\* of Run() and Stop() owe nothing.
Fairness ==
  /\ WF_vars(RunReturns)
  /\ \A l \in Loops : WF_vars(LoopStep(l)) /\ SF_vars(OnSignal(l))
  /\ \A w \in Workers : WF_vars(WorkerStep(w))
  /\ \A s \in Stoppers : WF_vars(StopLock(s))
  /\ \A d \in Stoppers \cup Loops : WF_vars(DoStop(d))

Spec == Safety /\ Fairness

-----------------------------------------------------------------------------
(* Who holds a connection *)

Starting(l, c) == at[l] \in {"insert", "start"} /\ on[l] = c
Handling(w, c) == at[w] = "handle" /\ on[w] = c
Queued(c) == \E i \in 1..Len(queue) : queue[i] = c

\* A connection is in one place: at most one of the accept handler, the
\* outstanding operation, the queue and the workers has it, and it is there
\* once.  So no two threads use its request, its response or its parser.
OneChain ==
  /\ \A c \in accepted : op[c] = "none" /\ ~Queued(c)
  /\ \A l \in Loops, c \in Connections : Starting(l, c) =>
       /\ c \notin accepted
       /\ op[c] = "none"
       /\ ~Queued(c)
       /\ \A m \in Loops : Starting(m, c) => m = l
  /\ \A c \in Connections : op[c] # "none" => ~Queued(c)
  /\ \A i, j \in 1..Len(queue) : queue[i] = queue[j] /\ queue[i] # Null => i = j
  /\ \A w \in Workers, c \in Connections : Handling(w, c) =>
       /\ c \notin accepted
       /\ op[c] = "none"
       /\ ~Queued(c)
       /\ \A l \in Loops : ~Starting(l, c)
       /\ \A v \in Workers : Handling(v, c) => v = w

Closing(c) == \E l \in Loops : at[l] \in {"erase", "close"} /\ on[l] = c

\* A connection of the pool is never forgotten: it is somewhere on its way, or
\* a thread is closing it, or a DoStop() that dropped it from the queue has
\* not come to pool_.Clear() yet.
NoOrphan ==
  \A c \in pool :
    \/ op[c] # "none"
    \/ Queued(c)
    \/ Closing(c)
    \/ \E l \in Loops : at[l] = "start" /\ on[l] = c
    \/ \E w \in Workers : Handling(w, c)
    \/ \E d \in Stoppers \cup Loops : stop[d] \in {"poison", "join", "drain", "pool"}

\* The pool owns all live connections: whatever is in it is open, and an open
\* socket is in it unless the accept handler or a Close() has it in hand.
PoolOwnsSockets ==
  /\ \A c \in pool : sock[c] = "open"
  /\ \A c \in Connections : sock[c] = "open" =>
       \/ c \in pool \cup accepted
       \/ \E l \in Loops : at[l] \in {"insert", "close"} /\ on[l] = c

\* A client that was told "Connection: Close" is not served again: no read is
\* outstanding on its socket while that is open.
CloseMeansClose ==
  \A c \in Connections : response[c] = "Close" => ~(op[c] = "read" /\ sock[c] = "open")

Stopping == \E d \in Stoppers \cup Loops : stop[d] \notin {"none", "mutex"}

\* Workers end only because DoStop() is waiting for them: no null connection
\* is in the queue and no worker is leaving unless one is in StopWorkers().
NoStrayNull ==
  (Queued(Null) \/ \E w \in Workers : at[w] \in {"relay", "exited"}) =>
    \E d \in Stoppers \cup Loops : stop[d] \in {"join", "drain"}

\* The assertion at the top of Run(): worker_threads_ is empty whenever the
\* thread that calls Run() may call it again.
WorkersJoined == run = "out" => \A w \in Workers : at[w] = "none"

\* While the server listens, an accept is outstanding or its handler is on its
\* way to the next one: the server does not become deaf.
AcceptArmed ==
  acceptor = "listening" =>
    \/ accept_waits + accept_errors > 0
    \/ accepted # {}
    \/ \E l \in Loops : at[l] \in {"insert", "start", "rearm"}

\* After Run() has returned and every DoStop() has ended, no connection is
\* pooled and none is queued for a later Run().
NothingLeft ==
  run = "out" /\ ~Stopping => pool = {} /\ queue = <<>>

\* Two threads never run DoStop() at the same time: joining a worker twice is
\* undefined.
OneStopAtATime ==
  \A d, e \in Stoppers \cup Loops :
    stop[d] \notin {"none", "mutex"} /\ stop[e] \notin {"none", "mutex"} => d = e

\* A signal handler that is ready makes Run() return.
SignalStops == sig_ready > 0 /\ run = "in" ~> run = "out"

\* Stop() returns, and so does Run().
StopReturns ==
  \A s \in Stoppers : stop[s] # "none" ~> stop[s] = "none"
StopStopsRun ==
  \A s \in Stoppers : stop[s] = "flag" ~> run = "out"

\* A request that was read is not left in the queue.
RequestTaken == \A c \in Connections : Queued(c) ~> ~Queued(c)

=============================================================================
