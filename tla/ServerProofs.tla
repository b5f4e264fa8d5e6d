----------------------------- MODULE ServerProofs -----------------------------
(***************************************************************************)
(* The safety properties of Server, for any connections and any number of  *)
(* loop threads, workers and callers of Stop(), signals included: threads  *)
(* and stopping first, then what DoStop() leaves in the queue, the accept  *)
(* handler, and the pool that owns the sockets.                            *)
(***************************************************************************)
EXTENDS Server, SequenceTheorems, TLAPS

USE ThreadsAssumption, ConnectionsAssumption, StoppersAssumption, BoundsAssumption

-----------------------------------------------------------------------------
(* Type correctness *)

\* A thread that goes on to a place of its kind, with a connection in hand if
\* it needs one there, keeps the types of the threads.
LEMMA GotoTypes ==
  ASSUME ThreadsTypeOK, NEW t \in Threads, NEW l, NEW c, Goto(t, l, c),
         t \in Loops => l \in LoopPCs,
         t \in Workers => l \in WorkerPCs,
         c \in Connections \/ (c = NoConnection /\ l \notin {"insert", "start", "erase", "close", "handle"})
  PROVE  ThreadsTypeOK'
BY DEF ThreadsTypeOK, Goto, Threads

\* Every step leaves each thread at a place of its kind, and with a connection
\* in hand where the code uses one.
LEMMA ThreadsInvariance == SocketsTypeOK /\ ThreadsTypeOK /\ [Next]_vars => ThreadsTypeOK'
<1> SUFFICES ASSUME SocketsTypeOK, ThreadsTypeOK, [Next]_vars PROVE ThreadsTypeOK'
  OBVIOUS
<1> USE DEF LoopPCs, WorkerPCs, Threads
<1>1. CASE UNCHANGED <<at, on>>
  BY <1>1 DEF ThreadsTypeOK
<1>2. ASSUME NEW l \in Loops, ConnectionStep(l) PROVE ThreadsTypeOK'
  <2>1. ASSUME NEW c \in Connections, OnRead(l, c) \/ OnWriteError(l, c) \/ OnWriteOK(l, c)
        PROVE  UNCHANGED <<at, on>> \/ Goto(l, "erase", c)
    BY <2>1 DEF OnRead, OnReadError, OnReadRejected, OnReadMore, OnReadFinished, OnWriteError, OnWriteOK
  <2>2. ASSUME NEW c \in Connections, DoWriteBody(l, c) PROVE UNCHANGED <<at, on>>
    BY <2>2 DEF DoWriteBody
  <2>3. CASE PoolStartInsert(l) \/ PoolCloseErase(l)
    <3>1. on[l] \in Connections /\ (Goto(l, "start", on[l]) \/ Goto(l, "close", on[l]))
      BY <2>3 DEF PoolStartInsert, PoolCloseErase, ThreadsTypeOK
    <3> QED
      BY <3>1, GotoTypes
  <2>4. CASE PoolStartStart(l) \/ PoolCloseClose(l)
    <3>1. Goto(l, "rearm", NoConnection) \/ Goto(l, "idle", NoConnection)
      BY <2>4 DEF PoolStartStart, PoolCloseClose
    <3> QED
      BY <3>1, GotoTypes
  <2>5. ASSUME NEW c \in Connections, Goto(l, "erase", c) PROVE ThreadsTypeOK'
    BY <2>5, GotoTypes
  <2> QED
    BY <1>1, <1>2, <2>1, <2>2, <2>3, <2>4, <2>5 DEF ConnectionStep
<1>3. CASE Run
  BY <1>3 DEF Run, ThreadsTypeOK
<1>4. ASSUME NEW l \in Loops, LoopReturns(l) PROVE ThreadsTypeOK'
  BY <1>4, GotoTypes DEF LoopReturns
<1>5. ASSUME NEW l \in Loops, NEW c \in Connections, OnAccept(l, c) PROVE ThreadsTypeOK'
  BY <1>1, <1>5, GotoTypes DEF OnAccept
<1>6. ASSUME NEW l \in Loops, OnAcceptError(l) PROVE ThreadsTypeOK'
  BY <1>1, <1>6, GotoTypes DEF OnAcceptError
<1>7. ASSUME NEW l \in Loops, Rearm(l) PROVE ThreadsTypeOK'
  BY <1>7, GotoTypes DEF Rearm
<1>8. ASSUME NEW l \in Loops, OnSignal(l) PROVE ThreadsTypeOK'
  BY <1>8, GotoTypes DEF OnSignal
<1>9. ASSUME NEW w \in Workers, WorkerPop(w) PROVE ThreadsTypeOK'
  <2>1. Head(queue) \in Connections \cup {Null}
    BY <1>9 DEF WorkerPop, SocketsTypeOK
  <2>2. Goto(w, "relay", NoConnection) \/ (Goto(w, "handle", Head(queue)) /\ Head(queue) # Null)
    BY <1>9 DEF WorkerPop
  <2> QED
    BY <2>1, <2>2, GotoTypes
<1>10. ASSUME NEW w \in Workers, WorkerRelay(w) PROVE ThreadsTypeOK'
  BY <1>10, GotoTypes DEF WorkerRelay
<1>11. ASSUME NEW w \in Workers, Handle(w) PROVE ThreadsTypeOK'
  BY <1>11, GotoTypes DEF Handle
<1>12. ASSUME NEW d \in Stoppers \cup Loops, Join(d) PROVE ThreadsTypeOK'
  BY <1>12 DEF Join, ThreadsTypeOK
<1>13. ASSUME NEW d \in Stoppers \cup Loops, EndStop(d) PROVE ThreadsTypeOK'
  BY <1>1, <1>13, GotoTypes DEF EndStop
<1>14. ASSUME NEW l \in Loops, DeliverSignal(l) PROVE UNCHANGED <<at, on>>
  BY <1>14 DEF DeliverSignal
<1>15. ASSUME NEW d \in Stoppers \cup Loops,
              CloseAcceptor(d) \/ DropPending(d) \/ PushNull(d) \/ Drain(d) \/ ClearPool(d) \/ StopLoop(d)
       PROVE  UNCHANGED <<at, on>>
  BY <1>15 DEF CloseAcceptor, DropPending, PushNull, Drain, ClearPool, StopLoop
<1>16. ASSUME NEW s \in Stoppers, Stop(s) \/ StopLock(s) PROVE UNCHANGED <<at, on>>
  BY <1>16 DEF Stop, StopLock
<1>17. ASSUME Environment \/ RunNotListening \/ RunReturns \/ UNCHANGED vars PROVE UNCHANGED <<at, on>>
  BY <1>17 DEF Environment, Complete, Connect, AcceptFails, RaiseSignal, RunNotListening, RunReturns, vars
<1> QED
  BY <1>1, <1>2, <1>3, <1>4, <1>5, <1>6, <1>7, <1>8, <1>9, <1>10, <1>11, <1>12, <1>13,
     <1>14, <1>15, <1>16, <1>17
  DEF Next, LoopStep, WorkerStep, DoStop

\* The operations on one connection keep the types of all.
LEMMA StartOpTypes ==
  ASSUME SocketsTypeOK, NEW c \in Connections, NEW kind \in {"read", "headers", "body"},
         StartOp(c, kind)
  PROVE  /\ op' \in [Connections -> {"none", "read", "headers", "body"}]
         /\ result' \in [Connections -> {"pending", "ok", "error", "aborted"}]
BY DEF SocketsTypeOK, StartOp

\* Closing sockets, of one connection or of the whole pool, keeps the types.
LEMMA CloseTypes ==
  ASSUME SocketsTypeOK, NEW cs, CloseSockets(cs)
  PROVE  /\ sock' \in [Connections -> {"none", "open", "closed"}]
         /\ result' \in [Connections -> {"pending", "ok", "error", "aborted"}]
BY DEF SocketsTypeOK, CloseSockets

\* Push(), PopOrWait() and Clear() keep the queue a queue.
LEMMA QueueTypes ==
  ASSUME NEW S, NEW q \in Seq(S)
  PROVE  /\ <<>> \in Seq(S)
         /\ \A x \in S : Append(q, x) \in Seq(S)
         /\ q # <<>> => Tail(q) \in Seq(S)
OBVIOUS

\* Every step keeps the types of the connections and of the queue.
LEMMA SocketsInvariance == SocketsTypeOK /\ ThreadsTypeOK /\ [Next]_vars => SocketsTypeOK'
<1> SUFFICES ASSUME SocketsTypeOK, ThreadsTypeOK, [Next]_vars PROVE SocketsTypeOK'
  OBVIOUS
<1>1. CASE UNCHANGED <<connVars, queue>> /\ stopped' \in BOOLEAN
  BY <1>1 DEF SocketsTypeOK, connVars
<1>2. ASSUME NEW l \in Loops, ConnectionStep(l) PROVE SocketsTypeOK'
  <2>1. ASSUME NEW c \in Connections, OnReadError(l, c) \/ OnWriteError(l, c)
        PROVE  SocketsTypeOK'
    BY <2>1 DEF OnReadError, OnWriteError, NoOp, SocketsTypeOK
  <2>2. ASSUME NEW c \in Connections, OnReadRejected(l, c) PROVE SocketsTypeOK'
    BY <2>2, StartOpTypes DEF OnReadRejected, SendResponse, SocketsTypeOK
  <2>3. ASSUME NEW c \in Connections, OnReadMore(l, c) \/ DoWriteBody(l, c)
        PROVE  SocketsTypeOK'
    BY <2>3, StartOpTypes DEF OnReadMore, DoWriteBody, SocketsTypeOK
  <2>4. ASSUME NEW c \in Connections, OnReadFinished(l, c) PROVE SocketsTypeOK'
    BY <2>4 DEF OnReadFinished, NoOp, SocketsTypeOK
  <2>5. ASSUME NEW c \in Connections, OnWriteOK(l, c) PROVE SocketsTypeOK'
    <3>1. CASE keep_alive[c]
      BY <2>5, <3>1, StartOpTypes DEF OnWriteOK, Start, SocketsTypeOK
    <3>2. CASE ~keep_alive[c]
      BY <2>5, <3>2 DEF OnWriteOK, NoOp, SocketsTypeOK
    <3> QED
      BY <3>1, <3>2
  <2>6. CASE PoolStartInsert(l) \/ PoolCloseErase(l)
    BY <2>6 DEF PoolStartInsert, PoolCloseErase, SocketsTypeOK, ThreadsTypeOK, Threads
  <2>7. CASE PoolStartStart(l)
    <3>1. on[l] \in Connections
      BY <2>7 DEF PoolStartStart, ThreadsTypeOK, Threads
    <3> QED
      BY <2>7, <3>1, StartOpTypes DEF PoolStartStart, Start, SocketsTypeOK
  <2>8. CASE PoolCloseClose(l)
    BY <2>8, CloseTypes DEF PoolCloseClose, SocketsTypeOK
  <2> QED
    BY <1>2, <2>1, <2>2, <2>3, <2>4, <2>5, <2>6, <2>7, <2>8 DEF ConnectionStep, OnRead
<1>3. CASE Run \/ RunNotListening
  BY <1>1, <1>3 DEF Run, RunNotListening, BeginRun
<1>4. ASSUME NEW l \in Loops, NEW c \in Connections, OnAccept(l, c) PROVE SocketsTypeOK'
  BY <1>4 DEF OnAccept, SocketsTypeOK
<1>5. ASSUME NEW w \in Workers, WorkerPop(w) \/ WorkerRelay(w) PROVE SocketsTypeOK'
  <2>1. queue' \in Seq(Connections \cup {Null})
    <3>1. queue \in Seq(Connections \cup {Null})
      BY DEF SocketsTypeOK
    <3>2. (queue # <<>> /\ queue' = Tail(queue)) \/ queue' = Append(queue, Null)
      BY <1>5 DEF WorkerPop, WorkerRelay
    <3> QED
      BY <3>1, <3>2, QueueTypes
  <2> QED
    BY <1>5, <2>1 DEF WorkerPop, WorkerRelay, connVars, SocketsTypeOK
<1>6. ASSUME NEW w \in Workers, Handle(w) PROVE SocketsTypeOK'
  <2>1. on[w] \in Connections
    BY <1>6 DEF Handle, ThreadsTypeOK, Threads
  <2> QED
    BY <1>6, <2>1, StartOpTypes DEF Handle, SendResponse, SocketsTypeOK
<1>7. ASSUME NEW d \in Stoppers \cup Loops, DropPending(d) \/ PushNull(d) \/ Drain(d)
      PROVE  SocketsTypeOK'
  <2>1. queue' \in Seq(Connections \cup {Null})
    <3>1. queue \in Seq(Connections \cup {Null})
      BY DEF SocketsTypeOK
    <3>2. queue' = <<>> \/ queue' = Append(queue, Null)
      BY <1>7 DEF DropPending, PushNull, Drain
    <3> QED
      BY <3>1, <3>2, QueueTypes
  <2> QED
    BY <1>7, <2>1 DEF DropPending, PushNull, Drain, connVars, SocketsTypeOK
<1>8. ASSUME NEW d \in Stoppers \cup Loops, ClearPool(d) PROVE SocketsTypeOK'
  BY <1>8, CloseTypes DEF ClearPool, PoolClear, SocketsTypeOK
<1>9. ASSUME NEW c \in Connections, NEW r \in {"ok", "error"}, Complete(c, r)
      PROVE  SocketsTypeOK'
  BY <1>9 DEF Complete, SocketsTypeOK
<1>10. ASSUME NEW c \in Connections, Connect(c) PROVE SocketsTypeOK'
  BY <1>10 DEF Connect, SocketsTypeOK
<1>11. CASE AcceptFails \/ RaiseSignal \/ RunReturns \/ UNCHANGED vars
  BY <1>1, <1>11 DEF AcceptFails, RaiseSignal, RunReturns, vars, SocketsTypeOK
<1>12. ASSUME NEW l \in Loops,
              OnAcceptError(l) \/ Rearm(l) \/ DeliverSignal(l) \/ OnSignal(l) \/ LoopReturns(l)
       PROVE  SocketsTypeOK'
  BY <1>1, <1>12 DEF OnAcceptError, Rearm, DeliverSignal, OnSignal, LoopReturns, SocketsTypeOK
<1>13. ASSUME NEW s \in Stoppers, Stop(s) \/ StopLock(s) PROVE SocketsTypeOK'
  BY <1>1, <1>13 DEF Stop, StopLock, SocketsTypeOK
<1>14. ASSUME NEW d \in Stoppers \cup Loops, CloseAcceptor(d) \/ Join(d) \/ StopLoop(d) \/ EndStop(d)
       PROVE  SocketsTypeOK'
  BY <1>1, <1>14 DEF CloseAcceptor, Join, StopLoop, EndStop, SocketsTypeOK
<1> QED
  BY <1>2, <1>3, <1>4, <1>5, <1>6, <1>7, <1>8, <1>9, <1>10, <1>11, <1>12, <1>13, <1>14
  DEF Next, LoopStep, WorkerStep, DoStop, Environment

\* Every step keeps the types of the state of server.h.
LEMMA ServerInvariance == ServerTypeOK /\ [Next]_vars => ServerTypeOK'
<1> SUFFICES ASSUME ServerTypeOK, [Next]_vars PROVE ServerTypeOK'
  OBVIOUS
<1> USE DEF ServerTypeOK, serverVars, runVars, acceptVars, sigVars, Move, StopPCs
<1>1. CASE UNCHANGED serverVars
  BY <1>1
<1>2. CASE Run
  BY <1>2 DEF Run, BeginRun, AsyncWaitSignals
<1>3. CASE RunNotListening \/ RunReturns \/ AcceptFails \/ RaiseSignal
  <2>1. CASE RunNotListening
    BY <2>1 DEF RunNotListening, BeginRun
  <2>2. CASE RunReturns
    BY <2>2 DEF RunReturns
  <2>3. CASE AcceptFails \/ RaiseSignal
    BY <2>3 DEF AcceptFails, RaiseSignal
  <2> QED
    BY <1>3, <2>1, <2>2, <2>3
<1>4. ASSUME NEW l \in Loops, NEW c \in Connections, OnAccept(l, c) PROVE ServerTypeOK'
  BY <1>4 DEF OnAccept
<1>5. ASSUME NEW l \in Loops, OnAcceptError(l) \/ Rearm(l) PROVE ServerTypeOK'
  BY <1>5 DEF OnAcceptError, Rearm
<1>6. ASSUME NEW l \in Loops, DeliverSignal(l) \/ OnSignal(l) PROVE ServerTypeOK'
  BY <1>6 DEF DeliverSignal, OnSignal
<1>7. ASSUME NEW c \in Connections, Connect(c) PROVE ServerTypeOK'
  BY <1>7 DEF Connect
<1>8. ASSUME NEW s \in Stoppers, Stop(s) \/ StopLock(s) PROVE ServerTypeOK'
  BY <1>8 DEF Stop, StopLock
<1>9. ASSUME NEW d \in Stoppers \cup Loops, CloseAcceptor(d) \/ DropPending(d) \/ PushNull(d) \/ Join(d)
      PROVE  ServerTypeOK'
  <2>1. CASE CloseAcceptor(d)
    BY <2>1 DEF CloseAcceptor
  <2>2. CASE DropPending(d) \/ PushNull(d)
    BY <2>2 DEF DropPending, PushNull
  <2>3. CASE Join(d)
    BY <2>3 DEF Join
  <2> QED
    BY <1>9, <2>1, <2>2, <2>3
<1>10. ASSUME NEW d \in Stoppers \cup Loops, Drain(d) \/ ClearPool(d) \/ StopLoop(d) \/ EndStop(d)
       PROVE  ServerTypeOK'
  <2>1. CASE Drain(d) \/ ClearPool(d)
    BY <2>1 DEF Drain, ClearPool
  <2>2. CASE StopLoop(d)
    BY <2>2 DEF StopLoop
  <2>3. CASE EndStop(d)
    BY <2>3 DEF EndStop
  <2> QED
    BY <1>10, <2>1, <2>2, <2>3
<1>11. ASSUME NEW w \in Workers, WorkerStep(w) PROVE UNCHANGED serverVars
  BY <1>11 DEF WorkerStep, WorkerPop, WorkerRelay, Handle
<1>12. ASSUME NEW l \in Loops, LoopReturns(l) PROVE UNCHANGED serverVars
  BY <1>12 DEF LoopReturns
<1> QED
  BY <1>1, <1>2, <1>3, <1>4, <1>5, <1>6, <1>7, <1>8, <1>9, <1>10, <1>11, <1>12
  DEF Next, LoopStep, DoStop, Environment, vars

\* The state of the server and of its connections is always well formed; in
\* particular a handler in the middle of pool_->Start() or pool_->Close(), and
\* a worker in Handle(), have a connection in hand.
THEOREM TypeCorrect == Spec => []TypeOK
<1>1. Init => TypeOK
  <2>1. Init => SocketsTypeOK
    <3>1. Init => keep_alive \in [Connections -> BOOLEAN] /\ stopped \in BOOLEAN
      BY DEF Init, ConnInit
    <3>2. Init => queue \in Seq(Connections \cup {Null})
      BY DEF Init, ConnInit
    <3>3. Init => /\ sock \in [Connections -> {"none", "open", "closed"}]
                  /\ pool \in SUBSET Connections
                  /\ op \in [Connections -> {"none", "read", "headers", "body"}]
                  /\ result \in [Connections -> {"pending", "ok", "error", "aborted"}]
                  /\ response \in [Connections -> {"none", "Keep-Alive", "Close"}]
      BY DEF Init, ConnInit
    <3> QED
      BY <3>1, <3>2, <3>3 DEF SocketsTypeOK
  <2>2. Init => ThreadsTypeOK
    BY DEF Init, ConnInit, ThreadsTypeOK, Threads, LoopPCs, WorkerPCs
  <2>3. Init => ServerTypeOK
    <3>1. Init => running \in BOOLEAN
      BY DEF Init
    <3>2. Init => stop \in [Stoppers \cup Loops -> StopPCs]
      BY DEF Init, StopPCs
    <3> QED
      BY <3>1, <3>2 DEF Init, ServerTypeOK
  <2> QED
    BY <2>1, <2>2, <2>3 DEF TypeOK
<1>2. TypeOK /\ [Next]_vars => TypeOK'
  BY SocketsInvariance, ThreadsInvariance, ServerInvariance DEF TypeOK
<1> QED
  BY <1>1, <1>2, PTL DEF Spec, Safety

-----------------------------------------------------------------------------
(* Run(), the workers and DoStop() *)

NoWorkers == \A w \in Workers : at[w] = "none"

\* How the threads keep out of each other's way.  A loop thread in DoStop() is
\* in the signal handler; after Run() has returned there are no loop threads
\* and no workers; a loop ends only when io_context_ was stopped, which
\* happens after the workers were joined; Stop() holds state_mutex_, which
\* Run() needs, until it is done.
Control ==
  /\ \A l \in Loops : stop[l] # "none" => at[l] = "signal"
  /\ run = "out" => NoWorkers /\ \A l \in Loops : at[l] = "out"
  /\ \A l \in Loops : run = "in" /\ at[l] = "out" => stopped
  /\ stopped => NoWorkers
  /\ \A d \in Stoppers \cup Loops : stop[d] \in {"drain", "pool", "io", "flag"} => NoWorkers
  /\ \A s \in Stoppers : stop[s] \notin {"none", "mutex"} => mutex = s

\* Run() finds no DoStop() under way, whether in Stop() or in a signal handler.
LEMMA RunAlone ==
  ASSUME TypeOK, Control, BeginRun
  PROVE  \A d \in Stoppers \cup Loops : stop[d] \in {"none", "mutex"}
BY DEF TypeOK, ServerTypeOK, Control, BeginRun

\* Every step keeps the order in which Run(), the loops, the workers and DoStop()
\* follow each other.
LEMMA ControlInvariance == TypeOK /\ Control /\ [Next]_vars => Control'
<1> SUFFICES ASSUME TypeOK, Control, [Next]_vars PROVE Control'
  OBVIOUS
<1> USE DEF TypeOK, ThreadsTypeOK, ServerTypeOK, Threads, Control, NoWorkers
<1>1. CASE UNCHANGED <<at, stop, run, stopped, mutex>>
  BY <1>1
<1>2. ASSUME NEW l \in Loops, NEW p \in LoopPCs \ {"out"}, NEW c, Goto(l, p, c),
             at[l] \notin {"out", "signal"}, UNCHANGED <<stop, run, stopped, mutex>>
      PROVE  Control'
  BY <1>2 DEF Goto
<1>3. ASSUME NEW l \in Loops, ConnectionStep(l), UNCHANGED serverVars PROVE Control'
  <2>1. UNCHANGED <<stop, run, stopped, mutex>> /\ at[l] \notin {"out", "signal"}
    BY <1>3 DEF ConnectionStep, OnRead, OnReadError, OnReadRejected, OnReadMore, OnReadFinished,
                OnWriteError, DoWriteBody, OnWriteOK, PoolStartInsert, PoolStartStart,
                PoolCloseErase, PoolCloseClose, Runs, serverVars, runVars
  <2>2. UNCHANGED <<at, on>> \/ \E p \in LoopPCs \ {"out"} : \E c : Goto(l, p, c)
    <3> USE DEF LoopPCs
    <3>1. ASSUME NEW c \in Connections, OnRead(l, c) \/ OnWriteError(l, c) \/ DoWriteBody(l, c) \/ OnWriteOK(l, c)
          PROVE  UNCHANGED <<at, on>> \/ Goto(l, "erase", c)
      BY <3>1 DEF OnRead, OnReadError, OnReadRejected, OnReadMore, OnReadFinished, OnWriteError,
                  DoWriteBody, OnWriteOK
    <3>2. CASE PoolStartInsert(l) \/ PoolStartStart(l) \/ PoolCloseErase(l) \/ PoolCloseClose(l)
      BY <3>2 DEF PoolStartInsert, PoolStartStart, PoolCloseErase, PoolCloseClose
    <3> QED
      BY <1>3, <3>1, <3>2 DEF ConnectionStep
  <2> QED
    BY <1>1, <1>2, <2>1, <2>2
<1>4. CASE Run
  <2>1. /\ \A d \in Stoppers \cup Loops : stop'[d] \in {"none", "mutex"}
        /\ mutex' = mutex /\ run' = "in" /\ stopped' = FALSE
        /\ \A l \in Loops : at'[l] = "idle" /\ stop[l] = "none"
    BY <1>4, RunAlone DEF Run, BeginRun
  <2> QED
    BY <1>4, <2>1 DEF Run
<1>5. CASE RunNotListening
  BY <1>5, RunAlone DEF RunNotListening, BeginRun
<1>6. CASE RunReturns
  <2>1. NoWorkers
    BY <1>6 DEF RunReturns
  <2> QED
    BY <1>6, <2>1 DEF RunReturns
<1>7. ASSUME NEW l \in Loops, LoopReturns(l) PROVE Control'
  BY <1>7 DEF LoopReturns, Goto, serverVars, runVars
<1>8. ASSUME NEW l \in Loops, NEW c \in Connections, OnAccept(l, c) PROVE Control'
  BY <1>1, <1>2, <1>8 DEF OnAccept, runVars, LoopPCs
<1>9. ASSUME NEW l \in Loops, OnAcceptError(l) \/ Rearm(l) PROVE Control'
  BY <1>1, <1>2, <1>9 DEF OnAcceptError, Rearm, runVars, LoopPCs
<1>10. ASSUME NEW l \in Loops, DeliverSignal(l) PROVE Control'
  BY <1>1, <1>10 DEF DeliverSignal, runVars
<1>11. ASSUME NEW l \in Loops, OnSignal(l) PROVE Control'
  BY <1>11 DEF OnSignal, Goto, runVars, StopPCs
<1>12. ASSUME NEW w \in Workers, WorkerStep(w) PROVE Control'
  <2>1. at[w] # "none" /\ UNCHANGED <<stop, run, stopped, mutex>>
    BY <1>12 DEF WorkerStep, WorkerPop, WorkerRelay, Handle, serverVars, runVars
  <2>2. \E p \in WorkerPCs : at' = [at EXCEPT ![w] = p]
    BY <1>12 DEF WorkerStep, WorkerPop, WorkerRelay, Handle, Goto, WorkerPCs
  <2> QED
    BY <2>1, <2>2
<1>13. ASSUME NEW s \in Stoppers, Stop(s) \/ StopLock(s) PROVE Control'
  BY <1>13 DEF Stop, StopLock, Move, runVars, StopPCs
<1>14. ASSUME NEW d \in Stoppers \cup Loops,
              CloseAcceptor(d) \/ DropPending(d) \/ PushNull(d) \/ Drain(d) \/ ClearPool(d)
       PROVE  Control'
  BY <1>14 DEF CloseAcceptor, DropPending, PushNull, Drain, ClearPool, Move, runVars, StopPCs
<1>15. ASSUME NEW d \in Stoppers \cup Loops, Join(d) PROVE Control'
  <2>1. NoWorkers' /\ \A l \in Loops : at'[l] = at[l]
    BY <1>15 DEF Join
  <2>2. UNCHANGED <<run, stopped, mutex>> /\ stop[d] = "join" /\ stop' = [stop EXCEPT ![d] = "drain"]
    BY <1>15 DEF Join, Move, runVars
  <2> QED
    BY <2>1, <2>2
<1>16. ASSUME NEW d \in Stoppers \cup Loops, StopLoop(d) PROVE Control'
  BY <1>16 DEF StopLoop, Move, runVars, StopPCs
<1>17. ASSUME NEW d \in Stoppers \cup Loops, EndStop(d) PROVE Control'
  <2>1. /\ stop[d] = "flag" /\ stop' = [stop EXCEPT ![d] = "none"]
        /\ UNCHANGED <<run, stopped>>
    BY <1>17 DEF EndStop, Move
  <2>2. CASE d \in Loops
    BY <1>17, <2>1, <2>2 DEF EndStop, Goto
  <2>3. CASE d \in Stoppers
    BY <1>17, <2>1, <2>3 DEF EndStop
  <2> QED
    BY <2>2, <2>3
<1>18. CASE Environment
  BY <1>1, <1>18 DEF Environment, Complete, Connect, AcceptFails, RaiseSignal, serverVars, runVars
<1>19. CASE UNCHANGED vars
  BY <1>1, <1>19 DEF vars, serverVars, runVars
<1> QED
  BY <1>3, <1>4, <1>5, <1>6, <1>7, <1>8, <1>9, <1>10, <1>11, <1>12, <1>13, <1>14, <1>15,
     <1>16, <1>17, <1>18, <1>19
  DEF Next, LoopStep, DoStop

\* The threads of the server stay in the order that Control describes: in
\* particular no worker is left when io_context_ has been stopped or Run() has
\* returned (DoStop() in server.cc).
THEOREM ControlCorrect == Spec => []Control
<1>1. Init => Control
  BY DEF Init, ConnInit, Control, NoWorkers, Threads
<1> QED
  BY <1>1, ControlInvariance, TypeCorrect, PTL DEF Spec, Safety

\* The assertion worker_threads_.empty() in Run() holds each time the thread
\* that runs the server calls it again, however Stop(), signals, failures to
\* listen and restarts are interleaved.
THEOREM WorkersAreJoined == Spec => []WorkersJoined
<1>1. Control => WorkersJoined
  BY DEF Control, NoWorkers, WorkersJoined
<1> QED
  BY <1>1, ControlCorrect, PTL

-----------------------------------------------------------------------------
(* The queue of the workers *)

Elements(q) == {q[i] : i \in 1..Len(q)}

\* No connection is in the queue twice.
NoDuplicates(q) == \A i, j \in 1..Len(q) : q[i] = q[j] /\ q[i] # Null => i = j

\* Push() adds its message and nothing else; one that was not in the queue is in
\* it once.
LEMMA AppendElements ==
  ASSUME NEW S, NEW q \in Seq(S), NEW x \in S
  PROVE  /\ Elements(Append(q, x)) = Elements(q) \cup {x}
         /\ NoDuplicates(q) /\ (x = Null \/ x \notin Elements(q)) => NoDuplicates(Append(q, x))
<1> DEFINE t == Append(q, x)
           L == Len(q)
<1>1. /\ L \in Nat /\ Len(t) = L + 1 /\ t[L + 1] = x
      /\ \A i \in 1..L : t[i] = q[i]
  OBVIOUS
<1> HIDE DEF t, L
<1>2. \A i \in 1..(L + 1) : i \in 1..L \/ i = L + 1
  BY <1>1
<1>3. L + 1 \in 1..(L + 1) /\ \A i \in 1..L : i \in 1..(L + 1) /\ i # L + 1
  BY <1>1
<1>4. Elements(t) = Elements(q) \cup {x}
  BY <1>1, <1>2, <1>3 DEF Elements, L
<1>5. ASSUME NoDuplicates(q), x = Null \/ x \notin Elements(q) PROVE NoDuplicates(t)
  <2> SUFFICES ASSUME NEW i \in 1..(L + 1), NEW j \in 1..(L + 1), t[i] = t[j], t[i] # Null
               PROVE  i = j
    BY <1>1 DEF NoDuplicates
  <2>1. CASE i \in 1..L /\ j \in 1..L
    BY <1>1, <1>5, <2>1 DEF NoDuplicates, L
  <2>2. CASE i = L + 1 /\ j = L + 1
    BY <2>2
  <2>3. CASE i = L + 1 /\ j \in 1..L
    BY <1>1, <1>5, <2>3 DEF Elements, L
  <2>4. CASE j = L + 1 /\ i \in 1..L
    BY <1>1, <1>5, <2>4 DEF Elements, L
  <2> QED
    BY <1>2, <2>1, <2>2, <2>3, <2>4
<1> QED
  BY <1>4, <1>5 DEF t

\* PopOrWait() removes the front message, which is then no longer in the queue.
LEMMA TailElements ==
  ASSUME NEW S, NEW q \in Seq(S), q # <<>>
  PROVE  /\ Elements(q) = Elements(Tail(q)) \cup {Head(q)}
         /\ NoDuplicates(q) => NoDuplicates(Tail(q))
         /\ NoDuplicates(q) /\ Head(q) # Null => Head(q) \notin Elements(Tail(q))
<1>1. Len(q) \in Nat \ {0} /\ Head(q) = q[1] /\ Len(Tail(q)) = Len(q) - 1
  OBVIOUS
<1>2. \A i \in 1..Len(Tail(q)) : Tail(q)[i] = q[i + 1]
  OBVIOUS
<1>3. Elements(q) = Elements(Tail(q)) \cup {Head(q)}
  <2>1. ASSUME NEW i \in 1..Len(q) PROVE q[i] \in Elements(Tail(q)) \cup {Head(q)}
    <3>1. CASE i = 1
      BY <1>1, <3>1
    <3>2. CASE i # 1
      <4>1. i - 1 \in 1..Len(Tail(q)) /\ Tail(q)[i - 1] = q[i]
        BY <1>1, <1>2, <3>2
      <4> QED
        BY <4>1 DEF Elements
    <3> QED
      BY <3>1, <3>2
  <2>2. Elements(Tail(q)) \subseteq Elements(q) /\ Head(q) \in Elements(q)
    BY <1>1, <1>2 DEF Elements
  <2> QED
    BY <2>1, <2>2 DEF Elements
<1>4. NoDuplicates(q) => NoDuplicates(Tail(q))
  BY <1>1, <1>2 DEF NoDuplicates
<1>5. NoDuplicates(q) /\ Head(q) # Null => Head(q) \notin Elements(Tail(q))
  BY <1>1, <1>2 DEF NoDuplicates, Elements
<1> QED
  BY <1>3, <1>4, <1>5

\* An empty queue has no messages.
LEMMA EmptyElements == Elements(<<>>) = {} /\ NoDuplicates(<<>>)
BY DEF Elements, NoDuplicates

\* A connection is queued if it is an element of queue_.
LEMMA QueuedElements == \A c : Queued(c) <=> c \in Elements(queue)
BY DEF Queued, Elements

\* The same of the queue after a step.
LEMMA QueuedElementsNext == \A c : Queued(c)' <=> c \in Elements(queue')
BY DEF Queued, Elements

-----------------------------------------------------------------------------
(* One place for each connection *)

Busy(t, c) == at[t] \in {"insert", "start", "erase", "close", "handle"} /\ on[t] = c

\* A client that has not connected is nowhere.
Fresh ==
  \A c \in Connections : sock[c] = "none" =>
    /\ c \notin accepted \cup pool
    /\ op[c] = "none"
    /\ ~Queued(c)
    /\ \A t \in Threads : ~Busy(t, c)

\* Nobody gets a connection in this step.
NobodyGets ==
  /\ accepted' \subseteq accepted
  /\ \A c \in Connections : op'[c] # "none" => op[c] # "none"
  /\ \A c \in Connections : Queued(c)' => Queued(c)
  /\ NoDuplicates(queue')
  /\ \A l \in Loops, c \in Connections : Starting(l, c)' => Starting(l, c)
  /\ \A w \in Workers, c \in Connections : Handling(w, c)' => Handling(w, c)

\* A step that gives nobody a connection cannot put one in two places.
LEMMA NobodyGetsKeeps ==
  ASSUME TypeOK, OneChain, NobodyGets PROVE OneChain'
<1>1. accepted' \subseteq Connections
  BY DEF NobodyGets, TypeOK, ServerTypeOK
<1> QED
  BY <1>1 DEF NobodyGets, OneChain, NoDuplicates

\* Appending a null connection, or clearing the queue, gives nobody anything.
LEMMA QueueGetsNothing ==
  ASSUME TypeOK, OneChain, queue' \in {queue, <<>>, Append(queue, Null)}
  PROVE  NoDuplicates(queue') /\ \A c \in Connections : Queued(c)' => Queued(c)
<1>1. queue \in Seq(Connections \cup {Null}) /\ NoDuplicates(queue)
  BY DEF TypeOK, SocketsTypeOK, OneChain, NoDuplicates
<1>2. NoDuplicates(queue') /\ Elements(queue') \subseteq Elements(queue) \cup {Null}
  <2>1. /\ Elements(Append(queue, Null)) = Elements(queue) \cup {Null}
        /\ NoDuplicates(Append(queue, Null))
    BY <1>1, AppendElements
  <2> QED
    BY <1>1, <2>1, EmptyElements
<1>3. \A c : Queued(c)' <=> c \in Elements(queue')
  BY QueuedElementsNext
<1> QED
  BY <1>2, <1>3, QueuedElements

\* Nor does a thread that stays where it is, or goes on to a place without a
\* connection.
LEMMA ThreadsGetNothing ==
  ASSUME TypeOK,
         \/ UNCHANGED <<at, on>>
         \/ \E t \in Threads, p \in (LoopPCs \cup WorkerPCs) \ {"insert", "start", "handle"} :
              \E c : Goto(t, p, c)
  PROVE  /\ \A l \in Loops, x \in Connections : Starting(l, x)' => Starting(l, x)
         /\ \A w \in Workers, x \in Connections : Handling(w, x)' => Handling(w, x)
<1> USE DEF TypeOK, ThreadsTypeOK, Threads, Goto, Starting, Handling
<1>1. CASE UNCHANGED <<at, on>>
  BY <1>1
<1>2. ASSUME NEW t \in Threads, NEW p \in (LoopPCs \cup WorkerPCs) \ {"insert", "start", "handle"},
             NEW c, Goto(t, p, c)
      PROVE  /\ \A l \in Loops, x \in Connections : Starting(l, x)' => Starting(l, x)
             /\ \A w \in Workers, x \in Connections : Handling(w, x)' => Handling(w, x)
  BY <1>2
<1> QED
  BY <1>1, <1>2

\* Every step hands a connection on from one holder to the next, or keeps it.
LEMMA ChainInvariance == TypeOK /\ Control /\ OneChain /\ Fresh /\ [Next]_vars => OneChain'
<1> SUFFICES ASSUME TypeOK, Control, OneChain, Fresh, [Next]_vars PROVE OneChain'
  OBVIOUS
<1>t. /\ at \in [Threads -> LoopPCs \cup WorkerPCs] /\ on \in [Threads -> Connections \cup {NoConnection}]
      /\ Threads = Loops \cup Workers
      /\ op \in [Connections -> {"none", "read", "headers", "body"}]
      /\ queue \in Seq(Connections \cup {Null})
      /\ NoDuplicates(queue)
      /\ accepted \subseteq Connections
      /\ \A t \in Threads : at[t] \in {"insert", "start", "erase", "close", "handle"} =>
           on[t] \in Connections
  BY DEF TypeOK, ThreadsTypeOK, SocketsTypeOK, ServerTypeOK, Threads, OneChain, NoDuplicates
<1>g. ASSUME NEW t \in Threads, NEW p \in {"idle", "out", "rearm", "erase", "close", "signal", "pop", "relay", "exited"},
             NEW c, UNCHANGED <<at, on>> \/ Goto(t, p, c),
             accepted' \subseteq accepted,
             \A x \in Connections : op'[x] # "none" => op[x] # "none",
             queue' \in {queue, <<>>, Append(queue, Null)}
      PROVE  OneChain'
  BY <1>g, ThreadsGetNothing, QueueGetsNothing, NobodyGetsKeeps DEF NobodyGets, LoopPCs, WorkerPCs
<1>1. ASSUME NEW l \in Loops, NEW c \in Connections,
             OnReadError(l, c) \/ OnReadRejected(l, c) \/ OnReadMore(l, c)
             \/ OnWriteError(l, c) \/ DoWriteBody(l, c) \/ OnWriteOK(l, c),
             UNCHANGED serverVars
      PROVE  OneChain'
  <2>1. accepted' = accepted /\ queue' = queue
    BY <1>1 DEF OnReadError, OnReadRejected, OnReadMore, OnWriteError, DoWriteBody, OnWriteOK,
                serverVars, acceptVars
  <2>2. op[c] # "none" /\ \A x \in Connections : x # c => op'[x] = op[x]
    BY <1>1, <1>t DEF OnReadError, OnReadRejected, OnReadMore, OnWriteError, DoWriteBody, OnWriteOK,
                Runs, NoOp, StartOp, SendResponse, Start
  <2>3. UNCHANGED <<at, on>> \/ Goto(l, "erase", c)
    BY <1>1 DEF OnReadError, OnReadRejected, OnReadMore, OnWriteError, DoWriteBody, OnWriteOK
  <2> QED
    BY <2>1, <2>2, <2>3, <1>g, <1>t
\* From the outstanding read to the queue.
<1>2. ASSUME NEW l \in Loops, NEW c \in Connections, OnReadFinished(l, c), UNCHANGED serverVars
      PROVE  OneChain'
  <2>1. /\ accepted' = accepted /\ queue' = Append(queue, c)
        /\ op[c] # "none" /\ op' = [op EXCEPT ![c] = "none"]
        /\ UNCHANGED <<at, on>>
    BY <1>2 DEF OnReadFinished, Runs, NoOp, serverVars, acceptVars
  <2>2. c \notin Elements(queue) /\ c \notin accepted
        /\ (\A k \in Loops : ~Starting(k, c)) /\ (\A w \in Workers : ~Handling(w, c))
    BY <2>1, QueuedElements DEF OneChain
  <2>3. NoDuplicates(queue') /\ Elements(queue') = Elements(queue) \cup {c}
    BY <1>t, <2>1, <2>2, AppendElements
  <2>4. \A x : Queued(x)' <=> x \in Elements(queue) \cup {c}
    BY <2>3, QueuedElementsNext
  <2>5. \A x \in Connections : /\ \A k \in Loops : Starting(k, x)' <=> Starting(k, x)
                               /\ \A w \in Workers : Handling(w, x)' <=> Handling(w, x)
    BY <2>1 DEF Starting, Handling
  <2> QED
    BY <1>t, <2>1, <2>2, <2>3, <2>4, <2>5, QueuedElements DEF OneChain, NoDuplicates
<1>3. ASSUME NEW l \in Loops, PoolStartInsert(l), UNCHANGED serverVars PROVE OneChain'
  <2>1. /\ accepted' = accepted /\ queue' = queue /\ op' = op
        /\ at[l] = "insert" /\ Goto(l, "start", on[l])
    BY <1>3 DEF PoolStartInsert, serverVars, acceptVars
  <2>2. \A x \in Connections : /\ \A k \in Loops : Starting(k, x)' => Starting(k, x)
                               /\ \A w \in Workers : Handling(w, x)' => Handling(w, x)
    BY <1>t, <2>1 DEF Goto, Starting, Handling
  <2> QED
    BY <2>1, <2>2, QueueGetsNothing, NobodyGetsKeeps DEF NobodyGets
\* From the accept handler to the first read.
<1>4. ASSUME NEW l \in Loops, PoolStartStart(l), UNCHANGED serverVars PROVE OneChain'
  <2> DEFINE c == on[l]
  <2>1. /\ c \in Connections /\ Starting(l, c)
        /\ accepted' = accepted /\ queue' = queue /\ op' = [op EXCEPT ![c] = "read"]
        /\ Goto(l, "rearm", NoConnection)
    BY <1>4, <1>t DEF PoolStartStart, Start, StartOp, Starting, serverVars, acceptVars
  <2>2. \A x \in Connections : /\ \A k \in Loops : Starting(k, x)' <=> Starting(k, x) /\ k # l
                               /\ \A w \in Workers : Handling(w, x)' <=> Handling(w, x)
    BY <1>t, <2>1 DEF Goto, Starting, Handling
  <2>3. \A x : Queued(x)' <=> Queued(x)
    BY <2>1 DEF Queued
  <2>4. c \notin accepted /\ ~Queued(c) /\ (\A k \in Loops : Starting(k, c) => k = l)
        /\ (\A w \in Workers : ~Handling(w, c))
    BY <2>1 DEF OneChain
  <2> HIDE DEF c
  <2> QED
    BY <1>t, <2>1, <2>2, <2>3, <2>4 DEF OneChain
<1>5. ASSUME NEW l \in Loops, PoolCloseErase(l) \/ PoolCloseClose(l), UNCHANGED serverVars PROVE OneChain'
  <2>1. accepted' = accepted /\ queue' = queue /\ op' = op
        /\ (Goto(l, "close", on[l]) \/ Goto(l, "idle", NoConnection))
    BY <1>5 DEF PoolCloseErase, PoolCloseClose, serverVars, acceptVars
  <2> QED
    BY <2>1, <1>g, <1>t
<1>6. CASE Run
  <2>1. accepted' = accepted /\ queue' = queue /\ op' = op
    BY <1>6 DEF Run, connVars
  <2>2. \A x \in Connections : /\ \A k \in Loops : ~Starting(k, x)'
                               /\ \A w \in Workers : ~Handling(w, x)'
    BY <1>6, <1>t DEF Run, Starting, Handling
  <2> QED
    BY <2>1, <2>2, QueueGetsNothing, NobodyGetsKeeps DEF NobodyGets
<1>7. CASE RunNotListening \/ RunReturns \/ AcceptFails \/ RaiseSignal \/ UNCHANGED vars
  <2>1. UNCHANGED <<accepted, queue, op, at, on>>
    BY <1>7 DEF RunNotListening, RunReturns, AcceptFails, RaiseSignal, vars, connVars, serverVars, acceptVars
  <2>2. PICK l \in Loops : TRUE
    OBVIOUS
  <2> QED
    BY <2>1, <2>2, <1>g, <1>t
<1>8. ASSUME NEW l \in Loops, LoopReturns(l) \/ OnAcceptError(l) \/ Rearm(l) \/ DeliverSignal(l) \/ OnSignal(l)
      PROVE  OneChain'
  <2>1. accepted' = accepted /\ queue' = queue /\ op' = op
    BY <1>8 DEF LoopReturns, OnAcceptError, Rearm, DeliverSignal, OnSignal, connVars, serverVars, acceptVars
  <2>2. \/ UNCHANGED <<at, on>> \/ Goto(l, "out", NoConnection) \/ Goto(l, "rearm", NoConnection)
        \/ Goto(l, "idle", NoConnection) \/ Goto(l, "signal", NoConnection)
    BY <1>8 DEF LoopReturns, OnAcceptError, Rearm, DeliverSignal, OnSignal
  <2> QED
    BY <2>1, <2>2, <1>g, <1>t
\* From the acceptor to the accept handler.
<1>9. ASSUME NEW l \in Loops, NEW c \in Connections, OnAccept(l, c) PROVE OneChain'
  <2>1. c \in accepted /\ accepted' = accepted \ {c} /\ queue' = queue /\ op' = op
    BY <1>9 DEF OnAccept
  <2>2. CASE UNCHANGED <<at, on>>
    BY <2>1, <2>2, <1>g, <1>t
  <2>3. CASE Goto(l, "insert", c) /\ at[l] = "idle"
    <3>1. \A x \in Connections : /\ \A k \in Loops : Starting(k, x)' <=> Starting(k, x) \/ (k = l /\ x = c)
                                 /\ \A w \in Workers : Handling(w, x)' <=> Handling(w, x)
      BY <1>t, <2>3 DEF Goto, Starting, Handling
    <3>2. \A x : Queued(x)' <=> Queued(x)
      BY <2>1 DEF Queued
    <3>3. op[c] = "none" /\ ~Queued(c) /\ (\A k \in Loops : ~Starting(k, c))
          /\ (\A w \in Workers : ~Handling(w, c))
      BY <2>1 DEF OneChain
    <3>4. \A k \in Loops, x \in Connections : k = l => ~Starting(k, x)
      BY <2>3 DEF Starting
    <3> QED
      BY <1>t, <2>1, <3>1, <3>2, <3>3, <3>4 DEF OneChain
  <2> QED
    BY <1>9, <2>2, <2>3 DEF OnAccept
\* From the queue to a worker.
<1>10. ASSUME NEW w \in Workers, WorkerPop(w) PROVE OneChain'
  <2> DEFINE c == Head(queue)
  <2>1. /\ queue # <<>> /\ queue' = Tail(queue) /\ accepted' = accepted /\ op' = op
        /\ at[w] = "pop"
        /\ \/ Goto(w, "relay", NoConnection)
           \/ Goto(w, "handle", c) /\ c # Null
    BY <1>10 DEF WorkerPop, connVars, serverVars, acceptVars
  <2>2. /\ Elements(queue) = Elements(queue') \cup {c}
        /\ NoDuplicates(queue')
        /\ c # Null => c \notin Elements(queue')
    BY <1>t, <2>1, TailElements
  <2>3. \A x : Queued(x)' <=> x \in Elements(queue')
    BY QueuedElementsNext
  <2>4. CASE Goto(w, "relay", NoConnection)
    <3>1. \A x \in Connections : /\ \A k \in Loops : Starting(k, x)' => Starting(k, x)
                                 /\ \A v \in Workers : Handling(v, x)' => Handling(v, x)
      BY <1>t, <2>4, ThreadsGetNothing DEF LoopPCs, WorkerPCs
    <3> QED
      BY <2>1, <2>2, <2>3, <3>1, QueuedElements, NobodyGetsKeeps DEF NobodyGets
  <2>5. CASE Goto(w, "handle", c) /\ c # Null
    <3>1. \A x \in Connections : /\ \A k \in Loops : Starting(k, x)' <=> Starting(k, x)
                                 /\ \A v \in Workers : Handling(v, x)' <=> Handling(v, x) \/ (v = w /\ x = c)
      BY <1>t, <2>1, <2>5 DEF Goto, Starting, Handling
    <3>2. c \in Connections /\ Queued(c)
      BY <1>t, <2>1, <2>2, <2>5, QueuedElements
    <3>3. c \notin accepted /\ op[c] = "none" /\ (\A k \in Loops : ~Starting(k, c))
          /\ (\A v \in Workers : ~Handling(v, c))
      BY <3>2 DEF OneChain
    <3>4. \A v \in Workers, x \in Connections : v = w => ~Handling(v, x)
      BY <2>1 DEF Handling
    <3> HIDE DEF c
    <3> QED
      BY <1>t, <2>1, <2>2, <2>3, <2>5, <3>1, <3>2, <3>3, <3>4, QueuedElements DEF OneChain, NoDuplicates
  <2> QED
    BY <2>1, <2>4, <2>5
<1>11. ASSUME NEW w \in Workers, WorkerRelay(w) PROVE OneChain'
  <2>1. accepted' = accepted /\ queue' = Append(queue, Null) /\ op' = op /\ Goto(w, "exited", NoConnection)
    BY <1>11 DEF WorkerRelay, connVars, serverVars, acceptVars
  <2> QED
    BY <2>1, <1>g, <1>t
\* From the worker to the outstanding write.
<1>12. ASSUME NEW w \in Workers, Handle(w) PROVE OneChain'
  <2> DEFINE c == on[w]
  <2>1. /\ c \in Connections /\ Handling(w, c)
        /\ accepted' = accepted /\ queue' = queue /\ op' = [op EXCEPT ![c] = "headers"]
        /\ Goto(w, "pop", NoConnection)
    BY <1>12, <1>t DEF Handle, SendResponse, StartOp, Handling, serverVars, acceptVars
  <2>2. \A x \in Connections : /\ \A k \in Loops : Starting(k, x)' <=> Starting(k, x)
                               /\ \A v \in Workers : Handling(v, x)' <=> Handling(v, x) /\ v # w
    BY <1>t, <2>1 DEF Goto, Starting, Handling
  <2>3. \A x : Queued(x)' <=> Queued(x)
    BY <2>1 DEF Queued
  <2>4. c \notin accepted /\ ~Queued(c) /\ (\A k \in Loops : ~Starting(k, c))
        /\ (\A v \in Workers : Handling(v, c) => v = w)
    BY <2>1 DEF OneChain
  <2> HIDE DEF c
  <2> QED
    BY <1>t, <2>1, <2>2, <2>3, <2>4 DEF OneChain
<1>13. ASSUME NEW s \in Stoppers, Stop(s) \/ StopLock(s) PROVE OneChain'
  <2>1. UNCHANGED <<accepted, queue, op, at, on>>
    BY <1>13 DEF Stop, StopLock, connVars, acceptVars
  <2>2. PICK l \in Loops : TRUE
    OBVIOUS
  <2> QED
    BY <2>1, <2>2, <1>g, <1>t
<1>14. ASSUME NEW d \in Stoppers \cup Loops,
              CloseAcceptor(d) \/ DropPending(d) \/ PushNull(d) \/ Drain(d) \/ ClearPool(d) \/ StopLoop(d)
       PROVE  OneChain'
  <2>1. /\ UNCHANGED <<accepted, op, at, on>>
        /\ queue' \in {queue, <<>>, Append(queue, Null)}
    BY <1>14 DEF CloseAcceptor, DropPending, PushNull, Drain, ClearPool, PoolClear, StopLoop,
                 connVars, acceptVars
  <2>2. PICK l \in Loops : TRUE
    OBVIOUS
  <2> QED
    BY <2>1, <2>2, <1>g, <1>t
<1>15. ASSUME NEW d \in Stoppers \cup Loops, Join(d) PROVE OneChain'
  <2>1. accepted' = accepted /\ queue' = queue /\ op' = op
    BY <1>15 DEF Join, connVars, acceptVars
  <2>2. \A x \in Connections : /\ \A k \in Loops : Starting(k, x)' => Starting(k, x)
                               /\ \A w \in Workers : ~Handling(w, x)'
    BY <1>15, <1>t DEF Join, Starting, Handling
  <2> QED
    BY <2>1, <2>2, QueueGetsNothing, NobodyGetsKeeps DEF NobodyGets
<1>16. ASSUME NEW d \in Stoppers \cup Loops, EndStop(d) PROVE OneChain'
  <2>1. accepted' = accepted /\ queue' = queue /\ op' = op
    BY <1>16 DEF EndStop, connVars, acceptVars
  <2>2. PICK l \in Loops : UNCHANGED <<at, on>> \/ Goto(l, "idle", NoConnection)
    BY <1>16 DEF EndStop
  <2> QED
    BY <2>1, <2>2, <1>g, <1>t
<1>17. ASSUME NEW c \in Connections, NEW r \in {"ok", "error"}, Complete(c, r), UNCHANGED serverVars
       PROVE  OneChain'
  <2>1. UNCHANGED <<accepted, queue, op, at, on>>
    BY <1>17 DEF Complete, serverVars, acceptVars
  <2>2. PICK l \in Loops : TRUE
    OBVIOUS
  <2> QED
    BY <2>1, <2>2, <1>g, <1>t
\* From nowhere to the acceptor.
<1>18. ASSUME NEW c \in Connections, Connect(c) PROVE OneChain'
  <2>1. /\ sock[c] = "none" /\ accepted' = accepted \cup {c}
        /\ UNCHANGED <<queue, op, at, on>>
    BY <1>18 DEF Connect
  <2>2. op[c] = "none" /\ ~Queued(c) /\ (\A k \in Loops : ~Starting(k, c))
        /\ (\A w \in Workers : ~Handling(w, c))
    BY <1>t, <2>1 DEF Fresh, Busy, Starting, Handling
  <2>3. \A x : Queued(x)' <=> Queued(x)
    BY <2>1 DEF Queued
  <2>4. \A x \in Connections : /\ \A k \in Loops : Starting(k, x)' <=> Starting(k, x)
                               /\ \A w \in Workers : Handling(w, x)' <=> Handling(w, x)
    BY <2>1 DEF Starting, Handling
  <2> QED
    BY <1>t, <2>1, <2>2, <2>3, <2>4 DEF OneChain
<1> QED
  BY <1>1, <1>2, <1>3, <1>4, <1>5, <1>6, <1>7, <1>8, <1>9, <1>10, <1>11, <1>12, <1>13,
     <1>14, <1>15, <1>16, <1>17, <1>18
  DEF Next, LoopStep, ConnectionStep, OnRead, WorkerStep, DoStop, Environment

-----------------------------------------------------------------------------
(* Clients that have not connected *)

Somewhere(c) ==
  \/ c \in accepted \cup pool
  \/ op[c] # "none"
  \/ Queued(c)
  \/ \E t \in Threads : Busy(t, c)

\* A connection that the step of a thread puts somewhere was somewhere before.
LEMMA FreshInvariance == TypeOK /\ Fresh /\ [Next]_vars => Fresh'
<1> SUFFICES ASSUME TypeOK, Fresh, [Next]_vars PROVE Fresh'
  OBVIOUS
<1>t. /\ at \in [Threads -> LoopPCs \cup WorkerPCs] /\ on \in [Threads -> Connections \cup {NoConnection}]
      /\ Threads = Loops \cup Workers
      /\ sock \in [Connections -> {"none", "open", "closed"}]
      /\ op \in [Connections -> {"none", "read", "headers", "body"}]
      /\ queue \in Seq(Connections \cup {Null})
      /\ \A t \in Threads : at[t] \in {"insert", "start", "erase", "close", "handle"} =>
           on[t] \in Connections
  BY DEF TypeOK, ThreadsTypeOK, SocketsTypeOK, Threads
<1>s. ASSUME \A c \in Connections : sock'[c] = "none" => sock[c] = "none" /\ (Somewhere(c)' => Somewhere(c))
      PROVE  Fresh'
  BY <1>s DEF Fresh, Somewhere
<1>u. ASSUME UNCHANGED <<at, on>> PROVE \A x, t : Busy(t, x)' <=> Busy(t, x)
  BY <1>u DEF Busy
<1>g. ASSUME NEW t \in Threads, NEW p, NEW c, Goto(t, p, c)
      PROVE  \A x \in Connections, k \in Threads : Busy(k, x)' => Busy(k, x) \/ (x = c /\ k = t)
  BY <1>g, <1>t DEF Goto, Busy
<1>q. ASSUME queue' \in {queue, <<>>, Append(queue, Null)}
      PROVE  \A x \in Connections : Queued(x)' => Queued(x)
  <2>1. Elements(Append(queue, Null)) = Elements(queue) \cup {Null}
    BY <1>t, AppendElements
  <2>2. \A x : Queued(x)' <=> x \in Elements(queue')
    BY QueuedElementsNext
  <2> QED
    BY <1>q, <2>1, <2>2, QueuedElements, EmptyElements
<1>1. ASSUME NEW l \in Loops, NEW c \in Connections,
             OnReadError(l, c) \/ OnReadRejected(l, c) \/ OnReadMore(l, c)
             \/ OnWriteError(l, c) \/ DoWriteBody(l, c) \/ OnWriteOK(l, c),
             UNCHANGED serverVars
      PROVE  Fresh'
  <2>1. UNCHANGED <<accepted, pool, sock, queue>>
    BY <1>1 DEF OnReadError, OnReadRejected, OnReadMore, OnWriteError, DoWriteBody, OnWriteOK,
                serverVars, acceptVars
  <2>2. op[c] # "none" /\ \A x \in Connections : x # c => op'[x] = op[x]
    BY <1>1, <1>t DEF OnReadError, OnReadRejected, OnReadMore, OnWriteError, DoWriteBody, OnWriteOK,
                Runs, NoOp, StartOp, SendResponse, Start
  <2>3. UNCHANGED <<at, on>> \/ Goto(l, "erase", c)
    BY <1>1 DEF OnReadError, OnReadRejected, OnReadMore, OnWriteError, DoWriteBody, OnWriteOK
  <2>4. \A x \in Connections, k \in Threads : Busy(k, x)' => Busy(k, x) \/ x = c
    BY <1>t, <1>u, <1>g, <2>3
  <2> QED
    BY <1>s, <1>q, <2>1, <2>2, <2>4 DEF Somewhere, Threads
<1>2. ASSUME NEW l \in Loops, NEW c \in Connections, OnReadFinished(l, c), UNCHANGED serverVars
      PROVE  Fresh'
  <2>1. /\ UNCHANGED <<accepted, pool, sock, at, on>> /\ queue' = Append(queue, c)
        /\ op[c] # "none" /\ op' = [op EXCEPT ![c] = "none"]
    BY <1>2 DEF OnReadFinished, Runs, NoOp, serverVars, acceptVars
  <2>2. Elements(queue') = Elements(queue) \cup {c}
    BY <1>t, <2>1, AppendElements
  <2>3. \A x : Queued(x)' <=> Queued(x) \/ x = c
    BY <2>2, QueuedElements, QueuedElementsNext
  <2> QED
    BY <1>t, <1>s, <1>u, <2>1, <2>3 DEF Somewhere, Threads
<1>3. ASSUME NEW l \in Loops,
             PoolStartInsert(l) \/ PoolStartStart(l) \/ PoolCloseErase(l) \/ PoolCloseClose(l),
             UNCHANGED serverVars
      PROVE  Fresh'
  <2> DEFINE c == on[l]
  <2>1. c \in Connections /\ Busy(l, c)
    BY <1>3, <1>t DEF PoolStartInsert, PoolStartStart, PoolCloseErase, PoolCloseClose, Busy
  <2>2. /\ UNCHANGED <<accepted, queue>> /\ pool' \subseteq pool \cup {c}
        /\ \A x \in Connections : x # c => op'[x] = op[x] /\ sock'[x] = sock[x]
        /\ sock'[c] = "none" => sock[c] = "none"
    BY <1>3, <1>t DEF PoolStartInsert, PoolStartStart, PoolCloseErase, PoolCloseClose,
                CloseSockets, Start, StartOp, serverVars, acceptVars
  <2>3. Goto(l, "start", c) \/ Goto(l, "close", c) \/ Goto(l, "rearm", NoConnection) \/ Goto(l, "idle", NoConnection)
    BY <1>3 DEF PoolStartInsert, PoolStartStart, PoolCloseErase, PoolCloseClose
  <2>4. \A x \in Connections, k \in Threads : Busy(k, x)' => Busy(k, x) \/ x = c
    BY <1>t, <1>g, <2>3
  <2> HIDE DEF c
  <2>5. Somewhere(c)
    BY <1>t, <2>1 DEF Somewhere, Threads
  <2>6. \A x \in Connections : x # c /\ Somewhere(x)' => Somewhere(x)
    BY <1>q, <2>1, <2>2, <2>4 DEF Somewhere, Threads
  <2> QED
    BY <1>s, <2>1, <2>2, <2>5, <2>6
<1>4. CASE Run
  <2>1. UNCHANGED <<accepted, pool, sock, op, queue>>
    BY <1>4 DEF Run, connVars
  <2>2. \A x \in Connections, k \in Threads : ~Busy(k, x)'
    BY <1>4, <1>t DEF Run, Busy
  <2> QED
    BY <1>s, <1>q, <2>1, <2>2 DEF Somewhere, Threads
<1>5. CASE RunNotListening \/ RunReturns \/ AcceptFails \/ RaiseSignal \/ UNCHANGED vars
  <2>1. UNCHANGED <<accepted, pool, sock, op, queue, at, on>>
    BY <1>5 DEF RunNotListening, RunReturns, AcceptFails, RaiseSignal, vars, connVars, serverVars, acceptVars
  <2> QED
    BY <1>s, <1>q, <1>u, <2>1 DEF Somewhere, Threads
<1>6. ASSUME NEW l \in Loops, LoopReturns(l) \/ OnAcceptError(l) \/ Rearm(l) \/ DeliverSignal(l) \/ OnSignal(l)
      PROVE  Fresh'
  <2>1. UNCHANGED <<accepted, pool, sock, op, queue>>
    BY <1>6 DEF LoopReturns, OnAcceptError, Rearm, DeliverSignal, OnSignal, connVars, serverVars, acceptVars
  <2>2. UNCHANGED <<at, on>> \/ \E p : Goto(l, p, NoConnection)
    BY <1>6 DEF LoopReturns, OnAcceptError, Rearm, DeliverSignal, OnSignal
  <2>3. \A x \in Connections, k \in Threads : Busy(k, x)' => Busy(k, x)
    BY <1>t, <1>u, <1>g, <2>2
  <2> QED
    BY <1>s, <1>q, <2>1, <2>3 DEF Somewhere, Threads
<1>7. ASSUME NEW l \in Loops, NEW c \in Connections, OnAccept(l, c) PROVE Fresh'
  <2>1. /\ c \in accepted /\ accepted' \subseteq accepted /\ UNCHANGED <<pool, op, queue>>
        /\ \A x \in Connections : sock'[x] = "none" => sock[x] = "none"
    BY <1>7, <1>t DEF OnAccept
  <2>2. UNCHANGED <<at, on>> \/ Goto(l, "insert", c)
    BY <1>7 DEF OnAccept
  <2>3. \A x \in Connections, k \in Threads : Busy(k, x)' => Busy(k, x) \/ x = c
    BY <1>t, <1>u, <1>g, <2>2
  <2> QED
    BY <1>s, <1>q, <2>1, <2>3 DEF Somewhere, Threads
<1>8. ASSUME NEW w \in Workers, WorkerPop(w) PROVE Fresh'
  <2>1. /\ queue # <<>> /\ queue' = Tail(queue) /\ UNCHANGED <<accepted, pool, sock, op>>
        /\ Goto(w, "relay", NoConnection) \/ Goto(w, "handle", Head(queue))
    BY <1>8 DEF WorkerPop, connVars, serverVars, acceptVars
  <2>2. Elements(queue) = Elements(queue') \cup {Head(queue)}
    BY <1>t, <2>1, TailElements
  <2>3. Queued(Head(queue)) /\ \A x : Queued(x)' => Queued(x)
    BY <2>2, QueuedElements, QueuedElementsNext
  <2>4. \A x \in Connections, k \in Threads : Busy(k, x)' => Busy(k, x) \/ x = Head(queue)
    BY <1>t, <1>g, <2>1
  <2> QED
    BY <1>s, <2>1, <2>3, <2>4 DEF Somewhere, Threads
<1>9. ASSUME NEW w \in Workers, WorkerRelay(w) PROVE Fresh'
  <2>1. /\ queue' = Append(queue, Null) /\ UNCHANGED <<accepted, pool, sock, op>>
        /\ Goto(w, "exited", NoConnection)
    BY <1>9 DEF WorkerRelay, connVars, serverVars, acceptVars
  <2>2. \A x \in Connections, k \in Threads : Busy(k, x)' => Busy(k, x)
    BY <1>t, <1>g, <2>1
  <2> QED
    BY <1>s, <1>q, <2>1, <2>2 DEF Somewhere, Threads
<1>10. ASSUME NEW w \in Workers, Handle(w) PROVE Fresh'
  <2> DEFINE c == on[w]
  <2>1. c \in Connections /\ Busy(w, c)
    BY <1>10, <1>t DEF Handle, Busy
  <2>2. /\ UNCHANGED <<accepted, pool, sock, queue>> /\ Goto(w, "pop", NoConnection)
        /\ \A x \in Connections : x # c => op'[x] = op[x]
    BY <1>10, <1>t DEF Handle, SendResponse, StartOp, serverVars, acceptVars
  <2>3. \A x \in Connections, k \in Threads : Busy(k, x)' => Busy(k, x)
    BY <1>t, <1>g, <2>2
  <2> HIDE DEF c
  <2>4. Somewhere(c)
    BY <1>t, <2>1 DEF Somewhere, Threads
  <2>5. \A x \in Connections : x # c /\ Somewhere(x)' => Somewhere(x)
    BY <1>q, <2>1, <2>2, <2>3 DEF Somewhere, Threads
  <2> QED
    BY <1>s, <2>1, <2>2, <2>4, <2>5
<1>11. ASSUME NEW s \in Stoppers, Stop(s) \/ StopLock(s) PROVE Fresh'
  <2>1. UNCHANGED <<accepted, pool, sock, op, queue, at, on>>
    BY <1>11 DEF Stop, StopLock, connVars, acceptVars
  <2> QED
    BY <1>s, <1>q, <1>u, <2>1 DEF Somewhere, Threads
<1>12. ASSUME NEW d \in Stoppers \cup Loops,
              CloseAcceptor(d) \/ DropPending(d) \/ PushNull(d) \/ Drain(d) \/ ClearPool(d) \/ StopLoop(d)
       PROVE  Fresh'
  <2>1. /\ UNCHANGED <<accepted, op, at, on>>
        /\ queue' \in {queue, <<>>, Append(queue, Null)}
        /\ pool' \subseteq pool
        /\ \A x \in Connections : sock'[x] = "none" => sock[x] = "none"
    BY <1>12, <1>t DEF CloseAcceptor, DropPending, PushNull, Drain, ClearPool, PoolClear, CloseSockets,
                 StopLoop, connVars, acceptVars
  <2> QED
    BY <1>s, <1>q, <1>u, <2>1 DEF Somewhere, Threads
<1>13. ASSUME NEW d \in Stoppers \cup Loops, Join(d) PROVE Fresh'
  <2>1. UNCHANGED <<accepted, pool, sock, op, queue>>
    BY <1>13 DEF Join, connVars, acceptVars
  <2>2. \A x \in Connections, k \in Threads : Busy(k, x)' => Busy(k, x)
    BY <1>13, <1>t DEF Join, Busy
  <2> QED
    BY <1>s, <1>q, <2>1, <2>2 DEF Somewhere, Threads
<1>14. ASSUME NEW d \in Stoppers \cup Loops, EndStop(d) PROVE Fresh'
  <2>1. UNCHANGED <<accepted, pool, sock, op, queue>>
    BY <1>14 DEF EndStop, connVars, acceptVars
  <2>2. UNCHANGED <<at, on>> \/ (d \in Loops /\ Goto(d, "idle", NoConnection))
    BY <1>14 DEF EndStop
  <2>3. \A x \in Connections, k \in Threads : Busy(k, x)' => Busy(k, x)
    BY <1>t, <1>u, <1>g, <2>2
  <2> QED
    BY <1>s, <1>q, <2>1, <2>3 DEF Somewhere, Threads
<1>15. ASSUME NEW c \in Connections, NEW r \in {"ok", "error"}, Complete(c, r), UNCHANGED serverVars
       PROVE  Fresh'
  <2>1. UNCHANGED <<accepted, pool, sock, op, queue, at, on>>
    BY <1>15 DEF Complete, serverVars, acceptVars
  <2> QED
    BY <1>s, <1>q, <1>u, <2>1 DEF Somewhere, Threads
<1>16. ASSUME NEW c \in Connections, Connect(c) PROVE Fresh'
  <2>1. /\ sock' = [sock EXCEPT ![c] = "open"] /\ accepted' = accepted \cup {c}
        /\ UNCHANGED <<pool, queue, op, at, on>>
    BY <1>16 DEF Connect
  <2> QED
    BY <1>t, <1>s, <1>q, <1>u, <2>1 DEF Somewhere, Threads
<1> QED
  BY <1>1, <1>2, <1>3, <1>4, <1>5, <1>6, <1>7, <1>8, <1>9, <1>10, <1>11, <1>12, <1>13,
     <1>14, <1>15, <1>16
  DEF Next, LoopStep, ConnectionStep, OnRead, WorkerStep, DoStop, Environment

\* The request, the response and the parser of a connection are used by one
\* thread at a time, and nothing but the order in which connection.cc and
\* server.cc hand the connection on makes it so: the accept handler, the
\* outstanding operation, the queue and the workers never share it, whatever
\* Stop(), signals, restarts, errors and clients do.
THEOREM OnePlaceForEachConnection == Spec => []OneChain
<1>1. Init => OneChain /\ Fresh
  <2> SUFFICES ASSUME Init PROVE OneChain /\ Fresh
    OBVIOUS
  <2>1. \A c : ~Queued(c)
    BY DEF Init, ConnInit, Queued
  <2>2. \A t \in Threads : \A c : ~Starting(t, c) /\ ~Handling(t, c) /\ ~Busy(t, c)
    BY DEF Init, ConnInit, Starting, Handling, Busy
  <2> QED
    BY <2>1, <2>2 DEF Init, ConnInit, OneChain, Fresh, Threads
<1>2. (TypeOK /\ Control) /\ (OneChain /\ Fresh) /\ [Next]_vars => (OneChain /\ Fresh)'
  BY ChainInvariance, FreshInvariance
<1> QED
  BY <1>1, <1>2, TypeCorrect, ControlCorrect, PTL DEF Spec, Safety

-----------------------------------------------------------------------------
(* What a step leaves alone *)

\* A step of the event loop moves the thread it runs on and no other.
LEMMA LoopStepMovesOne ==
  ASSUME TypeOK, NEW l \in Loops, LoopStep(l)
  PROVE  \A t \in Threads : t # l => at'[t] = at[t] /\ on'[t] = on[t]
<1>t. at \in [Threads -> LoopPCs \cup WorkerPCs] /\ on \in [Threads -> Connections \cup {NoConnection}]
  BY DEF TypeOK, ThreadsTypeOK
<1>1. UNCHANGED <<at, on>> \/ \E p, c : Goto(l, p, c)
  <2>1. ASSUME NEW c \in Connections, OnRead(l, c) \/ OnWriteError(l, c) \/ DoWriteBody(l, c) \/ OnWriteOK(l, c)
        PROVE  UNCHANGED <<at, on>> \/ Goto(l, "erase", c)
    BY <2>1 DEF OnRead, OnReadError, OnReadRejected, OnReadMore, OnReadFinished, OnWriteError,
                DoWriteBody, OnWriteOK
  <2>2. ASSUME PoolStartInsert(l) \/ PoolStartStart(l) \/ PoolCloseErase(l) \/ PoolCloseClose(l)
        PROVE  \E p, c : Goto(l, p, c)
    BY <2>2 DEF PoolStartInsert, PoolStartStart, PoolCloseErase, PoolCloseClose
  <2>3. ASSUME NEW c \in Connections, OnAccept(l, c) PROVE UNCHANGED <<at, on>> \/ Goto(l, "insert", c)
    BY <2>3 DEF OnAccept
  <2>4. ASSUME OnAcceptError(l) \/ Rearm(l) \/ DeliverSignal(l) \/ OnSignal(l) \/ LoopReturns(l)
        PROVE  UNCHANGED <<at, on>> \/ \E p : Goto(l, p, NoConnection)
    BY <2>4 DEF OnAcceptError, Rearm, DeliverSignal, OnSignal, LoopReturns
  <2> QED
    BY <2>1, <2>2, <2>3, <2>4 DEF LoopStep, ConnectionStep
<1> QED
  BY <1>t, <1>1 DEF Goto

\* A step of a worker moves that worker only, and touches neither a socket nor
\* the pool nor anything of the server's but the queue.
LEMMA WorkerStepMovesOne ==
  ASSUME TypeOK, NEW w \in Workers, WorkerStep(w)
  PROVE  /\ \A t \in Threads : t # w => at'[t] = at[t] /\ on'[t] = on[t]
         /\ UNCHANGED <<sock, pool, keep_alive, stopped, serverVars>>
<1>1. /\ \E p, c : Goto(w, p, c)
      /\ UNCHANGED <<sock, pool, keep_alive, stopped, serverVars>>
  BY DEF WorkerStep, WorkerPop, WorkerRelay, Handle, connVars
<1> QED
  BY <1>1 DEF Goto, TypeOK, ThreadsTypeOK

-----------------------------------------------------------------------------
(* Null connections *)

\* A null connection is in the queue, or a worker that popped one is leaving.
NullAround == Queued(Null) \/ \E w \in Workers : at[w] \in {"relay", "exited"}

Joining(d) == stop[d] \in {"join", "drain"}

\* Every step that puts a null connection into the queue is part of a
\* StopWorkers() or hands on the one of a worker that leaves, and the
\* StopWorkers() that ends as the last drains the queue.
LEMMA NullInvariance == TypeOK /\ Control /\ NoStrayNull /\ [Next]_vars => NoStrayNull'
<1> SUFFICES ASSUME TypeOK, Control, NoStrayNull, [Next]_vars PROVE NoStrayNull'
  OBVIOUS
<1>t. /\ at \in [Threads -> LoopPCs \cup WorkerPCs] /\ Threads = Loops \cup Workers
      /\ queue \in Seq(Connections \cup {Null})
      /\ stop \in [Stoppers \cup Loops -> StopPCs]
  BY DEF TypeOK, ThreadsTypeOK, SocketsTypeOK, ServerTypeOK, Threads
<1>k. ASSUME NullAround' => NullAround, \A d \in Stoppers \cup Loops : Joining(d) => Joining(d)'
      PROVE  NoStrayNull'
  BY <1>k DEF NoStrayNull, NullAround, Joining
<1>u. ASSUME UNCHANGED stop PROVE \A d \in Stoppers \cup Loops : Joining(d) => Joining(d)'
  BY <1>u DEF Joining
<1>q. /\ queue' \in {queue, <<>>} => (Queued(Null)' => Queued(Null))
      /\ \A c \in Connections : queue' = Append(queue, c) => (Queued(Null)' => Queued(Null))
      /\ queue # <<>> /\ queue' = Tail(queue) =>
           (Queued(Null)' => Queued(Null)) /\ (Head(queue) = Null => Queued(Null))
  <2>1. \A c \in Connections : Elements(Append(queue, c)) = Elements(queue) \cup {c}
    BY <1>t, AppendElements
  <2>2. queue # <<>> => Elements(queue) = Elements(Tail(queue)) \cup {Head(queue)}
    BY <1>t, TailElements
  <2>3. Queued(Null) <=> Null \in Elements(queue)
    BY QueuedElements
  <2>4. Queued(Null)' <=> Null \in Elements(queue')
    BY QueuedElementsNext
  <2>5. queue' \in {queue, <<>>} => (Queued(Null)' => Queued(Null))
    BY <2>3, <2>4, EmptyElements
  <2>6. ASSUME NEW c \in Connections, queue' = Append(queue, c) PROVE Queued(Null)' => Queued(Null)
    BY <2>1, <2>3, <2>4, <2>6
  <2>7. ASSUME queue # <<>>, queue' = Tail(queue)
        PROVE  (Queued(Null)' => Queued(Null)) /\ (Head(queue) = Null => Queued(Null))
    BY <2>2, <2>3, <2>4, <2>7
  <2> QED
    BY <2>5, <2>6, <2>7
<1>1. ASSUME NEW l \in Loops, LoopStep(l) PROVE NoStrayNull'
  <2>1. \A w \in Workers : at'[w] = at[w]
    BY <1>1, <1>t, LoopStepMovesOne
  <2>2. queue' = queue \/ \E c \in Connections : queue' = Append(queue, c)
    <3>1. ASSUME NEW c \in Connections, OnRead(l, c) \/ OnWriteError(l, c) \/ DoWriteBody(l, c) \/ OnWriteOK(l, c)
          PROVE  queue' \in {queue, Append(queue, c)}
      BY <3>1 DEF OnRead, OnReadError, OnReadRejected, OnReadMore, OnReadFinished, OnWriteError,
                  DoWriteBody, OnWriteOK
    <3>2. ASSUME PoolStartInsert(l) \/ PoolStartStart(l) \/ PoolCloseErase(l) \/ PoolCloseClose(l)
          PROVE  queue' = queue
      BY <3>2 DEF PoolStartInsert, PoolStartStart, PoolCloseErase, PoolCloseClose
    <3>3. ASSUME NEW c \in Connections, OnAccept(l, c) PROVE queue' = queue
      BY <3>3 DEF OnAccept
    <3>4. ASSUME OnAcceptError(l) \/ Rearm(l) \/ DeliverSignal(l) \/ OnSignal(l) \/ LoopReturns(l)
          PROVE  queue' = queue
      BY <3>4 DEF OnAcceptError, Rearm, DeliverSignal, OnSignal, LoopReturns
    <3> QED
      BY <1>1, <3>1, <3>2, <3>3, <3>4 DEF LoopStep, ConnectionStep
  <2>3. \A d \in Stoppers \cup Loops : Joining(d) => Joining(d)'
    <3>1. stop' = stop \/ (OnSignal(l) /\ at[l] = "idle" /\ stop' = [stop EXCEPT ![l] = "acceptor"])
      BY <1>1 DEF LoopStep, OnAccept, OnAcceptError, Rearm, DeliverSignal, OnSignal, LoopReturns, serverVars
    <3>2. at[l] = "idle" => stop[l] = "none"
      BY DEF Control
    <3> QED
      BY <1>t, <1>u, <3>1, <3>2 DEF Joining
  <2> QED
    BY <1>k, <1>q, <2>1, <2>2, <2>3 DEF NullAround
<1>2. CASE Run
  <2>1. \A w \in Workers : at'[w] = "pop"
    BY <1>2, <1>t DEF Run
  <2>2. queue' = queue /\ stop' = stop
    BY <1>2 DEF Run
  <2> QED
    BY <1>k, <1>u, <1>q, <2>1, <2>2 DEF NullAround
<1>3. CASE RunNotListening \/ RunReturns \/ UNCHANGED vars
  <2>1. queue' = queue /\ stop' = stop /\ at' = at
    BY <1>3 DEF RunNotListening, RunReturns, vars, serverVars
  <2> QED
    BY <1>k, <1>u, <1>q, <2>1 DEF NullAround
<1>4. ASSUME NEW w \in Workers, WorkerPop(w) PROVE NoStrayNull'
  <2>1. queue # <<>> /\ queue' = Tail(queue) /\ stop' = stop
    BY <1>4 DEF WorkerPop, serverVars
  <2>2. Head(queue) # Null => at' = [at EXCEPT ![w] = "handle"]
    BY <1>4 DEF WorkerPop, Goto
  <2>3. \A v \in Workers : at'[v] \in {"relay", "exited"} => at[v] \in {"relay", "exited"} \/ Head(queue) = Null
    BY <1>t, <2>2
  <2> QED
    BY <1>k, <1>u, <1>q, <2>1, <2>3 DEF NullAround
<1>5. ASSUME NEW w \in Workers, WorkerRelay(w) PROVE NoStrayNull'
  BY <1>5, <1>k, <1>u DEF WorkerRelay, NullAround, serverVars
<1>6. ASSUME NEW w \in Workers, Handle(w) PROVE NoStrayNull'
  <2>1. queue' = queue /\ stop' = stop /\ at' = [at EXCEPT ![w] = "pop"]
    BY <1>6 DEF Handle, Goto, serverVars
  <2>2. \A v \in Workers : at'[v] \in {"relay", "exited"} => at[v] \in {"relay", "exited"}
    BY <1>t, <2>1
  <2> QED
    BY <1>k, <1>u, <1>q, <2>1, <2>2 DEF NullAround
<1>7. ASSUME NEW s \in Stoppers, Stop(s) \/ StopLock(s) PROVE NoStrayNull'
  <2>1. /\ queue' = queue /\ at' = at /\ stop[s] \in {"none", "mutex"}
        /\ \E p : stop' = [stop EXCEPT ![s] = p]
    BY <1>7 DEF Stop, StopLock, Move
  <2>2. \A d \in Stoppers \cup Loops : Joining(d) => Joining(d)'
    BY <1>t, <2>1 DEF Joining
  <2> QED
    BY <1>k, <1>q, <2>1, <2>2 DEF NullAround
<1>8. ASSUME NEW d \in Stoppers \cup Loops, CloseAcceptor(d) \/ DropPending(d) \/ ClearPool(d) \/ StopLoop(d)
      PROVE  NoStrayNull'
  <2>1. /\ queue' \in {queue, <<>>} /\ at' = at /\ stop[d] \in {"acceptor", "drop", "pool", "io"}
        /\ \E p : stop' = [stop EXCEPT ![d] = p]
    BY <1>8 DEF CloseAcceptor, DropPending, ClearPool, StopLoop, Move
  <2>2. \A e \in Stoppers \cup Loops : Joining(e) => Joining(e)'
    BY <1>t, <2>1 DEF Joining
  <2> QED
    BY <1>k, <1>q, <2>1, <2>2 DEF NullAround
<1>9. ASSUME NEW d \in Stoppers \cup Loops, PushNull(d) PROVE NoStrayNull'
  BY <1>9, <1>t DEF PushNull, Move, NoStrayNull
<1>10. ASSUME NEW d \in Stoppers \cup Loops, Join(d) PROVE NoStrayNull'
  BY <1>10, <1>t DEF Join, Move, NoStrayNull
\* Whoever drains the queue has joined every worker.
<1>11. ASSUME NEW d \in Stoppers \cup Loops, Drain(d) PROVE NoStrayNull'
  <2>1. queue' = <<>> /\ at' = at /\ stop[d] = "drain"
    BY <1>11 DEF Drain, Move
  <2>2. \A w \in Workers : at[w] = "none"
    BY <2>1 DEF Control, NoWorkers
  <2>3. ~NullAround'
    BY <2>1, <2>2, EmptyElements, QueuedElementsNext DEF NullAround
  <2> QED
    BY <2>3 DEF NoStrayNull, NullAround
<1>12. ASSUME NEW d \in Stoppers \cup Loops, EndStop(d) PROVE NoStrayNull'
  <2>1. queue' = queue /\ stop[d] = "flag" /\ stop' = [stop EXCEPT ![d] = "none"]
    BY <1>12 DEF EndStop, Move
  <2>2. \A w \in Workers : at'[w] = at[w]
    BY <1>12, <1>t DEF EndStop, Goto
  <2>3. \A e \in Stoppers \cup Loops : Joining(e) => Joining(e)'
    BY <1>t, <2>1 DEF Joining
  <2> QED
    BY <1>k, <1>q, <2>1, <2>2, <2>3 DEF NullAround
<1>13. CASE Environment
  <2>1. queue' = queue /\ stop' = stop /\ at' = at
    BY <1>13 DEF Environment, Complete, Connect, AcceptFails, RaiseSignal, serverVars
  <2> QED
    BY <1>k, <1>u, <1>q, <2>1 DEF NullAround
<1> QED
  BY <1>1, <1>2, <1>3, <1>4, <1>5, <1>6, <1>7, <1>8, <1>9, <1>10, <1>11, <1>12, <1>13
  DEF Next, WorkerStep, DoStop

\* No worker ends unless a DoStop() waits for it: the null connection with which
\* StopWorkers() stops the workers, and which the last of them leaves in the
\* queue, never outlives the StopWorkers() calls under way, so it does not end
\* the workers of a later Run().
THEOREM NoNullIsLeft == Spec => []NoStrayNull
<1>1. Init => NoStrayNull
  <2> SUFFICES ASSUME Init PROVE NoStrayNull
    OBVIOUS
  <2>1. \A w \in Workers : at[w] = "none"
    BY DEF Init, ConnInit, Threads
  <2>2. ~Queued(Null)
    BY DEF Init, ConnInit, Queued
  <2> QED
    BY <2>1, <2>2 DEF NoStrayNull
<1> QED
  BY <1>1, NullInvariance, TypeCorrect, ControlCorrect, PTL DEF Spec, Safety

-----------------------------------------------------------------------------
(* The accept handler *)

\* A thread of the event loop is in the accept handler and will accept again.
Accepting(l) == at[l] \in {"insert", "start", "rearm"}

\* Every accept that completes, with a socket or an error, leads to the next one
\* unless the acceptor was closed.
LEMMA ArmedInvariance == TypeOK /\ Control /\ AcceptArmed /\ [Next]_vars => AcceptArmed'
<1> SUFFICES ASSUME TypeOK, Control, AcceptArmed, [Next]_vars PROVE AcceptArmed'
  OBVIOUS
<1>t. /\ at \in [Threads -> LoopPCs \cup WorkerPCs] /\ Threads = Loops \cup Workers
      /\ accept_waits \in Nat /\ accept_errors \in Nat /\ accepted \in SUBSET Connections
  BY DEF TypeOK, ThreadsTypeOK, ServerTypeOK, Threads
<1>k. ASSUME acceptor' = "listening" => acceptor = "listening",
             UNCHANGED <<accept_waits, accept_errors, accepted>>,
             \A l \in Loops : Accepting(l) => Accepting(l)'
      PROVE  AcceptArmed'
  BY <1>k DEF AcceptArmed, Accepting
<1>u. ASSUME UNCHANGED at PROVE \A l \in Loops : Accepting(l) => Accepting(l)'
  BY <1>u DEF Accepting
<1>1. ASSUME NEW l \in Loops, ConnectionStep(l), UNCHANGED serverVars PROVE AcceptArmed'
  <2>1. UNCHANGED <<acceptor, accept_waits, accept_errors, accepted>>
    BY <1>1 DEF serverVars, acceptVars
  <2>2. \A k \in Loops : Accepting(k) => Accepting(k)'
    <3>1. \A k \in Loops : k # l => at'[k] = at[k]
      BY <1>1, <1>t, LoopStepMovesOne DEF LoopStep
    <3>2. ASSUME NEW c \in Connections, OnRead(l, c) \/ OnWriteError(l, c) \/ DoWriteBody(l, c) \/ OnWriteOK(l, c)
          PROVE  at[l] = "idle"
      BY <3>2 DEF OnRead, OnReadError, OnReadRejected, OnReadMore, OnReadFinished, OnWriteError,
                  DoWriteBody, OnWriteOK, Runs
    <3>3. ASSUME PoolStartInsert(l) \/ PoolStartStart(l) \/ PoolCloseErase(l) \/ PoolCloseClose(l)
          PROVE  at[l] \in {"insert", "start"} => at'[l] \in {"start", "rearm"}
      BY <1>t, <3>3 DEF PoolStartInsert, PoolStartStart, PoolCloseErase, PoolCloseClose, Goto
    <3>4. PoolStartInsert(l) \/ PoolStartStart(l) \/ PoolCloseErase(l) \/ PoolCloseClose(l) => at[l] # "rearm"
      BY DEF PoolStartInsert, PoolStartStart, PoolCloseErase, PoolCloseClose
    <3> QED
      BY <1>1, <3>1, <3>2, <3>3, <3>4 DEF ConnectionStep, Accepting
  <2> QED
    BY <1>k, <2>1, <2>2
<1>2. CASE Run
  BY <1>2, <1>t DEF Run, AcceptArmed
<1>3. CASE RunNotListening
  BY <1>3 DEF RunNotListening, AcceptArmed
<1>4. CASE RunReturns \/ RaiseSignal \/ UNCHANGED vars
  <2>1. UNCHANGED <<acceptor, accept_waits, accept_errors, accepted, at>>
    BY <1>4 DEF RunReturns, RaiseSignal, vars, serverVars, acceptVars
  <2> QED
    BY <1>k, <1>u, <2>1
<1>5. ASSUME NEW c \in Connections, Connect(c) PROVE AcceptArmed'
  BY <1>5 DEF Connect, AcceptArmed
<1>6. CASE AcceptFails
  BY <1>6, <1>t DEF AcceptFails, AcceptArmed
<1>7. ASSUME NEW c \in Connections, NEW r \in {"ok", "error"}, Complete(c, r), UNCHANGED serverVars
      PROVE  AcceptArmed'
  BY <1>7, <1>k, <1>u DEF Complete, serverVars, acceptVars
<1>8. ASSUME NEW l \in Loops, NEW c \in Connections, OnAccept(l, c) PROVE AcceptArmed'
  <2>1. CASE acceptor = "closed"
    BY <1>8, <2>1 DEF OnAccept, AcceptArmed
  <2>2. CASE acceptor # "closed"
    <3>1. at'[l] = "insert"
      BY <1>8, <1>t, <2>2 DEF OnAccept, Goto
    <3> QED
      BY <3>1 DEF AcceptArmed
  <2> QED
    BY <2>1, <2>2
<1>9. ASSUME NEW l \in Loops, OnAcceptError(l) PROVE AcceptArmed'
  <2>1. CASE acceptor = "closed"
    BY <1>9, <2>1 DEF OnAcceptError, AcceptArmed
  <2>2. CASE acceptor # "closed"
    <3>1. at'[l] = "rearm"
      BY <1>9, <1>t, <2>2 DEF OnAcceptError, Goto
    <3> QED
      BY <3>1 DEF AcceptArmed
  <2> QED
    BY <2>1, <2>2
<1>10. ASSUME NEW l \in Loops, Rearm(l) PROVE AcceptArmed'
  <2>1. acceptor' = acceptor /\ accept_waits' + accept_errors' > 0
    BY <1>10, <1>t DEF Rearm
  <2> QED
    BY <2>1 DEF AcceptArmed
<1>11. ASSUME NEW l \in Loops, DeliverSignal(l) \/ OnSignal(l) \/ LoopReturns(l) PROVE AcceptArmed'
  <2>1. /\ UNCHANGED <<acceptor, accept_waits, accept_errors, accepted>>
        /\ at[l] = "idle"
        /\ \A k \in Loops : k # l => at'[k] = at[k]
    BY <1>11, <1>t, LoopStepMovesOne DEF LoopStep, DeliverSignal, OnSignal, LoopReturns, acceptVars, serverVars
  <2>2. \A k \in Loops : Accepting(k) => Accepting(k)'
    BY <2>1 DEF Accepting
  <2> QED
    BY <1>k, <2>1, <2>2
<1>12. ASSUME NEW w \in Workers, WorkerStep(w) PROVE AcceptArmed'
  <2>1. UNCHANGED <<acceptor, accept_waits, accept_errors, accepted>> /\ \A l \in Loops : at'[l] = at[l]
    BY <1>12, <1>t, WorkerStepMovesOne DEF serverVars, acceptVars
  <2> QED
    BY <1>k, <2>1 DEF Accepting
<1>13. ASSUME NEW s \in Stoppers, Stop(s) \/ StopLock(s) PROVE AcceptArmed'
  BY <1>13, <1>k, <1>u DEF Stop, StopLock, acceptVars
<1>14. ASSUME NEW d \in Stoppers \cup Loops, CloseAcceptor(d) PROVE AcceptArmed'
  BY <1>14 DEF CloseAcceptor, AcceptArmed
<1>15. ASSUME NEW d \in Stoppers \cup Loops,
              DropPending(d) \/ PushNull(d) \/ Drain(d) \/ ClearPool(d) \/ StopLoop(d)
       PROVE  AcceptArmed'
  BY <1>15, <1>k, <1>u DEF DropPending, PushNull, Drain, ClearPool, StopLoop, acceptVars
<1>16. ASSUME NEW d \in Stoppers \cup Loops, Join(d) PROVE AcceptArmed'
  <2>1. UNCHANGED <<acceptor, accept_waits, accept_errors, accepted>> /\ \A l \in Loops : at'[l] = at[l]
    BY <1>16, <1>t DEF Join, acceptVars
  <2> QED
    BY <1>k, <2>1 DEF Accepting
\* The thread that leaves DoStop() is in a signal handler, not in this one.
<1>17. ASSUME NEW d \in Stoppers \cup Loops, EndStop(d) PROVE AcceptArmed'
  <2>1. /\ UNCHANGED <<acceptor, accept_waits, accept_errors, accepted>>
        /\ stop[d] = "flag"
        /\ UNCHANGED at \/ (d \in Loops /\ at' = [at EXCEPT ![d] = "idle"])
    BY <1>17 DEF EndStop, Move, Goto, acceptVars
  <2>2. d \in Loops => at[d] = "signal"
    BY <2>1 DEF Control
  <2>3. \A l \in Loops : Accepting(l) => Accepting(l)'
    BY <1>t, <2>1, <2>2 DEF Accepting
  <2> QED
    BY <1>k, <2>1, <2>3
<1> QED
  BY <1>1, <1>2, <1>3, <1>4, <1>5, <1>6, <1>7, <1>8, <1>9, <1>10, <1>11, <1>12, <1>13, <1>14,
     <1>15, <1>16, <1>17
  DEF Next, LoopStep, DoStop, Environment

\* The server does not become deaf: as long as the acceptor listens, an accept is
\* outstanding or a handler is on its way to the next one, whatever errors
\* accept() reports (the accept handler in server.cc).
THEOREM AcceptIsArmed == Spec => []AcceptArmed
<1>1. Init => AcceptArmed
  BY DEF Init, AcceptArmed
<1> QED
  BY <1>1, ArmedInvariance, TypeCorrect, ControlCorrect, PTL DEF Spec, Safety

-----------------------------------------------------------------------------
(* The pool and the sockets *)

\* A client that was accepted and has not been put into the pool yet.
Newcomer(c) == c \in accepted \/ \E l \in Loops : at[l] = "insert" /\ on[l] = c

\* It has an open socket, and only the accept handler knows it.
NewcomersUnknown ==
  \A c \in Connections : Newcomer(c) =>
    /\ sock[c] = "open"
    /\ c \notin pool
    /\ \A t \in Threads : Busy(t, c) => at[t] = "insert"

\* pool_->Close() closes a connection it has taken out of the pool.
ErasedFirst == \A l \in Loops : at[l] = "close" => on[l] \notin pool

\* Only closing the socket on this side aborts an operation.
AbortedByClose == \A c \in Connections : result[c] = "aborted" => sock[c] = "closed"

Owned == NewcomersUnknown /\ ErasedFirst /\ PoolOwnsSockets

\* A step that neither connects, accepts, pools nor closes anybody.
Quiet ==
  /\ UNCHANGED <<sock, pool, accepted>>
  /\ \A t \in Threads : at[t] \in {"insert", "close"} \/ at'[t] \in {"insert", "close"} =>
       at'[t] = at[t] /\ on'[t] = on[t]
  /\ \A t \in Threads, c \in Connections : Busy(t, c)' => Busy(t, c) \/ ~Newcomer(c)

\* Such a step leaves the owner of every socket what it was.
LEMMA QuietKeeps == TypeOK /\ Owned /\ Quiet => Owned'
<1> SUFFICES ASSUME TypeOK, Owned, Quiet PROVE Owned'
  OBVIOUS
<1>1. \A c : Newcomer(c)' <=> Newcomer(c)
  BY DEF Quiet, Newcomer, Threads
<1>2. NewcomersUnknown'
  <2> SUFFICES ASSUME NEW c \in Connections, Newcomer(c)'
               PROVE  /\ sock'[c] = "open" /\ c \notin pool'
                      /\ \A t \in Threads : Busy(t, c)' => at'[t] = "insert"
    BY DEF NewcomersUnknown
  <2>1. /\ sock[c] = "open" /\ c \notin pool
        /\ \A t \in Threads : Busy(t, c) => at[t] = "insert"
    BY <1>1 DEF Owned, NewcomersUnknown
  <2>2. ASSUME NEW t \in Threads, Busy(t, c)' PROVE at'[t] = "insert"
    BY <1>1, <2>1, <2>2 DEF Quiet
  <2> QED
    BY <2>1, <2>2 DEF Quiet
<1>3. ErasedFirst'
  BY DEF Owned, ErasedFirst, Quiet, Threads
<1>4. PoolOwnsSockets'
  BY DEF Owned, PoolOwnsSockets, Quiet, Threads
<1> QED
  BY <1>2, <1>3, <1>4 DEF Owned

\* Nobody but the acceptor, the accept handler and the pool is concerned with the
\* sockets; the others get only connections that were pooled before.
LEMMA QuietSteps ==
  ASSUME TypeOK, Control, OneChain, [Next]_vars
  PROVE  \/ Quiet
         \/ \E c \in Connections : Connect(c) \/ \E l \in Loops : OnAccept(l, c)
         \/ \E l \in Loops : /\ \/ PoolStartInsert(l) \/ PoolStartStart(l)
                                \/ PoolCloseErase(l) \/ PoolCloseClose(l)
                             /\ UNCHANGED serverVars
         \/ \E d \in Stoppers \cup Loops : ClearPool(d)
<1>t. /\ at \in [Threads -> LoopPCs \cup WorkerPCs] /\ on \in [Threads -> Connections \cup {NoConnection}]
      /\ Threads = Loops \cup Workers
      /\ \A l \in Loops : at[l] \in LoopPCs
      /\ \A w \in Workers : at[w] \in WorkerPCs
      /\ queue \in Seq(Connections \cup {Null})
  BY DEF TypeOK, ThreadsTypeOK, SocketsTypeOK, Threads
<1>n. \A c \in Connections : op[c] # "none" \/ Queued(c) => ~Newcomer(c)
  BY DEF OneChain, Newcomer, Starting
<1>g. ASSUME NEW t \in Threads, at[t] \notin {"insert", "close"}, UNCHANGED <<sock, pool, accepted>>,
             NEW p, NEW c, p \notin {"insert", "close"}, Goto(t, p, c),
             p \in {"start", "erase", "handle"} => c \in Connections /\ ~Newcomer(c)
      PROVE  Quiet
  BY <1>t, <1>g DEF Quiet, Goto, Busy
<1>u. ASSUME UNCHANGED <<sock, pool, accepted, at, on>> PROVE Quiet
  BY <1>u DEF Quiet, Busy
<1>1. ASSUME NEW l \in Loops, NEW c \in Connections, UNCHANGED serverVars,
             OnRead(l, c) \/ OnWriteError(l, c) \/ DoWriteBody(l, c) \/ OnWriteOK(l, c)
      PROVE  Quiet
  <2>1. /\ UNCHANGED <<sock, pool, accepted>> /\ at[l] = "idle" /\ op[c] # "none"
        /\ UNCHANGED <<at, on>> \/ Goto(l, "erase", c)
    <3>1. CASE OnRead(l, c)
      BY <1>1, <3>1 DEF OnRead, OnReadError, OnReadRejected, OnReadMore, OnReadFinished, Runs,
                        serverVars, acceptVars
    <3>2. CASE OnWriteError(l, c) \/ DoWriteBody(l, c) \/ OnWriteOK(l, c)
      BY <1>1, <3>2 DEF OnWriteError, DoWriteBody, OnWriteOK, Runs, serverVars, acceptVars
    <3> QED
      BY <1>1, <3>1, <3>2
  <2> QED
    BY <1>g, <1>n, <1>t, <1>u, <2>1
<1>2. ASSUME NEW l \in Loops,
             OnAcceptError(l) \/ Rearm(l) \/ DeliverSignal(l) \/ OnSignal(l) \/ LoopReturns(l)
      PROVE  Quiet
  <2>1. /\ UNCHANGED <<sock, pool, accepted>> /\ at[l] \in {"idle", "rearm"}
        /\ UNCHANGED <<at, on>> \/ \E p \in {"rearm", "idle", "signal", "out"} : Goto(l, p, NoConnection)
    BY <1>2 DEF OnAcceptError, Rearm, DeliverSignal, OnSignal, LoopReturns, connVars, serverVars, acceptVars
  <2> QED
    BY <1>g, <1>t, <1>u, <2>1
<1>3. CASE Run
  <2>1. /\ UNCHANGED <<sock, pool, accepted>>
        /\ \A t \in Threads : at'[t] \in {"idle", "pop"}
    BY <1>3, <1>t DEF Run, connVars
  <2>2. \A t \in Threads : at[t] \in {"out", "none"}
    BY <1>3, <1>t DEF Run, BeginRun, Control, NoWorkers
  <2> QED
    BY <2>1, <2>2 DEF Quiet, Busy
<1>4. CASE RunNotListening \/ RunReturns \/ AcceptFails \/ RaiseSignal \/ UNCHANGED vars
  BY <1>4, <1>u DEF RunNotListening, RunReturns, AcceptFails, RaiseSignal, vars, connVars, serverVars, acceptVars
<1>5. ASSUME NEW w \in Workers, WorkerStep(w) PROVE Quiet
  <2>1. UNCHANGED <<sock, pool, accepted>>
    BY <1>5, WorkerStepMovesOne DEF serverVars, acceptVars
  <2>2. at[w] \notin {"insert", "close"}
    BY <1>t DEF WorkerPCs
  <2>3. CASE WorkerRelay(w) \/ Handle(w)
    <3>1. Goto(w, "exited", NoConnection) \/ Goto(w, "pop", NoConnection)
      BY <2>3 DEF WorkerRelay, Handle
    <3> QED
      BY <1>g, <1>t, <2>1, <2>2, <3>1
  <2>4. CASE WorkerPop(w)
    <3>1. Goto(w, "relay", NoConnection) \/ (Goto(w, "handle", Head(queue)) /\ Head(queue) # Null)
      BY <2>4 DEF WorkerPop
    <3>2. queue # <<>> /\ Head(queue) \in Connections \cup {Null} /\ Queued(Head(queue))
      <4>1. queue # <<>>
        BY <2>4 DEF WorkerPop
      <4>2. Head(queue) \in Elements(queue)
        BY <1>t, <4>1, TailElements
      <4> QED
        BY <1>t, <4>1, <4>2, QueuedElements
    <3> QED
      BY <1>g, <1>n, <1>t, <2>1, <2>2, <3>1, <3>2
  <2> QED
    BY <1>5, <2>3, <2>4 DEF WorkerStep
<1>6. ASSUME NEW s \in Stoppers, Stop(s) \/ StopLock(s) PROVE Quiet
  BY <1>6, <1>u DEF Stop, StopLock, connVars, acceptVars
<1>7. ASSUME NEW d \in Stoppers \cup Loops,
             CloseAcceptor(d) \/ DropPending(d) \/ PushNull(d) \/ Drain(d) \/ StopLoop(d)
      PROVE  Quiet
  BY <1>7, <1>u DEF CloseAcceptor, DropPending, PushNull, Drain, StopLoop, connVars, acceptVars
<1>8. ASSUME NEW d \in Stoppers \cup Loops, Join(d) PROVE Quiet
  <2>1. /\ UNCHANGED <<sock, pool, accepted, on>>
        /\ \A t \in Threads : at'[t] = (IF t \in Workers THEN "none" ELSE at[t])
    BY <1>8 DEF Join, connVars, acceptVars
  <2>2. \A t \in Workers : at[t] \notin {"insert", "close"}
    BY <1>t DEF WorkerPCs
  <2> QED
    BY <1>t, <2>1, <2>2 DEF Quiet, Busy
<1>9. ASSUME NEW d \in Stoppers \cup Loops, EndStop(d) PROVE Quiet
  <2>1. /\ UNCHANGED <<sock, pool, accepted>> /\ stop[d] = "flag"
        /\ UNCHANGED <<at, on>> \/ (d \in Loops /\ Goto(d, "idle", NoConnection))
    BY <1>9 DEF EndStop, Move, connVars, acceptVars
  <2>2. d \in Loops => at[d] = "signal"
    BY <2>1 DEF Control
  <2> QED
    BY <1>g, <1>t, <1>u, <2>1, <2>2
<1>10. ASSUME NEW c \in Connections, NEW r \in {"ok", "error"}, Complete(c, r), UNCHANGED serverVars
       PROVE  Quiet
  BY <1>10, <1>u DEF Complete, serverVars, acceptVars
<1> QED
  BY <1>1, <1>2, <1>3, <1>4, <1>5, <1>6, <1>7, <1>8, <1>9, <1>10
  DEF Next, LoopStep, ConnectionStep, DoStop, Environment

\* Every step leaves each open socket with one owner: the accept handler, the
\* pool, or a Close() under way.
LEMMA OwnedInvariance == TypeOK /\ Control /\ OneChain /\ Fresh /\ Owned /\ [Next]_vars => Owned'
<1> SUFFICES ASSUME TypeOK, Control, OneChain, Fresh, Owned, [Next]_vars PROVE Owned'
  OBVIOUS
<1>t. /\ at \in [Threads -> LoopPCs \cup WorkerPCs] /\ on \in [Threads -> Connections \cup {NoConnection}]
      /\ Threads = Loops \cup Workers
      /\ sock \in [Connections -> {"none", "open", "closed"}]
      /\ pool \in SUBSET Connections /\ accepted \in SUBSET Connections
      /\ \A t \in Threads : at[t] \in {"insert", "start", "erase", "close", "handle"} =>
           on[t] \in Connections
  BY DEF TypeOK, ThreadsTypeOK, SocketsTypeOK, ServerTypeOK, Threads
<1>1. ASSUME NEW c \in Connections, Connect(c) PROVE Owned'
  <2>1. /\ sock[c] = "none" /\ sock' = [sock EXCEPT ![c] = "open"] /\ accepted' = accepted \cup {c}
        /\ UNCHANGED <<pool, at, on>>
    BY <1>1 DEF Connect
  <2>2. c \notin pool /\ \A t \in Threads : ~Busy(t, c)
    BY <2>1 DEF Fresh
  <2>3. \A x \in Connections : (Newcomer(x)' <=> Newcomer(x) \/ x = c) /\ \A t \in Threads : Busy(t, x)' <=> Busy(t, x)
    BY <2>1 DEF Newcomer, Busy
  <2>4. NewcomersUnknown'
    BY <1>t, <2>1, <2>2, <2>3 DEF Owned, NewcomersUnknown
  <2>5. ErasedFirst'
    BY <2>1 DEF Owned, ErasedFirst
  <2>6. PoolOwnsSockets'
    BY <1>t, <2>1 DEF Owned, PoolOwnsSockets
  <2> QED
    BY <2>4, <2>5, <2>6 DEF Owned
\* From the acceptor to the accept handler, or back to the system.
<1>2. ASSUME NEW l \in Loops, NEW c \in Connections, OnAccept(l, c) PROVE Owned'
  <2>1. c \in accepted /\ accepted' = accepted \ {c} /\ pool' = pool /\ at[l] = "idle"
    BY <1>2 DEF OnAccept
  <2>2. sock[c] = "open" /\ c \notin pool /\ \A t \in Threads : ~Busy(t, c)
    <3>1. \A k \in Loops : ~Starting(k, c)
      BY <2>1 DEF OneChain
    <3>2. \A t \in Threads : Busy(t, c) => at[t] = "insert"
      BY <2>1 DEF Owned, NewcomersUnknown, Newcomer
    <3>3. \A t \in Threads : at[t] = "insert" => t \in Loops
      BY <1>t DEF TypeOK, ThreadsTypeOK, WorkerPCs
    <3> QED
      BY <2>1, <3>1, <3>2, <3>3 DEF Owned, NewcomersUnknown, Newcomer, Starting, Busy
  <2>3. CASE acceptor = "closed"
    <3>1. sock' = [sock EXCEPT ![c] = "closed"] /\ UNCHANGED <<at, on>>
      BY <1>2, <2>3 DEF OnAccept
    <3>2. \A x \in Connections : /\ Newcomer(x)' => Newcomer(x) /\ x # c
                                 /\ \A t \in Threads : Busy(t, x)' <=> Busy(t, x)
      BY <1>t, <2>1, <2>2, <3>1 DEF Newcomer, Busy
    <3>3. NewcomersUnknown'
      BY <1>t, <2>1, <3>1, <3>2 DEF Owned, NewcomersUnknown
    <3>4. ErasedFirst' /\ PoolOwnsSockets'
      BY <1>t, <2>1, <2>2, <3>1 DEF Owned, ErasedFirst, PoolOwnsSockets
    <3> QED
      BY <3>3, <3>4 DEF Owned
  <2>4. CASE acceptor # "closed"
    <3>1. Goto(l, "insert", c) /\ sock' = sock
      BY <1>2, <2>4 DEF OnAccept
    <3>2. \A x \in Connections : /\ Newcomer(x)' => Newcomer(x)
                                 /\ \A t \in Threads : Busy(t, x)' => Busy(t, x) \/ t = l
      BY <1>t, <2>1, <3>1 DEF Goto, Newcomer, Busy
    <3>3. \A t \in Threads : at'[t] = (IF t = l THEN "insert" ELSE at[t]) /\ on'[t] = (IF t = l THEN c ELSE on[t])
      BY <1>t, <3>1 DEF Goto
    <3>4. NewcomersUnknown'
      BY <1>t, <2>1, <3>1, <3>2, <3>3 DEF Owned, NewcomersUnknown
    <3>5. ErasedFirst'
      BY <1>t, <2>1, <3>3 DEF Owned, ErasedFirst
    <3>6. PoolOwnsSockets'
      BY <1>t, <2>1, <3>1, <3>3 DEF Owned, PoolOwnsSockets
    <3> QED
      BY <3>4, <3>5, <3>6 DEF Owned
  <2> QED
    BY <2>3, <2>4
\* From the accept handler to the pool.
<1>3. ASSUME NEW l \in Loops, PoolStartInsert(l), UNCHANGED serverVars PROVE Owned'
  <2> DEFINE c == on[l]
  <2>1. /\ c \in Connections /\ at[l] = "insert"
        /\ pool' = pool \cup {c} /\ UNCHANGED <<sock, accepted>> /\ Goto(l, "start", c)
    BY <1>3, <1>t DEF PoolStartInsert, serverVars, acceptVars
  <2>2. /\ sock[c] = "open" /\ \A t \in Threads : Busy(t, c) => at[t] = "insert"
    BY <2>1 DEF Owned, NewcomersUnknown, Newcomer
  <2>3. c \notin accepted /\ \A k \in Loops : at[k] = "insert" /\ on[k] = c => k = l
    BY <2>1 DEF OneChain, Starting
  <2> HIDE DEF c
  <2>4. \A t \in Threads : at'[t] = (IF t = l THEN "start" ELSE at[t]) /\ on'[t] = (IF t = l THEN c ELSE on[t])
    BY <1>t, <2>1 DEF Goto
  <2>5. \A x \in Connections : Newcomer(x)' => Newcomer(x) /\ x # c
    BY <1>t, <2>1, <2>3, <2>4 DEF Newcomer
  <2>6. \A x \in Connections : \A t \in Threads : x # c => (Busy(t, x)' => Busy(t, x) /\ t # l)
    BY <1>t, <2>4 DEF Busy
  <2>7. NewcomersUnknown'
    BY <1>t, <2>1, <2>4, <2>5, <2>6 DEF Owned, NewcomersUnknown
  <2>8. ErasedFirst'
    <3>1. \A k \in Loops : at[k] = "close" => on[k] # c
      BY <1>t, <2>2 DEF Busy
    <3> QED
      BY <1>t, <2>1, <2>4, <3>1 DEF Owned, ErasedFirst
  <2>9. PoolOwnsSockets'
    <3>1. c = on[l]
      BY DEF c
    <3> QED
      BY <1>t, <2>1, <2>2, <2>4, <3>1 DEF Owned, PoolOwnsSockets
  <2> QED
    BY <2>7, <2>8, <2>9 DEF Owned
<1>4. ASSUME NEW l \in Loops, PoolStartStart(l), UNCHANGED serverVars PROVE Owned'
  <2>1. /\ UNCHANGED <<sock, pool, accepted>> /\ at[l] = "start"
        /\ \A t \in Threads : at'[t] = (IF t = l THEN "rearm" ELSE at[t]) /\ (t # l => on'[t] = on[t])
    BY <1>4, <1>t DEF PoolStartStart, Goto, serverVars, acceptVars
  <2>2. Quiet
    BY <2>1 DEF Quiet, Busy
  <2> QED
    BY <2>2, QuietKeeps
<1>5. ASSUME NEW l \in Loops, PoolCloseErase(l), UNCHANGED serverVars PROVE Owned'
  <2>1. /\ on[l] \in Connections /\ at[l] = "erase"
        /\ pool' = pool \ {on[l]} /\ UNCHANGED <<sock, accepted, on>>
        /\ \A t \in Threads : at'[t] = (IF t = l THEN "close" ELSE at[t])
    BY <1>5, <1>t DEF PoolCloseErase, Goto, serverVars, acceptVars
  <2>2. \A x \in Connections : Newcomer(x)' <=> Newcomer(x)
    BY <1>t, <2>1 DEF Newcomer
  <2>3. \A x \in Connections, t \in Threads : Busy(t, x)' <=> Busy(t, x)
    BY <1>t, <2>1 DEF Busy
  <2>4. NewcomersUnknown'
    BY <1>t, <2>1, <2>2, <2>3 DEF Owned, NewcomersUnknown, Busy
  <2>5. ErasedFirst' /\ PoolOwnsSockets'
    BY <1>t, <2>1 DEF Owned, ErasedFirst, PoolOwnsSockets
  <2> QED
    BY <2>4, <2>5 DEF Owned
<1>6. ASSUME NEW l \in Loops, PoolCloseClose(l), UNCHANGED serverVars PROVE Owned'
  <2>1. /\ on[l] \in Connections /\ at[l] = "close" /\ on[l] \notin pool /\ ~Newcomer(on[l])
        /\ UNCHANGED <<pool, accepted>>
        /\ sock' = [x \in Connections |-> IF x = on[l] THEN "closed" ELSE sock[x]]
        /\ \A t \in Threads : at'[t] = (IF t = l THEN "idle" ELSE at[t]) /\ (t # l => on'[t] = on[t])
    <3>1. on[l] \in Connections /\ at[l] = "close" /\ Busy(l, on[l])
      BY <1>6, <1>t DEF PoolCloseClose, Busy
    <3>2. on[l] \notin pool /\ ~Newcomer(on[l])
      BY <1>t, <3>1 DEF Owned, ErasedFirst, NewcomersUnknown
    <3>3. /\ UNCHANGED <<pool, accepted>>
          /\ sock' = [x \in Connections |-> IF x \in {on[l]} THEN "closed" ELSE sock[x]]
      BY <1>6 DEF PoolCloseClose, CloseSockets, serverVars, acceptVars
    <3>4. \A t \in Threads : at'[t] = (IF t = l THEN "idle" ELSE at[t]) /\ (t # l => on'[t] = on[t])
      BY <1>6, <1>t DEF PoolCloseClose, Goto
    <3> QED
      BY <3>1, <3>2, <3>3, <3>4
  <2>2. \A x \in Connections : Newcomer(x)' <=> Newcomer(x)
    BY <1>t, <2>1 DEF Newcomer
  <2>3. \A x \in Connections, t \in Threads : Busy(t, x)' => Busy(t, x) /\ t # l
    BY <1>t, <2>1 DEF Busy
  <2>4. NewcomersUnknown'
    BY <1>t, <2>1, <2>2, <2>3 DEF Owned, NewcomersUnknown
  <2>5. ErasedFirst'
    BY <1>t, <2>1 DEF Owned, ErasedFirst
  <2>6. PoolOwnsSockets'
    BY <1>t, <2>1 DEF Owned, PoolOwnsSockets
  <2> QED
    BY <2>4, <2>5, <2>6 DEF Owned
<1>7. ASSUME NEW d \in Stoppers \cup Loops, ClearPool(d) PROVE Owned'
  <2>1. /\ pool' = {} /\ UNCHANGED <<accepted, at, on>>
        /\ sock' = [x \in Connections |-> IF x \in pool THEN "closed" ELSE sock[x]]
    BY <1>7 DEF ClearPool, PoolClear, CloseSockets, acceptVars
  <2>2. \A x \in Connections : Newcomer(x)' <=> Newcomer(x)
    BY <2>1 DEF Newcomer
  <2>3. \A x \in Connections, t \in Threads : Busy(t, x)' <=> Busy(t, x)
    BY <2>1 DEF Busy
  <2>4. NewcomersUnknown'
    BY <1>t, <2>1, <2>2, <2>3 DEF Owned, NewcomersUnknown
  <2>5. ErasedFirst' /\ PoolOwnsSockets'
    BY <1>t, <2>1 DEF Owned, ErasedFirst, PoolOwnsSockets
  <2> QED
    BY <2>4, <2>5 DEF Owned
<1> QED
  BY <1>1, <1>2, <1>3, <1>4, <1>5, <1>6, <1>7, QuietKeeps, QuietSteps

\* A client that has not connected is nowhere in the server.
THEOREM FreshCorrect == Spec => []Fresh
<1>1. Init => Fresh
  <2> SUFFICES ASSUME Init PROVE Fresh
    OBVIOUS
  <2>1. \A c : ~Queued(c)
    BY DEF Init, ConnInit, Queued
  <2>2. \A t \in Threads : \A c : ~Busy(t, c)
    BY DEF Init, ConnInit, Busy
  <2> QED
    BY <2>1, <2>2 DEF Init, ConnInit, Fresh
<1> QED
  BY <1>1, FreshInvariance, TypeCorrect, PTL DEF Spec, Safety

\* The invariant behind PoolOwnsSockets: connections go from the acceptor over the
\* accept handler into the pool, and leave it before they are closed.
THEOREM OwnedCorrect == Spec => []Owned
<1>1. Init => Owned
  <2> SUFFICES ASSUME Init PROVE Owned
    OBVIOUS
  <2>1. /\ sock = [c \in Connections |-> "none"] /\ pool = {} /\ accepted = {}
        /\ \A t \in Threads : at[t] \in {"out", "none"}
    BY DEF Init, ConnInit
  <2>2. NewcomersUnknown
    BY <2>1 DEF NewcomersUnknown, Newcomer, Threads
  <2>3. ErasedFirst /\ PoolOwnsSockets
    BY <2>1 DEF ErasedFirst, PoolOwnsSockets, Threads
  <2> QED
    BY <2>2, <2>3 DEF Owned
<1> QED
  BY <1>1, OwnedInvariance, TypeCorrect, ControlCorrect, OnePlaceForEachConnection, FreshCorrect, PTL
  DEF Spec, Safety

\* The pool owns all live connections (connection_pool.h): whatever is in it has
\* an open socket, and no open socket is forgotten by both the accept handler and
\* the pool, however Close() and Clear() of several threads overlap.
THEOREM ThePoolOwnsSockets == Spec => []PoolOwnsSockets
BY OwnedCorrect, PTL DEF Owned

-----------------------------------------------------------------------------
(* No connection of the pool is forgotten *)

\* An operation that reports operation_aborted belongs to a socket that was closed
\* on this side.
LEMMA AbortedInvariance == TypeOK /\ AbortedByClose /\ [Next]_vars => AbortedByClose'
<1> SUFFICES ASSUME TypeOK, AbortedByClose, [Next]_vars PROVE AbortedByClose'
  OBVIOUS
<1>t. /\ sock \in [Connections -> {"none", "open", "closed"}]
      /\ result \in [Connections -> {"pending", "ok", "error", "aborted"}]
      /\ \A t \in Threads : at[t] \in {"insert", "start", "erase", "close", "handle"} =>
           on[t] \in Connections
      /\ Loops \subseteq Threads /\ Workers \subseteq Threads
  BY DEF TypeOK, ThreadsTypeOK, SocketsTypeOK, Threads
<1>k. ASSUME \A c \in Connections : sock[c] = "closed" => sock'[c] = "closed",
             \A c \in Connections : result'[c] = "aborted" => result[c] = "aborted" \/ sock'[c] = "closed"
      PROVE  AbortedByClose'
  BY <1>k DEF AbortedByClose
<1>s. ASSUME NEW c \in Connections, NEW kind, StartOp(c, kind), sock' = sock PROVE AbortedByClose'
  BY <1>k, <1>s, <1>t DEF StartOp
<1>u. ASSUME UNCHANGED <<sock, result>> PROVE AbortedByClose'
  BY <1>k, <1>u
<1>c. ASSUME NEW cs, CloseSockets(cs) PROVE AbortedByClose'
  BY <1>c, <1>k DEF CloseSockets
<1>1. ASSUME NEW l \in Loops, NEW c \in Connections,
             OnRead(l, c) \/ OnWriteError(l, c) \/ DoWriteBody(l, c) \/ OnWriteOK(l, c)
      PROVE  AbortedByClose'
  <2>1. sock' = sock /\ (UNCHANGED result \/ \E kind : StartOp(c, kind))
    BY <1>1 DEF OnRead, OnReadError, OnReadRejected, OnReadMore, OnReadFinished, OnWriteError,
                DoWriteBody, OnWriteOK, NoOp, SendResponse, Start
  <2> QED
    BY <1>s, <1>u, <2>1
<1>2. ASSUME NEW l \in Loops, PoolStartStart(l) PROVE AbortedByClose'
  <2>1. on[l] \in Connections /\ StartOp(on[l], "read") /\ sock' = sock
    BY <1>2, <1>t DEF PoolStartStart, Start
  <2> QED
    BY <1>s, <2>1
<1>3. ASSUME NEW l \in Loops, PoolStartInsert(l) \/ PoolCloseErase(l) \/ PoolCloseClose(l) PROVE AbortedByClose'
  BY <1>3, <1>c, <1>u DEF PoolStartInsert, PoolCloseErase, PoolCloseClose
<1>4. CASE Run \/ RunNotListening \/ RunReturns \/ AcceptFails \/ RaiseSignal \/ UNCHANGED vars
  BY <1>4, <1>u DEF Run, RunNotListening, RunReturns, AcceptFails, RaiseSignal, vars, connVars
<1>5. ASSUME NEW l \in Loops,
             OnAcceptError(l) \/ Rearm(l) \/ DeliverSignal(l) \/ OnSignal(l) \/ LoopReturns(l)
      PROVE  AbortedByClose'
  BY <1>5, <1>u DEF OnAcceptError, Rearm, DeliverSignal, OnSignal, LoopReturns, connVars
<1>6. ASSUME NEW l \in Loops, NEW c \in Connections, OnAccept(l, c) PROVE AbortedByClose'
  BY <1>6, <1>k, <1>t DEF OnAccept
<1>7. ASSUME NEW c \in Connections, Connect(c) PROVE AbortedByClose'
  BY <1>7, <1>k, <1>t DEF Connect
<1>8. ASSUME NEW c \in Connections, NEW r \in {"ok", "error"}, Complete(c, r) PROVE AbortedByClose'
  BY <1>8, <1>k, <1>t DEF Complete
<1>9. ASSUME NEW w \in Workers, WorkerPop(w) \/ WorkerRelay(w) PROVE AbortedByClose'
  BY <1>9, <1>u DEF WorkerPop, WorkerRelay, connVars
<1>10. ASSUME NEW w \in Workers, Handle(w) PROVE AbortedByClose'
  <2>1. on[w] \in Connections /\ StartOp(on[w], "headers") /\ sock' = sock
    BY <1>10, <1>t DEF Handle, SendResponse
  <2> QED
    BY <1>s, <2>1
<1>11. ASSUME NEW s \in Stoppers, Stop(s) \/ StopLock(s) PROVE AbortedByClose'
  BY <1>11, <1>u DEF Stop, StopLock, connVars
<1>12. ASSUME NEW d \in Stoppers \cup Loops, DoStop(d) PROVE AbortedByClose'
  <2>1. UNCHANGED <<sock, result>> \/ CloseSockets(pool)
    BY <1>12 DEF DoStop, CloseAcceptor, DropPending, PushNull, Join, Drain, ClearPool, PoolClear,
                 StopLoop, EndStop, connVars
  <2> QED
    BY <1>c, <1>u, <2>1
<1> QED
  BY <1>1, <1>2, <1>3, <1>4, <1>5, <1>6, <1>7, <1>8, <1>9, <1>10, <1>11, <1>12
  DEF Next, LoopStep, ConnectionStep, WorkerStep, Environment

\* A thread has the connection in hand and goes on with it.
Held(c) ==
  \/ Closing(c)
  \/ \E l \in Loops : at[l] = "start" /\ on[l] = c
  \/ \E w \in Workers : Handling(w, c)

\* The connection is on its way: its operation will call back, a worker will pop
\* it, or a thread has it in hand.
Carried(c) == op[c] # "none" \/ Queued(c) \/ Held(c)

\* A DoStop() has dropped what was queued and has not cleared the pool yet.
Dropping == \E d \in Stoppers \cup Loops : stop[d] \in {"poison", "join", "drain", "pool"}

\* Every step hands a pooled connection on, erases it from the pool, or is part of
\* a DoStop() that will clear the pool.
LEMMA OrphanInvariance ==
  TypeOK /\ Control /\ Owned /\ AbortedByClose /\ NoOrphan /\ [Next]_vars => NoOrphan'
<1> SUFFICES ASSUME TypeOK, Control, Owned, AbortedByClose, NoOrphan, [Next]_vars PROVE NoOrphan'
  OBVIOUS
<1>t. /\ at \in [Threads -> LoopPCs \cup WorkerPCs] /\ on \in [Threads -> Connections \cup {NoConnection}]
      /\ Threads = Loops \cup Workers
      /\ pool \in SUBSET Connections
      /\ op \in [Connections -> {"none", "read", "headers", "body"}]
      /\ queue \in Seq(Connections \cup {Null})
      /\ stop \in [Stoppers \cup Loops -> StopPCs]
      /\ \A t \in Threads : at[t] \in {"insert", "start", "erase", "close", "handle"} =>
           on[t] \in Connections
  BY DEF TypeOK, ThreadsTypeOK, SocketsTypeOK, ServerTypeOK, Threads
<1>o. \A c \in pool : Carried(c) \/ Dropping
  BY DEF NoOrphan, Carried, Held, Dropping
<1>k. ASSUME \A c \in pool' : c \in pool /\ (Carried(c) => Carried(c)' \/ Dropping'), Dropping => Dropping'
      PROVE  NoOrphan'
  <2>1. \A c \in pool' : Carried(c)' \/ Dropping'
    BY <1>k, <1>o
  <2> QED
    BY <2>1 DEF NoOrphan, Carried, Held, Dropping
<1>g. ASSUME NEW t \in Threads, NEW p, NEW c, UNCHANGED <<at, on>> \/ Goto(t, p, c)
      PROVE  \A x : Held(x) => Held(x)' \/ (at[t] \in {"start", "erase", "close", "handle"} /\ on[t] = x)
  <2>1. \A k \in Threads : k # t => at'[k] = at[k] /\ on'[k] = on[k]
    BY <1>g, <1>t DEF Goto
  <2>2. CASE UNCHANGED <<at, on>>
    BY <2>2 DEF Held, Closing, Handling
  <2>3. CASE Goto(t, p, c)
    BY <1>t, <2>1 DEF Held, Closing, Handling
  <2> QED
    BY <1>g, <2>2, <2>3
<1>h. ASSUME NEW t \in Threads, NEW p \in {"start", "erase", "close"}, NEW c, Goto(t, p, c), t \in Loops
      PROVE  Held(c)'
  BY <1>h, <1>t DEF Goto, Held, Closing
<1>d. ASSUME UNCHANGED stop PROVE Dropping => Dropping'
  BY <1>d DEF Dropping
<1>q. queue' = queue => \A x : Queued(x)' <=> Queued(x)
  BY DEF Queued
\* The callback of c: the others stay where they are.
<1>1. ASSUME NEW l \in Loops, NEW c \in Connections, UNCHANGED serverVars,
             OnRead(l, c) \/ OnWriteError(l, c) \/ DoWriteBody(l, c) \/ OnWriteOK(l, c)
      PROVE  NoOrphan'
  <2>1. /\ pool' = pool /\ stop' = stop /\ at[l] = "idle"
        /\ \A x \in Connections : x # c => op'[x] = op[x]
        /\ queue' \in {queue, Append(queue, c)}
        /\ UNCHANGED <<at, on>> \/ Goto(l, "erase", c)
    <3>1. CASE OnRead(l, c)
      BY <1>1, <1>t, <3>1 DEF OnRead, OnReadError, OnReadRejected, OnReadMore, OnReadFinished, Runs, NoOp,
                        StartOp, SendResponse, serverVars
    <3>2. CASE OnWriteError(l, c) \/ DoWriteBody(l, c) \/ OnWriteOK(l, c)
      BY <1>1, <1>t, <3>2 DEF OnWriteError, DoWriteBody, OnWriteOK, Runs, NoOp, StartOp, Start, serverVars
    <3> QED
      BY <1>1, <3>1, <3>2
  <2>2. \A x : (Queued(x) => Queued(x)') /\ (queue' = Append(queue, c) => Queued(c)')
    <3>1. Elements(Append(queue, c)) = Elements(queue) \cup {c}
      BY <1>t, AppendElements
    <3> QED
      BY <2>1, <3>1, QueuedElements, QueuedElementsNext
  <2>3. \A x : Held(x) => Held(x)'
    BY <1>g, <1>t, <2>1
  <2>4. c \in pool => Carried(c)'
    <3>1. CASE OnReadError(l, c) \/ OnWriteError(l, c)
      <4>1. result[c] \in {"error", "aborted"} /\ (result[c] = "error" => Goto(l, "erase", c))
        BY <3>1 DEF OnReadError, OnWriteError, Runs
      <4>2. c \in pool => result[c] # "aborted"
        BY DEF Owned, PoolOwnsSockets, AbortedByClose
      <4> QED
        BY <1>h, <1>t, <4>1, <4>2 DEF Carried
    <3>2. CASE OnReadRejected(l, c) \/ OnReadMore(l, c) \/ DoWriteBody(l, c)
      <4>1. op'[c] # "none"
        BY <1>t, <3>2 DEF OnReadRejected, OnReadMore, DoWriteBody, StartOp, SendResponse
      <4> QED
        BY <4>1 DEF Carried
    <3>3. CASE OnReadFinished(l, c)
      BY <2>2, <3>3 DEF OnReadFinished, Carried
    <3>4. CASE OnWriteOK(l, c)
      <4>1. op'[c] # "none" \/ Goto(l, "erase", c)
        BY <1>t, <3>4 DEF OnWriteOK, Start, StartOp
      <4> QED
        BY <1>h, <1>t, <4>1 DEF Carried
    <3> QED
      BY <1>1, <3>1, <3>2, <3>3, <3>4 DEF OnRead
  <2>5. \A x \in pool : Carried(x) => Carried(x)'
    BY <1>t, <2>1, <2>2, <2>3, <2>4 DEF Carried
  <2> QED
    BY <1>d, <1>k, <2>1, <2>5
\* The accept handler pools a connection and starts to read from it.
<1>2. ASSUME NEW l \in Loops, PoolStartInsert(l), UNCHANGED serverVars PROVE NoOrphan'
  <2>1. /\ pool' = pool \cup {on[l]} /\ UNCHANGED <<op, queue, stop>> /\ at[l] = "insert"
        /\ Goto(l, "start", on[l])
    BY <1>2 DEF PoolStartInsert, serverVars
  <2>2. ASSUME NEW x, x = on[l] PROVE Carried(x)'
    <3>1. at'[l] = "start" /\ on'[l] = x
      BY <1>t, <2>1, <2>2 DEF Goto
    <3> QED
      BY <3>1 DEF Carried, Held
  <2>3. \A x : Held(x) => Held(x)'
    BY <1>g, <1>t, <2>1
  <2>4. \A x \in pool : Carried(x) => Carried(x)'
    BY <1>q, <2>1, <2>3 DEF Carried
  <2>5. \A x \in pool' : Carried(x)' \/ Dropping'
    BY <1>d, <1>o, <2>1, <2>2, <2>4
  <2> QED
    BY <2>5 DEF NoOrphan, Carried, Held, Dropping
<1>3. ASSUME NEW l \in Loops, PoolStartStart(l), UNCHANGED serverVars PROVE NoOrphan'
  <2>1. /\ UNCHANGED <<pool, queue, stop>> /\ on[l] \in Connections
        /\ op' = [op EXCEPT ![on[l]] = "read"] /\ Goto(l, "rearm", NoConnection)
    BY <1>3, <1>t DEF PoolStartStart, Start, StartOp, serverVars
  <2>2. \A x \in Connections : Held(x) => Held(x)' \/ x = on[l]
    BY <1>g, <1>t, <2>1
  <2>3. \A x \in pool : Carried(x) => Carried(x)'
    BY <1>q, <1>t, <2>1, <2>2 DEF Carried
  <2> QED
    BY <1>d, <1>k, <2>1, <2>3
\* Close() holds on to a connection it has erased; others do not lose it, for it
\* is no longer in the pool.
<1>4. ASSUME NEW l \in Loops, PoolCloseErase(l) \/ PoolCloseClose(l), UNCHANGED serverVars PROVE NoOrphan'
  <2>1. /\ pool' = pool \ {on[l]} /\ UNCHANGED <<op, queue, stop>>
        /\ Goto(l, "close", on[l]) \/ Goto(l, "idle", NoConnection)
    <3>1. at[l] = "close" => on[l] \notin pool
      BY DEF Owned, ErasedFirst
    <3> QED
      BY <1>4, <3>1 DEF PoolCloseErase, PoolCloseClose, serverVars
  <2>2. \A x : Held(x) => Held(x)' \/ x = on[l]
    BY <1>g, <1>t, <2>1
  <2> QED
    BY <1>d, <1>k, <1>q, <2>1, <2>2 DEF Carried
<1>5. CASE Run
  <2>1. UNCHANGED <<pool, op, queue, stop>>
    BY <1>5 DEF Run, connVars
  <2>2. \A x : ~Held(x)
    BY <1>5 DEF Run, BeginRun, Control, NoWorkers, Held, Closing, Handling
  <2> QED
    BY <1>d, <1>k, <1>q, <2>1, <2>2 DEF Carried
<1>6. CASE RunNotListening \/ RunReturns \/ AcceptFails \/ RaiseSignal \/ UNCHANGED vars
  <2>1. UNCHANGED <<pool, op, queue, stop, at, on>>
    BY <1>6 DEF RunNotListening, RunReturns, AcceptFails, RaiseSignal, vars, connVars, serverVars
  <2>2. \A x : Held(x) => Held(x)'
    BY <2>1 DEF Held, Closing, Handling
  <2> QED
    BY <1>d, <1>k, <1>q, <2>1, <2>2 DEF Carried
<1>7. ASSUME NEW l \in Loops, OnAcceptError(l) \/ Rearm(l) \/ DeliverSignal(l) \/ LoopReturns(l)
      PROVE  NoOrphan'
  <2>1. /\ UNCHANGED <<pool, op, queue, stop>> /\ at[l] \in {"idle", "rearm"}
        /\ UNCHANGED <<at, on>> \/ \E p : Goto(l, p, NoConnection)
    BY <1>7 DEF OnAcceptError, Rearm, DeliverSignal, LoopReturns, connVars, serverVars
  <2>2. \A x : Held(x) => Held(x)'
    BY <1>g, <1>t, <2>1
  <2> QED
    BY <1>d, <1>k, <1>q, <2>1, <2>2 DEF Carried
<1>8. ASSUME NEW l \in Loops, OnSignal(l) PROVE NoOrphan'
  <2>1. /\ UNCHANGED <<pool, op, queue>> /\ at[l] = "idle" /\ Goto(l, "signal", NoConnection)
        /\ stop' = [stop EXCEPT ![l] = "acceptor"]
    BY <1>8 DEF OnSignal, connVars
  <2>2. Dropping => Dropping'
    <3>1. stop[l] = "none"
      BY <2>1 DEF Control
    <3> QED
      BY <1>t, <2>1, <3>1 DEF Dropping
  <2>3. \A x : Held(x) => Held(x)'
    BY <1>g, <1>t, <2>1
  <2> QED
    BY <1>k, <1>q, <2>1, <2>2, <2>3 DEF Carried
<1>9. ASSUME NEW l \in Loops, NEW c \in Connections, OnAccept(l, c) PROVE NoOrphan'
  <2>1. /\ UNCHANGED <<pool, op, queue, stop>> /\ at[l] = "idle"
        /\ UNCHANGED <<at, on>> \/ Goto(l, "insert", c)
    BY <1>9 DEF OnAccept
  <2>2. \A x : Held(x) => Held(x)'
    BY <1>g, <1>t, <2>1
  <2> QED
    BY <1>d, <1>k, <1>q, <2>1, <2>2 DEF Carried
<1>10. ASSUME NEW w \in Workers, WorkerPop(w) PROVE NoOrphan'
  <2>1. /\ UNCHANGED <<pool, op, stop>> /\ queue # <<>> /\ queue' = Tail(queue) /\ at[w] = "pop"
        /\ Goto(w, "relay", NoConnection) \/ Goto(w, "handle", Head(queue))
        /\ Head(queue) # Null => Goto(w, "handle", Head(queue))
    BY <1>10 DEF WorkerPop, connVars, serverVars
  <2>2. \A x : Queued(x) => Queued(x)' \/ x = Head(queue)
    <3>1. Elements(queue) = Elements(queue') \cup {Head(queue)}
      BY <1>t, <2>1, TailElements
    <3> QED
      BY <3>1, QueuedElements, QueuedElementsNext
  <2>3. ASSUME NEW x \in pool, x = Head(queue) PROVE Held(x)'
    <3>1. Goto(w, "handle", x)
      BY <1>t, <2>1, <2>3
    <3>2. at'[w] = "handle" /\ on'[w] = x
      BY <1>t, <3>1 DEF Goto
    <3> QED
      BY <3>2 DEF Held, Handling
  <2>4. \A x : Held(x) => Held(x)'
    BY <1>g, <1>t, <2>1
  <2>5. \A x \in pool : Carried(x) => Carried(x)'
    BY <1>t, <2>1, <2>2, <2>3, <2>4 DEF Carried
  <2> QED
    BY <1>d, <1>k, <2>1, <2>5
<1>11. ASSUME NEW w \in Workers, WorkerRelay(w) PROVE NoOrphan'
  <2>1. /\ UNCHANGED <<pool, op, stop>> /\ queue' = Append(queue, Null) /\ at[w] = "relay"
        /\ Goto(w, "exited", NoConnection)
    BY <1>11 DEF WorkerRelay, connVars, serverVars
  <2>2. \A x : Queued(x) => Queued(x)'
    <3>1. Elements(queue') = Elements(queue) \cup {Null}
      BY <1>t, <2>1, AppendElements
    <3> QED
      BY <3>1, QueuedElements, QueuedElementsNext
  <2>3. \A x : Held(x) => Held(x)'
    BY <1>g, <1>t, <2>1
  <2> QED
    BY <1>d, <1>k, <2>1, <2>2, <2>3 DEF Carried
<1>12. ASSUME NEW w \in Workers, Handle(w) PROVE NoOrphan'
  <2>1. /\ UNCHANGED <<pool, queue, stop>> /\ on[w] \in Connections
        /\ op' = [op EXCEPT ![on[w]] = "headers"] /\ Goto(w, "pop", NoConnection)
    BY <1>12, <1>t DEF Handle, SendResponse, StartOp, serverVars
  <2>2. \A x \in Connections : Held(x) => Held(x)' \/ x = on[w]
    BY <1>g, <1>t, <2>1
  <2>3. \A x \in pool : Carried(x) => Carried(x)'
    BY <1>q, <1>t, <2>1, <2>2 DEF Carried
  <2> QED
    BY <1>d, <1>k, <2>1, <2>3
<1>13. ASSUME UNCHANGED <<pool, op, queue, at, on>>, NEW d \in Stoppers \cup Loops,
              NEW p, stop' = [stop EXCEPT ![d] = p],
              stop[d] \in {"poison", "join", "drain", "pool"} => p \in {"poison", "join", "drain", "pool"}
       PROVE  NoOrphan'
  <2>1. \A x : Held(x) => Held(x)'
    BY <1>13 DEF Held, Closing, Handling
  <2>2. Dropping => Dropping'
    BY <1>13, <1>t DEF Dropping
  <2> QED
    BY <1>13, <1>k, <1>q, <2>1, <2>2 DEF Carried
<1>14. ASSUME NEW s \in Stoppers, Stop(s) \/ StopLock(s) PROVE NoOrphan'
  BY <1>13, <1>14 DEF Stop, StopLock, Move, connVars
<1>15. ASSUME NEW d \in Stoppers \cup Loops, CloseAcceptor(d) \/ StopLoop(d) PROVE NoOrphan'
  BY <1>13, <1>15 DEF CloseAcceptor, StopLoop, Move, connVars
\* DoStop() answers for what it drops and for the workers it has joined.
<1>16. ASSUME NEW d \in Stoppers \cup Loops, DropPending(d) \/ PushNull(d) \/ Join(d) \/ Drain(d)
       PROVE  NoOrphan'
  <2>1. pool' = pool /\ \E p \in {"poison", "join", "drain", "pool"} : stop' = [stop EXCEPT ![d] = p]
    BY <1>16 DEF DropPending, PushNull, Join, Drain, Move, connVars
  <2>2. Dropping'
    BY <1>t, <2>1 DEF Dropping
  <2> QED
    BY <1>k, <2>1, <2>2
<1>17. ASSUME NEW d \in Stoppers \cup Loops, ClearPool(d) PROVE NoOrphan'
  BY <1>17 DEF ClearPool, PoolClear, NoOrphan
<1>18. ASSUME NEW d \in Stoppers \cup Loops, EndStop(d) PROVE NoOrphan'
  <2>1. /\ UNCHANGED <<pool, op, queue>> /\ stop[d] = "flag" /\ stop' = [stop EXCEPT ![d] = "none"]
        /\ UNCHANGED <<at, on>> \/ (d \in Loops /\ Goto(d, "idle", NoConnection))
    BY <1>18 DEF EndStop, Move, connVars
  <2>2. d \in Loops => at[d] = "signal"
    BY <2>1 DEF Control
  <2>3. \A x : Held(x) => Held(x)'
    <3>1. CASE UNCHANGED <<at, on>>
      BY <3>1 DEF Held, Closing, Handling
    <3>2. CASE d \in Loops /\ Goto(d, "idle", NoConnection)
      BY <1>g, <1>t, <2>2, <3>2
    <3> QED
      BY <2>1, <3>1, <3>2
  <2>4. Dropping => Dropping'
    BY <1>t, <2>1 DEF Dropping
  <2> QED
    BY <1>k, <1>q, <2>1, <2>3, <2>4 DEF Carried
<1>19. ASSUME NEW c \in Connections,
              Connect(c) \/ \E r \in {"ok", "error"} : Complete(c, r) /\ UNCHANGED serverVars
       PROVE  NoOrphan'
  <2>1. UNCHANGED <<pool, op, queue, stop, at, on>>
    BY <1>19 DEF Connect, Complete, serverVars
  <2>2. \A x : Held(x) => Held(x)'
    BY <2>1 DEF Held, Closing, Handling
  <2> QED
    BY <1>d, <1>k, <1>q, <2>1, <2>2 DEF Carried
<1> QED
  BY <1>1, <1>2, <1>3, <1>4, <1>5, <1>6, <1>7, <1>8, <1>9, <1>10, <1>11, <1>12, <1>14,
     <1>15, <1>16, <1>17, <1>18, <1>19
  DEF Next, LoopStep, ConnectionStep, WorkerStep, DoStop, Environment

\* A connection of the pool is never forgotten: its operation is outstanding, it
\* is queued, a thread has it in hand, or a DoStop() will close it with the pool.
\* In particular an operation that ends with operation_aborted, which OnRead() and
\* OnWriteHeaders() ignore, belongs to a connection that has left the pool.
THEOREM NobodyIsForgotten == Spec => []NoOrphan
<1>1. Init => NoOrphan /\ AbortedByClose
  BY DEF Init, ConnInit, NoOrphan, AbortedByClose
<1>2. Spec => []AbortedByClose
  BY <1>1, AbortedInvariance, TypeCorrect, PTL DEF Spec, Safety
<1> QED
  BY <1>1, <1>2, OrphanInvariance, TypeCorrect, ControlCorrect, OwnedCorrect, PTL DEF Spec, Safety

-----------------------------------------------------------------------------
(* What Server promises only under a condition on how it is used: with one *)
(* loop thread, the default of Run(); when nobody but the signal handler   *)
(* calls DoStop(); or when no signal arrives.  Each theorem has the        *)
(* condition as its hypothesis.                                            *)

\* Run(workers, loops) with loops = 1, which is its default.
OneLoop == \A l, m \in Loops : l = m

-----------------------------------------------------------------------------
(* "Connection: Close" *)

\* A client that was told so: its socket is closed, or the one loop thread is
\* closing it, or the response is still being written and OnWriteOK() will close.
KeepsPromise(c) ==
  response[c] = "Close" =>
    \/ sock[c] = "closed"
    \/ op[c] # "read" /\ Closing(c)
    \/ op[c] \in {"headers", "body"} /\ ~keep_alive[c]

Promises == \A c \in Connections : KeepsPromise(c)

\* With one loop thread nothing of a connection runs while it is being closed.
LEMMA PromisesInvariance ==
  ASSUME OneLoop
  PROVE  /\ TypeOK /\ Control /\ OneChain /\ Fresh /\ AbortedByClose /\ Promises
         /\ [Next]_vars
         => Promises'
<1> SUFFICES ASSUME TypeOK, Control, OneChain, Fresh, AbortedByClose, Promises, [Next]_vars
             PROVE  Promises'
  OBVIOUS
<1>t. /\ at \in [Threads -> LoopPCs \cup WorkerPCs] /\ on \in [Threads -> Connections \cup {NoConnection}]
      /\ Threads = Loops \cup Workers
      /\ sock \in [Connections -> {"none", "open", "closed"}]
      /\ op \in [Connections -> {"none", "read", "headers", "body"}]
      /\ keep_alive \in [Connections -> BOOLEAN]
      /\ response \in [Connections -> {"none", "Keep-Alive", "Close"}]
      /\ \A t \in Threads : at[t] \in {"insert", "start", "erase", "close", "handle"} =>
           on[t] \in Connections
  BY DEF TypeOK, ThreadsTypeOK, SocketsTypeOK, Threads
<1>f. \A l \in Loops : at[l] \notin {"erase", "close"} => \A x : ~Closing(x)
  BY DEF OneLoop, Closing
<1>k. ASSUME UNCHANGED <<op, keep_alive, response>>,
             \A x \in Connections : sock[x] = "closed" => sock'[x] = "closed",
             \A x \in Connections : Closing(x) => Closing(x)'
      PROVE  Promises'
  BY <1>k DEF Promises, KeepsPromise
<1>u. ASSUME UNCHANGED <<at, on>> PROVE \A x : Closing(x) => Closing(x)'
  BY <1>u DEF Closing
<1>w. ASSUME NEW w \in Workers, NEW p, NEW c, Goto(w, p, c) PROVE \A x : Closing(x) <=> Closing(x)'
  <2>1. \A l \in Loops : at'[l] = at[l] /\ on'[l] = on[l]
    BY <1>t, <1>w DEF Goto
  <2> QED
    BY <2>1 DEF Closing
\* A callback of c, while the loop thread closes nobody.
<1>1. ASSUME NEW l \in Loops, NEW c \in Connections,
             OnRead(l, c) \/ OnWriteError(l, c) \/ DoWriteBody(l, c) \/ OnWriteOK(l, c)
      PROVE  Promises'
  <2>1. /\ at[l] = "idle" /\ sock' = sock
        /\ \A x \in Connections : x # c =>
             op'[x] = op[x] /\ keep_alive'[x] = keep_alive[x] /\ response'[x] = response[x]
    <3>1. CASE OnRead(l, c)
      BY <1>t, <3>1 DEF OnRead, OnReadError, OnReadRejected, OnReadMore, OnReadFinished, Runs, NoOp,
                        StartOp, SendResponse
    <3>2. CASE OnWriteError(l, c) \/ DoWriteBody(l, c) \/ OnWriteOK(l, c)
      BY <1>t, <3>2 DEF OnWriteError, DoWriteBody, OnWriteOK, Runs, NoOp, StartOp, Start
    <3> QED
      BY <1>1, <3>1, <3>2
  <2>2. \A x : ~Closing(x)
    BY <1>f, <2>1
  <2>3. \A x \in Connections : x # c => KeepsPromise(x)'
    BY <2>1, <2>2 DEF Promises, KeepsPromise
  <2>e. Goto(l, "erase", c) => Closing(c)'
    BY <1>t DEF Goto, Closing
  <2>4. KeepsPromise(c)'
    <3>1. CASE OnReadError(l, c) \/ OnReadMore(l, c) \/ OnReadFinished(l, c)
      <4>1. op[c] = "read" /\ response' = response
        BY <3>1 DEF OnReadError, OnReadMore, OnReadFinished, Runs
      <4>2. response[c] = "Close" => sock[c] = "closed"
        BY <2>2, <4>1 DEF Promises, KeepsPromise
      <4> QED
        BY <2>1, <4>1, <4>2 DEF KeepsPromise
    <3>2. CASE OnReadRejected(l, c)
      <4>1. op'[c] = "headers" /\ Goto(l, "erase", c)
        BY <1>t, <3>2 DEF OnReadRejected, SendResponse, StartOp
      <4> QED
        BY <2>e, <4>1 DEF KeepsPromise
    <3>3. CASE OnWriteError(l, c)
      <4>1. /\ op'[c] = "none" /\ response' = response /\ op[c] # "read"
            /\ result[c] = "aborted" \/ Goto(l, "erase", c)
        BY <1>t, <3>3 DEF OnWriteError, NoOp, Runs
      <4> QED
        BY <2>1, <2>e, <4>1 DEF KeepsPromise, AbortedByClose
    <3>4. CASE DoWriteBody(l, c)
      <4>1. op[c] # "read" /\ op'[c] = "body" /\ UNCHANGED <<response, keep_alive>>
        BY <1>t, <3>4 DEF DoWriteBody, StartOp, Runs
      <4> QED
        BY <2>1, <2>2, <4>1 DEF Promises, KeepsPromise
    <3>5. CASE OnWriteOK(l, c)
      <4>1. /\ response' = response
            /\ keep_alive[c] \/ (op'[c] = "none" /\ Goto(l, "erase", c))
        BY <1>t, <3>5 DEF OnWriteOK, NoOp
      <4>2. keep_alive[c] /\ response[c] = "Close" => sock[c] = "closed"
        BY <2>2 DEF Promises, KeepsPromise
      <4> QED
        BY <2>1, <2>e, <4>1, <4>2 DEF KeepsPromise
    <3> QED
      BY <1>1, <3>1, <3>2, <3>3, <3>4, <3>5 DEF OnRead
  <2> QED
    BY <2>3, <2>4 DEF Promises
<1>2. ASSUME NEW l \in Loops, PoolStartInsert(l) PROVE Promises'
  BY <1>2, <1>f, <1>k DEF PoolStartInsert
\* The accept handler starts to read: nothing is outstanding on the connection.
<1>3. ASSUME NEW l \in Loops, PoolStartStart(l) PROVE Promises'
  <2> DEFINE c == on[l]
  <2>1. /\ c \in Connections /\ Starting(l, c) /\ at[l] = "start" /\ UNCHANGED <<sock, response>>
        /\ \A x \in Connections : x # c => op'[x] = op[x] /\ keep_alive'[x] = keep_alive[x]
    BY <1>3, <1>t DEF PoolStartStart, Start, StartOp, Starting
  <2>2. op[c] = "none" /\ \A x : ~Closing(x)
    BY <1>f, <2>1 DEF OneChain
  <2> HIDE DEF c
  <2> QED
    BY <2>1, <2>2 DEF Promises, KeepsPromise
<1>4. ASSUME NEW l \in Loops, PoolCloseErase(l) PROVE Promises'
  <2>1. /\ UNCHANGED <<op, keep_alive, response, sock>> /\ at[l] = "erase"
        /\ at'[l] = "close" /\ on'[l] = on[l]
    BY <1>4, <1>t DEF PoolCloseErase, Goto
  <2>2. \A x : Closing(x) => Closing(x)'
    BY <2>1 DEF OneLoop, Closing
  <2> QED
    BY <1>k, <2>1, <2>2
<1>5. ASSUME NEW l \in Loops, PoolCloseClose(l) PROVE Promises'
  <2>1. /\ UNCHANGED <<op, keep_alive, response>> /\ at[l] = "close"
        /\ sock' = [x \in Connections |-> IF x \in {on[l]} THEN "closed" ELSE sock[x]]
    BY <1>5 DEF PoolCloseClose, CloseSockets
  <2>2. \A x : Closing(x) => x = on[l]
    BY <2>1 DEF OneLoop, Closing
  <2> QED
    BY <2>1, <2>2 DEF Promises, KeepsPromise
<1>6. CASE Run
  <2>1. UNCHANGED <<op, keep_alive, response, sock>>
    BY <1>6 DEF Run, connVars
  <2>2. \A x : ~Closing(x)
    BY <1>6 DEF Run, BeginRun, Control, Closing
  <2> QED
    BY <1>k, <2>1, <2>2
<1>7. CASE RunNotListening \/ RunReturns \/ AcceptFails \/ RaiseSignal \/ UNCHANGED vars
  BY <1>7, <1>k, <1>u DEF RunNotListening, RunReturns, AcceptFails, RaiseSignal, vars, connVars
<1>8. ASSUME NEW l \in Loops,
             OnAcceptError(l) \/ Rearm(l) \/ DeliverSignal(l) \/ OnSignal(l) \/ LoopReturns(l)
      PROVE  Promises'
  <2>1. UNCHANGED <<op, keep_alive, response, sock>> /\ at[l] \in {"idle", "rearm"}
    BY <1>8 DEF OnAcceptError, Rearm, DeliverSignal, OnSignal, LoopReturns, connVars
  <2> QED
    BY <1>f, <1>k, <2>1
<1>9. ASSUME NEW l \in Loops, NEW c \in Connections, OnAccept(l, c) PROVE Promises'
  <2>1. /\ UNCHANGED <<op, keep_alive, response>> /\ at[l] = "idle"
        /\ \A x \in Connections : sock[x] = "closed" => sock'[x] = "closed"
    BY <1>9, <1>t DEF OnAccept
  <2> QED
    BY <1>f, <1>k, <2>1
<1>10. ASSUME NEW w \in Workers, WorkerPop(w) \/ WorkerRelay(w) PROVE Promises'
  <2>1. UNCHANGED <<op, keep_alive, response, sock>> /\ \E p, c : Goto(w, p, c)
    BY <1>10 DEF WorkerPop, WorkerRelay, connVars
  <2> QED
    BY <1>k, <1>w, <2>1
\* The worker's response says "Close" just when OnWriteOK() will close.
<1>11. ASSUME NEW w \in Workers, Handle(w) PROVE Promises'
  <2> DEFINE c == on[w]
  <2>1. /\ c \in Connections /\ UNCHANGED <<sock, keep_alive>>
        /\ op' = [op EXCEPT ![c] = "headers"]
        /\ response' = [response EXCEPT ![c] = IF keep_alive[c] THEN "Keep-Alive" ELSE "Close"]
    BY <1>11, <1>t DEF Handle, SendResponse, StartOp
  <2>2. \A x : Closing(x) <=> Closing(x)'
    BY <1>11, <1>w DEF Handle
  <2> HIDE DEF c
  <2>3. \A x \in Connections : x = c => KeepsPromise(x)'
    BY <1>t, <2>1 DEF KeepsPromise
  <2>4. \A x \in Connections : x # c => KeepsPromise(x)'
    BY <1>t, <2>1, <2>2 DEF Promises, KeepsPromise
  <2> QED
    BY <2>3, <2>4 DEF Promises
<1>12. ASSUME NEW s \in Stoppers, Stop(s) \/ StopLock(s) PROVE Promises'
  BY <1>12, <1>k, <1>u DEF Stop, StopLock, connVars
<1>13. ASSUME NEW d \in Stoppers \cup Loops,
              CloseAcceptor(d) \/ DropPending(d) \/ PushNull(d) \/ Drain(d) \/ StopLoop(d)
       PROVE  Promises'
  BY <1>13, <1>k, <1>u DEF CloseAcceptor, DropPending, PushNull, Drain, StopLoop, connVars
<1>14. ASSUME NEW d \in Stoppers \cup Loops, Join(d) PROVE Promises'
  <2>1. UNCHANGED <<op, keep_alive, response, sock, on>> /\ \A l \in Loops : at'[l] = at[l]
    BY <1>14, <1>t DEF Join, connVars
  <2>2. \A x : Closing(x) => Closing(x)'
    BY <2>1 DEF Closing
  <2> QED
    BY <1>k, <2>1, <2>2
<1>15. ASSUME NEW d \in Stoppers \cup Loops, ClearPool(d) PROVE Promises'
  <2>1. /\ UNCHANGED <<op, keep_alive, response, at, on>>
        /\ sock' = [x \in Connections |-> IF x \in pool THEN "closed" ELSE sock[x]]
    BY <1>15 DEF ClearPool, PoolClear, CloseSockets
  <2> QED
    BY <1>k, <1>u, <2>1
<1>16. ASSUME NEW d \in Stoppers \cup Loops, EndStop(d) PROVE Promises'
  <2>1. /\ UNCHANGED <<op, keep_alive, response, sock>> /\ stop[d] = "flag"
        /\ d \notin Loops => UNCHANGED <<at, on>>
    BY <1>16 DEF EndStop, Move, connVars
  <2>2. d \in Loops => \A x : ~Closing(x)
    BY <1>f, <2>1 DEF Control
  <2> QED
    BY <1>k, <1>u, <2>1, <2>2
<1>17. ASSUME NEW c \in Connections, Connect(c) PROVE Promises'
  <2>1. /\ sock[c] = "none" /\ sock' = [sock EXCEPT ![c] = "open"]
        /\ UNCHANGED <<op, keep_alive, response, at, on>>
    BY <1>17 DEF Connect
  <2>2. response[c] # "Close"
    <3>1. op[c] = "none" /\ \A l \in Loops : ~Busy(l, c)
      BY <1>t, <2>1 DEF Fresh
    <3>2. ~Closing(c)
      BY <3>1 DEF Busy, Closing
    <3> QED
      BY <2>1, <3>1, <3>2 DEF Promises, KeepsPromise
  <2>3. \A x : Closing(x) => Closing(x)'
    BY <1>u, <2>1
  <2> QED
    BY <1>t, <2>1, <2>2, <2>3 DEF Promises, KeepsPromise
<1>18. ASSUME NEW c \in Connections, NEW r \in {"ok", "error"}, Complete(c, r) PROVE Promises'
  BY <1>18, <1>k, <1>u DEF Complete
<1> QED
  BY <1>1, <1>2, <1>3, <1>4, <1>5, <1>6, <1>7, <1>8, <1>9, <1>10, <1>11, <1>12, <1>13, <1>14,
     <1>15, <1>16, <1>17, <1>18
  DEF Next, LoopStep, ConnectionStep, WorkerStep, DoStop, Environment

\* With one loop thread, a client that was told "Connection: Close" is not served
\* again: whether it asked for that, or sent a request that does not parse, no
\* read is outstanding on its open socket (OnWriteOK() and SendResponse() in
\* connection.cc).
THEOREM CloseIsKept == ASSUME OneLoop PROVE Spec => []CloseMeansClose
<1>1. Init => Promises /\ AbortedByClose
  BY DEF Init, ConnInit, Promises, KeepsPromise, AbortedByClose
<1>2. Spec => []AbortedByClose
  BY <1>1, AbortedInvariance, TypeCorrect, PTL DEF Spec, Safety
<1>3. TypeOK /\ Promises => CloseMeansClose
  BY DEF Promises, KeepsPromise, CloseMeansClose, TypeOK, SocketsTypeOK
<1>4. /\ TypeOK /\ Control /\ OneChain /\ Fresh /\ AbortedByClose /\ Promises
      /\ [Next]_vars
      => Promises'
  BY PromisesInvariance
<1> QED
  BY <1>1, <1>2, <1>3, <1>4, TypeCorrect, ControlCorrect, OnePlaceForEachConnection, FreshCorrect, PTL
  DEF Spec, Safety

-----------------------------------------------------------------------------
(* What DoStop() leaves *)

\* The signal handler, on the one loop thread, empties the queue and then the
\* pool, and nothing fills them again before the next Run(): the loop thread is
\* in the handler until io_context_ is stopped, and the workers are joined.
LeavesNothing ==
  /\ stopped => \A l \in Loops : at[l] \in {"out", "idle", "signal"} /\ (at[l] = "signal" => stop[l] = "flag")
  /\ stopped \/ run = "out" => pool = {} /\ queue = <<>>
  /\ \A l \in Loops : stop[l] \in {"pool", "io", "flag"} => queue = <<>>
  /\ \A l \in Loops : stop[l] \in {"io", "flag"} => pool = {}

\* Every step of the one loop thread, of the workers and of clients keeps it.
LEMMA LeavesNothingInvariance ==
  ASSUME OneLoop, Stoppers = {}
  PROVE  TypeOK /\ Control /\ LeavesNothing /\ [Next]_vars => LeavesNothing'
<1> SUFFICES ASSUME TypeOK, Control, LeavesNothing, [Next]_vars PROVE LeavesNothing'
  OBVIOUS
<1>t. /\ at \in [Threads -> LoopPCs \cup WorkerPCs]
      /\ Threads = Loops \cup Workers
      /\ stop \in [Loops -> StopPCs]
      /\ \A l \in Loops : stop[l] # "none" => at[l] = "signal"
      /\ \A l \in Loops : run = "out" => at[l] = "out"
  BY DEF TypeOK, ThreadsTypeOK, ServerTypeOK, Threads, Control
<1>k. ASSUME UNCHANGED <<pool, queue, stopped, run, stop>>,
             \A l \in Loops : at'[l] = at[l] \/ (at'[l] # "signal" /\ (stopped => at'[l] \in {"out", "idle"}))
      PROVE  LeavesNothing'
  BY <1>k DEF LeavesNothing
\* The loop thread is in a handler that is not the signal's: nothing is promised.
<1>b. ASSUME NEW l \in Loops, at[l] \notin {"out", "signal"}, ~stopped, UNCHANGED <<stopped, run, stop>>
      PROVE  LeavesNothing'
  <2>1. \A m \in Loops : stop[m] = "none" /\ run # "out"
    BY <1>b, <1>t DEF OneLoop
  <2> QED
    BY <1>b, <2>1 DEF LeavesNothing
<1>1. ASSUME NEW l \in Loops, ConnectionStep(l), UNCHANGED serverVars PROVE LeavesNothing'
  <2>1. ASSUME NEW c \in Connections, OnRead(l, c) \/ OnWriteError(l, c) \/ DoWriteBody(l, c) \/ OnWriteOK(l, c)
        PROVE  at[l] = "idle" /\ ~stopped /\ stopped' = stopped
    BY <2>1 DEF OnRead, OnReadError, OnReadRejected, OnReadMore, OnReadFinished, OnWriteError,
                DoWriteBody, OnWriteOK, Runs
  <2>2. ASSUME PoolStartInsert(l) \/ PoolStartStart(l) \/ PoolCloseErase(l) \/ PoolCloseClose(l)
        PROVE  at[l] \in {"insert", "start", "erase", "close"} /\ stopped' = stopped
    BY <2>2 DEF PoolStartInsert, PoolStartStart, PoolCloseErase, PoolCloseClose
  <2>3. at[l] \notin {"out", "signal"} /\ ~stopped /\ stopped' = stopped
    BY <1>1, <2>1, <2>2 DEF ConnectionStep, LeavesNothing
  <2> QED
    BY <1>1, <1>b, <2>3 DEF serverVars, runVars
<1>2. ASSUME NEW l \in Loops,
             \/ OnAcceptError(l) \/ DeliverSignal(l) \/ Rearm(l)
             \/ \E c \in Connections : OnAccept(l, c)
      PROVE  LeavesNothing'
  <2>1. at[l] \in {"idle", "rearm"} /\ UNCHANGED <<stopped, run, stop>> /\ (at[l] = "idle" => ~stopped)
    BY <1>2 DEF OnAcceptError, DeliverSignal, Rearm, OnAccept, runVars
  <2> QED
    BY <1>b, <2>1 DEF LeavesNothing
<1>3. ASSUME NEW l \in Loops, OnSignal(l) PROVE LeavesNothing'
  <2>1. /\ ~stopped /\ at[l] = "idle" /\ stop' = [stop EXCEPT ![l] = "acceptor"]
        /\ UNCHANGED <<pool, queue, stopped, run>>
    BY <1>3 DEF OnSignal, connVars, runVars
  <2>2. \A m \in Loops : stop'[m] = "acceptor" /\ run # "out"
    BY <1>t, <2>1 DEF OneLoop
  <2> QED
    BY <2>1, <2>2 DEF LeavesNothing
<1>4. ASSUME NEW l \in Loops, LoopReturns(l) PROVE LeavesNothing'
  <2>1. /\ UNCHANGED <<pool, queue, stopped, run, stop>>
        /\ \A m \in Loops : at'[m] = at[m] \/ at'[m] = "out"
    BY <1>4, <1>t DEF LoopReturns, Goto, connVars, serverVars, runVars
  <2> QED
    BY <1>k, <2>1
<1>5. CASE Run
  <2>1. stopped' = FALSE /\ run' = "in" /\ stop' = stop /\ run = "out"
    BY <1>5 DEF Run, BeginRun
  <2>2. \A l \in Loops : stop[l] = "none"
    BY <1>t, <2>1
  <2> QED
    BY <2>1, <2>2 DEF LeavesNothing
<1>6. CASE RunNotListening
  BY <1>6 DEF RunNotListening, BeginRun, connVars, LeavesNothing
<1>7. CASE RunReturns
  <2>1. /\ \A l \in Loops : at[l] = "out" /\ run = "in"
        /\ UNCHANGED <<pool, queue, at, stopped, stop>>
    BY <1>7 DEF RunReturns, connVars
  <2>2. stopped
    BY <2>1 DEF Control
  <2> QED
    BY <2>1, <2>2 DEF LeavesNothing
\* A worker that runs shows that nobody has joined the workers.
<1>8. ASSUME NEW w \in Workers, WorkerStep(w) PROVE LeavesNothing'
  <2>1. at[w] # "none" /\ UNCHANGED <<stopped, run, stop>>
    BY <1>8 DEF WorkerStep, WorkerPop, WorkerRelay, Handle, serverVars, runVars
  <2>2. ~stopped /\ run # "out" /\ \A l \in Loops : stop[l] \notin {"pool", "io", "flag"}
    BY <2>1 DEF Control, NoWorkers
  <2> QED
    BY <2>1, <2>2 DEF LeavesNothing
<1>9. ASSUME NEW l \in Loops, DoStop(l) PROVE LeavesNothing'
  <2>1. /\ at[l] = "signal" /\ run # "out" /\ stop[l] # "none"
        /\ \A m \in Loops : m = l
        /\ stopped => stop[l] = "flag"
    <3>1. stop[l] # "none"
      BY <1>9 DEF DoStop, CloseAcceptor, DropPending, PushNull, Join, Drain, ClearPool, StopLoop, EndStop, Move
    <3> QED
      BY <1>t, <3>1 DEF OneLoop, LeavesNothing
  <2>2. CASE CloseAcceptor(l) \/ DropPending(l) \/ PushNull(l) \/ Join(l)
    <3>1. /\ ~stopped /\ UNCHANGED <<stopped, run>>
          /\ \E p \in {"drop", "poison", "join", "drain"} : stop' = [stop EXCEPT ![l] = p]
      BY <2>1, <2>2 DEF CloseAcceptor, DropPending, PushNull, Join, Move, runVars
    <3>2. \A m \in Loops : stop'[m] \notin {"pool", "io", "flag"}
      BY <1>t, <2>1, <3>1
    <3> QED
      BY <2>1, <3>1, <3>2 DEF LeavesNothing
  <2>3. CASE Drain(l)
    BY <1>t, <2>1, <2>3 DEF Drain, Move, LeavesNothing, runVars
  <2>4. CASE ClearPool(l)
    BY <1>t, <2>1, <2>4 DEF ClearPool, PoolClear, Move, LeavesNothing, runVars
  <2>5. CASE StopLoop(l)
    BY <1>t, <2>1, <2>5 DEF StopLoop, Move, LeavesNothing, connVars, runVars
  <2>6. CASE EndStop(l)
    <3>1. /\ UNCHANGED <<pool, queue, stopped, run>> /\ stop[l] = "flag"
          /\ stop' = [stop EXCEPT ![l] = "none"] /\ at'[l] = "idle"
      BY <1>t, <2>6 DEF EndStop, Move, Goto, connVars
    <3> QED
      BY <1>t, <2>1, <3>1 DEF LeavesNothing
  <2> QED
    BY <1>9, <2>2, <2>3, <2>4, <2>5, <2>6 DEF DoStop
<1>10. CASE Environment \/ UNCHANGED vars
  <2>1. UNCHANGED <<pool, queue, stopped, run, stop, at>>
    BY <1>10 DEF Environment, Complete, Connect, AcceptFails, RaiseSignal, vars, connVars, serverVars, runVars
  <2> QED
    BY <1>k, <2>1
<1> QED
  BY <1>1, <1>2, <1>3, <1>4, <1>5, <1>6, <1>7, <1>8, <1>9, <1>10 DEF Next, LoopStep

\* When one loop thread runs the server and only signals stop it, as in
\* examples/static_file_server.cc and examples/form_server.cc, Run() returns with
\* an empty pool and an empty queue, so that a next Run() would begin with nothing
\* of the last (DoStop() in server.cc).
THEOREM NothingIsLeft == ASSUME OneLoop, Stoppers = {} PROVE Spec => []NothingLeft
<1>1. Init => LeavesNothing
  BY DEF Init, ConnInit, LeavesNothing
<1>2. LeavesNothing => NothingLeft
  BY DEF LeavesNothing, NothingLeft
<1>3. TypeOK /\ Control /\ LeavesNothing /\ [Next]_vars => LeavesNothing'
  BY LeavesNothingInvariance
<1> QED
  BY <1>1, <1>2, <1>3, TypeCorrect, ControlCorrect, PTL DEF Spec, Safety

-----------------------------------------------------------------------------
(* One DoStop() at a time *)

NoSignal ==
  /\ raised = 0 /\ sig_pending = 0 /\ sig_ready = 0 /\ sig_undelivered = 0
  /\ \A l \in Loops : stop[l] = "none"

\* A process that gets no signal runs no signal handler.
LEMMA NoSignalInvariance ==
  ASSUME MaxSignals = 0 PROVE TypeOK /\ NoSignal /\ [Next]_vars => NoSignal'
<1> SUFFICES ASSUME TypeOK, NoSignal, [Next]_vars PROVE NoSignal'
  OBVIOUS
<1>t. stop \in [Stoppers \cup Loops -> StopPCs] /\ sig_waits \in Nat
  BY DEF TypeOK, ServerTypeOK
<1> USE DEF NoSignal
<1>1. CASE UNCHANGED <<sigVars, stop>>
  BY <1>1 DEF sigVars
<1>2. CASE Run
  BY <1>2 DEF Run, AsyncWaitSignals
<1>3. ASSUME NEW l \in Loops, LoopStep(l) PROVE NoSignal'
  <2>1. ~OnSignal(l) /\ ~DeliverSignal(l)
    BY DEF OnSignal, DeliverSignal
  <2>2. UNCHANGED <<sigVars, stop>>
    BY <1>3, <2>1 DEF LoopStep, OnAccept, OnAcceptError, Rearm, LoopReturns, serverVars
  <2> QED
    BY <1>1, <2>2
<1>4. ASSUME NEW w \in Workers, WorkerStep(w) PROVE NoSignal'
  BY <1>1, <1>4 DEF WorkerStep, WorkerPop, WorkerRelay, Handle, serverVars
<1>5. ASSUME NEW d \in Stoppers \cup Loops, Stop(d) \/ StopLock(d) \/ DoStop(d), d \in Loops => stop[d] # "none"
      PROVE  NoSignal'
  <2>1. UNCHANGED sigVars /\ \E p : stop' = [stop EXCEPT ![d] = p]
    BY <1>5 DEF Stop, StopLock, DoStop, CloseAcceptor, DropPending, PushNull, Join, Drain, ClearPool,
                StopLoop, EndStop, Move
  <2> QED
    BY <1>5, <1>t, <2>1 DEF sigVars
<1>6. ASSUME NEW d \in Stoppers \cup Loops, DoStop(d) PROVE stop[d] # "none"
  BY <1>6 DEF DoStop, CloseAcceptor, DropPending, PushNull, Join, Drain, ClearPool, StopLoop, EndStop, Move
<1>7. Stoppers \cap Loops = {}
  BY DEF Threads
<1>8. CASE Environment
  <2>1. ~RaiseSignal
    BY DEF RaiseSignal
  <2> QED
    BY <1>1, <1>8, <2>1 DEF Environment, Complete, Connect, AcceptFails, serverVars
<1>9. CASE RunNotListening \/ RunReturns \/ UNCHANGED vars
  BY <1>1, <1>9 DEF RunNotListening, RunReturns, vars, serverVars
<1> QED
  BY <1>2, <1>3, <1>4, <1>5, <1>6, <1>7, <1>8, <1>9 DEF Next

\* state_mutex_ keeps DoStop() to one thread as long as no signal arrives, for any
\* number of threads that call Stop().  The signal handler, which does not take
\* the mutex, is the only way to two of them (the run server_two_stops).
THEOREM StopsExcludeEachOther == ASSUME MaxSignals = 0 PROVE Spec => []OneStopAtATime
<1>1. Init => NoSignal
  BY DEF Init, NoSignal
<1>2. TypeOK /\ Control /\ NoSignal => OneStopAtATime
  BY DEF Control, NoSignal, OneStopAtATime, TypeOK, ServerTypeOK
<1>3. TypeOK /\ NoSignal /\ [Next]_vars => NoSignal'
  BY NoSignalInvariance
<1> QED
  BY <1>1, <1>2, <1>3, TypeCorrect, ControlCorrect, PTL DEF Spec, Safety

=============================================================================
