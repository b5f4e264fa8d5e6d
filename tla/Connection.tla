------------------------------ MODULE Connection ------------------------------
(***************************************************************************)
(* A connection of the HTTP server and the pool that owns it:              *)
(* webcc/connection.cc and webcc/connection_pool.cc.                       *)
(*                                                                         *)
(* A connection does one thing at a time: an asynchronous operation on its *)
(* socket is outstanding (op), or a completion handler runs on one of the  *)
(* threads of the event loop (at, on), or it waits in the queue of the     *)
(* workers, or a worker handles its request.  Nothing enforces this order  *)
(* but the code itself; handlers of one connection may run on several      *)
(* threads, and DoStop() may close a socket at any moment.                 *)
(*                                                                         *)
(* A handler is one step up to the point where it calls a method that      *)
(* takes a lock and then goes on: pool_->Start() and pool_->Close() first  *)
(* change the container under the pool's mutex, then touch the connection  *)
(* outside it, and are two steps each.                                     *)
(***************************************************************************)
EXTENDS Naturals, Sequences, FiniteSets

CONSTANTS
  Connections,   \* the connections clients may make
  Loops,         \* the threads that run the event loop
  Workers,       \* the worker threads
  NoConnection,  \* the thread is not busy with a connection
  Null           \* the null ConnectionPtr, which stops a worker

ASSUME ThreadsAssumption == Loops \cap Workers = {} /\ Loops # {}
ASSUME ConnectionsAssumption == NoConnection \notin Connections /\ Null \notin Connections

VARIABLES
  sock,        \* socket_: not accepted yet, open or closed
  pool,        \* connections_ of the ConnectionPool
  op,          \* the asynchronous operation outstanding on the socket
  result,      \* how far it is: its handler is ready unless it is pending
  keep_alive,  \* request_->IsConnectionKeepAlive()
  response,    \* the Connection header of response_
  queue,       \* queue_, as MessageQueue promises it
  at,          \* where each thread is
  on,          \* the connection it is busy with
  stopped      \* io_context_.stopped()

connVars == <<sock, pool, op, result, keep_alive, response>>

Threads == Loops \cup Workers

\* A loop is "out" of io_context::run(), "idle" in it, or in a handler: in
\* pool_->Start() (insert, start), in pool_->Close() (erase, close), about to
\* accept again (rearm), or in DoStop() (signal).
LoopPCs == {"out", "idle", "insert", "start", "rearm", "erase", "close", "signal"}

\* "none": the std::thread does not exist; "exited": it waits to be joined.
WorkerPCs == {"none", "pop", "handle", "relay", "exited"}

SocketsTypeOK ==
  /\ sock \in [Connections -> {"none", "open", "closed"}]
  /\ pool \in SUBSET Connections
  /\ op \in [Connections -> {"none", "read", "headers", "body"}]
  /\ result \in [Connections -> {"pending", "ok", "error", "aborted"}]
  /\ keep_alive \in [Connections -> BOOLEAN]
  /\ response \in [Connections -> {"none", "Keep-Alive", "Close"}]
  /\ queue \in Seq(Connections \cup {Null})
  /\ stopped \in BOOLEAN

ThreadsTypeOK ==
  /\ at \in [Threads -> LoopPCs \cup WorkerPCs]
  /\ \A l \in Loops : at[l] \in LoopPCs
  /\ \A w \in Workers : at[w] \in WorkerPCs
  /\ on \in [Threads -> Connections \cup {NoConnection}]
  /\ \A t \in Threads : at[t] \in {"insert", "start", "erase", "close", "handle"} =>
       on[t] \in Connections

ConnInit ==
  /\ sock = [c \in Connections |-> "none"]
  /\ pool = {}
  /\ op = [c \in Connections |-> "none"]
  /\ result = [c \in Connections |-> "pending"]
  /\ keep_alive = [c \in Connections |-> TRUE]
  /\ response = [c \in Connections |-> "none"]
  /\ queue = <<>>
  /\ at = [t \in Threads |-> IF t \in Loops THEN "out" ELSE "none"]
  /\ on = [t \in Threads |-> NoConnection]
  /\ stopped = FALSE

-----------------------------------------------------------------------------
(* Threads and sockets *)

Goto(t, l, c) ==
  /\ at' = [at EXCEPT ![t] = l]
  /\ on' = [on EXCEPT ![t] = c]

\* async_read_some() and async_write() on a closed socket complete with an
\* error.
StartOp(c, kind) ==
  /\ op' = [op EXCEPT ![c] = kind]
  /\ result' = [result EXCEPT ![c] = IF sock[c] = "open" THEN "pending" ELSE "error"]

NoOp(c) == op' = [op EXCEPT ![c] = "none"] /\ UNCHANGED result

\* socket_.shutdown() and socket_.close() for every connection of cs: an
\* operation that has not completed is aborted, unless another thread of the
\* event loop sees the shutdown first (end of file, broken pipe).
CloseSockets(cs) ==
  /\ sock' = [c \in Connections |-> IF c \in cs THEN "closed" ELSE sock[c]]
  /\ \E failed \in SUBSET cs :
       result' = [c \in Connections |->
                    IF c \in cs /\ op[c] # "none" /\ result[c] = "pending"
                    THEN IF c \in failed THEN "error" ELSE "aborted"
                    ELSE result[c]]

\* The network, or the peer, completes the outstanding operation.
Complete(c, r) ==
  /\ op[c] # "none"
  /\ sock[c] = "open"
  /\ result[c] = "pending"
  /\ result' = [result EXCEPT ![c] = r]
  /\ UNCHANGED <<sock, pool, op, keep_alive, response, queue, at, on, stopped>>

-----------------------------------------------------------------------------
(* Connection *)

\* Start(): a fresh request, without a Connection header, and the first read.
Start(c) ==
  /\ keep_alive' = [keep_alive EXCEPT ![c] = TRUE]
  /\ StartOp(c, "read")

\* SendResponse() and DoWrite(): ka is what the request asked for.
SendResponse(c, ka, no_keep_alive) ==
  /\ response' = [response EXCEPT ![c] =
                    IF ~no_keep_alive /\ ka THEN "Keep-Alive" ELSE "Close"]
  /\ StartOp(c, "headers")

\* The loop takes the handler of the connection's operation.
Runs(l, c, kind, results) ==
  /\ ~stopped
  /\ at[l] = "idle"
  /\ op[c] = kind
  /\ result[c] \in results

\* OnRead() with an error: unless the socket was closed on this side, the
\* connection is removed and closed.
OnReadError(l, c) ==
  /\ Runs(l, c, "read", {"error", "aborted"})
  /\ NoOp(c)
  /\ IF result[c] = "error" THEN Goto(l, "erase", c) ELSE UNCHANGED <<at, on>>
  /\ UNCHANGED <<sock, pool, keep_alive, response, queue, stopped>>

\* OnRead() with bytes the parser rejects: send 400 and close.  The Connection
\* header may have been parsed by then or not.
OnReadRejected(l, c) ==
  /\ Runs(l, c, "read", {"ok"})
  /\ \E ka \in BOOLEAN :
       /\ keep_alive' = [keep_alive EXCEPT ![c] = ka]
       /\ SendResponse(c, ka, TRUE)
  /\ Goto(l, "erase", c)
  /\ UNCHANGED <<sock, pool, queue, stopped>>

\* OnRead() with an unfinished request.
OnReadMore(l, c) ==
  /\ Runs(l, c, "read", {"ok"})
  /\ StartOp(c, "read")
  /\ UNCHANGED <<sock, pool, keep_alive, response, queue, at, on, stopped>>

\* Seeded bug: read ahead while the request is in the queue.
OnReadFinishedReadAhead(l, c) ==
  /\ Runs(l, c, "read", {"ok"})
  /\ \E ka \in BOOLEAN : keep_alive' = [keep_alive EXCEPT ![c] = ka]
  /\ StartOp(c, "read")
  /\ queue' = Append(queue, c)
  /\ UNCHANGED <<sock, pool, response, at, on, stopped>>

\* OnRead() with the last bytes of a request.
OnReadFinished(l, c) ==
  /\ Runs(l, c, "read", {"ok"})
  /\ \E ka \in BOOLEAN : keep_alive' = [keep_alive EXCEPT ![c] = ka]
  /\ NoOp(c)
  /\ queue' = Append(queue, c)
  /\ UNCHANGED <<sock, pool, response, at, on, stopped>>

OnRead(l, c) ==
  OnReadError(l, c) \/ OnReadRejected(l, c) \/ OnReadMore(l, c) \/ OnReadFinished(l, c)

\* Seeded bug: every error is taken for a socket that is closed already.
OnWriteErrorIgnored(l, c) ==
  /\ \E kind \in {"headers", "body"} : Runs(l, c, kind, {"error", "aborted"})
  /\ NoOp(c)
  /\ UNCHANGED <<sock, pool, keep_alive, response, queue, at, on, stopped>>

OnWriteError(l, c) ==
  /\ \E kind \in {"headers", "body"} : Runs(l, c, kind, {"error", "aborted"})
  /\ NoOp(c)
  /\ IF result[c] = "error" THEN Goto(l, "erase", c) ELSE UNCHANGED <<at, on>>
  /\ UNCHANGED <<sock, pool, keep_alive, response, queue, stopped>>

\* OnWriteHeaders() and OnWriteBody() when the body has another payload.
DoWriteBody(l, c) ==
  /\ \E kind \in {"headers", "body"} : Runs(l, c, kind, {"ok"})
  /\ StartOp(c, "body")
  /\ UNCHANGED <<sock, pool, keep_alive, response, queue, at, on, stopped>>

\* Seeded bug: the response, not the request, decides whether to go on, and a
\* 400 response is taken for one that keeps the connection.
OnWriteOKAlways(l, c) ==
  /\ \E kind \in {"headers", "body"} : Runs(l, c, kind, {"ok"})
  /\ Start(c)
  /\ UNCHANGED <<sock, pool, response, queue, at, on, stopped>>

\* The same when it has none: OnWriteOK().
OnWriteOK(l, c) ==
  /\ \E kind \in {"headers", "body"} : Runs(l, c, kind, {"ok"})
  /\ \/ /\ keep_alive[c]
        /\ Start(c)
        /\ UNCHANGED <<at, on>>
     \/ /\ ~keep_alive[c]
        /\ NoOp(c)
        /\ Goto(l, "erase", c)
        /\ UNCHANGED keep_alive
  /\ UNCHANGED <<sock, pool, response, queue, stopped>>

-----------------------------------------------------------------------------
(* ConnectionPool *)

PoolStartInsert(l) ==
  /\ at[l] = "insert"
  /\ pool' = pool \cup {on[l]}
  /\ Goto(l, "start", on[l])
  /\ UNCHANGED <<sock, op, result, keep_alive, response, queue, stopped>>

PoolStartStart(l) ==
  /\ at[l] = "start"
  /\ Start(on[l])
  /\ Goto(l, "rearm", NoConnection)
  /\ UNCHANGED <<sock, pool, response, queue, stopped>>

\* Seeded bug: the socket is left to the destructor.
PoolCloseEraseOnly(l) ==
  /\ at[l] = "erase"
  /\ pool' = pool \ {on[l]}
  /\ Goto(l, "idle", NoConnection)
  /\ UNCHANGED <<sock, op, result, keep_alive, response, queue, stopped>>

PoolCloseErase(l) ==
  /\ at[l] = "erase"
  /\ pool' = pool \ {on[l]}
  /\ Goto(l, "close", on[l])
  /\ UNCHANGED <<sock, op, result, keep_alive, response, queue, stopped>>

PoolCloseClose(l) ==
  /\ at[l] = "close"
  /\ CloseSockets({on[l]})
  /\ Goto(l, "idle", NoConnection)
  /\ UNCHANGED <<pool, op, keep_alive, response, queue, stopped>>

\* Clear(), with the pool's mutex held throughout.
PoolClear ==
  /\ CloseSockets(pool)
  /\ pool' = {}
  /\ UNCHANGED <<op, keep_alive, response>>

-----------------------------------------------------------------------------
\* A step of loop thread l in the code of a connection.
ConnectionStep(l) ==
  \/ \E c \in Connections :
       OnRead(l, c) \/ OnWriteError(l, c) \/ DoWriteBody(l, c) \/ OnWriteOK(l, c)
  \/ PoolStartInsert(l)
  \/ PoolStartStart(l)
  \/ PoolCloseErase(l)
  \/ PoolCloseClose(l)

=============================================================================
