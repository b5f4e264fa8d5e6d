----------------------------- MODULE ClientSession -----------------------------
(***************************************************************************)
(* webcc/client_session.cc and webcc/client_pool.cc: a session sends one   *)
(* request after the other, each over the client its pool has for the      *)
(* server, or over a new client that it adds to the pool if the connection *)
(* is to be kept.  Client::Request() is used by its RequestOutcome.        *)
(***************************************************************************)
EXTENDS Naturals, FiniteSets, RequestOutcome

CONSTANTS
  Keys,       \* the servers: scheme, host and port
  Clients,    \* the client objects; their number bounds the pool
  None,       \* the null ClientPtr, and no server
  Parts       \* the number of parts of a form

ASSUME NoneAssumption == None \notin Clients \cup Keys
ASSUME PartsAssumption == Parts \in Nat \ {0}

VARIABLES
  pool,       \* clients_, as a set of entries
  conn,       \* for each client: closed_, whether its socket is open, to which
              \* server, and whether a request was sent over it in part only,
              \* because of an error that was returned or a file that threw one
  pc,         \* where Send() is
  key,        \* the server of the request
  body,       \* its body: a string, a form of data in memory, or read from files
  freed,      \* parts of the form whose data was freed
  client,     \* the client that Send() uses
  reuse,      \* the client is from the pool
  delivered,  \* how often the request was sent to its end
  truncated,  \* it was so without the data of a part
  ret         \* how Send() ended: with a response or an error

vars == <<pool, conn, pc, key, body, freed, client, reuse, delivered, truncated, ret>>

Bodies == {"string", "form", "file"}

Conn == [closed : BOOLEAN, open : BOOLEAN, host : Keys \cup {None},
         partial : {"none", "error", "file"}]

TypeOK ==
  /\ pool \in SUBSET (Keys \X Clients)
  /\ conn \in [Clients -> Conn]
  /\ pc \in {"idle", "request", "retry"}
  /\ key \in Keys
  /\ body \in Bodies
  /\ freed \in 0..Parts
  /\ client \in Clients \cup {None}
  /\ reuse \in BOOLEAN
  /\ delivered \in Nat
  /\ truncated \in BOOLEAN
  /\ ret \in {"none", "response", "error"}

NewConn == [closed |-> FALSE, open |-> FALSE, host |-> None, partial |-> "none"]

Init ==
  /\ pool = {}
  /\ key \in Keys
  /\ conn = [c \in Clients |-> NewConn]
  /\ pc = "idle"
  /\ body = "string" /\ freed = 0
  /\ client = None /\ reuse = FALSE
  /\ delivered = 0 /\ truncated = FALSE
  /\ ret = "none"

-----------------------------------------------------------------------------
(* ClientPool *)

Entries(k) == {e \in pool : e[1] = k}
Pooled(c) == \E e \in pool : e[2] = c

\* Seeded bug: the port is not compared.
GetOfAnyPort(k) == {e[2] : e \in pool} \cup {None}

\* What Get() may find.  Key::operator< is no strict weak ordering (http://b is
\* less than https://a, and the other way round), so in a map of three keys or
\* more the lookup may take the wrong branch and miss its key.
Get(k) ==
  {e[2] : e \in Entries(k)} \cup
    (IF Entries(k) = {} \/ Cardinality(pool) > 2 THEN {None} ELSE {})

\* Add() after a Get() that found nothing: for a key that was missed, the entry
\* is replaced or another one is inserted.
Add(k, c) ==
  \E old \in SUBSET Entries(k) :
    /\ Cardinality(old) <= 1
    /\ pool' = (pool \ old) \cup {<<k, c>>}

\* Remove() after a Get() that found the client.
Remove(k, c) == pool' = pool \ {<<k, c>>}

-----------------------------------------------------------------------------
(* ClientSession *)

\* Send() up to the first Request().
Send(k, b) ==
  /\ pc = "idle"
  /\ key' = k
  /\ body' = b
  /\ freed' = 0
  /\ delivered' = 0 /\ truncated' = FALSE
  /\ ret' = "none"
  /\ \E found \in Get(k) :
       /\ reuse' = (found # None)
       /\ client' \in IF found # None THEN {found} ELSE {c \in Clients : ~Pooled(c)}
  /\ pc' = "request"
  /\ UNCHANGED <<pool, conn>>

\* What of a request is left on the connection.
PartialOf(connect, o) ==
  CASE o.sent = "part" /\ o.code = "FileError" -> "file"
    [] o.sent = "part" /\ o.code # "FileError" -> "error"
    [] o.sent # "part" /\ connect -> "none"
    [] o.sent # "part" /\ ~connect -> conn[client].partial

\* What Request() does to the client, which is destroyed with its socket if
\* Send() ends and the pool does not have it.
Connected(connect, o) ==
  conn' = [conn EXCEPT ![client] =
             IF pc' = "idle" /\ <<key, client>> \notin pool'
             THEN NewConn
             ELSE [closed |-> o.closed,
                   open |-> o.open,
                   host |-> IF connect THEN key ELSE @.host,
                   partial |-> PartialOf(connect, o)]]

\* What it does to the body, and to the server: a form frees each part when the
\* payload after it is asked for.
Written(o) ==
  /\ o.code = "FileError" => body = "file"
  /\ freed' \in CASE body # "form" \/ o.sent = "none" -> {freed}
                  [] body = "form" /\ o.sent = "part" -> (freed..(Parts - 1)) \cup {freed}
                  [] body = "form" /\ o.sent = "all" -> {Parts}
  /\ delivered' = IF o.sent = "all" THEN delivered + 1 ELSE delivered
  /\ truncated' = (truncated \/ (o.sent = "all" /\ freed > 0))

Throw ==
  /\ pc' = "idle"
  /\ ret' = "error"
  /\ client' = None

\* The error was thrown by Request() and passes through DoSend().
FileError(o) ==
  /\ o.code = "FileError"
  /\ Throw
  /\ UNCHANGED pool

\* Seeded bug: the failed client stays in the pool.
FailKept(o) ==
  /\ o.code \notin {"OK", "FileError"}
  /\ Throw
  /\ UNCHANGED pool

\* Request() returned an error: the client is removed from the pool.
Fail(o) ==
  /\ o.code \notin {"OK", "FileError"}
  /\ IF reuse THEN Remove(key, client) ELSE UNCHANGED pool
  /\ Throw

\* Request() returned a response: the pool is updated.
Succeed(o) ==
  /\ o.code = "OK"
  /\ IF reuse
     THEN IF o.closed THEN Remove(key, client) ELSE UNCHANGED pool
     ELSE IF o.closed THEN UNCHANGED pool ELSE Add(key, client)
  /\ pc' = "idle"
  /\ ret' = "response"
  /\ client' = None

\* Seeded bug: any failure over a pooled connection is retried.
MustRetryAlways(o) == reuse /\ o.code # "OK"

MustRetry(o) == reuse /\ o.code = "SocketWriteError"

FirstRequest ==
  /\ pc = "request"
  /\ \E o \in Outcomes(~reuse) :
       /\ Written(o)
       /\ \/ /\ MustRetry(o)
             /\ pc' = "retry"
             /\ UNCHANGED <<pool, client, ret>>
          \/ ~MustRetry(o) /\ (FileError(o) \/ Fail(o) \/ Succeed(o))
       /\ Connected(~reuse, o)
  /\ UNCHANGED <<key, body, reuse>>

\* The server must have closed the connection: reconnect and try again.
RetryRequest ==
  /\ pc = "retry"
  /\ \E o \in Outcomes(TRUE) :
       /\ Written(o)
       /\ FileError(o) \/ Fail(o) \/ Succeed(o)
       /\ Connected(TRUE, o)
  /\ UNCHANGED <<key, body, reuse>>

Next ==
  \/ \E k \in Keys, b \in Bodies : Send(k, b)
  \/ FirstRequest
  \/ RetryRequest

Spec == Init /\ [][Next]_vars

-----------------------------------------------------------------------------
\* Between two calls of Send(), the clients in the pool are distinct and have an
\* open socket, and a client with which one of the two requests of a Send() returned an
\* error, or that the response has closed, has been removed.  A connection with half of
\* a request, which the server would take the next request for the rest of, is kept in
\* one case only: reading a file threw, and the exception has passed by the lines that
\* "remove the failed connection from pool".
PoolIsUsable ==
  pc = "idle" =>
    \A e \in pool : /\ conn[e[2]].open /\ ~conn[e[2]].closed
                    /\ conn[e[2]].partial # "error"
                    /\ \A f \in pool : f[2] = e[2] => f = e

\* A client of the pool is connected to the server it is kept for, although the
\* order of the keys is inconsistent.
RightServer == \A e \in pool : conn[e[2]].host = e[1]

\* The retry does not send a request twice: the whole of it is written once if Send()
\* returns a response, and at most once otherwise.  (What the server makes of one that
\* follows half of another is not told: see PoolIsUsable.)
SentOnce ==
  /\ delivered <= 1
  /\ ret = "response" => delivered = 1

\* The retry sends the same request again, its body included.
RetryIsComplete == ~truncated

=============================================================================
