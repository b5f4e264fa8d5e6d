------------------------- MODULE ClientSessionProofs -------------------------
(***************************************************************************)
(* The safety properties of ClientSession, for any servers, any clients    *)
(* and any sequence of requests, whatever Request() does within its        *)
(* contract (RequestOutcome).                                              *)
(***************************************************************************)
EXTENDS ClientSession, TLAPS

USE NoneAssumption, PartsAssumption

-----------------------------------------------------------------------------
(* The pool and the contract of Request() *)

\* Get() returns a client that the pool has under the key, or none.
LEMMA GetFinds ==
  ASSUME TypeOK, NEW k, NEW found \in Get(k)
  PROVE  found = None \/ (found \in Clients /\ <<k, found>> \in pool)
<1>1. \A e \in Entries(k) : e[2] \in Clients /\ e = <<k, e[2]>>
  BY DEF Entries, TypeOK
<1> QED
  BY <1>1 DEF Get, Entries

\* What a caller may rely on: a connection that is kept is open, one that failed
\* is not, and only a request that was sent to its end gets an answer.
LEMMA OutcomeFacts ==
  ASSUME NEW connect, NEW o \in Outcomes(connect)
  PROVE  /\ o.code \in Codes /\ o.closed \in BOOLEAN /\ o.open \in BOOLEAN
         /\ o.sent \in {"none", "part", "all"}
         /\ o.code = "OK" => o.open = ~o.closed /\ o.sent = "all"
         /\ o.code = "FileError" => o.open /\ ~o.closed /\ o.sent = "part"
         /\ o.code = "SocketWriteError" => o.sent # "all"
BY DEF Outcomes, Outcome

-----------------------------------------------------------------------------
(* The invariant *)

\* A client is in the pool once.
Distinct == \A e, f \in pool : e[2] = f[2] => e = f

\* All clients of the pool can be used, but for the one that Send() is about to
\* reconnect.
CanSend(c) == conn[c].open /\ ~conn[c].closed /\ conn[c].partial # "error"
Usable == \A e \in pool : (pc = "retry" /\ e[2] = client) \/ CanSend(e[2])

\* Send() uses a client of the pool that is there under the server's key, or one
\* that is not in the pool at all; the retry is one over a client of the pool.
InUse ==
  /\ pc = "idle" => client = None
  /\ pc # "idle" => client \in Clients
  /\ pc # "idle" /\ reuse => <<key, client>> \in pool
  /\ pc # "idle" /\ ~reuse => ~Pooled(client)
  /\ pc = "retry" => reuse

\* The server has the whole request only after the last Request().
Sent ==
  /\ pc # "idle" => delivered = 0 /\ ret = "none"
  /\ pc = "idle" => SentOnce

Inv == Distinct /\ Usable /\ RightServer /\ InUse /\ Sent

-----------------------------------------------------------------------------
\* The types of what Request() does to the body and to the server.
LEMMA WrittenTypes ==
  ASSUME TypeOK, NEW connect, NEW o \in Outcomes(connect), Written(o)
  PROVE  /\ freed' \in 0..Parts
         /\ truncated' \in BOOLEAN
         /\ delivered' = (IF o.sent = "all" THEN delivered + 1 ELSE delivered)
<1>1. o.sent \in {"none", "part", "all"}
  BY OutcomeFacts
<1>2. freed \in 0..Parts /\ truncated \in BOOLEAN
  BY DEF TypeOK
<1>3. freed' \in 0..Parts
  <2>1. CASE body # "form" \/ o.sent = "none"
    BY <1>1, <1>2, <2>1 DEF Written
  <2>2. CASE body = "form" /\ o.sent = "part"
    BY <1>1, <1>2, <2>2 DEF Written
  <2>3. CASE body = "form" /\ o.sent = "all"
    BY <1>1, <1>2, <2>3 DEF Written
  <2> QED
    BY <1>1, <2>1, <2>2, <2>3
<1> QED
  BY <1>2, <1>3 DEF Written

\* A Request() after which Send() ends: with the pool's client or a new one, with
\* a response, an error or an exception, the pool keeps just the clients that can
\* be used.
LEMMA RequestEnds ==
  ASSUME TypeOK, Inv, pc # "idle", NEW connect, ~reuse => connect, pc = "retry" => connect,
         NEW o \in Outcomes(connect), Written(o), FileError(o) \/ Fail(o) \/ Succeed(o),
         Connected(connect, o), UNCHANGED <<key, body, reuse>>
  PROVE  TypeOK' /\ Inv'
<1>t. /\ pool \in SUBSET (Keys \X Clients) /\ conn \in [Clients -> Conn]
      /\ key \in Keys /\ client \in Clients
  BY DEF TypeOK, Inv, InUse
<1>o. /\ o.code \in Codes /\ o.closed \in BOOLEAN /\ o.open \in BOOLEAN
      /\ o.code = "OK" => o.open = ~o.closed /\ o.sent = "all"
      /\ o.code = "FileError" => o.open /\ ~o.closed /\ o.sent = "part"
      /\ o.sent \in {"none", "part", "all"}
  BY OutcomeFacts
<1>1. pc' = "idle" /\ client' = None /\ ret' \in {"response", "error"}
  BY DEF FileError, Fail, Succeed, Throw
<1>2. reuse => \A e \in pool : e[2] = client => e = <<key, client>>
  <2>1. reuse => <<key, client>> \in pool
    BY DEF Inv, InUse
  <2> QED
    BY <1>t, <2>1 DEF Inv, Distinct
<1>3. ~reuse => \A e \in pool : e[2] # client
  BY DEF Inv, InUse, Pooled
\* What may be under the client in the pool, and that nothing else has changed.
<1>4. /\ pool' \in SUBSET (Keys \X Clients)
      /\ \A e \in pool' : e[2] # client => e \in pool
      /\ \A e \in pool' : e[2] = client => /\ e = <<key, client>> /\ o.open /\ ~o.closed
                                           /\ o.code \in {"OK", "FileError"}
  <2>1. CASE FileError(o)
    BY <1>t, <1>o, <1>2, <1>3, <2>1 DEF FileError
  <2>2. CASE Fail(o) /\ reuse
    BY <1>t, <1>2, <2>2 DEF Fail, Remove
  <2>3. CASE Fail(o) /\ ~reuse
    BY <1>t, <1>3, <2>3 DEF Fail
  <2>4. CASE Succeed(o) /\ reuse /\ o.closed
    BY <1>t, <1>2, <2>4 DEF Succeed, Remove
  <2>5. CASE Succeed(o) /\ reuse /\ ~o.closed
    BY <1>t, <1>o, <1>2, <2>5 DEF Succeed
  <2>6. CASE Succeed(o) /\ ~reuse /\ o.closed
    BY <1>t, <1>3, <2>6 DEF Succeed
  <2>7. CASE Succeed(o) /\ ~reuse /\ ~o.closed
    <3>1. pool' \subseteq pool \cup {<<key, client>>}
      BY <2>7 DEF Succeed, Add
    <3>2. o.open /\ o.code = "OK"
      BY <1>o, <2>7 DEF Succeed
    <3> QED
      BY <1>t, <1>3, <2>7, <3>1, <3>2
  <2>8. CASE Fail(o)
    BY <2>2, <2>3, <2>8
  <2>9. CASE Succeed(o)
    BY <2>4, <2>5, <2>6, <2>7, <2>9
  <2> QED
    BY <2>1, <2>8, <2>9, Zenon
<1>p. PartialOf(connect, o) \in {"none", "error", "file"}
  <2>1. conn[client].partial \in {"none", "error", "file"}
    BY <1>t DEF Conn
  <2> QED
    BY <2>1 DEF PartialOf
<1>5. /\ conn' \in [Clients -> Conn]
      /\ \A x \in Clients : x # client => conn'[x] = conn[x]
      /\ <<key, client>> \in pool' =>
           conn'[client] = [closed |-> o.closed, open |-> o.open,
                            host |-> IF connect THEN key ELSE conn[client].host,
                            partial |-> PartialOf(connect, o)]
  BY <1>t, <1>o, <1>p, <1>1 DEF Connected, NewConn, Conn
<1>6. <<key, client>> \in pool' => conn'[client].host = key
  <2>1. ~connect => conn[client].host = key
    <3>1. ~connect => <<key, client>> \in pool
      BY DEF Inv, InUse
    <3> QED
      BY <3>1 DEF Inv, RightServer
  <2> QED
    BY <1>5, <2>1
<1>7. TypeOK'
  <2>1. /\ freed' \in 0..Parts /\ truncated' \in BOOLEAN
        /\ delivered' = (IF o.sent = "all" THEN delivered + 1 ELSE delivered)
    BY WrittenTypes
  <2> QED
    BY <1>1, <1>4, <1>5, <2>1 DEF TypeOK
<1>8. Distinct'
  BY <1>4 DEF Inv, Distinct
<1>9. Usable'
  <2> SUFFICES ASSUME NEW e \in pool' PROVE CanSend(e[2])'
    BY DEF Usable
  <2>1. CASE e[2] = client
    <3>1. /\ <<key, client>> \in pool' /\ o.open /\ ~o.closed
          /\ o.code \in {"OK", "FileError"}
      BY <1>4, <2>1
    <3>2. ~connect => conn[client].partial # "error"
      <4>1. ~connect => <<key, client>> \in pool /\ pc # "retry"
        BY DEF Inv, InUse
      <4> QED
        BY <4>1 DEF Inv, Usable, CanSend
    <3>3. PartialOf(connect, o) # "error"
      BY <1>o, <3>1, <3>2 DEF PartialOf
    <3> QED
      BY <1>5, <2>1, <3>1, <3>3 DEF CanSend
  <2>2. CASE e[2] # client
    BY <1>4, <1>5, <1>t, <2>2 DEF Inv, Usable, CanSend
  <2> QED
    BY <2>1, <2>2
<1>10. RightServer'
  <2> SUFFICES ASSUME NEW e \in pool' PROVE conn'[e[2]].host = e[1]
    BY DEF RightServer
  <2>1. CASE e[2] = client
    BY <1>4, <1>6, <2>1
  <2>2. CASE e[2] # client
    BY <1>4, <1>5, <1>t, <2>2 DEF Inv, RightServer
  <2> QED
    BY <2>1, <2>2
<1>11. InUse'
  BY <1>1 DEF InUse
<1>12. Sent'
  <2>1. delivered = 0 /\ delivered' = (IF o.sent = "all" THEN delivered + 1 ELSE delivered)
    BY WrittenTypes DEF Inv, Sent
  <2>2. ret' = "response" => o.sent = "all"
    BY <1>o DEF FileError, Fail, Succeed, Throw
  <2> QED
    BY <1>1, <2>1, <2>2 DEF Sent, SentOnce
<1> QED
  BY <1>7, <1>8, <1>9, <1>10, <1>11, <1>12 DEF Inv

\* Every step of Send() keeps the types and the invariant.
LEMMA Invariance == TypeOK /\ Inv /\ [Next]_vars => TypeOK' /\ Inv'
<1> SUFFICES ASSUME TypeOK, Inv, [Next]_vars PROVE TypeOK' /\ Inv'
  OBVIOUS
<1>1. ASSUME NEW k \in Keys, NEW b \in Bodies, Send(k, b) PROVE TypeOK' /\ Inv'
  <2>1. /\ key' = k /\ body' = b /\ freed' = 0 /\ delivered' = 0 /\ truncated' = FALSE
        /\ ret' = "none" /\ pc' = "request" /\ UNCHANGED <<pool, conn>>
    BY <1>1 DEF Send
  <2>2. PICK found \in Get(k) :
          /\ reuse' = (found # None)
          /\ client' \in IF found # None THEN {found} ELSE {c \in Clients : ~Pooled(c)}
    BY <1>1 DEF Send
  <2>3. \/ reuse' = TRUE /\ client' \in Clients /\ <<k, client'>> \in pool
        \/ reuse' = FALSE /\ client' \in Clients /\ ~Pooled(client')
    BY <2>2, GetFinds
  <2>4. TypeOK'
    <3>1. reuse' \in BOOLEAN /\ truncated' \in BOOLEAN
      BY <2>1, <2>3
    <3>2. freed' \in 0..Parts /\ delivered' \in Nat
      BY <2>1
    <3> QED
      BY <1>1, <2>1, <2>3, <3>1, <3>2 DEF TypeOK
  <2>5. Distinct' /\ RightServer'
    BY <2>1 DEF Inv, Distinct, RightServer
  <2>6. Usable'
    BY <1>1, <2>1 DEF Inv, Usable, CanSend, Send
  <2>7. InUse'
    BY <2>1, <2>3 DEF InUse, Pooled
  <2>8. Sent'
    BY <2>1 DEF Sent
  <2> QED
    BY <2>4, <2>5, <2>6, <2>7, <2>8 DEF Inv
<1>2. CASE FirstRequest
  <2>1. PICK o \in Outcomes(~reuse) :
          /\ Written(o)
          /\ \/ /\ MustRetry(o)
                /\ pc' = "retry"
                /\ UNCHANGED <<pool, client, ret>>
             \/ ~MustRetry(o) /\ (FileError(o) \/ Fail(o) \/ Succeed(o))
          /\ Connected(~reuse, o)
    BY <1>2 DEF FirstRequest
  <2>2. pc = "request" /\ UNCHANGED <<key, body, reuse>>
    BY <1>2 DEF FirstRequest
  <2>3. CASE FileError(o) \/ Fail(o) \/ Succeed(o)
    BY <2>1, <2>2, <2>3, RequestEnds
  \* The pool's client turned out to be closed; it stays in the pool meanwhile.
  <2>4. CASE MustRetry(o) /\ pc' = "retry" /\ UNCHANGED <<pool, client, ret>>
    <3>1. /\ reuse /\ o.code = "SocketWriteError" /\ o.sent \in {"none", "part"}
          /\ o.closed \in BOOLEAN /\ o.open \in BOOLEAN
      BY <2>4, OutcomeFacts DEF MustRetry
    <3>2. client \in Clients /\ <<key, client>> \in pool
      BY <2>2, <3>1 DEF Inv, InUse
    <3> DEFINE partial == PartialOf(FALSE, o)
    <3>3. conn' = [conn EXCEPT ![client] =
                     [closed |-> o.closed, open |-> o.open, host |-> conn[client].host,
                      partial |-> partial]]
      <4>1. conn' = [conn EXCEPT ![client] =
                       [closed |-> o.closed, open |-> o.open, host |-> conn[client].host,
                        partial |-> PartialOf(~reuse, o)]]
        BY <2>1, <2>4, <3>1 DEF Connected
      <4> QED
        BY <3>1, <4>1
    <3>4. /\ conn' \in [Clients -> Conn]
          /\ conn'[client].host = conn[client].host
          /\ \A x \in Clients : x # client => conn'[x] = conn[x]
      <4>1. /\ conn \in [Clients -> Conn] /\ conn[client].host \in Keys \cup {None}
            /\ conn[client].partial \in {"none", "error", "file"}
        BY <3>2 DEF TypeOK, Conn
      <4>2. partial \in {"none", "error", "file"}
        BY <3>1, <4>1 DEF PartialOf
      <4> HIDE DEF partial
      <4>3. [closed |-> o.closed, open |-> o.open, host |-> conn[client].host,
             partial |-> partial] \in Conn
        BY <3>1, <4>1, <4>2 DEF Conn
      <4> QED
        BY <3>2, <3>3, <4>1, <4>3
    <3>5. freed' \in 0..Parts /\ truncated' \in BOOLEAN /\ delivered' = delivered
      BY <2>1, <3>1, WrittenTypes
    <3>6. TypeOK'
      BY <2>2, <2>4, <3>4, <3>5 DEF TypeOK
    <3>7. Distinct'
      BY <2>4 DEF Inv, Distinct
    <3>8. Usable'
      BY <2>2, <2>4, <3>4 DEF Inv, Usable, CanSend, TypeOK
    <3>9. RightServer'
      BY <2>4, <3>4 DEF Inv, RightServer, TypeOK
    <3>10. InUse'
      BY <2>2, <2>4, <3>1, <3>2 DEF InUse
    <3>11. Sent'
      BY <2>2, <2>4, <3>5 DEF Inv, Sent
    <3> QED
      BY <3>6, <3>7, <3>8, <3>9, <3>10, <3>11 DEF Inv
  <2> QED
    BY <2>1, <2>3, <2>4
<1>3. CASE RetryRequest
  <2>1. PICK o \in Outcomes(TRUE) :
          /\ Written(o)
          /\ FileError(o) \/ Fail(o) \/ Succeed(o)
          /\ Connected(TRUE, o)
    BY <1>3 DEF RetryRequest
  <2>2. pc # "idle" /\ UNCHANGED <<key, body, reuse>>
    BY <1>3 DEF RetryRequest
  <2> QED
    BY <2>1, <2>2, RequestEnds
<1>4. CASE UNCHANGED vars
  BY <1>4 DEF vars, TypeOK, Inv, Distinct, Usable, CanSend, RightServer, InUse, Pooled, Sent, SentOnce
<1> QED
  BY <1>1, <1>2, <1>3, <1>4 DEF Next

\* The session, its pool and its clients are always well formed, and the
\* invariant holds.
THEOREM InvCorrect == Spec => [](TypeOK /\ Inv)
<1>1. Init => TypeOK
  <2>1. Init => reuse \in BOOLEAN /\ truncated \in BOOLEAN
    BY DEF Init
  <2>2. NewConn \in Conn
    BY DEF NewConn, Conn
  <2>3. Init => freed \in 0..Parts /\ delivered \in Nat /\ body \in Bodies
    BY DEF Init, Bodies
  <2> QED
    BY <2>1, <2>2, <2>3 DEF Init, TypeOK
<1>2. Init => Inv
  BY DEF Init, Inv, Distinct, Usable, CanSend, RightServer, InUse, Sent, SentOnce
<1> QED
  BY <1>1, <1>2, Invariance, PTL DEF Spec

\* Between two calls of Send() the pool holds distinct clients with an open
\* connection, and none with half of a request whose error was returned, for any
\* sequence of requests, retries and failures (DoSend() in client_session.cc).
THEOREM ThePoolIsUsable == Spec => []PoolIsUsable
<1>1. Inv => PoolIsUsable
  BY DEF Inv, Distinct, Usable, CanSend, PoolIsUsable
<1> QED
  BY <1>1, InvCorrect, PTL

\* A client is kept for the server it is connected to, although Get() may miss a
\* key and Add() may then replace or duplicate its entry (client_pool.cc).
THEOREM EachClientForItsServer == Spec => []RightServer
BY InvCorrect, PTL DEF Inv

\* No server gets a request twice, and one that answered got it: a Request() is
\* repeated only if it failed before the end of the request was sent.
THEOREM RequestsAreSentOnce == Spec => []SentOnce
<1>1. Inv /\ TypeOK => SentOnce
  BY DEF Inv, Sent, SentOnce, TypeOK
<1> QED
  BY <1>1, InvCorrect, PTL

=============================================================================
