---------------------------- MODULE ExchangeProofs ----------------------------
(***************************************************************************)
(* That temporary files have owners, that both ends agree about the        *)
(* connection, that credentials survive base64, content survives gzip and  *)
(* paths and queries survive percent-encoding, and that the headers of a   *)
(* request reach the view, and the view's answer the client: for all URLs, *)
(* bodies, headers, logins and numbers of calls.                           *)
(***************************************************************************)
EXTENDS Exchange, DataLemmas, TLAPS

\* Which files there are in which phase, and that the body of a message that was
\* streamed is the file.  TempFileOwned alone is not inductive: a request that is
\* parsed replaces what was seen, so no file may be there before.
FilesInv ==
  /\ pc \in {"build", "built", "sent"} => files = {}
  /\ pc \in {"handle", "refused", "responded"} => "response" \notin files
  /\ TempFileOwned

\* FileBodyHandler::Finish() makes a file of what was streamed, whatever it is.
LEMMA StreamedIsFile ==
  ASSUME NEW written, NEW is_request, NEW stream \in BOOLEAN, NEW ignore_body, stream
  PROVE  Received(written, is_request, stream, ignore_body).body.kind = "file"
  BY DEF Received, FinishBody, FileBody

\* The application's calls and its request do nothing to files.
LEMMA ClientKeepsFiles ==
  FilesInv /\ (BuilderCall \/ Build \/ Send) => FilesInv'
<1>1. SUFFICES ASSUME FilesInv, BuilderCall \/ Build \/ Send
               PROVE  FilesInv'
  OBVIOUS
<1>2. CASE BuilderCall
  <2>1. PICK b, a : Call(b, a)
    BY <1>2 DEF BuilderCall, Port, Path, Query, MediaType, Charset, Body, File, Form, Header,
                Date, KeepAlive, AuthBasic, Gzip
  <2>2. pc' = pc /\ files' = files /\ UNCHANGED <<seen, got>>
    BY <2>1 DEF Call, serverVars
  <2>3. QED
    BY <1>1, <2>2 DEF FilesInv, TempFileOwned
<1>3. CASE Build
  BY <1>1, <1>3 DEF FilesInv, TempFileOwned, Build, serverVars
<1>4. CASE Send
  BY <1>1, <1>4 DEF FilesInv, TempFileOwned, Send, serverVars
<1>5. QED
  BY <1>1, <1>2, <1>3, <1>4

\* A request or a response that was streamed owns the file it came with.
LEMMA ParsersOwnFiles ==
  ASSUME NEW stream \in BOOLEAN, FilesInv, ParseRequest(stream) \/ ReceiveResponse(stream)
  PROVE  FilesInv'
<1>1. CASE ParseRequest(stream)
  <2> DEFINE body == Received(Written(request), TRUE, stream, FALSE).body
  <2>1. files = {} /\ got' = got
    BY <1>1 DEF FilesInv, ParseRequest
  <2>2. \/ pc' = "refused" /\ files' = files
        \/ /\ pc' = "handle"
           /\ files' = IF stream THEN {"request"} ELSE {}
           /\ \E o, m, u, h, n, t :
                seen' = [outcome |-> o, method |-> m, url |-> u, headers |-> h,
                         body |-> body, unread |-> n, stream |-> t]
    BY <1>1, Zenon DEF ParseRequest
  <2>3. stream => body.kind = "file"
    BY StreamedIsFile
  <2> HIDE DEF body
  <2>4. QED
    BY <2>1, <2>2, <2>3 DEF FilesInv, TempFileOwned
<1>2. CASE ReceiveResponse(stream)
  <2> DEFINE body == Received(Written(response), FALSE, stream, ignroe_body(request)).body
  <2>1. "response" \notin files /\ seen' = seen /\ pc = "responded"
    BY <1>2 DEF FilesInv, ReceiveResponse, serverVars
  <2>2. \/ pc' = "failed" /\ files' = files /\ got' = got
        \/ /\ pc' = "done"
           /\ files' = IF stream THEN files \cup {"response"} ELSE files
           /\ \E o, s, h, n, t :
                got' = [outcome |-> o, status |-> s, headers |-> h,
                        body |-> body, unread |-> n, stream |-> t]
    BY <1>2, Zenon DEF ReceiveResponse
  <2>3. stream => body.kind = "file"
    BY StreamedIsFile
  <2> HIDE DEF body
  <2>4. QED
    BY <2>1, <2>2, <2>3 DEF FilesInv, TempFileOwned
<1>3. QED
  BY <1>1, <1>2

\* The view and the server that writes do nothing to files.
LEMMA ServerKeepsFiles ==
  FilesInv /\ (AnswerCall \/ Respond \/ RespondBadRequest) => FilesInv'
<1>1. SUFFICES ASSUME FilesInv, AnswerCall \/ Respond \/ RespondBadRequest
               PROVE  FilesInv'
  OBVIOUS
<1>2. CASE AnswerCall
  <2>1. PICK a : Answer(a)
    BY <1>2 DEF AnswerCall
  <2>2. pc' = pc /\ files' = files /\ UNCHANGED <<seen, got>>
    BY <2>1 DEF Answer
  <2>3. QED
    BY <1>1, <2>2 DEF FilesInv, TempFileOwned
<1>3. CASE Respond
  <2>1. pc = "handle" /\ pc' \in {"responded", "crashed"} /\ UNCHANGED <<files, seen, got>>
    BY <1>3 DEF Respond
  <2>2. QED
    BY <1>1, <2>1 DEF FilesInv, TempFileOwned
<1>4. CASE RespondBadRequest
  BY <1>1, <1>4 DEF FilesInv, TempFileOwned, RespondBadRequest
<1>5. QED
  BY <1>1, <1>2, <1>3, <1>4

\* A file goes when it is moved or its body destroyed; a transfer that breaks off
\* may leave one.
LEMMA OwnersRemoveFiles ==
  ASSUME FilesInv,
         \/ BreakOffRequest \/ BreakOffResponse
         \/ MoveRequestFile \/ MoveResponseFile \/ DropRequest \/ DropResponse
  PROVE  FilesInv'
<1>1. CASE BreakOffRequest \/ BreakOffResponse
  BY <1>1 DEF FilesInv, TempFileOwned, BreakOffRequest, BreakOffResponse, BreakOff
<1>2. CASE MoveRequestFile \/ MoveResponseFile
  BY <1>2 DEF FilesInv, TempFileOwned, MoveRequestFile, MoveResponseFile, Move, serverVars
<1>3. CASE DropRequest
  BY <1>3 DEF FilesInv, TempFileOwned, DropRequest, Drop
<1>4. CASE DropResponse
  BY <1>4 DEF FilesInv, TempFileOwned, DropResponse, Drop, serverVars
<1>5. QED
  BY <1>1, <1>2, <1>3, <1>4

\* A temporary file that a parser has opened for a request or a response exists
\* only as long as a message whose body removes it (FileBody::~FileBody()), except
\* when the transfer broke off, for every sequence of calls, URL, body and session.
THEOREM TempFilesHaveOwners == Spec => []TempFileOwned
<1>1. Init => FilesInv
  BY DEF Init, FilesInv, TempFileOwned
<1>2. FilesInv /\ [Next]_vars => FilesInv'
  <2>1. SUFFICES ASSUME FilesInv, [Next]_vars PROVE FilesInv'
    OBVIOUS
  <2>2. CASE Next
    BY <2>1, <2>2, ClientKeepsFiles, ParsersOwnFiles, ServerKeepsFiles, OwnersRemoveFiles DEF Next
  <2>3. CASE UNCHANGED vars
    BY <2>1, <2>3 DEF FilesInv, TempFileOwned, vars, serverVars
  <2>4. QED
    BY <2>1, <2>2, <2>3
<1>3. FilesInv => TempFileOwned
  BY DEF FilesInv
<1>4. QED
  BY <1>1, <1>2, <1>3, PTL DEF Spec

-----------------------------------------------------------------------------
(* Headers, set one by one *)

\* One step of SetFields().
SetOne(h, f, unless_set) ==
  IF unless_set /\ HasHeader(h, f[1]) THEN h ELSE SetHeader(h, f[1], f[2])

\* A nonempty set of places has a last one.
LEMMA LastPlace ==
  ASSUME NEW n \in Nat, NEW s \in SUBSET (1..n), s # {}
  PROVE  Max(s) \in s /\ \A y \in s : Max(s) >= y
<1> DEFINE T == {n - x : x \in s}
<1>1. T \in SUBSET Nat /\ T # {}
  <2>1. \A x \in s : n - x \in Nat
    OBVIOUS
  <2> QED
    BY <2>1
<1>2. PICK t \in T : \A y \in T : t <= y
  <2> HIDE DEF T
  <2> QED
    BY <1>1, LeastNumber
<1>3. PICK x \in s : t = n - x
  OBVIOUS
<1>4. \A y \in s : n - y \in T /\ y \in Int /\ x \in Int
  OBVIOUS
<1>5. \A y \in s : x >= y
  <2> HIDE DEF T
  <2> QED
    BY <1>2, <1>3, <1>4
<1> QED
  BY <1>5 DEF Max

\* The function inside SetFields().
IsSet(iter, n, base, fields, unless_set) ==
  iter = [s \in SUBSET (1..n) |->
            IF s = {} THEN base ELSE SetOne(iter[s \ {Max(s)}], fields[Max(s)], unless_set)]

\* The recursion over the places of the fields that are left has a solution.
LEMMA SetExists ==
  ASSUME NEW n \in Nat, NEW base, NEW fields, NEW unless_set
  PROVE  \E iter : IsSet(iter, n, base, fields, unless_set)
<1> DEFINE Def(g, s) ==
             IF s = {} THEN base ELSE SetOne(g[s \ {Max(s)}], fields[Max(s)], unless_set)
           D(k) == {s \in SUBSET (1..n) : Cardinality(s) <= k}
           S == {k \in Nat : \E g : \A s \in D(k) : g[s] = Def(g, s)}
<1>1. \A s \in SUBSET (1..n) : IsFiniteSet(s) /\ Cardinality(s) \in Nat /\ Cardinality(s) <= n
  BY Intervals
<1>2. 0 \in S
  <2> DEFINE g == [s \in {{}} |-> base]
  <2>1. \A s \in D(0) : s = {}
    BY <1>1, FS_EmptySet
  <2>2. \A s \in D(0) : g[s] = Def(g, s)
    BY <2>1
  <2> QED
    BY <2>2
<1>3. ASSUME NEW k \in Nat, k \in S PROVE k + 1 \in S
  <2>1. PICK g : \A s \in D(k) : g[s] = Def(g, s)
    BY <1>3
  <2> DEFINE h == [s \in D(k + 1) |-> Def(g, s)]
  <2>2. ASSUME NEW s \in D(k + 1) PROVE h[s] = Def(h, s)
    <3>1. CASE s = {}
      BY <3>1
    <3>2. CASE s # {}
      <4> DEFINE r == s \ {Max(s)}
      <4>1. Max(s) \in s
        BY <3>2, LastPlace
      <4>2. r \in SUBSET (1..n) /\ Cardinality(r) = Cardinality(s) - 1
        BY <1>1, <4>1, FS_RemoveElement
      <4>3. r \in D(k) /\ r \in D(k + 1)
        BY <1>1, <4>2
      <4>4. g[r] = Def(g, r) /\ h[r] = Def(g, r)
        BY <2>1, <4>3
      <4>5. h[s] = SetOne(g[r], fields[Max(s)], unless_set)
        BY <3>2
      <4> QED
        BY <3>2, <4>4, <4>5
    <3> QED
      BY <3>1, <3>2
  <2> HIDE DEF h, Def
  <2>3. \E w : \A s \in D(k + 1) : w[s] = Def(w, s)
    BY <2>2
  <2>4. k + 1 \in Nat
    OBVIOUS
  <2> QED
    BY <2>3, <2>4
<1>4. n \in S
  <2> HIDE DEF S
  <2> QED
    BY <1>2, <1>3, Induction
<1>5. PICK g : \A s \in D(n) : g[s] = Def(g, s)
  BY <1>4
<1> DEFINE h == [s \in SUBSET (1..n) |-> g[s]]
<1>6. ASSUME NEW s \in SUBSET (1..n) PROVE h[s] = Def(h, s)
  <2>1. h[s] = g[s] /\ g[s] = Def(g, s)
    BY <1>1, <1>5
  <2>2. s \ {Max(s)} \in SUBSET (1..n)
    OBVIOUS
  <2>3. h[s \ {Max(s)}] = g[s \ {Max(s)}]
    BY <2>2
  <2> QED
    BY <2>1, <2>3
<1>7. h = [s \in SUBSET (1..n) |-> Def(h, s)]
  BY <1>6
<1> HIDE DEF h
<1> QED
  BY <1>7 DEF IsSet

\* What the headers are after each of the fields.
IsChain(g, base, fields, unless_set) ==
  /\ g[0] = base
  /\ \A k \in 1..Len(fields) : g[k] = SetOne(g[k - 1], fields[k], unless_set)

\* SetFields() sets one field after the other, from the first to the last.
LEMMA FieldsInOrder ==
  ASSUME NEW base, NEW X, NEW fields \in Seq(X), NEW unless_set
  PROVE  \E g : IsChain(g, base, fields, unless_set)
                /\ SetFields(base, fields, unless_set) = g[Len(fields)]
<1> DEFINE n == Len(fields)
<1>1. n \in Nat /\ DOMAIN fields = 1..n
  OBVIOUS
<1>2. \E iter : IsSet(iter, n, base, fields, unless_set)
                /\ SetFields(base, fields, unless_set) = iter[1..n]
  <2> HIDE DEF n
  <2>1. \E iter : iter = [s \in SUBSET (1..n) |->
            IF s = {} THEN base
            ELSE IF unless_set /\ HasHeader(iter[s \ {Max(s)}], fields[Max(s)][1])
                 THEN iter[s \ {Max(s)}]
                 ELSE SetHeader(iter[s \ {Max(s)}], fields[Max(s)][1], fields[Max(s)][2])]
    <3>1. \E iter : IsSet(iter, n, base, fields, unless_set)
      BY <1>1, SetExists
    <3> QED
      BY <3>1, Zenon DEF IsSet, SetOne
  <2> DEFINE iter == CHOOSE iter : iter = [s \in SUBSET (1..n) |->
            IF s = {} THEN base
            ELSE IF unless_set /\ HasHeader(iter[s \ {Max(s)}], fields[Max(s)][1])
                 THEN iter[s \ {Max(s)}]
                 ELSE SetHeader(iter[s \ {Max(s)}], fields[Max(s)][1], fields[Max(s)][2])]
  <2>2. IsSet(iter, n, base, fields, unless_set)
    BY <2>1, Zenon DEF IsSet, SetOne
  <2>3. SetFields(base, fields, unless_set) = iter[1..n]
    BY <1>1, Zenon DEF SetFields, FoldLeft, MapThenFoldSet
  <2> HIDE DEF iter
  <2> QED
    BY <2>2, <2>3
<1>3. PICK iter : IsSet(iter, n, base, fields, unless_set)
                  /\ SetFields(base, fields, unless_set) = iter[1..n]
  BY <1>2, Zenon
<1> HIDE DEF n
<1> DEFINE g == [k \in 0..n |-> iter[1..k]]
<1>4. iter[{}] = base
  <2>1. {} \in SUBSET (1..n)
    OBVIOUS
  <2> QED
    BY <1>3, <2>1 DEF IsSet
<1>5. ASSUME NEW k \in 1..n
      PROVE  iter[1..k] = SetOne(iter[1..(k - 1)], fields[k], unless_set)
  <2>1. 1..k \in SUBSET (1..n) /\ 1..k # {} /\ k \in 1..k /\ (1..k) \ {k} = 1..(k - 1)
    BY <1>1
  <2>2. Max(1..k) = k
    <3>1. Max(1..k) \in 1..k /\ \A y \in 1..k : Max(1..k) >= y
      BY <1>1, <2>1, LastPlace
    <3> QED
      BY <2>1, <3>1
  <2>3. iter[1..k] = SetOne(iter[(1..k) \ {Max(1..k)}], fields[Max(1..k)], unless_set)
    BY <1>3, <2>1, Zenon DEF IsSet
  <2> QED
    BY <2>1, <2>2, <2>3
<1>6. g[0] = base
  <2>1. 1..0 = {} /\ 0 \in 0..n
    BY <1>1
  <2> QED
    BY <1>4, <2>1
<1>7. ASSUME NEW k \in 1..n PROVE g[k] = SetOne(g[k - 1], fields[k], unless_set)
  <2>1. k \in 0..n /\ k - 1 \in 0..n
    BY <1>1
  <2>2. g[k] = iter[1..k] /\ g[k - 1] = iter[1..(k - 1)]
    BY <2>1
  <2> QED
    BY <1>5, <2>2
<1>8. g[n] = iter[1..n]
  BY <1>1
<1> HIDE DEF g
<1>9. IsChain(g, base, fields, unless_set)
  BY <1>6, <1>7 DEF IsChain, n
<1> QED
  BY <1>3, <1>8, <1>9 DEF n

-----------------------------------------------------------------------------
(* What SetHeader() makes of headers *)

\* s is a sequence.
IsSeq(s) == \E S : s \in Seq(S)

\* Headers as they are kept: pairs with a value, no key twice, whatever its case.
IsHeaders(h) ==
  /\ IsSeq(h)
  /\ \A i \in 1..Len(h) : h[i] = <<h[i][1], h[i][2]>> /\ h[i][2] # <<>>
  /\ \A i, j \in 1..Len(h) : Upper(h[i][1]) = Upper(h[j][1]) => i = j

\* The place of a key, if there is one.
LEMMA FoundOnce ==
  ASSUME NEW h, IsHeaders(h), NEW key
  PROVE  /\ HasHeader(h, key) <=> \E i \in 1..Len(h) : Upper(h[i][1]) = Upper(key)
         /\ ~HasHeader(h, key) => GetHeader(h, key) = <<>>
         /\ \A i \in 1..Len(h) : Upper(h[i][1]) = Upper(key) =>
              Min(FindHeader(h, key)) = i /\ GetHeader(h, key) = h[i][2]
<1>1. DOMAIN h = 1..Len(h) /\ Len(h) \in Nat
  BY DEF IsHeaders, IsSeq
<1>2. FindHeader(h, key) = {i \in 1..Len(h) : Upper(h[i][1]) = Upper(key)}
  BY <1>1 DEF FindHeader, iequals
<1>3. HasHeader(h, key) <=> \E i \in 1..Len(h) : Upper(h[i][1]) = Upper(key)
  BY <1>2 DEF HasHeader
<1>4. ASSUME NEW i \in 1..Len(h), Upper(h[i][1]) = Upper(key)
      PROVE  Min(FindHeader(h, key)) = i /\ GetHeader(h, key) = h[i][2]
  <2>1. \A j \in 1..Len(h) : Upper(h[j][1]) = Upper(key) => i = j
    BY <1>4 DEF IsHeaders
  <2>2. FindHeader(h, key) = {i}
    BY <1>2, <1>4, <2>1
  <2>3. Min({i}) = i
    BY <1>1 DEF Min
  <2> QED
    BY <1>3, <1>4, <2>2, <2>3 DEF GetHeader
<1> QED
  BY <1>3, <1>4 DEF GetHeader

\* Headers u are h with the key set to the value: in its place, or at the end.
IsChanged(h, key, value, u) ==
  /\ IsSeq(u) /\ Len(u) \in Nat /\ Len(h) <= Len(u)
  /\ \A i \in 1..Len(u) : u[i] = <<u[i][1], u[i][2]>> /\ u[i][2] # <<>>
  /\ \A i \in 1..Len(h) : u[i][1] = h[i][1] /\ (Upper(h[i][1]) # Upper(key) => u[i] = h[i])
  /\ \A i \in 1..Len(u) : Upper(u[i][1]) = Upper(key) => u[i][2] = value
  /\ \E i \in 1..Len(u) : Upper(u[i][1]) = Upper(key)
  /\ \A i, j \in 1..Len(u) : Upper(u[i][1]) = Upper(u[j][1]) => i = j
  /\ \A i \in 1..Len(u) : i \in 1..Len(h) \/ Upper(u[i][1]) = Upper(key)

\* SetHeader() with a value.
LEMMA SetChanges ==
  ASSUME NEW h, IsHeaders(h), NEW key, NEW value, value # <<>>
  PROVE  IsChanged(h, key, value, SetHeader(h, key, value))
<1> DEFINE n == Len(h)
           u == SetHeader(h, key, value)
<1>1. PICK S : h \in Seq(S)
  BY DEF IsHeaders, IsSeq
<1>2. n \in Nat /\ DOMAIN h = 1..n
  BY <1>1
<1>3. /\ \A i \in 1..n : h[i] = <<h[i][1], h[i][2]>> /\ h[i][2] # <<>>
      /\ \A i, j \in 1..n : Upper(h[i][1]) = Upper(h[j][1]) => i = j
  BY DEF IsHeaders
<1>4. CASE HasHeader(h, key)
  <2>1. PICK i \in 1..n : Upper(h[i][1]) = Upper(key)
    BY <1>4, FoundOnce
  <2>2. Min(FindHeader(h, key)) = i
    BY <2>1, FoundOnce
  <2> DEFINE e == [h[i] EXCEPT ![2] = value]
  <2>3. u = [h EXCEPT ![i] = e]
    BY <1>4, <2>2 DEF SetHeader
  <2>4. e = <<h[i][1], value>>
    <3>1. h[i] = <<h[i][1], h[i][2]>>
      BY <1>3
    <3> DEFINE a == h[i][1]
               b == h[i][2]
    <3> HIDE DEF a, b
    <3>2. [<<a, b>> EXCEPT ![2] = value] = <<a, value>>
      OBVIOUS
    <3> QED
      BY <3>1, <3>2 DEF a, b
  <2> HIDE DEF e
  <2>5. e[1] = h[i][1] /\ e[2] = value /\ e = <<e[1], e[2]>>
    BY <2>4
  <2>6. h \in Seq(S \cup {e})
    BY <1>1, SeqMonotonic
  <2>7. /\ u \in Seq(S \cup {e}) /\ Len(u) = n
        /\ \A j \in 1..n : u[j] = IF j = i THEN e ELSE h[j]
    BY <2>3, <2>6, ExceptSeq
  <2> HIDE DEF u, n
  <2>8. IsSeq(u)
    BY <2>7 DEF IsSeq
  <2>9. \A j \in 1..n : u[j][1] = h[j][1] /\ (j # i => u[j] = h[j])
    BY <2>5, <2>7
  <2>10. \A j \in 1..n : Upper(u[j][1]) = Upper(key) <=> j = i
    BY <1>3, <2>1, <2>9
  <2>11. u[i] = e
    BY <2>7
  <2>12. \A j \in 1..n : u[j] = <<u[j][1], u[j][2]>> /\ u[j][2] # <<>>
    BY <1>3, <2>5, <2>9, <2>11
  <2>13. \A j \in 1..n : Upper(u[j][1]) = Upper(key) => u[j][2] = value
    BY <2>5, <2>10, <2>11
  <2>14. \A j, k \in 1..n : Upper(u[j][1]) = Upper(u[k][1]) => j = k
    BY <1>3, <2>9
  <2>15. \A j \in 1..n : Upper(h[j][1]) # Upper(key) => u[j] = h[j]
    BY <2>9, <2>10
  <2> QED
    BY <1>2, <2>7, <2>8, <2>9, <2>10, <2>12, <2>13, <2>14, <2>15 DEF IsChanged, n, u
<1>5. CASE ~HasHeader(h, key)
  <2> DEFINE e == <<key, value>>
  <2>1. u = Append(h, e)
    BY <1>5 DEF SetHeader
  <2>2. e[1] = key /\ e[2] = value /\ e = <<e[1], e[2]>>
    OBVIOUS
  <2> HIDE DEF e
  <2>3. h \in Seq(S \cup {e})
    BY <1>1, SeqMonotonic
  <2>4. /\ u \in Seq(S \cup {e}) /\ Len(u) = n + 1 /\ u[n + 1] = e
        /\ \A j \in 1..n : u[j] = h[j]
    BY <2>1, <2>3
  <2>5. \A j \in 1..n : Upper(h[j][1]) # Upper(key)
    BY <1>5, FoundOnce
  <2> HIDE DEF u, n
  <2>6. IsSeq(u)
    BY <2>4 DEF IsSeq
  <2>7. \A j \in 1..(n + 1) : j \in 1..n \/ j = n + 1
    BY <1>2
  <2>8. \A j \in 1..(n + 1) : u[j] = <<u[j][1], u[j][2]>> /\ u[j][2] # <<>>
    BY <1>3, <2>2, <2>4, <2>7
  <2>9. \A j \in 1..(n + 1) : Upper(u[j][1]) = Upper(key) <=> j = n + 1
    BY <1>2, <2>2, <2>4, <2>5, <2>7
  <2>10. \A j, k \in 1..(n + 1) : Upper(u[j][1]) = Upper(u[k][1]) => j = k
    BY <1>3, <2>2, <2>4, <2>5, <2>7
  <2>11. n + 1 \in 1..(n + 1) /\ n + 1 \in Nat /\ n <= n + 1
    BY <1>2
  <2>12. \A j \in 1..(n + 1) : Upper(u[j][1]) = Upper(key) => u[j][2] = value
    BY <2>2, <2>4, <2>9
  <2> QED
    BY <2>4, <2>6, <2>7, <2>8, <2>9, <2>10, <2>11, <2>12 DEF IsChanged, n, u
<1> QED
  BY <1>4, <1>5

\* SetHeader() keeps what headers are, and no other key sees it.
LEMMA SetKeeps ==
  ASSUME NEW h, IsHeaders(h), NEW key, NEW value
  PROVE  LET u == SetHeader(h, key, value)
         IN  /\ IsHeaders(u)
             /\ \A k : HasHeader(h, k) => HasHeader(u, k)
             /\ \A k : Upper(k) # Upper(key) => GetHeader(u, k) = GetHeader(h, k)
             /\ value # <<>> => HasHeader(u, key) /\ GetHeader(u, key) = value
<1> DEFINE u == SetHeader(h, key, value)
<1>1. CASE value = <<>>
  BY <1>1 DEF SetHeader
<1>2. CASE value # <<>>
  <2>1. IsChanged(h, key, value, u)
    BY <1>2, SetChanges
  <2> HIDE DEF u
  <2>2. IsHeaders(u)
    BY <2>1 DEF IsChanged, IsHeaders
  <2>3. Len(h) \in Nat
    BY DEF IsHeaders, IsSeq
  <2>4. \A i \in 1..Len(h) : i \in 1..Len(u) /\ u[i][1] = h[i][1]
    BY <2>1, <2>3 DEF IsChanged
  <2>5. ASSUME NEW k, HasHeader(h, k) PROVE HasHeader(u, k)
    <3>1. PICK i \in 1..Len(h) : Upper(h[i][1]) = Upper(k)
      BY <2>5, FoundOnce
    <3> QED
      BY <2>2, <2>4, <3>1, FoundOnce
  <2>6. ASSUME NEW k, Upper(k) # Upper(key) PROVE GetHeader(u, k) = GetHeader(h, k)
    <3>1. CASE HasHeader(h, k)
      <4>1. PICK i \in 1..Len(h) : Upper(h[i][1]) = Upper(k)
        BY <3>1, FoundOnce
      <4>2. GetHeader(h, k) = h[i][2]
        BY <4>1, FoundOnce
      <4>3. u[i] = h[i]
        BY <2>1, <2>6, <4>1 DEF IsChanged
      <4>4. i \in 1..Len(u) /\ Upper(u[i][1]) = Upper(k)
        BY <2>4, <4>1
      <4>5. GetHeader(u, k) = u[i][2]
        BY <2>2, <4>4, FoundOnce
      <4> QED
        BY <4>2, <4>3, <4>5
    <3>2. CASE ~HasHeader(h, k)
      <4>1. \A i \in 1..Len(h) : Upper(h[i][1]) # Upper(k)
        BY <3>2, FoundOnce
      <4>2. \A i \in 1..Len(u) : Upper(u[i][1]) # Upper(k)
        BY <2>1, <2>4, <2>6, <4>1 DEF IsChanged
      <4>3. ~HasHeader(u, k)
        BY <2>2, <4>2, FoundOnce
      <4> QED
        BY <2>2, <3>2, <4>3, FoundOnce
    <3> QED
      BY <3>1, <3>2
  <2>7. HasHeader(u, key) /\ GetHeader(u, key) = value
    <3>1. PICK i \in 1..Len(u) : Upper(u[i][1]) = Upper(key)
      BY <2>1 DEF IsChanged
    <3>2. u[i][2] = value
      BY <2>1, <3>1 DEF IsChanged
    <3> QED
      BY <2>2, <3>1, <3>2, FoundOnce
  <2> QED
    BY <2>2, <2>5, <2>6, <2>7 DEF u
<1> QED
  BY <1>1, <1>2

\* No headers are headers.
LEMMA NoHeaders == IsHeaders(<<>>)
<1>1. <<>> \in Seq({}) /\ Len(<<>>) = 0
  OBVIOUS
<1>2. 1..0 = {}
  OBVIOUS
<1> QED
  BY <1>1, <1>2, Zenon DEF IsHeaders, IsSeq

\* Nor do many fields.
LEMMA SetFieldsKeeps ==
  ASSUME NEW base, IsHeaders(base), NEW fields, IsSeq(fields), NEW unless_set
  PROVE  LET u == SetFields(base, fields, unless_set)
         IN  IsHeaders(u) /\ \A k : HasHeader(base, k) => HasHeader(u, k)
<1>1. PICK X : fields \in Seq(X)
  BY DEF IsSeq
<1>2. PICK g : IsChain(g, base, fields, unless_set)
               /\ SetFields(base, fields, unless_set) = g[Len(fields)]
  BY <1>1, FieldsInOrder
<1> DEFINE Good(k) == IsHeaders(g[k]) /\ \A x : HasHeader(base, x) => HasHeader(g[k], x)
           S == {k \in Nat : k <= Len(fields) => Good(k)}
<1>3. 0 \in S
  BY <1>2 DEF IsChain
<1>4. ASSUME NEW k \in Nat, k \in S PROVE k + 1 \in S
  <2>1. SUFFICES ASSUME k + 1 <= Len(fields) PROVE Good(k + 1)
    OBVIOUS
  <2>2. Len(fields) \in Nat
    BY <1>1
  <2>3. Good(k) /\ k + 1 \in 1..Len(fields) /\ (k + 1) - 1 = k
    BY <1>4, <2>1, <2>2
  <2>4. g[k + 1] = SetOne(g[k], fields[k + 1], unless_set)
    BY <1>2, <2>3 DEF IsChain
  <2>5. \/ g[k + 1] = g[k]
        \/ g[k + 1] = SetHeader(g[k], fields[k + 1][1], fields[k + 1][2])
    BY <2>4 DEF SetOne
  <2> QED
    BY <2>3, <2>5, SetKeeps
<1>5. Len(fields) \in S /\ Len(fields) \in Nat
  <2>1. Len(fields) \in Nat
    BY <1>1
  <2> HIDE DEF S
  <2> QED
    BY <1>3, <1>4, <2>1, Induction
<1> QED
  BY <1>2, <1>5

\* A parser that sets headers one by one, as they were written, has the headers.
LEMMA ReceivedAsWritten ==
  ASSUME NEW h, IsHeaders(h)
  PROVE  SetFields(<<>>, h, FALSE) = h
<1>1. PICK X : h \in Seq(X)
  BY DEF IsHeaders, IsSeq
<1>2. PICK g : IsChain(g, <<>>, h, FALSE) /\ SetFields(<<>>, h, FALSE) = g[Len(h)]
  BY <1>1, FieldsInOrder
<1> DEFINE S == {k \in Nat : k <= Len(h) => g[k] = SubSeq(h, 1, k)}
<1>3. 0 \in S
  <2>1. SubSeq(h, 1, 0) = <<>>
    OBVIOUS
  <2> QED
    BY <1>2, <2>1 DEF IsChain
<1>4. ASSUME NEW k \in Nat, k \in S PROVE k + 1 \in S
  <2>1. SUFFICES ASSUME k + 1 <= Len(h) PROVE g[k + 1] = SubSeq(h, 1, k + 1)
    OBVIOUS
  <2> DEFINE p == SubSeq(h, 1, k)
             e == h[k + 1]
  <2>2. Len(h) \in Nat
    BY <1>1
  <2>3. g[k] = p /\ k + 1 \in 1..Len(h) /\ (k + 1) - 1 = k /\ k <= Len(h)
    BY <1>4, <2>1, <2>2
  <2>4. p \in Seq(X) /\ Len(p) = k /\ \A i \in 1..k : p[i] = h[i] /\ i \in 1..Len(h) /\ i # k + 1
    BY <1>1, <2>2, <2>3
  <2>5. g[k + 1] = SetOne(p, e, FALSE)
    BY <1>2, <2>3 DEF IsChain
  <2>6. SubSeq(h, 1, k + 1) = Append(p, e)
    <3>1. SubSeq(h, 1, k + 1) = p \o <<e>>
      BY <1>1, <2>2, <2>3, SubSeqRecursiveSecond
    <3> QED
      BY <1>1, <2>3, <2>4, <3>1
  <2>7. e = <<e[1], e[2]>> /\ e[2] # <<>>
    BY <2>3 DEF IsHeaders
  <2>8. \A i \in 1..k : Upper(p[i][1]) # Upper(e[1])
    BY <2>3, <2>4 DEF IsHeaders
  <2> HIDE DEF p, e
  <2>9. ~HasHeader(p, e[1])
    BY <2>4, <2>8 DEF HasHeader, FindHeader, iequals
  <2>10. SetHeader(p, e[1], e[2]) = Append(p, <<e[1], e[2]>>)
    BY <2>7, <2>9 DEF SetHeader
  <2> QED
    BY <2>5, <2>6, <2>7, <2>10 DEF SetOne
<1>5. Len(h) \in S /\ Len(h) \in Nat
  <2>1. Len(h) \in Nat
    BY <1>1
  <2> HIDE DEF S
  <2> QED
    BY <1>3, <1>4, <2>1, Induction
<1>6. SubSeq(h, 1, Len(h)) = h
  BY <1>1, SubSeqFull
<1>7. g[Len(h)] = SubSeq(h, 1, Len(h))
  BY <1>5
<1> QED
  BY <1>2, <1>6, <1>7

-----------------------------------------------------------------------------
(* Content: compressed, in pieces, and as it is written *)

\* A piece of one element.
LEMMA PieceOfOne ==
  ASSUME NEW S, NEW s \in Seq(S), NEW i \in 1..Len(s)
  PROVE  SubSeq(s, i, i) = <<s[i]>>
<1> DEFINE t == SubSeq(s, i, i)
           u == <<s[i]>>
<1>1. s[i] \in S /\ i \in Nat
  OBVIOUS
<1>2. t \in Seq(S) /\ Len(t) = 1 /\ t[1] = s[i]
  BY <1>1
<1>3. u \in Seq(S) /\ Len(u) = 1 /\ u[1] = s[i]
  BY <1>1
<1> HIDE DEF t, u
<1>4. \A j \in 1..Len(t) : t[j] = u[j]
  BY <1>2, <1>3
<1>5. t = u
  BY <1>2, <1>3, <1>4, SameSequence
<1> QED
  BY <1>5 DEF t, u

\* The loop of gzip::Compress() takes all of the stream, whatever the size of its
\* buffer, if it has one.
LEMMA CompressTakesAll ==
  ASSUME NEW X, NEW data \in Seq(X), data # <<>>, Len(data) \div 2 > 0
  PROVE  Compress(data) = Deflated(data)
<1> DEFINE st == Deflated(data)
           size == Len(data) \div 2
           N(done) == Min({size, Len(st) - done})
           P(done) == SubSeq(st, done + 1, done + N(done))
           W(f, done) == IF N(done) = size THEN P(done) \o f[done + N(done)] ELSE P(done)
           f1 == <<data>>
<1>1. size \in Nat \ {0}
  OBVIOUS
<1>2. Len(st) = 2 /\ st \in Seq({"gz", data}) /\ st[1] = "gz" /\ st[2] = data
  BY DEF Deflated
<1> HIDE DEF st, size
<1>3. /\ N(0) = (IF size <= 2 THEN size ELSE 2)
      /\ N(1) = 1 /\ N(2) = 0
  BY <1>1, <1>2 DEF Min
<1>4. P(2) = <<>>
  BY <1>2, <1>3
<1>5. P(1) = f1
  <2>1. 1 + 1 = 2 /\ 1 + N(1) = 2
    BY <1>3
  <2>2. SubSeq(st, 2, 2) = <<st[2]>>
    <3>1. 2 \in 1..Len(st) /\ st \in Seq({"gz", data})
      BY <1>2
    <3> HIDE DEF N, P, W, f1
    <3> QED
      BY <3>1, PieceOfOne, Zenon
  <2> HIDE DEF N
  <2> QED
    BY <1>2, <2>1, <2>2
<1>6. \A f : W(f, 2) = <<>>
  BY <1>1, <1>3, <1>4
<1>7. ASSUME NEW f, f[2] = <<>> PROVE W(f, 1) = f1
  <2>1. f1 \o <<>> = f1 /\ 1 + N(1) = 2
    BY <1>3
  <2> HIDE DEF N, P, f1
  <2> QED
    BY <1>5, <1>7, <2>1
<1>8. ASSUME NEW f, f[1] = f1, f[2] = <<>> PROVE W(f, 0) = st
  <2>1. CASE size = 1
    <3>1. N(0) = 1 /\ 0 + N(0) = 1
      BY <1>3, <2>1
    <3>2. P(0) = <<st[1]>>
      <4>1. 0 + 1 = 1 /\ SubSeq(st, 1, 1) = <<st[1]>>
        BY <1>2, PieceOfOne
      <4> HIDE DEF N
      <4> QED
        BY <3>1, <4>1
    <3>3. <<st[1]>> \o f1 = st
      BY <1>2
    <3> HIDE DEF N, P, f1
    <3> QED
      BY <1>8, <2>1, <3>1, <3>2, <3>3
  <2>2. CASE size # 1
    <3>1. N(0) = 2 /\ 0 + N(0) = 2
      BY <1>1, <1>3, <2>2
    <3>2. P(0) = st /\ st \o <<>> = st
      BY <1>2, <3>1
    <3> HIDE DEF N, P, f1
    <3> QED
      BY <1>8, <3>1, <3>2
  <2> QED
    BY <2>1, <2>2
<1>9. \E f : f = [done \in 0..2 |-> W(f, done)]
  <2> HIDE DEF W
  <2> DEFINE F == [done \in 0..2 |-> IF done = 0 THEN st ELSE IF done = 1 THEN f1 ELSE <<>>]
  <2>1. F[0] = st /\ F[1] = f1 /\ F[2] = <<>>
    OBVIOUS
  <2>2. ASSUME NEW done \in 0..2 PROVE F[done] = W(F, done)
    <3> HIDE DEF F
    <3>1. done = 0 \/ done = 1 \/ done = 2
      OBVIOUS
    <3> QED
      BY <1>6, <1>7, <1>8, <2>1, <3>1, Zenon
  <2>3. F = [done \in 0..2 |-> W(F, done)]
    BY <2>2
  <2> HIDE DEF F
  <2> QED
    BY <2>3
<1> DEFINE O == CHOOSE f : f = [done \in 0..2 |-> W(f, done)]
<1>10. O = [done \in 0..2 |-> W(O, done)]
  <2> HIDE DEF W
  <2> QED
    BY <1>9
<1>11. Compress(data) = O[0]
  BY <1>2, Zenon DEF Compress, st, size
<1> HIDE DEF O, W
<1>12. O[2] = <<>> /\ O[1] = W(O, 1) /\ O[0] = W(O, 0)
  BY <1>6, <1>10
<1> QED
  BY <1>7, <1>8, <1>11, <1>12 DEF st

\* Division, rounded down.
LEMMA DivBounds ==
  ASSUME NEW a \in Nat, NEW n \in Nat \ {0}
  PROVE  a \div n \in Nat /\ n * (a \div n) <= a /\ a < n * (a \div n) + n
OBVIOUS

\* Products of larger numbers are not smaller.
LEMMA Times ==
  ASSUME NEW n \in Nat, NEW a \in Nat, NEW b \in Nat, a <= b
  PROVE  n * a <= n * b /\ n * a \in Nat /\ n * (a + 1) = n * a + n
OBVIOUS

\* The k-th piece of s begins after off; they all have n elements, but perhaps the last.
IsPieceAt(X, s, n, k, p, off, more) ==
  /\ off \in Nat /\ off < Len(s) /\ n * k = off + n
  /\ p \in Seq(X)
  /\ Len(p) = IF off + n <= Len(s) THEN n ELSE Len(s) - off
  /\ \A i \in 1..Len(p) : p[i] = s[off + i]
  /\ more <=> off + n < Len(s)

\* Where a piece begins and how long it is.
LEMMA PieceAt ==
  ASSUME NEW X, NEW s \in Seq(X), NEW n \in Nat \ {0}, NEW k \in DOMAIN pieces(s, n)
  PROVE  IsPieceAt(X, s, n, k, pieces(s, n)[k], n * (k - 1), k + 1 \in DOMAIN pieces(s, n))
<1> DEFINE m == (Len(s) + n - 1) \div n
           off == n * (k - 1)
           l == IF off + n <= Len(s) THEN n ELSE Len(s) - off
           p == pieces(s, n)[k]
<1>1. Len(s) \in Nat /\ Len(s) + n - 1 \in Nat
  OBVIOUS
<1>2. m \in Nat /\ n * m <= Len(s) + n - 1 /\ Len(s) + n - 1 < n * m + n
  BY <1>1, DivBounds
<1>3. DOMAIN pieces(s, n) = 1..m
  BY DEF pieces
<1>4. k \in 1..m /\ k - 1 \in Nat /\ (k - 1) + 1 = k
  BY <1>2, <1>3
<1>5. p = SubSeq(s, off + 1, IF n * k <= Len(s) THEN n * k ELSE Len(s))
  BY <1>4 DEF pieces
<1> HIDE DEF m, p
<1>6. off \in Nat /\ n * k = off + n /\ n * k <= n * m
  <2>1. n * (k - 1) \in Nat /\ n * ((k - 1) + 1) = n * (k - 1) + n
    BY <1>4, Times
  <2>2. n * k <= n * m
    BY <1>2, <1>4, Times
  <2> QED
    BY <1>4, <2>1, <2>2
<1>7. n * m \in Nat
  BY <1>2
<1>8. ASSUME k + 1 \in 1..m PROVE off + n < Len(s)
  <2>1. n * (k + 1) <= n * m /\ n * (k + 1) = n * k + n
    BY <1>2, <1>4, <1>8, Times
  <2> HIDE DEF off
  <2> QED
    BY <1>1, <1>2, <1>6, <1>7, <2>1
<1>9. ASSUME k + 1 \notin 1..m PROVE Len(s) <= off + n
  <2>1. k = m
    BY <1>2, <1>4, <1>9
  <2> HIDE DEF off
  <2> QED
    BY <1>1, <1>2, <1>6, <1>7, <2>1
<1> HIDE DEF off
<1>10. off < Len(s)
  BY <1>1, <1>2, <1>6, <1>7
<1>11. p = SubSeq(s, off + 1, off + l)
  BY <1>1, <1>5, <1>6
<1>12. l \in Nat /\ off + l <= Len(s)
  BY <1>1, <1>6, <1>10
<1> HIDE DEF l
<1>13. p \in Seq(X) /\ Len(p) = l /\ \A i \in 1..l : p[i] = s[off + i]
  <2>1. off + 1 \in Int /\ off + l \in Int /\ (off + l) - (off + 1) + 1 = l
    BY <1>6, <1>12
  <2>2. \A i \in 1..l : i \in Int /\ (off + 1) + i - 1 = off + i /\ off + i \in 1..Len(s)
    BY <1>1, <1>6, <1>12
  <2>3. p \in Seq(X)
    BY <1>6, <1>11, <1>12
  <2>4. Len(p) = l
    BY <1>6, <1>11, <1>12, <2>1
  <2>5. ASSUME NEW i \in 1..l PROVE p[i] = s[off + i]
    <3>1. off + 1 \in 1..(Len(s) + 1) /\ off + l \in (off + 1)..Len(s)
      BY <1>1, <1>6, <1>12, <2>5
    <3> DEFINE a == off + 1
               b == off + l
    <3>2. p = SubSeq(s, a, b) /\ b - a + 1 = l /\ a + i - 1 = off + i
      BY <1>6, <1>11, <1>12, <2>1, <2>5
    <3> HIDE DEF a, b
    <3>3. SubSeq(s, a, b)[i] = s[a + i - 1]
      BY <2>5, <3>1, <3>2 DEF a, b
    <3> QED
      BY <3>2, <3>3
  <2> QED
    BY <2>3, <2>4, <2>5
<1> QED
  <2>1. k + 1 \in 1..m <=> off + n < Len(s)
    BY <1>1, <1>6, <1>8, <1>9
  <2>2. Len(p) = IF off + n <= Len(s) THEN n ELSE Len(s) - off
    BY <1>13 DEF l
  <2>3. IsPieceAt(X, s, n, k, p, off, k + 1 \in 1..m)
    BY <1>6, <1>10, <1>13, <2>1, <2>2 DEF IsPieceAt
  <2> QED
    BY <1>3, <2>3 DEF p, off

\* A file is sent in pieces that are sequences.
LEMMA PiecesType ==
  ASSUME NEW X, NEW s \in Seq(X), NEW n \in Nat \ {0}
  PROVE  /\ pieces(s, n) \in Seq(Seq(X)) /\ Len(pieces(s, n)) = (Len(s) + n - 1) \div n
         /\ DOMAIN pieces(s, n) = 1..Len(pieces(s, n))
<1> DEFINE m == (Len(s) + n - 1) \div n
<1>1. m \in Nat
  OBVIOUS
<1>2. DOMAIN pieces(s, n) = 1..m
  BY DEF pieces
<1>3. \A k \in 1..m : pieces(s, n)[k] \in Seq(X)
  BY <1>2, PieceAt DEF IsPieceAt
<1> DEFINE P == pieces(s, n)
<1>4. P = [k \in 1..m |-> P[k]]
  BY DEF pieces
<1> HIDE DEF m, P
<1>5. P \in Seq(Seq(X)) /\ Len(P) = m
  <2> DEFINE Y == Seq(X)
  <2>1. \A k \in 1..m : P[k] \in Y
    BY <1>3 DEF P
  <2> HIDE DEF Y
  <2>2. P \in Seq(Y) /\ Len(P) = m
    BY <1>1, <1>4, <2>1
  <2> QED
    BY <2>2 DEF Y
<1> QED
  BY <1>1, <1>2, <1>5 DEF m, P

\* f is what s begins with.
IsStart(X, f, s, len) ==
  f \in Seq(X) /\ Len(f) = len /\ \A i \in 1..len : f[i] = s[i]

\* It is longer with what comes next.
LEMMA PrefixGrows ==
  ASSUME NEW X, NEW a \in Seq(X), NEW s, NEW o \in Nat, IsStart(X, a, s, o),
         NEW b \in Seq(X), \A i \in 1..Len(b) : b[i] = s[o + i]
  PROVE  IsStart(X, a \o b, s, o + Len(b))
<1>1. Len(a) = o /\ (\A i \in 1..o : a[i] = s[i]) /\ Len(b) \in Nat
  BY DEF IsStart
<1>2. a \o b \in Seq(X) /\ Len(a \o b) = o + Len(b)
  <2>1. a \o b \in Seq(X)
    OBVIOUS
  <2>2. Len(a \o b) = Len(a) + Len(b)
    OBVIOUS
  <2> QED
    BY <1>1, <2>1, <2>2
<1>3. ASSUME NEW i \in 1..(o + Len(b)) PROVE (a \o b)[i] = s[i]
  <2>1. CASE i <= o
    BY <1>1, <2>1
  <2>2. CASE i > o
    <3>1. i - o \in 1..Len(b) /\ o + (i - o) = i
      BY <1>1, <2>2
    <3>2. (a \o b)[i] = b[i - o]
      BY <1>1, <2>2
    <3> QED
      BY <3>1, <3>2
  <2>3. i <= o \/ i > o
    BY <1>1
  <2> QED
    BY <2>1, <2>2, <2>3
<1> QED
  BY <1>2, <1>3 DEF IsStart

\* Pieces, end to end, are the sequence.
LEMMA PiecesJoined ==
  ASSUME NEW X, NEW s \in Seq(X), NEW n \in Nat \ {0}
  PROVE  FlattenSeq(pieces(s, n)) = s
<1> DEFINE ss == pieces(s, n)
           m == Len(ss)
           off(k) == n * (k - 1)
<1>1. m \in Nat /\ m = (Len(s) + n - 1) \div n /\ DOMAIN ss = 1..m
  BY PiecesType
<1>2. Len(s) \in Nat
  OBVIOUS
<1>3. ASSUME NEW k \in 1..m PROVE IsPieceAt(X, s, n, k, ss[k], off(k), k + 1 \in 1..m)
  <2> HIDE DEF m
  <2>1. k \in DOMAIN ss
    BY <1>1
  <2>2. IsPieceAt(X, s, n, k, ss[k], off(k), k + 1 \in DOMAIN ss)
    BY <2>1, PieceAt
  <2> QED
    BY <1>1, <2>2
<1>4. CASE m = 0
  <2>1. Len(s) = 0
    <3>1. Len(s) + n - 1 < n * m + n
      BY <1>1, <1>2, DivBounds
    <3> QED
      BY <1>2, <1>4, <3>1
  <2>2. ss = <<>> /\ s = <<>>
    <3>1. ss \in Seq(Seq(X))
      BY PiecesType
    <3> HIDE DEF ss
    <3> QED
      BY <1>4, <2>1, <3>1
  <2> QED
    BY <2>2, FlattenEmpty
<1>5. CASE m # 0
  <2>1. PICK f : IsFlatten(f, ss) /\ FlattenSeq(ss) = f[m]
    BY <1>1, <1>5, FlattenDef
  <2> HIDE DEF ss, m, off
  <2> DEFINE S == {k \in Nat : k \in 1..m => IsStart(X, f[k], s, off(k) + Len(ss[k]))}
  <2>2. 0 \in S
    OBVIOUS
  <2>3. ASSUME NEW k \in Nat, k \in S, k + 1 \in 1..m
        PROVE  IsStart(X, f[k + 1], s, off(k + 1) + Len(ss[k + 1]))
    <3>1. f[k + 1] = IF k + 1 = 1 THEN ss[k + 1] ELSE f[(k + 1) - 1] \o ss[k + 1]
      BY <2>1, <2>3 DEF IsFlatten, m
    <3>2. /\ off(k + 1) \in Nat
          /\ ss[k + 1] \in Seq(X)
          /\ \A i \in 1..Len(ss[k + 1]) : ss[k + 1][i] = s[off(k + 1) + i]
      BY <1>3, <2>3 DEF IsPieceAt
    <3>3. Len(ss[k + 1]) \in Nat
      BY <3>2
    <3>4. CASE k = 0
      <4>1. off(k + 1) = 0
        BY <3>4 DEF off
      <4>2. f[k + 1] = ss[k + 1]
        BY <3>1, <3>4
      <4>3. \A i \in 1..Len(ss[k + 1]) : off(k + 1) + i = i
        BY <3>3, <4>1
      <4>4. off(k + 1) + Len(ss[k + 1]) = Len(ss[k + 1])
        BY <3>3, <4>1
      <4> QED
        BY <3>2, <4>2, <4>3, <4>4 DEF IsStart
    <3>5. CASE k # 0
      <4>1. k \in 1..m /\ (k + 1) - 1 = k /\ k + 1 # 1
        BY <1>1, <2>3, <3>5
      <4>2. off(k) + n < Len(s) /\ n * k = off(k) + n /\ off(k) \in Nat
        BY <1>3, <2>3, <4>1 DEF IsPieceAt
      <4>3. Len(ss[k]) = n
        BY <1>2, <1>3, <4>1, <4>2 DEF IsPieceAt
      <4>4. off(k + 1) = off(k) + Len(ss[k])
        <5>1. off(k + 1) = n * k
          BY <4>1 DEF off
        <5> QED
          BY <4>2, <4>3, <5>1
      <4>5. IsStart(X, f[k], s, off(k + 1))
        BY <2>3, <4>1, <4>4
      <4>6. f[k + 1] = f[k] \o ss[k + 1]
        BY <3>1, <4>1
      <4>7. IsStart(X, f[k] \o ss[k + 1], s, off(k + 1) + Len(ss[k + 1]))
        <5>1. f[k] \in Seq(X)
          BY <4>5 DEF IsStart
        <5> QED
          BY <3>2, <4>5, <5>1, PrefixGrows
      <4> QED
        BY <4>6, <4>7
    <3> QED
      BY <3>4, <3>5
  <2>4. m \in S
    <3>1. ASSUME NEW k \in Nat, k \in S PROVE k + 1 \in S
      <4>1. k + 1 \in 1..m => IsStart(X, f[k + 1], s, off(k + 1) + Len(ss[k + 1]))
        BY <2>3, <3>1
      <4> QED
        BY <4>1
    <3> HIDE DEF S
    <3>2. Nat \subseteq S
      BY <2>2, <3>1, Induction
    <3> QED
      BY <1>1, <3>2
  <2>5. m \in 1..m /\ m + 1 \notin 1..m
    BY <1>1, <1>5
  <2>6. off(m) + Len(ss[m]) = Len(s)
    <3>1. /\ off(m) \in Nat /\ ~(off(m) + n < Len(s))
          /\ Len(ss[m]) = IF off(m) + n <= Len(s) THEN n ELSE Len(s) - off(m)
      BY <1>3, <2>5 DEF IsPieceAt
    <3> QED
      BY <1>2, <3>1
  <2>7. IsStart(X, f[m], s, Len(s))
    BY <2>4, <2>5, <2>6
  <2>8. f[m] = s
    BY <2>7, SameSequence DEF IsStart
  <2> QED
    BY <2>1, <2>8 DEF ss
<1> QED
  BY <1>4, <1>5

\* Bodies of messages that are built.
IsBody(body) ==
  body.kind \in {"empty", "string", "file", "form"} /\ IsSeq(body.data)

\* What is written of a body is a sequence.
LEMMA ContentIsSeq ==
  ASSUME NEW body, IsBody(body)
  PROVE  /\ IsSeq(FlattenSeq(Payloads(body)))
         /\ body.kind = "empty" => FlattenSeq(Payloads(body)) = <<>>
<1>1. PICK X : body.data \in Seq(X)
  BY DEF IsBody, IsSeq
<1>2. CASE body.kind = "empty"
  <2>1. Payloads(body) = <<>>
    BY <1>2 DEF Payloads
  <2>2. <<>> \in Seq({})
    OBVIOUS
  <2> QED
    BY <2>1, <2>2, FlattenEmpty DEF IsSeq
<1>3. CASE body.kind \in {"string", "form"}
  <2>1. Payloads(body) = <<body.data>>
    BY <1>3 DEF Payloads
  <2>2. FlattenSeq(<<body.data>>) = body.data
    BY FlattenOne
  <2> QED
    BY <1>1, <1>3, <2>1, <2>2 DEF IsSeq
<1>4. CASE body.kind = "file"
  <2>1. Payloads(body) = pieces(body.data, ChunkSize)
    BY <1>4 DEF Payloads
  <2>2. pieces(body.data, ChunkSize) \in Seq(Seq(X))
    BY <1>1, PiecesType, MessageAssumption
  <2>3. FlattenSeq(pieces(body.data, ChunkSize)) \in Seq(X)
    BY <2>2, FlattenType
  <2> QED
    BY <1>4, <2>1, <2>3 DEF IsSeq
<1> QED
  BY <1>2, <1>3, <1>4 DEF IsBody

-----------------------------------------------------------------------------
(* Messages that the builders make *)

\* What Body(), File(), MediaType(), Charset() and Header() leave in a builder.
IsBuilder(b) ==
  /\ {"body", "media_type", "charset", "headers", "gzip"} \subseteq DOMAIN b
  /\ b.body.kind \in {"none", "string", "file"} /\ ~b.body.compressed
  /\ IsSeq(b.body.data) /\ IsSeq(b.headers) /\ IsSeq(b.media_type) /\ IsSeq(b.charset)

IsRequestBuilder(b) == IsBuilder(b) /\ "form_parts" \in DOMAIN b /\ IsSeq(b.form_parts)

\* A message has headers and a body, and says how long the body is unless it is empty.
IsMessage(m) ==
  /\ {"body", "headers", "start_line"} \subseteq DOMAIN m
  /\ IsHeaders(m.headers) /\ IsBody(m.body)
  /\ m.body.kind # "empty" => HasHeader(m.headers, "Content-Length")

\* SetContentType() keeps what headers are.
LEMMA ContentTypeKeeps ==
  ASSUME NEW h, IsHeaders(h), NEW media_type, NEW charset
  PROVE  LET u == SetContentType(h, media_type, charset)
         IN  IsHeaders(u) /\ \A k : HasHeader(h, k) => HasHeader(u, k)
BY SetKeeps DEF SetContentType

\* So does what is set for a body.
LEMMA BodyHeadersKeep ==
  ASSUME NEW h, IsHeaders(h), NEW b, NEW compress
  PROVE  IsHeaders(BodyHeaders(h, b, compress))
<1>1. IsHeaders(SetContentType(h, b.media_type, b.charset))
  BY ContentTypeKeeps
<1>2. IsHeaders(SetHeader(SetContentType(h, b.media_type, b.charset), "Content-Encoding", <<"gzip">>))
  BY <1>1, SetKeeps
<1> QED
  BY <1>1, <1>2 DEF BodyHeaders

\* SetBody() makes a message of headers.
LEMMA SetBodyMakes ==
  ASSUME NEW m, {"body", "headers", "start_line"} \subseteq DOMAIN m, IsHeaders(m.headers),
         NEW body, IsBody(body)
  PROVE  /\ IsMessage(SetBody(m, body))
         /\ HasHeader(SetBody(m, body).headers, "Content-Length")
<1> DEFINE r == SetBody(m, body)
           h == SetHeader(m.headers, "Content-Length", <<ToString(GetSize(body))>>)
<1>1. r.body = body /\ r.headers = h /\ DOMAIN r = DOMAIN m
  BY DEF SetBody
<1>2. <<ToString(GetSize(body))>> # <<>>
  OBVIOUS
<1>3. IsHeaders(h) /\ HasHeader(h, "Content-Length")
  BY <1>2, SetKeeps
<1> HIDE DEF r, h
<1>4. IsMessage(r) /\ HasHeader(r.headers, "Content-Length")
  BY <1>1, <1>3 DEF IsMessage
<1> QED
  BY <1>4 DEF r

\* The body of a builder, compressed if that is possible.
LEMMA BuilderBody ==
  ASSUME NEW b, IsBuilder(b), b.body.kind # "none", NEW compress,
         compress => CanCompressBody(b.body)
  PROVE  IsBody(IF compress THEN CompressBody(b.body) ELSE b.body)
<1>1. CASE ~compress
  BY <1>1 DEF IsBuilder, IsBody
<1>2. CASE compress
  <2> DEFINE data == b.body.data
  <2>1. CanCompress(data) /\ Len(data) > kGzipThreshold /\ ~b.body.compressed
    BY <1>2 DEF CanCompressBody, IsBuilder
  <2>2. PICK X : data \in Seq(X)
    BY DEF IsBuilder, IsSeq
  <2>3. data # <<>>
    BY <2>1, <2>2, MessageAssumption
  <2>4. Len(data) \div 2 > 0
    BY <2>1, <2>3 DEF CanCompress
  <2>5. Compress(data) = Deflated(data)
    BY <2>2, <2>3, <2>4, CompressTakesAll
  <2>6. Deflated(data) \in Seq({"gz", data})
    BY DEF Deflated
  <2>7. CompressBody(b.body) = StringBody(Compress(data), TRUE)
    BY <2>1 DEF CompressBody
  <2>8. IsBody(StringBody(Deflated(data), TRUE))
    BY <2>6 DEF IsBody, StringBody, IsSeq
  <2> QED
    BY <1>2, <2>5, <2>7, <2>8
<1> QED
  BY <1>1, <1>2

\* What the request builder builds is a message.
LEMMA BuiltMessage ==
  ASSUME NEW b, IsBuilder(b), IsSeq(b.form_parts)
  PROVE  IsMessage(Built(b))
<1> DEFINE given == SetAll(b.headers)
           headers == IF b.keep_alive THEN given ELSE SetHeader(given, "Connection", <<"Close">>)
           compress == b.gzip /\ CanCompressBody(b.body)
           empty == [outcome |-> "built", method |-> b.method, url |-> b.url,
                     start_line |-> <<>>, headers |-> headers, body |-> EmptyBody]
<1>1. IsHeaders(given)
  BY NoHeaders, SetFieldsKeeps DEF SetAll, IsBuilder
<1>2. IsHeaders(headers)
  BY <1>1, SetKeeps
<1> HIDE DEF headers, given
<1>3. /\ {"body", "headers", "start_line"} \subseteq DOMAIN empty
      /\ empty.headers = headers /\ empty.body = EmptyBody
  OBVIOUS
<1>4. IsBody(EmptyBody)
  <2>1. <<>> \in Seq({})
    OBVIOUS
  <2> QED
    BY <2>1 DEF IsBody, EmptyBody, IsSeq
<1>5. IsMessage(empty)
  BY <1>2, <1>3, <1>4 DEF IsMessage, EmptyBody
<1> HIDE DEF empty
<1>6. CASE b.body.kind # "none"
  <2> DEFINE e == [empty EXCEPT !.headers = BodyHeaders(@, b, compress)]
             body == IF compress THEN CompressBody(b.body) ELSE b.body
  <2>1. IsHeaders(BodyHeaders(headers, b, compress))
    BY <1>2, BodyHeadersKeep
  <2>2. {"body", "headers", "start_line"} \subseteq DOMAIN e /\ IsHeaders(e.headers)
    BY <1>3, <2>1
  <2>3. IsBody(body)
    BY <1>6, BuilderBody
  <2> HIDE DEF e, body
  <2>4. IsMessage(SetBody(e, body))
    BY <2>2, <2>3, SetBodyMakes
  <2>5. Built(b) = SetBody(e, body)
    BY <1>6 DEF Built, e, body, empty, headers, given
  <2> QED
    BY <2>4, <2>5
<1>7. CASE b.body.kind = "none" /\ b.form_parts # <<>>
  <2> DEFINE type == <<"multipart/form-data", ";", "boundary", "=", "30 chars">>
             e == [empty EXCEPT !.headers = SetHeader(@, "Content-Type", type)]
             body == FormBody(b.form_parts)
  <2>1. IsHeaders(SetHeader(headers, "Content-Type", type))
    BY <1>2, SetKeeps
  <2>2. {"body", "headers", "start_line"} \subseteq DOMAIN e /\ IsHeaders(e.headers)
    BY <1>3, <2>1
  <2>3. IsBody(body)
    BY DEF IsBody, FormBody
  <2>4. Built(b) = SetBody(e, body)
    BY <1>7 DEF Built, empty, headers, given
  <2> HIDE DEF e, body
  <2>5. IsMessage(SetBody(e, body))
    BY <2>2, <2>3, SetBodyMakes
  <2> QED
    BY <2>4, <2>5
<1>8. CASE b.body.kind = "none" /\ b.form_parts = <<>>
  <2>1. Built(b) = empty
    BY <1>8 DEF Built, empty, headers, given
  <2> QED
    BY <1>5, <2>1
<1> QED
  BY <1>6, <1>7, <1>8

\* So is what the response builder builds, and it always has a length.
LEMMA BuiltAnswer ==
  ASSUME NEW a, IsBuilder(a), NEW known \in BOOLEAN, NEW request_headers
  PROVE  LET r == BuiltResponse(a, known, request_headers)
         IN  IsMessage(r) /\ HasHeader(r.headers, "Content-Length")
<1> DEFINE compress == a.gzip /\ known /\ AcceptEncodingGzip(request_headers) /\ CanCompressBody(a.body)
           headers == SetAll(a.headers)
           empty == [outcome |-> "built", status |-> a.code, start_line |-> <<>>,
                     headers |-> headers, body |-> EmptyBody]
<1>1. IsHeaders(headers)
  BY NoHeaders, SetFieldsKeeps DEF SetAll, IsBuilder
<1> HIDE DEF headers
<1>2. {"body", "headers", "start_line"} \subseteq DOMAIN empty /\ empty.headers = headers
  OBVIOUS
<1>3. IsBody(EmptyBody)
  <2>1. <<>> \in Seq({})
    OBVIOUS
  <2> QED
    BY <2>1 DEF IsBody, EmptyBody, IsSeq
<1> HIDE DEF empty
<1>4. CASE a.body.kind = "none"
  <2>1. BuiltResponse(a, known, request_headers) = SetBody(empty, EmptyBody)
    BY <1>4 DEF BuiltResponse, empty, headers
  <2> QED
    BY <1>1, <1>2, <1>3, <2>1, SetBodyMakes
<1>5. CASE a.body.kind # "none"
  <2> DEFINE e == [empty EXCEPT !.headers = BodyHeaders(@, a, compress)]
             body == IF compress THEN CompressBody(a.body) ELSE a.body
  <2>1. IsHeaders(BodyHeaders(headers, a, compress))
    BY <1>1, BodyHeadersKeep
  <2>2. {"body", "headers", "start_line"} \subseteq DOMAIN e /\ IsHeaders(e.headers)
    BY <1>2, <2>1
  <2>3. IsBody(body)
    BY <1>5, BuilderBody
  <2>4. BuiltResponse(a, known, request_headers) = SetBody(e, body)
    BY <1>5 DEF BuiltResponse, empty, headers
  <2> HIDE DEF e, body
  <2> QED
    BY <2>2, <2>3, <2>4, SetBodyMakes
<1> QED
  BY <1>4, <1>5

-----------------------------------------------------------------------------
(* Messages that are sent, and what is made of them *)

\* What sessions have.
IsSession(s) == IsSeq(s.headers) /\ IsSeq(s.media_type) /\ IsSeq(s.charset)

\* The defaults of a session keep a message.
LEMMA DefaultsKeep ==
  ASSUME NEW s, IsSession(s), NEW r, IsMessage(r)
  PROVE  IsMessage(WithDefaults(s, r))
<1> DEFINE headers == SetFields(r.headers, s.headers, TRUE)
           typed == IF GetSize(r.body) # 0 /\ s.media_type # <<>> /\ ~HasHeader(headers, "Content-Type")
                    THEN SetContentType(headers, s.media_type, s.charset) ELSE headers
           w == WithDefaults(s, r)
<1>1. IsHeaders(headers) /\ \A k : HasHeader(r.headers, k) => HasHeader(headers, k)
  BY SetFieldsKeeps DEF IsMessage, IsSession
<1> HIDE DEF headers
<1>2. IsHeaders(typed) /\ \A k : HasHeader(r.headers, k) => HasHeader(typed, k)
  BY <1>1, ContentTypeKeeps
<1>3. w = [r EXCEPT !.headers = typed]
  BY DEF WithDefaults, headers
<1> HIDE DEF typed, w
<1>4. w.headers = typed /\ w.body = r.body /\ DOMAIN w = DOMAIN r
  BY <1>3 DEF IsMessage
<1>5. IsMessage(w)
  BY <1>2, <1>4 DEF IsMessage
<1> QED
  BY <1>5 DEF w

\* So does Prepare().
LEMMA PrepareKeeps ==
  ASSUME NEW r, IsMessage(r)
  PROVE  IsMessage(PrepareRequest(r))
<1> DEFINE host == r.url.host \o (IF r.url.port = <<>> THEN <<>> ELSE <<Colon>> \o r.url.port)
           h == SetHeader(r.headers, "Host", <<host>>)
           w == PrepareRequest(r)
<1>1. w.headers = h /\ w.body = r.body /\ DOMAIN w = DOMAIN r
  BY DEF PrepareRequest, IsMessage
<1>2. IsHeaders(h) /\ \A k : HasHeader(r.headers, k) => HasHeader(h, k)
  <2>1. IsHeaders(r.headers)
    BY DEF IsMessage
  <2> HIDE DEF host
  <2> QED
    BY <2>1, SetKeeps
<1> HIDE DEF h, w
<1>3. IsMessage(w)
  BY <1>1, <1>2 DEF IsMessage
<1> QED
  BY <1>3 DEF w

\* What SendResponse() says of the connection is what a client will understand.
LEMMA SendSays ==
  ASSUME NEW r, IsMessage(r), HasHeader(r.headers, "Content-Length"), NEW keep \in BOOLEAN
  PROVE  LET w == SendResponse(r, keep)
         IN  /\ IsMessage(w) /\ HasHeader(w.headers, "Content-Length")
             /\ IsConnectionKeepAlive(w.headers) <=> keep
<1> DEFINE says == IF keep THEN <<"Keep-Alive">> ELSE <<"Close">>
           h == SetHeader(r.headers, "Connection", says)
           u == SetHeader(h, "Server", <<"Webcc">>)
           w == SendResponse(r, keep)
<1>1. w.headers = u /\ w.body = r.body /\ DOMAIN w = DOMAIN r
  BY DEF SendResponse, PrepareResponse, IsMessage
<1>2. says # <<>>
  OBVIOUS
<1> HIDE DEF says
<1>3. /\ IsHeaders(h) /\ \A k : HasHeader(r.headers, k) => HasHeader(h, k)
      /\ HasHeader(h, "Connection") /\ GetHeader(h, "Connection") = says
  BY <1>2, SetKeeps DEF IsMessage
<1> HIDE DEF h
<1>4. IsHeaders(u) /\ \A k : HasHeader(h, k) => HasHeader(u, k)
  BY <1>3, SetKeeps
<1>5. GetHeader(u, "Connection") = says
  <2>1. Upper("Connection") # Upper("Server")
    BY ExchangeAssumption DEF iequals
  <2>2. GetHeader(u, "Connection") = GetHeader(h, "Connection")
    BY <1>3, <2>1, SetKeeps
  <2> QED
    BY <1>3, <2>2
<1>6. HasHeader(u, "Connection")
  BY <1>3, <1>4
<1> HIDE DEF u, w
<1>7. IsConnectionKeepAlive(u) <=> keep
  <2>1. IsConnectionKeepAlive(u) <=> Len(says) = 1 /\ iequals(says[1], "Keep-Alive")
    BY <1>5, <1>6 DEF IsConnectionKeepAlive
  <2>2. CASE keep
    BY <2>1, <2>2 DEF says, iequals
  <2>3. CASE ~keep
    <3>1. says[1] = "Close"
      BY <2>3 DEF says
    <3> QED
      BY <2>1, <2>3, <3>1, ExchangeAssumption DEF iequals
  <2> QED
    BY <2>2, <2>3
<1>8. IsMessage(w) /\ HasHeader(w.headers, "Content-Length")
  BY <1>1, <1>3, <1>4 DEF IsMessage
<1> QED
  BY <1>1, <1>7, <1>8 DEF w

\* A parser finds the headers of a message as they were, and leaves nothing unread
\* unless it is told to ignore the body.
LEMMA ReceivedMessage ==
  ASSUME NEW m, IsMessage(m), NEW is_request \in BOOLEAN, NEW stream \in BOOLEAN,
         NEW ignore_body \in BOOLEAN
  PROVE  /\ Received(Written(m), is_request, stream, ignore_body).headers = m.headers
         /\ ignore_body = FALSE =>
              Received(Written(m), is_request, stream, ignore_body).unread = 0
<1> DEFINE w == Written(m)
           content == IF ~ignore_body /\ HasHeader(ReceivedHeaders(w), "Content-Length")
                      THEN w.content ELSE <<>>
           parsed == Received(w, is_request, stream, ignore_body)
<1>1. w.headers = m.headers /\ w.content = FlattenSeq(Payloads(m.body))
  BY DEF Written
<1>2. ReceivedHeaders(w) = m.headers
  BY <1>1, ReceivedAsWritten DEF ReceivedHeaders, IsMessage
<1>3. parsed.headers = ReceivedHeaders(w) /\ parsed.unread = Len(w.content) - Len(content)
  BY DEF Received
<1>4. PICK X : w.content \in Seq(X)
  BY <1>1, ContentIsSeq DEF IsMessage, IsSeq
<1>5. Len(w.content) \in Nat
  BY <1>4
<1>6. ASSUME ~ignore_body PROVE Len(w.content) - Len(content) = 0
  <2>1. CASE HasHeader(m.headers, "Content-Length")
    <3>1. content = w.content
      BY <1>2, <1>6, <2>1
    <3> HIDE DEF content, w
    <3> QED
      BY <1>5, <3>1
  <2>2. CASE ~HasHeader(m.headers, "Content-Length")
    <3>1. m.body.kind = "empty"
      BY <2>2 DEF IsMessage
    <3>2. w.content = <<>>
      BY <1>1, <3>1, ContentIsSeq DEF IsMessage
    <3>3. content = <<>>
      BY <1>2, <2>2
    <3> HIDE DEF content, w
    <3> QED
      BY <3>2, <3>3
  <2> QED
    BY <2>1, <2>2
<1> HIDE DEF content, w, parsed
<1> QED
  BY <1>2, <1>3, <1>6 DEF w, parsed

-----------------------------------------------------------------------------
(* Base64 *)

\* A sextet is found again from its character, which is not the padding.
LEMMA AlphabetInverted ==
  ASSUME NEW i \in 0..63
  PROVE  kInverse(kAlphabet(i)) = i /\ kAlphabet(i) \in Nat
<1>1. CASE i < 26
  <2>1. kAlphabet(i) = 65 + i
    BY <1>1 DEF kAlphabet
  <2> QED
    BY <1>1, <2>1 DEF kInverse
<1>2. CASE i \in 26..51
  <2>1. kAlphabet(i) = 97 + (i - 26)
    BY <1>2 DEF kAlphabet
  <2> QED
    BY <1>2, <2>1 DEF kInverse
<1>3. CASE i \in 52..61
  <2>1. kAlphabet(i) = 48 + (i - 52)
    BY <1>3 DEF kAlphabet
  <2> QED
    BY <1>3, <2>1 DEF kInverse
<1>4. CASE i = 62
  BY <1>4 DEF kInverse, kAlphabet
<1>5. CASE i = 63
  BY <1>5 DEF kInverse, kAlphabet
<1> QED
  BY <1>1, <1>2, <1>3, <1>4, <1>5

\* Three bytes as four sextets, and back.
Sextets(a, b, c) ==
  <<a \div 4, (a % 4) * 16 + b \div 16, (b % 16) * 4 + c \div 64, c % 64>>

AreSextets(a, b, c, q) ==
  /\ q[1] \in 0..63 /\ q[2] \in 0..63 /\ q[3] \in 0..63 /\ q[4] \in 0..63
  /\ (q[1] * 4 + q[2] \div 16) % 256 = a
  /\ (q[2] % 16) * 16 + q[3] \div 4 = b
  /\ (q[3] % 4) * 64 + q[4] = c

\* The bytes come back, whatever they are.
LEMMA BytesFromSextets ==
  ASSUME NEW a \in 0..255, NEW b \in 0..255, NEW c \in 0..255
  PROVE  AreSextets(a, b, c, Sextets(a, b, c))
<1> DEFINE qa == a \div 4 ra == a % 4 qb == b \div 16 rb == b % 16 qc == c \div 64 rc == c % 64
<1>1. qa \in 0..63 /\ ra \in 0..3 /\ a = qa * 4 + ra
  OBVIOUS
<1>2. qb \in 0..15 /\ rb \in 0..15 /\ b = qb * 16 + rb
  OBVIOUS
<1>3. qc \in 0..3 /\ rc \in 0..63 /\ c = qc * 64 + rc
  OBVIOUS
<1>4. Sextets(a, b, c) = <<qa, ra * 16 + qb, rb * 4 + qc, rc>>
  BY DEF Sextets
<1> HIDE DEF qa, ra, qb, rb, qc, rc
<1>5. ra * 16 + qb \in 0..63 /\ (ra * 16 + qb) \div 16 = ra /\ (ra * 16 + qb) % 16 = qb
  BY <1>1, <1>2
<1>6. rb * 4 + qc \in 0..63 /\ (rb * 4 + qc) \div 4 = rb /\ (rb * 4 + qc) % 4 = qc
  BY <1>2, <1>3
<1>7. (qa * 4 + ra) % 256 = a
  BY <1>1
<1> DEFINE q2 == ra * 16 + qb
           q3 == rb * 4 + qc
           q == <<qa, q2, q3, rc>>
<1> HIDE DEF q2, q3
<1>8. q[1] = qa /\ q[2] = q2 /\ q[3] = q3 /\ q[4] = rc
  OBVIOUS
<1>9. qa \in 0..63 /\ q2 \in 0..63 /\ q3 \in 0..63 /\ rc \in 0..63
  BY <1>1, <1>3, <1>5, <1>6 DEF q2, q3
<1>10. (qa * 4 + q2 \div 16) % 256 = a
  BY <1>5, <1>7 DEF q2
<1>11. (q2 % 16) * 16 + q3 \div 4 = b
  BY <1>2, <1>5, <1>6 DEF q2, q3
<1>12. (q3 % 4) * 64 + rc = c
  BY <1>3, <1>6 DEF q3
<1>13. AreSextets(a, b, c, q)
  <2> HIDE DEF q
  <2> QED
    BY <1>8, <1>9, <1>10, <1>11, <1>12 DEF AreSextets
<1> QED
  BY <1>4, <1>13 DEF q2, q3

\* Bytes, and what a character of the alphabet stands for.
Octet == 0..255
Sextet == 0..63

\* Four characters that stand for a group of bytes.
IsGroup(g, e) ==
  /\ e \in Seq(Nat) /\ Len(e) = 4
  /\ \A i \in 1..4 : IF i <= Len(g) + 1 THEN kInverse(e[i]) \in 0..63 ELSE kInverse(e[i]) = -1
  /\ \A c4 \in Seq(Sextet) :
       Len(c4) = Len(g) + 1 /\ (\A i \in 1..Len(c4) : c4[i] = kInverse(e[i])) => DecodeGroup(c4) = g

\* What a group of one to three bytes is encoded as.
LEMMA GroupEncoded ==
  ASSUME NEW g \in Seq(Octet), Len(g) \in 1..3
  PROVE  IsGroup(g, EncodeGroup(g))
<1> DEFINE B(i) == IF i <= Len(g) THEN g[i] ELSE 0
           a == B(1)
           b == B(2)
           c == B(3)
           q == Sextets(a, b, c)
           e == [i \in 1..4 |-> IF i <= Len(g) + 1 THEN kAlphabet(q[i]) ELSE Pad]
<1>1. EncodeGroup(g) = e
  BY DEF EncodeGroup, Sextets
<1>2. a \in Octet /\ b \in Octet /\ c \in Octet
  <2>1. \A i \in 1..Len(g) : g[i] \in Octet
    OBVIOUS
  <2>2. 0 \in Octet
    BY DEF Octet
  <2> QED
    BY <2>1, <2>2
<1>3. g[1] = a /\ (Len(g) >= 2 => g[2] = b) /\ (Len(g) = 3 => g[3] = c)
  OBVIOUS
<1>l. PICK l \in {1, 2, 3} : Len(g) = l
  OBVIOUS
<1> HIDE DEF a, b, c
<1>4. /\ \A i \in 1..4 : q[i] \in 0..63
      /\ (q[1] * 4 + q[2] \div 16) % 256 = a
      /\ (q[2] % 16) * 16 + q[3] \div 4 = b
      /\ (q[3] % 4) * 64 + q[4] = c
  <2>1. AreSextets(a, b, c, q)
    BY <1>2, BytesFromSextets DEF Octet
  <2>2. \A i \in 1..4 : i = 1 \/ i = 2 \/ i = 3 \/ i = 4
    OBVIOUS
  <2> HIDE DEF q
  <2> QED
    BY <2>1, <2>2 DEF AreSextets
<1> HIDE DEF q
<1>5. \A i \in 1..4 : kInverse(kAlphabet(q[i])) = q[i] /\ kAlphabet(q[i]) \in Nat
  BY <1>4, AlphabetInverted
<1>6. kInverse(Pad) = -1 /\ Pad \in Nat
  BY DEF kInverse, Pad
<1>7. e \in Seq(Nat) /\ Len(e) = 4
  <2>1. \A i \in 1..4 : e[i] \in Nat
    BY <1>5, <1>6
  <2>2. e = [i \in 1..4 |-> e[i]]
    OBVIOUS
  <2> HIDE DEF e
  <2> QED
    BY <2>1, <2>2
<1>8. \A i \in 1..4 : kInverse(e[i]) = IF i <= Len(g) + 1 THEN q[i] ELSE -1
  BY <1>5, <1>6
<1> HIDE DEF e
<1>9. ASSUME NEW c4 \in Seq(Sextet), Len(c4) = Len(g) + 1,
             \A i \in 1..Len(c4) : c4[i] = kInverse(e[i])
      PROVE  DecodeGroup(c4) = g
  <2> DEFINE C(i) == IF i <= Len(c4) THEN c4[i] ELSE 0
             d1 == (C(1) * 4 + C(2) \div 16) % 256
             d2 == (C(2) % 16) * 16 + C(3) \div 4
             d3 == (C(3) % 4) * 64 + C(4)
             d == <<d1, d2, d3>>
  <2>1. DecodeGroup(c4) = SubSeq(d, 1, l)
    <3>1. Len(c4) - 1 = l
      BY <1>l, <1>9
    <3> QED
      BY <3>1 DEF DecodeGroup
  <2>2. ASSUME NEW i \in 1..4, i <= l + 1 PROVE C(i) = q[i]
    <3>1. i \in 1..Len(c4) /\ i <= Len(c4) /\ i <= Len(g) + 1
      BY <1>l, <1>9, <2>2
    <3> QED
      BY <1>8, <1>9, <3>1
  <2> HIDE DEF C
  <2>3. C(1) = q[1] /\ C(2) = q[2]
    BY <2>2
  <2>4. (l >= 2 => C(3) = q[3]) /\ (l = 3 => C(4) = q[4])
    BY <2>2
  <2>5. d1 = g[1]
    BY <1>3, <1>4, <2>3
  <2>6. l >= 2 => d2 = g[2]
    BY <1>3, <1>4, <1>l, <2>3, <2>4
  <2>7. l = 3 => d3 = g[3]
    BY <1>3, <1>4, <1>l, <2>3, <2>4
  <2> HIDE DEF d1, d2, d3
  <2>8. d \in Seq({d1, d2, d3}) /\ Len(d) = 3 /\ d[1] = d1 /\ d[2] = d2 /\ d[3] = d3
    OBVIOUS
  <2> HIDE DEF d
  <2>9. SubSeq(d, 1, l) = g
    <3> DEFINE t == SubSeq(d, 1, l)
    <3>1. t \in Seq({d1, d2, d3}) /\ Len(t) = l /\ \A i \in 1..l : t[i] = d[i]
      BY <2>8
    <3>2. \A i \in 1..l : d[i] = g[i]
      <4>1. \A i \in 1..l : i = 1 \/ (i = 2 /\ l >= 2) \/ (i = 3 /\ l = 3)
        OBVIOUS
      <4> QED
        BY <2>5, <2>6, <2>7, <2>8, <4>1
    <3> HIDE DEF t
    <3>3. \A i \in 1..l : t[i] = g[i]
      BY <3>1, <3>2
    <3>4. t = g
      BY <1>l, <3>1, <3>3
    <3> QED
      BY <3>4 DEF t
  <2> QED
    BY <2>1, <2>9
<1> QED
  BY <1>1, <1>4, <1>7, <1>8, <1>9 DEF IsGroup

\* The group and the place in it.
LEMMA InGroup ==
  ASSUME NEW a \in Nat, NEW b \in 0..3
  PROVE  (4 * a + b) \div 4 = a /\ (4 * a + b) % 4 = b
OBVIOUS

\* Every number is in one.
LEMMA GroupOf ==
  ASSUME NEW c \in Nat
  PROVE  \E a \in Nat, b \in 0..3 : c = 4 * a + b
<1>1. c \div 4 \in Nat /\ c % 4 \in 0..3 /\ c = 4 * (c \div 4) + (c % 4)
  OBVIOUS
<1> QED
  BY <1>1

\* A function of the first n numbers is a sequence.
LEMMA Tabulated ==
  ASSUME NEW X, NEW n \in Nat, NEW e, e = [j \in 1..n |-> e[j]], \A j \in 1..n : e[j] \in X
  PROVE  e \in Seq(X) /\ Len(e) = n
OBVIOUS

\* e is made of m groups of four, ss.
AreGroups(X, m, ss, e) ==
  /\ e \in Seq(X) /\ Len(e) = 4 * m
  /\ \A k \in 1..m : \A i \in 1..4 : e[4 * (k - 1) + i] = ss[k][i]

\* Groups of four characters, one after the other.
LEMMA GroupsJoined ==
  ASSUME NEW X, NEW m \in Nat, NEW ss \in Seq(Seq(X)), Len(ss) = m,
         \A k \in 1..m : Len(ss[k]) = 4
  PROVE  AreGroups(X, m, ss, FlattenSeq(ss))
<1> DEFINE e == [j \in 1..(4 * m) |-> ss[(j - 1) \div 4 + 1][((j - 1) % 4) + 1]]
<1>1. ASSUME NEW j \in 1..(4 * m)
      PROVE  (j - 1) \div 4 + 1 \in 1..m /\ ((j - 1) % 4) + 1 \in 1..4
  OBVIOUS
<1>2. \A k \in 1..m : \A i \in 1..4 : ss[k] \in Seq(X) /\ ss[k][i] \in X
  <2>1. ASSUME NEW k \in 1..m, NEW i \in 1..4 PROVE ss[k] \in Seq(X) /\ ss[k][i] \in X
    <3>1. ss[k] \in Seq(X)
      OBVIOUS
    <3>2. i \in 1..Len(ss[k])
      OBVIOUS
    <3> QED
      BY <3>1, <3>2
  <2> QED
    BY <2>1
<1>3. e \in Seq(X) /\ Len(e) = 4 * m
  <2>1. \A j \in 1..(4 * m) : e[j] \in X
    BY <1>1, <1>2
  <2> DEFINE n == 4 * m
  <2>n. n \in Nat
    OBVIOUS
  <2>2. e = [j \in 1..n |-> e[j]]
    OBVIOUS
  <2> HIDE DEF e, n
  <2>3. \A j \in 1..n : e[j] \in X
    BY <2>1 DEF n
  <2>4. e \in Seq(X) /\ Len(e) = n
    BY <2>n, <2>2, <2>3, Tabulated
  <2> QED
    BY <2>4 DEF n
<1>4. ASSUME NEW k \in 1..m, NEW i \in 1..4 PROVE e[4 * (k - 1) + i] = ss[k][i]
  <2> DEFINE j == 4 * (k - 1) + i
  <2>1. j \in 1..(4 * m) /\ (j - 1) \div 4 + 1 = k /\ ((j - 1) % 4) + 1 = i
    <3>1. j \in 1..(4 * m)
      OBVIOUS
    <3>2. k - 1 \in Nat /\ i - 1 \in 0..3 /\ j - 1 = 4 * (k - 1) + (i - 1)
      OBVIOUS
    <3> HIDE DEF j
    <3>3. (j - 1) \div 4 = k - 1 /\ (j - 1) % 4 = i - 1
      <4>1. ASSUME NEW a \in Nat, NEW b \in 0..3, NEW c, c = 4 * a + b
            PROVE  c \div 4 = a /\ c % 4 = b
        BY <4>1, InGroup
      <4> QED
        BY <3>2, <4>1, Zenon
    <3> QED
      BY <3>1, <3>3
  <2> HIDE DEF j
  <2>2. e[j] = ss[k][i]
    BY <2>1
  <2> QED
    BY <2>2 DEF j
<1> HIDE DEF e
<1>5. Len(e) + 4 - 1 = 4 * m + 3 /\ (4 * m + 3) \div 4 = m
  BY <1>3
<1>6. Len(pieces(e, 4)) = m /\ DOMAIN pieces(e, 4) = 1..m /\ pieces(e, 4) \in Seq(Seq(X))
  <2>1. /\ pieces(e, 4) \in Seq(Seq(X)) /\ Len(pieces(e, 4)) = (Len(e) + 4 - 1) \div 4
        /\ DOMAIN pieces(e, 4) = 1..Len(pieces(e, 4))
    BY <1>3, PiecesType
  <2> QED
    BY <1>5, <2>1
<1>7. ASSUME NEW k \in 1..m PROVE pieces(e, 4)[k] = ss[k]
  <2> DEFINE p == pieces(e, 4)[k]
             off == 4 * (k - 1)
  <2>1. IsPieceAt(X, e, 4, k, p, off, k + 1 \in 1..m)
    <3>1. k \in DOMAIN pieces(e, 4)
      BY <1>6
    <3>2. IsPieceAt(X, e, 4, k, pieces(e, 4)[k], 4 * (k - 1), k + 1 \in DOMAIN pieces(e, 4))
      BY <1>3, <3>1, PieceAt
    <3> QED
      BY <1>6, <3>2
  <2>2. off + 4 <= 4 * m
    OBVIOUS
  <2> HIDE DEF p
  <2>3. p \in Seq(X) /\ Len(p) = 4 /\ \A i \in 1..4 : p[i] = e[off + i]
    <3>1. p \in Seq(X) /\ Len(p) = 4
      BY <1>3, <2>1, <2>2 DEF IsPieceAt
    <3> QED
      BY <2>1, <3>1 DEF IsPieceAt
  <2>4. \A i \in 1..4 : p[i] = ss[k][i]
    BY <1>4, <2>3
  <2>5. ss[k] \in Seq(X) /\ Len(ss[k]) = 4
    OBVIOUS
  <2>6. p = ss[k]
    <3> DEFINE g == ss[k]
    <3>1. g \in Seq(X) /\ Len(g) = Len(p) /\ \A i \in 1..Len(p) : p[i] = g[i]
      BY <2>3, <2>4, <2>5
    <3> HIDE DEF g
    <3>2. p = g
      BY <2>3, <3>1, SameSequence
    <3> QED
      BY <3>2 DEF g
  <2> QED
    BY <2>6 DEF p
<1>8. pieces(e, 4) = ss
  <2> DEFINE P == pieces(e, 4)
  <2>1. P \in Seq(Seq(X)) /\ Len(P) = m /\ \A k \in 1..m : P[k] = ss[k]
    BY <1>6, <1>7
  <2> HIDE DEF P
  <2>2. P = ss
    BY <2>1
  <2> QED
    BY <2>2 DEF P
<1>9. FlattenSeq(ss) = e
  <2>1. FlattenSeq(pieces(e, 4)) = e
    BY <1>3, PiecesJoined
  <2> QED
    BY <1>8, <2>1
<1>10. AreGroups(X, m, ss, e)
  BY <1>3, <1>4 DEF AreGroups
<1> QED
  BY <1>9, <1>10

\* Whatever bytes are encoded, base64::Decode() finds them again, and they fit the
\* buffer that base64::DecodedSize() has it allocate.
THEOREM Base64RoundTrip ==
  ASSUME NEW s \in Seq(Octet)
  PROVE  /\ Base64Decode(Base64Encode(s)) = s
         /\ Len(s) <= DecodedSize(Len(Base64Encode(s)))
<1> DEFINE groups == pieces(s, 3)
           m == Len(groups)
           ss == [k \in DOMAIN groups |-> EncodeGroup(groups[k])]
           e == Base64Encode(s)
<1>1. /\ m \in Nat /\ DOMAIN groups = 1..m /\ groups \in Seq(Seq(Octet)) /\ Len(s) \in Nat
      /\ m = (Len(s) + 3 - 1) \div 3
  BY PiecesType
<1>2. ASSUME NEW k \in 1..m
      PROVE  /\ groups[k] \in Seq(Octet) /\ Len(groups[k]) \in 1..3
             /\ k # m => Len(groups[k]) = 3
  <2> DEFINE p == groups[k] off == 3 * (k - 1)
  <2> HIDE DEF m
  <2>1. IsPieceAt(Octet, s, 3, k, p, off, k + 1 \in 1..m)
    <3>1. k \in DOMAIN groups
      BY <1>1
    <3>2. IsPieceAt(Octet, s, 3, k, groups[k], 3 * (k - 1), k + 1 \in DOMAIN groups)
      BY <3>1, PieceAt
    <3> QED
      BY <1>1, <3>2
  <2>2. k # m => k + 1 \in 1..m
    BY <1>1
  <2> HIDE DEF p, off
  <2>3. p \in Seq(Octet) /\ Len(p) \in 1..3 /\ (k # m => Len(p) = 3)
    BY <1>1, <2>1, <2>2 DEF IsPieceAt
  <2> QED
    BY <2>3 DEF p
<1>3. ss = [k \in 1..m |-> EncodeGroup(groups[k])]
  BY <1>1
<1> HIDE DEF groups, m, ss
<1>4. \A k \in 1..m : ss[k] = EncodeGroup(groups[k])
  BY <1>3
<1>5. \A k \in 1..m : IsGroup(groups[k], ss[k])
  BY <1>2, <1>4, GroupEncoded
<1>6. ss \in Seq(Seq(Nat)) /\ Len(ss) = m /\ \A k \in 1..m : Len(ss[k]) = 4
  <2>1. \A k \in 1..m : ss[k] \in Seq(Nat) /\ Len(ss[k]) = 4
    BY <1>5 DEF IsGroup
  <2>2. ss = [k \in 1..m |-> ss[k]]
    BY <1>3
  <2> QED
    BY <1>1, <2>1, <2>2
<1>7. /\ e \in Seq(Nat) /\ Len(e) = 4 * m
      /\ \A k \in 1..m : \A i \in 1..4 : e[4 * (k - 1) + i] = ss[k][i]
  <2>1. e = FlattenSeq(ss)
    BY DEF Base64Encode, ss, groups
  <2>2. AreGroups(Nat, m, ss, FlattenSeq(ss))
    BY <1>1, <1>6, GroupsJoined
  <2> HIDE DEF e
  <2> QED
    BY <2>1, <2>2 DEF AreGroups
<1> HIDE DEF e
<1> DEFINE r == Len(groups[m])
           p == IF m = 0 THEN 0 ELSE 4 * (m - 1) + r + 1
<1>8. m # 0 => r \in 1..3 /\ m \in 1..m
  BY <1>1, <1>2
<1> HIDE DEF r
<1>9. p \in Nat /\ p <= 4 * m /\ (p + 3) \div 4 = m
  <2>1. CASE m = 0
    BY <2>1
  <2>2. CASE m # 0
    <3>1. p + 3 = 4 * m + r
      BY <1>1, <1>8, <2>2
    <3>2. (4 * m + r) \div 4 = m
      <4>1. r \in 0..3
        BY <1>8, <2>2
      <4> QED
        BY <1>1, <4>1, InGroup
    <3>3. p \in Nat /\ p <= 4 * m
      BY <1>1, <1>8, <2>2
    <3> HIDE DEF p
    <3> QED
      BY <3>1, <3>2, <3>3
  <2> QED
    BY <2>1, <2>2
<1>10. ASSUME NEW k \in 1..m, NEW i \in 1..4
       PROVE  /\ kInverse(e[4 * (k - 1) + i]) = kInverse(ss[k][i])
              /\ i <= Len(groups[k]) + 1 => kInverse(ss[k][i]) \in 0..63
              /\ ~(i <= Len(groups[k]) + 1) => kInverse(ss[k][i]) = -1
              /\ i <= Len(groups[k]) + 1 <=> 4 * (k - 1) + i <= p
  <2>1. /\ i <= Len(groups[k]) + 1 => kInverse(ss[k][i]) \in 0..63
        /\ ~(i <= Len(groups[k]) + 1) => kInverse(ss[k][i]) = -1
    BY <1>5 DEF IsGroup
  <2>2. kInverse(e[4 * (k - 1) + i]) = kInverse(ss[k][i])
    BY <1>7
  <2>3. i <= Len(groups[k]) + 1 <=> 4 * (k - 1) + i <= p
    <3>1. m # 0 /\ p = 4 * (m - 1) + r + 1
      BY <1>1
    <3> HIDE DEF p
    <3>2. CASE k = m
      <4>1. Len(groups[k]) = r
        BY <3>2 DEF r
      <4> QED
        BY <1>1, <1>8, <3>1, <3>2, <4>1
    <3>3. CASE k # m
      <4>1. Len(groups[k]) = 3
        BY <1>2, <3>3
      <4> QED
        BY <1>1, <1>8, <3>1, <3>3, <4>1
    <3> QED
      BY <3>2, <3>3
  <2> QED
    BY <2>1, <2>2, <2>3
<1> HIDE DEF p
<1>11. ASSUME NEW j \in 1..(4 * m)
       PROVE  \E k \in 1..m, i \in 1..4 : j = 4 * (k - 1) + i
  <2>1. PICK a \in Nat, b \in 0..3 : j - 1 = 4 * a + b
    <3>1. j - 1 \in Nat
      BY <1>1
    <3> QED
      BY <3>1, GroupOf
  <2>2. a + 1 \in 1..m /\ b + 1 \in 1..4 /\ j = 4 * ((a + 1) - 1) + (b + 1)
    BY <1>1, <2>1
  <2> QED
    BY <2>2
<1>12. ASSUME NEW j \in 1..(4 * m)
       PROVE  IF j <= p THEN kInverse(e[j]) \in 0..63 ELSE kInverse(e[j]) = -1
  <2>1. PICK k \in 1..m, i \in 1..4 : j = 4 * (k - 1) + i
    BY <1>11
  <2> QED
    BY <1>10, <2>1
<1> DEFINE stops == {i \in DOMAIN e : kInverse(e[i]) = -1} \cup {Len(e) + 1}
           x == [i \in 1..p |-> kInverse(e[i])]
<1>13. Min(stops) - 1 = p
  <2>1. DOMAIN e = 1..(4 * m) /\ 4 * m \in Nat
    BY <1>1, <1>7
  <2>2. p + 1 \in stops
    <3>1. CASE p = 4 * m
      BY <1>7, <3>1
    <3>2. CASE p # 4 * m
      <4>1. p + 1 \in 1..(4 * m) /\ ~(p + 1 <= p)
        BY <1>9, <2>1, <3>2
      <4>2. kInverse(e[p + 1]) = -1
        BY <1>12, <4>1
      <4> QED
        BY <2>1, <4>1, <4>2
    <3> QED
      BY <3>1, <3>2
  <2>3. ASSUME NEW j \in stops PROVE p + 1 <= j /\ j \in Nat
    <3>1. CASE j = Len(e) + 1
      BY <1>7, <1>9, <2>1, <3>1
    <3>2. CASE j \in 1..(4 * m) /\ kInverse(e[j]) = -1
      <4>1. ~(j <= p)
        <5>1. ~(-1 \in 0..63)
          OBVIOUS
        <5>2. IF j <= p THEN kInverse(e[j]) \in 0..63 ELSE kInverse(e[j]) = -1
          BY <1>12, <3>2
        <5> QED
          BY <3>2, <5>1, <5>2
      <4> QED
        BY <1>9, <2>1, <3>2, <4>1
    <3> QED
      BY <2>1, <3>1, <3>2
  <2> HIDE DEF stops
  <2>4. Min(stops) = p + 1
    BY <1>9, <2>2, <2>3 DEF Min
  <2> QED
    BY <1>9, <2>4
<1>14. x \in Seq(Sextet) /\ Len(x) = p /\ \A i \in 1..p : x[i] = kInverse(e[i])
  <2>1. ASSUME NEW i \in 1..p PROVE kInverse(e[i]) \in Sextet
    <3>1. i \in 1..(4 * m) /\ i <= p
      BY <1>1, <1>9
    <3> QED
      BY <1>12, <3>1 DEF Sextet
  <2>2. \A i \in 1..p : x[i] \in Sextet /\ x[i] = kInverse(e[i])
    BY <2>1
  <2>3. x = [i \in 1..p |-> x[i]] /\ p \in Nat
    BY <1>9
  <2> HIDE DEF x
  <2> QED
    BY <2>2, <2>3
<1> HIDE DEF x
<1>15. DOMAIN pieces(x, 4) = 1..m
  <2>1. Len(x) + 4 - 1 = p + 3
    BY <1>9, <1>14
  <2>2. DOMAIN pieces(x, 4) = 1..((Len(x) + 4 - 1) \div 4)
    BY DEF pieces
  <2> QED
    BY <1>9, <2>1, <2>2
<1>16. ASSUME NEW k \in 1..m PROVE DecodeGroup(pieces(x, 4)[k]) = groups[k]
  <2> DEFINE c4 == pieces(x, 4)[k]
             off == 4 * (k - 1)
             g == groups[k]
  <2>1. IsPieceAt(Sextet, x, 4, k, c4, off, k + 1 \in 1..m)
    <3>1. k \in DOMAIN pieces(x, 4)
      BY <1>15
    <3>2. IsPieceAt(Sextet, x, 4, k, pieces(x, 4)[k], 4 * (k - 1), k + 1 \in DOMAIN pieces(x, 4))
      BY <1>14, <3>1, PieceAt
    <3> QED
      BY <1>15, <3>2
  <2>2. Len(g) \in 1..3
    BY <1>2
  <2>3. \A i \in 1..4 : i <= Len(g) + 1 <=> off + i <= p
    BY <1>10
  <2> HIDE DEF c4, g
  <2>4. off \in Nat /\ off < p /\ Len(c4) = IF off + 4 <= p THEN 4 ELSE p - off
    BY <1>14, <2>1 DEF IsPieceAt
  <2> HIDE DEF off
  <2>5. Len(c4) = Len(g) + 1
    <3>1. PICK l \in {1, 2, 3} : Len(g) = l
      BY <2>2
    <3>2. (3 <= l + 1 <=> off + 3 <= p) /\ (4 <= l + 1 <=> off + 4 <= p) /\ off + 2 <= p
      BY <2>3, <3>1
    <3>3. Len(c4) = l + 1
      BY <1>9, <2>4, <3>2
    <3> QED
      BY <3>1, <3>3
  <2>6. c4 \in Seq(Sextet)
    BY <2>1 DEF IsPieceAt
  <2>7. ASSUME NEW i \in 1..Len(c4) PROVE c4[i] = kInverse(ss[k][i])
    <3>1. i \in 1..4 /\ off + i \in 1..p
      BY <1>9, <2>2, <2>3, <2>4, <2>5
    <3>2. c4[i] = x[off + i]
      BY <2>1 DEF IsPieceAt
    <3>3. x[off + i] = kInverse(e[off + i])
      BY <1>14, <3>1
    <3>4. kInverse(e[off + i]) = kInverse(ss[k][i])
      BY <1>10, <3>1 DEF off
    <3> QED
      BY <3>2, <3>3, <3>4
  <2>8. IsGroup(g, ss[k])
    BY <1>5 DEF g
  <2>9. DecodeGroup(c4) = g
    BY <2>5, <2>6, <2>7, <2>8 DEF IsGroup
  <2> QED
    BY <2>9 DEF c4, g
<1>17. Base64Decode(e) = s
  <2>1. Base64Decode(e) =
          FlattenSeq([k \in DOMAIN pieces(x, 4) |-> DecodeGroup(pieces(x, 4)[k])])
    BY <1>13, Zenon DEF Base64Decode, stops, x
  <2>2. [k \in DOMAIN pieces(x, 4) |-> DecodeGroup(pieces(x, 4)[k])] = [k \in 1..m |-> groups[k]]
    BY <1>15, <1>16
  <2>3. [k \in 1..m |-> groups[k]] = groups
    BY <1>1
  <2>4. FlattenSeq(groups) = s
    BY PiecesJoined DEF groups
  <2> QED
    BY <2>1, <2>2, <2>3, <2>4
<1>18. Len(s) <= DecodedSize(Len(e))
  <2>1. (4 * m) \div 4 = m
    BY <1>1
  <2>2. Len(s) <= m * 3
    BY <1>1
  <2> QED
    BY <1>7, <2>1, <2>2 DEF DecodedSize
<1> QED
  BY <1>17, <1>18 DEF e

-----------------------------------------------------------------------------
(* Both ends agree about the connection *)

\* What there is in which phase.  ConnectionAgreed alone says nothing before the
\* response has come: the headers of both messages have to be traced from the calls
\* of the builders, and the server's end of the connection from its answer.
AgreedInv ==
  /\ IsSession(session) /\ IsBuilder(answer)
  /\ pc = "build" => IsRequestBuilder(builder)
  /\ pc \in {"built", "sent"} => IsMessage(request)
  /\ pc \in {"build", "built", "sent", "handle", "refused"} => open = {}
  /\ pc = "responded" =>
       /\ IsMessage(response) /\ HasHeader(response.headers, "Content-Length")
       /\ open \subseteq {"server"}
       /\ IsConnectionKeepAlive(response.headers) <=> "server" \in open
  /\ seen.outcome = "finished" => seen.unread = 0
  /\ ConnectionAgreed

\* Sequences that are made of others.
LEMMA SeqsMade ==
  /\ IsSeq(<<>>) /\ \A v : IsSeq(<<v>>)
  /\ \A s, v : IsSeq(s) => IsSeq(Append(s, v))
<1>1. <<>> \in Seq({}) /\ \A v : <<v>> \in Seq({v})
  OBVIOUS
<1>2. ASSUME NEW s, NEW v, IsSeq(s) PROVE IsSeq(Append(s, v))
  <2>1. PICK S : s \in Seq(S)
    BY <1>2 DEF IsSeq
  <2>2. s \in Seq(S \cup {v})
    BY <2>1, SeqMonotonic
  <2>3. Append(s, v) \in Seq(S \cup {v})
    BY <2>2
  <2> QED
    BY <2>3 DEF IsSeq
<1> QED
  BY <1>1, <1>2 DEF IsSeq

\* A call of the application leaves a builder.
LEMMA CallKeepsBuilder ==
  ASSUME IsRequestBuilder(builder), BuilderCall
  PROVE  IsRequestBuilder(builder')
<1> DEFINE b == builder
<1> USE DEF IsRequestBuilder, IsBuilder, Call
<1>1. CASE Port(<<56, 48>>)
  BY <1>1 DEF Port
<1>2. CASE \E p \in Pieces : Path(p.text, p.encode)
  BY <1>2 DEF Path
<1>3. CASE \E p \in Params : Query(p.key, p.value, p.encode)
  BY <1>3 DEF Query
<1>4. CASE MediaType(<<"application/json">>) \/ Charset(<<"utf-8">>)
  BY <1>4, SeqsMade DEF MediaType, Charset
<1>5. CASE \E data \in Bodies : Body(data)
  <2>1. PICK data \in Bodies : Body(data)
    BY <1>5
  <2>2. IsSeq(data)
    BY ExchangeAssumption DEF IsSeq
  <2> QED
    BY <2>1, <2>2 DEF Body, StringBody
<1>6. CASE File
  <2>1. IsSeq(TheFile)
    BY ExchangeAssumption DEF IsSeq
  <2> QED
    BY <1>6, <2>1, SeqsMade DEF File, FileBody
<1>7. CASE Form("part")
  BY <1>7, SeqsMade DEF Form
<1>8. CASE (\E f \in Fields : Header(f[1], f[2])) \/ Date
  <2>1. ASSUME NEW key, NEW value, Header(key, value) PROVE IsRequestBuilder(builder')
    <3> DEFINE field == <<key, value>>
    <3>1. builder' = [b EXCEPT !.headers = Append(@, field)]
      BY <2>1 DEF Header
    <3> HIDE DEF field
    <3>2. IsSeq(Append(b.headers, field))
      BY SeqsMade
    <3> QED
      BY <3>1, <3>2
  <2> QED
    BY <1>8, <2>1 DEF Date
<1>9. CASE KeepAlive(FALSE) \/ Gzip
  BY <1>9 DEF KeepAlive, Gzip
<1>10. CASE \E l \in Logins : AuthBasic(l[1], l[2])
  BY <1>10, SeqsMade DEF AuthBasic
<1> QED
  BY <1>1, <1>2, <1>3, <1>4, <1>5, <1>6, <1>7, <1>8, <1>9, <1>10 DEF BuilderCall

\* A call changes nothing but the builder and what was asked for.
LEMMA CallOnly ==
  BuilderCall => pc = "build" /\ UNCHANGED <<pc, session, request, serverVars, got, files, open>>
BY DEF BuilderCall, Call, Port, Path, Query, MediaType, Charset, Body, File, Form, Header, Date,
       KeepAlive, AuthBasic, Gzip, serverVars

\* Whatever the calls of the application, the request that is sent is a message.
LEMMA ClientAgrees ==
  AgreedInv /\ (BuilderCall \/ Build \/ Send) => AgreedInv'
<1>1. SUFFICES ASSUME AgreedInv, BuilderCall \/ Build \/ Send
               PROVE  AgreedInv'
  OBVIOUS
<1>2. CASE BuilderCall
  <2>1. IsRequestBuilder(builder')
    BY <1>1, <1>2, CallOnly, CallKeepsBuilder DEF AgreedInv
  <2>2. pc = "build" /\ UNCHANGED <<pc, session, request, answer, response, seen, got, open>>
    BY <1>2, CallOnly DEF serverVars
  <2> QED
    BY <1>1, <2>1, <2>2 DEF AgreedInv, ConnectionAgreed
<1>3. CASE Build
  <2>1. /\ pc = "build" /\ pc' = "built" /\ request' = Built(builder)
        /\ UNCHANGED <<session, answer, response, seen, got, open>>
    BY <1>3 DEF Build, serverVars
  <2>2. IsMessage(request')
    BY <1>1, <2>1, BuiltMessage DEF AgreedInv, IsRequestBuilder
  <2> QED
    BY <1>1, <2>1, <2>2 DEF AgreedInv, ConnectionAgreed
<1>4. CASE Send
  <2>1. /\ pc = "built" /\ UNCHANGED <<session, answer, response, seen, got, open>>
        /\ \/ pc' = "sent" /\ request' = PrepareRequest(WithDefaults(session, request))
           \/ pc' = "threw"
    BY <1>4 DEF Send, serverVars
  <2>2. pc' = "sent" => IsMessage(request')
    BY <1>1, <2>1, DefaultsKeep, PrepareKeeps DEF AgreedInv
  <2> QED
    BY <1>1, <2>1, <2>2 DEF AgreedInv, ConnectionAgreed
<1>5. QED
  BY <1>1, <1>2, <1>3, <1>4

\* The server reads all of the request.
LEMMA ParseAgrees ==
  ASSUME NEW stream \in BOOLEAN, AgreedInv, ParseRequest(stream)
  PROVE  AgreedInv'
<1> DEFINE parsed == Received(Written(request), TRUE, stream, FALSE)
<1>1. /\ pc = "sent" /\ pc' \in {"handle", "refused"}
      /\ UNCHANGED <<session, request, answer, response, got, open>>
      /\ \/ \E o, m, u, h, b, t :
              seen' = [outcome |-> o, method |-> m, url |-> u, headers |-> h, body |-> b,
                       unread |-> parsed.unread, stream |-> t]
         \/ \E o \in {"no file", "failed"} : seen' = [Nothing EXCEPT !.outcome = o]
  BY Zenon DEF ParseRequest, clientVars
<1>2. parsed.unread = 0
  <2>1. IsMessage(request)
    BY <1>1 DEF AgreedInv
  <2> QED
    BY <2>1, ReceivedMessage
<1> HIDE DEF parsed
<1>3. seen'.outcome = "finished" => seen'.unread = 0
  <2>1. ASSUME NEW o, NEW m, NEW u, NEW h, NEW b, NEW t,
               seen' = [outcome |-> o, method |-> m, url |-> u, headers |-> h, body |-> b,
                        unread |-> parsed.unread, stream |-> t]
        PROVE  seen'.unread = 0
    BY <1>2, <2>1
  <2>2. ASSUME NEW o \in {"no file", "failed"}, seen' = [Nothing EXCEPT !.outcome = o]
        PROVE  seen'.outcome # "finished"
    BY <2>2 DEF Nothing
  <2> QED
    BY <1>1, <2>1, <2>2, Zenon
<1> QED
  BY <1>1, <1>3 DEF AgreedInv, ConnectionAgreed

\* The server says in its response what it does.
LEMMA ServerAgrees ==
  AgreedInv /\ (AnswerCall \/ Respond \/ RespondBadRequest) => AgreedInv'
<1>1. SUFFICES ASSUME AgreedInv, AnswerCall \/ Respond \/ RespondBadRequest
               PROVE  AgreedInv'
  OBVIOUS
<1>2. CASE AnswerCall
  <2>1. /\ pc = "handle" /\ UNCHANGED <<pc, session, builder, request, seen, response, got, open>>
    BY <1>2 DEF AnswerCall, Answer, clientVars
  <2>2. IsBuilder(answer')
    <3>1. IsBuilder(answer)
      BY <1>1 DEF AgreedInv
    <3>2. ASSUME NEW data \in Bodies PROVE IsSeq(data)
      BY ExchangeAssumption DEF IsSeq
    <3>3. IsSeq(TheFile)
      BY ExchangeAssumption DEF IsSeq
    <3>4. ASSUME NEW data \in Bodies, answer' = [answer EXCEPT !.body = StringBody(data, FALSE)]
          PROVE  IsBuilder(answer')
      BY <3>1, <3>2, <3>4 DEF IsBuilder, StringBody
    <3>5. ASSUME NEW f \in Fields, answer' = [answer EXCEPT !.headers = Append(@, f)]
          PROVE  IsBuilder(answer')
      BY <3>1, <3>5, SeqsMade DEF IsBuilder
    <3>6. ASSUME NEW code, \/ answer' = [answer EXCEPT !.code = code]
                           \/ answer' = [answer EXCEPT !.gzip = TRUE]
          PROVE  IsBuilder(answer')
      BY <3>1, <3>6 DEF IsBuilder
    <3>7. ASSUME answer' = [answer EXCEPT !.media_type = <<"application/json">>, !.charset = <<"utf-8">>]
          PROVE  IsBuilder(answer')
      BY <3>1, <3>7, SeqsMade DEF IsBuilder
    <3>8. ASSUME answer' = [answer EXCEPT !.body = FileBody(TheFile),
                                          !.media_type = <<FromExtension(".jpg")>>]
          PROVE  IsBuilder(answer')
      <4> DEFINE type == <<FromExtension(".jpg")>>
      <4>1. IsSeq(type)
        BY SeqsMade
      <4> HIDE DEF type
      <4> QED
        BY <3>1, <3>3, <3>8, <4>1 DEF IsBuilder, FileBody, type
    <3> QED
      BY <1>2, <3>4, <3>5, <3>6, <3>7, <3>8, Zenon DEF AnswerCall, Answer
  <2> QED
    BY <1>1, <2>1, <2>2 DEF AgreedInv, ConnectionAgreed
<1>3. CASE Respond
  <2> DEFINE keep == IsConnectionKeepAlive(seen.headers)
  <2>1. /\ pc = "handle" /\ UNCHANGED <<session, builder, request, seen, answer, got>>
        /\ \E known \in BOOLEAN :
             response' = SendResponse(BuiltResponse(answer, known, seen.headers), keep)
        /\ \/ pc' = "responded" /\ open' = IF keep THEN {"server"} ELSE {}
           \/ pc' = "crashed" /\ UNCHANGED open
    BY <1>3 DEF Respond, clientVars
  <2>2. keep \in BOOLEAN
    BY DEF IsConnectionKeepAlive
  <2> HIDE DEF keep
  <2>3. PICK known \in BOOLEAN :
          response' = SendResponse(BuiltResponse(answer, known, seen.headers), keep)
    BY <2>1
  <2>4. /\ IsMessage(BuiltResponse(answer, known, seen.headers))
        /\ HasHeader(BuiltResponse(answer, known, seen.headers).headers, "Content-Length")
    BY <1>1, BuiltAnswer DEF AgreedInv
  <2>5. /\ IsMessage(response') /\ HasHeader(response'.headers, "Content-Length")
        /\ IsConnectionKeepAlive(response'.headers) <=> keep
    BY <2>2, <2>3, <2>4, SendSays
  <2> QED
    BY <1>1, <2>1, <2>2, <2>5 DEF AgreedInv, ConnectionAgreed
<1>4. CASE RespondBadRequest
  <2> DEFINE m == [outcome |-> "built", status |-> 400, start_line |-> <<>>,
                   headers |-> <<>>, body |-> EmptyBody]
  <2>1. /\ pc = "refused" /\ pc' \in {"responded", "lost"}
        /\ UNCHANGED <<session, builder, request, seen, answer, got, open>>
        /\ response' = SendResponse(SetBody(m, EmptyBody), FALSE)
    BY <1>4 DEF RespondBadRequest, clientVars
  <2>2. IsBody(EmptyBody)
    BY SeqsMade DEF IsBody, EmptyBody
  <2>3. {"body", "headers", "start_line"} \subseteq DOMAIN m /\ IsHeaders(m.headers)
    BY NoHeaders
  <2> HIDE DEF m
  <2>4. IsMessage(SetBody(m, EmptyBody)) /\ HasHeader(SetBody(m, EmptyBody).headers, "Content-Length")
    BY <2>2, <2>3, SetBodyMakes
  <2>5. /\ IsMessage(response') /\ HasHeader(response'.headers, "Content-Length")
        /\ IsConnectionKeepAlive(response'.headers) <=> FALSE
    BY <2>1, <2>4, SendSays
  <2>6. open = {}
    BY <1>1, <2>1 DEF AgreedInv
  <2> QED
    BY <1>1, <2>1, <2>5, <2>6 DEF AgreedInv, ConnectionAgreed
<1>5. QED
  BY <1>1, <1>2, <1>3, <1>4

\* The client understands it.
LEMMA ReceiveAgrees ==
  ASSUME NEW stream \in BOOLEAN, AgreedInv, ReceiveResponse(stream)
  PROVE  AgreedInv'
<1> DEFINE parsed == Received(Written(response), FALSE, stream, ignroe_body(request))
<1>1. /\ pc = "responded" /\ UNCHANGED <<session, builder, request, seen, answer, response>>
      /\ \/ /\ pc' = "done"
            /\ open' = open \cup (IF IsConnectionKeepAlive(parsed.headers) THEN {"client"} ELSE {})
            /\ \E o, s, h, b, t :
                 got' = [outcome |-> o, status |-> s, headers |-> h, body |-> b,
                         unread |-> parsed.unread, stream |-> t]
         \/ pc' = "failed" /\ UNCHANGED <<got, open>>
  BY Zenon DEF ReceiveResponse, clientVars, serverVars
<1>2. /\ parsed.headers = response.headers
      /\ request.method # kHead => parsed.unread = 0
  <2>1. IsMessage(response)
    BY <1>1 DEF AgreedInv
  <2>2. /\ parsed.headers = response.headers
        /\ ignroe_body(request) = FALSE => parsed.unread = 0
    <3>1. ignroe_body(request) \in BOOLEAN
      BY DEF ignroe_body
    <3> QED
      BY <2>1, <3>1, ReceivedMessage
  <2> QED
    BY <2>2 DEF ignroe_body
<1> HIDE DEF parsed
<1>3. /\ IsConnectionKeepAlive(response.headers) <=> "server" \in open
      /\ "client" \notin open /\ "client" # "server"
      /\ seen.outcome = "finished" => seen.unread = 0
  BY <1>1 DEF AgreedInv
<1>4. CASE pc' = "done"
  <2>1. ("client" \in open') = ("server" \in open')
    BY <1>1, <1>2, <1>3, <1>4
  <2>2. request.method # kHead => got'.unread = 0
    BY <1>1, <1>2, <1>4
  <2> QED
    BY <1>1, <1>3, <1>4, <2>1, <2>2 DEF AgreedInv, ConnectionAgreed
<1>5. CASE pc' # "done"
  BY <1>1, <1>5 DEF AgreedInv, ConnectionAgreed
<1> QED
  BY <1>4, <1>5

\* Nothing else touches the connection.
LEMMA OthersAgree ==
  ASSUME AgreedInv,
         \/ BreakOffRequest \/ BreakOffResponse
         \/ MoveRequestFile \/ MoveResponseFile \/ DropRequest \/ DropResponse
  PROVE  AgreedInv'
<1>1. CASE BreakOffRequest \/ BreakOffResponse
  BY <1>1 DEF AgreedInv, ConnectionAgreed, BreakOffRequest, BreakOffResponse, BreakOff, clientVars,
              serverVars
<1>2. CASE MoveRequestFile \/ MoveResponseFile
  BY <1>2 DEF AgreedInv, ConnectionAgreed, MoveRequestFile, MoveResponseFile, clientVars, serverVars
<1>3. CASE DropRequest
  BY <1>3 DEF AgreedInv, ConnectionAgreed, DropRequest, clientVars, Nothing
<1>4. CASE DropResponse
  BY <1>4 DEF AgreedInv, ConnectionAgreed, DropResponse, clientVars, serverVars
<1>5. QED
  BY <1>1, <1>2, <1>3, <1>4

\* In every phase.
LEMMA AlwaysAgreed == Spec => []AgreedInv
<1>1. Init => AgreedInv
  <2>1. SUFFICES ASSUME Init PROVE AgreedInv
    OBVIOUS
  <2>2. PICK u \in Urls : session = u.session
    BY <2>1 DEF Init
  <2>3. IsSession(session)
    BY <2>2, ExchangeAssumption DEF IsSession, IsSeq
  <2>4. IsRequestBuilder(builder)
    BY <2>1, SeqsMade DEF Init, IsRequestBuilder, IsBuilder, NoBody
  <2>5. IsBuilder(answer)
    BY <2>1, SeqsMade DEF Init, IsBuilder, NoBody
  <2>6. pc = "build" /\ open = {} /\ seen.outcome # "finished"
    BY <2>1 DEF Init, Nothing
  <2> QED
    BY <2>3, <2>4, <2>5, <2>6 DEF AgreedInv, ConnectionAgreed
<1>2. AgreedInv /\ [Next]_vars => AgreedInv'
  <2>1. SUFFICES ASSUME AgreedInv, [Next]_vars PROVE AgreedInv'
    OBVIOUS
  <2>2. CASE Next
    BY <2>1, <2>2, ClientAgrees, ParseAgrees, ReceiveAgrees, ServerAgrees, OthersAgree DEF Next
  <2>3. CASE UNCHANGED vars
    BY <2>1, <2>3 DEF AgreedInv, ConnectionAgreed, vars, clientVars, serverVars
  <2>4. QED
    BY <2>1, <2>2, <2>3
<1>3. QED
  BY <1>1, <1>2, PTL DEF Spec

\* Client and server decide alone whether the connection is kept, the one by the
\* response and the other by the request (Connection::OnWriteOK()), and they decide
\* the same, whatever either builder was given but a Transfer-Encoding that says the
\* content is chunked (ExchangeAssumption); and a kept connection has nothing left to
\* read, but for the body of an answer to HEAD.
THEOREM BothEndsAgree == Spec => []ConnectionAgreed
<1>1. AgreedInv => ConnectionAgreed
  BY DEF AgreedInv
<1>2. QED
  BY <1>1, AlwaysAgreed, PTL

-----------------------------------------------------------------------------
(* The headers that were asked for *)

\* A header that is there has a value.
LEMMA HasValue ==
  ASSUME NEW h, IsHeaders(h), NEW key
  PROVE  HasHeader(h, key) <=> GetHeader(h, key) # <<>>
<1>1. CASE HasHeader(h, key)
  <2>1. PICK i \in 1..Len(h) : Upper(h[i][1]) = Upper(key)
    BY <1>1, FoundOnce
  <2>2. GetHeader(h, key) = h[i][2]
    BY <2>1, FoundOnce
  <2>3. h[i][2] # <<>>
    BY <2>1 DEF IsHeaders
  <2> QED
    BY <1>1, <2>2, <2>3
<1>2. CASE ~HasHeader(h, key)
  BY <1>2 DEF GetHeader
<1> QED
  BY <1>1, <1>2

\* The case of a key does not matter.
LEMMA SameKey ==
  ASSUME NEW h, NEW k, NEW l, Upper(k) = Upper(l)
  PROVE  GetHeader(h, k) = GetHeader(h, l) /\ (HasHeader(h, k) <=> HasHeader(h, l))
<1>1. FindHeader(h, k) = FindHeader(h, l)
  BY DEF FindHeader, iequals
<1> QED
  BY <1>1 DEF GetHeader, HasHeader

\* One more field is set after the others.
LEMMA SetAllOneMore ==
  ASSUME NEW fields, IsSeq(fields), NEW f
  PROVE  SetAll(Append(fields, f)) = SetHeader(SetAll(fields), f[1], f[2])
<1>1. PICK X : fields \in Seq(X)
  BY DEF IsSeq
<1> DEFINE Y == X \cup {f}
           w == Append(fields, f)
           n == Len(fields)
<1>2. fields \in Seq(Y)
  BY <1>1, SeqMonotonic
<1>3. n \in Nat /\ w \in Seq(Y) /\ Len(w) = n + 1 /\ w[n + 1] = f
      /\ \A k \in 1..n : w[k] = fields[k]
  BY <1>2
<1> HIDE DEF w, Y
<1>4. PICK g : IsChain(g, <<>>, fields, FALSE) /\ SetFields(<<>>, fields, FALSE) = g[n]
  BY <1>2, FieldsInOrder
<1>5. PICK v : IsChain(v, <<>>, w, FALSE) /\ SetFields(<<>>, w, FALSE) = v[n + 1]
  <2>1. \E v : IsChain(v, <<>>, w, FALSE) /\ SetFields(<<>>, w, FALSE) = v[Len(w)]
    BY <1>3, FieldsInOrder
  <2> QED
    BY <1>3, <2>1
<1> HIDE DEF n
<1> DEFINE S == {k \in Nat : k <= n => v[k] = g[k]}
<1>6. 0 \in S
  BY <1>4, <1>5 DEF IsChain
<1>7. ASSUME NEW k \in Nat, k \in S PROVE k + 1 \in S
  <2>1. SUFFICES ASSUME k + 1 <= n PROVE v[k + 1] = g[k + 1]
    OBVIOUS
  <2>2. k <= n /\ k + 1 \in 1..n /\ k + 1 \in 1..(n + 1) /\ (k + 1) - 1 = k
    BY <1>3, <2>1
  <2>3. v[k] = g[k]
    BY <1>7, <2>2
  <2>4. v[k + 1] = SetOne(v[k], w[k + 1], FALSE)
    BY <1>3, <1>5, <2>2 DEF IsChain
  <2>5. g[k + 1] = SetOne(g[k], fields[k + 1], FALSE)
    BY <1>4, <2>2 DEF IsChain, n
  <2> QED
    BY <1>3, <2>2, <2>3, <2>4, <2>5
<1>8. n \in S
  <2> HIDE DEF S
  <2> QED
    BY <1>3, <1>6, <1>7, Induction
<1>9. v[n + 1] = SetOne(v[n], w[n + 1], FALSE)
  <2>1. n + 1 \in 1..(n + 1) /\ (n + 1) - 1 = n
    BY <1>3
  <2> QED
    BY <1>3, <1>5, <2>1 DEF IsChain
<1>10. v[n] = g[n]
  BY <1>3, <1>8
<1>11. v[n + 1] = SetHeader(g[n], f[1], f[2])
  BY <1>3, <1>9, <1>10 DEF SetOne
<1> QED
  BY <1>4, <1>5, <1>11 DEF SetAll, w

\* Where a key has a value in fields, and the last of these values.
ValuesAt(fields, key) ==
  {i \in DOMAIN fields : iequals(fields[i][1], key) /\ fields[i][2] # <<>>}
LastValue(fields, key) ==
  IF ValuesAt(fields, key) = {} THEN <<>> ELSE fields[Max(ValuesAt(fields, key))][2]

\* A last value is one.
LEMMA LastIsValue ==
  ASSUME NEW fields, IsSeq(fields), NEW key
  PROVE  ValuesAt(fields, key) # {} <=> LastValue(fields, key) # <<>>
<1> DEFINE at == ValuesAt(fields, key)
<1>1. CASE at # {}
  <2>1. Len(fields) \in Nat /\ at \in SUBSET (1..Len(fields))
    BY DEF IsSeq, ValuesAt
  <2>2. Max(at) \in at
    BY <1>1, <2>1, LastPlace
  <2>3. fields[Max(at)][2] # <<>>
    BY <2>2 DEF ValuesAt
  <2> QED
    BY <1>1, <2>3 DEF LastValue
<1>2. CASE at = {}
  BY <1>2 DEF LastValue
<1> QED
  BY <1>1, <1>2

\* One more field has the last value, if it has one.
LEMMA LastOfOneMore ==
  ASSUME NEW fields, IsSeq(fields), NEW f, NEW key
  PROVE  LastValue(Append(fields, f), key) =
           IF iequals(f[1], key) /\ f[2] # <<>> THEN f[2] ELSE LastValue(fields, key)
<1>1. PICK X : fields \in Seq(X)
  BY DEF IsSeq
<1> DEFINE w == Append(fields, f)
           n == Len(fields)
           at == ValuesAt(fields, key)
           all == ValuesAt(w, key)
<1>2. fields \in Seq(X \cup {f})
  BY <1>1, SeqMonotonic
<1>3. n \in Nat /\ DOMAIN fields = 1..n /\ DOMAIN w = 1..(n + 1) /\ w[n + 1] = f
      /\ \A k \in 1..n : w[k] = fields[k]
  BY <1>2
<1>4. \A k \in 1..(n + 1) : k \in 1..n \/ k = n + 1
  BY <1>3
<1>5. at \in SUBSET (1..n)
  BY <1>3 DEF ValuesAt
<1> HIDE DEF w, n
<1>6. CASE iequals(f[1], key) /\ f[2] # <<>>
  <2>1. n + 1 \in all /\ all \in SUBSET (1..(n + 1)) /\ n + 1 \in Nat
    BY <1>3, <1>6 DEF ValuesAt
  <2> HIDE DEF all
  <2>2. Max(all) \in all /\ \A y \in all : Max(all) >= y
    BY <2>1, LastPlace
  <2>3. Max(all) = n + 1
    <3>1. Max(all) \in 1..(n + 1) /\ Max(all) >= n + 1
      BY <2>1, <2>2
    <3> QED
      BY <1>3, <3>1
  <2>4. LastValue(w, key) = f[2]
    BY <1>3, <2>1, <2>3 DEF LastValue, all
  <2> QED
    BY <1>6, <2>4 DEF w
<1>7. CASE ~(iequals(f[1], key) /\ f[2] # <<>>)
  <2>1. all = at
    BY <1>3, <1>4, <1>7 DEF ValuesAt
  <2>2. at # {} => Max(at) \in 1..n
    BY <1>3, <1>5, LastPlace
  <2>3. LastValue(w, key) = LastValue(fields, key)
    BY <1>3, <2>1, <2>2 DEF LastValue
  <2> QED
    BY <1>7, <2>3 DEF w
<1> QED
  BY <1>6, <1>7

\* Defaults d are set where headers have nothing yet.
AreSetUnder(base, d, n, h) ==
  /\ IsHeaders(h)
  /\ \A key : HasHeader(base, key) => GetHeader(h, key) = GetHeader(base, key)
  /\ \A i \in 1..n : ~HasHeader(base, d[i][1]) => GetHeader(h, d[i][1]) = d[i][2]
  /\ \A key : HasHeader(h, key) =>
       HasHeader(base, key) \/ \E i \in 1..n : Upper(d[i][1]) = Upper(key)

\* One more default.
LEMMA OneDefault ==
  ASSUME NEW base, IsHeaders(base), NEW d, IsHeaders(d), NEW n \in Nat, n + 1 \in 1..Len(d),
         NEW h, AreSetUnder(base, d, n, h)
  PROVE  AreSetUnder(base, d, n + 1, SetOne(h, d[n + 1], TRUE))
<1> DEFINE k == d[n + 1][1]
           v == d[n + 1][2]
           u == SetOne(h, d[n + 1], TRUE)
<1>1. Len(d) \in Nat
  BY DEF IsHeaders, IsSeq
<1>2. v # <<>>
  BY DEF IsHeaders
<1>3. \A i \in 1..(n + 1) : i \in 1..n \/ i = n + 1
  OBVIOUS
<1>4. \A i \in 1..n : Upper(d[i][1]) # Upper(k)
  <2>1. ASSUME NEW i \in 1..n PROVE Upper(d[i][1]) # Upper(k)
    <3>1. i \in 1..Len(d) /\ i # n + 1
      BY <1>1
    <3> QED
      BY <3>1 DEF IsHeaders
  <2> QED
    BY <2>1
<1>5. n + 1 \in 1..(n + 1) /\ \A i \in 1..n : i \in 1..(n + 1)
  OBVIOUS
<1> HIDE DEF k, v
<1>6. CASE HasHeader(h, k)
  <2>1. u = h
    BY <1>6 DEF SetOne, k
  <2>2. HasHeader(base, k)
    <3>1. HasHeader(base, k) \/ \E i \in 1..n : Upper(d[i][1]) = Upper(k)
      BY <1>6 DEF AreSetUnder
    <3> QED
      BY <1>4, <3>1
  <2> HIDE DEF u
  <2>3. \A i \in 1..(n + 1) : ~HasHeader(base, d[i][1]) => GetHeader(u, d[i][1]) = d[i][2]
    BY <1>3, <2>1, <2>2 DEF AreSetUnder, k
  <2>4. \A key : HasHeader(u, key) =>
          HasHeader(base, key) \/ \E i \in 1..(n + 1) : Upper(d[i][1]) = Upper(key)
    BY <1>5, <2>1 DEF AreSetUnder
  <2>5. IsHeaders(u) /\ \A key : HasHeader(base, key) => GetHeader(u, key) = GetHeader(base, key)
    BY <2>1 DEF AreSetUnder
  <2> QED
    BY <2>3, <2>4, <2>5 DEF AreSetUnder, u
<1>7. CASE ~HasHeader(h, k)
  <2>1. u = SetHeader(h, k, v)
    BY <1>7 DEF SetOne, k, v
  <2>2. IsHeaders(h)
    BY DEF AreSetUnder
  <2> HIDE DEF u
  <2>3. /\ IsHeaders(u) /\ GetHeader(u, k) = v
        /\ \A key : Upper(key) # Upper(k) => GetHeader(u, key) = GetHeader(h, key)
    BY <1>2, <2>1, <2>2, SetKeeps
  <2>4. ASSUME NEW key, HasHeader(base, key)
        PROVE  Upper(key) # Upper(k) /\ GetHeader(u, key) = GetHeader(base, key)
    <3>1. GetHeader(h, key) = GetHeader(base, key) /\ GetHeader(base, key) # <<>>
      BY <2>4, HasValue DEF AreSetUnder
    <3>2. GetHeader(h, k) = <<>>
      BY <1>7 DEF GetHeader
    <3>3. Upper(key) # Upper(k)
      BY <3>1, <3>2, SameKey
    <3> QED
      BY <2>3, <3>1, <3>3
  <2>5. ASSUME NEW i \in 1..(n + 1), ~HasHeader(base, d[i][1])
        PROVE  GetHeader(u, d[i][1]) = d[i][2]
    <3>1. CASE i = n + 1
      BY <2>3, <3>1 DEF k, v
    <3>2. CASE i \in 1..n
      <4>1. GetHeader(h, d[i][1]) = d[i][2]
        BY <2>5, <3>2 DEF AreSetUnder
      <4> QED
        BY <1>4, <2>3, <3>2, <4>1
    <3> QED
      BY <1>3, <3>1, <3>2
  <2>6. ASSUME NEW key, HasHeader(u, key)
        PROVE  HasHeader(base, key) \/ \E i \in 1..(n + 1) : Upper(d[i][1]) = Upper(key)
    <3>1. CASE Upper(key) = Upper(k)
      BY <1>5, <3>1 DEF k
    <3>2. CASE Upper(key) # Upper(k)
      <4>1. GetHeader(u, key) # <<>>
        BY <2>3, <2>6, HasValue
      <4>2. HasHeader(h, key)
        BY <2>2, <2>3, <3>2, <4>1, HasValue
      <4> QED
        BY <1>5, <4>2 DEF AreSetUnder
    <3> QED
      BY <3>1, <3>2
  <2>7. AreSetUnder(base, d, n + 1, u)
    BY <2>3, <2>4, <2>5, <2>6 DEF AreSetUnder
  <2> QED
    BY <2>7 DEF u
<1> QED
  BY <1>6, <1>7

\* What is got for a key then: what the headers had, and otherwise the default.
IsUnder(base, d, key, h) ==
  /\ IsHeaders(h)
  /\ GetHeader(h, key) = IF GetHeader(base, key) # <<>> THEN GetHeader(base, key) ELSE GetHeader(d, key)

\* After all of them, headers have what they had, and otherwise the default.
LEMMA DefaultsUnder ==
  ASSUME NEW base, IsHeaders(base), NEW d, IsHeaders(d), NEW key
  PROVE  IsUnder(base, d, key, SetFields(base, d, TRUE))
<1> DEFINE n == Len(d)
           h == SetFields(base, d, TRUE)
<1>1. PICK X : d \in Seq(X)
  BY DEF IsHeaders, IsSeq
<1>2. PICK g : IsChain(g, base, d, TRUE) /\ h = g[n]
  BY <1>1, FieldsInOrder
<1>3. n \in Nat
  BY <1>1
<1> HIDE DEF n, h
<1> DEFINE S == {k \in Nat : k <= n => AreSetUnder(base, d, k, g[k])}
<1>4. 0 \in S
  <2>1. 1..0 = {} /\ g[0] = base
    BY <1>2 DEF IsChain
  <2>2. AreSetUnder(base, d, 0, base)
    BY <2>1 DEF AreSetUnder
  <2> QED
    BY <2>1, <2>2
<1>5. ASSUME NEW k \in Nat, k \in S PROVE k + 1 \in S
  <2>1. SUFFICES ASSUME k + 1 <= n PROVE AreSetUnder(base, d, k + 1, g[k + 1])
    OBVIOUS
  <2>2. k <= n /\ k + 1 \in 1..Len(d) /\ (k + 1) - 1 = k
    BY <1>3, <2>1 DEF n
  <2>3. AreSetUnder(base, d, k, g[k])
    BY <1>5, <2>2
  <2>4. g[k + 1] = SetOne(g[k], d[k + 1], TRUE)
    BY <1>2, <2>2 DEF IsChain
  <2> QED
    BY <2>2, <2>3, <2>4, OneDefault
<1>6. AreSetUnder(base, d, n, h)
  <2>1. n \in S
    <3> HIDE DEF S
    <3> QED
      BY <1>3, <1>4, <1>5, Induction
  <2> QED
    BY <1>2, <1>3, <2>1
<1>7. IsHeaders(h)
  BY <1>6 DEF AreSetUnder
<1>8. CASE HasHeader(base, key)
  BY <1>6, <1>7, <1>8, HasValue DEF AreSetUnder, IsUnder, h
<1>9. CASE ~HasHeader(base, key)
  <2>1. GetHeader(base, key) = <<>>
    BY <1>9 DEF GetHeader
  <2>2. CASE HasHeader(d, key)
    <3>1. PICK i \in 1..n : Upper(d[i][1]) = Upper(key)
      BY <2>2, FoundOnce DEF n
    <3>2. GetHeader(d, key) = d[i][2]
      BY <3>1, FoundOnce DEF n
    <3>3. GetHeader(h, d[i][1]) = d[i][2]
      <4>1. ~HasHeader(base, d[i][1])
        BY <1>9, <3>1, SameKey
      <4> QED
        BY <1>6, <3>1, <4>1 DEF AreSetUnder
    <3>4. GetHeader(h, key) = d[i][2]
      BY <3>1, <3>3, SameKey
    <3> QED
      BY <1>7, <2>1, <3>2, <3>4 DEF IsUnder, h
  <2>3. CASE ~HasHeader(d, key)
    <3>1. ~HasHeader(h, key)
      <4>1. \A i \in 1..n : Upper(d[i][1]) # Upper(key)
        BY <2>3, FoundOnce DEF n
      <4> QED
        BY <1>6, <1>9, <4>1 DEF AreSetUnder
    <3>2. GetHeader(h, key) = <<>> /\ GetHeader(d, key) = <<>>
      BY <2>3, <3>1 DEF GetHeader
    <3> QED
      BY <1>7, <2>1, <3>2 DEF IsUnder, h
  <2> QED
    BY <2>2, <2>3
<1> QED
  BY <1>8, <1>9

\* Headers that are set for a body or by the URL, whatever the builder was told.
SetForBody(key) ==
  \E k \in {"Host", "Content-Length", "Content-Type", "Content-Encoding"} : iequals(key, k)

\* Setting one of them does not touch the others.
LEMMA BodyLeaves ==
  ASSUME NEW h, IsHeaders(h), NEW value, NEW key, ~SetForBody(key),
         NEW k \in {"Host", "Content-Length", "Content-Type", "Content-Encoding"}
  PROVE  /\ IsHeaders(SetHeader(h, k, value))
         /\ GetHeader(SetHeader(h, k, value), key) = GetHeader(h, key)
<1>1. Upper(key) # Upper(k)
  BY DEF SetForBody, iequals
<1> QED
  BY <1>1, SetKeeps

LEMMA ContentTypeLeaves ==
  ASSUME NEW h, IsHeaders(h), NEW media_type, NEW charset, NEW key, ~SetForBody(key)
  PROVE  /\ IsHeaders(SetContentType(h, media_type, charset))
         /\ GetHeader(SetContentType(h, media_type, charset), key) = GetHeader(h, key)
<1> DEFINE value == IF charset = <<>> THEN media_type
                    ELSE media_type \o <<";", "charset", "=">> \o charset
<1>1. SetContentType(h, media_type, charset) =
        IF media_type = <<>> THEN h ELSE SetHeader(h, "Content-Type", value)
  BY DEF SetContentType
<1> HIDE DEF value
<1> QED
  BY <1>1, BodyLeaves

\* What a built request says of the other keys is what the builder was given.
LEMMA BuiltHeaders ==
  ASSUME NEW b, IsRequestBuilder(b), NEW key, ~SetForBody(key)
  PROVE  GetHeader(Built(b).headers, key) =
           IF ~b.keep_alive /\ iequals(key, "Connection") THEN <<"Close">>
           ELSE GetHeader(SetAll(b.headers), key)
<1> DEFINE given == SetAll(b.headers)
           headers == IF b.keep_alive THEN given ELSE SetHeader(given, "Connection", <<"Close">>)
           compress == b.gzip /\ CanCompressBody(b.body)
           empty == [outcome |-> "built", method |-> b.method, url |-> b.url,
                     start_line |-> <<>>, headers |-> headers, body |-> EmptyBody]
<1>1. IsHeaders(given)
  BY NoHeaders, SetFieldsKeeps DEF SetAll, IsRequestBuilder, IsBuilder
<1> HIDE DEF given
<1>2. /\ IsHeaders(headers)
      /\ GetHeader(headers, key) =
           IF ~b.keep_alive /\ iequals(key, "Connection") THEN <<"Close">>
           ELSE GetHeader(given, key)
  <2> DEFINE u == SetHeader(given, "Connection", <<"Close">>)
  <2>1. /\ IsHeaders(u) /\ GetHeader(u, "Connection") = <<"Close">>
        /\ Upper(key) # Upper("Connection") => GetHeader(u, key) = GetHeader(given, key)
    <3>1. <<"Close">> # <<>>
      OBVIOUS
    <3> QED
      BY <1>1, <3>1, SetKeeps
  <2> HIDE DEF u
  <2>2. Upper(key) = Upper("Connection") => GetHeader(u, key) = <<"Close">>
    BY <2>1, SameKey
  <2> QED
    BY <1>1, <2>1, <2>2 DEF iequals, u
<1> HIDE DEF headers
<1>3. empty.headers = headers /\ {"headers", "body"} \subseteq DOMAIN empty
  OBVIOUS
<1> HIDE DEF empty
<1>4. ASSUME NEW m, "headers" \in DOMAIN m, "body" \in DOMAIN m, IsHeaders(m.headers), NEW body
      PROVE  GetHeader(SetBody(m, body).headers, key) = GetHeader(m.headers, key)
  <2>1. SetBody(m, body).headers =
          SetHeader(m.headers, "Content-Length", <<ToString(GetSize(body))>>)
    BY <1>4 DEF SetBody
  <2> QED
    BY <1>4, <2>1, BodyLeaves
<1>5. CASE b.body.kind # "none"
  <2> DEFINE e == [empty EXCEPT !.headers = BodyHeaders(@, b, compress)]
             body == IF compress THEN CompressBody(b.body) ELSE b.body
             typed == SetContentType(headers, b.media_type, b.charset)
  <2>1. IsHeaders(typed) /\ GetHeader(typed, key) = GetHeader(headers, key)
    BY <1>2, ContentTypeLeaves
  <2>2. BodyHeaders(headers, b, compress) =
          IF compress THEN SetHeader(typed, "Content-Encoding", <<"gzip">>) ELSE typed
    BY DEF BodyHeaders
  <2> HIDE DEF typed, compress, body
  <2>3. /\ IsHeaders(BodyHeaders(headers, b, compress))
        /\ GetHeader(BodyHeaders(headers, b, compress), key) = GetHeader(headers, key)
    BY <2>1, <2>2, BodyLeaves
  <2>4. e.headers = BodyHeaders(headers, b, compress) /\ "headers" \in DOMAIN e /\ "body" \in DOMAIN e
    BY <1>3
  <2> HIDE DEF e
  <2>5. GetHeader(SetBody(e, body).headers, key) = GetHeader(headers, key)
    BY <1>4, <2>3, <2>4
  <2>6. Built(b) = SetBody(e, body)
    BY <1>5 DEF Built, e, body, compress, empty, headers, given
  <2> QED
    BY <1>2, <2>5, <2>6 DEF given
<1>6. CASE b.body.kind = "none" /\ b.form_parts # <<>>
  <2> DEFINE type == <<"multipart/form-data", ";", "boundary", "=", "30 chars">>
             e == [empty EXCEPT !.headers = SetHeader(@, "Content-Type", type)]
             body == FormBody(b.form_parts)
  <2>1. Built(b) = SetBody(e, body)
    BY <1>6 DEF Built, empty, headers, given
  <2> HIDE DEF type, body
  <2>2. /\ IsHeaders(SetHeader(headers, "Content-Type", type))
        /\ GetHeader(SetHeader(headers, "Content-Type", type), key) = GetHeader(headers, key)
    BY <1>2, BodyLeaves
  <2>3. /\ e.headers = SetHeader(headers, "Content-Type", type)
        /\ "headers" \in DOMAIN e /\ "body" \in DOMAIN e
    BY <1>3
  <2> HIDE DEF e
  <2>4. GetHeader(SetBody(e, body).headers, key) = GetHeader(headers, key)
    BY <1>4, <2>2, <2>3
  <2> QED
    BY <1>2, <2>1, <2>4 DEF given
<1>7. CASE b.body.kind = "none" /\ b.form_parts = <<>>
  <2>1. Built(b) = empty
    BY <1>7 DEF Built, empty, headers, given
  <2> QED
    BY <1>2, <1>3, <2>1 DEF given
<1> QED
  BY <1>5, <1>6, <1>7

\* The defaults of a session are there if the request has nothing.
LEMMA DefaultsHeaders ==
  ASSUME NEW s, IsHeaders(s.headers), NEW r, IsMessage(r), NEW key, ~SetForBody(key)
  PROVE  GetHeader(WithDefaults(s, r).headers, key) =
           IF GetHeader(r.headers, key) # <<>> THEN GetHeader(r.headers, key)
           ELSE GetHeader(s.headers, key)
<1> DEFINE headers == SetFields(r.headers, s.headers, TRUE)
           typed == IF GetSize(r.body) # 0 /\ s.media_type # <<>> /\ ~HasHeader(headers, "Content-Type")
                    THEN SetContentType(headers, s.media_type, s.charset) ELSE headers
<1>1. /\ IsHeaders(headers)
      /\ GetHeader(headers, key) =
           IF GetHeader(r.headers, key) # <<>> THEN GetHeader(r.headers, key)
           ELSE GetHeader(s.headers, key)
  <2>1. IsHeaders(r.headers)
    BY DEF IsMessage
  <2>2. IsUnder(r.headers, s.headers, key, headers)
    BY <2>1, DefaultsUnder
  <2> HIDE DEF headers
  <2> QED
    BY <2>2 DEF IsUnder
<1>2. WithDefaults(s, r).headers = typed
  BY DEF WithDefaults, IsMessage
<1> HIDE DEF headers
<1>3. GetHeader(typed, key) = GetHeader(headers, key)
  BY <1>1, ContentTypeLeaves
<1> QED
  BY <1>1, <1>2, <1>3

\* Prepare() sets the host.
LEMMA PreparedHeaders ==
  ASSUME NEW r, IsMessage(r), NEW key, ~SetForBody(key)
  PROVE  GetHeader(PrepareRequest(r).headers, key) = GetHeader(r.headers, key)
<1> DEFINE host == r.url.host \o (IF r.url.port = <<>> THEN <<>> ELSE <<Colon>> \o r.url.port)
<1>1. PrepareRequest(r).headers = SetHeader(r.headers, "Host", <<host>>)
  BY DEF PrepareRequest, IsMessage
<1> HIDE DEF host
<1>2. IsHeaders(r.headers)
  BY DEF IsMessage
<1> QED
  BY <1>1, <1>2, BodyLeaves

\* What the application wants for a key: its login, or its last value.
WantedBy(a, key) ==
  IF a.login # <<>> /\ iequals(key, "Authorization")
  THEN BasicCredentials(a.login[1], a.login[2]) ELSE LastValue(a.headers, key)

IsAsked(a) ==
  /\ {"headers", "login"} \subseteq DOMAIN a
  /\ IsSeq(a.headers)
  /\ a.login # <<>> => a.login[1] \in Seq(Octet) /\ a.login[2] \in Seq(Octet)

\* A builder has been given what the application wants.
IsGiven(b, a) ==
  IsAsked(a) /\ \A key : GetHeader(SetAll(b.headers), key) = WantedBy(a, key)

\* The headers of a request offer it.
AreOffered(b, a, h) ==
  \A key : ~SetForBody(key) =>
    GetHeader(h, key) = IF ~b.keep_alive /\ iequals(key, "Connection") THEN <<"Close">>
                        ELSE WantedBy(a, key)

\* With the defaults of the session.
AreCompleted(b, a, s, h) ==
  \A key : ~SetForBody(key) =>
    GetHeader(h, key) = IF ~b.keep_alive /\ iequals(key, "Connection") THEN <<"Close">>
                        ELSE IF WantedBy(a, key) # <<>> THEN WantedBy(a, key)
                        ELSE GetHeader(s.headers, key)

\* What the headers say in which phase.  HeadersArrive alone says nothing before
\* the server has read them: they have to be traced from the calls of the builder.
HeadersInv ==
  /\ IsHeaders(session.headers)
  /\ IsGiven(builder, asked)
  /\ pc = "built" => AreOffered(builder, asked, request.headers)
  /\ pc = "sent" => AreCompleted(builder, asked, session, request.headers)
  /\ pc \in {"build", "built", "sent"} => seen.outcome # "finished"
  /\ seen.outcome = "finished" => AreCompleted(builder, asked, session, seen.headers)

\* One more header, which is wanted, and which replaces a login if it is another.
LEMMA HeaderGiven ==
  ASSUME NEW b, NEW a, IsGiven(b, a), IsSeq(b.headers), NEW key, NEW value,
         NEW c, c.headers = Append(b.headers, <<key, value>>),
         NEW d, {"headers", "login"} \subseteq DOMAIN d,
         d.headers = Append(a.headers, <<key, value>>),
         d.login = IF iequals(key, "Authorization") /\ value # <<>> THEN <<>> ELSE a.login
  PROVE  IsGiven(c, d)
<1> DEFINE field == <<key, value>>
           given == SetAll(b.headers)
<1>1. field[1] = key /\ field[2] = value
  OBVIOUS
<1>2. c.headers = Append(b.headers, field) /\ d.headers = Append(a.headers, field)
  OBVIOUS
<1> HIDE DEF field
<1>3. IsAsked(a) /\ IsSeq(a.headers)
  BY DEF IsGiven, IsAsked
<1>4. IsAsked(d)
  <2>1. IsSeq(d.headers)
    BY <1>2, <1>3, SeqsMade
  <2> QED
    BY <1>3, <2>1 DEF IsAsked
<1>5. SetAll(c.headers) = SetHeader(given, key, value)
  BY <1>1, <1>2, SetAllOneMore
<1>6. IsHeaders(given)
  BY NoHeaders, SetFieldsKeeps DEF SetAll
<1>7. \A k : GetHeader(given, k) = WantedBy(a, k)
  BY DEF IsGiven
<1> HIDE DEF given
<1>8. ASSUME NEW k PROVE GetHeader(SetAll(c.headers), k) = WantedBy(d, k)
  <2>1. LastValue(d.headers, k) =
          IF iequals(key, k) /\ value # <<>> THEN value ELSE LastValue(a.headers, k)
    BY <1>1, <1>2, <1>3, LastOfOneMore
  <2>2. CASE value = <<>>
    <3>1. SetAll(c.headers) = given
      BY <1>5, <2>2 DEF SetHeader
    <3> QED
      BY <1>7, <2>1, <2>2, <3>1 DEF WantedBy
  <2>3. CASE value # <<>> /\ iequals(key, k)
    <3>1. GetHeader(SetAll(c.headers), key) = value
      BY <1>5, <1>6, <2>3, SetKeeps
    <3>2. GetHeader(SetAll(c.headers), k) = value
      BY <2>3, <3>1, SameKey DEF iequals
    <3>3. ~(d.login # <<>> /\ iequals(k, "Authorization"))
      BY <2>3 DEF iequals
    <3> QED
      BY <2>1, <2>3, <3>2, <3>3 DEF WantedBy
  <2>4. CASE value # <<>> /\ ~iequals(key, k)
    <3>1. GetHeader(SetAll(c.headers), k) = GetHeader(given, k)
      <4>1. Upper(k) # Upper(key)
        BY <2>4 DEF iequals
      <4> QED
        BY <1>5, <1>6, <4>1, SetKeeps
    <3>2. iequals(k, "Authorization") => d.login = a.login
      BY <2>4 DEF iequals
    <3> QED
      BY <1>7, <2>1, <2>4, <3>1, <3>2 DEF WantedBy
  <2> QED
    BY <2>2, <2>3, <2>4
<1> QED
  BY <1>4, <1>8 DEF IsGiven

\* A login, which replaces a header.
LEMMA LoginGiven ==
  ASSUME NEW b, NEW a, IsGiven(b, a), IsSeq(b.headers),
         NEW login \in Seq(Octet), NEW password \in Seq(Octet),
         NEW c, c.headers = Append(b.headers,
                                   <<"Authorization", BasicCredentials(login, password)>>),
         NEW d, {"headers", "login"} \subseteq DOMAIN d, d.headers = a.headers,
         d.login = <<login, password>>
  PROVE  IsGiven(c, d)
<1> DEFINE value == BasicCredentials(login, password)
           field == <<"Authorization", value>>
           given == SetAll(b.headers)
<1>1. value # <<>>
  BY DEF BasicCredentials
<1>2. c.headers = Append(b.headers, field)
  OBVIOUS
<1> HIDE DEF value
<1>3. field[1] = "Authorization" /\ field[2] = value
  OBVIOUS
<1> HIDE DEF field
<1>4. d.login # <<>> /\ d.login[1] = login /\ d.login[2] = password
  OBVIOUS
<1>5. IsAsked(d)
  BY <1>4 DEF IsGiven, IsAsked
<1>6. SetAll(c.headers) = SetHeader(given, "Authorization", value)
  BY <1>2, <1>3, SetAllOneMore
<1>7. IsHeaders(given)
  BY NoHeaders, SetFieldsKeeps DEF SetAll
<1>8. \A k : GetHeader(given, k) = WantedBy(a, k)
  BY DEF IsGiven
<1> HIDE DEF given
<1>9. ASSUME NEW k PROVE GetHeader(SetAll(c.headers), k) = WantedBy(d, k)
  <2>1. CASE iequals(k, "Authorization")
    <3>1. GetHeader(SetAll(c.headers), "Authorization") = value
      BY <1>1, <1>6, <1>7, SetKeeps
    <3>2. GetHeader(SetAll(c.headers), k) = value
      BY <2>1, <3>1, SameKey DEF iequals
    <3>3. WantedBy(d, k) = value
      BY <1>4, <2>1 DEF WantedBy, value
    <3> QED
      BY <3>2, <3>3
  <2>2. CASE ~iequals(k, "Authorization")
    <3>1. GetHeader(SetAll(c.headers), k) = GetHeader(given, k)
      <4>1. Upper(k) # Upper("Authorization")
        BY <2>2 DEF iequals
      <4> QED
        BY <1>6, <1>7, <4>1, SetKeeps
    <3> QED
      BY <1>8, <2>2, <3>1 DEF WantedBy
  <2> QED
    BY <2>1, <2>2
<1> QED
  BY <1>5, <1>9 DEF IsGiven

\* A call of the application leaves the builder with what is wanted.
LEMMA CallGives ==
  ASSUME IsGiven(builder, asked), IsRequestBuilder(builder), BuilderCall
  PROVE  IsGiven(builder', asked')
<1>1. /\ IsSeq(builder.headers) /\ "headers" \in DOMAIN builder
      /\ {"headers", "login"} \subseteq DOMAIN asked
  BY DEF IsRequestBuilder, IsBuilder, IsGiven, IsAsked
<1>2. ASSUME builder'.headers = builder.headers, {"headers", "login"} \subseteq DOMAIN asked',
             asked'.headers = asked.headers, asked'.login = asked.login
      PROVE  IsGiven(builder', asked')
  <2>1. \A key : WantedBy(asked', key) = WantedBy(asked, key)
    BY <1>2 DEF WantedBy
  <2> QED
    BY <1>2, <2>1 DEF IsGiven, IsAsked
<1>3. CASE Port(<<56, 48>>)
  BY <1>1, <1>2, <1>3 DEF Port, Call
<1>4. CASE \E p \in Pieces : Path(p.text, p.encode)
  BY <1>1, <1>2, <1>4 DEF Path, Call
<1>5. CASE \E p \in Params : Query(p.key, p.value, p.encode)
  BY <1>1, <1>2, <1>5 DEF Query, Call
<1>6. CASE \/ MediaType(<<"application/json">>) \/ Charset(<<"utf-8">>)
           \/ Form("part") \/ KeepAlive(FALSE) \/ Gzip
  BY <1>1, <1>2, <1>6 DEF MediaType, Charset, Form, KeepAlive, Gzip, Call
<1>7. CASE (\E data \in Bodies : Body(data)) \/ File
  BY <1>1, <1>2, <1>7 DEF Body, File, Call
<1>8. CASE (\E f \in Fields : Header(f[1], f[2])) \/ Date
  <2>1. PICK key, value : Header(key, value)
    BY <1>8 DEF Date
  <2>2. /\ builder'.headers = Append(builder.headers, <<key, value>>)
        /\ {"headers", "login"} \subseteq DOMAIN asked'
        /\ asked'.headers = Append(asked.headers, <<key, value>>)
        /\ asked'.login = IF iequals(key, "Authorization") /\ value # <<>> THEN <<>> ELSE asked.login
    BY <1>1, <2>1 DEF Header, Call
  <2> QED
    BY <1>1, <2>2, HeaderGiven
<1>9. CASE \E l \in Logins : AuthBasic(l[1], l[2])
  <2>1. PICK l \in Logins : AuthBasic(l[1], l[2])
    BY <1>9
  <2>2. l[1] \in Seq(Octet) /\ l[2] \in Seq(Octet)
    BY ExchangeAssumption DEF Octet
  <2>3. /\ builder'.headers = Append(builder.headers, <<"Authorization", BasicCredentials(l[1], l[2])>>)
        /\ {"headers", "login"} \subseteq DOMAIN asked'
        /\ asked'.headers = asked.headers /\ asked'.login = <<l[1], l[2]>>
    BY <1>1, <2>1 DEF AuthBasic, Call
  <2> QED
    BY <1>1, <2>2, <2>3, LoginGiven
<1> QED
  BY <1>3, <1>4, <1>5, <1>6, <1>7, <1>8, <1>9 DEF BuilderCall

\* Building and sending the request.
LEMMA ClientOffers ==
  ASSUME AgreedInv, HeadersInv, BuilderCall \/ Build \/ Send
  PROVE  HeadersInv'
<1>1. CASE BuilderCall
  <2>1. pc = "build" /\ UNCHANGED <<pc, session, request, seen>>
    BY <1>1, CallOnly DEF serverVars
  <2>2. IsGiven(builder', asked')
    BY <1>1, <2>1, CallGives DEF AgreedInv, HeadersInv
  <2> QED
    BY <2>1, <2>2 DEF HeadersInv
<1>2. CASE Build
  <2>1. /\ pc = "build" /\ pc' = "built" /\ request' = Built(builder)
        /\ UNCHANGED <<session, builder, asked, seen>>
    BY <1>2 DEF Build, serverVars
  <2>2. IsRequestBuilder(builder) /\ IsGiven(builder, asked)
    BY <2>1 DEF AgreedInv, HeadersInv
  <2>3. AreOffered(builder, asked, request'.headers)
    <3>1. ASSUME NEW key, ~SetForBody(key)
          PROVE  GetHeader(request'.headers, key) =
                   IF ~builder.keep_alive /\ iequals(key, "Connection") THEN <<"Close">>
                   ELSE WantedBy(asked, key)
      <4>1. GetHeader(Built(builder).headers, key) =
              IF ~builder.keep_alive /\ iequals(key, "Connection") THEN <<"Close">>
              ELSE GetHeader(SetAll(builder.headers), key)
        BY <2>2, <3>1, BuiltHeaders
      <4>2. GetHeader(SetAll(builder.headers), key) = WantedBy(asked, key)
        BY <2>2 DEF IsGiven
      <4> QED
        BY <2>1, <4>1, <4>2
    <3> QED
      BY <3>1 DEF AreOffered
  <2> QED
    BY <2>1, <2>3 DEF HeadersInv
<1>3. CASE Send
  <2>1. /\ pc = "built" /\ UNCHANGED <<session, builder, asked, seen>>
        /\ \/ pc' = "sent" /\ request' = PrepareRequest(WithDefaults(session, request))
           \/ pc' = "threw"
    BY <1>3 DEF Send, serverVars
  <2>2. pc' = "sent" => AreCompleted(builder, asked, session, request'.headers)
    <3>1. SUFFICES ASSUME pc' = "sent", NEW key, ~SetForBody(key)
                   PROVE  GetHeader(request'.headers, key) =
                            IF ~builder.keep_alive /\ iequals(key, "Connection") THEN <<"Close">>
                            ELSE IF WantedBy(asked, key) # <<>> THEN WantedBy(asked, key)
                            ELSE GetHeader(session.headers, key)
      BY DEF AreCompleted
    <3> DEFINE w == WithDefaults(session, request)
    <3>2. IsMessage(request) /\ IsMessage(w) /\ IsHeaders(session.headers)
      BY <2>1, DefaultsKeep DEF AgreedInv, HeadersInv
    <3>3. GetHeader(w.headers, key) =
            IF GetHeader(request.headers, key) # <<>> THEN GetHeader(request.headers, key)
            ELSE GetHeader(session.headers, key)
      BY <3>1, <3>2, DefaultsHeaders
    <3> HIDE DEF w
    <3>4. GetHeader(PrepareRequest(w).headers, key) = GetHeader(w.headers, key)
      BY <3>1, <3>2, PreparedHeaders
    <3>5. request' = PrepareRequest(w)
      BY <2>1, <3>1 DEF w
    <3>6. GetHeader(request.headers, key) =
            IF ~builder.keep_alive /\ iequals(key, "Connection") THEN <<"Close">>
            ELSE WantedBy(asked, key)
      BY <2>1, <3>1 DEF HeadersInv, AreOffered
    <3>7. <<"Close">> # <<>>
      OBVIOUS
    <3> QED
      BY <3>3, <3>4, <3>5, <3>6, <3>7
  <2> QED
    BY <2>1, <2>2 DEF HeadersInv
<1> QED
  BY <1>1, <1>2, <1>3

\* The server reads what was sent.
LEMMA ParseFinds ==
  ASSUME NEW stream \in BOOLEAN, AgreedInv, HeadersInv, ParseRequest(stream)
  PROVE  HeadersInv'
<1> DEFINE parsed == Received(Written(request), TRUE, stream, FALSE)
<1>1. /\ pc = "sent" /\ pc' \in {"handle", "refused"}
      /\ UNCHANGED <<session, builder, asked, request>>
      /\ \/ \E o, m, u, b, n, t :
              seen' = [outcome |-> o, method |-> m, url |-> u, headers |-> parsed.headers, body |-> b,
                       unread |-> n, stream |-> t]
         \/ \E o \in {"no file", "failed"} : seen' = [Nothing EXCEPT !.outcome = o]
  BY Zenon DEF ParseRequest, clientVars
<1>2. parsed.headers = request.headers
  <2>1. IsMessage(request)
    BY <1>1 DEF AgreedInv
  <2> QED
    BY <2>1, ReceivedMessage
<1> HIDE DEF parsed
<1>3. seen'.outcome = "finished" => seen'.headers = request.headers
  <2>1. ASSUME NEW o, NEW m, NEW u, NEW b, NEW n, NEW t,
               seen' = [outcome |-> o, method |-> m, url |-> u, headers |-> parsed.headers, body |-> b,
                        unread |-> n, stream |-> t]
        PROVE  seen'.headers = request.headers
    BY <1>2, <2>1
  <2>2. ASSUME NEW o \in {"no file", "failed"}, seen' = [Nothing EXCEPT !.outcome = o]
        PROVE  seen'.outcome # "finished"
    BY <2>2 DEF Nothing
  <2> QED
    BY <1>1, <2>1, <2>2, Zenon
<1>4. AreCompleted(builder, asked, session, request.headers)
  BY <1>1 DEF HeadersInv
<1> QED
  BY <1>1, <1>3, <1>4 DEF HeadersInv

\* After that, what was seen stays until it is dropped.
LEMMA OthersLeaveHeaders ==
  ASSUME HeadersInv,
         \/ AnswerCall \/ Respond \/ RespondBadRequest
         \/ \E stream \in BOOLEAN : ReceiveResponse(stream)
         \/ BreakOffRequest \/ BreakOffResponse
         \/ MoveRequestFile \/ MoveResponseFile \/ DropRequest \/ DropResponse
  PROVE  HeadersInv'
<1>1. /\ UNCHANGED <<session, builder, asked>>
      /\ \/ UNCHANGED <<pc, request, seen>>
         \/ pc' \notin {"build", "built", "sent"} /\ (UNCHANGED seen \/ seen' = Nothing)
  <2>1. CASE AnswerCall
    BY <2>1 DEF AnswerCall, Answer, clientVars
  <2>2. CASE Respond \/ RespondBadRequest \/ \E stream \in BOOLEAN : ReceiveResponse(stream)
    BY <2>2, Zenon DEF Respond, RespondBadRequest, ReceiveResponse, clientVars, serverVars
  <2>3. CASE BreakOffRequest \/ BreakOffResponse
    BY <2>3 DEF BreakOffRequest, BreakOffResponse, BreakOff, clientVars, serverVars
  <2>4. CASE MoveRequestFile \/ MoveResponseFile
    BY <2>4 DEF MoveRequestFile, MoveResponseFile, clientVars, serverVars
  <2>5. CASE DropRequest \/ DropResponse
    BY <2>5 DEF DropRequest, DropResponse, clientVars, serverVars
  <2> QED
    BY <2>1, <2>2, <2>3, <2>4, <2>5
<1>2. Nothing.outcome # "finished"
  BY DEF Nothing
<1> QED
  BY <1>1, <1>2 DEF HeadersInv

\* The initial headers are the session's, and nothing is wanted.
LEMMA HeadersAtFirst == Init => HeadersInv
<1>1. SUFFICES ASSUME Init PROVE HeadersInv
  OBVIOUS
<1>2. PICK u \in Urls : session = u.session
  BY <1>1 DEF Init
<1>3. IsHeaders(session.headers)
  <2> DEFINE h == u.session.headers
  <2>1. SetFields(<<>>, h, FALSE) = h /\ IsSeq(h)
    BY ExchangeAssumption DEF IsSeq
  <2> HIDE DEF h
  <2>2. IsHeaders(h)
    BY <2>1, NoHeaders, SetFieldsKeeps
  <2> QED
    BY <1>2, <2>2 DEF h
<1>4. IsGiven(builder, asked)
  <2>1. builder.headers = <<>> /\ IsAsked(asked) /\ asked.headers = <<>> /\ asked.login = <<>>
    BY <1>1, SeqsMade DEF Init, IsAsked
  <2>2. ASSUME NEW key PROVE GetHeader(SetAll(builder.headers), key) = WantedBy(asked, key)
    <3>1. SetAll(<<>>) = <<>>
      <4>1. <<>> \in Seq({}) /\ Len(<<>>) = 0
        OBVIOUS
      <4>2. PICK g : IsChain(g, <<>>, <<>>, FALSE) /\ SetFields(<<>>, <<>>, FALSE) = g[Len(<<>>)]
        BY <4>1, FieldsInOrder
      <4> QED
        BY <4>1, <4>2 DEF IsChain, SetAll
    <3>2. GetHeader(<<>>, key) = <<>>
      <4>1. FindHeader(<<>>, key) = {}
        BY DEF FindHeader
      <4> QED
        BY <4>1 DEF GetHeader, HasHeader
    <3>3. LastValue(<<>>, key) = <<>>
      <4>1. ValuesAt(<<>>, key) = {}
        BY DEF ValuesAt
      <4> QED
        BY <4>1 DEF LastValue
    <3> QED
      BY <2>1, <3>1, <3>2, <3>3 DEF WantedBy
  <2> QED
    BY <2>1, <2>2 DEF IsGiven
<1>5. pc = "build" /\ seen.outcome # "finished"
  BY <1>1 DEF Init, Nothing
<1> QED
  BY <1>3, <1>4, <1>5 DEF HeadersInv

\* What the headers say is enough.
LEMMA CompletedArrive == HeadersInv => HeadersArrive
<1>1. SUFFICES ASSUME HeadersInv, seen.outcome = "finished"
               PROVE  /\ \A f \in Range(asked.headers) \cup Range(session.headers) :
                           ~SetByLibrary(f[1]) =>
                             GetHeader(seen.headers, f[1]) =
                               IF AskedAt(f[1]) # {} THEN Asked(f[1])
                               ELSE GetHeader(session.headers, f[1])
                      /\ ~builder.keep_alive => ~IsConnectionKeepAlive(seen.headers)
                      /\ asked.login # <<>> =>
                           LET credentials == GetHeader(seen.headers, "Authorization")[2]
                           IN  /\ Base64Decode(credentials) =
                                    asked.login[1] \o <<Colon>> \o asked.login[2]
                               /\ Len(Base64Decode(credentials)) <= DecodedSize(Len(credentials))
  BY DEF HeadersArrive
<1> DEFINE h == seen.headers
<1>2. IsAsked(asked) /\ AreCompleted(builder, asked, session, h)
  BY <1>1 DEF HeadersInv, IsGiven
<1> HIDE DEF h
<1>3. ASSUME NEW key, ~SetByLibrary(key)
      PROVE  GetHeader(h, key) =
               IF AskedAt(key) # {} THEN Asked(key) ELSE GetHeader(session.headers, key)
  <2>1. /\ ~SetForBody(key) /\ ~(~builder.keep_alive /\ iequals(key, "Connection"))
        /\ ~(asked.login # <<>> /\ iequals(key, "Authorization"))
    BY <1>3 DEF SetByLibrary, SetForBody
  <2>2. WantedBy(asked, key) = LastValue(asked.headers, key)
    BY <2>1 DEF WantedBy
  <2>3. GetHeader(h, key) =
          IF WantedBy(asked, key) # <<>> THEN WantedBy(asked, key) ELSE GetHeader(session.headers, key)
    BY <1>2, <2>1 DEF AreCompleted
  <2>4. AskedAt(key) # {} <=> LastValue(asked.headers, key) # <<>>
    <3>1. AskedAt(key) = ValuesAt(asked.headers, key)
      BY DEF AskedAt, ValuesAt
    <3> QED
      BY <1>2, <3>1, LastIsValue DEF IsAsked
  <2>5. AskedAt(key) # {} => LastValue(asked.headers, key) = Asked(key)
    BY DEF AskedAt, Asked, ValuesAt, LastValue
  <2> QED
    BY <2>2, <2>3, <2>4, <2>5
<1>4. ~SetForBody("Connection") /\ ~SetForBody("Authorization")
      /\ ~iequals("Authorization", "Connection") /\ iequals("Connection", "Connection")
      /\ iequals("Authorization", "Authorization")
  BY ExchangeAssumption DEF SetForBody, iequals
<1>5. ASSUME ~builder.keep_alive PROVE ~IsConnectionKeepAlive(h)
  <2>1. GetHeader(h, "Connection") = <<"Close">>
    BY <1>2, <1>4, <1>5 DEF AreCompleted
  <2>2. HasHeader(h, "Connection")
    <3>1. <<"Close">> # <<>>
      OBVIOUS
    <3> QED
      BY <2>1, <3>1 DEF GetHeader
  <2>3. ~iequals(<<"Close">>[1], "Keep-Alive")
    BY ExchangeAssumption
  <2> QED
    BY <2>1, <2>2, <2>3 DEF IsConnectionKeepAlive
<1>6. ASSUME asked.login # <<>>
      PROVE  LET credentials == GetHeader(h, "Authorization")[2]
             IN  /\ Base64Decode(credentials) = asked.login[1] \o <<Colon>> \o asked.login[2]
                 /\ Len(Base64Decode(credentials)) <= DecodedSize(Len(credentials))
  <2> DEFINE s == asked.login[1] \o <<Colon>> \o asked.login[2]
             value == BasicCredentials(asked.login[1], asked.login[2])
  <2>1. s \in Seq(Octet)
    <3>1. Colon \in Octet
      BY DEF Colon, Octet
    <3>2. asked.login[1] \in Seq(Octet) /\ asked.login[2] \in Seq(Octet)
      BY <1>2, <1>6 DEF IsAsked
    <3> QED
      BY <3>1, <3>2
  <2>2. value = <<"Basic", Base64Encode(s)>>
    BY DEF BasicCredentials
  <2>3. WantedBy(asked, "Authorization") = value
    BY <1>4, <1>6 DEF WantedBy
  <2> HIDE DEF s, value
  <2>4. value # <<>> /\ value[2] = Base64Encode(s)
    BY <2>2
  <2>5. GetHeader(h, "Authorization") = value
    BY <1>2, <1>4, <2>3, <2>4 DEF AreCompleted
  <2>6. /\ Base64Decode(Base64Encode(s)) = s
        /\ Len(s) <= DecodedSize(Len(Base64Encode(s)))
    BY <2>1, Base64RoundTrip
  <2> QED
    BY <2>4, <2>5, <2>6 DEF s
<1> QED
  BY <1>3, <1>5, <1>6 DEF h

\* Whatever calls have built the request, the server finds for every header that
\* the library does not set itself the application's last value, or else the
\* session's (RequestBuilder, ClientSession::Send(), Headers::Set()); a request that
\* is not to be kept alive says so; and the server decodes the credentials to the
\* login and the password.
THEOREM HeadersReachTheView == Spec => []HeadersArrive
<1>1. HeadersInv /\ AgreedInv /\ [Next]_vars => HeadersInv'
  <2>1. SUFFICES ASSUME HeadersInv, AgreedInv, [Next]_vars PROVE HeadersInv'
    OBVIOUS
  <2>2. CASE Next
    BY <2>1, <2>2, ClientOffers, ParseFinds, OthersLeaveHeaders, Zenon DEF Next
  <2>3. CASE UNCHANGED vars
    BY <2>1, <2>3 DEF HeadersInv, vars, clientVars, serverVars
  <2>4. QED
    BY <2>1, <2>2, <2>3
<1>2. QED
  BY <1>1, HeadersAtFirst, CompletedArrive, AlwaysAgreed, PTL DEF Spec

-----------------------------------------------------------------------------
(* gzip::Decompress() *)

\* The smaller of two numbers.
LEMMA MinOfTwo ==
  ASSUME NEW a \in Int, NEW b \in Int
  PROVE  Min({a, b}) = IF a <= b THEN a ELSE b
BY DEF Min

\* The room that gzip::Decompress() has after the buffer has grown, if it is full,
\* and what it does then.
Growing(input, f, p) ==
  LET room == IF p[1] >= p[2] THEN p[2] + Len(input) \div 2 ELSE p[2]
      next == Min({room, Len(Inflated(input))})
  IN  IF room = p[1] THEN -1 ELSE IF next < room THEN next ELSE f[<<next, room>>]

\* The same for data of a length and an input of two elements.
Room(p) == IF p[1] >= p[2] THEN p[2] + 1 ELSE p[2]
Grown(f, len, p) ==
  IF Room(p) = p[1] THEN -1
  ELSE IF Min({Room(p), len}) < Room(p) THEN Min({Room(p), len})
  ELSE f[<<Min({Room(p), len}), Room(p)>>]

LEMMA GrownIs ==
  ASSUME NEW f, NEW len \in Nat, NEW p \in Nat \X Nat
  PROVE  /\ Room(p) \in Nat
         /\ Grown(f, len, p) = IF Room(p) = p[1] THEN -1
                               ELSE IF len < Room(p) THEN len ELSE f[<<Room(p), Room(p)>>]
<1>1. p[1] \in Nat /\ p[2] \in Nat
  OBVIOUS
<1>2. Room(p) \in Nat
  BY <1>1 DEF Room
<1>3. Min({Room(p), len}) = IF Room(p) <= len THEN Room(p) ELSE len
  BY <1>2, MinOfTwo
<1> QED
  BY <1>2, <1>3 DEF Grown

\* A pair of equal numbers has one more place.
LEMMA RoomOfSame ==
  ASSUME NEW r \in Nat
  PROVE  <<r, r>> \in Nat \X Nat /\ Room(<<r, r>>) = r + 1 /\ <<r, r>>[1] = r
BY DEF Room

\* The loop of gzip::Decompress() ends, with all of the data.
LEMMA SizeGrows ==
  ASSUME NEW X, NEW data \in Seq(X)
  PROVE  DecompressedSize(Deflated(data)) = Len(data)
<1> DEFINE len == Len(data)
           input == Deflated(data)
           Total == CHOOSE f : f = [p \in Nat \X Nat |-> Growing(input, f, p)]
<1>1. len \in Nat /\ Len(input) = 2 /\ Len(input) \div 2 = 1 /\ Inflated(input) = data
  BY DEF Deflated, Inflated
<1>2. DecompressedSize(input) = Total[<<0, 2>>]
  <2>1. DecompressedSize(input) = Total[<<0, Len(input)>>]
    BY Zenon DEF DecompressedSize, Growing
  <2> QED
    BY <1>1, <2>1
<1>3. ASSUME NEW f, NEW p PROVE Growing(input, f, p) = Grown(f, len, p)
  BY <1>1 DEF Growing, Grown, Room
<1> HIDE DEF len, input
<1>4. \E f : f = [p \in Nat \X Nat |-> Growing(input, f, p)]
  <2> DEFINE F == [p \in Nat \X Nat |-> IF Room(p) = p[1] THEN -1 ELSE len]
  <2>1. \A p \in Nat \X Nat : F[p] = IF Room(p) = p[1] THEN -1 ELSE len
    OBVIOUS
  <2>2. ASSUME NEW p \in Nat \X Nat PROVE F[p] = Growing(input, F, p)
    <3> DEFINE r == Room(p)
    <3>1. /\ r \in Nat
          /\ Grown(F, len, p) = IF r = p[1] THEN -1 ELSE IF len < r THEN len ELSE F[<<r, r>>]
      BY <1>1, GrownIs
    <3> HIDE DEF r
    <3>2. F[<<r, r>>] = len
      <4>1. /\ <<r, r>> \in Nat \X Nat /\ Room(<<r, r>>) # <<r, r>>[1]
        BY <3>1, RoomOfSame
      <4> HIDE DEF F
      <4> QED
        BY <2>1, <4>1
    <3>3. F[p] = IF r = p[1] THEN -1 ELSE len
      BY DEF r
    <3> HIDE DEF F
    <3> QED
      BY <1>3, <3>1, <3>2, <3>3
  <2>3. F = [p \in Nat \X Nat |-> Growing(input, F, p)]
    BY <2>2
  <2> HIDE DEF F
  <2> QED
    BY <2>3
<1>5. Total = [p \in Nat \X Nat |-> Growing(input, Total, p)]
  BY <1>4
<1> HIDE DEF Total
<1>6. \A p \in Nat \X Nat : Total[p] = Grown(Total, len, p)
  BY <1>3, <1>5
<1> DEFINE S == {k \in Nat : k <= len => Total[<<len - k, len - k>>] = len}
<1>7. ASSUME NEW r \in Nat
      PROVE  Total[<<r, r>>] = IF len < r + 1 THEN len ELSE Total[<<r + 1, r + 1>>]
  <2>1. <<r, r>> \in Nat \X Nat /\ Room(<<r, r>>) = r + 1 /\ <<r, r>>[1] = r /\ r + 1 # r
    BY RoomOfSame
  <2>2. Total[<<r, r>>] = Grown(Total, len, <<r, r>>)
    BY <1>6, <2>1
  <2> QED
    BY <1>1, <2>1, <2>2, GrownIs
<1>8. 0 \in S
  <2>1. len - 0 = len /\ len < len + 1
    BY <1>1
  <2> QED
    BY <1>1, <1>7, <2>1
<1>9. ASSUME NEW k \in Nat, k \in S PROVE k + 1 \in S
  <2>1. SUFFICES ASSUME k + 1 <= len PROVE Total[<<len - (k + 1), len - (k + 1)>>] = len
    OBVIOUS
  <2> DEFINE r == len - (k + 1)
  <2>2. r \in Nat /\ r + 1 = len - k /\ ~(len < r + 1) /\ k <= len
    BY <1>1, <2>1
  <2>3. Total[<<len - k, len - k>>] = len
    BY <1>9, <2>2
  <2> HIDE DEF r
  <2>4. Total[<<r, r>>] = len
    BY <1>7, <2>2, <2>3
  <2> QED
    BY <2>4 DEF r
<1>10. \A k \in Nat : k \in S
  <2> HIDE DEF S
  <2> QED
    BY <1>8, <1>9, Induction
<1>11. Total[<<0, 2>>] = IF len < 2 THEN len ELSE Total[<<2, 2>>]
  <2>1. <<0, 2>> \in Nat \X Nat /\ Room(<<0, 2>>) = 2 /\ <<0, 2>>[1] = 0
    BY DEF Room
  <2>2. Total[<<0, 2>>] = Grown(Total, len, <<0, 2>>)
    BY <1>6, <2>1
  <2> QED
    BY <1>1, <2>1, <2>2, GrownIs
<1>12. CASE len < 2
  BY <1>2, <1>11, <1>12 DEF len, input
<1>13. CASE ~(len < 2)
  <2>1. len - 2 \in Nat /\ len - (len - 2) = 2 /\ len - 2 <= len
    BY <1>1, <1>13
  <2>2. len - 2 \in S
    BY <1>10, <2>1
  <2>3. Total[<<2, 2>>] = len
    BY <2>1, <2>2
  <2> QED
    BY <1>2, <1>11, <1>13, <2>3 DEF len, input
<1> QED
  BY <1>12, <1>13

\* What gzip::Compress() has made of data, gzip::Decompress() makes data of again, as
\* long as sizes fit an uInt (Gzip).
THEOREM GzipRoundTrip ==
  ASSUME NEW X, NEW data \in Seq(X), data # <<>>, CanCompress(data)
  PROVE  CanDecompress(Compress(data)) /\ Decompress(Compress(data)) = data
<1> DEFINE s == Deflated(data)
<1>1. Compress(data) = s
  BY CompressTakesAll DEF CanCompress
<1>2. s # <<>> /\ IsStream(s) /\ Inflated(s) = data
  BY DEF Deflated, IsStream, Inflated
<1>3. DecompressedSize(s) = Len(data) /\ Len(data) \in Nat
  BY SizeGrows
<1> HIDE DEF s
<1>4. SubSeq(data, 1, Len(data)) = data
  BY SubSeqFull
<1> QED
  BY <1>1, <1>2, <1>3, <1>4 DEF CanDecompress, Decompress

-----------------------------------------------------------------------------
(* split() *)

\* Where find() finds one element.
IsFoundAt(s, p, d, i) ==
  \/ i = npos /\ \A q \in p..Len(s) : s[q] # d
  \/ /\ i \in 1..(Len(s) - p + 1) /\ s[p + i - 1] = d
     /\ \A q \in p..(p + i - 2) : s[q] # d

LEMMA FindOne ==
  ASSUME NEW X, NEW t \in Seq(X), NEW d
  PROVE  IsFoundAt(t, 1, d, find(t, <<d>>))
<1> DEFINE u == <<d>>
           at == Places(t, u)
           there == {i \in 1..Len(t) : t[i] = d}
           i == find(t, u)
<1>1. Len(t) \in Nat
  OBVIOUS
<1>2. at = there
  <2>1. Len(u) = 1 /\ Len(t) - Len(u) + 1 = Len(t)
    BY <1>1
  <2>2. ASSUME NEW j \in 1..Len(t)
        PROVE  SubSeq(t, j, j + Len(u) - 1) = u <=> t[j] = d
    <3>1. j + Len(u) - 1 = j
      BY <2>1
    <3>2. SubSeq(t, j, j) = <<t[j]>>
      BY PieceOfOne
    <3>3. <<t[j]>> = <<d>> <=> t[j] = d
      <4>1. \A a, b : <<a>> = <<b>> => a = b
        OBVIOUS
      <4> QED
        BY <4>1
    <3> QED
      BY <3>1, <3>2, <3>3
  <2> HIDE DEF u
  <2> QED
    BY <2>1, <2>2 DEF Places
<1> HIDE DEF u
<1>3. i = FirstOf(at)
  BY DEF find
<1> HIDE DEF i, at
<1>4. CASE there = {}
  <2>1. i = npos /\ \A q \in 1..Len(t) : t[q] # d
    BY <1>2, <1>3, <1>4 DEF FirstOf
  <2> QED
    BY <2>1 DEF IsFoundAt, i, u
<1>5. CASE there # {}
  <2>1. there \in SUBSET Nat
    OBVIOUS
  <2>2. i = CHOOSE x \in there : \A j \in there : x <= j
    BY <1>2, <1>3, <1>5 DEF FirstOf
  <2>3. i \in there /\ \A j \in there : i <= j
    <3> HIDE DEF there
    <3> QED
      BY <1>5, <2>1, <2>2, FirstPlace
  <2>4. i \in 1..(Len(t) - 1 + 1) /\ t[1 + i - 1] = d
    <3>1. i \in 1..Len(t) /\ t[i] = d
      BY <2>3
    <3>2. Len(t) - 1 + 1 = Len(t) /\ 1 + i - 1 = i
      BY <1>1, <3>1
    <3> QED
      BY <3>1, <3>2
  <2>5. ASSUME NEW q \in 1..(1 + i - 2) PROVE t[q] # d
    <3>1. i \in 1..Len(t)
      BY <2>3
    <3>2. q \in 1..Len(t) /\ ~(i <= q)
      BY <1>1, <3>1
    <3>3. q \notin there
      BY <2>3, <3>2
    <3> QED
      BY <3>2, <3>3
  <2> QED
    BY <2>4, <2>5 DEF IsFoundAt, i, u
<1> QED
  BY <1>4, <1>5

\* What is left of a sequence from a place on.
LEMMA FromIs ==
  ASSUME NEW X, NEW s \in Seq(X), NEW p \in 1..(Len(s) + 1)
  PROVE  /\ from(s, p) \in Seq(X)
         /\ Len(from(s, p)) = Len(s) - p + 1
         /\ \A q \in 1..(Len(s) - p + 1) : from(s, p)[q] = s[p + q - 1]
<1>1. Len(s) \in Nat
  OBVIOUS
<1>2. \A i \in p..Len(s) : s[i] \in X
  OBVIOUS
<1>3. CASE p <= Len(s)
  BY <1>1, <1>2, <1>3, SubSeqProperties DEF from
<1>4. CASE p = Len(s) + 1
  <2>1. from(s, p) = <<>>
    BY <1>1, <1>4, SubSeqEmpty DEF from
  <2>2. Len(s) - p + 1 = 0
    BY <1>1, <1>4
  <2> QED
    BY <2>1, <2>2
<1> QED
  BY <1>1, <1>3, <1>4

LEMMA FindFrom ==
  ASSUME NEW X, NEW s \in Seq(X), NEW p \in 1..(Len(s) + 1), NEW d
  PROVE  IsFoundAt(s, p, d, find(from(s, p), <<d>>))
<1> DEFINE t == from(s, p)
           n == Len(s) - p + 1
           i == find(t, <<d>>)
<1>1. t \in Seq(X) /\ Len(t) = n /\ \A q \in 1..n : t[q] = s[p + q - 1]
  BY FromIs
<1>2. Len(s) \in Nat /\ n \in Nat /\ p \in Nat
  OBVIOUS
<1>3. IsFoundAt(t, 1, d, i)
  BY <1>1, FindOne
<1> HIDE DEF t, i
<1>4. CASE i = npos /\ \A q \in 1..Len(t) : t[q] # d
  <2>1. ASSUME NEW q \in p..Len(s) PROVE s[q] # d
    <3> DEFINE r == q - p + 1
    <3>1. r \in 1..n /\ p + r - 1 = q
      BY <1>2
    <3> HIDE DEF r
    <3> QED
      BY <1>1, <1>4, <3>1
  <2> QED
    BY <1>4, <2>1 DEF IsFoundAt, i, t
<1>5. CASE /\ i \in 1..(Len(t) - 1 + 1) /\ t[1 + i - 1] = d
           /\ \A q \in 1..(1 + i - 2) : t[q] # d
  <2>1. i \in 1..n /\ 1 + i - 1 = i
    BY <1>1, <1>2, <1>5
  <2>2. s[p + i - 1] = d
    BY <1>1, <1>5, <2>1
  <2>3. ASSUME NEW q \in p..(p + i - 2) PROVE s[q] # d
    <3> DEFINE r == q - p + 1
    <3>1. r \in 1..n /\ p + r - 1 = q /\ r \in 1..(1 + i - 2)
      BY <1>2, <2>1
    <3> HIDE DEF r
    <3> QED
      BY <1>1, <1>5, <3>1
  <2> QED
    BY <2>1, <2>2, <2>3 DEF IsFoundAt, i, t
<1> QED
  BY <1>3, <1>4, <1>5 DEF IsFoundAt

\* The functions inside split(): what comes after delimiters, and the parts.
IsSkip(s, d, compress, k) ==
  k = [p \in 1..(Len(s) + 1) |-> IF compress /\ p <= Len(s) /\ s[p] = d THEN k[p + 1] ELSE p]
PartsAt(s, d, k, g, p) ==
  LET i == find(from(s, p), <<d>>)
  IN  IF i = npos THEN <<from(s, p)>> ELSE <<SubSeq(s, p, p + i - 2)>> \o g[k[p + i]]
IsParts(s, d, k, g) == g = [p \in 1..(Len(s) + 1) |-> PartsAt(s, d, k, g, p)]

\* Numbers from the last one down.
LEMMA Downwards ==
  ASSUME NEW n \in Nat, NEW S, n \in S, \A m \in 1..(n - 1) : m + 1 \in S => m \in S
  PROVE  \A m \in 1..n : m \in S
<1> DEFINE T == {k \in Nat : k < n => n - k \in S}
<1>1. 0 \in T
  OBVIOUS
<1>2. ASSUME NEW k \in Nat, k \in T PROVE k + 1 \in T
  <2>1. SUFFICES ASSUME k + 1 < n PROVE n - (k + 1) \in S
    OBVIOUS
  <2> DEFINE m == n - (k + 1)
  <2>2. m \in 1..(n - 1) /\ m + 1 = n - k /\ k < n
    BY <2>1
  <2>3. n - k \in S
    BY <1>2, <2>2
  <2> HIDE DEF m
  <2>4. m \in S
    BY <2>2, <2>3
  <2> QED
    BY <2>4 DEF m
<1>3. \A k \in Nat : k \in T
  <2> HIDE DEF T
  <2> QED
    BY <1>1, <1>2, Induction
<1>4. ASSUME NEW m \in 1..n PROVE m \in S
  <2> DEFINE k == n - m
  <2>1. k \in Nat /\ k < n /\ n - k = m
    OBVIOUS
  <2> HIDE DEF k
  <2>2. n - k \in S
    BY <1>3, <2>1
  <2> QED
    BY <2>1, <2>2
<1> QED
  BY <1>4

\* Delimiters are skipped, at most to the end.
LEMMA SkipIs ==
  ASSUME NEW X, NEW s \in Seq(X), NEW d, NEW compress \in BOOLEAN
  PROVE  LET k == CHOOSE f : IsSkip(s, d, compress, f)
         IN  /\ IsSkip(s, d, compress, k)
             /\ \A p \in 1..(Len(s) + 1) : k[p] \in p..(Len(s) + 1)
<1> DEFINE n == Len(s) + 1
           k == CHOOSE f : IsSkip(s, d, compress, f)
           Others(p) == {q \in p..n : ~(compress /\ q <= Len(s) /\ s[q] = d)}
           First(p) == CHOOSE q \in Others(p) : \A r \in Others(p) : q <= r
           F == [p \in 1..n |-> First(p)]
<1>1. Len(s) \in Nat /\ n \in Nat /\ n - 1 = Len(s)
  OBVIOUS
<1>2. ASSUME NEW p \in 1..n
      PROVE  First(p) \in Others(p) /\ \A r \in Others(p) : First(p) <= r
  <2> DEFINE o == Others(p)
  <2>1. o \in SUBSET Nat /\ n \in o
    BY <1>1
  <2> HIDE DEF o
  <2>2. o # {}
    BY <2>1
  <2> DEFINE m == CHOOSE q \in o : \A r \in o : q <= r
  <2>3. m \in o /\ \A r \in o : m <= r
    BY <2>1, <2>2, FirstPlace
  <2>4. First(p) = m
    BY Zenon DEF o
  <2> HIDE DEF m, First
  <2> QED
    BY <2>3, <2>4 DEF o
<1>3. \A p \in 1..n : F[p] = First(p)
  OBVIOUS
<1> HIDE DEF n
<1>4. IsSkip(s, d, compress, F)
  <2>1. ASSUME NEW p \in 1..n
        PROVE  F[p] = IF compress /\ p <= Len(s) /\ s[p] = d THEN F[p + 1] ELSE p
    <3>1. CASE compress /\ p <= Len(s) /\ s[p] = d
      <4>1. p + 1 \in 1..n
        BY <1>1, <3>1 DEF n
      <4>2. Others(p) = Others(p + 1)
        BY <1>1, <3>1
      <4>3. First(p) = First(p + 1)
        <5> DEFINE o == Others(p)
        <5>1. First(p) = CHOOSE q \in o : \A r \in o : q <= r
          OBVIOUS
        <5>2. First(p + 1) = CHOOSE q \in o : \A r \in o : q <= r
          BY <4>2
        <5> QED
          BY <5>1, <5>2
      <4> HIDE DEF F, First
      <4> QED
        BY <1>3, <3>1, <4>1, <4>3
    <3>2. CASE ~(compress /\ p <= Len(s) /\ s[p] = d)
      <4>1. p \in Others(p)
        BY <1>1, <3>2
      <4>2. First(p) \in p..n /\ First(p) <= p
        BY <1>2, <4>1
      <4> HIDE DEF F, First
      <4>3. First(p) = p
        BY <1>1, <4>2
      <4> QED
        BY <1>3, <3>2, <4>3
    <3> QED
      BY <3>1, <3>2
  <2>2. F = [p \in 1..n |-> F[p]]
    BY <1>3
  <2> HIDE DEF F
  <2>3. F = [p \in 1..n |-> IF compress /\ p <= Len(s) /\ s[p] = d THEN F[p + 1] ELSE p]
    BY <2>1, <2>2
  <2> QED
    BY <2>3 DEF IsSkip, n
<1>5. IsSkip(s, d, compress, k)
  <2> HIDE DEF F
  <2> QED
    BY <1>4
<1> HIDE DEF k, F
<1> DEFINE S == {p \in 1..n : k[p] \in p..n}
<1>6. \A p \in 1..n : k[p] = IF compress /\ p <= Len(s) /\ s[p] = d THEN k[p + 1] ELSE p
  BY <1>5 DEF IsSkip, n
<1>7. n \in S
  BY <1>1, <1>6
<1>8. ASSUME NEW m \in 1..(n - 1), m + 1 \in S PROVE m \in S
  <2>1. m \in 1..n /\ k[m + 1] \in (m + 1)..n
    BY <1>1, <1>8
  <2>2. k[m] = k[m + 1] \/ k[m] = m
    BY <1>6, <2>1
  <2> QED
    BY <1>1, <2>1, <2>2
<1>9. \A p \in 1..n : p \in S
  <2> HIDE DEF S
  <2> QED
    BY <1>1, <1>7, <1>8, Downwards
<1> QED
  BY <1>5, <1>9 DEF n, k

\* Parts depend on later ones only.
LEMMA LaterParts ==
  ASSUME NEW X, NEW s \in Seq(X), NEW d, NEW k,
         \A p \in 1..(Len(s) + 1) : k[p] \in p..(Len(s) + 1),
         NEW p \in 1..(Len(s) + 1), NEW f, NEW g,
         \A q \in (p + 1)..(Len(s) + 1) : f[q] = g[q]
  PROVE  PartsAt(s, d, k, f, p) = PartsAt(s, d, k, g, p)
<1> DEFINE i == find(from(s, p), <<d>>)
<1>1. i = npos \/ i \in 1..(Len(s) - p + 1)
  BY FindFrom DEF IsFoundAt
<1> HIDE DEF i
<1>2. Len(s) \in Nat
  OBVIOUS
<1>3. CASE i # npos
  <2>1. p + i \in 1..(Len(s) + 1) /\ p + i > p
    BY <1>1, <1>2, <1>3
  <2>2. k[p + i] \in (p + i)..(Len(s) + 1)
    BY <2>1
  <2>3. k[p + i] \in (p + 1)..(Len(s) + 1)
    BY <1>2, <2>1, <2>2
  <2> QED
    BY <2>3 DEF PartsAt, i
<1>4. CASE i = npos
  BY <1>4 DEF PartsAt, i
<1> QED
  BY <1>3, <1>4

\* The parts of split(), from each place on.
IsSplit(X, s, d, compress, k, g) ==
  /\ \A p \in 1..(Len(s) + 1) :
       /\ k[p] \in p..(Len(s) + 1)
       /\ k[p] = IF compress /\ p <= Len(s) /\ s[p] = d THEN k[p + 1] ELSE p
       /\ g[p] = PartsAt(s, d, k, g, p)
       /\ g[p] \in Seq(Seq(X))
  /\ split(s, d, compress) = g[1]

LEMMA SplitIs ==
  ASSUME NEW X, NEW s \in Seq(X), NEW d, NEW compress \in BOOLEAN
  PROVE  \E k, g : IsSplit(X, s, d, compress, k, g)
<1> DEFINE n == Len(s) + 1
           k == CHOOSE f : IsSkip(s, d, compress, f)
           g == CHOOSE f : IsParts(s, d, k, f)
<1>1. split(s, d, compress) = g[1]
  BY Zenon DEF split, IsSkip, IsParts, PartsAt
<1>2. IsSkip(s, d, compress, k) /\ \A p \in 1..n : k[p] \in p..n
  BY SkipIs
<1>3. Len(s) \in Nat /\ n \in Nat \ {0}
  OBVIOUS
<1> HIDE DEF k
<1>4. \E f : IsParts(s, d, k, f)
  <2> DEFINE Good(m, f) == \A p \in m..n : f[p] = PartsAt(s, d, k, f, p)
             S == {m \in 1..n : \E f : DOMAIN f = 1..n /\ Good(m, f)
                                       /\ f = [p \in 1..n |-> f[p]]}
  <2>1. ASSUME NEW m \in 1..n, NEW f, f = [p \in 1..n |-> f[p]], DOMAIN f = 1..n,
               \A p \in (m + 1)..n : f[p] = PartsAt(s, d, k, f, p)
        PROVE  m \in S
    <3> DEFINE h == [p \in 1..n |-> IF p = m THEN PartsAt(s, d, k, f, m) ELSE f[p]]
    <3>1. h[m] = PartsAt(s, d, k, f, m) /\ \A q \in 1..n : q # m => h[q] = f[q]
      OBVIOUS
    <3>2. DOMAIN h = 1..n /\ h = [p \in 1..n |-> h[p]]
      OBVIOUS
    <3> HIDE DEF h
    <3>3. ASSUME NEW p \in m..n PROVE h[p] = PartsAt(s, d, k, h, p)
      <4>1. p \in 1..n /\ \A q \in (p + 1)..n : q \in 1..n /\ q # m
        BY <1>3
      <4>2. \A q \in (p + 1)..n : f[q] = h[q]
        BY <3>1, <4>1
      <4>3. PartsAt(s, d, k, f, p) = PartsAt(s, d, k, h, p)
        BY <1>2, <4>1, <4>2, LaterParts
      <4>4. CASE p = m
        BY <3>1, <4>3, <4>4
      <4>5. CASE p # m
        <5>1. p \in (m + 1)..n
          BY <1>3, <4>5
        <5> QED
          BY <2>1, <3>1, <4>1, <4>3, <4>5, <5>1
      <4> QED
        BY <4>4, <4>5
    <3> QED
      BY <3>2, <3>3
  <2>2. n \in S
    <3> DEFINE f == [p \in 1..n |-> <<>>]
    <3>1. f = [p \in 1..n |-> f[p]] /\ DOMAIN f = 1..n
      OBVIOUS
    <3>2. (n + 1)..n = {} /\ n \in 1..n
      BY <1>3
    <3> HIDE DEF f, S
    <3> QED
      BY <2>1, <3>1, <3>2
  <2>3. ASSUME NEW m \in 1..(n - 1), m + 1 \in S PROVE m \in S
    <3>1. PICK f : DOMAIN f = 1..n /\ Good(m + 1, f) /\ f = [p \in 1..n |-> f[p]]
      BY <2>3
    <3>2. m \in 1..n
      BY <1>3
    <3> HIDE DEF S
    <3> QED
      BY <2>1, <3>1, <3>2
  <2>4. 1 \in S
    <3>1. 1 \in 1..n
      BY <1>3
    <3> HIDE DEF S, n
    <3> QED
      BY <1>3, <2>2, <2>3, <3>1, Downwards
  <2>5. PICK f : Good(1, f) /\ f = [p \in 1..n |-> f[p]]
    BY <2>4
  <2>6. f = [p \in 1..n |-> PartsAt(s, d, k, f, p)]
    BY <2>5
  <2> QED
    BY <2>6 DEF IsParts
<1>5. IsParts(s, d, k, g)
  BY <1>4
<1> HIDE DEF g
<1>6. \A p \in 1..n : g[p] = PartsAt(s, d, k, g, p)
  BY <1>5 DEF IsParts
<1> DEFINE S == {p \in 1..n : \A q \in p..n : g[q] \in Seq(Seq(X))}
<1>7. ASSUME NEW p \in 1..n, \A q \in (p + 1)..n : g[q] \in Seq(Seq(X))
      PROVE  g[p] \in Seq(Seq(X))
  <2> DEFINE i == find(from(s, p), <<d>>)
  <2>1. IsFoundAt(s, p, d, i)
    BY FindFrom
  <2>2. g[p] = IF i = npos THEN <<from(s, p)>> ELSE <<SubSeq(s, p, p + i - 2)>> \o g[k[p + i]]
    BY <1>6 DEF PartsAt
  <2> HIDE DEF i
  <2>3. CASE i = npos
    <3>1. from(s, p) \in Seq(X)
      BY FromIs
    <3> QED
      BY <2>2, <2>3, <3>1
  <2>4. CASE i # npos
    <3>1. i \in 1..(Len(s) - p + 1)
      BY <2>1, <2>4 DEF IsFoundAt
    <3>2. p + i \in 1..n /\ p + i > p
      BY <1>3, <3>1
    <3>3. g[k[p + i]] \in Seq(Seq(X))
      <4>1. k[p + i] \in (p + i)..n
        BY <1>2, <3>2
      <4>2. k[p + i] \in (p + 1)..n
        BY <1>3, <3>2, <4>1
      <4> QED
        BY <1>7, <4>2
    <3>4. SubSeq(s, p, p + i - 2) \in Seq(X)
      <4>1. \A q \in p..(p + i - 2) : s[q] \in X
        BY <1>3, <3>1
      <4>2. p \in Int /\ p + i - 2 \in Int
        BY <3>1
      <4> QED
        BY <4>1, <4>2, SubSeqProperties
    <3> QED
      BY <2>2, <2>4, <3>3, <3>4
  <2> QED
    BY <2>3, <2>4
<1>8. n \in S
  <2>1. (n + 1)..n = {} /\ n..n = {n} /\ n \in 1..n
    BY <1>3
  <2> QED
    BY <1>7, <2>1
<1>9. ASSUME NEW m \in 1..(n - 1), m + 1 \in S PROVE m \in S
  <2>1. m \in 1..n /\ \A q \in m..n : q = m \/ q \in (m + 1)..n
    BY <1>3
  <2>2. \A q \in (m + 1)..n : g[q] \in Seq(Seq(X))
    BY <1>9
  <2>3. g[m] \in Seq(Seq(X))
    BY <1>7, <2>1, <2>2
  <2> QED
    BY <2>1, <2>2, <2>3
<1>10. ASSUME NEW p \in 1..n PROVE g[p] \in Seq(Seq(X))
  <2>1. p \in S
    <3> HIDE DEF S, n
    <3> QED
      BY <1>3, <1>8, <1>9, Downwards
  <2>2. p \in p..n
    BY <1>3
  <2> QED
    BY <2>1, <2>2
<1>11. \A p \in 1..n : k[p] = IF compress /\ p <= Len(s) /\ s[p] = d THEN k[p + 1] ELSE p
  BY <1>2 DEF IsSkip
<1>12. IsSplit(X, s, d, compress, k, g)
  BY <1>1, <1>2, <1>6, <1>10, <1>11 DEF IsSplit
<1> QED
  BY <1>12

\* The second word of a line whose first two words are single elements.
LEMMA SecondWord ==
  ASSUME NEW X, NEW s \in Seq(X), Len(s) >= 4, NEW d,
         s[1] # d, s[2] = d, s[3] # d, s[4] = d
  PROVE  split(s, d, TRUE)[2] = <<s[3]>>
<1> DEFINE n == Len(s) + 1
<1>1. n \in Nat /\ n >= 5 /\ Len(s) = n - 1
  OBVIOUS
<1>2. PICK k, g : IsSplit(X, s, d, TRUE, k, g)
  BY SplitIs
<1>3. 1 \in 1..n /\ 3 \in 1..n /\ 5 \in 1..n /\ 4 \in 1..n
  BY <1>1
<1>4. ASSUME NEW p \in {1, 3}
      PROVE  find(from(s, p), <<d>>) = 2
  <2> DEFINE i == find(from(s, p), <<d>>)
  <2>1. IsFoundAt(s, p, d, i)
    BY <1>1, FindFrom
  <2> HIDE DEF i
  <2>2. s[p] # d /\ s[p + 1] = d /\ p + 1 \in p..Len(s) /\ p \in p..p
    BY <1>1
  <2>3. i # npos
    BY <2>1, <2>2 DEF IsFoundAt, npos
  <2>4. /\ i \in 1..(Len(s) - p + 1) /\ s[p + i - 1] = d
        /\ \A q \in p..(p + i - 2) : s[q] # d
    BY <2>1, <2>3 DEF IsFoundAt
  <2>5. i # 1
    <3>1. i = 1 => p + i - 1 = p
      OBVIOUS
    <3> QED
      BY <2>2, <2>4, <3>1
  <2>6. ~(i > 2)
    <3>1. SUFFICES ASSUME i > 2 PROVE p + 1 \in p..(p + i - 2)
      BY <2>2, <2>4
    <3> QED
      BY <2>4, <3>1
  <2> QED
    BY <2>4, <2>5, <2>6 DEF i
<1>5. ASSUME NEW p \in {1, 3}
      PROVE  g[p] = <<SubSeq(s, p, p)>> \o g[k[p + 2]]
  <2>1. g[p] = PartsAt(s, d, k, g, p)
    BY <1>2, <1>3 DEF IsSplit
  <2>2. 2 # npos /\ p + 2 - 2 = p
    BY DEF npos
  <2> QED
    BY <1>4, <2>1, <2>2 DEF PartsAt
<1>6. k[3] = 3 /\ k[5] \in 1..n
  <2>1. k[5] \in 5..n
    BY <1>2, <1>3 DEF IsSplit
  <2> QED
    BY <1>1, <1>2, <1>3, <2>1 DEF IsSplit
<1>7. g[1] = <<SubSeq(s, 1, 1)>> \o (<<SubSeq(s, 3, 3)>> \o g[k[5]])
  <2>1. 1 + 2 = 3 /\ 3 + 2 = 5
    OBVIOUS
  <2> QED
    BY <1>5, <1>6, <2>1
<1>8. g[1][2] = SubSeq(s, 3, 3)
  <2> DEFINE a == SubSeq(s, 1, 1)
             b == SubSeq(s, 3, 3)
             rest == g[k[5]]
             Y == Seq(X) \cup {a, b}
  <2>1. rest \in Seq(Y)
    <3>1. rest \in Seq(Seq(X))
      BY <1>2, <1>6 DEF IsSplit
    <3> HIDE DEF a, b, rest
    <3> QED
      BY <3>1, SeqMonotonic
  <2> HIDE DEF a, b, rest
  <2>2. a \in Y /\ b \in Y
    OBVIOUS
  <2> HIDE DEF Y
  <2>3. (<<a>> \o (<<b>> \o rest))[2] = b
    BY <2>1, <2>2
  <2> QED
    BY <1>7, <2>3 DEF a, b, rest
<1>9. SubSeq(s, 3, 3) = <<s[3]>>
  <2>1. 3 \in 1..Len(s)
    BY <1>1
  <2> QED
    BY <2>1, PieceOfOne
<1> QED
  BY <1>2, <1>8, <1>9 DEF IsSplit

\* Each status has a phrase.
LEMMA ReasonIsSeq ==
  ASSUME NEW status \in DOMAIN kTable
  PROVE  IsSeq(kTable[status])
<1>1. /\ IsSeq(<<"OK">>) /\ IsSeq(<<"Created">>) /\ IsSeq(<<"Accepted">>)
      /\ IsSeq(<<"No", Blank, "Content">>) /\ IsSeq(<<"Not", Blank, "Modified">>)
      /\ IsSeq(<<"Bad", Blank, "Request">>) /\ IsSeq(<<"Not", Blank, "Found">>)
      /\ IsSeq(<<"Internal", Blank, "Server", Blank, "Error">>)
      /\ IsSeq(<<"Not", Blank, "Implemented">>) /\ IsSeq(<<"Service", Blank, "Unavailable">>)
  <2>1. \A a : <<a>> \in Seq({a})
    OBVIOUS
  <2>2. \A a, b, c : <<a, b, c>> \in Seq({a, b, c})
    OBVIOUS
  <2>3. \A a, b, c, d, e : <<a, b, c, d, e>> \in Seq({a, b, c, d, e})
    OBVIOUS
  <2> QED
    BY <2>1, <2>2, <2>3, Zenon DEF IsSeq
<1>2. status \in {200, 201, 202, 204, 304, 400, 404, 500, 501, 503}
  BY DEF kTable
<1>3. kTable[status] \in {<<"OK">>, <<"Created">>, <<"Accepted">>, <<"No", Blank, "Content">>,
          <<"Not", Blank, "Modified">>, <<"Bad", Blank, "Request">>, <<"Not", Blank, "Found">>,
          <<"Internal", Blank, "Server", Blank, "Error">>, <<"Not", Blank, "Implemented">>,
          <<"Service", Blank, "Unavailable">>}
  BY <1>2 DEF kTable
<1> QED
  BY <1>1, <1>3, Zenon

\* The second word of the line that begins a response is its status.
LEMMA StatusWord ==
  ASSUME NEW status \in DOMAIN kTable
  PROVE  SplitStartLine(<<"HTTP/1.1", Blank, ToString(status), Blank>> \o kTable[status])[2]
           = <<ToString(status)>>
<1> DEFINE str == ToString(status)
           version == "HTTP/1.1"
           start == <<version, Blank, str, Blank>>
           reason == kTable[status]
           s == start \o reason
<1>1. PICK R : reason \in Seq(R)
  BY ReasonIsSeq DEF IsSeq
<1>2. str # Blank /\ version # Blank
  <2>1. version # Blank
    BY Zenon DEF Blank
  <2> QED
    BY <2>1, StatusAssumption
<1> HIDE DEF str, reason, version
<1> DEFINE X == R \cup {version, Blank, str}
<1>3. reason \in Seq(X)
  BY <1>1, SeqMonotonic
<1>4. /\ start \in Seq(X) /\ Len(start) = 4 /\ start[1] = version /\ start[2] = Blank
      /\ start[3] = str /\ start[4] = Blank
  OBVIOUS
<1> HIDE DEF start, X
<1>5. /\ s \in Seq(X) /\ Len(s) = 4 + Len(reason) /\ Len(reason) \in Nat
      /\ s[1] = version /\ s[2] = Blank /\ s[3] = str /\ s[4] = Blank
  <2>1. start \in Seq(X)
    BY <1>4
  <2>2. s \in Seq(X) /\ Len(s) = Len(start) + Len(reason) /\ Len(reason) \in Nat
    BY <1>3, <2>1
  <2>3. \A i \in 1..Len(start) : s[i] = start[i]
    BY <1>3, <2>1
  <2> HIDE DEF s
  <2>4. 1 \in 1..Len(start) /\ 2 \in 1..Len(start) /\ 3 \in 1..Len(start) /\ 4 \in 1..Len(start)
    BY <1>4
  <2>5. Len(s) = 4 + Len(reason)
    BY <1>4, <2>2
  <2> QED
    BY <1>4, <2>2, <2>3, <2>4, <2>5
<1> HIDE DEF s
<1>6. Len(s) >= 4
  BY <1>5
<1>7. split(s, Blank, TRUE)[2] = <<str>>
  BY <1>2, <1>5, <1>6, SecondWord
<1>8. SplitStartLine(s)[2] = split(s, Blank, TRUE)[2]
  BY DEF SplitStartLine
<1> QED
  BY <1>7, <1>8 DEF s, start, reason, str, version

-----------------------------------------------------------------------------
(* The response *)

\* What the calls of a view leave in its ResponseBuilder: a status that has a phrase,
\* no content without a body, and no coding of the content, which Gzip() sets.
IsAnswer(a) ==
  /\ {"code", "body", "headers"} \subseteq DOMAIN a
  /\ a.code \in DOMAIN kTable
  /\ a.body.kind = "none" => a.body.data = <<>>
  /\ ~IsCompressed(SetAll(a.headers))

\* A response carries the content of an answer, as a stream that is marked, or as it is.
CarriesStream(r, data) ==
  /\ r.body.compressed /\ r.body.kind = "string" /\ IsCompressed(r.headers)
  /\ CanCompress(data) /\ data # <<>> /\ r.body.data = Deflated(data)
CarriesPlain(r, data) ==
  ~r.body.compressed /\ ~IsCompressed(r.headers) /\ FlattenSeq(Payloads(r.body)) = data
Carries(r, data) == CarriesStream(r, data) \/ CarriesPlain(r, data)

\* It is what the builder has built for an answer; and it says which status it has.
IsBuilt(r, a) == r.status = a.code /\ Carries(r, a.body.data)
Says(r, status) ==
  /\ status \in DOMAIN kTable
  /\ r.start_line = <<"HTTP/1.1", Blank, ToString(status), Blank>> \o kTable[status]

\* Headers but Content-Encoding do not tell whether content is compressed.
LEMMA CodingLeft ==
  ASSUME NEW h, IsHeaders(h), NEW value, NEW key,
         key \in {"Connection", "Content-Length", "Content-Type", "Server"}
  PROVE  IsCompressed(SetHeader(h, key, value)) <=> IsCompressed(h)
<1>1. Upper(key) # Upper("Content-Encoding")
  BY ExchangeAssumption DEF iequals
<1>2. GetHeader(SetHeader(h, key, value), "Content-Encoding") = GetHeader(h, "Content-Encoding")
  BY <1>1, SetKeeps
<1> QED
  BY <1>2 DEF IsCompressed

\* What is set for a body tells it, and nothing else does.
LEMMA CodingSet ==
  ASSUME NEW h, IsHeaders(h), ~IsCompressed(h), NEW b, NEW compress \in BOOLEAN
  PROVE  IsCompressed(BodyHeaders(h, b, compress)) <=> compress
<1> DEFINE typed == SetContentType(h, b.media_type, b.charset)
<1>1. IsHeaders(typed)
  BY ContentTypeKeeps
<1>2. ~IsCompressed(typed)
  <2>1. PICK value : SetContentType(h, b.media_type, b.charset) \in
                       {h, SetHeader(h, "Content-Type", value)}
    BY Zenon DEF SetContentType
  <2> QED
    BY <2>1, CodingLeft
<1>3. BodyHeaders(h, b, compress) =
        IF compress THEN SetHeader(typed, "Content-Encoding", <<"gzip">>) ELSE typed
  BY DEF BodyHeaders
<1> HIDE DEF typed
<1>4. <<"gzip">> # <<>>
  OBVIOUS
<1>5. GetHeader(SetHeader(typed, "Content-Encoding", <<"gzip">>), "Content-Encoding") = <<"gzip">>
  BY <1>1, <1>4, SetKeeps
<1> QED
  BY <1>2, <1>3, <1>5 DEF IsCompressed

\* SetBody() with a body that is written as data.
LEMMA BodyCarries ==
  ASSUME NEW m, {"body", "headers", "status"} \subseteq DOMAIN m, IsHeaders(m.headers),
         NEW body, NEW data,
         CarriesStream([body |-> body, headers |-> m.headers], data)
           \/ CarriesPlain([body |-> body, headers |-> m.headers], data)
  PROVE  SetBody(m, body).status = m.status /\ Carries(SetBody(m, body), data)
<1> DEFINE r == SetBody(m, body)
           value == <<ToString(GetSize(body))>>
<1>1. r.body = body /\ r.status = m.status /\ r.headers = SetHeader(m.headers, "Content-Length", value)
  BY DEF SetBody
<1> HIDE DEF r, value
<1>2. IsCompressed(r.headers) <=> IsCompressed(m.headers)
  BY <1>1, CodingLeft
<1>3. Carries(r, data)
  BY <1>1, <1>2 DEF Carries, CarriesStream, CarriesPlain
<1> QED
  BY <1>1, <1>3 DEF r

\* A body of a builder that is not compressed is written as it is.
LEMMA WrittenAsIs ==
  ASSUME NEW b, IsBuilder(b), b.body.kind # "none"
  PROVE  FlattenSeq(Payloads(b.body)) = b.body.data
<1>1. CASE b.body.kind = "string"
  <2>1. Payloads(b.body) = <<b.body.data>>
    BY <1>1 DEF Payloads
  <2>2. FlattenSeq(<<b.body.data>>) = b.body.data
    BY FlattenOne
  <2> QED
    BY <2>1, <2>2
<1>2. CASE b.body.kind = "file"
  <2>1. Payloads(b.body) = pieces(b.body.data, ChunkSize)
    BY <1>2 DEF Payloads
  <2>2. PICK X : b.body.data \in Seq(X)
    BY DEF IsBuilder, IsSeq
  <2> QED
    BY <2>1, <2>2, PiecesJoined, MessageAssumption
<1> QED
  BY <1>1, <1>2 DEF IsBuilder

\* ResponseBuilder puts the content of an answer into the response, compressed or not.
LEMMA AnswerBuilt ==
  ASSUME NEW a, IsBuilder(a), IsAnswer(a), NEW known \in BOOLEAN, NEW request_headers
  PROVE  IsBuilt(BuiltResponse(a, known, request_headers), a)
<1> DEFINE compress == a.gzip /\ known /\ AcceptEncodingGzip(request_headers) /\ CanCompressBody(a.body)
           headers == SetAll(a.headers)
           empty == [outcome |-> "built", status |-> a.code, start_line |-> <<>>,
                     headers |-> headers, body |-> EmptyBody]
<1>1. IsHeaders(headers) /\ ~IsCompressed(headers)
  <2>1. IsHeaders(headers)
    BY NoHeaders, SetFieldsKeeps DEF SetAll, IsBuilder
  <2> QED
    BY <2>1 DEF IsAnswer
<1> HIDE DEF headers
<1>2. /\ {"body", "headers", "status"} \subseteq DOMAIN empty
      /\ empty.headers = headers /\ empty.status = a.code
  OBVIOUS
<1> HIDE DEF empty
<1>3. CASE a.body.kind = "none"
  <2>1. BuiltResponse(a, known, request_headers) = SetBody(empty, EmptyBody)
    BY <1>3 DEF BuiltResponse, empty, headers
  <2>2. CarriesPlain([body |-> EmptyBody, headers |-> empty.headers], a.body.data)
    <3>1. Payloads(EmptyBody) = <<>> /\ ~EmptyBody.compressed
      BY DEF Payloads, EmptyBody
    <3> QED
      BY <1>1, <1>2, <1>3, <3>1, FlattenEmpty DEF CarriesPlain, IsAnswer
  <2>3. /\ SetBody(empty, EmptyBody).status = empty.status
        /\ Carries(SetBody(empty, EmptyBody), a.body.data)
    BY <1>1, <1>2, <2>2, BodyCarries
  <2> QED
    BY <1>2, <2>1, <2>3 DEF IsBuilt
<1>4. CASE a.body.kind # "none"
  <2> DEFINE e == [empty EXCEPT !.headers = BodyHeaders(@, a, compress)]
             body == IF compress THEN CompressBody(a.body) ELSE a.body
  <2>1. compress \in BOOLEAN
    OBVIOUS
  <2>2. IsHeaders(BodyHeaders(headers, a, compress))
    BY <1>1, BodyHeadersKeep
  <2>3. IsCompressed(BodyHeaders(headers, a, compress)) <=> compress
    BY <1>1, <2>1, CodingSet
  <2>4. BuiltResponse(a, known, request_headers) = SetBody(e, body)
    BY <1>4 DEF BuiltResponse, empty, headers
  <2>5. /\ {"body", "headers", "status"} \subseteq DOMAIN e
        /\ e.headers = BodyHeaders(headers, a, compress) /\ e.status = a.code
    BY <1>2
  <2> HIDE DEF e
  <2>6. CASE compress
    <3> DEFINE data == a.body.data
    <3>1. CanCompress(data) /\ Len(data) > kGzipThreshold /\ ~a.body.compressed
      BY <2>6 DEF CanCompressBody, IsBuilder
    <3>2. PICK X : data \in Seq(X)
      BY DEF IsBuilder, IsSeq
    <3>3. data # <<>>
      BY <3>1, <3>2, MessageAssumption
    <3>4. Compress(data) = Deflated(data)
      BY <3>1, <3>2, <3>3, CompressTakesAll DEF CanCompress
    <3>5. body = StringBody(Deflated(data), TRUE)
      BY <2>6, <3>1, <3>4 DEF CompressBody
    <3>6. IsCompressed(e.headers)
      BY <2>3, <2>5, <2>6
    <3> HIDE DEF data, body, compress
    <3>7. CarriesStream([body |-> body, headers |-> e.headers], data)
      BY <3>1, <3>3, <3>5, <3>6 DEF CarriesStream, StringBody
    <3>8. IsHeaders(e.headers)
      BY <2>2, <2>5
    <3>9. SetBody(e, body).status = e.status /\ Carries(SetBody(e, body), data)
      BY <2>5, <3>7, <3>8, BodyCarries
    <3> QED
      BY <2>4, <2>5, <3>9 DEF IsBuilt, data
  <2>7. CASE ~compress
    <3>1. body = a.body /\ ~a.body.compressed
      BY <2>7 DEF IsBuilder
    <3>2. ~IsCompressed(e.headers) /\ IsHeaders(e.headers)
      BY <2>2, <2>3, <2>5, <2>7
    <3>3. FlattenSeq(Payloads(a.body)) = a.body.data
      BY <1>4, WrittenAsIs
    <3> HIDE DEF body, compress
    <3>4. CarriesPlain([body |-> body, headers |-> e.headers], a.body.data)
      BY <3>1, <3>2, <3>3 DEF CarriesPlain
    <3>5. SetBody(e, body).status = e.status /\ Carries(SetBody(e, body), a.body.data)
      BY <2>5, <3>2, <3>4, BodyCarries
    <3> QED
      BY <2>4, <2>5, <3>5 DEF IsBuilt
  <2> QED
    BY <2>6, <2>7
<1> QED
  BY <1>3, <1>4

\* SendResponse() keeps the content and says the status.
LEMMA SendCarries ==
  ASSUME NEW r, IsMessage(r), r.status \in DOMAIN kTable, NEW data, Carries(r, data),
         NEW keep \in BOOLEAN
  PROVE  Says(SendResponse(r, keep), r.status) /\ Carries(SendResponse(r, keep), data)
<1> DEFINE value == IF keep THEN <<"Keep-Alive">> ELSE <<"Close">>
           h == SetHeader(r.headers, "Connection", value)
           w == SendResponse(r, keep)
<1>1. /\ w.headers = SetHeader(h, "Server", <<"Webcc">>) /\ w.body = r.body
      /\ w.start_line = <<"HTTP/1.1", Blank, ToString(r.status), Blank>> \o kTable[r.status]
  BY DEF SendResponse, PrepareResponse, IsMessage
<1> HIDE DEF value, w
<1>2. IsHeaders(h) /\ (IsCompressed(h) <=> IsCompressed(r.headers))
  BY SetKeeps, CodingLeft DEF IsMessage
<1> HIDE DEF h
<1>3. IsCompressed(w.headers) <=> IsCompressed(r.headers)
  BY <1>1, <1>2, CodingLeft
<1>4. Carries(w, data)
  BY <1>1, <1>3 DEF Carries, CarriesStream, CarriesPlain
<1>5. Says(w, r.status)
  BY <1>1, Zenon DEF Says
<1> QED
  BY <1>4, <1>5 DEF w

\* Without fields, there are no headers.
LEMMA NothingSet == SetAll(<<>>) = <<>>
<1>1. <<>> \in Seq({}) /\ Len(<<>>) = 0
  OBVIOUS
<1>2. PICK g : IsChain(g, <<>>, <<>>, FALSE) /\ SetFields(<<>>, <<>>, FALSE) = g[Len(<<>>)]
  BY <1>1, FieldsInOrder
<1> QED
  BY <1>1, <1>2 DEF IsChain, SetAll

\* The body that a parser makes of a response that carries data: the data, unless it is
\* told to ignore the body, or does not decompress what it streams.
IsReceived(body, r, data, stream, ignore_body) ==
  /\ ignore_body => body.data = <<>>
  /\ ~ignore_body /\ stream /\ r.body.compressed => Inflated(body.data) = data
  /\ ~ignore_body /\ ~(stream /\ r.body.compressed) => body.data = data

\* It is received whatever parser reads it.
LEMMA CarriedReceived ==
  ASSUME NEW r, IsMessage(r), HasHeader(r.headers, "Content-Length"),
         NEW X, NEW data \in Seq(X), Carries(r, data),
         NEW stream \in BOOLEAN, NEW ignore_body \in BOOLEAN
  PROVE  IsReceived(Received(Written(r), FALSE, stream, ignore_body).body, r, data, stream, ignore_body)
<1> DEFINE w == Written(r)
           content == IF ignore_body THEN <<>> ELSE w.content
           plain == StringBody(content, IsCompressed(r.headers))
           body == Received(w, FALSE, stream, ignore_body).body
<1>1. w.headers = r.headers /\ w.content = FlattenSeq(Payloads(r.body))
  BY DEF Written
<1>2. ReceivedHeaders(w) = r.headers
  BY <1>1, ReceivedAsWritten DEF ReceivedHeaders, IsMessage
<1>3. body = FinishBody(r.headers, content, FALSE, stream)
  BY <1>2 DEF Received
<1>4. body = IF stream THEN FileBody(content)
             ELSE IF content # <<>> /\ CanDecompressBody(plain) THEN DecompressBody(plain)
             ELSE EmptyBody
  BY <1>3 DEF FinishBody
<1>n. SUFFICES IsReceived(body, r, data, stream, ignore_body)
  OBVIOUS
<1> HIDE DEF w, body
<1>5. CASE ignore_body
  <2>1. content = <<>>
    BY <1>5
  <2> QED
    BY <1>4, <1>5, <2>1 DEF FileBody, EmptyBody, IsReceived
<1>6. CASE ~ignore_body /\ CarriesStream(r, data)
  <2>1. Payloads(r.body) = <<Deflated(data)>>
    BY <1>6 DEF CarriesStream, Payloads
  <2>2. FlattenSeq(<<Deflated(data)>>) = Deflated(data)
    BY FlattenOne
  <2>3. content = Deflated(data)
    BY <1>1, <1>6, <2>1, <2>2
  <2>4. Deflated(data) # <<>> /\ Inflated(Deflated(data)) = data
    BY DEF Deflated, Inflated
  <2>5. CASE stream
    BY <1>4, <1>6, <2>3, <2>4, <2>5 DEF FileBody, CarriesStream, IsReceived
  <2>6. CASE ~stream
    <3>1. Compress(data) = Deflated(data)
      BY <1>6, CompressTakesAll DEF CarriesStream, CanCompress
    <3>2. CanDecompress(Deflated(data)) /\ Decompress(Deflated(data)) = data
      BY <1>6, <3>1, GzipRoundTrip DEF CarriesStream
    <3>3. plain = StringBody(Deflated(data), TRUE)
      <4>1. IsCompressed(r.headers) = TRUE
        BY <1>6 DEF CarriesStream, IsCompressed
      <4> HIDE DEF content
      <4> QED
        BY <2>3, <4>1
    <3> HIDE DEF content, plain
    <3>4. CanDecompressBody(plain) /\ DecompressBody(plain) = StringBody(data, FALSE)
      BY <3>2, <3>3 DEF CanDecompressBody, DecompressBody, StringBody
    <3>5. body = StringBody(data, FALSE)
      BY <1>4, <2>3, <2>4, <2>6, <3>4
    <3> QED
      BY <1>6, <2>6, <3>5 DEF StringBody, IsReceived
  <2> QED
    BY <2>5, <2>6
<1>7. CASE ~ignore_body /\ CarriesPlain(r, data)
  <2>1. content = data
    BY <1>1, <1>7 DEF CarriesPlain
  <2>2. plain = StringBody(data, FALSE)
    <3>1. IsCompressed(r.headers) = FALSE
      BY <1>7 DEF CarriesPlain, IsCompressed
    <3> HIDE DEF content
    <3> QED
      BY <2>1, <3>1
  <2> HIDE DEF content, plain
  <2>3. CanDecompressBody(plain) /\ DecompressBody(plain) = StringBody(data, FALSE)
    BY <2>2 DEF CanDecompressBody, DecompressBody, StringBody
  <2>4. body = IF stream THEN FileBody(data) ELSE IF data # <<>> THEN StringBody(data, FALSE)
               ELSE EmptyBody
    BY <1>4, <2>1, <2>3
  <2>5. body.data = data
    BY <2>4 DEF FileBody, StringBody, EmptyBody
  <2> QED
    BY <1>7, <2>5 DEF CarriesPlain, IsReceived
<1> QED
  BY <1>5, <1>6, <1>7 DEF Carries

\* The status that goes into the response: a request that is refused is a bad one.
Refused(s) == s.outcome \in {"failed", "no file"}
StatusOf(s, a) == IF Refused(s) THEN 400 ELSE a.code

\* ResponseArrives, with these names.
Arrived ==
  got # Nothing =>
    /\ got.status = StatusOf(seen, answer)
    /\ IsReceived(got.body, response, answer.body.data, got.stream, request.method = kHead)

\* A request that was parsed is not refused, nor is one that is forgotten.
LEMMA NotRefused ==
  ASSUME NEW s, s.outcome \in {"finished", "none"}
  PROVE  ~Refused(s)
<1>1. /\ "finished" # "failed" /\ "finished" # "no file"
      /\ "none" # "failed" /\ "none" # "no file"
  BY Zenon
<1> QED
  BY <1>1, Zenon DEF Refused

\* What there is in which phase.  ResponseArrives alone says nothing before the response
\* has come: what the response says and carries is traced from the calls of the view.
RespondInv ==
  /\ IsAnswer(answer)
  /\ pc # "done" => got = Nothing
  /\ pc \in {"build", "built", "sent", "refused"} => answer.body = NoBody
  /\ pc = "handle" => seen.outcome = "finished"
  /\ pc = "refused" => Refused(seen)
  /\ pc = "responded" =>
       Says(response, StatusOf(seen, answer)) /\ Carries(response, answer.body.data)
  /\ Arrived

\* The client knows nothing of it yet.
LEMMA ClientBefore ==
  RespondInv /\ (BuilderCall \/ Build \/ Send) => RespondInv'
<1>1. SUFFICES ASSUME RespondInv, BuilderCall \/ Build \/ Send PROVE RespondInv'
  OBVIOUS
<1>2. /\ pc \in {"build", "built"} /\ pc' \in {"build", "built", "sent", "threw"}
      /\ UNCHANGED <<answer, seen, response, got>>
  <2>1. CASE BuilderCall
    BY <2>1, CallOnly DEF serverVars
  <2>2. CASE Build
    BY <2>2 DEF Build, serverVars
  <2>3. CASE Send
    BY <2>3 DEF Send, serverVars
  <2> QED
    BY <1>1, <2>1, <2>2, <2>3
<1> QED
  BY <1>1, <1>2 DEF RespondInv, Arrived

\* A request is handled or refused.
LEMMA ParseDecides ==
  ASSUME NEW stream \in BOOLEAN, RespondInv, ParseRequest(stream)
  PROVE  RespondInv'
<1>1. /\ pc = "sent" /\ UNCHANGED <<answer, response, got>>
      /\ \/ /\ pc' = "handle"
            /\ \E m, u, h, b, n, t :
                 seen' = [outcome |-> "finished", method |-> m, url |-> u, headers |-> h, body |-> b,
                          unread |-> n, stream |-> t]
         \/ /\ pc' = "refused"
            /\ \E o \in {"no file", "failed"} : seen' = [Nothing EXCEPT !.outcome = o]
  BY Zenon DEF ParseRequest
<1>2. CASE pc' = "handle"
  BY <1>1, <1>2 DEF RespondInv, Arrived
<1>3. CASE pc' = "refused"
  <2>1. PICK o \in {"no file", "failed"} : seen' = [Nothing EXCEPT !.outcome = o]
    BY <1>1, <1>3, Zenon
  <2>2. seen'.outcome = o
    BY <2>1 DEF Nothing
  <2>3. Refused(seen')
    BY <2>1, <2>2, Zenon DEF Refused
  <2> QED
    BY <1>1, <1>3, <2>3 DEF RespondInv, Arrived
<1> QED
  BY <1>1, <1>2, <1>3

\* A call of the view leaves an answer.
LEMMA CallAnswers ==
  ASSUME IsAnswer(answer), IsBuilder(answer), AnswerCall
  PROVE  IsAnswer(answer')
<1>1. \/ \E code \in Codes : answer' = [answer EXCEPT !.code = code]
      \/ \E data \in Bodies : answer' = [answer EXCEPT !.body = StringBody(data, FALSE)]
      \/ \E f \in Fields : answer' = [answer EXCEPT !.headers = Append(@, f)]
      \/ answer' = [answer EXCEPT !.media_type = <<"application/json">>, !.charset = <<"utf-8">>]
      \/ answer' = [answer EXCEPT !.body = FileBody(TheFile),
                                  !.media_type = <<FromExtension(".jpg")>>]
      \/ answer' = [answer EXCEPT !.gzip = TRUE]
  BY Zenon DEF AnswerCall, Answer
<1>2. ASSUME NEW code \in Codes, answer' = [answer EXCEPT !.code = code]
      PROVE  IsAnswer(answer')
  <2>1. code \in DOMAIN kTable
    BY StatusAssumption
  <2> QED
    BY <1>2, <2>1 DEF IsAnswer
<1>3. ASSUME NEW data, answer' = [answer EXCEPT !.body = StringBody(data, FALSE)]
      PROVE  IsAnswer(answer')
  BY <1>3 DEF IsAnswer, StringBody
<1>4. ASSUME NEW f \in Fields, answer' = [answer EXCEPT !.headers = Append(@, f)]
      PROVE  IsAnswer(answer')
  <2> DEFINE given == SetAll(answer.headers)
             u == SetHeader(given, f[1], f[2])
  <2>1. answer'.headers = Append(answer.headers, f)
    BY <1>4 DEF IsAnswer
  <2>2. SetAll(answer'.headers) = u
    BY <2>1, SetAllOneMore DEF IsBuilder
  <2>3. IsHeaders(given) /\ ~IsCompressed(given)
    <3>1. IsHeaders(given)
      BY NoHeaders, SetFieldsKeeps DEF SetAll, IsBuilder
    <3> QED
      BY <3>1 DEF IsAnswer
  <2> HIDE DEF given
  <2>4. ~IsCompressed(u)
    <3>1. CASE f[2] = <<>>
      BY <2>3, <3>1 DEF SetHeader
    <3>2. CASE f[2] # <<>> /\ ~iequals(f[1], "Content-Encoding")
      <4>1. Upper("Content-Encoding") # Upper(f[1])
        BY <3>2 DEF iequals
      <4>2. GetHeader(u, "Content-Encoding") = GetHeader(given, "Content-Encoding")
        BY <2>3, <4>1, SetKeeps
      <4> QED
        BY <2>3, <4>2 DEF IsCompressed
    <3>3. CASE f[2] # <<>> /\ iequals(f[1], "Content-Encoding")
      <4>1. GetHeader(u, f[1]) = f[2]
        BY <2>3, <3>3, SetKeeps
      <4>2. GetHeader(u, "Content-Encoding") = f[2]
        BY <3>3, <4>1, SameKey DEF iequals
      <4>3. f[2] \notin {<<"gzip">>, <<"deflate">>}
        BY <3>3, ExchangeAssumption
      <4> QED
        BY <4>2, <4>3 DEF IsCompressed
    <3> QED
      BY <3>1, <3>2, <3>3
  <2> QED
    BY <1>4, <2>2, <2>4 DEF IsAnswer
<1>5. ASSUME answer' = [answer EXCEPT !.media_type = <<"application/json">>, !.charset = <<"utf-8">>]
      PROVE  IsAnswer(answer')
  BY <1>5 DEF IsAnswer
<1>6. ASSUME NEW t, answer' = [answer EXCEPT !.body = FileBody(TheFile), !.media_type = t]
      PROVE  IsAnswer(answer')
  BY <1>6 DEF IsAnswer, FileBody
<1>7. ASSUME answer' = [answer EXCEPT !.gzip = TRUE]
      PROVE  IsAnswer(answer')
  BY <1>7 DEF IsAnswer
<1> QED
  BY <1>1, <1>2, <1>3, <1>4, <1>5, <1>6, <1>7, Zenon

\* The response says and carries what the view has answered, or that the request was bad.
LEMMA ServerAnswers ==
  ASSUME AgreedInv, RespondInv, AnswerCall \/ Respond \/ RespondBadRequest
  PROVE  RespondInv'
<1>1. CASE AnswerCall
  <2>1. pc = "handle" /\ UNCHANGED <<pc, request, seen, response, got>>
    BY <1>1 DEF AnswerCall, Answer, clientVars
  <2>2. IsAnswer(answer')
    BY <1>1, CallAnswers DEF AgreedInv, RespondInv
  <2> QED
    BY <2>1, <2>2 DEF RespondInv, Arrived
<1>2. CASE Respond
  <2> DEFINE keep == IsConnectionKeepAlive(seen.headers)
  <2>1. /\ pc = "handle" /\ UNCHANGED <<request, seen, answer, got>>
        /\ \E known \in BOOLEAN :
             response' = SendResponse(BuiltResponse(answer, known, seen.headers), keep)
        /\ pc' \in {"responded", "crashed"}
    BY <1>2 DEF Respond, clientVars
  <2>2. keep \in BOOLEAN
    BY DEF IsConnectionKeepAlive
  <2> HIDE DEF keep
  <2>3. PICK known \in BOOLEAN :
          response' = SendResponse(BuiltResponse(answer, known, seen.headers), keep)
    BY <2>1
  <2> DEFINE r == BuiltResponse(answer, known, seen.headers)
  <2>4. IsMessage(r) /\ IsBuilt(r, answer)
    BY BuiltAnswer, AnswerBuilt DEF AgreedInv, RespondInv
  <2> HIDE DEF r
  <2>5. answer.code \in DOMAIN kTable
    BY DEF RespondInv, IsAnswer
  <2>6. Says(SendResponse(r, keep), answer.code) /\ Carries(SendResponse(r, keep), answer.body.data)
    BY <2>2, <2>4, <2>5, SendCarries DEF IsBuilt
  <2>7. StatusOf(seen, answer) = answer.code
    BY <2>1, NotRefused DEF RespondInv, StatusOf
  <2>8. Says(response', StatusOf(seen, answer)) /\ Carries(response', answer.body.data)
    BY <2>3, <2>6, <2>7 DEF r
  <2> QED
    BY <2>1, <2>8 DEF RespondInv, Arrived
<1>3. CASE RespondBadRequest
  <2> DEFINE e == [outcome |-> "built", status |-> 400, start_line |-> <<>>,
                   headers |-> <<>>, body |-> EmptyBody]
             r == SetBody(e, EmptyBody)
  <2>1. /\ pc = "refused" /\ UNCHANGED <<request, seen, answer, got>>
        /\ response' = SendResponse(r, FALSE) /\ pc' \in {"responded", "lost"}
    BY <1>3 DEF RespondBadRequest, clientVars
  <2>2. /\ {"body", "headers", "start_line", "status"} \subseteq DOMAIN e
        /\ e.headers = <<>> /\ e.status = 400
    OBVIOUS
  <2>3. IsBody(EmptyBody)
    BY SeqsMade DEF IsBody, EmptyBody
  <2>4. ~IsCompressed(<<>>)
    <3>1. FindHeader(<<>>, "Content-Encoding") = {}
      BY DEF FindHeader
    <3> QED
      BY <3>1 DEF IsCompressed, GetHeader, HasHeader
  <2> HIDE DEF e
  <2>5. IsMessage(r)
    BY <2>2, <2>3, NoHeaders, SetBodyMakes
  <2>6. CarriesPlain([body |-> EmptyBody, headers |-> e.headers], <<>>)
    <3>1. Payloads(EmptyBody) = <<>> /\ ~EmptyBody.compressed
      BY DEF Payloads, EmptyBody
    <3> QED
      BY <2>2, <2>4, <3>1, FlattenEmpty DEF CarriesPlain
  <2>7. r.status = 400 /\ Carries(r, <<>>)
    BY <2>2, <2>6, NoHeaders, BodyCarries
  <2> HIDE DEF r
  <2>8. 400 \in DOMAIN kTable
    BY DEF kTable
  <2>9. Says(response', 400) /\ Carries(response', <<>>)
    <3>1. FALSE \in BOOLEAN /\ r.status \in DOMAIN kTable
      BY <2>7, <2>8
    <3>2. Says(SendResponse(r, FALSE), r.status) /\ Carries(SendResponse(r, FALSE), <<>>)
      BY <2>5, <2>7, <3>1, SendCarries
    <3> QED
      BY <2>1, <2>7, <3>2
  <2>10. StatusOf(seen, answer) = 400 /\ answer.body.data = <<>>
    BY <2>1 DEF RespondInv, StatusOf, NoBody
  <2> QED
    BY <2>1, <2>9, <2>10 DEF RespondInv, Arrived
<1> QED
  BY <1>1, <1>2, <1>3

\* The status is read from the line that says it.
LEMMA SaidIsRead ==
  ASSUME NEW r, NEW status, Says(r, status)
  PROVE  (CHOOSE s \in DOMAIN kTable : <<ToString(s)>> = SplitStartLine(r.start_line)[2]) = status
<1>1. SplitStartLine(r.start_line)[2] = <<ToString(status)>>
  BY StatusWord DEF Says
<1>2. status \in DOMAIN kTable
  BY DEF Says
<1>3. ASSUME NEW s \in DOMAIN kTable, <<ToString(s)>> = <<ToString(status)>>
      PROVE  s = status
  <2>1. ToString(s) = ToString(status)
    BY <1>3
  <2> QED
    BY <1>2, <2>1, StatusAssumption
<1>4. ASSUME NEW s \in DOMAIN kTable PROVE <<ToString(s)>> = <<ToString(status)>> <=> s = status
  BY <1>3
<1> QED
  BY <1>1, <1>2, <1>4, Zenon

\* The client finds what the response says and carries.
LEMMA ReceiveFinds ==
  ASSUME NEW stream \in BOOLEAN, AgreedInv, RespondInv, ReceiveResponse(stream)
  PROVE  RespondInv'
<1> DEFINE ignore_body == request.method = kHead
           parsed == Received(Written(response), FALSE, stream, ignore_body)
           status == CHOOSE s \in DOMAIN kTable :
                       <<ToString(s)>> = SplitStartLine(Written(response).start_line)[2]
<1>1. /\ pc = "responded" /\ UNCHANGED <<request, seen, answer, response>>
      /\ \/ /\ pc' = "done"
            /\ got' = [outcome |-> "finished", status |-> status, headers |-> parsed.headers,
                       body |-> parsed.body, unread |-> parsed.unread, stream |-> stream]
         \/ pc' = "failed" /\ UNCHANGED got
  BY Zenon DEF ReceiveResponse, ignroe_body, clientVars, serverVars
<1>2. status = StatusOf(seen, answer)
  <2>1. Written(response).start_line = response.start_line
    BY DEF Written
  <2>2. Says(response, StatusOf(seen, answer))
    BY <1>1 DEF RespondInv
  <2>3. (CHOOSE s \in DOMAIN kTable : <<ToString(s)>> = SplitStartLine(response.start_line)[2]) =
          StatusOf(seen, answer)
    BY <2>2, SaidIsRead
  <2> QED
    BY <2>1, <2>3, Zenon
<1>3. ignore_body \in BOOLEAN
  OBVIOUS
<1>4. PICK X : answer.body.data \in Seq(X)
  BY DEF AgreedInv, IsBuilder, IsSeq
<1>5. /\ IsMessage(response) /\ HasHeader(response.headers, "Content-Length")
      /\ Carries(response, answer.body.data)
  BY <1>1 DEF AgreedInv, RespondInv
<1> HIDE DEF status
<1>6. IsReceived(parsed.body, response, answer.body.data, stream, ignore_body)
  BY <1>3, <1>4, <1>5, CarriedReceived
<1> HIDE DEF parsed
<1>7. CASE pc' = "done"
  <2>1. got'.status = status /\ got'.body = parsed.body /\ got'.stream = stream
    BY <1>1, <1>7
  <2>2. Arrived'
    BY <1>1, <1>2, <1>6, <2>1 DEF Arrived
  <2> QED
    BY <1>1, <1>7, <2>2 DEF RespondInv
<1>8. CASE pc' # "done"
  BY <1>1, <1>8 DEF RespondInv, Arrived
<1> QED
  BY <1>7, <1>8

\* Nothing else touches it.
LEMMA OthersLeaveResponse ==
  ASSUME RespondInv,
         \/ BreakOffRequest \/ BreakOffResponse
         \/ MoveRequestFile \/ MoveResponseFile \/ DropRequest \/ DropResponse
  PROVE  RespondInv'
<1>1. CASE BreakOffRequest \/ BreakOffResponse
  <2>1. /\ pc' = "lost" /\ pc # "done" /\ UNCHANGED <<request, answer, seen, response, got>>
    BY <1>1 DEF BreakOffRequest, BreakOffResponse, BreakOff, clientVars, serverVars
  <2> QED
    BY <2>1 DEF RespondInv, Arrived
<1>2. CASE MoveRequestFile \/ MoveResponseFile
  <2>1. UNCHANGED <<pc, request, answer, seen, response, got>>
    BY <1>2 DEF MoveRequestFile, MoveResponseFile, clientVars, serverVars
  <2> QED
    BY <2>1 DEF RespondInv, Arrived
<1>3. CASE DropRequest
  <2>1. /\ pc = "done" /\ seen.outcome = "finished" /\ seen' = Nothing
        /\ UNCHANGED <<pc, request, answer, response, got>>
    BY <1>3 DEF DropRequest, clientVars
  <2>2. StatusOf(seen', answer') = StatusOf(seen, answer)
    <3>1. ~Refused(seen) /\ ~Refused(seen')
      BY <2>1, NotRefused DEF Nothing
    <3> QED
      BY <2>1, <3>1 DEF StatusOf
  <2> QED
    BY <2>1, <2>2 DEF RespondInv, Arrived
<1>4. CASE DropResponse
  <2>1. pc = "done" /\ got' = Nothing /\ UNCHANGED <<pc, request, answer, seen, response>>
    BY <1>4 DEF DropResponse, clientVars, serverVars
  <2> QED
    BY <2>1 DEF RespondInv, Arrived
<1> QED
  BY <1>1, <1>2, <1>3, <1>4

\* The status and the content of the view's answer reach the client, whatever the calls
\* of both builders were, if none says by Transfer-Encoding that the content is chunked
\* (ExchangeAssumption): compressed by gzip::Compress() and decompressed if both sides
\* want it, sent in payloads of any size (FileBody::NextPayload()), and streamed to a
\* file or not; a request that cannot be parsed is answered with Bad Request.
THEOREM ResponseReachesTheClient == Spec => []ResponseArrives
<1>1. Init => RespondInv
  <2>1. SUFFICES ASSUME Init PROVE RespondInv
    OBVIOUS
  <2>2. /\ pc = "build" /\ got = Nothing /\ answer.body = NoBody /\ answer.headers = <<>>
        /\ answer.code = 200 /\ {"code", "body", "headers"} \subseteq DOMAIN answer
    BY <2>1 DEF Init
  <2>3. ~IsCompressed(SetAll(<<>>))
    <3>1. SetAll(<<>>) = <<>>
      BY NothingSet
    <3>2. FindHeader(<<>>, "Content-Encoding") = {}
      BY DEF FindHeader
    <3> QED
      BY <3>1, <3>2 DEF IsCompressed, GetHeader, HasHeader
  <2>4. 200 \in DOMAIN kTable
    BY DEF kTable
  <2> QED
    BY <2>2, <2>3, <2>4 DEF RespondInv, Arrived, IsAnswer, NoBody
<1>2. RespondInv /\ AgreedInv /\ [Next]_vars => RespondInv'
  <2>1. SUFFICES ASSUME RespondInv, AgreedInv, [Next]_vars PROVE RespondInv'
    OBVIOUS
  <2>2. CASE Next
    BY <2>1, <2>2, ClientBefore, ParseDecides, ServerAnswers, ReceiveFinds, OthersLeaveResponse,
       Zenon DEF Next
  <2>3. CASE UNCHANGED vars
    BY <2>1, <2>3 DEF RespondInv, Arrived, vars, clientVars, serverVars
  <2>4. QED
    BY <2>1, <2>2, <2>3
<1>3. RespondInv => ResponseArrives
  <2>1. SUFFICES ASSUME RespondInv, got # Nothing
                 PROVE  /\ got.status = StatusOf(seen, answer)
                        /\ IF request.method = kHead THEN got.body.data = <<>>
                           ELSE IF got.stream /\ response.body.compressed
                                THEN Inflated(got.body.data) = answer.body.data
                                ELSE got.body.data = answer.body.data
    BY Zenon DEF ResponseArrives, StatusOf, Refused
  <2>2. /\ got.status = StatusOf(seen, answer)
        /\ IsReceived(got.body, response, answer.body.data, got.stream, request.method = kHead)
    BY <2>1 DEF RespondInv, Arrived
  <2>3. CASE request.method = kHead
    BY <2>2, <2>3 DEF IsReceived
  <2>4. CASE request.method # kHead /\ got.stream /\ response.body.compressed
    BY <2>2, <2>4 DEF IsReceived
  <2>5. CASE request.method # kHead /\ ~(got.stream /\ response.body.compressed)
    BY <2>2, <2>5 DEF IsReceived
  <2> QED
    BY <2>3, <2>4, <2>5
<1>4. QED
  BY <1>1, <1>2, <1>3, AlwaysAgreed, PTL DEF Spec

-----------------------------------------------------------------------------
(* Percent-encoding *)

\* Sequences end to end, one after the other.
IsRun(X, seqs, f) ==
  /\ f[0] = <<>>
  /\ \A k \in 0..Len(seqs) : f[k] \in Seq(X)
  /\ \A k \in 1..Len(seqs) : f[k] = f[k - 1] \o seqs[k]

\* FlattenSeq() is the last of them.
LEMMA FlattenRuns ==
  ASSUME NEW X, NEW seqs \in Seq(Seq(X))
  PROVE  \E f : IsRun(X, seqs, f) /\ FlattenSeq(seqs) = f[Len(seqs)]
<1> DEFINE n == Len(seqs)
<1>1. n \in Nat /\ \A k \in 1..n : seqs[k] \in Seq(X)
  OBVIOUS
<1>2. CASE n = 0
  <2> DEFINE f == [k \in {0} |-> <<>>]
  <2>1. seqs = <<>> /\ FlattenSeq(seqs) = <<>>
    BY <1>2, FlattenEmpty
  <2>2. f[0] = <<>> /\ <<>> \in Seq(X)
    OBVIOUS
  <2> HIDE DEF f
  <2>3. IsRun(X, seqs, f)
    <3>1. 0..Len(seqs) = {0} /\ 1..Len(seqs) = {}
      BY <1>2
    <3> QED
      BY <2>2, <3>1 DEF IsRun
  <2> QED
    BY <1>2, <2>1, <2>2, <2>3
<1>3. CASE n # 0
  <2>1. n \in Nat \ {0}
    BY <1>1, <1>3
  <2>2. PICK g : IsFlatten(g, seqs) /\ FlattenSeq(seqs) = g[n]
    BY <2>1, FlattenDef
  <2>3. \A k \in 1..n : g[k] = IF k = 1 THEN seqs[k] ELSE g[k - 1] \o seqs[k]
    BY <2>2 DEF IsFlatten
  <2> DEFINE f == [k \in 0..n |-> IF k = 0 THEN <<>> ELSE g[k]]
             S == {k \in Nat : k <= n => f[k] \in Seq(X)}
  <2>4. f[0] = <<>> /\ \A k \in 1..n : f[k] = g[k]
    BY <2>1
  <2> HIDE DEF f, n
  <2>5. ASSUME NEW k \in Nat, k < n
        PROVE  f[k] \in Seq(X) => f[k + 1] \in Seq(X) /\ f[k + 1] = f[k] \o seqs[k + 1]
    <3>1. k + 1 \in 1..n /\ (k + 1) - 1 = k
      BY <2>1, <2>5
    <3>2. seqs[k + 1] \in Seq(X)
      BY <1>1, <3>1
    <3>3. CASE k = 0
      <4>1. f[k + 1] = seqs[k + 1] /\ f[k] = <<>>
        BY <2>3, <2>4, <3>1, <3>3
      <4>2. <<>> \o seqs[k + 1] = seqs[k + 1]
        BY <3>2
      <4> QED
        BY <3>2, <4>1, <4>2
    <3>4. CASE k # 0
      <4>1. k \in 1..n /\ k + 1 # 1
        BY <2>1, <2>5, <3>4
      <4>2. f[k + 1] = f[k] \o seqs[k + 1]
        BY <2>3, <2>4, <3>1, <4>1
      <4> QED
        BY <3>2, <4>2
    <3> QED
      BY <3>3, <3>4
  <2>6. \A k \in Nat : k \in S
    <3>1. 0 \in S
      <4>1. <<>> \in Seq(X)
        OBVIOUS
      <4> QED
        BY <2>4, <4>1
    <3>2. ASSUME NEW k \in Nat, k \in S PROVE k + 1 \in S
      <4>1. k <= n => f[k] \in Seq(X)
        BY <3>2
      <4> HIDE DEF S
      <4>2. k + 1 <= n => f[k + 1] \in Seq(X)
        <5>1. k + 1 <= n => k < n /\ k <= n
          BY <2>1
        <5> QED
          BY <2>5, <4>1, <5>1
      <4>3. k + 1 \in Nat
        OBVIOUS
      <4> QED
        BY <4>2, <4>3 DEF S
    <3> HIDE DEF S
    <3> QED
      BY <3>1, <3>2, Induction
  <2>7. \A k \in 0..n : f[k] \in Seq(X)
    BY <2>1, <2>6
  <2>8. ASSUME NEW k \in 1..n PROVE f[k] = f[k - 1] \o seqs[k]
    <3> DEFINE j == k - 1
    <3>1. j \in Nat /\ j < n /\ j \in 0..n /\ j + 1 = k
      BY <2>1
    <3> HIDE DEF j
    <3>2. f[j + 1] = f[j] \o seqs[j + 1]
      BY <2>5, <2>7, <3>1
    <3> QED
      BY <3>1, <3>2 DEF j
  <2>9. IsRun(X, seqs, f) /\ FlattenSeq(seqs) = f[n]
    <3>1. n \in 1..n
      BY <2>1
    <3> QED
      BY <2>2, <2>4, <2>7, <2>8, <3>1 DEF IsRun, n
  <2> QED
    BY <2>9 DEF n
<1> QED
  BY <1>2, <1>3

\* What a sequence begins with.
LEMMA BeginsWithJoined ==
  ASSUME NEW X, NEW a \in Seq(X), NEW b \in Seq(X), NEW u \in Seq(X),
         Begins(a \o b, u)
  PROVE  Begins(a, u) /\ \A i \in 1..Len(b) : u[Len(a) + i] = b[i]
<1> DEFINE c == a \o b
<1>1. /\ Len(a) \in Nat /\ Len(b) \in Nat /\ Len(c) = Len(a) + Len(b)
      /\ \A i \in 1..Len(a) : c[i] = a[i]
      /\ \A i \in 1..Len(b) : c[Len(a) + i] = b[i]
  OBVIOUS
<1>2. Len(c) <= Len(u) /\ \A i \in 1..Len(c) : u[i] = c[i]
  BY Zenon DEF Begins
<1> HIDE DEF c
<1>3. Len(a) <= Len(u) /\ \A i \in 1..Len(a) : u[i] = a[i]
  <2>1. Len(u) \in Nat
    OBVIOUS
  <2> QED
    BY <1>1, <1>2, <2>1
<1>4. \A i \in 1..Len(b) : u[Len(a) + i] = b[i]
  <2>1. SUFFICES ASSUME NEW i \in 1..Len(b) PROVE u[Len(a) + i] = b[i]
    OBVIOUS
  <2>2. Len(a) + i \in 1..Len(c)
    BY <1>1
  <2> QED
    BY <1>1, <1>2, <2>2
<1> QED
  BY <1>3, <1>4 DEF Begins
\* The last one begins with all that was there before.
LEMMA RunsBegin ==
  ASSUME NEW X, NEW seqs \in Seq(Seq(X)), NEW f, IsRun(X, seqs, f)
  PROVE  \A k \in 0..Len(seqs) : Begins(f[k], f[Len(seqs)])
<1> DEFINE n == Len(seqs)
           last == f[n]
           S == {k \in 1..n : Begins(f[k], last)}
<1>1. n \in Nat /\ \A k \in 1..n : seqs[k] \in Seq(X)
  OBVIOUS
<1>2. /\ f[0] = <<>> /\ last \in Seq(X)
      /\ \A k \in 0..n : f[k] \in Seq(X)
      /\ \A k \in 1..n : f[k] = f[k - 1] \o seqs[k]
  <2>1. n \in 0..n
    BY <1>1
  <2>2. /\ f[0] = <<>> /\ (\A k \in 0..n : f[k] \in Seq(X))
        /\ \A k \in 1..n : f[k] = f[k - 1] \o seqs[k]
    BY Zenon DEF IsRun
  <2> QED
    BY <2>1, <2>2, Zenon
<1>3. f[n] = last
  OBVIOUS
<1> HIDE DEF n, last
<1>4. Begins(<<>>, last) /\ Begins(last, last)
  BY <1>2 DEF Begins
<1>5. ASSUME NEW k \in 1..(n - 1), k + 1 \in S PROVE k \in S
  <2>1. k \in 0..n /\ k + 1 \in 1..n /\ (k + 1) - 1 = k /\ k \in 1..n
    BY <1>1
  <2>2. f[k] \in Seq(X) /\ seqs[k + 1] \in Seq(X) /\ f[k + 1] = f[k] \o seqs[k + 1]
    BY <1>1, <1>2, <2>1
  <2>3. Begins(f[k] \o seqs[k + 1], last)
    BY <1>5, <2>2
  <2> HIDE DEF S
  <2>4. Begins(f[k], last)
    BY <1>2, <2>2, <2>3, BeginsWithJoined
  <2> QED
    BY <2>1, <2>4 DEF S
<1>6. ASSUME NEW k \in 1..n PROVE Begins(f[k], last)
  <2>1. n \in S
    BY <1>1, <1>3, <1>4
  <2> HIDE DEF S
  <2>2. \A m \in 1..n : m \in S
    BY <1>1, <1>5, <2>1, Downwards
  <2> QED
    BY <2>2 DEF S
<1>7. ASSUME NEW k \in 0..n PROVE Begins(f[k], last)
  <2>1. k = 0 \/ k \in 1..n
    BY <1>1
  <2> QED
    BY <1>2, <1>4, <1>6, <2>1
<1> QED
  BY <1>7 DEF n, last

\* A byte and its two hexadecimal digits, of which none is '%'.
LEMMA HexInverted ==
  ASSUME NEW d \in 0..15
  PROVE  IsHex(kHex(d)) /\ HexToDecimal(kHex(d)) = d /\ kHex(d) \in Octet /\ kHex(d) # 37 /\ kHex(d) <= 127
<1>1. CASE d < 10
  <2>1. kHex(d) = 48 + d
    BY <1>1 DEF kHex
  <2>2. 48 + d \in 48..57
    BY <1>1
  <2> QED
    BY <1>1, <2>1, <2>2 DEF IsHex, HexToDecimal, Octet
<1>2. CASE ~(d < 10)
  <2>1. kHex(d) = 65 + (d - 10)
    BY <1>2 DEF kHex
  <2>2. 65 + (d - 10) \in 65..70
    BY <1>2
  <2> QED
    BY <1>2, <2>1, <2>2 DEF IsHex, HexToDecimal, Octet
<1> QED
  BY <1>1, <1>2

LEMMA HexDigits ==
  ASSUME NEW b \in 0..255
  PROVE  b \div 16 \in 0..15 /\ b % 16 \in 0..15 /\ 16 * (b \div 16) + (b % 16) = b
<1> DEFINE h == b \div 16 l == b % 16
<1>1. h \in 0..15 /\ l \in 0..15 /\ b = h * 16 + l
  OBVIOUS
<1> HIDE DEF h, l
<1>2. 16 * h + l = b
  BY <1>1
<1>3. h \in 0..15 /\ l \in 0..15 /\ 16 * h + l = b
  BY <1>1, <1>2
<1> QED
  BY <1>3 DEF h, l

\* What stands for a byte, and what is read from a place on.
Coded(b, plain) ==
  IF b \in plain THEN <<b>> ELSE <<Percent, kHex(b \div 16), kHex(b % 16)>>
Taken(e, i) ==
  IF e[i] = Percent THEN <<16 * HexToDecimal(e[i + 1]) + HexToDecimal(e[i + 2])>>
  ELSE IF IsEscaped(e, i) THEN <<>> ELSE <<e[i]>>

\* The first m characters are complete: each '%' has its digits among them.
IsWhole(e, m) ==
  \A i \in 1..m : IF e[i] = Percent THEN i + 2 <= m /\ IsHex(e[i + 1]) /\ IsHex(e[i + 2])
                  ELSE e[i] <= 127

\* The next is no part of an escape, unless it begins one.
LEMMA NotEscaped ==
  ASSUME NEW e \in Seq(Octet), NEW m \in Nat, m + 1 <= Len(e), IsWhole(e, m)
  PROVE  ~IsEscaped(e, m + 1)
<1>1. DOMAIN e = 1..Len(e) /\ Len(e) \in Nat
  OBVIOUS
<1>2. ASSUME NEW j \in {(m + 1) - 1, (m + 1) - 2}, j \in 1..Len(e), e[j] = Percent PROVE FALSE
  <2>1. j \in 1..m /\ j + 2 > m
    BY <1>1, <1>2
  <2> QED
    BY <1>2, <2>1 DEF IsWhole
<1> QED
  BY <1>1, <1>2 DEF IsEscaped

\* A plain character is taken as it is.
LEMMA PlainTaken ==
  ASSUME NEW e \in Seq(Octet), NEW m \in Nat, m + 1 <= Len(e), IsWhole(e, m),
         e[m + 1] # 37, e[m + 1] <= 127
  PROVE  IsWhole(e, m + 1) /\ Taken(e, m + 1) = <<e[m + 1]>>
<1>1. IsWhole(e, m + 1)
  <2>1. SUFFICES ASSUME NEW i \in 1..(m + 1)
                 PROVE  IF e[i] = Percent THEN i + 2 <= m + 1 /\ IsHex(e[i + 1]) /\ IsHex(e[i + 2])
                        ELSE e[i] <= 127
    BY DEF IsWhole
  <2>2. CASE i = m + 1
    BY <2>2 DEF Percent
  <2>3. CASE i # m + 1
    <3>1. i \in 1..m
      BY <2>3
    <3> QED
      BY <3>1 DEF IsWhole
  <2> QED
    BY <2>2, <2>3
<1>2. ~IsEscaped(e, m + 1)
  BY NotEscaped
<1> QED
  BY <1>1, <1>2 DEF Taken, Percent

\* An escape is taken for its byte.
LEMMA EscapeTaken ==
  ASSUME NEW e \in Seq(Octet), NEW m \in Nat, m + 3 <= Len(e), IsWhole(e, m), NEW b \in Octet,
         e[m + 1] = 37, e[m + 2] = kHex(b \div 16), e[m + 3] = kHex(b % 16)
  PROVE  /\ IsWhole(e, m + 3)
         /\ Taken(e, m + 1) = <<b>> /\ Taken(e, m + 2) = <<>> /\ Taken(e, m + 3) = <<>>
<1> DEFINE h == b \div 16
           l == b % 16
<1>1. h \in 0..15 /\ l \in 0..15 /\ 16 * h + l = b
  BY HexDigits DEF Octet
<1>2. e[m + 2] = kHex(h) /\ e[m + 3] = kHex(l)
  OBVIOUS
<1> HIDE DEF h, l
<1>3. /\ IsHex(e[m + 2]) /\ HexToDecimal(e[m + 2]) = h /\ e[m + 2] # 37 /\ e[m + 2] <= 127
      /\ IsHex(e[m + 3]) /\ HexToDecimal(e[m + 3]) = l /\ e[m + 3] # 37 /\ e[m + 3] <= 127
  BY <1>1, <1>2, HexInverted
<1>4. IsWhole(e, m + 3)
  <2>1. SUFFICES ASSUME NEW i \in 1..(m + 3)
                 PROVE  IF e[i] = Percent THEN i + 2 <= m + 3 /\ IsHex(e[i + 1]) /\ IsHex(e[i + 2])
                        ELSE e[i] <= 127
    BY DEF IsWhole
  <2>2. CASE i \in 1..m
    BY <2>2 DEF IsWhole
  <2>3. CASE i = m + 1
    BY <1>3, <2>3 DEF Percent
  <2>4. CASE i = m + 2
    BY <1>3, <2>4 DEF Percent
  <2>5. CASE i = m + 3
    BY <1>3, <2>5 DEF Percent
  <2>6. i \in 1..m \/ i = m + 1 \/ i = m + 2 \/ i = m + 3
    OBVIOUS
  <2> QED
    BY <2>2, <2>3, <2>4, <2>5, <2>6
<1>5. Taken(e, m + 1) = <<b>>
  <2>1. (m + 1) + 1 = m + 2 /\ (m + 1) + 2 = m + 3
    OBVIOUS
  <2>2. e[m + 1] = Percent
    BY DEF Percent
  <2>3. Taken(e, m + 1) = <<16 * HexToDecimal(e[m + 2]) + HexToDecimal(e[m + 3])>>
    BY <2>1, <2>2, Zenon DEF Taken
  <2> QED
    BY <1>1, <1>3, <2>3
<1>6. m + 1 \in DOMAIN e /\ (m + 2) - 1 = m + 1 /\ (m + 3) - 2 = m + 1
  OBVIOUS
<1>7. IsEscaped(e, m + 2) /\ IsEscaped(e, m + 3)
  BY <1>6 DEF IsEscaped, Percent
<1> QED
  BY <1>3, <1>4, <1>5, <1>7 DEF Taken, Percent

\* All but '%' that is not escaped is ASCII, as with every test in url.cc.
IsPlain(plain) == plain \subseteq (0..127) \ {37}

\* A byte as it is coded at place m, and what is read of it.
IsCodedAt(e, m, q) == m + Len(q) <= Len(e) /\ \A i \in 1..Len(q) : e[m + i] = q[i]
IsReadAt(e, m, q, b) ==
  /\ Taken(e, m + 1) = <<b>>
  /\ Len(q) = 1 \/ (Len(q) = 3 /\ Taken(e, m + 2) = <<>> /\ Taken(e, m + 3) = <<>>)

LEMMA CodedType ==
  ASSUME NEW b \in Octet, NEW plain
  PROVE  Coded(b, plain) \in Seq(Octet) /\ Len(Coded(b, plain)) \in {1, 3}
<1>1. CASE b \in plain
  BY <1>1 DEF Coded
<1>2. CASE b \notin plain
  <2> DEFINE x == kHex(b \div 16) y == kHex(b % 16)
  <2>1. x \in Octet /\ y \in Octet
    BY HexDigits, HexInverted DEF Octet
  <2> HIDE DEF x, y
  <2>2. <<37, x, y>> \in Seq(Octet) /\ Len(<<37, x, y>>) = 3
    BY <2>1 DEF Octet
  <2>3. Coded(b, plain) = <<37, x, y>>
    BY <1>2 DEF Coded, Percent, x, y
  <2> QED
    BY <2>2, <2>3
<1> QED
  BY <1>1, <1>2

LEMMA OneRead ==
  ASSUME NEW e \in Seq(Octet), NEW m \in Nat, IsWhole(e, m), NEW b \in Octet,
         NEW plain, IsPlain(plain), IsCodedAt(e, m, Coded(b, plain))
  PROVE  /\ IsWhole(e, m + Len(Coded(b, plain)))
         /\ IsReadAt(e, m, Coded(b, plain), b)
<1>1. CASE b \in plain
  <2>1. Coded(b, plain) = <<b>> /\ Len(<<b>>) = 1 /\ <<b>>[1] = b
    BY <1>1 DEF Coded
  <2>2. m + 1 <= Len(e) /\ e[m + 1] = b
    <3>1. 1 \in 1..1
      OBVIOUS
    <3> QED
      BY <2>1, <3>1 DEF IsCodedAt
  <2>3. b # 37 /\ b <= 127
    BY <1>1 DEF IsPlain
  <2>4. IsWhole(e, m + 1) /\ Taken(e, m + 1) = <<b>>
    BY <2>2, <2>3, PlainTaken
  <2> QED
    BY <2>1, <2>4 DEF IsReadAt
<1>2. CASE b \notin plain
  <2> DEFINE x == kHex(b \div 16) y == kHex(b % 16) q == <<37, x, y>>
  <2>1. Coded(b, plain) = q
    BY <1>2 DEF Coded, Percent
  <2>2. Len(q) = 3 /\ q[1] = 37 /\ q[2] = x /\ q[3] = y
    OBVIOUS
  <2> HIDE DEF q
  <2>3. 1 \in 1..3 /\ 2 \in 1..3 /\ 3 \in 1..3
    OBVIOUS
  <2>4. m + 3 <= Len(e) /\ e[m + 1] = 37 /\ e[m + 2] = x /\ e[m + 3] = y
    BY <2>1, <2>2, <2>3 DEF IsCodedAt
  <2>5. /\ IsWhole(e, m + 3)
        /\ Taken(e, m + 1) = <<b>> /\ Taken(e, m + 2) = <<>> /\ Taken(e, m + 3) = <<>>
    BY <2>4, EscapeTaken
  <2> QED
    BY <2>1, <2>2, <2>5 DEF IsReadAt
<1> QED
  BY <1>1, <1>2

\* e is the text s, of which the k-th byte begins after place p[k - 1].
IsCoding(s, plain, e, p) ==
  /\ e \in Seq(Octet) /\ p[0] = 0 /\ p[Len(s)] = Len(e)
  /\ \A k \in 0..Len(s) : p[k] \in Nat
  /\ \A k \in 1..Len(s) : /\ p[k] = p[k - 1] + Len(Coded(s[k], plain))
                          /\ IsCodedAt(e, p[k - 1], Coded(s[k], plain))

LEMMA CodingExists ==
  ASSUME NEW s \in Seq(Octet), NEW plain
  PROVE  \E p : IsCoding(s, plain, EncodeImpl(s, plain), p)
<1> DEFINE n == Len(s)
           q == [i \in 1..n |-> Coded(s[i], plain)]
           e == EncodeImpl(s, plain)
<1>1. n \in Nat /\ DOMAIN s = 1..n /\ \A i \in 1..n : s[i] \in Octet
  OBVIOUS
<1>2. e = FlattenSeq(q)
  BY <1>1, Zenon DEF EncodeImpl, Coded
<1> HIDE DEF e
<1>3. \A i \in 1..n : q[i] = Coded(s[i], plain)
  OBVIOUS
<1>4. q \in Seq(Seq(Octet)) /\ Len(q) = n
  <2>1. q = [i \in 1..n |-> q[i]]
    OBVIOUS
  <2>2. \A i \in 1..n : q[i] \in Seq(Octet)
    BY <1>1, <1>3, CodedType
  <2> HIDE DEF q, n
  <2> QED
    BY <1>1, <2>1, <2>2, Tabulated
<1> HIDE DEF q, n
<1>5. PICK f : IsRun(Octet, q, f) /\ FlattenSeq(q) = f[n]
  BY <1>4, FlattenRuns
<1>6. \A k \in 0..n : Begins(f[k], f[n])
  BY <1>4, <1>5, RunsBegin
<1>7. /\ f[0] = <<>> /\ e = f[n]
      /\ \A k \in 0..n : f[k] \in Seq(Octet)
      /\ \A k \in 1..n : f[k] = f[k - 1] \o q[k]
  BY <1>2, <1>4, <1>5, Zenon DEF IsRun
<1> DEFINE p == [k \in 0..n |-> Len(f[k])]
<1>8. (\A k \in 0..n : p[k] = Len(f[k])) /\ p[0] = 0 /\ p[n] = Len(e) /\ e \in Seq(Octet)
  <2>1. 0 \in 0..n /\ n \in 0..n
    BY <1>1
  <2> QED
    BY <1>7, <2>1
<1> HIDE DEF p
<1>9. \A k \in 0..n : p[k] \in Nat
  BY <1>7, <1>8
<1>10. ASSUME NEW k \in 1..n
       PROVE  /\ p[k] = p[k - 1] + Len(Coded(s[k], plain))
              /\ IsCodedAt(e, p[k - 1], Coded(s[k], plain))
  <2> DEFINE a == f[k - 1] b == q[k]
  <2>1. k \in 0..n /\ k - 1 \in 0..n
    BY <1>1
  <2>2. a \in Seq(Octet) /\ b \in Seq(Octet) /\ f[k] = a \o b /\ b = Coded(s[k], plain)
    <3>1. b \in Seq(Octet)
      BY <1>4
    <3> QED
      BY <1>3, <1>7, <2>1, <3>1
  <2>3. Begins(a \o b, e)
    BY <1>6, <1>7, <2>1, <2>2
  <2>4. p[k] = Len(a \o b) /\ p[k - 1] = Len(a)
    BY <1>8, <2>1, <2>2
  <2> HIDE DEF a, b
  <2>5. Len(a \o b) = Len(a) + Len(b)
    BY <2>2
  <2>6. Len(a \o b) <= Len(e) /\ \A i \in 1..Len(b) : e[Len(a) + i] = b[i]
    <3>1. Len(a \o b) <= Len(e)
      BY <2>3, Zenon DEF Begins
    <3>2. a \in Seq(Octet) /\ b \in Seq(Octet) /\ e \in Seq(Octet)
      BY <1>8, <2>2
    <3>3. \A i \in 1..Len(b) : e[Len(a) + i] = b[i]
      BY <2>3, <3>2, BeginsWithJoined
    <3> QED
      BY <3>1, <3>3
  <2> QED
    <3>1. p[k] = p[k - 1] + Len(b) /\ p[k - 1] + Len(b) <= Len(e)
      BY <2>4, <2>5, <2>6
    <3>2. \A i \in 1..Len(b) : e[p[k - 1] + i] = b[i]
      BY <2>4, <2>6
    <3> QED
      BY <2>2, <3>1, <3>2 DEF IsCodedAt
<1> QED
  BY <1>8, <1>9, <1>10 DEF IsCoding, n, e

\* All of the text is whole, as far as a byte ends.
LEMMA CodingIsWhole ==
  ASSUME NEW s \in Seq(Octet), NEW plain, IsPlain(plain), NEW e, NEW p, IsCoding(s, plain, e, p)
  PROVE  /\ IsWhole(e, Len(e))
         /\ \A k \in 1..Len(s) : IsReadAt(e, p[k - 1], Coded(s[k], plain), s[k])
<1> DEFINE n == Len(s)
           S == {k \in Nat : k <= n => IsWhole(e, p[k])}
<1>1. n \in Nat /\ \A k \in 1..n : s[k] \in Octet
  OBVIOUS
<1>2. /\ e \in Seq(Octet) /\ p[0] = 0 /\ p[n] = Len(e) /\ \A k \in 0..n : p[k] \in Nat
      /\ \A k \in 1..n : /\ p[k] = p[k - 1] + Len(Coded(s[k], plain))
                         /\ IsCodedAt(e, p[k - 1], Coded(s[k], plain))
  BY DEF IsCoding
<1> HIDE DEF n
<1>3. ASSUME NEW k \in 1..n, IsWhole(e, p[k - 1])
      PROVE  IsWhole(e, p[k]) /\ IsReadAt(e, p[k - 1], Coded(s[k], plain), s[k])
  <2>1. k - 1 \in 0..n
    BY <1>1
  <2>2. p[k - 1] \in Nat /\ s[k] \in Octet
    BY <1>1, <1>2, <2>1
  <2> QED
    BY <1>2, <1>3, <2>2, OneRead
<1>4. \A k \in Nat : k \in S
  <2>1. 0 \in S
    BY <1>2 DEF IsWhole
  <2>2. ASSUME NEW k \in Nat, k \in S PROVE k + 1 \in S
    <3>1. k <= n => IsWhole(e, p[k])
      BY <2>2
    <3> HIDE DEF S
    <3>2. k + 1 <= n => IsWhole(e, p[k + 1])
      <4>1. SUFFICES ASSUME k + 1 <= n PROVE IsWhole(e, p[k + 1])
        OBVIOUS
      <4>2. k <= n /\ k + 1 \in 1..n /\ (k + 1) - 1 = k
        BY <1>1, <4>1
      <4> QED
        BY <1>3, <3>1, <4>2
    <3>3. k + 1 \in Nat
      OBVIOUS
    <3> QED
      BY <3>2, <3>3 DEF S
  <2> HIDE DEF S
  <2> QED
    BY <2>1, <2>2, Induction
<1>5. \A k \in 0..n : IsWhole(e, p[k])
  BY <1>1, <1>4
<1> HIDE DEF S
<1>6. ASSUME NEW k \in 1..n PROVE IsReadAt(e, p[k - 1], Coded(s[k], plain), s[k])
  <2>1. k - 1 \in 0..n
    BY <1>1
  <2> QED
    BY <1>3, <1>5, <2>1
<1>7. IsWhole(e, Len(e))
  <2>1. n \in 0..n
    BY <1>1
  <2> QED
    BY <1>2, <1>5, <2>1
<1> QED
  BY <1>6, <1>7 DEF n

\* What is read of a text that is whole are bytes.
LEMMA TakenType ==
  ASSUME NEW e \in Seq(Octet), IsWhole(e, Len(e)), NEW i \in 1..Len(e)
  PROVE  Taken(e, i) \in Seq(Octet)
<1>1. CASE e[i] = Percent
  <2> DEFINE x == HexToDecimal(e[i + 1]) y == HexToDecimal(e[i + 2])
  <2>1. i + 2 <= Len(e) /\ IsHex(e[i + 1]) /\ IsHex(e[i + 2])
    BY <1>1 DEF IsWhole
  <2>2. \A c : IsHex(c) => HexToDecimal(c) \in 0..15
    BY DEF IsHex, HexToDecimal
  <2>3. x \in 0..15 /\ y \in 0..15
    BY <2>1, <2>2
  <2> HIDE DEF x, y
  <2>4. 16 * x + y \in Octet
    BY <2>3 DEF Octet
  <2>5. Taken(e, i) = <<16 * x + y>>
    BY <1>1 DEF Taken, x, y
  <2> QED
    BY <2>4, <2>5
<1>2. CASE e[i] # Percent
  <2>1. e[i] \in Octet
    OBVIOUS
  <2>2. Taken(e, i) = <<>> \/ Taken(e, i) = <<e[i]>>
    BY <1>2 DEF Taken
  <2>3. <<>> \in Seq(Octet) /\ <<e[i]>> \in Seq(Octet)
    BY <2>1
  <2> QED
    BY <2>2, <2>3, Zenon
<1> QED
  BY <1>1, <1>2

\* What can be decoded is what is whole.
LEMMA WholeDecodes ==
  ASSUME NEW e \in Seq(Octet), IsWhole(e, Len(e))
  PROVE  CanDecode(e)
<1>1. DOMAIN e = 1..Len(e)
  OBVIOUS
<1> QED
  BY <1>1 DEF IsWhole, CanDecode

\* What is read of the text of k bytes is the k bytes.
LEMMA BytesRead ==
  ASSUME NEW s \in Seq(Octet), NEW plain, IsPlain(plain), NEW e, NEW p, IsCoding(s, plain, e, p),
         NEW g, g[0] = <<>>, \A j \in 1..Len(e) : g[j] = g[j - 1] \o Taken(e, j)
  PROVE  IsStart(Octet, g[Len(e)], s, Len(s))
<1> DEFINE n == Len(s)
           S == {k \in Nat : k <= n => IsStart(Octet, g[p[k]], s, k)}
<1>1. n \in Nat /\ \A k \in 1..n : s[k] \in Octet
  OBVIOUS
<1>2. /\ e \in Seq(Octet) /\ p[0] = 0 /\ p[n] = Len(e) /\ \A k \in 0..n : p[k] \in Nat
      /\ \A k \in 1..n : /\ p[k] = p[k - 1] + Len(Coded(s[k], plain))
                         /\ IsCodedAt(e, p[k - 1], Coded(s[k], plain))
  BY DEF IsCoding
<1>3. \A k \in 1..n : IsReadAt(e, p[k - 1], Coded(s[k], plain), s[k])
  BY CodingIsWhole
<1> HIDE DEF n
<1>4. ASSUME NEW k \in Nat, k + 1 <= n, IsStart(Octet, g[p[k]], s, k)
      PROVE  IsStart(Octet, g[p[k + 1]], s, k + 1)
  <2> DEFINE b == s[k + 1] q == Coded(b, plain) m == p[k] a == g[m]
  <2>1. k \in 0..n /\ k + 1 \in 1..n /\ (k + 1) - 1 = k
    BY <1>1, <1>4
  <2>2. b \in Octet /\ m \in Nat /\ p[k + 1] = m + Len(q)
    BY <1>1, <1>2, <2>1
  <2>3. IsCodedAt(e, m, q) /\ IsReadAt(e, m, q, b)
    BY <1>2, <1>3, <2>1
  <2>4. a \in Seq(Octet)
    BY <1>4 DEF IsStart
  <2>5. IsStart(Octet, a \o <<b>>, s, k + 1)
    <3>1. <<b>> \in Seq(Octet) /\ Len(<<b>>) = 1 /\ \A i \in 1..1 : <<b>>[i] = b /\ k + i = k + 1
      BY <2>2
    <3>2. \A i \in 1..Len(<<b>>) : <<b>>[i] = s[k + i]
      BY <3>1
    <3> QED
      BY <1>4, <2>4, <3>1, <3>2, PrefixGrows
  <2> HIDE DEF b, q, m, a
  <2>6. a \o <<b>> \in Seq(Octet)
    BY <2>2, <2>4
  <2>7. m + Len(q) <= Len(e)
    BY <2>3 DEF IsCodedAt
  <2>8. Len(e) \in Nat
    BY <1>2
  <2>9. CASE Len(q) = 1
    <3>1. m + 1 \in 1..Len(e) /\ (m + 1) - 1 = m
      BY <2>2, <2>7, <2>8, <2>9
    <3>2. g[m + 1] = a \o <<b>>
      BY <2>3, <3>1 DEF IsReadAt, a
    <3> QED
      BY <2>2, <2>5, <2>9, <3>2
  <2>10. CASE Len(q) # 1
    <3>1. /\ Len(q) = 3 /\ Taken(e, m + 1) = <<b>>
          /\ Taken(e, m + 2) = <<>> /\ Taken(e, m + 3) = <<>>
      BY <2>3, <2>10 DEF IsReadAt
    <3>2. /\ m + 1 \in 1..Len(e) /\ (m + 1) - 1 = m /\ m + 2 \in 1..Len(e) /\ (m + 2) - 1 = m + 1
          /\ m + 3 \in 1..Len(e) /\ (m + 3) - 1 = m + 2
      BY <2>2, <2>7, <2>8, <3>1
    <3>3. g[m + 1] = a \o <<b>>
      BY <3>1, <3>2 DEF a
    <3>4. g[m + 2] = g[m + 1] \o <<>> /\ g[m + 3] = g[m + 2] \o <<>>
      BY <3>1, <3>2
    <3>5. (a \o <<b>>) \o <<>> = a \o <<b>>
      BY <2>6
    <3>6. g[m + 3] = a \o <<b>>
      BY <3>3, <3>4, <3>5
    <3> QED
      BY <2>2, <2>5, <3>1, <3>6
  <2> QED
    BY <2>9, <2>10
<1>5. \A k \in Nat : k \in S
  <2>1. 0 \in S
    <3>1. <<>> \in Seq(Octet) /\ Len(<<>>) = 0
      OBVIOUS
    <3>2. IsStart(Octet, <<>>, s, 0)
      BY <3>1 DEF IsStart
    <3> QED
      BY <1>2, <3>2
  <2>2. ASSUME NEW k \in Nat, k \in S PROVE k + 1 \in S
    <3>1. k <= n => IsStart(Octet, g[p[k]], s, k)
      BY <2>2
    <3> HIDE DEF S
    <3>2. k + 1 <= n => IsStart(Octet, g[p[k + 1]], s, k + 1)
      <4>1. k + 1 <= n => k <= n
        BY <1>1
      <4> QED
        BY <1>4, <3>1, <4>1
    <3>3. k + 1 \in Nat
      OBVIOUS
    <3> QED
      BY <3>2, <3>3 DEF S
  <2> HIDE DEF S
  <2> QED
    BY <2>1, <2>2, Induction
<1>6. IsStart(Octet, g[p[n]], s, n)
  BY <1>1, <1>5
<1> QED
  BY <1>2, <1>6 DEF n

\* Whatever the text, a URL has it encoded so that Decode() finds it again, as long as
\* '%' is among the characters that are escaped, with all that are not ASCII: as they are in
\* EncodePath() and EncodeQuery().
THEOREM PercentRoundTrip ==
  ASSUME NEW s \in Seq(Octet), NEW plain, plain \subseteq (0..127) \ {37}
  PROVE  CanDecode(EncodeImpl(s, plain)) /\ Decode(EncodeImpl(s, plain)) = s
<1> DEFINE e == EncodeImpl(s, plain)
           d == [i \in 1..Len(e) |-> Taken(e, i)]
<1>1. IsPlain(plain)
  BY DEF IsPlain
<1>2. PICK p : IsCoding(s, plain, e, p)
  BY CodingExists
<1> HIDE DEF e
<1>3. e \in Seq(Octet) /\ Len(e) \in Nat /\ DOMAIN e = 1..Len(e)
  <2>1. e \in Seq(Octet)
    BY <1>2 DEF IsCoding
  <2> QED
    BY <2>1
<1>4. IsWhole(e, Len(e))
  BY <1>1, <1>2, CodingIsWhole
<1>5. CanDecode(e)
  BY <1>3, <1>4, WholeDecodes
<1>6. Decode(e) = FlattenSeq(d)
  BY <1>3, Zenon DEF Decode, Taken
<1>7. \A i \in 1..Len(e) : d[i] = Taken(e, i)
  OBVIOUS
<1>8. d \in Seq(Seq(Octet)) /\ Len(d) = Len(e)
  <2>1. d = [i \in 1..Len(e) |-> d[i]]
    OBVIOUS
  <2>2. \A i \in 1..Len(e) : d[i] \in Seq(Octet)
    BY <1>3, <1>4, <1>7, TakenType
  <2> HIDE DEF d
  <2> QED
    BY <1>3, <2>1, <2>2, Tabulated
<1> HIDE DEF d
<1>9. PICK g : IsRun(Octet, d, g) /\ FlattenSeq(d) = g[Len(d)]
  BY <1>8, FlattenRuns
<1>10. g[0] = <<>> /\ \A j \in 1..Len(e) : g[j] = g[j - 1] \o Taken(e, j)
  <2>1. g[0] = <<>> /\ \A j \in 1..Len(d) : g[j] = g[j - 1] \o d[j]
    BY <1>9 DEF IsRun
  <2> QED
    BY <1>7, <1>8, <2>1
<1>11. IsStart(Octet, g[Len(e)], s, Len(s))
  BY <1>1, <1>2, <1>10, BytesRead
<1>12. g[Len(e)] = s
  BY <1>11, SameSequence DEF IsStart
<1>13. Decode(e) = s
  BY <1>6, <1>8, <1>9, <1>12
<1> QED
  BY <1>5, <1>13 DEF e

\* So nothing of a path or of a query is lost or misread on its way.
LEMMA PathAndQueryDecoded ==
  ASSUME NEW s \in Seq(Octet)
  PROVE  /\ CanDecode(EncodePath(s)) /\ Decode(EncodePath(s)) = s
         /\ CanDecode(EncodeQuery(s)) /\ Decode(EncodeQuery(s)) = s
<1>1. /\ PathChar \ {37, 43} \subseteq (0..127) \ {37}
      /\ QueryChar \ {37, 43} \subseteq (0..127) \ {37}
  BY DEF PathChar, QueryChar, Unreserved, SubDelim, AlNum
<1> QED
  BY <1>1, PercentRoundTrip DEF EncodePath, EncodeQuery

=============================================================================
