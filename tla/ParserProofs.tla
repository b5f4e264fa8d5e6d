----------------------------- MODULE ParserProofs -----------------------------
(***************************************************************************)
(* Proofs about Parser: whatever pieces a good message comes in, its       *)
(* content is read as it was sent.                                         *)
(***************************************************************************)
EXTENDS Parser, DataLemmas

-----------------------------------------------------------------------------
(* Types *)

\* The lengths and the sizes are numbers of Width bits.
LEMMA Numbers ==
  /\ \A t \in DOMAIN Lengths : Lengths[t] \in 0..kInvalidLength
  /\ \A t \in DOMAIN Sizes : Sizes[t] \in 0..kInvalidLength
  /\ kInvalidLength \in Nat /\ kInvalidLength > 4 /\ SizeMax = kInvalidLength + 1
<1>1. SizeMax \in Nat /\ SizeMax > 5
  BY BoundsAssumption, Zenon
<1>2. /\ \A t \in DOMAIN Lengths : Lengths[t] \in 0..kInvalidLength
      /\ \A t \in DOMAIN Sizes : Sizes[t] \in 0..kInvalidLength
  BY NumbersAssumption, Zenon
<1>3. kInvalidLength = SizeMax - 1
  BY DEF kInvalidLength
<1> QED
  BY <1>1, <1>2, <1>3

\* The end of a chunk with its CRLF is after the chunk, or the sum wraps around.
EndsOfChunks ==
  \A c \in 0..kInvalidLength :
    \/ c + 2 < SizeMax /\ (c + 2) % SizeMax = c + 2
    \/ c + 2 = SizeMax /\ (c + 2) % SizeMax = 0
    \/ c = kInvalidLength /\ (c + 2) % SizeMax = 1
LEMMA ChunkEnds == EndsOfChunks
<1> SUFFICES ASSUME NEW c \in 0..kInvalidLength
             PROVE  \/ c + 2 < SizeMax /\ (c + 2) % SizeMax = c + 2
                    \/ c + 2 = SizeMax /\ (c + 2) % SizeMax = 0
                    \/ c = kInvalidLength /\ (c + 2) % SizeMax = 1
  BY Zenon DEF EndsOfChunks
<1>1. /\ c \in Nat /\ c <= kInvalidLength /\ kInvalidLength \in Nat
      /\ SizeMax \in Nat /\ SizeMax > 5 /\ SizeMax = kInvalidLength + 1
  BY Numbers
<1>2. c + 2 < SizeMax \/ c + 2 = SizeMax \/ c + 2 = SizeMax + 1
  BY <1>1
<1>3. \A s \in Nat : s > 5 => s % s = 0 /\ (s + 1) % s = 1 /\ \A d \in 0..(s - 1) : d % s = d
  OBVIOUS
<1> HIDE DEF kInvalidLength, SizeMax
<1>4. CASE c + 2 < SizeMax
  <2>1. c + 2 \in 0..(SizeMax - 1)
    BY <1>1, <1>4
  <2> QED
    BY <1>1, <1>3, <1>4, <2>1, Zenon
<1>5. CASE c + 2 = SizeMax
  BY <1>1, <1>3, <1>5, Zenon
<1>6. CASE c + 2 = SizeMax + 1
  <2>1. c = kInvalidLength
    BY <1>1, <1>6
  <2> QED
    BY <1>1, <1>3, <1>6, <2>1, Zenon
<1> QED
  BY <1>2, <1>4, <1>5, <1>6

\* What the sum is for the chunk that is read.
LEMMA ThisEnd ==
  ASSUME TypeOK
  PROVE  /\ chunk_size \in 0..kInvalidLength
         /\ \/ chunk_size + 2 < SizeMax /\ ChunkEnd = chunk_size + 2
            \/ chunk_size + 2 = SizeMax /\ ChunkEnd = 0
            \/ chunk_size = kInvalidLength /\ ChunkEnd = 1
<1>1. chunk_size \in 0..kInvalidLength
  BY Zenon DEF TypeOK
<1> QED
  BY <1>1, ChunkEnds, Zenon DEF EndsOfChunks, ChunkEnd

\* What a message is.
LEMMA MessageType ==
  \A m \in Messages : /\ m.bytes \in Seq(STRING) /\ m.body \in Seq(STRING)
                      /\ m.ok \in BOOLEAN /\ m.head \in BOOLEAN
BY MessagesAssumption, Zenon

\* A line ends within the pending data.
LEMMA LineFits ==
  ASSUME NEW S, NEW s \in Seq(S), HasLine(s)
  PROVE  /\ LineOf(s) \in Seq(S) /\ Len(LineOf(s)) + 2 <= Len(s)
         /\ AfterLine(s) \in Seq(S) /\ AfterLine(s) = Erase(s, Len(LineOf(s)) + 2)
<1>1. PICK n \in Nat : HasLineOf(s, 0, n)
  BY FirstLine
<1>2. Erase(s, 0) = s
  BY DEF Erase
<1>3. Begins(s, s)
  BY DEF Begins
<1>4. LineOf(s) \in Seq(S) /\ Len(LineOf(s)) = n /\ 0 + n + 2 <= Len(s)
  <2>1. LET r == Erase(s, 0)
        IN  /\ HasLine(r) <=> 0 + n + 2 <= Len(s)
            /\ HasLine(r) => /\ LineOf(r) \in Seq(S) /\ Len(LineOf(r)) = n
                             /\ \A i \in 1..n : LineOf(r)[i] = s[0 + i]
    <3>1. 0 \in 0..Len(s)
      OBVIOUS
    <3> QED
      BY <1>1, <1>3, <3>1, LineThere
  <2> QED
    BY <1>2, <2>1
<1>5. n + 2 \in 0..Len(s)
  BY <1>4
<1>6. AfterLine(s) = Erase(s, n + 2)
  BY <1>4, Zenon DEF AfterLine
<1>7. Erase(s, n + 2) \in Seq(S)
  BY <1>5, Erased
<1> QED
  BY <1>4, <1>5, <1>6, <1>7

\* The state has its type, whatever the peer sends (the members of Parser,
\* parser.h).
THEOREM TypeCorrect == Spec => []TypeOK
<1> USE DEF headVars, peerVars
<1>1. Init => TypeOK
  <2> SUFFICES ASSUME Init PROVE TypeOK
    OBVIOUS
  <2>1. msg.bytes \in Seq(STRING)
    BY MessageType DEF Init
  <2>3. 1 \in 0..MaxMessages
    BY BoundsAssumption DEF Init
  <2>4. kInvalidLength \in 0..kInvalidLength
    BY Numbers
  <2>5. /\ inbox \in Seq(STRING) /\ pending_data \in Seq(STRING) /\ content \in Seq(STRING)
        /\ count \in 0..MaxMessages
    BY <2>1, <2>3 DEF Init
  <2> QED
    BY <2>4, <2>5 DEF Init, TypeOK
<1>2. TypeOK /\ [Next]_vars => TypeOK'
  <2> SUFFICES ASSUME TypeOK, [Next]_vars PROVE TypeOK'
    OBVIOUS
  <2>1. CASE NextMessage
    <3>1. msg'.bytes \in Seq(STRING)
      BY <2>1, MessageType DEF NextMessage
    <3>2. inbox' \in Seq(STRING)
      BY <2>1, <3>1 DEF NextMessage, TypeOK
    <3>3. count' \in 0..MaxMessages
      BY <2>1, BoundsAssumption DEF NextMessage, TypeOK
    <3>5. pending_data' \in Seq(STRING) /\ content' \in Seq(STRING)
      BY <2>1 DEF NextMessage
    <3>6. aligned' \in BOOLEAN
      BY <2>1 DEF NextMessage
    <3>7. kInvalidLength \in 0..kInvalidLength
      BY Numbers
    <3> QED
      BY <2>1, <3>2, <3>3, <3>5, <3>6, <3>7 DEF NextMessage, TypeOK
  <2>2. ASSUME NEW n \in 1..Len(inbox), Read(n) PROVE TypeOK'
    <3>1. inbox \in Seq(STRING) /\ pending_data \in Seq(STRING) /\ n \in 0..Len(inbox)
      BY DEF TypeOK
    <3>2. Erase(inbox, n) \in Seq(STRING) /\ SubSeq(inbox, 1, n) \in Seq(STRING)
      BY <3>1, Erased
    <3>3. inbox' \in Seq(STRING) /\ pending_data' \in Seq(STRING)
      BY <2>2, <3>1, <3>2 DEF Read
    <3>4. pc' \in {"read", "headers", "content", "chunk", "finished", "failed", "threw"}
      BY <2>2 DEF Read
    <3> QED
      BY <2>2, <3>3, <3>4 DEF Read, TypeOK
  <2>3. CASE HeadersNeedMore
    BY <2>3 DEF HeadersNeedMore, TypeOK
  <2>4. CASE HeaderLine
    <3>1. pending_data' \in Seq(STRING)
      BY <2>4, LineFits DEF HeaderLine, TypeOK
    <3>2. CASE ParseStartLine(LineOf(pending_data))
      BY <2>4, <3>1, <3>2 DEF HeaderLine, ParseStartLine, TypeOK
    <3>3. CASE ParseHeaderLine(LineOf(pending_data))
      <4>1. \A t \in DOMAIN Lengths : Lengths[t] \in 0..kInvalidLength
        BY Numbers
      <4> QED
        BY <2>4, <3>1, <3>3, <4>1 DEF HeaderLine, ParseHeaderLine, TypeOK
    <3>4. ParseStartLine(LineOf(pending_data)) \/ ParseHeaderLine(LineOf(pending_data))
      BY <2>4 DEF HeaderLine
    <3> QED
      BY <3>2, <3>3, <3>4
  <2>5. CASE HeadersEnd
    <3>1. pending_data' \in Seq(STRING)
      BY <2>5, LineFits DEF HeadersEnd, TypeOK
    <3> QED
      BY <2>5, <3>1 DEF HeadersEnd, TypeOK
  <2>6. CASE IgnoreBody
    BY <2>6 DEF IgnoreBody, Finish, TypeOK
  <2>7. CASE NoContent
    BY <2>7 DEF NoContent, Finish, TypeOK
  <2>8. CASE ParseFixedContent
    <3>1. content' \in Seq(STRING) /\ pending_data' \in Seq(STRING)
      <4>1. \/ UNCHANGED <<pending_data, content>>
            \/ content' = content \o pending_data /\ pending_data' = <<>>
        BY <2>8, Zenon DEF ParseFixedContent, AddContent
      <4>2. content \o pending_data \in Seq(STRING) /\ <<>> \in Seq(STRING)
        BY DEF TypeOK
      <4>3. content \in Seq(STRING) /\ pending_data \in Seq(STRING)
        BY Zenon DEF TypeOK
      <4> QED
        BY <4>1, <4>2, <4>3
    <3>2. pc' \in {"read", "finished", "failed"}
      BY <2>8, Zenon DEF ParseFixedContent, Finish
    <3> QED
      BY <2>8, <3>1, <3>2 DEF ParseFixedContent, TypeOK
  <2>9. CASE ParseChunkSize
    <3>1. \A t \in DOMAIN Sizes : Sizes[t] \in 0..kInvalidLength
      BY Numbers
    <3>2. HasLine(pending_data) => AfterLine(pending_data) \in Seq(STRING)
      BY LineFits DEF TypeOK
    <3>3. pending_data' \in Seq(STRING)
      BY <2>9, <3>2 DEF ParseChunkSize, TypeOK
    <3>4. chunk_size' \in 0..kInvalidLength /\ pc' \in {"chunk", "failed"}
      BY <2>9, <3>1 DEF ParseChunkSize, TypeOK
    <3> QED
      BY <2>9, <3>3, <3>4 DEF ParseChunkSize, TypeOK
  <2>10. CASE LastChunk
    BY <2>10 DEF LastChunk, Finish, TypeOK
  <2>11. CASE WholeChunk
    <3>1. CASE ChunkEnd < chunk_size
      BY <2>11, <3>1 DEF WholeChunk, TypeOK
    <3>2. CASE ~(ChunkEnd < chunk_size)
      <4>1. chunk_size \in Nat /\ ChunkEnd = chunk_size + 2
        BY <3>2, ThisEnd, Numbers
      <4>2. chunk_size \in 0..Len(pending_data) /\ ChunkEnd \in 0..Len(pending_data)
        BY <2>11, <4>1 DEF WholeChunk, TypeOK
      <4>3. /\ SubSeq(pending_data, 1, chunk_size) \in Seq(STRING)
            /\ Erase(pending_data, ChunkEnd) \in Seq(STRING)
        BY <4>2, Erased DEF TypeOK
      <4>4. content' \in Seq(STRING) /\ pending_data' \in Seq(STRING)
        <5>1. /\ content' = content \o SubSeq(pending_data, 1, chunk_size)
              /\ pending_data' = Erase(pending_data, ChunkEnd)
          BY <2>11, <3>2, Zenon DEF WholeChunk, AddContent
        <5>2. \A data \in Seq(STRING) : content \o data \in Seq(STRING)
          BY DEF TypeOK
        <5> QED
          BY <4>3, <5>1, <5>2, Zenon
      <4>5. chunk_size' \in 0..kInvalidLength
        BY <2>11, <3>2, Numbers DEF WholeChunk
      <4> QED
        BY <2>11, <3>2, <4>4, <4>5 DEF WholeChunk, TypeOK
    <3> QED
      BY <3>1, <3>2
  <2>12. CASE PartOfChunk
    <3>1. content' \in Seq(STRING) /\ pending_data' \in Seq(STRING)
      BY <2>12 DEF PartOfChunk, AddContent, TypeOK
    <3>2. chunk_size' \in 0..kInvalidLength
      <4>1. Len(pending_data) \in Nat
        BY DEF TypeOK
      <4>2. /\ chunk_size \in 0..kInvalidLength /\ chunk_size > Len(pending_data)
            /\ chunk_size' = chunk_size - Len(pending_data)
        BY <2>12 DEF PartOfChunk, TypeOK
      <4> QED
        BY <4>1, <4>2, Numbers
    <3> QED
      BY <2>12, <3>1, <3>2 DEF PartOfChunk, TypeOK
  <2>13. CASE AwaitChunkEnd
    BY <2>13 DEF AwaitChunkEnd, TypeOK
  <2>14. CASE UNCHANGED vars
    BY <2>14 DEF vars, TypeOK
  <2> QED
    BY <2>1, <2>2, <2>3, <2>4, <2>5, <2>6, <2>7, <2>8, <2>9, <2>10, <2>11, <2>12, <2>13, <2>14
       DEF Next, Parse
<1> QED
  BY <1>1, <1>2, PTL DEF Spec

-----------------------------------------------------------------------------
(* What is left of a text *)

\* p is pending and q is to come of w, k elements having been used.
IsRest(w, k, p, q) == k \in 0..Len(w) /\ p \o q = Erase(w, k)

\* What is pending can be used further.
LEMMA UseMore ==
  ASSUME NEW S, NEW w \in Seq(S), NEW p \in Seq(S), NEW q \in Seq(S),
         NEW k \in Nat, IsRest(w, k, p, q)
  PROVE  /\ k + Len(p) + Len(q) = Len(w)
         /\ \A i \in 1..Len(p) : p[i] = w[k + i]
         /\ Begins(p, Erase(w, k))
         /\ \A n \in 0..Len(p) : IsRest(w, k + n, Erase(p, n), q)
<1> DEFINE u == Erase(w, k)
<1>1. k \in 0..Len(w) /\ u = p \o q
  BY DEF IsRest
<1>2. /\ u \in Seq(S) /\ Len(u) = Len(w) - k
      /\ \A i \in 1..(Len(w) - k) : u[i] = w[i + k]
  BY <1>1, Erased
<1> HIDE DEF u
<1>3. IsJoined(S, p, q, u)
  BY <1>1, CutsOfJoined, Zenon
<1>4. Len(p) \in Nat /\ Len(q) \in Nat /\ Len(w) \in Nat
  OBVIOUS
<1>5. k + Len(p) + Len(q) = Len(w)
  <2>1. Len(u) = Len(p) + Len(q)
    BY <1>3, Zenon DEF IsJoined
  <2> QED
    BY <1>1, <1>2, <1>4, <2>1
<1>6. ASSUME NEW i \in 1..Len(p) PROVE p[i] = w[k + i]
  <2>1. i \in 1..(Len(w) - k) /\ i + k = k + i
    BY <1>4, <1>5
  <2>2. u[i] = p[i]
    BY <1>3 DEF IsJoined
  <2>3. u[i] = w[i + k]
    BY <1>2, <2>1
  <2> QED
    BY <2>1, <2>2, <2>3
<1>7. ASSUME NEW n \in 0..Len(p) PROVE IsRest(w, k + n, Erase(p, n), q)
  <2>1. k + n \in 0..Len(w) /\ n \in 0..Len(u)
    BY <1>2, <1>4, <1>5
  <2>2. Erase(u, n) = Erase(p, n) \o q
    BY <1>3 DEF IsJoined
  <2>3. Erase(w, k + n) = Erase(u, n)
    <3>1. Len(w) = k + Len(u)
      BY <1>1, <1>2
    <3>2. ASSUME NEW i \in 1..Len(u) PROVE w[k + i] = u[i]
      <4>1. i \in 1..(Len(w) - k) /\ i + k = k + i
        BY <1>2, <3>1
      <4> QED
        BY <1>2, <4>1
    <3>3. EndsIn(w, k, u)
      BY <3>1, <3>2, Zenon DEF EndsIn
    <3>4. u \in Seq(S) /\ n \in 0..Len(u)
      BY <1>2, <2>1, Zenon
    <3> HIDE DEF u
    <3>5. RestsOf(w, k, u)
      BY <3>3, <3>4, RestOfRest, Zenon
    <3> QED
      BY <3>4, <3>5, Zenon DEF RestsOf
  <2> QED
    BY <2>1, <2>2, <2>3 DEF IsRest
<1>8. Begins(p, u)
  BY <1>3 DEF IsJoined
<1> QED
  BY <1>5, <1>6, <1>7, <1>8 DEF u

\* Reading makes pending what was to come.
LEMMA ReadMore ==
  ASSUME NEW S, NEW w \in Seq(S), NEW p \in Seq(S), NEW q \in Seq(S),
         NEW k \in Nat, IsRest(w, k, p, q), NEW n \in 0..Len(q)
  PROVE  IsRest(w, k, p \o SubSeq(q, 1, n), Erase(q, n))
<1> DEFINE a == SubSeq(q, 1, n)
           b == Erase(q, n)
<1>1. a \in Seq(S) /\ b \in Seq(S)
  BY Erased
<1>2. a \o b = q
  BY CutAndJoined
<1> HIDE DEF a, b
<1>3. (p \o a) \o b = p \o (a \o b)
  <2>1. Associate(p, a, b)
    BY <1>1, Joined, Zenon
  <2> QED
    BY <2>1 DEF Associate
<1>4. (p \o a) \o b = p \o q
  BY <1>2, <1>3
<1>5. IsRest(w, k, p \o a, b)
  BY <1>4 DEF IsRest
<1> QED
  BY <1>5 DEF a, b

\* What is known when the line of the n bytes that follow is the next one.
IsNextLine(w, k, n, p, q) ==
  /\ ~HasLine(p) => q # <<>>
  /\ HasLine(p) => /\ Len(LineOf(p)) = n
                   /\ \A i \in 1..n : LineOf(p)[i] = w[k + i]
                   /\ IsRest(w, k + n + 2, AfterLine(p), q)

\* The next line is found where it is, when all of it is pending, and there is more
\* to come until then.
LEMMA NextLine ==
  ASSUME NEW S, NEW w \in Seq(S), NEW p \in Seq(S), NEW q \in Seq(S),
         NEW k \in Nat, IsRest(w, k, p, q), NEW n \in Nat, k + n + 2 <= Len(w),
         EndsLine(w, k + (n + 1)), \A i \in 1..n : ~EndsLine(w, k + i)
  PROVE  IsNextLine(w, k, n, p, q)
<1> DEFINE u == Erase(w, k)
<1>0. k \in 0..Len(w) /\ Len(w) \in Nat
  BY DEF IsRest
<1>1. /\ k + Len(p) + Len(q) = Len(w)
      /\ Begins(p, u)
      /\ \A j \in 0..Len(p) : IsRest(w, k + j, Erase(p, j), q)
  BY UseMore
<1>2. /\ u \in Seq(S) /\ Len(u) = Len(w) - k
      /\ \A i \in 1..(Len(w) - k) : u[i] = w[i + k]
  BY <1>0, Erased
<1> HIDE DEF u
<1>3. HasLineOf(u, 0, n)
  <2>1. \A i \in 1..(n + 1) : EndsLine(u, i) <=> EndsLine(w, k + i)
    <3> SUFFICES ASSUME NEW i \in 1..(n + 1) PROVE EndsLine(u, i) <=> EndsLine(w, k + i)
      OBVIOUS
    <3>1. /\ i \in 1..(Len(w) - k) /\ i + 1 \in 1..(Len(w) - k)
          /\ i + k = k + i /\ (i + 1) + k = (k + i) + 1
      BY <1>0
    <3>2. u[i] = w[k + i] /\ u[i + 1] = w[(k + i) + 1]
      BY <1>2, <3>1
    <3> QED
      BY <3>2 DEF EndsLine
  <2>2. EndsLine(u, 0 + n + 1)
    <3>1. 0 + n + 1 = n + 1 /\ n + 1 \in 1..(n + 1)
      OBVIOUS
    <3> QED
      BY <2>1, <3>1
  <2>3. \A i \in 1..n : ~EndsLine(u, 0 + i)
    <3>1. \A i \in 1..n : 0 + i = i /\ i \in 1..(n + 1)
      OBVIOUS
    <3> QED
      BY <2>1, <3>1
  <2>4. 0 + n + 2 <= Len(u)
    BY <1>0, <1>2
  <2> QED
    BY <2>2, <2>3, <2>4 DEF HasLineOf
<1>4. LET r == Erase(p, 0)
      IN  /\ HasLine(r) <=> 0 + n + 2 <= Len(p)
          /\ HasLine(r) => /\ LineOf(r) \in Seq(S) /\ Len(LineOf(r)) = n
                           /\ \A i \in 1..n : LineOf(r)[i] = u[0 + i]
  <2>1. 0 \in 0..Len(p)
    OBVIOUS
  <2> QED
    BY <1>1, <1>2, <1>3, <2>1, LineThere
<1>5. Erase(p, 0) = p
  BY DEF Erase
<1>6. /\ HasLine(p) <=> n + 2 <= Len(p)
      /\ HasLine(p) => Len(LineOf(p)) = n /\ \A i \in 1..n : LineOf(p)[i] = u[0 + i]
  BY <1>4, <1>5
<1>7. ASSUME ~HasLine(p) PROVE q # <<>>
  BY <1>0, <1>1, <1>6, <1>7
<1>8. ASSUME HasLine(p)
      PROVE  /\ Len(LineOf(p)) = n /\ \A i \in 1..n : LineOf(p)[i] = w[k + i]
             /\ IsRest(w, k + n + 2, AfterLine(p), q)
  <2>1. \A i \in 1..n : 0 + i = i /\ i \in 1..(Len(w) - k) /\ i + k = k + i
    BY <1>0
  <2>2. n + 2 \in 0..Len(p) /\ k + (n + 2) = k + n + 2
    <3>1. n + 2 <= Len(p) /\ Len(p) \in Nat
      BY <1>6, <1>8, LenProperties, Zenon
    <3> QED
      BY <3>1
  <2>3. AfterLine(p) = Erase(p, n + 2)
    BY <1>6, <1>8 DEF AfterLine
  <2> QED
    BY <1>1, <1>2, <1>6, <1>8, <2>1, <2>2, <2>3
<1> QED
  BY <1>7, <1>8 DEF IsNextLine

-----------------------------------------------------------------------------
(* A good message *)

\* The first k bytes of the message have been used; the rest is pending or to come.
Used(k) == IsRest(msg.bytes, k, pending_data, inbox)

\* The texts of the headers among the first i lines, and what they have said.
Texts(i) == {Text(msg.bytes, j) : j \in 2..i}
Said(i) ==
  /\ start_line_parsed = (i >= 1)
  /\ chunked = ("Chunked" \in Texts(i))
  /\ content_length_parsed = (Texts(i) \cap DOMAIN Lengths # {})
  /\ content_length_parsed =>
       \E t \in Texts(i) \cap DOMAIN Lengths : content_length = Lengths[t]

\* Some of the n lines have been read, the empty one has not.
InHeaders(n) ==
  /\ pc \in {"read", "headers"}
  /\ content = <<>> /\ chunk_size = kInvalidLength
  /\ \E i \in 0..n : Used(3 * i) /\ Said(i)

\* As much of the body was taken as was used after the headers.
InFixed(n) == pc \in {"read", "content"} /\ Used(3 * n + 2 + Len(content))

\* A chunk begins at p: its size line is the next to be read, or was read, and of
\* the chunk there is chunk_size left.
ChunkNext(after, p) ==
  chunk_size = kInvalidLength /\ Used(p - 1) /\ Len(content) = after[p]
ChunkBegun(after, p) ==
  LET size == Sizes[msg.bytes[p]]
  IN  /\ chunk_size \in 0..size /\ (chunk_size = 0 => size = 0 /\ pc = "chunk")
      /\ Used(p + 2 + (size - chunk_size)) /\ Len(content) = after[p] + (size - chunk_size)
InChunks(after) ==
  /\ pc \in {"read", "content", "chunk"}
  /\ \E p \in DOMAIN after : ChunkNext(after, p) \/ ChunkBegun(after, p)

InBody(n, after) ==
  /\ Said(n) /\ Begins(content, msg.body)
  /\ msg.head \/ (~chunked /\ ~content_length_parsed) => pc = "content"
  /\ ~msg.head /\ ~chunked /\ content_length_parsed => InFixed(n)
  /\ ~msg.head /\ chunked => InChunks(after)

\* The message is good, with its n lines and the places of its chunks.
IsMade(m, n, after) ==
  /\ Len(m.bytes) < SizeMax
  /\ n \in 1..Len(m.bytes) /\ DOMAIN after \subseteq 1..Len(m.bytes)
  /\ \A p \in DOMAIN after : after[p] \in 0..Len(m.body)
  /\ IsGood(m, n, after)

\* While a good message is read, what is known of it is what its bytes so far say,
\* and there is more to come when Parse() has returned.
Place(n, after) == IF header_ended THEN InBody(n, after) ELSE InHeaders(n)
Follows ==
  aligned /\ msg.ok =>
    /\ pc # "failed"
    /\ pc = "finished" => content = msg.body
    /\ pc = "read" => inbox # <<>>
    /\ pc \in {"read", "headers", "content", "chunk"} =>
         \E n, after : IsMade(msg, n, after) /\ Place(n, after)

\* A good message is made so.
LEMMA GoodIsMade ==
  ASSUME NEW m \in Messages, m.ok
  PROVE  \E n, after : IsMade(m, n, after)
<1> DEFINE places == {p \in 1..Len(m.bytes) : m.bytes[p] \in DOMAIN Sizes}
<1>1. \E n \in 1..Len(m.bytes) : \E starts \in SUBSET places :
        \E after \in [starts -> 0..Len(m.body)] : IsGood(m, n, after)
  BY MessagesAssumption, Zenon
<1>2. PICK n \in 1..Len(m.bytes) : \E starts \in SUBSET places :
        \E after \in [starts -> 0..Len(m.body)] : IsGood(m, n, after)
  BY <1>1, Zenon
<1>3. PICK starts \in SUBSET places : \E after \in [starts -> 0..Len(m.body)] : IsGood(m, n, after)
  BY <1>2, Zenon
<1>4. PICK after \in [starts -> 0..Len(m.body)] : IsGood(m, n, after)
  BY <1>3, Zenon
<1>5. DOMAIN after \subseteq 1..Len(m.bytes)
  <2>1. DOMAIN after = starts /\ starts \subseteq places
    OBVIOUS
  <2> QED
    BY <2>1
<1>6. \A p \in DOMAIN after : after[p] \in 0..Len(m.body)
  OBVIOUS
<1>7. Len(m.bytes) < SizeMax
  BY MessagesAssumption, Zenon
<1> QED
  BY <1>4, <1>5, <1>6, <1>7, Zenon DEF IsMade

\* The head of a good message: its lines, and the empty one.
LEMMA HeadIsThere ==
  ASSUME NEW m \in Messages, NEW n, NEW after, IsMade(m, n, after)
  PROVE  /\ n \in Nat /\ n >= 1 /\ 3 * n + 2 <= Len(m.bytes)
         /\ EndsLine(m.bytes, 3 * n + 1)
         /\ \A i \in 1..n : /\ 3 * i <= Len(m.bytes) /\ m.bytes[3 * i - 2] # "CR"
                            /\ EndsLine(m.bytes, 3 * i - 1)
         /\ m.bytes[1] = "S"
         /\ \A i \in 2..n : m.bytes[3 * i - 2] \in DOMAIN Lengths \cup {"Chunked", "Other"}
<1>1. n \in 1..Len(m.bytes) /\ IsHead(m.bytes, n)
  BY Zenon DEF IsMade, IsGood
<1>2. m.bytes \in Seq(STRING)
  BY MessageType
<1>3. /\ n \in Nat /\ n >= 1 /\ 3 * n + 2 <= Len(m.bytes)
      /\ m.bytes[3 * n + 1] = "CR" /\ m.bytes[3 * n + 2] = "LF"
  BY <1>1 DEF IsHead
<1>4. m.bytes[1] = "S" /\ \A i \in 2..n : m.bytes[3 * i - 2] \in DOMAIN Lengths \cup {"Chunked", "Other"}
  BY <1>1 DEF IsHead, Text
<1>5. EndsLine(m.bytes, 3 * n + 1)
  <2>1. (3 * n + 1) + 1 = 3 * n + 2
    BY <1>3
  <2> QED
    BY <1>3, <2>1 DEF EndsLine
<1>6. ASSUME NEW i \in 1..n
      PROVE  3 * i <= Len(m.bytes) /\ m.bytes[3 * i - 2] # "CR" /\ EndsLine(m.bytes, 3 * i - 1)
  <2>1. LineAt(m.bytes, 3 * i - 2)
    BY <1>1, Zenon DEF IsHead
  <2>2. i \in Nat /\ (3 * i - 2) + 2 = 3 * i /\ (3 * i - 2) + 1 = 3 * i - 1 /\ (3 * i - 1) + 1 = 3 * i
    BY <1>3
  <2>3. 3 * i <= Len(m.bytes) /\ EndsLine(m.bytes, 3 * i - 1)
    BY <2>1, <2>2 DEF LineAt, EndsLine
  <2>4. CASE i = 1
    <3>1. 3 * i - 2 = 1
      BY <2>4
    <3> QED
      BY <1>4, <2>3, <3>1
  <2>5. CASE i # 1
    <3>1. i \in 2..n
      BY <1>3, <2>5
    <3>2. m.bytes[3 * i - 2] \in DOMAIN Lengths \cup {"Chunked", "Other"}
      BY <1>4, <3>1
    <3>3. "CR" \notin DOMAIN Lengths \cup {"Chunked", "Other"}
      BY NumbersAssumption
    <3> QED
      BY <2>3, <3>2, <3>3
  <2> QED
    BY <2>4, <2>5
<1> QED
  BY <1>3, <1>4, <1>5, <1>6

-----------------------------------------------------------------------------
(* The steps of a good message *)

\* After i of the n lines, the next line is the next header, or the empty line.
LEMMA HeaderNext ==
  ASSUME TypeOK, NEW n, NEW after, IsMade(msg, n, after), NEW i \in 0..n, Used(3 * i)
  PROVE  /\ i < n => IsNextLine(msg.bytes, 3 * i, 1, pending_data, inbox)
         /\ i = n => IsNextLine(msg.bytes, 3 * i, 0, pending_data, inbox)
<1> DEFINE w == msg.bytes
           k == 3 * i
<1>1. w \in Seq(STRING) /\ pending_data \in Seq(STRING) /\ inbox \in Seq(STRING)
  BY MessageType DEF TypeOK
<1>2. /\ n \in Nat /\ n >= 1 /\ 3 * n + 2 <= Len(w)
      /\ EndsLine(w, 3 * n + 1)
      /\ \A j \in 1..n : 3 * j <= Len(w) /\ w[3 * j - 2] # "CR" /\ EndsLine(w, 3 * j - 1)
  BY HeadIsThere DEF TypeOK
<1>3. IsRest(w, k, pending_data, inbox) /\ i \in Nat /\ k \in Nat /\ i <= n
  BY <1>2 DEF Used
<1>4. ASSUME i < n PROVE IsNextLine(w, k, 1, pending_data, inbox)
  <2>1. /\ i + 1 \in 1..n /\ 3 * (i + 1) = k + 1 + 2 /\ 3 * (i + 1) - 2 = k + 1
        /\ 3 * (i + 1) - 1 = k + (1 + 1)
    BY <1>2, <1>3, <1>4
  <2> HIDE DEF w, k
  <2>2. k + 1 + 2 <= Len(w) /\ EndsLine(w, k + (1 + 1)) /\ w[k + 1] # "CR"
    BY <1>2, <2>1
  <2>3. \A j \in 1..1 : ~EndsLine(w, k + j)
    BY <2>2 DEF EndsLine
  <2>4. 1 \in Nat
    OBVIOUS
  <2> QED
    BY <1>1, <1>3, <2>2, <2>3, <2>4, NextLine
<1>5. ASSUME i = n PROVE IsNextLine(w, k, 0, pending_data, inbox)
  <2>1. k + 0 + 2 = 3 * n + 2 /\ k + (0 + 1) = 3 * n + 1
    BY <1>2, <1>3, <1>5
  <2> HIDE DEF w, k
  <2>2. k + 0 + 2 <= Len(w) /\ EndsLine(w, k + (0 + 1))
    BY <1>2, <2>1
  <2>3. \A j \in 1..0 : ~EndsLine(w, k + j)
    OBVIOUS
  <2>4. 0 \in Nat
    OBVIOUS
  <2> QED
    BY <1>1, <1>3, <2>2, <2>3, <2>4, NextLine
<1> QED
  BY <1>4, <1>5

\* What is known of the message when it is read.
LEMMA InPlace ==
  ASSUME Follows, aligned, msg.ok, pc \in {"read", "headers", "content", "chunk"}
  PROVE  \E n, after : IsMade(msg, n, after) /\ Place(n, after)
BY Zenon DEF Follows

\* The next message begins where the one before ended, if nothing of that is left.
LEMMA NextMessageFollows == TypeOK /\ Follows /\ NextMessage => Follows'
<1> SUFFICES ASSUME TypeOK, NextMessage, aligned', msg'.ok PROVE Follows'
  BY DEF Follows
<1>1. msg' \in Messages /\ inbox = <<>> /\ inbox' = inbox \o msg'.bytes /\ pending_data' = <<>>
  BY DEF NextMessage
<1>2. PICK n, after : IsMade(msg', n, after)
  BY <1>1, GoodIsMade
<1>3. msg'.bytes \in Seq(STRING)
  BY <1>1, MessageType
<1>4. n \in Nat /\ 3 * n + 2 <= Len(msg'.bytes)
  BY <1>1, <1>2, HeadIsThere
<1>5. inbox' = msg'.bytes /\ inbox' # <<>>
  BY <1>1, <1>3, <1>4
<1>6. IsRest(msg'.bytes, 3 * 0, pending_data', inbox')
  <2>1. Erase(msg'.bytes, 3 * 0) = msg'.bytes
    BY <1>3 DEF Erase
  <2>2. 3 * 0 \in 0..Len(msg'.bytes)
    BY <1>3
  <2> QED
    BY <1>1, <1>3, <1>5, <2>1, <2>2 DEF IsRest
<1>7. Said(0)'
  <2>1. Texts(0)' = {}
    BY DEF Texts
  <2>3. (0 >= 1) = FALSE /\ ("Chunked" \in {}) = FALSE /\ ({} \cap DOMAIN Lengths # {}) = FALSE
    OBVIOUS
  <2>2. (start_line_parsed' = FALSE) /\ (chunked' = FALSE) /\ (content_length_parsed' = FALSE)
    BY DEF NextMessage
  <2> QED
    BY <2>1, <2>2, <2>3, Zenon DEF Said
<1>8. InHeaders(n)'
  <2>1. 0 \in 0..n
    BY <1>4
  <2>2. pc' = "read" /\ content' = <<>> /\ chunk_size' = kInvalidLength
    BY DEF NextMessage
  <2> QED
    BY <1>6, <1>7, <2>1, <2>2 DEF InHeaders, Used
<1>9. header_ended' = FALSE /\ pc' = "read"
  BY DEF NextMessage
<1> QED
  BY <1>2, <1>5, <1>8, <1>9 DEF Follows, Place

\* Init is the same for the first message.
LEMMA InitFollows == Init => Follows
<1> SUFFICES ASSUME Init, aligned, msg.ok PROVE Follows
  BY DEF Follows
<1>1. msg \in Messages /\ inbox = msg.bytes /\ pending_data = <<>>
  BY DEF Init
<1>2. PICK n, after : IsMade(msg, n, after)
  BY <1>1, GoodIsMade
<1>3. msg.bytes \in Seq(STRING)
  BY <1>1, MessageType
<1>4. n \in Nat /\ 3 * n + 2 <= Len(msg.bytes)
  BY <1>1, <1>2, HeadIsThere
<1>5. inbox # <<>>
  BY <1>1, <1>3, <1>4
<1>6. IsRest(msg.bytes, 3 * 0, pending_data, inbox)
  <2>1. Erase(msg.bytes, 3 * 0) = msg.bytes
    BY <1>3 DEF Erase
  <2>2. 3 * 0 \in 0..Len(msg.bytes)
    BY <1>3
  <2> QED
    BY <1>1, <1>3, <2>1, <2>2 DEF IsRest
<1>7. Said(0)
  <2>1. Texts(0) = {}
    BY DEF Texts
  <2>3. (0 >= 1) = FALSE /\ ("Chunked" \in {}) = FALSE /\ ({} \cap DOMAIN Lengths # {}) = FALSE
    OBVIOUS
  <2>2. (start_line_parsed = FALSE) /\ (chunked = FALSE) /\ (content_length_parsed = FALSE)
    BY DEF Init
  <2> QED
    BY <2>1, <2>2, <2>3, Zenon DEF Said
<1>8. InHeaders(n)
  <2>1. 0 \in 0..n
    BY <1>4
  <2> QED
    BY <1>6, <1>7, <2>1 DEF InHeaders, Used, Init
<1> QED
  BY <1>2, <1>5, <1>8 DEF Follows, Place, Init

\* What was to come is pending, and where it belongs.
LEMMA ReadFollows ==
  ASSUME NEW k \in 1..Len(inbox)
  PROVE  TypeOK /\ Follows /\ Read(k) => Follows'
<1> USE DEF headVars, peerVars
<1> SUFFICES ASSUME TypeOK, Follows, Read(k), aligned', msg'.ok PROVE Follows'
  BY DEF Follows
<1>1. /\ UNCHANGED <<msg, aligned, start_line_parsed, header_ended, content_length,
                     content_length_parsed, chunked, chunk_size, content>>
      /\ pc = "read" /\ pending_data' = pending_data \o SubSeq(inbox, 1, k)
      /\ inbox' = Erase(inbox, k)
      /\ pc' = IF header_ended THEN "content" ELSE "headers"
  BY DEF Read
<1>2. aligned /\ msg.ok
  BY <1>1
<1>3. PICK n, after : IsMade(msg, n, after) /\ Place(n, after)
  BY <1>1, <1>2, InPlace
<1>4. msg.bytes \in Seq(STRING) /\ pending_data \in Seq(STRING) /\ inbox \in Seq(STRING)
  BY MessageType DEF TypeOK
<1>5. ASSUME NEW j, Used(j) PROVE Used(j)'
  <2>1. IsRest(msg.bytes, j, pending_data, inbox) /\ j \in Nat
    BY <1>5 DEF Used, IsRest
  <2>2. k \in 0..Len(inbox)
    OBVIOUS
  <2>3. IsRest(msg.bytes, j, pending_data \o SubSeq(inbox, 1, k), Erase(inbox, k))
    BY <1>4, <2>1, <2>2, ReadMore
  <2> QED
    BY <1>1, <2>3, Zenon DEF Used
<1>6. \A i : Said(i) => Said(i)'
  BY <1>1, Zenon DEF Said, Texts
<1>7. Place(n, after)'
  <2>1. CASE header_ended
    <3>1. InBody(n, after) /\ pc' = "content"
      BY <1>1, <1>3, <2>1 DEF Place
    <3>2. InFixed(n) => InFixed(n)'
      BY <1>1, <1>5, <3>1 DEF InFixed
    <3>3. InChunks(after) => InChunks(after)'
      <4> SUFFICES ASSUME NEW p \in DOMAIN after, ChunkNext(after, p) \/ ChunkBegun(after, p)
                   PROVE  InChunks(after)'
        BY DEF InChunks
      <4>1. ChunkNext(after, p) => ChunkNext(after, p)'
        BY <1>1, <1>5 DEF ChunkNext
      <4>2. ChunkBegun(after, p) => ChunkBegun(after, p)'
        BY <1>1, <1>5 DEF ChunkBegun
      <4> QED
        BY <3>1, <4>1, <4>2 DEF InChunks
    <3>4. InBody(n, after)'
      BY <1>1, <1>6, <3>1, <3>2, <3>3 DEF InBody
    <3> QED
      BY <1>1, <2>1, <3>4 DEF Place
  <2>2. CASE ~header_ended
    <3>1. InHeaders(n) /\ pc' = "headers"
      BY <1>1, <1>3, <2>2 DEF Place
    <3>2. PICK i \in 0..n : Used(3 * i) /\ Said(i)
      BY <3>1 DEF InHeaders
    <3>3. Used(3 * i)' /\ Said(i)'
      BY <1>5, <1>6, <3>2
    <3>4. InHeaders(n)'
      BY <1>1, <3>1, <3>3 DEF InHeaders
    <3> QED
      BY <1>1, <2>2, <3>4 DEF Place
  <2> QED
    BY <2>1, <2>2
<1>8. pc' \in {"headers", "content"} /\ msg' = msg
  BY <1>1
<1> QED
  BY <1>3, <1>7, <1>8 DEF Follows

\* What is done next tells whether the empty line was read.
LEMMA WhichPlace ==
  ASSUME TypeOK, NEW n, NEW after, Place(n, after)
  PROVE  /\ pc = "headers" => InHeaders(n) /\ ~header_ended
         /\ pc \in {"content", "chunk"} => InBody(n, after) /\ header_ended
<1>1. InBody(n, after) => pc \in {"read", "content", "chunk"}
  <2> SUFFICES ASSUME InBody(n, after) PROVE pc \in {"read", "content", "chunk"}
    OBVIOUS
  <2>1. CASE msg.head \/ (~chunked /\ ~content_length_parsed)
    BY <2>1 DEF InBody
  <2>2. CASE ~msg.head /\ chunked
    BY <2>2 DEF InBody, InChunks
  <2>3. CASE ~msg.head /\ ~chunked /\ content_length_parsed
    BY <2>3 DEF InBody, InFixed
  <2> QED
    BY <2>1, <2>2, <2>3, Zenon
<1>2. InHeaders(n) => pc \in {"read", "headers"}
  BY DEF InHeaders
<1>3. header_ended \in BOOLEAN
  BY DEF TypeOK
<1> QED
  BY <1>1, <1>2, <1>3 DEF Place

\* The headers say what the content is.
LEMMA ContentIsSaid ==
  ASSUME TypeOK, NEW n, NEW after, IsMade(msg, n, after), Said(n)
  PROVE  /\ msg.head \/ (~chunked /\ ~content_length_parsed) => msg.body = <<>>
         /\ ~msg.head /\ chunked => IsChunks(msg, n, after)
         /\ ~msg.head /\ ~chunked /\ content_length_parsed =>
              Erase(msg.bytes, 3 * n + 2) = msg.body /\ content_length = Len(msg.body)
<1>1. {Text(msg.bytes, i) : i \in 2..n} = Texts(n)
  BY Zenon DEF Texts
<1>2. /\ chunked = ("Chunked" \in Texts(n))
      /\ content_length_parsed = (Texts(n) \cap DOMAIN Lengths # {})
  BY Zenon DEF Said
<1>3. CASE msg.head
  BY <1>3, Zenon DEF IsMade, IsGood
<1>4. CASE ~msg.head /\ "Chunked" \in Texts(n)
  <2>1. IsChunks(msg, n, after)
    BY <1>1, <1>4, Zenon DEF IsMade, IsGood
  <2> QED
    BY <1>2, <1>4, <2>1, Zenon
<1>5. CASE ~msg.head /\ "Chunked" \notin Texts(n) /\ Texts(n) \cap DOMAIN Lengths # {}
  <2>1. IsFixed(msg, n)
    BY <1>1, <1>5, Zenon DEF IsMade, IsGood
  <2>2. \E t \in Texts(n) \cap DOMAIN Lengths : content_length = Lengths[t]
    BY <1>2, <1>5, Zenon DEF Said
  <2>3. \A t \in Texts(n) \cap DOMAIN Lengths : Lengths[t] = Len(msg.body)
    BY <2>1, Zenon DEF Texts, IsFixed
  <2>4. content_length = Len(msg.body)
    BY <2>2, <2>3, Zenon
  <2>5. Erase(msg.bytes, 3 * n + 2) = msg.body
    BY <2>1, Zenon DEF IsFixed
  <2> QED
    BY <1>2, <1>5, <2>4, <2>5, Zenon
<1>6. CASE ~msg.head /\ "Chunked" \notin Texts(n) /\ ~(Texts(n) \cap DOMAIN Lengths # {})
  <2>1. msg.body = <<>>
    BY <1>1, <1>6, Zenon DEF IsMade, IsGood
  <2> QED
    BY <1>2, <1>6, <2>1, Zenon
<1> QED
  BY <1>3, <1>4, <1>5, <1>6, Zenon

\* A line that is not complete has more to come.
LEMMA HeadersNeedMoreFollows == TypeOK /\ Follows /\ HeadersNeedMore => Follows'
<1> USE DEF headVars, peerVars
<1> SUFFICES ASSUME TypeOK, Follows, HeadersNeedMore, aligned', msg'.ok PROVE Follows'
  BY DEF Follows
<1>1. /\ UNCHANGED <<msg, aligned, inbox, pending_data, start_line_parsed, header_ended,
                     content_length, content_length_parsed, chunked, chunk_size, content>>
      /\ pc = "headers" /\ ~HasLine(pending_data) /\ pc' = "read"
  BY DEF HeadersNeedMore
<1>2. aligned /\ msg.ok
  BY <1>1
<1>3. PICK n, after : IsMade(msg, n, after) /\ Place(n, after)
  BY <1>1, <1>2, InPlace
<1>4. InHeaders(n) /\ ~header_ended
  BY <1>1, <1>3, WhichPlace
<1>5. PICK i \in 0..n : Used(3 * i) /\ Said(i)
  BY <1>4 DEF InHeaders
<1>6. /\ i < n => IsNextLine(msg.bytes, 3 * i, 1, pending_data, inbox)
      /\ i = n => IsNextLine(msg.bytes, 3 * i, 0, pending_data, inbox)
  BY <1>3, <1>5, HeaderNext
<1>7. i < n \/ i = n
  <2>1. n \in Nat
    BY <1>3, HeadIsThere DEF TypeOK
  <2> QED
    BY <2>1
<1>8. inbox # <<>>
  BY <1>1, <1>6, <1>7, Zenon DEF IsNextLine
<1>9. Used(3 * i)' /\ Said(i)'
  BY <1>1, <1>5, Zenon DEF Used, Said, Texts
<1>10. InHeaders(n)'
  BY <1>1, <1>4, <1>9 DEF InHeaders
<1> QED
  BY <1>1, <1>3, <1>4, <1>8, <1>10 DEF Follows, Place

\* The next header says one thing more.
LEMMA HeaderLineFollows == TypeOK /\ Follows /\ HeaderLine => Follows'
<1> USE DEF headVars, peerVars
<1> SUFFICES ASSUME TypeOK, Follows, HeaderLine, aligned', msg'.ok PROVE Follows'
  BY DEF Follows
<1> DEFINE line == LineOf(pending_data)
<1>1. /\ UNCHANGED <<msg, aligned, inbox, header_ended, chunk_size, content>>
      /\ pc = "headers" /\ HasLine(pending_data) /\ line # <<>>
      /\ ParseStartLine(line) \/ ParseHeaderLine(line)
      /\ pending_data' = AfterLine(pending_data)
  BY DEF HeaderLine, ParseStartLine, ParseHeaderLine
<1>2. aligned /\ msg.ok
  BY <1>1
<1>3. PICK n, after : IsMade(msg, n, after) /\ Place(n, after)
  BY <1>1, <1>2, InPlace
<1>4. InHeaders(n) /\ ~header_ended
  BY <1>1, <1>3, WhichPlace
<1>5. PICK i \in 0..n : Used(3 * i) /\ Said(i)
  BY <1>4 DEF InHeaders
<1>6. /\ i < n => IsNextLine(msg.bytes, 3 * i, 1, pending_data, inbox)
      /\ i = n => IsNextLine(msg.bytes, 3 * i, 0, pending_data, inbox)
  BY <1>3, <1>5, HeaderNext
<1>7. /\ n \in Nat /\ msg.bytes[1] = "S" /\ 3 * n + 2 <= Len(msg.bytes)
      /\ \A j \in 2..n : msg.bytes[3 * j - 2] \in DOMAIN Lengths \cup {"Chunked", "Other"}
  BY <1>3, HeadIsThere DEF TypeOK
<1>8. msg.bytes \in Seq(STRING) /\ line \in Seq(STRING)
  <2>1. pending_data \in Seq(STRING)
    BY DEF TypeOK
  <2>2. line \in Seq(STRING)
    BY <1>1, <2>1, LineFits
  <2> QED
    BY <2>2, MessageType DEF TypeOK
<1> HIDE DEF line
<1>9. i < n
  <2> SUFFICES ASSUME i = n PROVE FALSE
    BY <1>7
  <2>1. Len(line) = 0
    BY <1>1, <1>6 DEF IsNextLine, line
  <2> QED
    BY <1>1, <1>8, <2>1
<1> DEFINE text == Text(msg.bytes, i + 1)
<1>10. /\ Len(line) = 1 /\ line[1] = text
       /\ IsRest(msg.bytes, 3 * (i + 1), pending_data', inbox')
  <2>1. IsNextLine(msg.bytes, 3 * i, 1, pending_data, inbox)
    BY <1>6, <1>9
  <2>2. 3 * (i + 1) - 2 = 3 * i + 1 /\ 3 * i + 1 + 2 = 3 * (i + 1)
    BY <1>7
  <2>3. /\ Len(line) = 1 /\ \A j \in 1..1 : line[j] = msg.bytes[3 * i + j]
        /\ IsRest(msg.bytes, 3 * i + 1 + 2, pending_data', inbox')
    BY <1>1, <2>1, Zenon DEF IsNextLine, line
  <2>4. line[1] = msg.bytes[3 * i + 1]
    BY <2>3
  <2> QED
    BY <2>2, <2>3, <2>4 DEF Text
<1>11. i + 1 \in 0..n /\ i \in Nat /\ (i + 1 >= 1) = TRUE
  BY <1>7, <1>9
<1> DEFINE T == Texts(i)
<1>12. /\ start_line_parsed = (i >= 1)
       /\ chunked = ("Chunked" \in T)
       /\ content_length_parsed = (T \cap DOMAIN Lengths # {})
       /\ content_length_parsed => \E t \in T \cap DOMAIN Lengths : content_length = Lengths[t]
  BY <1>5, Zenon DEF Said
<1>13. pc' = "headers" /\ Said(i + 1)'
  <2>1. CASE ParseStartLine(line)
    <3>1. i = 0
      <4>1. ~start_line_parsed
        BY <2>1, Zenon DEF ParseStartLine
      <4>2. ~(i >= 1)
        BY <1>12, <4>1, Zenon
      <4> QED
        BY <1>11, <4>2
    <3>2. text = "S" /\ "S" \in STRING
      <4>1. 3 * (i + 1) - 2 = 1 /\ 1 \in 1..Len(msg.bytes)
        BY <1>7, <1>8, <3>1
      <4>2. text = "S"
        BY <1>7, <4>1 DEF Text
      <4>3. msg.bytes[1] \in STRING
        BY <1>8, <4>1
      <4> QED
        BY <1>7, <4>2, <4>3
    <3>3. line = <<"S">>
      <4> HIDE DEF text
      <4>1. <<"S">> \in Seq(STRING) /\ Len(<<"S">>) = 1 /\ <<"S">>[1] = "S"
        BY <3>2
      <4> QED
        BY <1>8, <1>10, <3>2, <4>1, SameSequence
    <3>4. T = {} /\ Texts(i + 1)' = {}
      BY <3>1 DEF Texts
    <3>5. start_line_parsed' = TRUE /\ pc' = "headers"
          /\ UNCHANGED <<content_length, content_length_parsed, chunked>>
      BY <2>1, <3>3 DEF ParseStartLine
    <3> HIDE DEF T
    <3> QED
      BY <1>11, <1>12, <3>4, <3>5, Zenon DEF Said
  <2>2. CASE ParseHeaderLine(line)
    <3>1. start_line_parsed /\ start_line_parsed' = start_line_parsed
      BY <2>2 DEF ParseHeaderLine
    <3>2. i + 1 \in 2..n /\ start_line_parsed = TRUE
      <4>1. i >= 1
        BY <1>12, <3>1, Zenon
      <4>2. start_line_parsed = TRUE
        BY <3>1 DEF TypeOK
      <4> QED
        BY <1>7, <1>9, <1>11, <4>1, <4>2
    <3>3. text \in DOMAIN Lengths \cup {"Chunked", "Other"}
      BY <1>7, <3>2 DEF Text
    <3>4. Texts(i + 1)' = T \cup {text}
      <4>1. 2..(i + 1) = (2..i) \cup {i + 1}
        BY <1>11, <3>2
      <4>2. msg' = msg
        BY <1>1
      <4> QED
        BY <4>1, <4>2, Zenon DEF Texts
    <3>5. "Chunked" \notin DOMAIN Lengths /\ "Other" \notin DOMAIN Lengths
          /\ "Chunked" # "Other"
      BY NumbersAssumption
    <3> HIDE DEF T, text
    <3>6. CASE /\ line[1] \in DOMAIN Lengths
               /\ content_length_parsed' = TRUE /\ content_length' = Lengths[line[1]]
               /\ UNCHANGED <<pc, chunked>>
      <4>1. ("Chunked" \in T \cup {text}) = ("Chunked" \in T)
        BY <1>10, <3>5, <3>6
      <4>2. text \in (T \cup {text}) \cap DOMAIN Lengths
        BY <1>10, <3>6
      <4>3. ((T \cup {text}) \cap DOMAIN Lengths # {}) = TRUE
        BY <4>2
      <4> QED
        BY <1>1, <1>10, <1>11, <1>12, <3>1, <3>2, <3>4, <3>6, <4>1, <4>2, <4>3, Zenon DEF Said
    <3>7. CASE line = <<"Chunked">> /\ chunked' = TRUE
               /\ UNCHANGED <<pc, content_length, content_length_parsed>>
      <4>1. text = "Chunked"
        BY <1>10, <3>7
      <4>2. ("Chunked" \in T \cup {text}) = TRUE
        BY <4>1
      <4>3. (T \cup {text}) \cap DOMAIN Lengths = T \cap DOMAIN Lengths
        BY <3>5, <4>1
      <4> QED
        BY <1>1, <1>11, <1>12, <3>1, <3>2, <3>4, <3>7, <4>2, <4>3, Zenon DEF Said
    <3>8. CASE line = <<"Other">>
               /\ UNCHANGED <<pc, content_length, content_length_parsed, chunked>>
      <4>1. text = "Other"
        BY <1>10, <3>8
      <4>2. ("Chunked" \in T \cup {text}) = ("Chunked" \in T)
        BY <3>5, <4>1
      <4>3. (T \cup {text}) \cap DOMAIN Lengths = T \cap DOMAIN Lengths
        BY <3>5, <4>1
      <4> QED
        BY <1>1, <1>11, <1>12, <3>1, <3>2, <3>4, <3>8, <4>2, <4>3, Zenon DEF Said
    <3>9. ~(line[1] \notin DOMAIN Lengths \cup {"Chunked", "Other"})
      BY <1>10, <3>3
    <3> QED
      BY <2>2, <3>6, <3>7, <3>8, <3>9, Zenon DEF ParseHeaderLine
  <2> QED
    BY <1>1, <2>1, <2>2, Zenon
<1>14. InHeaders(n)'
  <2>1. Used(3 * (i + 1))'
    BY <1>1, <1>10 DEF Used
  <2> QED
    BY <1>1, <1>4, <1>11, <1>13, <2>1 DEF InHeaders
<1> QED
  BY <1>1, <1>3, <1>4, <1>13, <1>14 DEF Follows, Place

\* Where the chunk that begins at p is, and what of the body.
IsChunk(m, after, p) ==
  LET size == Sizes[m.bytes[p]]
  IN  /\ p \in Nat /\ p >= 1 /\ p + 2 <= Len(m.bytes)
      /\ m.bytes[p] \in DOMAIN Sizes /\ m.bytes[p] # "CR" /\ EndsLine(m.bytes, p + 1)
      /\ size \in Nat /\ size + 2 < SizeMax /\ after[p] \in 0..Len(m.body)
      /\ size = 0 => after[p] = Len(m.body)
      /\ size # 0 => /\ p + 5 + size \in DOMAIN after /\ after[p + 5 + size] = after[p] + size
                     /\ p + 5 + size <= Len(m.bytes) /\ after[p] + size <= Len(m.body)
                     /\ \A i \in 1..size : m.bytes[p + 2 + i] = m.body[after[p] + i]

\* The chunks of a good message are so.
LEMMA ChunksAre ==
  ASSUME NEW m \in Messages, NEW n, NEW after, IsMade(m, n, after), IsChunks(m, n, after),
         NEW p \in DOMAIN after
  PROVE  IsChunk(m, after, p)
<1> DEFINE size == Sizes[m.bytes[p]]
           end == p + 3 + size
<1>1. /\ DOMAIN after \subseteq 1..Len(m.bytes) /\ Len(m.bytes) < SizeMax
      /\ \A r \in DOMAIN after : after[r] \in 0..Len(m.body)
  BY Zenon DEF IsMade
<1>2. Len(m.bytes) \in Nat /\ Len(m.body) \in Nat
  BY MessageType
<1>3. /\ LineAt(m.bytes, p) /\ m.bytes[p] \in DOMAIN Sizes
      /\ \/ size = 0 /\ after[p] = Len(m.body)
         \/ /\ size # 0 /\ end + 2 \in DOMAIN after /\ after[end + 2] = after[p] + size
            /\ \A i \in 1..size : m.bytes[p + 2 + i] = m.body[after[p] + i]
            /\ m.bytes[end] = "CR" /\ m.bytes[end + 1] = "LF"
  BY Zenon DEF IsChunks
<1>4. size \in Nat
  <2>1. size \in 0..kInvalidLength
    BY <1>3, Numbers, Zenon
  <2> QED
    BY <2>1
<1>5. p \in Nat /\ p >= 1 /\ after[p] \in 0..Len(m.body)
  BY <1>1, <1>2
<1>6. p + 2 <= Len(m.bytes) /\ EndsLine(m.bytes, p + 1)
  <2>1. (p + 1) + 1 = p + 2
    BY <1>5
  <2> QED
    BY <1>3, <2>1 DEF LineAt, EndsLine
<1>7. m.bytes[p] # "CR"
  <2>1. "CR" \notin DOMAIN Sizes
    BY NumbersAssumption
  <2> QED
    BY <1>3, <2>1
<1> HIDE DEF size
<1>8. ASSUME size # 0
      PROVE  /\ p + 5 + size \in DOMAIN after /\ after[p + 5 + size] = after[p] + size
             /\ p + 5 + size <= Len(m.bytes) /\ after[p] + size <= Len(m.body)
             /\ \A i \in 1..size : m.bytes[p + 2 + i] = m.body[after[p] + i]
  <2>1. end + 2 = p + 5 + size
    BY <1>4, <1>5
  <2>2. end + 2 \in DOMAIN after /\ after[end + 2] = after[p] + size
    BY <1>3, <1>8, Zenon
  <2>3. end + 2 \in 1..Len(m.bytes) /\ after[end + 2] \in 0..Len(m.body)
    BY <1>1, <2>2, Zenon
  <2>4. \A i \in 1..size : m.bytes[p + 2 + i] = m.body[after[p] + i]
    BY <1>3, <1>8, Zenon
  <2> QED
    BY <1>2, <2>1, <2>2, <2>3, <2>4
<1>9. size = 0 => after[p] = Len(m.body)
  BY <1>3
<1>10. size + 2 < SizeMax
  <2>1. CASE size = 0
    BY <2>1, Numbers
  <2>2. CASE size # 0
    BY <1>1, <1>2, <1>4, <1>5, <1>8, <2>2, Numbers
  <2> QED
    BY <2>1, <2>2
<1> QED
  BY <1>3, <1>4, <1>5, <1>6, <1>7, <1>8, <1>9, <1>10, Zenon DEF IsChunk, size

\* More of the body is taken.
LEMMA TakeMore ==
  ASSUME NEW S, NEW c \in Seq(S), NEW d \in Seq(S), NEW b \in Seq(S), Begins(c, b),
         Len(c) + Len(d) <= Len(b), \A i \in 1..Len(d) : d[i] = b[Len(c) + i]
  PROVE  Begins(c \o d, b) /\ Len(c \o d) = Len(c) + Len(d)
<1> DEFINE u == c \o d
<1>1. IsJoined(S, c, d, u)
  BY CutsOfJoined
<1> HIDE DEF u
<1>2. Len(u) = Len(c) + Len(d) /\ Len(c) \in Nat /\ Len(d) \in Nat
  BY <1>1 DEF IsJoined
<1>3. ASSUME NEW i \in 1..Len(u) PROVE u[i] = b[i]
  <2>1. CASE i <= Len(c)
    <3>1. i \in 1..Len(c)
      BY <1>2, <2>1
    <3> QED
      BY <1>1, <3>1 DEF IsJoined, Begins
  <2>2. CASE i > Len(c)
    <3>1. i - Len(c) \in 1..Len(d) /\ Len(c) + (i - Len(c)) = i
      BY <1>2, <2>2
    <3>2. u[Len(c) + (i - Len(c))] = d[i - Len(c)]
      BY <1>1, <3>1, Zenon DEF IsJoined
    <3> QED
      BY <3>1, <3>2
  <2>3. i <= Len(c) \/ i > Len(c)
    BY <1>2
  <2> QED
    BY <2>1, <2>2, <2>3, Zenon
<1>4. Begins(u, b)
  BY <1>2, <1>3 DEF Begins
<1> QED
  BY <1>2, <1>4 DEF u

\* All of it was taken.
LEMMA TakenAll ==
  ASSUME NEW S, NEW c \in Seq(S), NEW b \in Seq(S), Begins(c, b), Len(c) >= Len(b)
  PROVE  c = b
<1>1. Len(c) = Len(b) /\ \A i \in 1..Len(c) : c[i] = b[i]
  BY DEF Begins
<1> QED
  BY <1>1, SameSequence

\* The headers have ended; what follows is not read yet.
LEMMA HeadersEndFollows == TypeOK /\ Follows /\ HeadersEnd => Follows'
<1> USE DEF headVars, peerVars
<1> SUFFICES ASSUME TypeOK, Follows, HeadersEnd, aligned', msg'.ok PROVE Follows'
  BY DEF Follows
<1>1. /\ UNCHANGED <<msg, aligned, inbox, start_line_parsed, content_length,
                     content_length_parsed, chunked, chunk_size, content>>
      /\ pc = "headers" /\ HasLine(pending_data) /\ LineOf(pending_data) = <<>>
      /\ header_ended' = TRUE /\ pending_data' = AfterLine(pending_data)
      /\ pc' = "content" \/ ((~msg.ok \/ ~start_line_parsed) /\ pc' = "failed")
  BY DEF HeadersEnd
<1>2. aligned /\ msg.ok
  BY <1>1
<1>3. PICK n, after : IsMade(msg, n, after) /\ Place(n, after)
  BY <1>1, <1>2, InPlace
<1>4. InHeaders(n)
  BY <1>1, <1>3, WhichPlace
<1>5. PICK i \in 0..n : Used(3 * i) /\ Said(i)
  BY <1>4 DEF InHeaders
<1>6. /\ i < n => IsNextLine(msg.bytes, 3 * i, 1, pending_data, inbox)
      /\ i = n => IsNextLine(msg.bytes, 3 * i, 0, pending_data, inbox)
  BY <1>3, <1>5, HeaderNext
<1>7. n \in Nat /\ n >= 1
  BY <1>3, HeadIsThere DEF TypeOK
<1>8. i = n
  <2> SUFFICES ASSUME i < n PROVE FALSE
    BY <1>7
  <2>1. Len(LineOf(pending_data)) = 1
    BY <1>1, <1>6, Zenon DEF IsNextLine
  <2> QED
    BY <1>1, <2>1
<1>9. IsRest(msg.bytes, 3 * n + 2, pending_data', inbox')
  <2>1. 3 * n + 0 + 2 = 3 * n + 2
    BY <1>7
  <2>2. IsRest(msg.bytes, 3 * n + 0 + 2, pending_data', inbox')
    BY <1>1, <1>6, <1>8, Zenon DEF IsNextLine
  <2> QED
    BY <2>1, <2>2
<1>10. Said(n)' /\ start_line_parsed
  <2>1. Said(n)'
    BY <1>1, <1>5, <1>8, Zenon DEF Said, Texts
  <2>2. start_line_parsed = (n >= 1)
    BY <1>5, <1>8, Zenon DEF Said
  <2> QED
    BY <1>7, <2>1, <2>2, Zenon
<1>11. pc' = "content" /\ content' = <<>>
  BY <1>1, <1>2, <1>4, <1>10 DEF InHeaders
<1>12. ~msg.head /\ chunked => IsChunks(msg, n, after)
  BY <1>3, <1>5, <1>8, ContentIsSaid
<1>13. InFixed(n)'
  <2>1. 3 * n + 2 + Len(content') = 3 * n + 2
    BY <1>7, <1>11
  <2> QED
    BY <1>1, <1>9, <1>11, <2>1 DEF InFixed, Used
<1>14. ASSUME ~msg.head, chunked PROVE InChunks(after)'
  <2>1. 3 * n + 3 \in DOMAIN after /\ after[3 * n + 3] = 0
    BY <1>12, <1>14, Zenon DEF IsChunks
  <2>2. (3 * n + 3) - 1 = 3 * n + 2
    BY <1>7
  <2>3. chunk_size' = kInvalidLength /\ Len(content') = 0
    BY <1>1, <1>4, <1>11 DEF InHeaders
  <2>4. ChunkNext(after, 3 * n + 3)'
    BY <1>1, <1>9, <2>1, <2>2, <2>3 DEF ChunkNext, Used
  <2> QED
    BY <1>11, <2>1, <2>4 DEF InChunks
<1>15. Begins(content, msg.body)'
  <2>1. msg.body \in Seq(STRING) /\ msg' = msg
    BY <1>1, MessageType DEF TypeOK
  <2> QED
    BY <1>11, <2>1 DEF Begins
<1>16. InBody(n, after)'
  BY <1>1, <1>10, <1>11, <1>13, <1>14, <1>15 DEF InBody
<1> QED
  BY <1>1, <1>3, <1>11, <1>16 DEF Follows, Place

\* What is known of the message when its content is read.
LEMMA InContent ==
  ASSUME TypeOK, Follows, aligned, msg.ok, pc \in {"content", "chunk"}
  PROVE  /\ header_ended
         /\ \E n, after : IsMade(msg, n, after) /\ InBody(n, after)
<1>1. PICK n, after : IsMade(msg, n, after) /\ Place(n, after)
  BY InPlace
<1> QED
  BY <1>1, WhichPlace

\* There is nothing to be read.
LEMMA NoBodyFollows == TypeOK /\ Follows /\ (IgnoreBody \/ NoContent) => Follows'
<1> USE DEF headVars, peerVars
<1> SUFFICES ASSUME TypeOK, Follows, IgnoreBody \/ NoContent, aligned', msg'.ok PROVE Follows'
  BY DEF Follows
<1>1. /\ UNCHANGED <<msg, aligned, content>> /\ pc = "content" /\ pc' = "finished"
      /\ msg.head \/ (~chunked /\ ~content_length_parsed)
  BY DEF IgnoreBody, NoContent, Finish
<1>2. PICK n, after : IsMade(msg, n, after) /\ InBody(n, after)
  BY <1>1, InContent
<1>3. Said(n) /\ Begins(content, msg.body)
  BY <1>2, Zenon DEF InBody
<1>4. msg.body = <<>>
  BY <1>1, <1>2, <1>3, ContentIsSaid
<1>5. content = msg.body
  <2>1. content \in Seq(STRING) /\ msg.body \in Seq(STRING)
    BY MessageType DEF TypeOK
  <2>2. Len(content) >= Len(msg.body)
    BY <1>4, <2>1
  <2> QED
    BY <1>3, <2>1, <2>2, TakenAll
<1> QED
  BY <1>1, <1>5 DEF Follows

\* All that is pending belongs to the content.
LEMMA ParseFixedContentFollows == TypeOK /\ Follows /\ ParseFixedContent => Follows'
<1> USE DEF headVars, peerVars
<1> SUFFICES ASSUME TypeOK, Follows, ParseFixedContent, aligned', msg'.ok PROVE Follows'
  BY DEF Follows
<1>1. /\ UNCHANGED <<msg, aligned, inbox, start_line_parsed, header_ended, content_length,
                     content_length_parsed, chunked, chunk_size>>
      /\ pc = "content" /\ ~msg.head /\ ~chunked /\ content_length_parsed
      /\ content_length # kInvalidLength =>
           /\ content' = content \o pending_data /\ pending_data' = <<>>
           /\ IF Len(content') >= content_length THEN pc' = "finished" ELSE pc' = "read"
  BY DEF ParseFixedContent, AddContent, IsFixedContentFull, Finish
<1>2. PICK n, after : IsMade(msg, n, after) /\ InBody(n, after)
  BY <1>1, InContent
<1> DEFINE w == msg.bytes
           b == msg.body
           c == content
           d == pending_data
           h == 3 * n + 2
           k == h + Len(c)
<1>3. Said(n) /\ Begins(c, b) /\ Used(k)
  BY <1>1, <1>2 DEF InBody, InFixed
<1>4. Erase(w, h) = b /\ content_length = Len(b)
  BY <1>1, <1>2, <1>3, ContentIsSaid
<1>5. /\ w \in Seq(STRING) /\ b \in Seq(STRING) /\ c \in Seq(STRING) /\ d \in Seq(STRING)
      /\ inbox \in Seq(STRING)
  BY MessageType DEF TypeOK
<1>6. h \in Nat /\ h <= Len(w)
  BY <1>2, HeadIsThere DEF TypeOK
<1>7. header_ended
  BY <1>1, InContent
<1> HIDE DEF h
<1>8. k \in Nat /\ IsRest(w, k, d, inbox)
  BY <1>3, <1>5, <1>6 DEF Used
<1>9. Len(b) = Len(w) - h /\ \A i \in 1..Len(b) : b[i] = w[i + h]
  <2>1. h \in 0..Len(w)
    BY <1>5, <1>6
  <2>2. /\ Len(Erase(w, h)) = Len(w) - h
        /\ \A i \in 1..(Len(w) - h) : Erase(w, h)[i] = w[i + h]
    <3>1. w \in Seq(STRING)
      BY <1>5
    <3> HIDE DEF w
    <3> QED
      BY <2>1, <3>1, Erased
  <2> QED
    BY <1>4, <2>2
<1>10. /\ k + Len(d) + Len(inbox) = Len(w)
       /\ \A i \in 1..Len(d) : d[i] = w[k + i]
       /\ IsRest(w, k + Len(d), Erase(d, Len(d)), inbox)
  <2> HIDE DEF w, k, d
  <2>1. Len(d) \in 0..Len(d)
    BY <1>5
  <2> QED
    BY <1>5, <1>8, <2>1, UseMore
<1>11. Erase(d, Len(d)) = <<>>
  BY <1>5 DEF Erase
<1>12. Len(c) \in Nat /\ Len(d) \in Nat /\ Len(inbox) \in Nat /\ Len(b) \in Nat /\ Len(w) \in Nat
  BY <1>5
<1>13. /\ Begins(c \o d, b) /\ Len(c \o d) = Len(c) + Len(d)
  <2>1. Len(c) + Len(d) <= Len(b)
    BY <1>6, <1>9, <1>10, <1>12
  <2>2. ASSUME NEW i \in 1..Len(d) PROVE d[i] = b[Len(c) + i]
    <3>1. Len(c) + i \in 1..Len(b) /\ (Len(c) + i) + h = k + i
      BY <1>6, <1>12, <2>1
    <3> QED
      BY <1>9, <1>10, <3>1
  <2> QED
    BY <1>3, <1>5, <2>1, <2>2, TakeMore
<1>14. /\ content' = content \o pending_data /\ pending_data' = <<>>
       /\ IF Len(content') >= content_length THEN pc' = "finished" ELSE pc' = "read"
  <2>1. content_length # kInvalidLength
    <3>1. Len(w) < SizeMax
      BY <1>2, Zenon DEF IsMade
    <3>2. h >= 5
      BY <1>2, HeadIsThere DEF TypeOK, h
    <3> QED
      BY <1>4, <1>6, <1>9, <1>12, <3>1, <3>2, Numbers
  <2> QED
    BY <1>1, <2>1
<1>15. CASE Len(content') >= content_length
  <2>1. c \o d \in Seq(STRING) /\ Len(c \o d) >= Len(b)
    BY <1>1, <1>14, <1>4, <1>5, <1>15
  <2>2. c \o d = b
    BY <1>5, <1>13, <2>1, TakenAll
  <2> QED
    BY <1>1, <1>14, <1>15, <2>2 DEF Follows
<1>16. CASE ~(Len(content') >= content_length)
  <2>1. pc' = "read" /\ Len(content') = Len(c) + Len(d)
    BY <1>1, <1>14, <1>13, <1>16
  <2>2. inbox' # <<>>
    BY <1>1, <1>14, <1>4, <1>6, <1>9, <1>10, <1>12, <1>16, <2>1
  <2>3. Said(n)'
    BY <1>1, <1>14, <1>3, Zenon DEF Said, Texts
  <2>4. InFixed(n)'
    <3>1. k + Len(d) = 3 * n + 2 + Len(content')
      BY <1>6, <1>12, <2>1 DEF h
    <3>2. IsRest(w, k + Len(d), pending_data', inbox')
      BY <1>1, <1>14, <1>10, <1>11
    <3> HIDE DEF k, d, w
    <3> QED
      BY <1>1, <1>14, <2>1, <3>1, <3>2 DEF InFixed, Used, w
  <2>5. InBody(n, after)'
    BY <1>1, <1>14, <1>13, <2>3, <2>4 DEF InBody
  <2> QED
    BY <1>1, <1>14, <1>2, <1>7, <2>1, <2>2, <2>5 DEF Follows, Place
<1> QED
  BY <1>15, <1>16

\* The content is chunked, and one of the chunks is the next or was begun.
IsAtChunk(n, after, p) ==
  /\ header_ended /\ ~msg.head /\ chunked
  /\ IsMade(msg, n, after) /\ Said(n) /\ Begins(content, msg.body)
  /\ p \in DOMAIN after /\ IsChunks(msg, n, after) /\ IsChunk(msg, after, p)
  /\ ChunkNext(after, p) \/ ChunkBegun(after, p)

\* So it is whenever a chunk is read.
LEMMA AtChunk ==
  ASSUME TypeOK, Follows, aligned, msg.ok,
         pc = "chunk" \/ (pc = "content" /\ ~msg.head /\ chunked)
  PROVE  \E n, after, p : IsAtChunk(n, after, p)
<1>1. PICK n, after : IsMade(msg, n, after) /\ InBody(n, after)
  BY InContent
<1>2. header_ended
  BY InContent
<1>3. ~msg.head /\ chunked
  <2>1. CASE msg.head \/ (~chunked /\ ~content_length_parsed)
    BY <1>1, <2>1 DEF InBody
  <2>2. CASE ~msg.head /\ ~chunked /\ content_length_parsed
    BY <1>1, <2>2 DEF InBody, InFixed
  <2> QED
    BY <2>1, <2>2, Zenon
<1>4. Said(n) /\ Begins(content, msg.body) /\ InChunks(after)
  BY <1>1, <1>3, Zenon DEF InBody
<1>5. PICK p \in DOMAIN after : ChunkNext(after, p) \/ ChunkBegun(after, p)
  BY <1>4, Zenon DEF InChunks
<1>6. IsChunks(msg, n, after)
  BY <1>1, <1>3, <1>4, ContentIsSaid
<1>7. IsChunk(msg, after, p)
  BY <1>1, <1>6, ChunksAre DEF TypeOK
<1> QED
  BY <1>1, <1>2, <1>3, <1>4, <1>5, <1>6, <1>7, Zenon DEF IsAtChunk

\* And if a step leaves it so, it is right.
LEMMA StillChunked ==
  ASSUME NEW n, NEW after, NEW p, IsAtChunk(n, after, p),
         UNCHANGED <<msg, start_line_parsed, header_ended, content_length,
                     content_length_parsed, chunked>>,
         Begins(content', msg.body), pc' \in {"read", "content", "chunk"},
         pc' = "read" => inbox' # <<>>,
         NEW r \in DOMAIN after, ChunkNext(after, r)' \/ ChunkBegun(after, r)'
  PROVE  Follows'
<1>1. Said(n)'
  BY Zenon DEF Said, Texts, IsAtChunk
<1>2. InChunks(after)'
  BY Zenon DEF InChunks
<1>3. InBody(n, after)'
  BY <1>1, <1>2 DEF InBody, IsAtChunk
<1>4. header_ended' /\ IsMade(msg', n, after)
  BY DEF IsAtChunk
<1> QED
  BY <1>3, <1>4 DEF Follows, Place

\* Of a chunk of that size, chunk_size is left after the first k bytes of the message.
IsLeft(after, p, size, k) ==
  /\ size \in Nat /\ size + 2 < SizeMax /\ chunk_size \in 0..size /\ k \in Nat
  /\ k + Len(pending_data) + Len(inbox) = Len(msg.bytes)
  /\ \A j \in 0..Len(pending_data) : IsRest(msg.bytes, k + j, Erase(pending_data, j), inbox)
  /\ chunk_size # 0 => p + 5 + size <= Len(msg.bytes)
  /\ \A d \in Seq(STRING) :
       /\ chunk_size # 0 /\ Len(d) <= chunk_size /\ Len(d) <= Len(pending_data)
       /\ \A i \in 1..Len(d) : d[i] = pending_data[i]
       => /\ Begins(content \o d, msg.body)
          /\ Len(content \o d) = after[p] + (size - chunk_size) + Len(d)

\* What the chunk that was begun has left is next.
LEMMA ChunkLeft ==
  ASSUME TypeOK, NEW n, NEW after, NEW p, IsAtChunk(n, after, p), ChunkBegun(after, p)
  PROVE  IsLeft(after, p, Sizes[msg.bytes[p]], p + 2 + (Sizes[msg.bytes[p]] - chunk_size))
<1> DEFINE size == Sizes[msg.bytes[p]]
           k == p + 2 + (size - chunk_size)
           w == msg.bytes
           b == msg.body
           q == pending_data
<1>1. /\ w \in Seq(STRING) /\ b \in Seq(STRING) /\ content \in Seq(STRING) /\ q \in Seq(STRING)
      /\ inbox \in Seq(STRING)
  BY MessageType DEF TypeOK
<1>2. /\ p \in Nat /\ p >= 1 /\ size \in Nat /\ size + 2 < SizeMax /\ after[p] \in 0..Len(b)
      /\ size # 0 => /\ p + 5 + size <= Len(w) /\ after[p] + size <= Len(b)
                     /\ \A i \in 1..size : w[p + 2 + i] = b[after[p] + i]
  BY Zenon DEF IsAtChunk, IsChunk
<1>3. /\ chunk_size \in 0..size /\ Used(k) /\ Len(content) = after[p] + (size - chunk_size)
  BY Zenon DEF ChunkBegun
<1>4. Begins(content, b)
  BY Zenon DEF IsAtChunk
<1> HIDE DEF size
<1>5. k \in Nat /\ IsRest(w, k, q, inbox)
  BY <1>2, <1>3 DEF Used
<1> HIDE DEF w, b, q
<1>6. /\ k + Len(q) + Len(inbox) = Len(w)
      /\ \A i \in 1..Len(q) : q[i] = w[k + i]
      /\ \A j \in 0..Len(q) : IsRest(w, k + j, Erase(q, j), inbox)
  <2> HIDE DEF k
  <2> QED
    BY <1>1, <1>5, UseMore
<1>7. ASSUME NEW d \in Seq(STRING), chunk_size # 0, Len(d) <= chunk_size, Len(d) <= Len(q),
             \A i \in 1..Len(d) : d[i] = q[i]
      PROVE  /\ Begins(content \o d, b)
             /\ Len(content \o d) = after[p] + (size - chunk_size) + Len(d)
  <2>1. Len(d) \in Nat /\ Len(q) \in Nat /\ Len(b) \in Nat /\ size # 0
    <3>1. Len(d) \in Nat /\ Len(q) \in Nat /\ Len(b) \in Nat
      BY <1>1, <1>7, LenProperties, Zenon
    <3>2. chunk_size \in 0..size /\ chunk_size # 0
      BY <1>3, <1>7, Zenon
    <3>3. size # 0
      BY <3>2
    <3> QED
      BY <3>1, <3>3, Zenon
  <2>2. /\ p \in Nat /\ size \in Nat /\ after[p] \in Nat /\ after[p] + size <= Len(b)
        /\ chunk_size \in Nat /\ chunk_size <= size /\ Len(d) <= chunk_size
        /\ Len(content) = after[p] + (size - chunk_size)
    <3>1. /\ p \in Nat /\ size \in Nat /\ after[p] \in 0..Len(b) /\ after[p] + size <= Len(b)
          /\ chunk_size \in 0..size /\ Len(d) <= chunk_size
          /\ Len(content) = after[p] + (size - chunk_size)
      BY <1>2, <1>3, <1>7, <2>1, Zenon
    <3> QED
      BY <2>1, <3>1
  <2>3. Len(content) + Len(d) <= Len(b)
    BY <2>1, <2>2
  <2>4. ASSUME NEW i \in 1..Len(d) PROVE d[i] = b[Len(content) + i]
    <3> DEFINE j == (size - chunk_size) + i
    <3>1. /\ i \in 1..Len(q) /\ j \in 1..size
          /\ k + i = p + 2 + j /\ Len(content) + i = after[p] + j
      <4>1. i \in 1..Len(d) /\ Len(d) <= Len(q)
        BY <1>7
      <4>2. i \in Nat /\ 1 <= i /\ i <= Len(q) /\ i <= chunk_size
        BY <2>1, <2>2, <4>1
      <4>3. j \in 1..size
        BY <2>2, <4>2
      <4>4. k + i = p + 2 + j /\ Len(content) + i = after[p] + j
        BY <2>2, <4>2
      <4> QED
        BY <2>1, <4>2, <4>3, <4>4
    <3> HIDE DEF j, k
    <3>2. d[i] = q[i] /\ q[i] = w[k + i]
      BY <1>6, <1>7, <3>1
    <3>3. w[p + 2 + j] = b[after[p] + j]
      BY <1>2, <2>1, <3>1
    <3> QED
      BY <3>1, <3>2, <3>3
  <2>5. Begins(content \o d, b) /\ Len(content \o d) = Len(content) + Len(d)
    BY <1>1, <1>4, <2>3, <2>4, TakeMore
  <2> QED
    BY <1>3, <2>5
<1>8. chunk_size # 0 => p + 5 + size <= Len(w)
  BY <1>2, <1>3
<1> HIDE DEF k
<1>9. IsLeft(after, p, size, k)
  BY <1>2, <1>3, <1>5, <1>6, <1>7, <1>8, Zenon DEF IsLeft, w, b, q
<1> QED
  BY <1>9, Zenon DEF size, k

\* The size line of the next chunk is read when all of it is there.
LEMMA ParseChunkSizeFollows == TypeOK /\ Follows /\ ParseChunkSize => Follows'
<1> USE DEF headVars, peerVars
<1> SUFFICES ASSUME TypeOK, Follows, ParseChunkSize, aligned', msg'.ok PROVE Follows'
  BY DEF Follows
<1> DEFINE line == LineOf(pending_data)
<1>1. /\ UNCHANGED <<msg, aligned, inbox, start_line_parsed, header_ended, content_length,
                     content_length_parsed, chunked, content>>
      /\ pc = "content" /\ ~msg.head /\ chunked
      /\ IF chunk_size = kInvalidLength /\ HasLine(pending_data)
         THEN /\ pending_data' = AfterLine(pending_data)
              /\ IF line # <<>> /\ line[1] \in DOMAIN Sizes
                 THEN chunk_size' = Sizes[line[1]] /\ pc' = "chunk"
                 ELSE pc' = "failed" /\ UNCHANGED chunk_size
         ELSE pc' = "chunk" /\ UNCHANGED <<pending_data, chunk_size>>
  BY DEF ParseChunkSize
<1> HIDE DEF line
<1>2. PICK n, after, p : IsAtChunk(n, after, p)
  BY <1>1, AtChunk
<1>3. Begins(content', msg.body) /\ p \in DOMAIN after /\ IsChunk(msg, after, p)
  BY <1>1, <1>2 DEF IsAtChunk
<1>4. CASE ~(chunk_size = kInvalidLength /\ HasLine(pending_data))
  <2>1. pc' = "chunk" /\ UNCHANGED <<pending_data, chunk_size>>
    BY <1>1, <1>4
  <2>2. ChunkNext(after, p) => ChunkNext(after, p)'
    BY <1>1, <2>1 DEF ChunkNext, Used
  <2>3. ChunkBegun(after, p) => ChunkBegun(after, p)'
    BY <1>1, <2>1 DEF ChunkBegun, Used
  <2>4. ChunkNext(after, p)' \/ ChunkBegun(after, p)'
    BY <1>2, <2>2, <2>3, Zenon DEF IsAtChunk
  <2> QED
    BY <1>1, <1>2, <1>3, <2>1, <2>4, StillChunked
<1>5. CASE chunk_size = kInvalidLength /\ HasLine(pending_data)
  <2> DEFINE w == msg.bytes
             size == Sizes[w[p]]
  <2>1. /\ w \in Seq(STRING) /\ pending_data \in Seq(STRING) /\ inbox \in Seq(STRING)
    BY MessageType DEF TypeOK
  <2>2. /\ p \in Nat /\ p >= 1 /\ p + 2 <= Len(w) /\ w[p] \in DOMAIN Sizes /\ w[p] # "CR"
        /\ EndsLine(w, p + 1) /\ size \in Nat /\ size + 2 < SizeMax
    BY <1>3, Zenon DEF IsChunk
  <2>3. ChunkNext(after, p)
    <3> SUFFICES ASSUME ChunkBegun(after, p) PROVE FALSE
      BY <1>2 DEF IsAtChunk
    <3>1. chunk_size \in 0..size
      BY Zenon DEF ChunkBegun
    <3> HIDE DEF size
    <3> QED
      BY <1>5, <2>2, <3>1, Numbers
  <2>4. IsRest(w, p - 1, pending_data, inbox) /\ p - 1 \in Nat
    BY <2>2, <2>3 DEF ChunkNext, Used
  <2>5. IsNextLine(w, p - 1, 1, pending_data, inbox)
    <3> HIDE DEF w
    <3>1. /\ (p - 1) + 1 + 2 = p + 2 /\ (p - 1) + (1 + 1) = p + 1 /\ (p - 1) + 1 = p
      BY <2>2
    <3>2. (p - 1) + 1 + 2 <= Len(w) /\ EndsLine(w, (p - 1) + (1 + 1))
      BY <2>2, <3>1
    <3>3. \A i \in 1..1 : ~EndsLine(w, (p - 1) + i)
      BY <2>2, <3>1 DEF EndsLine
    <3>4. 1 \in Nat
      OBVIOUS
    <3> QED
      BY <2>1, <2>4, <3>2, <3>3, <3>4, NextLine
  <2>6. Len(line) = 1 /\ line[1] = w[p] /\ IsRest(w, p + 2, AfterLine(pending_data), inbox)
    <3>1. (p - 1) + 1 = p /\ (p - 1) + 1 + 2 = p + 2 /\ 1 \in 1..1
      BY <2>2
    <3>2. /\ Len(line) = 1 /\ \A i \in 1..1 : line[i] = w[(p - 1) + i]
          /\ IsRest(w, (p - 1) + 1 + 2, AfterLine(pending_data), inbox)
      BY <1>5, <2>5, Zenon DEF IsNextLine, line
    <3>3. line[1] = w[(p - 1) + 1]
      BY <3>1, <3>2, Zenon
    <3> QED
      BY <3>1, <3>2, <3>3
  <2>7. line # <<>>
    BY <2>6
  <2>8. chunk_size' = size /\ pc' = "chunk" /\ pending_data' = AfterLine(pending_data)
    BY <1>1, <1>5, <2>2, <2>6, <2>7
  <2>9. ChunkBegun(after, p)'
    <3>1. p + 2 + (size - chunk_size') = p + 2 /\ after[p] + (size - chunk_size') = after[p]
          /\ chunk_size' \in 0..size
      <4>1. after[p] \in Nat
        <5>1. after[p] \in 0..Len(msg.body)
          BY <1>3, Zenon DEF IsChunk
        <5> QED
          BY <5>1
      <4> HIDE DEF size
      <4>2. size - chunk_size' = 0 /\ size \in Nat
        BY <2>2, <2>8
      <4> QED
        BY <2>2, <2>8, <4>1, <4>2
    <3>2. Len(content') = after[p]
      BY <1>1, <2>3 DEF ChunkNext
    <3>3. Used(p + 2)'
      BY <1>1, <2>6, <2>8 DEF Used
    <3>4. msg' = msg
      BY <1>1
    <3> QED
      BY <2>8, <3>1, <3>2, <3>3, <3>4, Zenon DEF ChunkBegun
  <2> QED
    BY <1>1, <1>2, <1>3, <2>8, <2>9, StillChunked
<1> QED
  BY <1>4, <1>5

\* The last chunk ends the content, all of which was taken.
LEMMA LastChunkFollows == TypeOK /\ Follows /\ LastChunk => Follows'
<1> USE DEF headVars, peerVars
<1> SUFFICES ASSUME TypeOK, Follows, LastChunk, aligned', msg'.ok PROVE Follows'
  BY DEF Follows
<1>1. /\ UNCHANGED <<msg, aligned, content>> /\ pc = "chunk" /\ pc' = "finished"
      /\ chunk_size = 0
  BY DEF LastChunk, Finish
<1>2. PICK n, after, p : IsAtChunk(n, after, p)
  BY <1>1, AtChunk
<1> DEFINE size == Sizes[msg.bytes[p]]
<1>3. /\ Begins(content, msg.body) /\ (size = 0 => after[p] = Len(msg.body))
      /\ after[p] \in 0..Len(msg.body)
      /\ ChunkNext(after, p) \/ ChunkBegun(after, p)
  BY <1>2, Zenon DEF IsAtChunk, IsChunk
<1>4. ChunkBegun(after, p)
  <2>1. kInvalidLength # 0
    BY Numbers
  <2> QED
    BY <1>1, <1>3, <2>1 DEF ChunkNext
<1>5. size = 0 /\ Len(content) = after[p] + (size - chunk_size)
  BY <1>1, <1>4, Zenon DEF ChunkBegun
<1>6. content = msg.body
  <2>1. content \in Seq(STRING) /\ msg.body \in Seq(STRING)
    BY MessageType DEF TypeOK
  <2> HIDE DEF size
  <2>2. Len(content) >= Len(msg.body)
    BY <1>1, <1>3, <1>5, <2>1
  <2> QED
    BY <1>3, <2>1, <2>2, TakenAll
<1> QED
  BY <1>1, <1>6 DEF Follows

\* A chunk that is there with its CRLF is taken; the next begins after it.
LEMMA WholeChunkFollows == TypeOK /\ Follows /\ WholeChunk => Follows'
<1> USE DEF headVars, peerVars
<1> SUFFICES ASSUME TypeOK, Follows, WholeChunk, aligned', msg'.ok PROVE Follows'
  BY DEF Follows
<1>1. /\ UNCHANGED <<msg, aligned, inbox, start_line_parsed, header_ended, content_length,
                     content_length_parsed, chunked>>
      /\ pc = "chunk" /\ chunk_size # 0 /\ ChunkEnd <= Len(pending_data)
      /\ ChunkEnd < chunk_size => pc' = "threw"
      /\ ~(ChunkEnd < chunk_size) =>
           /\ content' = content \o SubSeq(pending_data, 1, chunk_size)
           /\ pending_data' = Erase(pending_data, ChunkEnd)
           /\ chunk_size' = kInvalidLength /\ pc' = "content"
  BY DEF WholeChunk, AddContent
<1>2. PICK n, after, p : IsAtChunk(n, after, p)
  BY <1>1, AtChunk
<1>3. CASE ChunkEnd < chunk_size
  BY <1>1, <1>3 DEF Follows
<1>4. CASE ~(ChunkEnd < chunk_size)
  <2>0. chunk_size \in Nat /\ ChunkEnd = chunk_size + 2 /\ chunk_size # kInvalidLength
    BY <1>4, ThisEnd, Numbers
  <2>1. ChunkBegun(after, p)
    BY <1>2, <2>0 DEF IsAtChunk, ChunkNext
  <2> DEFINE size == Sizes[msg.bytes[p]]
             k == p + 2 + (size - chunk_size)
             d == SubSeq(pending_data, 1, chunk_size)
  <2>2. IsLeft(after, p, size, k)
    BY <1>2, <2>1, ChunkLeft
  <2>3. /\ p \in Nat /\ after[p] \in 0..Len(msg.body)
        /\ size # 0 => p + 5 + size \in DOMAIN after /\ after[p + 5 + size] = after[p] + size
    BY <1>2, Zenon DEF IsAtChunk, IsChunk
  <2> HIDE DEF size
  <2>4. size # 0 /\ chunk_size \in Nat /\ ChunkEnd = chunk_size + 2
    <3>1. chunk_size \in 0..size
      BY <2>2, Zenon DEF IsLeft
    <3> QED
      BY <1>1, <2>0, <3>1
  <2>5. pending_data \in Seq(STRING) /\ msg.body \in Seq(STRING)
    BY MessageType DEF TypeOK
  <2>6. chunk_size \in 0..Len(pending_data) /\ chunk_size + 2 \in 0..Len(pending_data)
    BY <1>1, <2>4, <2>5
  <2>7. /\ d \in Seq(STRING) /\ Len(d) = chunk_size
        /\ \A i \in 1..chunk_size : d[i] = pending_data[i]
    BY <2>5, <2>6, Erased
  <2> HIDE DEF d
  <2>8. /\ Begins(content \o d, msg.body)
        /\ Len(content \o d) = after[p] + (size - chunk_size) + chunk_size
    <3>1. chunk_size <= Len(pending_data) /\ chunk_size <= chunk_size
      BY <2>6
    <3> QED
      BY <1>1, <2>2, <2>7, <3>1, Zenon DEF IsLeft
  <2>9. content' = content \o d /\ pending_data' = Erase(pending_data, chunk_size + 2)
        /\ chunk_size' = kInvalidLength /\ pc' = "content"
    BY <1>1, <1>4, <2>4 DEF d
  <2>10. PICK r \in DOMAIN after : r = p + 5 + size /\ after[r] = after[p] + size
    BY <2>3, <2>4
  <2>11. ChunkNext(after, r)'
    <3>1. size \in Nat /\ chunk_size \in 0..size /\ k \in Nat
      BY <2>2, Zenon DEF IsLeft
    <3>2. k + (chunk_size + 2) = r - 1
      BY <2>3, <2>10, <3>1
    <3>3. IsRest(msg.bytes, k + (chunk_size + 2), Erase(pending_data, chunk_size + 2), inbox)
      BY <2>2, <2>6, Zenon DEF IsLeft
    <3>4. after[p] + (size - chunk_size) + chunk_size = after[r]
      BY <2>3, <2>10, <3>1
    <3>5. Len(content') = after[r]
      BY <2>8, <2>9, <3>4
    <3>6. msg' = msg /\ inbox' = inbox
      BY <1>1
    <3> HIDE DEF k
    <3>7. IsRest(msg'.bytes, r - 1, pending_data', inbox')
      BY <2>9, <3>2, <3>3, <3>6
    <3> QED
      BY <2>9, <3>5, <3>7, Zenon DEF ChunkNext, Used
  <2>12. Begins(content', msg.body)
    BY <2>8, <2>9
  <2> QED
    BY <1>1, <1>2, <2>9, <2>11, <2>12, StillChunked
<1> QED
  BY <1>3, <1>4

\* What is pending is part of the chunk, and the rest of the chunk is to come; or
\* nothing is pending, and the size line is to come.
LEMMA PartOfChunkFollows == TypeOK /\ Follows /\ PartOfChunk => Follows'
<1> USE DEF headVars, peerVars
<1> SUFFICES ASSUME TypeOK, Follows, PartOfChunk, aligned', msg'.ok PROVE Follows'
  BY DEF Follows
<1>1. /\ UNCHANGED <<msg, aligned, inbox, start_line_parsed, header_ended, content_length,
                     content_length_parsed, chunked>>
      /\ pc = "chunk" /\ chunk_size # 0 /\ ChunkEnd > Len(pending_data)
      /\ chunk_size > Len(pending_data)
      /\ content' = content \o pending_data
      /\ chunk_size' = chunk_size - Len(pending_data)
      /\ pending_data' = <<>> /\ pc' = "read"
  BY DEF PartOfChunk, AddContent
<1>2. PICK n, after, p : IsAtChunk(n, after, p)
  BY <1>1, AtChunk
<1>3. /\ pending_data \in Seq(STRING) /\ inbox \in Seq(STRING) /\ content \in Seq(STRING)
      /\ msg.bytes \in Seq(STRING) /\ msg.body \in Seq(STRING)
      /\ Len(pending_data) \in Nat /\ Len(inbox) \in Nat /\ Len(msg.bytes) \in Nat
  BY MessageType DEF TypeOK
<1>4. /\ p \in DOMAIN after /\ p \in Nat /\ p + 2 <= Len(msg.bytes)
      /\ after[p] \in 0..Len(msg.body) /\ Begins(content, msg.body)
  BY <1>2, Zenon DEF IsAtChunk, IsChunk
<1>5. CASE chunk_size = kInvalidLength
  <2>1. Len(pending_data) = 0
    <3>1. ChunkEnd = 1
      BY <1>5, ThisEnd, Numbers
    <3> QED
      BY <1>1, <1>3, <3>1
  <2>2. ChunkNext(after, p)
    <3> SUFFICES ASSUME ChunkBegun(after, p) PROVE FALSE
      BY <1>2 DEF IsAtChunk
    <3>1. IsLeft(after, p, Sizes[msg.bytes[p]], p + 2 + (Sizes[msg.bytes[p]] - chunk_size))
      BY <1>2, ChunkLeft
    <3> DEFINE size == Sizes[msg.bytes[p]]
    <3>2. size \in Nat /\ size + 2 < SizeMax /\ chunk_size \in 0..size
      BY <3>1, Zenon DEF IsLeft
    <3> HIDE DEF size
    <3> QED
      BY <1>5, <3>2, Numbers
  <2>3. pending_data = <<>> /\ content' = content /\ chunk_size' = kInvalidLength
    <3>1. pending_data = <<>>
      BY <1>3, <2>1
    <3>2. content \o <<>> = content
      BY <1>3
    <3> QED
      BY <1>1, <1>5, <2>1, <3>1, <3>2, Numbers
  <2>4. ChunkNext(after, p)'
    BY <1>1, <2>2, <2>3 DEF ChunkNext, Used
  <2>5. inbox' # <<>>
    <3>1. IsRest(msg.bytes, p - 1, pending_data, inbox) /\ p - 1 \in Nat
      BY <1>4, <2>2 DEF ChunkNext, Used, IsRest
    <3>2. (p - 1) + Len(pending_data) + Len(inbox) = Len(msg.bytes)
      <4> DEFINE w == msg.bytes
                 k == p - 1
      <4> HIDE DEF w, k
      <4>1. w \in Seq(STRING) /\ IsRest(w, k, pending_data, inbox) /\ k \in Nat
        BY <1>3, <3>1 DEF w, k
      <4>2. k + Len(pending_data) + Len(inbox) = Len(w)
        BY <1>3, <4>1, UseMore
      <4> QED
        BY <4>2 DEF w, k
    <3> QED
      BY <1>1, <1>3, <1>4, <2>1, <3>2
  <2>6. Begins(content', msg.body)
    BY <1>4, <2>3
  <2> QED
    BY <1>1, <1>2, <1>4, <2>4, <2>5, <2>6, StillChunked
<1>6. CASE chunk_size # kInvalidLength
  <2>1. ChunkBegun(after, p)
    BY <1>2, <1>6 DEF IsAtChunk, ChunkNext
  <2> DEFINE size == Sizes[msg.bytes[p]]
             k == p + 2 + (size - chunk_size)
             d == pending_data
  <2>2. IsLeft(after, p, size, k)
    BY <1>2, <2>1, ChunkLeft
  <2> HIDE DEF size
  <2>3. /\ size \in Nat /\ chunk_size \in 0..size /\ k \in Nat
        /\ k + Len(d) + Len(inbox) = Len(msg.bytes)
        /\ p + 5 + size <= Len(msg.bytes)
        /\ IsRest(msg.bytes, k + Len(d), Erase(d, Len(d)), inbox)
    <3>1. Len(d) \in 0..Len(d)
      BY <1>3
    <3> HIDE DEF k
    <3> QED
      BY <1>1, <2>2, <3>1, Zenon DEF IsLeft
  <2>4. chunk_size \in Nat /\ size \in Nat /\ chunk_size <= size
    BY <2>3
  <2>5. /\ Begins(content \o d, msg.body)
        /\ Len(content \o d) = after[p] + (size - chunk_size) + Len(d)
    <3>1. Len(d) <= chunk_size /\ Len(d) <= Len(d)
      BY <1>1, <1>3, <2>4
    <3> QED
      BY <1>1, <1>3, <2>2, <3>1, Zenon DEF IsLeft
  <2>6. ChunkBegun(after, p)'
    <3>0. /\ chunk_size' = chunk_size - Len(d) /\ Len(d) < chunk_size /\ Len(d) \in Nat
          /\ chunk_size \in Nat /\ size \in Nat /\ chunk_size <= size /\ p \in Nat
          /\ content' = content \o d
      BY <1>1, <1>3, <1>4, <2>4
    <3>1. chunk_size' \in 0..size /\ chunk_size' # 0
      BY <3>0
    <3>2. k + Len(d) = p + 2 + (size - chunk_size')
      BY <3>0
    <3>3. Len(content') = after[p] + (size - chunk_size')
      <4>1. after[p] \in Nat
        BY <1>4
      <4>2. Len(content') = after[p] + (size - chunk_size) + Len(d)
        BY <2>5, <3>0, Zenon
      <4> HIDE DEF d
      <4> QED
        BY <3>0, <4>1, <4>2
    <3>4. Erase(d, Len(d)) = <<>>
      BY <1>3 DEF Erase
    <3>5. msg' = msg /\ inbox' = inbox /\ pending_data' = <<>>
      BY <1>1
    <3> HIDE DEF k, d
    <3>6. IsRest(msg'.bytes, p + 2 + (size - chunk_size'), pending_data', inbox')
      BY <2>3, <3>2, <3>4, <3>5
    <3> QED
      BY <3>1, <3>3, <3>5, <3>6, Zenon DEF ChunkBegun, Used, size
  <2>7. inbox' # <<>>
    <3>1. /\ p \in Nat /\ size \in Nat /\ chunk_size \in Nat /\ Len(d) \in Nat
          /\ Len(inbox) \in Nat /\ chunk_size > Len(d)
          /\ k + Len(d) + Len(inbox) = Len(msg.bytes) /\ p + 5 + size <= Len(msg.bytes)
      BY <1>1, <1>3, <1>4, <2>3, <2>4, Zenon
    <3>2. Len(inbox) # 0
      <4> HIDE DEF d
      <4> QED
        BY <3>1
    <3>3. inbox # <<>> /\ inbox' = inbox
      BY <1>1, <3>2
    <3> QED
      BY <3>3
  <2>8. Begins(content', msg.body)
    BY <1>1, <2>5
  <2> QED
    BY <1>1, <1>2, <1>4, <2>6, <2>7, <2>8, StillChunked
<1> QED
  BY <1>5, <1>6

\* Without its CRLF, a chunk is waited for.
LEMMA AwaitChunkEndFollows == TypeOK /\ Follows /\ AwaitChunkEnd => Follows'
<1> USE DEF headVars, peerVars
<1> SUFFICES ASSUME TypeOK, Follows, AwaitChunkEnd, aligned', msg'.ok PROVE Follows'
  BY DEF Follows
<1>1. /\ UNCHANGED <<msg, aligned, inbox, pending_data, start_line_parsed, header_ended,
                     content_length, content_length_parsed, chunked, chunk_size, content>>
      /\ pc = "chunk" /\ chunk_size # 0 /\ ChunkEnd > Len(pending_data)
      /\ chunk_size <= Len(pending_data) /\ pc' = "read"
  BY DEF AwaitChunkEnd
<1>2. PICK n, after, p : IsAtChunk(n, after, p)
  BY <1>1, AtChunk
<1>3. Len(pending_data) \in Nat /\ Len(inbox) \in Nat /\ Len(msg.bytes) \in Nat
  BY MessageType DEF TypeOK
<1>4. p \in DOMAIN after /\ p \in Nat /\ Begins(content', msg.body)
  <2>1. p \in DOMAIN after /\ p \in Nat /\ Begins(content, msg.body)
    BY <1>2, Zenon DEF IsAtChunk, IsChunk
  <2> QED
    BY <1>1, <2>1
<1>5. chunk_size # kInvalidLength
  <2> SUFFICES ASSUME chunk_size = kInvalidLength PROVE FALSE
    OBVIOUS
  <2>1. ChunkEnd = 1
    BY ThisEnd, Numbers
  <2> QED
    BY <1>1, <1>3, <2>1, Numbers
<1>6. ChunkBegun(after, p)
  BY <1>2, <1>5 DEF IsAtChunk, ChunkNext
<1>7. ChunkBegun(after, p)'
  BY <1>1, <1>6 DEF ChunkBegun, Used
<1>8. inbox' # <<>>
  <2> DEFINE size == Sizes[msg.bytes[p]]
             k == p + 2 + (size - chunk_size)
  <2>1. IsLeft(after, p, size, k)
    BY <1>2, <1>6, ChunkLeft
  <2> HIDE DEF size
  <2>2. /\ size \in Nat /\ size + 2 < SizeMax /\ chunk_size \in 0..size
        /\ k + Len(pending_data) + Len(inbox) = Len(msg.bytes)
        /\ p + 5 + size <= Len(msg.bytes)
    <3> HIDE DEF k
    <3> QED
      BY <1>1, <2>1, Zenon DEF IsLeft
  <2>3. ChunkEnd = chunk_size + 2
    <3>1. chunk_size \in Nat /\ chunk_size <= size
      BY <2>2
    <3> QED
      BY <2>2, <3>1, ThisEnd, Numbers
  <2> QED
    BY <1>1, <1>3, <1>4, <2>2, <2>3
<1> QED
  BY <1>1, <1>2, <1>4, <1>7, <1>8, StillChunked

\* The invariant: a good message is parsed as far as its bytes have come, no
\* further and in the right place (Parser::Parse(), parser.cc).
LEMMA FollowsCorrect == Spec => []Follows
<1>1. Init => Follows
  BY InitFollows
<1>2. TypeOK /\ Follows /\ [Next]_vars => Follows'
  <2> SUFFICES ASSUME TypeOK, Follows, [Next]_vars PROVE Follows'
    OBVIOUS
  <2>1. CASE NextMessage
    BY <2>1, NextMessageFollows
  <2>2. ASSUME NEW k \in 1..Len(inbox), Read(k) PROVE Follows'
    BY <2>2, ReadFollows
  <2>3. CASE HeadersNeedMore
    BY <2>3, HeadersNeedMoreFollows
  <2>4. CASE HeaderLine
    BY <2>4, HeaderLineFollows
  <2>5. CASE HeadersEnd
    BY <2>5, HeadersEndFollows
  <2>6. CASE IgnoreBody \/ NoContent
    BY <2>6, NoBodyFollows
  <2>7. CASE ParseFixedContent
    BY <2>7, ParseFixedContentFollows
  <2>8. CASE ParseChunkSize
    BY <2>8, ParseChunkSizeFollows
  <2>9. CASE LastChunk
    BY <2>9, LastChunkFollows
  <2>10. CASE WholeChunk
    BY <2>10, WholeChunkFollows
  <2>11. CASE PartOfChunk
    BY <2>11, PartOfChunkFollows
  <2>12. CASE AwaitChunkEnd
    BY <2>12, AwaitChunkEndFollows
  <2>13. CASE UNCHANGED vars
    BY <2>13 DEF vars, peerVars, headVars, Follows, Place, InHeaders, InBody, InFixed,
                 InChunks, ChunkNext, ChunkBegun, Said, Texts, Used
  <2> QED
    BY <2>1, <2>2, <2>3, <2>4, <2>5, <2>6, <2>7, <2>8, <2>9, <2>10, <2>11, <2>12, <2>13, Zenon
       DEF Next, Parse
<1> QED
  BY <1>1, <1>2, TypeCorrect, PTL DEF Spec

\* However it is split, a message that is parsed from its first byte gives the
\* content the peer sent (ParseFixedContent() and ParseChunkedContent()).
THEOREM ContentFaithful == Spec => []ContentIsFaithful
<1>1. Follows => ContentIsFaithful
  BY Zenon DEF Follows, ContentIsFaithful
<1> QED
  BY <1>1, FollowsCorrect, PTL

\* A good message is not rejected, by any line of it or because of where it was
\* split (Parse() returning false).
THEOREM GoodParsed == Spec => []GoodIsParsed
<1>1. Follows => GoodIsParsed
  BY Zenon DEF Follows, GoodIsParsed
<1> QED
  BY <1>1, FollowsCorrect, PTL

\* Parse() returns to be given more only if there is more of the message.
THEOREM WaitsForData == Spec => []WaitsOnlyForData
<1>1. Follows => WaitsOnlyForData
  BY Zenon DEF Follows, WaitsOnlyForData
<1> QED
  BY <1>1, FollowsCorrect, PTL

-----------------------------------------------------------------------------
(* The exception *)

\* A size that wraps around was written by the peer, or is that of a chunk whose size
\* line is not complete.
WrappedSize ==
  \/ chunk_size + 2 >= SizeMax /\ chunk_size \in {Sizes[t] : t \in DOMAIN Sizes}
  \/ chunk_size = kInvalidLength /\ ~HasLine(pending_data) /\ pending_data # <<>>
SizesAreSaid ==
  /\ pc = "chunk" => chunked
  /\ pc \notin {"chunk", "threw"} => chunk_size + 2 < SizeMax \/ chunk_size = kInvalidLength
  /\ pc = "chunk" => \/ chunk_size + 2 < SizeMax
                     \/ chunk_size \in {Sizes[t] : t \in DOMAIN Sizes}
                     \/ chunk_size = kInvalidLength /\ ~HasLine(pending_data)
  /\ pc = "threw" => chunked /\ WrappedSize

\* Parse() ends with an exception for two reasons only: the peer has written one of
\* the two sizes for which chunk_size_ + 2 wraps around, or a read has ended within
\* the line with the size of a chunk, when ParseChunkSize() leaves chunk_size_ invalid
\* and the loop of ParseChunkedContent() goes on with it.
THEOREM OnlyWrappedSizesThrow == Spec => [](pc = "threw" => chunked /\ WrappedSize)
<1> USE DEF headVars, peerVars
<1>1. Init => SizesAreSaid
  BY DEF Init, SizesAreSaid
<1>2. TypeOK /\ SizesAreSaid /\ [Next]_vars => SizesAreSaid'
  <2> SUFFICES ASSUME TypeOK, SizesAreSaid, [Next]_vars PROVE SizesAreSaid'
    OBVIOUS
  <2> DEFINE real == chunk_size + 2 < SizeMax
             said == chunk_size \in {Sizes[t] : t \in DOMAIN Sizes}
             parsing == pc' \notin {"chunk", "threw"}
  <2>1. CASE ParseChunkSize
    <3>1. pc = "content" /\ chunked' = chunked /\ chunked
      BY <2>1 DEF ParseChunkSize
    <3>2. CASE chunk_size = kInvalidLength /\ HasLine(pending_data)
      <4>1. \/ pc' = "chunk" /\ \E t \in DOMAIN Sizes : chunk_size' = Sizes[t]
            \/ pc' = "failed" /\ chunk_size' = chunk_size
        BY <2>1, <3>2, Zenon DEF ParseChunkSize
      <4> QED
        BY <3>1, <3>2, <4>1 DEF SizesAreSaid
    <3>3. CASE ~(chunk_size = kInvalidLength /\ HasLine(pending_data))
      <4>1. pc' = "chunk" /\ chunk_size' = chunk_size /\ pending_data' = pending_data
        BY <2>1, <3>3 DEF ParseChunkSize
      <4>2. real \/ (chunk_size = kInvalidLength /\ ~HasLine(pending_data))
        BY <3>1, <3>3 DEF SizesAreSaid
      <4> QED
        BY <3>1, <4>1, <4>2 DEF SizesAreSaid
    <3> QED
      BY <3>2, <3>3
  <2>2. CASE WholeChunk
    <3>1. CASE ChunkEnd < chunk_size
      <4>1. /\ pc = "chunk" /\ pc' = "threw" /\ ChunkEnd <= Len(pending_data)
            /\ UNCHANGED <<chunk_size, pending_data, chunked>>
        BY <2>2, <3>1 DEF WholeChunk
      <4>2. chunk_size + 2 >= SizeMax
        BY <3>1, ThisEnd, Numbers
      <4>3. chunk_size = kInvalidLength => pending_data # <<>>
        <5> SUFFICES ASSUME chunk_size = kInvalidLength, pending_data = <<>> PROVE FALSE
          OBVIOUS
        <5>1. ChunkEnd = 1
          BY ThisEnd, Numbers
        <5> QED
          BY <4>1, <5>1
      <4>4. chunked /\ WrappedSize
        BY <4>1, <4>2, <4>3, Numbers DEF SizesAreSaid, WrappedSize, TypeOK
      <4> QED
        BY <4>1, <4>4 DEF SizesAreSaid, WrappedSize
    <3>2. CASE ~(ChunkEnd < chunk_size)
      <4>1. pc' = "content" /\ chunk_size' = kInvalidLength
        BY <2>2, <3>2 DEF WholeChunk
      <4> QED
        BY <4>1 DEF SizesAreSaid
    <3> QED
      BY <3>1, <3>2
  <2>3. CASE PartOfChunk
    <3>1. /\ pc' = "read" /\ ChunkEnd > Len(pending_data)
          /\ chunk_size' = chunk_size - Len(pending_data)
      BY <2>3 DEF PartOfChunk
    <3>2. Len(pending_data) \in Nat
      BY DEF TypeOK
    <3>3. chunk_size' + 2 < SizeMax \/ chunk_size' = kInvalidLength
      BY <3>1, <3>2, ThisEnd, Numbers
    <3> QED
      BY <3>1, <3>3 DEF SizesAreSaid
  <2>4. CASE AwaitChunkEnd
    <3>1. /\ pc' = "read" /\ ChunkEnd > Len(pending_data) /\ chunk_size <= Len(pending_data)
          /\ chunk_size' = chunk_size
      BY <2>4 DEF AwaitChunkEnd
    <3>2. Len(pending_data) \in Nat
      BY DEF TypeOK
    <3>3. chunk_size + 2 < SizeMax
      BY <3>1, <3>2, ThisEnd, Numbers
    <3> QED
      BY <3>1, <3>3 DEF SizesAreSaid
  <2>5. CASE LastChunk
    <3>1. pc' = "finished" /\ chunk_size' = 0
      BY <2>5 DEF LastChunk, Finish
    <3> QED
      BY <3>1, Numbers DEF SizesAreSaid
  <2>6. CASE UNCHANGED vars
    BY <2>6 DEF vars, SizesAreSaid, WrappedSize
  <2>7. CASE parsing /\ (chunk_size' = kInvalidLength
                         \/ (pc \notin {"chunk", "threw"} /\ chunk_size' = chunk_size))
    BY <2>7 DEF SizesAreSaid
  <2>8. \/ ParseChunkSize \/ WholeChunk \/ PartOfChunk \/ AwaitChunkEnd \/ LastChunk
        \/ UNCHANGED vars
        \/ parsing /\ (chunk_size' = kInvalidLength
                       \/ (pc \notin {"chunk", "threw"} /\ chunk_size' = chunk_size))
    <3>1. ASSUME NEW n \in 1..Len(inbox), Read(n)
          PROVE  parsing /\ pc \notin {"chunk", "threw"} /\ chunk_size' = chunk_size
      BY <3>1 DEF Read
    <3>2. ASSUME NextMessage PROVE parsing /\ chunk_size' = kInvalidLength
      BY <3>2 DEF NextMessage
    <3>3. ASSUME HeadersNeedMore \/ HeadersEnd \/ IgnoreBody \/ NoContent
          PROVE  parsing /\ pc \notin {"chunk", "threw"} /\ chunk_size' = chunk_size
      BY <3>3 DEF HeadersNeedMore, HeadersEnd, IgnoreBody, NoContent, Finish
    <3>4. ASSUME HeaderLine
          PROVE  parsing /\ pc \notin {"chunk", "threw"} /\ chunk_size' = chunk_size
      BY <3>4 DEF HeaderLine, ParseStartLine, ParseHeaderLine
    <3>5. ASSUME ParseFixedContent
          PROVE  parsing /\ pc \notin {"chunk", "threw"} /\ chunk_size' = chunk_size
      BY <3>5 DEF ParseFixedContent, Finish
    <3> HIDE DEF parsing
    <3> QED
      BY <3>1, <3>2, <3>3, <3>4, <3>5, Zenon DEF Next, Parse
  <2> QED
    BY <2>1, <2>2, <2>3, <2>4, <2>5, <2>6, <2>7, <2>8, Zenon
<1>3. SizesAreSaid => (pc = "threw" => chunked /\ WrappedSize)
  BY Zenon DEF SizesAreSaid
<1> QED
  BY <1>1, <1>2, <1>3, TypeCorrect, PTL DEF Spec

=============================================================================
