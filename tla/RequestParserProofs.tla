-------------------------- MODULE RequestParserProofs --------------------------
(***************************************************************************)
(* Proofs about RequestParser.                                             *)
(***************************************************************************)
EXTENDS RequestParser, DataLemmas

-----------------------------------------------------------------------------
(* The view *)

\* The index of the first route that matches is that of a route that matches.
LEMMA FirstRoute ==
  ASSUME NEW method, NEW path, MatchView(method, path)
  PROVE  /\ HasView(method, path)
         /\ FindView(method, path) \in Views
         /\ MatchStream(method, path) <=> method \in FindView(method, path).stream
<1> DEFINE T == RoutesMatched(method, path)
<1>1. T = RoutesFound(method, path)
  BY DEF RoutesFound, RoutesMatched
<1> DEFINE R == [url : Paths \cup {""}, url_regex : SUBSET Paths,
                 methods : SUBSET Methods, view : Views]
<1>r. Routes \in Seq(R)
  BY RouterAssumption
<1>v. \A r \in R : r.view \in Views
  OBVIOUS
<1> HIDE DEF R
<1>2. T \in SUBSET Nat /\ T \subseteq DOMAIN Routes /\ T # {}
  <2>1. DOMAIN Routes \subseteq Nat
    BY <1>r
  <2>2. T \subseteq DOMAIN Routes
    BY Zenon DEF RoutesMatched
  <2>3. T # {}
    BY DEF MatchView
  <2> HIDE DEF T
  <2> QED
    BY <2>1, <2>2, <2>3
<1>3. Min(T) \in T
  <2> HIDE DEF T
  <2> QED
    BY <1>2, LeastNumber DEF Min
<1>4. Routes[Min(T)].view \in Views
  <2>1. Min(T) \in DOMAIN Routes
    BY <1>2, <1>3
  <2>2. Routes[Min(T)] \in R
    BY <1>r, <2>1
  <2> QED
    BY <1>v, <2>2
<1> QED
  BY <1>1, <1>2, <1>4 DEF MatchStream, MatchView, HasView, FindView

\* A request that was not refused has a view, or may be for a file, and the parser
\* streams it if and only if its view says so (OnHeadersEnd(), request_parser.cc).
ViewFound ==
  pc \notin {"headers", "refused"} =>
    /\ MatchView(request.method, request.path) \/ request.method = "GET"
    /\ stream = MatchStream(request.method, request.path)
    /\ pc = "handled" =>
         \E is_file \in BOOLEAN : answer = Handle(request.method, request.path, is_file)

\* The invariant holds initially and is kept.
LEMMA ViewFoundCorrect == Spec => []ViewFound
<1>1. Init => ViewFound
  BY DEF Init, ViewFound
<1>2. ViewFound /\ [Next]_vars => ViewFound'
  <2> SUFFICES ASSUME ViewFound, [Next]_vars PROVE ViewFound'
    OBVIOUS
  <2>1. CASE NextRequest
    BY <2>1 DEF NextRequest, ParserInit, ViewFound
  <2>2. CASE WritePayload
    BY <2>2 DEF WritePayload, ViewFound, requestVars
  <2>3. CASE Refuse
    BY <2>3 DEF Refuse, ViewFound
  <2>4. ASSUME NEW n \in 0..Len(wire), HeadersEnd(n) PROVE ViewFound'
    <3>1. MatchView(request.method, request.path) \/ request.method = "GET"
      BY <2>4 DEF HeadersEnd, MatchViewOrStatic
    <3>2. stream' = MatchStream(request.method, request.path)
      BY <2>4, Zenon DEF HeadersEnd
    <3>3. request' = request /\ pc' # "handled"
      BY <2>4 DEF HeadersEnd, Take
    <3> QED
      BY <3>1, <3>2, <3>3, Zenon DEF ViewFound
  <2>5. ASSUME NEW n \in 1..Len(wire), Read(n) PROVE ViewFound'
    BY <2>5 DEF Read, Take, ViewFound
  <2>6. CASE ParseMultipartContent
    <3>1. pc \in {"content", "part_headers"} /\ pc' \notin {"headers", "handled"}
      BY <2>6 DEF ParseMultipartContent, EndOfData, FirstBoundary, BeginPart, PartHeadersNeedMore,
         PartHeaderLine, PartHeadersEnd, AwaitBoundary, EndPart, DataEnds, SavePart, Finish
    <3>2. UNCHANGED <<request, stream>>
      BY <2>6 DEF ParseMultipartContent, EndOfData, FirstBoundary, BeginPart, PartHeadersNeedMore,
         PartHeaderLine, PartHeadersEnd, AwaitBoundary, EndPart, requestVars
    <3> QED
      BY <3>1, <3>2, Zenon DEF ViewFound
  <2>7. CASE HandleRequest
    BY <2>7, Zenon DEF HandleRequest, ViewFound
  <2>8. CASE UNCHANGED vars
    BY <2>8, Zenon DEF vars, requestVars, ViewFound
  <2> QED
    BY <2>1, <2>2, <2>3, <2>4, <2>5, <2>6, <2>7, <2>8 DEF Next
<1> QED
  BY <1>1, <1>2, PTL DEF Spec

\* For every table of routes: a request that is let through is answered by a view
\* or as a file, and it was streamed exactly if this view has asked for it.  The
\* two lookups, MatchView() and FindView() in router.cc, find the same route.
THEOREM TheRightViewAnswers == Spec => []RightView
<1>1. ViewFound => RightView
  <2> SUFFICES ASSUME ViewFound, pc = "handled" PROVE RightView
    BY DEF RightView
  <2>1. PICK is_file \in BOOLEAN : answer = Handle(request.method, request.path, is_file)
    BY DEF ViewFound
  <2>2. stream = MatchStream(request.method, request.path)
    BY DEF ViewFound
  <2>3. CASE MatchView(request.method, request.path)
    <3> DEFINE view == FindView(request.method, request.path)
    <3>1. HasView(request.method, request.path) /\ view \in Views
          /\ (stream <=> request.method \in view.stream)
      BY <2>2, <2>3, FirstRoute
    <3>2. answer = view.name
      BY <2>1, <3>1 DEF Handle
    <3> HIDE DEF view
    <3>3. answer # "Bad Request" /\ \A v \in Views : answer = v.name => v = view
      BY <3>1, <3>2, RouterAssumption
    <3> QED
      BY <3>1, <3>3, Zenon DEF RightView
  <2>4. CASE ~MatchView(request.method, request.path)
    <3>1. ~HasView(request.method, request.path) /\ request.method = "GET"
      BY <2>4 DEF ViewFound, MatchView, HasView, RoutesFound, RoutesMatched
    <3>2. answer \in {"file", "Not Found"}
      BY <2>1, <3>1 DEF Handle, ServeStatic
    <3>3. \A v \in Views : answer # v.name
      BY <3>2, RouterAssumption
    <3> QED
      BY <3>2, <3>3 DEF RightView
  <2> QED
    BY <2>3, <2>4
<1> QED
  BY <1>1, ViewFoundCorrect, PTL

-----------------------------------------------------------------------------
(* What a client writes *)

\* The bytes of forms.
Byte == STRING \cup {"CR", "LF", "-", "Type"}

\* What is made of bytes.
LEMMA Bytes ==
  /\ "CR" \in Byte /\ "LF" \in Byte /\ "-" \in Byte /\ "Type" \in Byte
  /\ STRING \subseteq Byte /\ Names \subseteq Byte
  /\ Seq(STRING) \subseteq Seq(Byte)
  /\ CRLF \in Seq(Byte) /\ Len(CRLF) = 2 /\ CRLF[1] = "CR" /\ CRLF[2] = "LF"
  /\ Boundary \in Seq(Byte) /\ Len(Boundary) \in Nat \ {0}
<1>1. /\ "CR" \in Byte /\ "LF" \in Byte /\ "-" \in Byte /\ "Type" \in Byte
      /\ STRING \subseteq Byte
  BY DEF Byte
<1>2. Seq(STRING) \subseteq Seq(Byte)
  BY <1>1, SeqMonotonic
<1>3. Names \subseteq Byte
  BY <1>1, NamesAssumption
<1>4. CRLF \in Seq(Byte) /\ Len(CRLF) = 2 /\ CRLF[1] = "CR" /\ CRLF[2] = "LF"
  BY <1>1 DEF CRLF
<1>5. Boundary \in Seq(Byte) /\ Len(Boundary) \in Nat \ {0}
  BY <1>2, BoundaryAssumption
<1> QED
  BY <1>1, <1>2, <1>3, <1>4, <1>5

\* The headers of a part and the empty line after them.
PartHead(p) ==
  IF p.typed THEN <<p.name, "CR", "LF", "Type", "CR", "LF", "CR", "LF">>
  ELSE <<p.name, "CR", "LF", "CR", "LF">>

\* A part is its headers, its data and a line end.
LEMMA PartText ==
  ASSUME NEW p \in PartType
  PROVE  /\ Prepare(p) = (PartHead(p) \o Load(p).data) \o CRLF
         /\ PartHead(p) \in Seq(Byte) /\ Load(p).data \in Seq(Byte)
         /\ Len(PartHead(p)) = 3 * Len(SetHeaders(p)) + 2
         /\ p.data # <<>> \/ p.path => Len(Load(p).data) = GetDataSize(p)
<1> DEFINE headers == SetHeaders(p)
           lines == [i \in 1..Len(headers) |-> <<headers[i]>> \o CRLF]
           data == Load(p).data
<1>1. /\ p.name \in Byte /\ p.data \in Seq(Byte) /\ p.file \in Seq(Byte)
      /\ p.typed \in BOOLEAN /\ p.path \in BOOLEAN
  BY Bytes DEF PartType
<1>2. data \in Seq(Byte)
  BY <1>1 DEF Load, PartType
<1>3. p.data # <<>> \/ p.path => Len(data) = GetDataSize(p)
  BY <1>1 DEF Load, GetDataSize, PartType
<1>5. Prepare(p) = ((FlattenSeq(lines) \o CRLF) \o data) \o CRLF
  BY DEF Prepare
<1>6. FlattenSeq(lines) \o CRLF = PartHead(p) /\ Len(PartHead(p)) = 3 * Len(headers) + 2
  <2>1. CASE p.typed
    <3>1. headers = <<p.name, "Type">>
      <4>1. headers = <<p.name>> \o <<"Type">>
        BY <2>1 DEF SetHeaders
      <4> DEFINE u == <<p.name>> \o <<"Type">>
                 t == <<p.name, "Type">>
      <4>2. u \in Seq(Byte) /\ Len(u) = 2 /\ \A i \in 1..2 : u[i] = t[i]
        BY <1>1, Bytes
      <4>3. t \in Seq(Byte) /\ Len(t) = 2
        BY <1>1, Bytes
      <4> HIDE DEF headers, u, t
      <4>4. u = t
        BY <4>2, <4>3, SameSequence
      <4> QED
        BY <4>1, <4>4 DEF u, t
    <3>2. Len(lines) = 2 /\ lines[1] = <<p.name>> \o CRLF /\ lines[2] = <<"Type">> \o CRLF
      <4> HIDE DEF headers
      <4> QED
        BY <3>1
    <3>3. FlattenSeq(lines) = lines[1] \o lines[2]
      <4> HIDE DEF lines
      <4> QED
        BY <3>2, FlattenTwo
    <3>4. FlattenSeq(lines) \o CRLF = ((<<p.name>> \o CRLF) \o (<<"Type">> \o CRLF)) \o CRLF
      BY <3>2, <3>3
    <3> DEFINE u == ((<<p.name>> \o CRLF) \o (<<"Type">> \o CRLF)) \o CRLF
               t == <<p.name, "CR", "LF", "Type", "CR", "LF", "CR", "LF">>
    <3>5. u \in Seq(Byte) /\ Len(u) = 8 /\ \A i \in 1..8 : u[i] = t[i]
      BY <1>1, Bytes DEF CRLF
    <3>6. t \in Seq(Byte) /\ Len(t) = 8
      BY <1>1, Bytes
    <3>7. u = t
      <4> HIDE DEF u, t
      <4> QED
        BY <3>5, <3>6, SameSequence
    <3>8. Len(headers) = 2
      BY <3>1
    <3>9. PartHead(p) = t
      BY <2>1 DEF PartHead
    <3> HIDE DEF u, t, lines, headers
    <3>10. FlattenSeq(lines) \o CRLF = PartHead(p)
      BY <3>4, <3>7, <3>9 DEF u
    <3>11. Len(PartHead(p)) = 3 * Len(headers) + 2
      BY <3>6, <3>8, <3>9
    <3> QED
      BY <3>10, <3>11
  <2>2. CASE ~p.typed
    <3>1. headers = <<p.name>>
      <4>1. headers = <<p.name>> \o <<>>
        BY <2>2 DEF SetHeaders
      <4> HIDE DEF headers
      <4> QED
        BY <1>1, <4>1, Bytes, SameSequence
    <3>2. Len(lines) = 1 /\ lines[1] = <<p.name>> \o CRLF
      <4> HIDE DEF headers
      <4> QED
        BY <3>1
    <3>3. FlattenSeq(lines) = lines[1]
      <4> HIDE DEF lines
      <4> QED
        BY <3>2, FlattenOne
    <3>4. FlattenSeq(lines) \o CRLF = (<<p.name>> \o CRLF) \o CRLF
      BY <3>2, <3>3
    <3> DEFINE u == (<<p.name>> \o CRLF) \o CRLF
               t == <<p.name, "CR", "LF", "CR", "LF">>
    <3>5. u \in Seq(Byte) /\ Len(u) = 5 /\ \A i \in 1..5 : u[i] = t[i]
      BY <1>1, Bytes DEF CRLF
    <3>6. t \in Seq(Byte) /\ Len(t) = 5
      BY <1>1, Bytes
    <3>7. u = t
      <4> HIDE DEF u, t
      <4> QED
        BY <3>5, <3>6, SameSequence
    <3>8. Len(headers) = 1
      BY <3>1
    <3>9. PartHead(p) = t
      BY <2>2 DEF PartHead
    <3> HIDE DEF u, t, lines, headers
    <3>10. FlattenSeq(lines) \o CRLF = PartHead(p)
      BY <3>4, <3>7, <3>9 DEF u
    <3>11. Len(PartHead(p)) = 3 * Len(headers) + 2
      BY <3>6, <3>8, <3>9
    <3> QED
      BY <3>10, <3>11
  <2> QED
    BY <2>1, <2>2
<1>7. PartHead(p) \in Seq(Byte)
  BY <1>1, Bytes DEF PartHead
<1> HIDE DEF lines, data
<1>8. Prepare(p) = (PartHead(p) \o data) \o CRLF
  BY <1>5, <1>6
<1> QED
  BY <1>2, <1>3, <1>6, <1>7, <1>8 DEF data

-----------------------------------------------------------------------------
(* Boundary lines *)

BoundaryLine == <<"-", "-">> \o Boundary
LastLine == BoundaryLine \o <<"-", "-">>

\* The two lines that are written between parts and at the end, and what the
\* parser makes of them.
LEMMA BoundaryBytes ==
  /\ AddBoundary = BoundaryLine \o CRLF /\ AddBoundaryEnd = LastLine \o CRLF
  /\ BoundaryLine \in Seq(Byte) /\ LastLine \in Seq(Byte)
  /\ Len(BoundaryLine) = Len(Boundary) + 2 /\ Len(LastLine) = Len(Boundary) + 4
  /\ \A i \in 1..Len(BoundaryLine) : BoundaryLine[i] # "CR"
  /\ \A i \in 1..Len(LastLine) : LastLine[i] # "CR"
  /\ IsBoundary(BoundaryLine) /\ IsBoundary(LastLine)
  /\ SetsEnd(LastLine) /\ ~SetsEnd(BoundaryLine)
<1> DEFINE d == <<"-", "-">>
           b == BoundaryLine
           e == LastLine
<1>1. d \in Seq(Byte) /\ Len(d) = 2 /\ d[1] = "-" /\ d[2] = "-"
  BY Bytes
<1>2. Boundary \in Seq(Byte) /\ Len(Boundary) \in Nat \ {0}
  BY Bytes
<1>3. \A i \in 1..Len(Boundary) : Boundary[i] # "CR"
  BY <1>2, BoundaryAssumption DEF Range
<1>4. AddBoundary = b \o CRLF /\ AddBoundaryEnd = e \o CRLF
  BY DEF AddBoundary, AddBoundaryEnd, BoundaryLine, LastLine
<1>5. b = d \o Boundary /\ e = b \o d
  BY DEF BoundaryLine, LastLine
<1> HIDE DEF b, e
<1>6. /\ b \in Seq(Byte) /\ Len(b) = Len(Boundary) + 2
      /\ \A i \in 1..2 : b[i] = d[i]
      /\ \A i \in 1..Len(Boundary) : b[2 + i] = Boundary[i]
      /\ SubSeq(b, 1, 2) = d /\ Erase(b, 2) = Boundary
  <2> HIDE DEF d
  <2>1. /\ b \in Seq(Byte) /\ Len(b) = Len(d) + Len(Boundary)
        /\ \A i \in 1..Len(d) : b[i] = d[i]
        /\ \A i \in 1..Len(Boundary) : b[Len(d) + i] = Boundary[i]
        /\ SubSeq(b, 1, Len(d)) = d /\ Erase(b, Len(d)) = Boundary
    <3>1. IsJoined(Byte, d, Boundary, b)
      BY <1>1, <1>2, <1>5, CutsOfJoined, Zenon
    <3> QED
      BY <3>1 DEF IsJoined
  <2> QED
    BY <1>1, <1>2, <2>1
<1>7. /\ e \in Seq(Byte) /\ Len(e) = Len(Boundary) + 4
      /\ \A i \in 1..Len(b) : e[i] = b[i]
      /\ \A i \in 1..2 : e[Len(b) + i] = d[i]
      /\ Erase(e, Len(b)) = d
      /\ SubSeq(e, 1, 2) = SubSeq(b, 1, 2) /\ Erase(e, 2) = Erase(b, 2) \o d
  <2> HIDE DEF d
  <2>1. /\ e \in Seq(Byte) /\ Len(e) = Len(b) + Len(d)
        /\ \A i \in 1..Len(b) : e[i] = b[i]
        /\ \A i \in 1..Len(d) : e[Len(b) + i] = d[i]
        /\ Erase(e, Len(b)) = d
        /\ \A n \in 0..Len(b) : /\ SubSeq(e, 1, n) = SubSeq(b, 1, n)
                               /\ Erase(e, n) = Erase(b, n) \o d
    <3>1. IsJoined(Byte, b, d, e)
      BY <1>1, <1>5, <1>6, CutsOfJoined, Zenon
    <3> QED
      BY <3>1 DEF IsJoined
  <2>2. 2 \in 0..Len(b) /\ Len(b) + Len(d) = Len(Boundary) + 4
    BY <1>1, <1>2, <1>6
  <2> QED
    BY <1>1, <2>1, <2>2
<1>8. \A i \in 1..Len(b) : b[i] # "CR"
  <2> SUFFICES ASSUME NEW i \in 1..Len(b) PROVE b[i] # "CR"
    OBVIOUS
  <2>1. CASE i \in 1..2
    BY <1>1, <1>6, <2>1
  <2>2. CASE i \notin 1..2
    <3>1. i - 2 \in 1..Len(Boundary) /\ 2 + (i - 2) = i
      BY <1>2, <1>6, <2>2
    <3>2. b[i] = Boundary[i - 2]
      BY <1>6, <3>1
    <3> QED
      BY <1>3, <3>1, <3>2
  <2> QED
    BY <2>1, <2>2
<1>9. \A i \in 1..Len(e) : e[i] # "CR"
  <2> SUFFICES ASSUME NEW i \in 1..Len(e) PROVE e[i] # "CR"
    OBVIOUS
  <2>1. CASE i \in 1..Len(b)
    BY <1>7, <1>8, <2>1
  <2>2. CASE i \notin 1..Len(b)
    <3>1. i - Len(b) \in 1..2 /\ Len(b) + (i - Len(b)) = i
      BY <1>2, <1>6, <1>7, <2>2
    <3>2. e[i] = d[i - Len(b)]
      BY <1>7, <3>1
    <3> QED
      BY <1>1, <3>1, <3>2
  <2> QED
    BY <2>1, <2>2
<1>10. SubSeq(b, 3, Len(Boundary) + 2) = Boundary
  BY <1>6 DEF Erase
<1>11. SubSeq(e, 3, Len(Boundary) + 2) = Boundary
  <2>1. Len(Boundary) + 2 \in 0..Len(b)
    BY <1>2, <1>6
  <2> DEFINE w == Erase(e, 2)
  <2>2. w = Boundary \o d
    BY <1>6, <1>7
  <2>3. SubSeq(w, 1, Len(Boundary)) = Boundary
    <3> HIDE DEF d, w
    <3> QED
      BY <1>1, <1>2, <2>2, CutsOfJoined
  <2>4. SubSeq(w, 1, Len(Boundary)) = SubSeq(e, 3, Len(Boundary) + 2)
    <3> DEFINE x == SubSeq(w, 1, Len(Boundary))
               y == SubSeq(e, 3, Len(Boundary) + 2)
    <3>0. \A j \in 3..(Len(Boundary) + 2) : e[j] \in Byte
      BY <1>2, <1>7
    <3>1. /\ y \in Seq(Byte)
          /\ Len(y) = (IF 3 <= Len(Boundary) + 2 THEN Len(Boundary) + 2 - 3 + 1 ELSE 0)
          /\ \A i \in 1..(Len(Boundary) + 2 - 3 + 1) : y[i] = e[3 + i - 1]
      <4>1. 3 \in Int /\ Len(Boundary) + 2 \in Int
        BY <1>2
      <4> QED
        BY <3>0, <4>1, SubSeqProperties
    <3>2. Len(Boundary) + 2 - 3 + 1 = Len(Boundary) /\ 3 <= Len(Boundary) + 2
      BY <1>2
    <3> HIDE DEF x, y
    <3>3. Len(y) = Len(Boundary) /\ \A i \in 1..Len(Boundary) : y[i] = e[3 + i - 1]
      BY <3>1, <3>2
    <3>4. ASSUME NEW i \in 1..Len(Boundary) PROVE y[i] = Boundary[i]
      <4>1. 3 + i - 1 = 2 + i /\ 2 + i \in 1..Len(b)
        BY <1>2, <1>6
      <4> QED
        BY <1>6, <1>7, <3>3, <4>1
    <3>5. y = Boundary
      BY <1>2, <3>1, <3>3, <3>4, SameSequence
    <3> QED
      BY <2>3, <3>5 DEF x, y
  <2> QED
    BY <2>3, <2>4
<1>12. SubSeq(e, Len(e) - 1, Len(e)) = d
  <2>1. Len(b) + 1 = Len(e) - 1
    BY <1>2, <1>6, <1>7
  <2> QED
    BY <1>7, <2>1 DEF Erase
<1>13. /\ Len(b) \in {Len(Boundary) + 2, Len(Boundary) + 4} /\ Len(b) # Len(Boundary) + 4
       /\ Len(e) \in {Len(Boundary) + 2, Len(Boundary) + 4}
  BY <1>2, <1>6, <1>7
<1>14. SubSeq(e, 1, 2) = d
  BY <1>6, <1>7, Zenon
<1>15. IsBoundary(b) /\ ~SetsEnd(b)
  BY <1>6, <1>10, <1>13, Zenon DEF IsBoundary, SetsEnd
<1>16. IsBoundary(e) /\ SetsEnd(e)
  BY <1>7, <1>11, <1>12, <1>13, <1>14, Zenon DEF IsBoundary, SetsEnd
<1> QED
  BY <1>4, <1>6, <1>7, <1>8, <1>9, <1>15, <1>16, Zenon DEF b, e

\* Where a line begins is a number.
LEMMA StartsAreNumbers ==
  ASSUME NEW s \in Seq(Byte), NEW q \in LineStarts(s)
  PROVE  q \in Nat
<1>1. q = 1 \/ \E i \in 1..(Len(s) - 1) : q = i + 2
  BY Zenon DEF LineStarts, LineEnds
<1> QED
  BY <1>1

\* u is data, then a boundary line, then anything.
DataThen(u, data, line) ==
  /\ Len(data) + 2 + Len(line) + 2 <= Len(u)
  /\ \A i \in 1..Len(data) : u[i] = data[i]
  /\ EndsLine(u, Len(data) + 1)
  /\ \A i \in 1..Len(line) : u[Len(data) + 2 + i] = line[i]
  /\ EndsLine(u, Len(data) + 2 + Len(line) + 1)

\* A line that begins within the data is a line of the data.
LEMMA LinesOfData ==
  ASSUME NEW data \in Seq(Byte), NEW line \in Seq(Byte),
         NEW u \in Seq(Byte), NEW s \in Seq(Byte), DataThen(u, data, line), Begins(s, u),
         NEW p \in LineStarts(s), p < Len(data) + 3
  PROVE  p \in LineStarts(data \o CRLF) /\ LineAt(s, p) = LineAt(data \o CRLF, p)
<1> DEFINE w == data \o CRLF
           D == Len(data)
<1>1. /\ w \in Seq(Byte) /\ Len(w) = D + 2 /\ D \in Nat
      /\ \A i \in 1..D : w[i] = data[i]
      /\ w[D + 1] = "CR" /\ w[D + 2] = "LF"
  <2>1. IsJoined(Byte, data, CRLF, w)
    BY Bytes, CutsOfJoined, Zenon
  <2> HIDE DEF w
  <2> QED
    BY <2>1, Bytes DEF IsJoined
<1> HIDE DEF w, D
<1>2. u[D + 1] = "CR" /\ u[D + 2] = "LF" /\ D + 4 <= Len(u)
  <2>1. D + 1 + 1 = D + 2 /\ Len(line) \in Nat
    BY <1>1
  <2> QED
    BY <1>1, <2>1 DEF DataThen, EndsLine, D
<1>3. Begins(w, u)
  <2> SUFFICES ASSUME NEW i \in 1..Len(w) PROVE w[i] = u[i]
    BY <1>1, <1>2 DEF Begins
  <2>1. i \in 1..D \/ i = D + 1 \/ i = D + 2
    BY <1>1
  <2>2. i \in 1..D => u[i] = data[i]
    BY DEF DataThen, D
  <2> QED
    BY <1>1, <1>2, <2>1, <2>2
<1>4. /\ p \in {1} \cup {i + 2 : i \in LineEnds(s)} /\ HasLine(Erase(s, p - 1))
      /\ LineEnds(s) = {i \in 1..(Len(s) - 1) : EndsLine(s, i)}
  BY LineEndsAt DEF LineStarts
<1>5. p \in 1..(D + 2) /\ p - 1 <= Len(s)
  <2>1. p = 1 \/ \E i \in 1..(Len(s) - 1) : p = i + 2
    BY <1>4
  <2>2. p < D + 3
    BY DEF D
  <2> QED
    BY <1>1, <2>1, <2>2
<1>6. p # 1 => p - 2 \in 1..(Len(s) - 1) /\ s[p - 2] = "CR" /\ s[p - 1] = "LF"
  <2>1. p # 1 => \E i \in 1..(Len(s) - 1) : p = i + 2 /\ EndsLine(s, i)
    BY <1>4
  <2> QED
    BY <1>5, <2>1 DEF EndsLine
<1>7. p - 1 \in 0..D
  <2>1. p # D + 2
    <3> SUFFICES ASSUME p = D + 2 PROVE FALSE
      OBVIOUS
    <3>1. p # 1 /\ D + 1 \in 1..Len(s) /\ s[D + 1] = "LF"
      BY <1>1, <1>6
    <3> QED
      BY <1>2, <3>1 DEF Begins
  <2> QED
    BY <1>1, <1>5, <2>1
<1>8. p \in {1} \cup {i + 2 : i \in LineEnds(w)}
  <2> SUFFICES ASSUME p # 1 PROVE p - 2 \in LineEnds(w)
    BY <1>5
  <2>1. p - 2 \in 1..(Len(w) - 1) /\ p - 2 \in 1..Len(s) /\ p - 1 \in 1..Len(s)
        /\ p - 2 \in 1..Len(w) /\ p - 1 \in 1..Len(w) /\ (p - 2) + 1 = p - 1
    <3>1. p - 2 \in 1..(Len(s) - 1) /\ Len(s) \in Nat /\ Len(w) = D + 2 /\ D \in Nat
      BY <1>1, <1>6
    <3> QED
      BY <1>5, <1>7, <3>1
  <2>2. w[p - 2] = s[p - 2] /\ w[p - 1] = s[p - 1]
    BY <1>3, <2>1 DEF Begins
  <2>3. EndsLine(w, p - 2)
    BY <1>6, <2>1, <2>2 DEF EndsLine
  <2> QED
    BY <1>1, <2>1, <2>3, LineEndsAt
<1>9. \E n \in Nat : HasLineOf(w, p - 1, n) /\ HasLineOf(u, p - 1, n)
  <2> DEFINE r == Erase(w, p - 1)
  <2>1. p - 1 \in 0..Len(w)
    BY <1>1, <1>7
  <2>2. r \in Seq(Byte) /\ Len(r) = Len(w) - (p - 1)
        /\ \A i \in 1..(Len(w) - (p - 1)) : r[i] = w[i + (p - 1)]
    <3> DEFINE f == p - 1
    <3>1. f \in 0..Len(w)
      BY <2>1
    <3> HIDE DEF f
    <3>2. w \in Seq(Byte)
      BY <1>1, Zenon
    <3>3. IsErased(Byte, w, f, Erase(w, f))
      BY <3>1, <3>2, ErasedIs, Zenon
    <3> QED
      BY <3>3, Zenon DEF f, IsErased
  <2> HIDE DEF r
  <2>3. HasLine(r)
    <3> DEFINE e == D + 2 - p
    <3>1. e \in 1..(Len(r) - 1) /\ e + 1 \in 1..Len(r) /\ e \in 1..Len(r)
          /\ e + (p - 1) = D + 1 /\ e + 1 + (p - 1) = D + 2
      BY <1>1, <1>5, <1>7, <2>2
    <3> HIDE DEF e
    <3>2. r[e] = "CR" /\ r[e + 1] = "LF"
      BY <1>1, <2>2, <3>1
    <3>3. e \in LineEnds(r)
      BY <2>2, <3>1, <3>2, LineEndsAt DEF EndsLine
    <3> QED
      BY <3>3 DEF HasLine
  <2>4. PICK n \in Nat : HasLineOf(r, 0, n)
    BY <2>2, <2>3, FirstLine
  <2>5. 0 + n + 2 <= Len(r) /\ EndsLine(r, 0 + n + 1) /\ \A i \in 1..n : ~EndsLine(r, 0 + i)
    BY <2>4 DEF HasLineOf
  <2> DEFINE e == p - 1
             W == Len(w)
  <2>6. /\ e \in Nat /\ W \in Nat /\ n \in Nat /\ n + 2 <= W - e /\ Len(r) = W - e
        /\ W <= Len(u) /\ Len(u) \in Nat
    <3>1. e \in Nat /\ W \in Nat
      BY <1>1, <1>7
    <3>2. 0 + n + 2 <= Len(r) /\ Len(r) = W - e
      BY <2>2, <2>5, Zenon
    <3>3. W <= Len(u)
      BY <1>3, Zenon DEF Begins
    <3>4. Len(u) \in Nat
      BY LenProperties, Zenon
    <3> HIDE DEF e, W
    <3> QED
      BY <3>1, <3>2, <3>3, <3>4
  <2> HIDE DEF e, W
  <2>7. ASSUME NEW i \in 1..(n + 1)
        PROVE  /\ EndsLine(r, 0 + i) <=> EndsLine(w, e + i)
               /\ EndsLine(u, e + i) <=> EndsLine(w, e + i)
    <3>1. /\ i \in 1..(W - e) /\ i + 1 \in 1..(W - e) /\ e + i \in 1..W /\ e + i + 1 \in 1..W
          /\ i + e = e + i /\ (i + 1) + e = e + i + 1 /\ 0 + i = i
      BY <2>6
    <3>2. r[i] = w[e + i] /\ r[i + 1] = w[e + i + 1]
      <4>1. r[i] = w[i + e] /\ r[i + 1] = w[(i + 1) + e]
        BY <2>2, <3>1, Zenon DEF e, W
      <4> QED
        BY <3>1, <4>1
    <3>3. u[e + i] = w[e + i] /\ u[e + i + 1] = w[e + i + 1]
      BY <1>3, <3>1, Zenon DEF Begins, W
    <3> QED
      BY <3>1, <3>2, <3>3 DEF EndsLine
  <2>8. /\ n + 1 \in 1..(n + 1) /\ 0 + (n + 1) = 0 + n + 1 /\ e + (n + 1) = e + n + 1
        /\ e + n + 2 <= W /\ e + n + 2 <= Len(u) /\ \A i \in 1..n : i \in 1..(n + 1)
    BY <2>6
  <2>9. /\ EndsLine(w, e + n + 1) /\ EndsLine(u, e + n + 1)
        /\ \A i \in 1..n : ~EndsLine(w, e + i) /\ ~EndsLine(u, e + i)
    <3>1. EndsLine(w, e + (n + 1)) /\ EndsLine(u, e + (n + 1))
      <4>1. EndsLine(r, 0 + (n + 1))
        BY <2>5, <2>8
      <4> QED
        BY <2>7, <2>8, <4>1, Zenon
    <3>2. \A i \in 1..n : ~EndsLine(w, e + i) /\ ~EndsLine(u, e + i)
      BY <2>5, <2>7, <2>8, Zenon
    <3> QED
      BY <2>8, <3>1, <3>2
  <2>10. HasLineOf(w, p - 1, n) /\ HasLineOf(u, p - 1, n)
    BY <2>8, <2>9, Zenon DEF HasLineOf, e, W
  <2> QED
    BY <2>10
<1>10. PICK n \in Nat : HasLineOf(w, p - 1, n) /\ HasLineOf(u, p - 1, n)
  BY <1>9
<1> DEFINE a == Erase(s, p - 1)
           b == Erase(w, p - 1)
<1>11. /\ HasLine(a) => /\ LineOf(a) \in Seq(Byte) /\ Len(LineOf(a)) = n
                        /\ \A i \in 1..n : LineOf(a)[i] = u[(p - 1) + i]
  <2>1. p - 1 \in 0..Len(s)
    BY <1>5, <1>7
  <2> QED
    BY <1>10, <2>1, LineThere
<1>12. /\ HasLine(b)
       /\ LineOf(b) \in Seq(Byte) /\ Len(LineOf(b)) = n
       /\ \A i \in 1..n : LineOf(b)[i] = w[(p - 1) + i]
  <2> DEFINE f == p - 1
  <2>1. w \in Seq(Byte) /\ f \in 0..Len(w)
    BY <1>1, <1>7
  <2>2. HasLineOf(w, f, n)
    BY <1>10, Zenon
  <2> HIDE DEF f
  <2>3. /\ HasLine(Erase(w, f))
        /\ LineOf(Erase(w, f)) \in Seq(Byte) /\ Len(LineOf(Erase(w, f))) = n
        /\ \A i \in 1..n : LineOf(Erase(w, f))[i] = w[f + i]
    BY <2>1, <2>2, OwnLine, Zenon
  <2> QED
    BY <2>3, Zenon DEF f
<1>13. HasLine(a)
  BY <1>4
<1> HIDE DEF a, b
<1>14. \A i \in 1..n : w[(p - 1) + i] = u[(p - 1) + i]
  <2>1. \A i \in 1..n : (p - 1) + i \in 1..Len(w)
    <3>1. (p - 1) + n + 2 <= Len(w)
      BY <1>10, Zenon DEF HasLineOf
    <3>2. p - 1 \in Nat /\ Len(w) \in Nat
      BY <1>1, <1>7
    <3> QED
      BY <3>1, <3>2
  <2> QED
    BY <1>3, <2>1 DEF Begins
<1>15. LineOf(a) = LineOf(b)
  <2>1. Len(LineOf(a)) = Len(LineOf(b)) /\ Len(LineOf(a)) = n
    BY <1>11, <1>12, <1>13, Zenon
  <2>2. \A i \in 1..Len(LineOf(a)) : LineOf(a)[i] = LineOf(b)[i]
    BY <1>11, <1>12, <1>13, <1>14, <2>1, Zenon
  <2> QED
    BY <1>11, <1>12, <1>13, <2>1, <2>2, SameSequence, Zenon
<1>16. p \in LineStarts(w)
  BY <1>8, <1>12 DEF LineStarts, b
<1> QED
  BY <1>15, <1>16 DEF LineAt, a, b, w

\* A parser that is in the data of a part waits exactly until it has the boundary
\* line after it, finds this line first, and sees the dashes of the last one before
\* only in the data.
LEMMA BoundaryFound ==
  ASSUME NEW data \in Seq(Byte), NEW line \in {BoundaryLine, LastLine},
         NEW u \in Seq(Byte), NEW s \in Seq(Byte), DataThen(u, data, line), Begins(s, u),
         BoundaryLines(data \o CRLF) = {}
  PROVE  LET P == Len(data) + 3
         IN  /\ BoundaryLines(s) = {} => s # u
             /\ BoundaryLines(s) # {} =>
                  /\ Min(BoundaryLines(s)) = P
                  /\ P \in LineStarts(s) /\ LineAt(s, P) = line
                  /\ P + Len(line) + 1 <= Len(s)
             /\ \A q \in LineStarts(s) : q < P =>
                  q \in LineStarts(data \o CRLF) /\ LineAt(s, q) = LineAt(data \o CRLF, q)
<1> DEFINE D == Len(data)
           P == D + 3
           m == Len(line)
<1>1. /\ line \in Seq(Byte) /\ m \in Nat \ {0} /\ IsBoundary(line)
      /\ \A i \in 1..m : line[i] # "CR"
  BY BoundaryBytes, Bytes
<1>2. D \in Nat
  OBVIOUS
<1> HIDE DEF D, m
<1>3. /\ D + m + 4 <= Len(u) /\ EndsLine(u, D + 1)
      /\ \A i \in 1..m : u[(D + 2) + i] = line[i]
      /\ EndsLine(u, (D + 2) + m + 1)
  BY <1>1, <1>2 DEF DataThen, D, m
<1>4. \A q \in LineStarts(s) : q < P =>
        q \in LineStarts(data \o CRLF) /\ LineAt(s, q) = LineAt(data \o CRLF, q)
  BY <1>1, LinesOfData DEF D
<1>5. HasLineOf(u, D + 2, m)
  <2>1. \A i \in 1..m : ~EndsLine(u, (D + 2) + i)
    BY <1>1, <1>3 DEF EndsLine
  <2>2. (D + 2) + m + 2 <= Len(u)
    BY <1>1, <1>2, <1>3
  <2> QED
    BY <1>3, <2>1, <2>2 DEF HasLineOf
<1>6. LineEnds(s) = {i \in 1..(Len(s) - 1) : EndsLine(s, i)}
  BY LineEndsAt
<1>7. Len(s) \in Nat /\ Len(s) <= Len(u) /\ \A i \in 1..Len(s) : s[i] = u[i]
  BY DEF Begins
<1>8. ASSUME D + m + 4 <= Len(s)
      PROVE  P \in BoundaryLines(s) /\ P \in LineStarts(s) /\ LineAt(s, P) = line
  <2> DEFINE r == Erase(s, P - 1)
  <2>1. P - 1 = D + 2 /\ D + 2 \in 0..Len(s)
    BY <1>1, <1>2, <1>7, <1>8
  <2>2. /\ HasLine(r)
        /\ LineOf(r) \in Seq(Byte) /\ Len(LineOf(r)) = m
        /\ \A i \in 1..m : LineOf(r)[i] = u[(D + 2) + i]
    <3>1. (D + 2) + m + 2 <= Len(s) /\ m \in Nat
      BY <1>1, <1>2, <1>7, <1>8
    <3> QED
      BY <1>5, <2>1, <3>1, LineThere
  <2> HIDE DEF r
  <2>3. LineOf(r) = line
    BY <1>1, <1>3, <2>2, SameSequence DEF m
  <2>4. D + 1 \in LineEnds(s)
    <3>1. D + 1 \in 1..(Len(s) - 1) /\ D + 1 \in 1..Len(s) /\ D + 2 \in 1..Len(s) /\ D + 1 + 1 = D + 2
      BY <1>1, <1>2, <1>7, <1>8
    <3> QED
      BY <1>3, <1>6, <1>7, <3>1 DEF EndsLine
  <2>5. P = (D + 1) + 2
    BY <1>2
  <2>6. P \in {1} \cup {i + 2 : i \in LineEnds(s)}
    BY <2>4, <2>5
  <2> HIDE DEF P
  <2>7. P \in LineStarts(s)
    BY <2>2, <2>6 DEF LineStarts, r
  <2>8. LineAt(s, P) = line
    BY <2>3 DEF LineAt, r
  <2> QED
    BY <1>1, <2>7, <2>8 DEF BoundaryLines
<1>9. ASSUME NEW p \in BoundaryLines(s)
      PROVE  P <= p /\ D + m + 4 <= Len(s)
  <2>1. p \in LineStarts(s) /\ IsBoundary(LineAt(s, p))
    BY DEF BoundaryLines
  <2>2. /\ p \in {1} \cup {i + 2 : i \in LineEnds(s)} /\ HasLine(Erase(s, p - 1))
    BY <2>1 DEF LineStarts
  <2>3. p = 1 \/ (p - 2 \in 1..(Len(s) - 1) /\ EndsLine(s, p - 2) /\ p \in Nat)
    BY <1>6, <2>2
  <2>4. p \in Nat
    BY <2>3
  <2>5. ~(p < P)
    <3> SUFFICES ASSUME p < P PROVE FALSE
      OBVIOUS
    <3>1. p \in LineStarts(data \o CRLF) /\ LineAt(s, p) = LineAt(data \o CRLF, p)
      BY <1>4, <2>1
    <3>2. p \in BoundaryLines(data \o CRLF)
      BY <2>1, <3>1 DEF BoundaryLines
    <3> QED
      BY <3>2
  <2>6. P <= p
    BY <1>2, <2>4, <2>5
  <2>7. CASE p = P
    <3>1. P - 1 = D + 2 /\ D + 2 \in 0..Len(s)
      BY <1>2, <1>7, <2>3, <2>7
    <3>2. HasLine(Erase(s, D + 2))
      BY <2>2, <2>7, <3>1
    <3>3. (D + 2) + m + 2 <= Len(s)
      BY <1>1, <1>5, <3>1, <3>2, LineThere
    <3> QED
      BY <1>1, <1>2, <1>7, <2>6, <3>3
  <2>8. CASE p > P
    <3>1. p - 2 \in 1..(Len(s) - 1) /\ EndsLine(s, p - 2)
      BY <1>2, <2>3, <2>8
    <3> DEFINE e == p - 2
    <3>2. e \in 1..(Len(s) - 1) /\ EndsLine(s, e) /\ e >= D + 2
      BY <1>2, <2>4, <2>8, <3>1
    <3> HIDE DEF e
    <3>3. EndsLine(u, e)
      <4>1. e \in 1..Len(s) /\ e + 1 \in 1..Len(s)
        BY <1>7, <3>2
      <4> QED
        BY <1>7, <3>2, <4>1 DEF EndsLine
    <3>4. e # D + 2
      <4>1. D + 1 + 1 = D + 2
        BY <1>2
      <4> QED
        BY <1>3, <3>3, <4>1 DEF EndsLine
    <3>5. \A i \in 1..m : e # (D + 2) + i
      BY <1>1, <1>3, <3>3 DEF EndsLine
    <3>6. e >= D + 2 + m + 1
      <4> SUFFICES ASSUME e < D + 2 + m + 1 PROVE FALSE
        BY <1>1, <1>2, <3>2
      <4>1. e - (D + 2) \in 1..m /\ (D + 2) + (e - (D + 2)) = e
        BY <1>1, <1>2, <3>2, <3>4
      <4> QED
        BY <3>5, <4>1
    <3> QED
      BY <1>1, <1>2, <1>7, <2>6, <3>2, <3>6
  <2> QED
    BY <1>2, <2>4, <2>6, <2>7, <2>8
<1>10. ASSUME BoundaryLines(s) # {}
       PROVE  /\ Min(BoundaryLines(s)) = P
              /\ P \in LineStarts(s) /\ LineAt(s, P) = line
              /\ P + m + 1 <= Len(s)
  <2>1. D + m + 4 <= Len(s)
    BY <1>9, <1>10
  <2>2. P \in BoundaryLines(s) /\ P \in LineStarts(s) /\ LineAt(s, P) = line
    BY <1>8, <2>1
  <2>3. \A p \in BoundaryLines(s) : P <= p
    BY <1>9
  <2> DEFINE T == BoundaryLines(s)
             x == Min(T)
  <2>4. x \in T /\ \A y \in T : x =< y
    <3> HIDE DEF T
    <3>1. \E x0 \in T : \A y \in T : x0 =< y
      BY <2>2, <2>3 DEF T
    <3> QED
      BY <3>1, Zenon DEF Min
  <2> HIDE DEF x
  <2>5. P <= x /\ x <= P
    BY <2>2, <2>3, <2>4
  <2>6. x \in Nat
    <3>1. LineStarts(s) \subseteq Nat
      BY <1>6 DEF LineStarts
    <3> QED
      BY <2>4, <3>1 DEF BoundaryLines
  <2>7. x = P /\ P + m + 1 <= Len(s)
    BY <1>1, <1>2, <1>7, <2>1, <2>5, <2>6
  <2> QED
    BY <2>2, <2>7 DEF x
<1>11. BoundaryLines(s) = {} => s # u
  BY <1>3, <1>8
<1> QED
  BY <1>4, <1>10, <1>11 DEF D, m

-----------------------------------------------------------------------------
(* The text of a form *)

\* t[k] is what is written from part k on.
IsText(t, form) ==
  /\ t \in [1..(Len(form) + 1) -> Seq(Byte)]
  /\ t[Len(form) + 1] = AddBoundaryEnd
  /\ \A k \in 1..Len(form) : t[k] = (AddBoundary \o Prepare(form[k])) \o t[k + 1]

TextOf(form) == CHOOSE t : IsText(t, form)

\* Boundaries and parts are bytes, and a part has the size that the client counts.
LEMMA PieceTypes ==
  /\ AddBoundary \in Seq(Byte) /\ Len(AddBoundary) = Len(Boundary) + 4
  /\ AddBoundaryEnd \in Seq(Byte) /\ Len(AddBoundaryEnd) = Len(Boundary) + 6
  /\ \A p \in PartType :
       /\ Prepare(p) \in Seq(Byte)
       /\ AddBoundary \o Prepare(p) \in Seq(Byte)
       /\ p.data # <<>> \/ p.path =>
            Len(AddBoundary \o Prepare(p)) = Len(Boundary) + 4 + PartSize(p)
<1>1. Len(Boundary) \in Nat /\ CRLF \in Seq(Byte) /\ Len(CRLF) = 2
  BY Bytes
<1>2. /\ AddBoundary \in Seq(Byte) /\ Len(AddBoundary) = Len(BoundaryLine) + Len(CRLF)
      /\ AddBoundaryEnd \in Seq(Byte) /\ Len(AddBoundaryEnd) = Len(LastLine) + Len(CRLF)
  <2>1. BoundaryLine \in Seq(Byte) /\ LastLine \in Seq(Byte)
        /\ AddBoundary = BoundaryLine \o CRLF /\ AddBoundaryEnd = LastLine \o CRLF
    BY BoundaryBytes
  <2>2. IsJoined(Byte, BoundaryLine, CRLF, AddBoundary)
    BY <1>1, <2>1, CutsOfJoined, Zenon
  <2>3. IsJoined(Byte, LastLine, CRLF, AddBoundaryEnd)
    BY <1>1, <2>1, CutsOfJoined, Zenon
  <2> QED
    BY <2>2, <2>3 DEF IsJoined
<1>3. Len(AddBoundary) = Len(Boundary) + 4 /\ Len(AddBoundaryEnd) = Len(Boundary) + 6
  BY <1>1, <1>2, BoundaryBytes
<1>4. ASSUME NEW p \in PartType
      PROVE  /\ Prepare(p) \in Seq(Byte)
             /\ AddBoundary \o Prepare(p) \in Seq(Byte)
             /\ p.data # <<>> \/ p.path =>
                  Len(AddBoundary \o Prepare(p)) = Len(Boundary) + 4 + PartSize(p)
  <2> DEFINE h == PartHead(p)
             d == Load(p).data
             hd == h \o d
             w == AddBoundary \o Prepare(p)
  <2>1. /\ h \in Seq(Byte) /\ d \in Seq(Byte) /\ Prepare(p) = hd \o CRLF
        /\ Len(h) = 3 * Len(SetHeaders(p)) + 2
        /\ p.data # <<>> \/ p.path => Len(d) = GetDataSize(p)
    BY PartText
  <2> HIDE DEF h, d
  <2>2. IsJoined(Byte, h, d, hd)
    BY <2>1, CutsOfJoined, Zenon
  <2> HIDE DEF hd
  <2>7. hd \in Seq(Byte)
    BY <2>2 DEF IsJoined
  <2>3. IsJoined(Byte, hd, CRLF, Prepare(p))
    BY <1>1, <2>1, <2>7, CutsOfJoined, Zenon
  <2>8. Prepare(p) \in Seq(Byte)
    BY <2>3 DEF IsJoined
  <2>4. IsJoined(Byte, AddBoundary, Prepare(p), w)
    BY <1>2, <2>8, CutsOfJoined, Zenon
  <2> HIDE DEF w
  <2>5. Len(w) = Len(AddBoundary) + (Len(h) + Len(d) + 2)
    BY <1>1, <2>2, <2>3, <2>4 DEF IsJoined
  <2>6. p.data # <<>> \/ p.path => Len(w) = Len(Boundary) + 4 + PartSize(p)
    <3>1. Len(h) \in Nat /\ Len(d) \in Nat
      BY <2>1
    <3> QED
      BY <1>1, <1>3, <2>1, <2>5, <3>1 DEF PartSize
  <2> QED
    BY <2>3, <2>4, <2>6 DEF w, IsJoined
<1> QED
  BY <1>2, <1>3, <1>4

\* A form has a text.
LEMMA TextExists ==
  ASSUME NEW form \in Seq(PartType)
  PROVE  IsText(TextOf(form), form)
<1> DEFINE L == Len(form)
           Piece(k) == AddBoundary \o Prepare(form[k])
           Good(t, n) == /\ t \in [(L + 1 - n)..(L + 1) -> Seq(Byte)]
                         /\ t[L + 1] = AddBoundaryEnd
                         /\ \A k \in (L + 1 - n)..L : t[k] = Piece(k) \o t[k + 1]
           S == {n \in Nat : n <= L => \E t : Good(t, n)}
<1>1. L \in Nat /\ \A k \in 1..L : Piece(k) \in Seq(Byte)
  BY PieceTypes
<1>2. AddBoundaryEnd \in Seq(Byte)
  BY PieceTypes
<1> HIDE DEF L, Piece
<1>3. 0 \in S
  <2> DEFINE t == [k \in (L + 1)..(L + 1) |-> AddBoundaryEnd]
  <2>1. L + 1 - 0 = L + 1 /\ \A k \in (L + 1)..L : FALSE
    BY <1>1
  <2>2. t \in [(L + 1)..(L + 1) -> Seq(Byte)] /\ t[L + 1] = AddBoundaryEnd
    BY <1>1, <1>2
  <2>3. Good(t, 0)
    BY <2>1, <2>2
  <2> QED
    BY <2>3
<1>4. ASSUME NEW n \in Nat, n \in S PROVE n + 1 \in S
  <2> SUFFICES ASSUME n + 1 <= L PROVE \E t : Good(t, n + 1)
    OBVIOUS
  <2>0. n <= L
    BY <1>1
  <2>1. PICK t : Good(t, n)
    BY <1>4, <2>0
  <2> DEFINE x == L - n
             v == [k \in x..(L + 1) |-> IF k = x THEN Piece(k) \o t[k + 1] ELSE t[k]]
  <2>2. /\ x \in 1..L /\ x + 1 \in (L + 1 - n)..(L + 1) /\ L + 1 - (n + 1) = x
        /\ L + 1 - n = x + 1
    BY <1>1
  <2> HIDE DEF x
  <2>3. /\ t \in [(x + 1)..(L + 1) -> Seq(Byte)] /\ t[L + 1] = AddBoundaryEnd
        /\ \A k \in (x + 1)..L : t[k] = Piece(k) \o t[k + 1]
    BY <2>1, <2>2
  <2>4. Piece(x) \o t[x + 1] \in Seq(Byte)
    <3>1. Piece(x) \in Seq(Byte) /\ t[x + 1] \in Seq(Byte)
      BY <1>1, <2>2, <2>3
    <3> QED
      BY <3>1, ConcatProperties
  <2>5. v \in [x..(L + 1) -> Seq(Byte)]
    <3> SUFFICES ASSUME NEW k \in x..(L + 1), k # x PROVE t[k] \in Seq(Byte)
      BY <2>4
    <3>1. k \in (x + 1)..(L + 1)
      BY <1>1, <2>2
    <3> QED
      BY <2>3, <3>1
  <2>6. v[L + 1] = AddBoundaryEnd
    BY <1>1, <2>2, <2>3
  <2>7. ASSUME NEW k \in x..L PROVE v[k] = Piece(k) \o v[k + 1]
    <3>1. k + 1 \in x..(L + 1) /\ k + 1 # x /\ k \in x..(L + 1)
      BY <1>1, <2>2
    <3>2. v[k + 1] = t[k + 1]
      BY <3>1
    <3>3. CASE k = x
      BY <3>1, <3>2, <3>3
    <3>4. CASE k # x
      <4>1. k \in (x + 1)..L
        BY <1>1, <2>2, <3>4
      <4>2. v[k] = t[k]
        BY <3>1, <3>4
      <4> QED
        BY <2>3, <3>2, <4>1, <4>2
    <3> QED
      BY <3>3, <3>4
  <2> HIDE DEF v
  <2>8. Good(v, n + 1)
    BY <2>2, <2>5, <2>6, <2>7
  <2> QED
    BY <2>8
<1>5. L \in S
  <2> HIDE DEF S
  <2> QED
    BY <1>1, <1>3, <1>4, Induction
<1>6. PICK t : Good(t, L)
  <2> HIDE DEF Good
  <2>1. L <= L
    BY <1>1
  <2> QED
    BY <1>5, <2>1, Zenon
<1>7. L + 1 - L = 1
  BY <1>1
<1>8. IsText(t, form)
  BY <1>6, <1>7 DEF IsText, L, Piece
<1> QED
  BY <1>8 DEF TextOf

\* The length that the client announces is that of the text it will write.
LEMMA TextLength ==
  ASSUME NEW form \in Forms
  PROVE  Len(TextOf(form)[1]) = GetSize(form)
<1> DEFINE L == Len(form)
           t == TextOf(form)
           f == [i \in DOMAIN form |-> Len(Boundary) + 4 + PartSize(form[i])]
<1>1. /\ form \in Seq(PartType) /\ L \in Nat
      /\ \A i \in 1..L : form[i] \in PartType /\ (form[i].data # <<>> \/ form[i].path)
  BY FormsAssumption
<1>2. IsText(t, form)
  BY <1>1, TextExists
<1>3. f = [i \in 1..L |-> Len(Boundary) + 4 + PartSize(form[i])]
  BY <1>1
<1>4. \A i \in 1..L : /\ AddBoundary \o Prepare(form[i]) \in Seq(Byte)
                     /\ Len(AddBoundary \o Prepare(form[i])) = Len(Boundary) + 4 + PartSize(form[i])
  BY <1>1, PieceTypes
<1>5. \A i \in 1..L : Len(Boundary) + 4 + PartSize(form[i]) \in Nat
  <2> SUFFICES ASSUME NEW i \in 1..L PROVE Len(Boundary) + 4 + PartSize(form[i]) \in Nat
    OBVIOUS
  <2> DEFINE w == AddBoundary \o Prepare(form[i])
  <2>1. w \in Seq(Byte) /\ Len(w) = Len(Boundary) + 4 + PartSize(form[i])
    BY <1>4
  <2> HIDE DEF w
  <2>2. Len(w) \in Nat
    BY <2>1
  <2> QED
    BY <2>1, <2>2
<1>6. f \in [1..L -> Nat]
  BY <1>3, <1>5
<1>7. GetSize(form) = FoldFunction(+, 0, f) + Len(Boundary) + 6
  BY Zenon DEF GetSize
<1> HIDE DEF f, t, L
<1>8. PICK total \in [0..L -> Nat] :
        /\ total[0] = 0
        /\ \A k \in 1..L : total[k] = total[k - 1] + f[k]
        /\ FoldFunction(+, 0, f) = total[L]
  BY <1>1, <1>6, SumOfPrefixes
<1>9. total[0] = 0 /\ \A k \in 1..L : total[k] = total[k - 1] + f[k]
  BY <1>8
<1>10. FoldFunction(+, 0, f) = total[L]
  BY <1>8
<1> DEFINE S == {k \in Nat : k <= L => total[k] + Len(t[k + 1]) = Len(t[1])}
<1>11. \A k \in 0..L : t[k + 1] \in Seq(Byte) /\ Len(t[k + 1]) \in Nat
  <2>1. \A k \in 0..L : k + 1 \in 1..(L + 1)
    BY <1>1
  <2> QED
    BY <1>2, <2>1 DEF IsText, L
<1>12. 0 \in S
  BY <1>1, <1>9, <1>11
<1>13. ASSUME NEW k \in Nat, k \in S PROVE k + 1 \in S
  <2> SUFFICES ASSUME k + 1 <= L PROVE total[k + 1] + Len(t[k + 2]) = Len(t[1])
    <3>1. (k + 1) + 1 = k + 2
      OBVIOUS
    <3> QED
      BY <3>1
  <2>1. k + 1 \in 1..L /\ k \in 0..L /\ k + 1 \in 0..L /\ (k + 1) - 1 = k /\ (k + 1) + 1 = k + 2
    BY <1>1
  <2> DEFINE w == AddBoundary \o Prepare(form[k + 1])
             a == t[k + 1]
             b == t[k + 2]
  <2>2. w \in Seq(Byte) /\ Len(w) = f[k + 1]
    BY <1>3, <1>4, <2>1
  <2>3. a = w \o b
    BY <1>2, <2>1 DEF IsText, L
  <2>4. b \in Seq(Byte) /\ Len(b) \in Nat
    BY <1>11, <2>1
  <2>5. total[k] + Len(a) = Len(t[1]) /\ total[k + 1] = total[k] + f[k + 1]
        /\ total[k] \in Nat /\ f[k + 1] \in Nat
    BY <1>6, <1>9, <1>13, <2>1
  <2> HIDE DEF w, a, b
  <2>6. Len(a) = Len(w) + Len(b)
    <3>1. IsJoined(Byte, w, b, a)
      BY <2>2, <2>3, <2>4, CutsOfJoined, Zenon
    <3> QED
      BY <3>1 DEF IsJoined
  <2>7. total[k + 1] + Len(b) = Len(t[1])
    <3> DEFINE x == total[k]
               y == f[k + 1]
               z == Len(b)
    <3>1. x \in Nat /\ y \in Nat /\ z \in Nat /\ x + (y + z) = Len(t[1]) /\ total[k + 1] = x + y
      BY <2>2, <2>4, <2>5, <2>6
    <3> HIDE DEF x, y, z
    <3>2. (x + y) + z = Len(t[1])
      BY <3>1
    <3> QED
      BY <3>1, <3>2 DEF z
  <2> QED
    BY <2>7 DEF b
<1>14. L \in S
  <2> HIDE DEF S
  <2> QED
    BY <1>1, <1>12, <1>13, Induction
<1>15. t[L + 1] = AddBoundaryEnd
  BY <1>2 DEF IsText, L
<1>16. total[L] + Len(AddBoundaryEnd) = Len(t[1])
  BY <1>1, <1>14, <1>15
<1>17. GetSize(form) = total[L] + Len(Boundary) + 6
  BY <1>7, <1>10, Zenon
<1>18. Len(t[1]) = GetSize(form)
  <2>1. Len(AddBoundaryEnd) = Len(Boundary) + 6 /\ Len(Boundary) \in Nat
    BY PieceTypes, Bytes, Zenon
  <2>2. total[L] \in Nat
    BY <1>1
  <2> QED
    BY <1>16, <1>17, <2>1, <2>2
<1> QED
  BY <1>18 DEF t

-----------------------------------------------------------------------------
(* The client's side *)

\* What the client has not written yet.
Unsent == IF index < Len(parts) THEN TextOf(request.form)[index + 1] ELSE <<>>

\* The parts that were not written are as they were given, and what was written and
\* what is left are as long as was announced.
Writing ==
  /\ request \in Requests
  /\ parts \in Seq(PartType) /\ Len(parts) = Len(request.form)
  /\ index \in Nat
  /\ \A i \in 1..Len(parts) : i > index => parts[i] = request.form[i]
  /\ sent \in Nat /\ sent + Len(Unsent) = request.content_length

\* A request is a form of a client, or has all of its content at once.
LEMMA TwoKinds ==
  ASSUME NEW r \in Requests
  PROVE  /\ r.bytes \in Seq(Byte)
         /\ \/ /\ r.form \in Forms /\ r.form \in Seq(PartType) /\ Len(r.form) \in Nat \ {0}
               /\ r.bytes = <<>> /\ r.content_length = GetSize(r.form) /\ r.valid = TRUE
            \/ r.form = <<>> /\ r.content_length = Len(r.bytes)
<1>1. PICK c \in Contents : /\ r.form = c.form /\ r.bytes = c.bytes /\ r.valid = c.valid
                            /\ r.content_length = c.content_length
  BY DEF Requests
<1>2. CASE \E f \in Forms : c = Build(f)
  <2>1. PICK f \in Forms : c = Build(f)
    BY <1>2
  <2>2. /\ c.form = f /\ c.bytes = <<>> /\ c.content_length = GetSize(f) /\ c.valid = TRUE
    BY <2>1 DEF Build
  <2>3. f \in Seq(PartType) /\ f # <<>>
    BY FormsAssumption
  <2>4. Len(f) \in Nat \ {0} /\ <<>> \in Seq(Byte)
    BY <2>3
  <2> QED
    BY <1>1, <2>2, <2>3, <2>4
<1>3. CASE \E q \in Foreign : c = [form |-> <<>>, bytes |-> q.bytes,
                                 content_length |-> Len(q.bytes), valid |-> q.length]
  <2>1. PICK q \in Foreign : c = [form |-> <<>>, bytes |-> q.bytes,
                                  content_length |-> Len(q.bytes), valid |-> q.length]
    BY <1>3
  <2>2. q.bytes \in Seq(Byte)
    BY ForeignAssumption, Bytes
  <2> QED
    BY <1>1, <2>1, <2>2
<1> QED
  BY <1>2, <1>3 DEF Contents

\* The client begins with all of its text to write.
LEMMA WritingStarts ==
  ASSUME NEW r \in Requests
  PROVE  /\ r.form \in Seq(PartType)
         /\ LET unsent == IF 0 < Len(r.form) THEN TextOf(r.form)[0 + 1] ELSE <<>>
            IN  /\ unsent \in Seq(Byte)
                /\ Len(r.bytes) \in Nat /\ Len(r.bytes) + Len(unsent) = r.content_length
<1>1. CASE r.form = <<>>
  <2>1. r.content_length = Len(r.bytes) /\ r.bytes \in Seq(Byte) /\ Len(r.form) = 0
    BY <1>1, TwoKinds
  <2>2. <<>> \in Seq(PartType) /\ <<>> \in Seq(Byte) /\ Len(<<>>) = 0 /\ ~(0 < 0)
    OBVIOUS
  <2>3. Len(r.bytes) \in Nat /\ Len(r.bytes) + 0 = Len(r.bytes)
    BY <2>1
  <2> QED
    BY <1>1, <2>1, <2>2, <2>3
<1>2. CASE r.form # <<>>
  <2>1. /\ r.form \in Forms /\ r.form \in Seq(PartType) /\ Len(r.form) \in Nat \ {0}
        /\ r.bytes = <<>> /\ r.content_length = GetSize(r.form)
    BY <1>2, TwoKinds
  <2>2. Len(TextOf(r.form)[1]) = GetSize(r.form)
    BY <2>1, TextLength
  <2>3. IsText(TextOf(r.form), r.form)
    BY <2>1, TextExists
  <2>4. TextOf(r.form)[1] \in Seq(Byte)
    BY <2>1, <2>3 DEF IsText
  <2> HIDE DEF TextOf
  <2>5. 0 < Len(r.form) /\ 0 + 1 = 1 /\ Len(r.bytes) = 0
    BY <2>1
  <2>6. Len(TextOf(r.form)[1]) \in Nat
    BY <2>4
  <2> QED
    BY <2>1, <2>2, <2>4, <2>5, <2>6
<1> QED
  BY <1>1, <1>2

\* A payload is the next piece of the text.
LEMMA PayloadIsNext ==
  ASSUME Writing, NextPayload, request' = request
  PROVE  /\ Payload \in Seq(Byte) /\ Unsent' \in Seq(Byte)
         /\ Unsent = Payload \o Unsent'
         /\ parts' \in Seq(PartType) /\ Len(parts') = Len(parts) /\ index' = index + 1
         /\ \A i \in 1..Len(parts') : i > index' => parts'[i] = request.form[i]
<1> DEFINE L == Len(parts)
           form == request.form
           t == TextOf(form)
<1>1. /\ L \in Nat /\ L = Len(form) /\ index \in Nat /\ parts \in Seq(PartType)
      /\ \A i \in 1..L : i > index => parts[i] = form[i]
  BY DEF Writing
<1>2. /\ parts' \in Seq(PartType) /\ Len(parts') = L /\ index' = index + 1
      /\ \A i \in 1..L : i > index' => parts'[i] = form[i]
  <2>1. \A p \in PartType : Free(p) \in PartType /\ Load(p) \in PartType
    <3> SUFFICES ASSUME NEW p \in PartType PROVE Free(p) \in PartType /\ Load(p) \in PartType
      OBVIOUS
    <3>1. <<>> \in Seq(STRING)
      OBVIOUS
    <3>2. \A d \in Seq(STRING) : [p EXCEPT !.data = d] \in PartType
      BY DEF PartType
    <3>3. p.file \in Seq(STRING)
      BY DEF PartType
    <3> QED
      BY <3>1, <3>2, <3>3 DEF Free, Load
  <2>2. DOMAIN parts = 1..L
    BY <1>1
  <2>3. parts' = [i \in 1..L |-> IF i = index THEN Free(parts[i])
                                ELSE IF i = index + 1 THEN Load(parts[i]) ELSE parts[i]]
        /\ index' = index + 1
    BY <2>2 DEF NextPayload
  <2>4. \A i \in 1..L : parts'[i] \in PartType
    BY <1>1, <2>1, <2>3
  <2>5. parts' \in [1..L -> PartType]
    BY <2>3, <2>4
  <2>6. parts' \in Seq(PartType) /\ Len(parts') = L
    BY <1>1, <2>5
  <2>7. \A i \in 1..L : i > index + 1 => parts'[i] = form[i]
    BY <1>1, <2>3
  <2> QED
    BY <2>3, <2>6, <2>7
<1>3. /\ Unsent = IF index < L THEN t[index + 1] ELSE <<>>
      /\ Unsent' = IF index + 1 < L THEN t[index + 2] ELSE <<>>
  <2>1. Unsent' = IF index' < Len(parts') THEN TextOf(request'.form)[index' + 1] ELSE <<>>
    BY DEF Unsent
  <2>2. index' + 1 = index + 2
    BY <1>1, <1>2
  <2> QED
    BY <1>2, <2>1, <2>2 DEF Unsent
<1>4. CASE index < L
  <2> DEFINE k == index + 1
             w == AddBoundary \o Prepare(form[k])
  <2>1. k \in 1..L /\ index + 2 = k + 1 /\ k > index
    BY <1>1, <1>4
  <2>2. form \in Seq(PartType) /\ Len(form) # 0
    <3>1. Len(form) # 0
      BY <1>1, <2>1
    <3>2. form # <<>>
      BY <3>1
    <3>3. request \in Requests
      BY DEF Writing
    <3> QED
      BY <3>1, <3>2, <3>3, TwoKinds
  <2>3. IsText(t, form)
    BY <2>2, TextExists
  <2>4. w \in Seq(Byte) /\ AddBoundaryEnd \in Seq(Byte)
    <3>1. form[k] \in PartType
      BY <1>1, <2>1, <2>2
    <3> QED
      BY <3>1, PieceTypes
  <2>5. parts[k] = form[k]
    BY <1>1, <2>1
  <2>6. Payload = w \o (IF k = L THEN AddBoundaryEnd ELSE <<>>)
    BY <1>4, <2>5 DEF Payload
  <2>7. t[k] = w \o t[k + 1] /\ t[k + 1] \in Seq(Byte) /\ t[L + 1] = AddBoundaryEnd
    <3>1. k \in 1..Len(form) /\ k + 1 \in 1..(Len(form) + 1) /\ L = Len(form)
      BY <1>1, <2>1
    <3> HIDE DEF t, k, L
    <3> QED
      BY <2>3, <3>1 DEF IsText
  <2> HIDE DEF w, t
  <2>8. CASE k = L
    <3>1. Unsent = t[k] /\ Unsent' = <<>> /\ Payload = w \o AddBoundaryEnd /\ t[k + 1] = AddBoundaryEnd
      <4>1. ~(index + 1 < L) /\ index < L /\ k = L
        BY <1>1, <1>4, <2>1, <2>8
      <4>2. Unsent = t[k] /\ Unsent' = <<>>
        BY <1>3, <4>1
      <4> QED
        BY <2>6, <2>7, <2>8, <4>2
    <3>2. Unsent = Payload /\ Payload \in Seq(Byte)
      BY <2>4, <2>7, <3>1, ConcatProperties
    <3> QED
      BY <1>2, <3>1, <3>2, ConcatEmptySeq
  <2>9. CASE k # L
    <3>1. Unsent = t[k] /\ Unsent' = t[k + 1] /\ Payload = w \o <<>>
      BY <1>1, <1>3, <1>4, <2>1, <2>6, <2>9
    <3>2. Payload = w
      BY <2>4, <3>1, ConcatEmptySeq
    <3> QED
      BY <1>2, <2>4, <2>7, <3>1, <3>2
  <2> QED
    BY <2>8, <2>9
<1>5. CASE ~(index < L)
  <2>1. Unsent = <<>> /\ Unsent' = <<>> /\ Payload = <<>>
    BY <1>1, <1>3, <1>5 DEF Payload
  <2>2. <<>> \in Seq(Byte) /\ <<>> \o <<>> = <<>>
    OBVIOUS
  <2> QED
    BY <1>2, <2>1, <2>2
<1> QED
  BY <1>4, <1>5

\* No other step changes what the client has written.
LEMMA OthersDoNotWrite ==
  ASSUME Refuse \/ (\E n \in 0..Len(wire) : HeadersEnd(n)) \/ (\E n \in 1..Len(wire) : Read(n))
         \/ ParseMultipartContent \/ HandleRequest \/ UNCHANGED vars
  PROVE  UNCHANGED <<formVars, request>>
BY DEF Refuse, HeadersEnd, Read, Take, HandleRequest, ParseMultipartContent, EndOfData,
   FirstBoundary, BeginPart, PartHeadersNeedMore, PartHeaderLine, PartHeadersEnd, AwaitBoundary,
   EndPart, vars, requestVars

\* The invariant of the client.
LEMMA WritingCorrect == Spec => []Writing
<1>1. Init => Writing
  <2> SUFFICES ASSUME Init PROVE Writing
    OBVIOUS
  <2>1. request \in Requests /\ parts = request.form /\ index = 0 /\ sent = Len(request.bytes)
    BY DEF Init
  <2>2. Unsent = IF 0 < Len(request.form) THEN TextOf(request.form)[0 + 1] ELSE <<>>
    BY <2>1 DEF Unsent
  <2> QED
    BY <2>1, <2>2, WritingStarts DEF Writing
<1>2. Writing /\ [Next]_vars => Writing'
  <2> SUFFICES ASSUME Writing, [Next]_vars PROVE Writing'
    OBVIOUS
  <2>1. CASE NextRequest
    <3>1. /\ request' \in Requests /\ parts' = request'.form /\ index' = 0
          /\ sent' = Len(request'.bytes)
      BY <2>1 DEF NextRequest
    <3>2. Unsent' = IF 0 < Len(request'.form) THEN TextOf(request'.form)[0 + 1] ELSE <<>>
      BY <3>1 DEF Unsent
    <3>3. /\ request'.form \in Seq(PartType) /\ Len(request'.bytes) \in Nat
          /\ Len(request'.bytes) + Len(Unsent') = request'.content_length
      BY <3>1, <3>2, WritingStarts
    <3> QED
      BY <3>1, <3>3 DEF Writing
  <2>2. CASE WritePayload
    <3>1. request' = request /\ NextPayload /\ sent' = sent + Len(Payload)
      BY <2>2 DEF WritePayload, requestVars
    <3>2. /\ Payload \in Seq(Byte) /\ Unsent' \in Seq(Byte)
          /\ Unsent = Payload \o Unsent'
          /\ parts' \in Seq(PartType) /\ Len(parts') = Len(parts) /\ index' = index + 1
          /\ \A i \in 1..Len(parts') : i > index' => parts'[i] = request.form[i]
      BY <3>1, PayloadIsNext
    <3>3. Len(Unsent) = Len(Payload) + Len(Unsent') /\ Len(Payload) \in Nat /\ Len(Unsent') \in Nat
      <4>1. IsJoined(Byte, Payload, Unsent', Unsent)
        BY <3>2, CutsOfJoined, Zenon
      <4> QED
        BY <3>2, <4>1 DEF IsJoined
    <3>4. sent' \in Nat /\ sent' + Len(Unsent') = request'.content_length
      BY <3>1, <3>3 DEF Writing
    <3> QED
      BY <3>1, <3>2, <3>4 DEF Writing
  <2>3. CASE UNCHANGED <<formVars, request>>
    <3>1. Unsent' = Unsent
      BY <2>3 DEF Unsent, formVars
    <3> QED
      BY <2>3, <3>1 DEF Writing, formVars
  <2> QED
    BY <2>1, <2>2, <2>3, OthersDoNotWrite DEF Next
<1> QED
  BY <1>1, <1>2, PTL DEF Spec

\* For all forms, and parts of any number and length: the client has written as many
\* bytes as the Content-Length says when it has nothing left to write (GetSize() and
\* NextPayload() of FormBody in body.cc, which loads and frees the data of files).
THEOREM TheLengthIsKept == Spec => []LengthMatches
<1>1. Writing => LengthMatches
  <2> SUFFICES ASSUME Writing, index > Len(parts) PROVE sent = request.content_length
    BY DEF LengthMatches
  <2>1. Unsent = <<>>
    BY DEF Unsent, Writing
  <2>2. Len(Unsent) = 0 /\ sent \in Nat
    BY <2>1 DEF Writing
  <2> QED
    BY <2>2 DEF Writing
<1> QED
  BY <1>1, WritingCorrect, PTL

-----------------------------------------------------------------------------
(* The parser's side *)

\* After k parts of a form there is a boundary line, and then the next part and all
\* that follows.
LineAfter(form, k) == IF k = Len(form) THEN LastLine ELSE BoundaryLine
More(form, k) ==
  IF k = Len(form) THEN <<>> ELSE Prepare(form[k + 1]) \o TextOf(form)[k + 2]

\* This is the text.
LEMMA TextAfter ==
  ASSUME NEW form \in Seq(PartType), NEW k \in 0..Len(form)
  PROVE  /\ LineAfter(form, k) \in {BoundaryLine, LastLine} /\ LineAfter(form, k) \in Seq(Byte)
         /\ More(form, k) \in Seq(Byte) /\ TextOf(form)[k + 1] \in Seq(Byte)
         /\ TextOf(form)[k + 1] = (LineAfter(form, k) \o CRLF) \o More(form, k)
<1> DEFINE t == TextOf(form)
           L == Len(form)
<1>1. IsText(t, form)
  BY TextExists
<1> HIDE DEF t
<1>2. L \in Nat /\ k + 1 \in 1..(L + 1)
  OBVIOUS
<1>3. /\ t[k + 1] \in Seq(Byte) /\ t[L + 1] = AddBoundaryEnd
      /\ k # L => /\ t[k + 1] = (AddBoundary \o Prepare(form[k + 1])) \o t[k + 2]
                  /\ t[k + 2] \in Seq(Byte)
  <2>1. k # L => k + 1 \in 1..L /\ (k + 1) + 1 = k + 2 /\ k + 2 \in 1..(L + 1)
    BY <1>2
  <2> QED
    BY <1>1, <1>2, <2>1 DEF IsText
<1>4. /\ AddBoundary = BoundaryLine \o CRLF /\ AddBoundaryEnd = LastLine \o CRLF
      /\ BoundaryLine \in Seq(Byte) /\ LastLine \in Seq(Byte)
  BY BoundaryBytes
<1>5. AddBoundary \in Seq(Byte) /\ AddBoundaryEnd \in Seq(Byte)
  BY PieceTypes
<1>6. CASE k = L
  <2>1. t[k + 1] = (LastLine \o CRLF) \o <<>>
    BY <1>3, <1>4, <1>5, <1>6, ConcatEmptySeq
  <2>2. <<>> \in Seq(Byte)
    OBVIOUS
  <2> QED
    BY <1>3, <1>4, <1>6, <2>1, <2>2 DEF LineAfter, More, t
<1>7. CASE k # L
  <2> DEFINE w == Prepare(form[k + 1])
  <2>1. w \in Seq(Byte)
    <3>1. form[k + 1] \in PartType
      BY <1>2, <1>7
    <3> QED
      BY <3>1, PieceTypes
  <2>2. t[k + 1] = (AddBoundary \o w) \o t[k + 2] /\ t[k + 2] \in Seq(Byte)
    BY <1>3, <1>7
  <2> HIDE DEF w
  <2>3. t[k + 1] = AddBoundary \o (w \o t[k + 2])
    <3> DEFINE x == t[k + 2]
    <3>1. x \in Seq(Byte) /\ t[k + 1] = (AddBoundary \o w) \o x
      BY <2>2
    <3> HIDE DEF x
    <3>2. (AddBoundary \o w) \o x = AddBoundary \o (w \o x)
      <4>1. Associate(AddBoundary, w, x)
        BY <1>5, <2>1, <3>1, Joined, Zenon
      <4> QED
        BY <4>1 DEF Associate
    <3> QED
      BY <3>1, <3>2 DEF x
  <2>4. w \o t[k + 2] \in Seq(Byte)
    BY <2>1, <2>2, ConcatProperties
  <2>5. More(form, k) = w \o t[k + 2] /\ LineAfter(form, k) = BoundaryLine
    BY <1>7 DEF More, LineAfter, w, t
  <2> QED
    BY <1>3, <1>4, <2>3, <2>4, <2>5 DEF t
<1> QED
  BY <1>6, <1>7

\* The boundary line begins the text after k parts.
LEMMA LineAfterText ==
  ASSUME NEW form \in Seq(PartType), NEW k \in 0..Len(form), NEW u,
         u = TextOf(form)[k + 1]
  PROVE  LET line == LineAfter(form, k)
         IN  /\ HasLineOf(u, 0, Len(line))
             /\ \A i \in 1..Len(line) : u[i] = line[i]
             /\ EndsLine(u, Len(line) + 1) /\ Len(line) + 2 <= Len(u)
             /\ Erase(u, Len(line) + 2) = More(form, k)
<1> DEFINE line == LineAfter(form, k)
           m == Len(line)
           lc == line \o CRLF
           r == More(form, k)
<1>1. /\ line \in Seq(Byte) /\ r \in Seq(Byte) /\ u = lc \o r
      /\ m \in Nat /\ \A i \in 1..m : line[i] # "CR"
  <2>1. /\ line \in {BoundaryLine, LastLine} /\ line \in Seq(Byte) /\ r \in Seq(Byte)
        /\ TextOf(form)[k + 1] = lc \o r
    BY TextAfter, Zenon
  <2> HIDE DEF line, r
  <2>2. u = lc \o r
    BY <2>1, Zenon
  <2>3. \A i \in 1..Len(line) : line[i] # "CR"
    BY <2>1, BoundaryBytes, Zenon
  <2>4. m \in Nat
    BY <2>1
  <2> QED
    BY <2>1, <2>2, <2>3, <2>4
<1> HIDE DEF line, r, m
<1>2. IsJoined(Byte, line, CRLF, lc)
  BY <1>1, Bytes, CutsOfJoined, Zenon
<1> HIDE DEF lc
<1>3. /\ lc \in Seq(Byte) /\ Len(lc) = m + 2 /\ \A i \in 1..m : lc[i] = line[i]
      /\ lc[m + 1] = "CR" /\ lc[m + 2] = "LF"
  BY <1>2, Bytes DEF IsJoined, m
<1>4. IsJoined(Byte, lc, r, u)
  BY <1>1, <1>3, CutsOfJoined, Zenon
<1>5. /\ Len(u) = m + 2 + Len(r) /\ Len(r) \in Nat
      /\ \A i \in 1..(m + 2) : u[i] = lc[i]
      /\ Erase(u, m + 2) = r
  BY <1>1, <1>3, <1>4 DEF IsJoined
<1>6. \A i \in 1..m : u[i] = line[i]
  BY <1>1, <1>3, <1>5
<1>7. EndsLine(u, m + 1) /\ m + 2 <= Len(u)
  BY <1>1, <1>3, <1>5 DEF EndsLine
<1>8. HasLineOf(u, 0, m)
  <2>1. ASSUME NEW i \in 1..m PROVE ~EndsLine(u, 0 + i)
    <3>1. 0 + i = i
      OBVIOUS
    <3>2. u[i] = line[i]
      BY <1>6
    <3>3. line[i] # "CR"
      BY <1>1, Zenon
    <3> QED
      BY <3>1, <3>2, <3>3 DEF EndsLine
  <2>2. 0 + m + 2 = m + 2 /\ 0 + m + 1 = m + 1
    BY <1>1
  <2> QED
    BY <1>7, <2>1, <2>2 DEF HasLineOf
<1> QED
  BY <1>5, <1>6, <1>7, <1>8 DEF line, m, r

\* What follows the headers of part k: its data, and the text after it.
LEMMA DataThenLine ==
  ASSUME NEW form \in Seq(PartType), NEW k \in 1..Len(form), NEW u,
         u = (Load(form[k]).data \o CRLF) \o TextOf(form)[k + 1]
  PROVE  LET data == Load(form[k]).data
             line == LineAfter(form, k)
         IN  /\ u \in Seq(Byte) /\ data \in Seq(Byte) /\ DataThen(u, data, line)
             /\ SubSeq(u, 1, Len(data)) = data
             /\ Erase(u, Len(data) + 2 + Len(line) + 2) = More(form, k)
<1> DEFINE data == Load(form[k]).data
           line == LineAfter(form, k)
           D == Len(data)
           m == Len(line)
           r == TextOf(form)[k + 1]
           w == data \o CRLF
<1>1. data \in Seq(Byte) /\ D \in Nat
  <2>1. form[k] \in PartType
    OBVIOUS
  <2>2. data \in Seq(Byte)
    BY <2>1, PartText
  <2> QED
    BY <2>2
<1>2. k \in 0..Len(form)
  OBVIOUS
<1>3. /\ r \in Seq(Byte) /\ line \in Seq(Byte) /\ m \in Nat
      /\ \A i \in 1..m : r[i] = line[i]
      /\ EndsLine(r, m + 1) /\ m + 2 <= Len(r)
      /\ Erase(r, m + 2) = More(form, k)
  <2>1. r \in Seq(Byte) /\ line \in Seq(Byte)
    BY <1>2, TextAfter, Zenon
  <2>2. m \in Nat
    BY <2>1, LenProperties, Zenon
  <2>3. /\ \A i \in 1..m : r[i] = line[i]
        /\ EndsLine(r, m + 1) /\ m + 2 <= Len(r)
        /\ Erase(r, m + 2) = More(form, k)
    BY <1>2, LineAfterText, Zenon
  <2> QED
    BY <2>1, <2>2, <2>3, Zenon
<1> HIDE DEF data, line, r, D, m
<1>4. IsJoined(Byte, data, CRLF, w)
  BY <1>1, Bytes, CutsOfJoined, Zenon
<1>u. u = w \o r
  BY DEF data, r
<1> HIDE DEF w
<1>5. /\ w \in Seq(Byte) /\ Len(w) = D + 2 /\ \A i \in 1..D : w[i] = data[i]
      /\ w[D + 1] = "CR" /\ w[D + 2] = "LF" /\ SubSeq(w, 1, D) = data
  BY <1>4, Bytes DEF IsJoined, D
<1>6. IsJoined(Byte, w, r, u)
  BY <1>3, <1>5, <1>u, CutsOfJoined, Zenon
<1>7. /\ u \in Seq(Byte) /\ Len(u) = (D + 2) + Len(r) /\ Len(r) \in Nat
      /\ \A i \in 1..(D + 2) : u[i] = w[i]
      /\ \A i \in 1..Len(r) : u[(D + 2) + i] = r[i]
      /\ Erase(u, D + 2) = r
  <2>1. /\ u \in Seq(Byte) /\ Len(u) = Len(w) + Len(r)
        /\ \A i \in 1..Len(w) : u[i] = w[i]
        /\ \A i \in 1..Len(r) : u[Len(w) + i] = r[i]
        /\ Erase(u, Len(w)) = r
    BY <1>6 DEF IsJoined
  <2>2. Len(w) = D + 2 /\ Len(r) \in Nat
    BY <1>3, <1>5
  <2> QED
    BY <2>1, <2>2
<1> DEFINE R == Len(r)
<1>8. D \in Nat /\ m \in Nat /\ R \in Nat /\ m + 2 <= R /\ Len(u) = (D + 2) + R
  BY <1>1, <1>3, <1>7, Zenon
<1> HIDE DEF R
<1>9. SubSeq(u, 1, D) = data
  <2>1. D \in 0..Len(w)
    BY <1>1, <1>5
  <2> QED
    BY <1>5, <1>6, <2>1 DEF IsJoined
<1>10. DataThen(u, data, line)
  <2>1. D + 2 + m + 2 <= Len(u)
    BY <1>8
  <2>2. ASSUME NEW i \in 1..D PROVE u[i] = data[i]
    <3>1. i \in 1..(D + 2)
      BY <1>8
    <3> QED
      BY <1>5, <1>7, <3>1, Zenon
  <2>3. EndsLine(u, D + 1)
    <3>1. D + 1 + 1 = D + 2 /\ D + 1 \in 1..(D + 2) /\ D + 2 \in 1..(D + 2)
      BY <1>1
    <3> QED
      BY <1>5, <1>7, <3>1 DEF EndsLine
  <2>4. ASSUME NEW i \in 1..m PROVE u[D + 2 + i] = line[i]
    <3>1. i \in 1..R
      BY <1>8
    <3>2. u[(D + 2) + i] = r[i] /\ r[i] = line[i]
      BY <1>3, <1>7, <3>1, Zenon DEF R
    <3>3. D + 2 + i = (D + 2) + i
      BY <1>8
    <3> QED
      BY <3>2, <3>3, Zenon
  <2>5. EndsLine(u, D + 2 + m + 1)
    <3>1. m + 1 \in 1..R /\ m + 1 + 1 \in 1..R
          /\ D + 2 + m + 1 = (D + 2) + (m + 1) /\ D + 2 + m + 1 + 1 = (D + 2) + (m + 1 + 1)
      BY <1>8
    <3>2. r[m + 1] = "CR" /\ r[m + 1 + 1] = "LF"
      BY <1>3, Zenon DEF EndsLine
    <3>3. u[(D + 2) + (m + 1)] = r[m + 1] /\ u[(D + 2) + (m + 1 + 1)] = r[m + 1 + 1]
      BY <1>7, <3>1, Zenon DEF R
    <3> QED
      BY <3>1, <3>2, <3>3 DEF EndsLine
  <2> QED
    BY <2>1, <2>2, <2>3, <2>4, <2>5 DEF DataThen, D, m
<1>11. Erase(u, D + 2 + m + 2) = More(form, k)
  <2> DEFINE c == D + 2
             j == m + 2
  <2>1. c \in Nat /\ j \in 0..R /\ D + 2 + m + 2 = c + j
    BY <1>8
  <2>2. u \in Seq(Byte) /\ r \in Seq(Byte) /\ EndsIn(u, c, r)
    BY <1>3, <1>7, Zenon DEF EndsIn
  <2> HIDE DEF c, j
  <2>3. Erase(u, c + j) = Erase(r, j)
    <3>1. j \in 0..Len(r) /\ c \in Nat
      BY <2>1, Zenon DEF R
    <3>2. RestsOf(u, c, r)
      BY <2>2, <3>1, RestOfRest, Zenon
    <3> QED
      BY <3>1, <3>2, Zenon DEF RestsOf
  <2>4. Erase(r, j) = More(form, k)
    BY <1>3, Zenon DEF j
  <2> QED
    BY <2>1, <2>3, <2>4, Zenon
<1> QED
  BY <1>1, <1>7, <1>9, <1>10, <1>11 DEF data, line, D, m

\* What begins with the headers of a part has their lines.
LEMMA HeadLines ==
  ASSUME NEW p \in PartType, NEW u \in Seq(Byte), Begins(PartHead(p), u)
  PROVE  /\ HasLineOf(u, 0, 1) /\ u[1] = p.name
         /\ p.typed => HasLineOf(u, 3, 1) /\ u[4] = "Type" /\ HasLineOf(u, 6, 0)
         /\ ~p.typed => HasLineOf(u, 3, 0)
         /\ Len(PartHead(p)) = IF p.typed THEN 8 ELSE 5
<1> DEFINE h == PartHead(p)
<1>1. h = IF p.typed THEN <<p.name, "CR", "LF", "Type", "CR", "LF", "CR", "LF">>
          ELSE <<p.name, "CR", "LF", "CR", "LF">>
  BY DEF PartHead
<1>2. p.name # "CR" /\ "Type" # "CR"
  <2>1. p.name \in Names
    BY DEF PartType
  <2> QED
    BY <2>1, NamesAssumption
<1>3. Len(u) \in Nat /\ Len(h) <= Len(u) /\ \A i \in 1..Len(h) : h[i] = u[i]
  BY DEF Begins
<1> HIDE DEF h
<1>4. CASE p.typed
  <2> DEFINE w == <<p.name, "CR", "LF", "Type", "CR", "LF", "CR", "LF">>
  <2>1. h = w
    BY <1>1, <1>4
  <2>2. /\ Len(w) = 8 /\ w[1] = p.name /\ w[2] = "CR" /\ w[3] = "LF" /\ w[4] = "Type"
        /\ w[5] = "CR" /\ w[6] = "LF" /\ w[7] = "CR" /\ w[8] = "LF"
    OBVIOUS
  <2> HIDE DEF w
  <2>3. /\ 8 <= Len(u) /\ u[1] = p.name /\ u[2] = "CR" /\ u[3] = "LF" /\ u[4] = "Type"
        /\ u[5] = "CR" /\ u[6] = "LF" /\ u[7] = "CR" /\ u[8] = "LF"
    BY <1>3, <2>1, <2>2
  <2>4. /\ ~EndsLine(u, 1) /\ EndsLine(u, 2) /\ ~EndsLine(u, 4) /\ EndsLine(u, 5)
        /\ EndsLine(u, 7)
    BY <1>2, <2>3 DEF EndsLine
  <2>5. HasLineOf(u, 0, 1) /\ HasLineOf(u, 3, 1) /\ HasLineOf(u, 6, 0)
    BY <1>3, <2>3, <2>4 DEF HasLineOf
  <2> QED
    BY <1>4, <2>1, <2>2, <2>3, <2>5 DEF h
<1>5. CASE ~p.typed
  <2> DEFINE w == <<p.name, "CR", "LF", "CR", "LF">>
  <2>1. h = w
    BY <1>1, <1>5
  <2>2. /\ Len(w) = 5 /\ w[1] = p.name /\ w[2] = "CR" /\ w[3] = "LF"
        /\ w[4] = "CR" /\ w[5] = "LF"
    OBVIOUS
  <2> HIDE DEF w
  <2>3. /\ 5 <= Len(u) /\ u[1] = p.name /\ u[2] = "CR" /\ u[3] = "LF"
        /\ u[4] = "CR" /\ u[5] = "LF"
    BY <1>3, <2>1, <2>2
  <2>4. ~EndsLine(u, 1) /\ EndsLine(u, 2) /\ EndsLine(u, 4)
    BY <1>2, <2>3 DEF EndsLine
  <2>5. HasLineOf(u, 0, 1) /\ HasLineOf(u, 3, 0)
    BY <1>3, <2>3, <2>4 DEF HasLineOf
  <2> QED
    BY <1>5, <2>1, <2>2, <2>3, <2>5 DEF h
<1> QED
  BY <1>4, <1>5

\* Part k begins with one or two header lines and an empty one, before its data.
LEMMA HeadersThenData ==
  ASSUME NEW form \in Seq(PartType), NEW k \in 1..Len(form)
  PROVE  LET p == form[k]
             u == Prepare(p) \o TextOf(form)[k + 1]
         IN  /\ u \in Seq(Byte)
             /\ HasLineOf(u, 0, 1) /\ u[1] = p.name
             /\ p.typed => HasLineOf(u, 3, 1) /\ u[4] = "Type" /\ HasLineOf(u, 6, 0)
             /\ ~p.typed => HasLineOf(u, 3, 0)
             /\ Erase(u, IF p.typed THEN 8 ELSE 5)
                  = (Load(p).data \o CRLF) \o TextOf(form)[k + 1]
<1> DEFINE p == form[k]
           h == PartHead(p)
           d == Load(p).data
           r == TextOf(form)[k + 1]
           v == (d \o CRLF) \o r
           u == ((h \o d) \o CRLF) \o r
<1>1. p \in PartType /\ p.name \in Names /\ p.typed \in BOOLEAN
  <2>1. p \in PartType
    OBVIOUS
  <2> HIDE DEF p
  <2> QED
    BY <2>1 DEF PartType
<1>2. h \in Seq(Byte) /\ d \in Seq(Byte) /\ Prepare(p) = (h \o d) \o CRLF
  BY <1>1, PartText
<1>3. r \in Seq(Byte)
  <2>1. k \in 0..Len(form)
    OBVIOUS
  <2> QED
    BY <2>1, TextAfter
<1>4. CRLF \in Seq(Byte)
  BY Bytes
<1>5. Prepare(p) \o r = u
  BY <1>2, Zenon
<1> HIDE DEF h, d, r, p
<1>6. u \in Seq(Byte) /\ Begins(h, u) /\ Erase(u, Len(h)) = v
  <2>1. IsJoined(Byte, h, v, u)
    BY <1>2, <1>3, <1>4, FourJoined, Zenon
  <2> QED
    BY <2>1, Zenon DEF IsJoined
<1> HIDE DEF u, v
<1>7. /\ HasLineOf(u, 0, 1) /\ u[1] = p.name
      /\ p.typed => HasLineOf(u, 3, 1) /\ u[4] = "Type" /\ HasLineOf(u, 6, 0)
      /\ ~p.typed => HasLineOf(u, 3, 0)
      /\ Len(h) = IF p.typed THEN 8 ELSE 5
  BY <1>1, <1>6, HeadLines, Zenon DEF h
<1> QED
  BY <1>5, <1>6, <1>7, Zenon DEF v, d, r, p

-----------------------------------------------------------------------------
(* Where the parser is *)

\* What is under way, and all that the parser has not consumed.
Coming == wire \o Unsent
Unread == pending_data \o Coming

\* What is made of the first n parts.
Saved(n) ==
  /\ form_parts \in Seq([name : Names, data : Seq(Byte)]) /\ Len(form_parts) = n
  /\ \A i \in 1..n : form_parts[i] = [name |-> request.form[i].name,
                                      data |-> Load(request.form[i]).data]

\* Where the parser is in the form: the parts before part k are saved, and what it
\* has not consumed is the text of the form from a place in part k on.
Position ==
  LET form == request.form
      k == Len(form_parts) + 1
  IN  /\ k \in 1..Len(form) /\ Saved(k - 1)
      /\ step \in {"kStart", "kBoundaryParsed", "kHeadersParsed"}
      /\ step = "kStart" => k = 1 /\ Unread = TextOf(form)[1]
      /\ step = "kBoundaryParsed" => Unread = Prepare(form[k]) \o TextOf(form)[k + 1]
      /\ step = "kHeadersParsed" =>
           /\ Unread = (Load(form[k]).data \o CRLF) \o TextOf(form)[k + 1]
           /\ part = form[k].name
      /\ pc # "part_headers" => off = 0
      /\ pc = "part_headers" =>
           /\ step = "kBoundaryParsed"
           /\ off \in (IF form[k].typed THEN {0, 3, 6} ELSE {0, 3}) /\ off <= Len(pending_data)
           /\ off # 0 => part = form[k].name

\* A form that is finished is complete, unless it has a line like the last one.
Complete ==
  \/ \E i \in 1..(Len(request.form) - 1) : LooksLast(request.form, i)
  \/ Saved(Len(request.form)) /\ body = IF stream THEN "file" ELSE "form"

\* A part that the parser refuses.
BadPart ==
  \E i \in DOMAIN request.form : \/ Load(request.form[i]).data = <<>>
                                 \/ request.form[i].name \in SplitNames

Reading ==
  request.form # <<>> =>
    /\ wire \in Seq(Byte) /\ pending_data \in Seq(Byte)
    /\ pc \in {"headers", "content", "part_headers", "read"} => Position
    /\ pc = "read" => Coming # <<>>
    /\ pc = "finished" => Complete
    /\ pc = "failed" => BadPart

\* The sequences of a form, and that the pending data begins what is not consumed.
LEMMA ReadingForm ==
  ASSUME Writing, Reading, request.form # <<>>
  PROVE  /\ request.form \in Forms /\ request.form \in Seq(PartType)
         /\ Len(request.form) \in Nat \ {0} /\ request.valid = TRUE
         /\ wire \in Seq(Byte) /\ pending_data \in Seq(Byte)
         /\ Unsent \in Seq(Byte) /\ Coming \in Seq(Byte) /\ Unread \in Seq(Byte)
         /\ IsJoined(Byte, pending_data, Coming, Unread)
         /\ pending_data # Unread => Coming # <<>>
<1>1. /\ request.form \in Forms /\ request.form \in Seq(PartType)
      /\ Len(request.form) \in Nat \ {0} /\ request.valid = TRUE
  BY TwoKinds DEF Writing
<1>2. wire \in Seq(Byte) /\ pending_data \in Seq(Byte)
  BY DEF Reading
<1>3. Unsent \in Seq(Byte)
  <2>1. CASE index < Len(parts)
    <3>1. index \in 0..Len(request.form)
      BY <1>1, <2>1 DEF Writing
    <3>2. TextOf(request.form)[index + 1] \in Seq(Byte)
      BY <1>1, <3>1, TextAfter
    <3> QED
      BY <2>1, <3>2 DEF Unsent
  <2>2. CASE ~(index < Len(parts))
    BY <2>2 DEF Unsent
  <2> QED
    BY <2>1, <2>2
<1>4. Coming \in Seq(Byte)
  BY <1>2, <1>3, ConcatProperties DEF Coming
<1>5. IsJoined(Byte, pending_data, Coming, Unread)
  BY <1>2, <1>4, CutsOfJoined, Zenon DEF Unread
<1>6. Unread \in Seq(Byte)
  BY <1>5, Zenon DEF IsJoined
<1>7. pending_data # Unread => Coming # <<>>
  BY <1>2, ConcatEmptySeq DEF Unread
<1> QED
  BY <1>1, <1>2, <1>3, <1>4, <1>5, <1>6, <1>7, Zenon

\* Reading moves bytes from the wire to the pending data.
LEMMA TakesOver ==
  ASSUME Writing, Reading, request.form # <<>>, NEW n \in 0..Len(wire), Take(n)
  PROVE  wire' \in Seq(Byte) /\ pending_data' \in Seq(Byte) /\ Unread' = Unread
<1> DEFINE a == SubSeq(wire, 1, n)
           b == Erase(wire, n)
           p == pending_data
           x == Unsent
<1>1. wire \in Seq(Byte) /\ p \in Seq(Byte) /\ x \in Seq(Byte)
  BY ReadingForm
<1>2. a \in Seq(Byte) /\ b \in Seq(Byte)
  BY <1>1, Erased
<1>3. a \o b = wire
  BY <1>1, CutAndJoined
<1>4. pending_data' = p \o a /\ wire' = b /\ Unsent' = x
  BY DEF Take, formVars, Unsent
<1>5. Unread' = (p \o a) \o (b \o x) /\ Unread = p \o (wire \o x)
  BY <1>4, Zenon DEF Unread, Coming
<1> HIDE DEF a, b, p, x
<1>6. p \o a \in Seq(Byte) /\ b \o x \in Seq(Byte)
  BY <1>1, <1>2, ConcatProperties
<1>7. (p \o a) \o (b \o x) = p \o (a \o (b \o x))
  <2> DEFINE y == b \o x
  <2>1. y \in Seq(Byte)
    BY <1>6
  <2> HIDE DEF y
  <2>2. (p \o a) \o y = p \o (a \o y)
    <3>1. Associate(p, a, y)
      BY <1>1, <1>2, <2>1, Joined, Zenon
    <3> QED
      BY <3>1 DEF Associate
  <2> QED
    BY <2>2 DEF y
<1>8. (a \o b) \o x = a \o (b \o x)
  <2>1. Associate(a, b, x)
    BY <1>1, <1>2, Joined, Zenon
  <2> QED
    BY <2>1 DEF Associate
<1>9. Unread' = Unread
  BY <1>3, <1>5, <1>7, <1>8, Zenon
<1> QED
  BY <1>2, <1>4, <1>6, <1>9, Zenon

\* Writing moves them to the wire.
LEMMA WritesOn ==
  ASSUME Writing, Reading, request.form # <<>>, WritePayload
  PROVE  wire' \in Seq(Byte) /\ Coming' = Coming /\ Unread' = Unread
<1> DEFINE p == Payload
           x == Unsent'
<1>1. request' = request /\ NextPayload /\ wire' = wire \o p /\ pending_data' = pending_data
  BY DEF WritePayload, requestVars
<1>2. p \in Seq(Byte) /\ x \in Seq(Byte) /\ Unsent = p \o x
  BY <1>1, PayloadIsNext
<1>3. wire \in Seq(Byte)
  BY ReadingForm
<1>4. Coming' = (wire \o p) \o x /\ Coming = wire \o (p \o x)
  BY <1>1, <1>2, Zenon DEF Coming
<1> HIDE DEF p, x
<1>5. (wire \o p) \o x = wire \o (p \o x)
  <2>1. Associate(wire, p, x)
    BY <1>2, <1>3, Joined, Zenon
  <2> QED
    BY <2>1 DEF Associate
<1>6. Coming' = Coming
  BY <1>4, <1>5, Zenon
<1>7. wire \o p \in Seq(Byte)
  BY <1>2, <1>3, ConcatProperties
<1> QED
  BY <1>1, <1>6, <1>7, Zenon DEF Unread

\* The parser consumes from the pending data.
LEMMA Consumes ==
  ASSUME Writing, Reading, request.form # <<>>, NEW n \in 0..Len(pending_data),
         pending_data' = Erase(pending_data, n), UNCHANGED <<formVars, request, wire>>
  PROVE  /\ wire' \in Seq(Byte) /\ pending_data' \in Seq(Byte)
         /\ Unread' = Erase(Unread, n)
<1>1. wire \in Seq(Byte) /\ pending_data \in Seq(Byte) /\ IsJoined(Byte, pending_data, Coming, Unread)
  BY ReadingForm, Zenon
<1>2. Erase(pending_data, n) \in Seq(Byte)
  BY <1>1, Erased
<1>3. Coming' = Coming
  BY DEF Coming, Unsent, formVars
<1>4. Unread' = Erase(pending_data, n) \o Coming
  BY <1>3, Zenon DEF Unread
<1>5. Erase(Unread, n) = Erase(pending_data, n) \o Coming
  BY <1>1, Zenon DEF IsJoined
<1> QED
  BY <1>1, <1>2, <1>4, <1>5, Zenon

-----------------------------------------------------------------------------
(* The steps of the client, and those that read *)

\* The position stays when all that it speaks of does.
LEMMA PositionKept ==
  ASSUME Position, Unread' = Unread, UNCHANGED <<request, step, part, form_parts>>,
         \/ pc' # "part_headers" /\ off' = 0
         \/ UNCHANGED <<pc, off, pending_data>>
  PROVE  Position'
BY DEF Position, Saved

\* What is complete, or has a part that is refused, stays so.
LEMMA CompleteKept ==
  ASSUME UNCHANGED <<request, form_parts, body, stream>>
  PROVE  (Complete => Complete') /\ (BadPart => BadPart')
BY DEF Complete, Saved, BadPart

LEMMA WritingReads ==
  ASSUME Writing, Reading, WritePayload
  PROVE  Reading'
<1> SUFFICES ASSUME request.form # <<>>, request' = request PROVE Reading'
  BY DEF WritePayload, requestVars, Reading
<1>1. wire' \in Seq(Byte) /\ Coming' = Coming /\ Unread' = Unread
  BY WritesOn
<1>2. UNCHANGED <<stream, pc, off, pending_data, step, part, form_parts, body>>
  BY DEF WritePayload, requestVars, stepVars
<1>3. pc \in {"headers", "content", "part_headers", "read"} => Position'
  BY <1>1, <1>2, PositionKept DEF Reading
<1>4. (Complete => Complete') /\ (BadPart => BadPart')
  BY <1>2, CompleteKept
<1> QED
  BY <1>1, <1>2, <1>3, <1>4 DEF Reading

LEMMA TakingReads ==
  ASSUME Writing, Reading, NEW n \in 0..Len(wire), Take(n), pc \in {"headers", "read"}
  PROVE  Reading'
<1> SUFFICES ASSUME request.form # <<>>, request' = request PROVE Reading'
  BY DEF Take, Reading
<1>1. wire' \in Seq(Byte) /\ pending_data' \in Seq(Byte) /\ Unread' = Unread
  BY TakesOver
<1>2. pc' = "content"
  BY ReadingForm DEF Take
<1>3. Position /\ off' = 0
  BY DEF Reading, Position, Take
<1>4. Position'
  BY <1>1, <1>2, <1>3, PositionKept DEF Take, stepVars
<1> QED
  BY <1>1, <1>2, <1>4 DEF Reading

\* The first boundary.
LEMMA FirstText ==
  ASSUME NEW form \in Seq(PartType), Len(form) # 0, NEW s \in Seq(Byte),
         NEW u \in Seq(Byte), Begins(s, u), u = TextOf(form)[1]
  PROVE  LET m == Len(BoundaryLine)
         IN  /\ m + 2 <= Len(u)
             /\ HasLine(s) <=> m + 2 <= Len(s)
             /\ HasLine(s) => LineOf(s) = BoundaryLine
             /\ Erase(u, m + 2) = Prepare(form[1]) \o TextOf(form)[2]
<1> DEFINE line == BoundaryLine
           m == Len(line)
<1>1. /\ HasLineOf(u, 0, m) /\ \A i \in 1..m : u[i] = line[i]
      /\ m + 2 <= Len(u) /\ Erase(u, m + 2) = Prepare(form[1]) \o TextOf(form)[2]
  <2>1. 0 \in 0..Len(form) /\ 0 + 1 = 1 /\ 0 + 2 = 2
    OBVIOUS
  <2>2. LineAfter(form, 0) = line /\ More(form, 0) = Prepare(form[1]) \o TextOf(form)[2]
    <3>1. 0 # Len(form)
      OBVIOUS
    <3> QED
      BY <2>1, <3>1, Zenon DEF LineAfter, More
  <2> QED
    BY <2>1, <2>2, LineAfterText
<1>2. line \in Seq(Byte) /\ m \in Nat
  BY BoundaryBytes
<1> HIDE DEF line
<1>3. Erase(s, 0) = s
  BY DEF Erase
<1>4. /\ HasLine(s) <=> m + 2 <= Len(s)
      /\ HasLine(s) => /\ LineOf(s) \in Seq(Byte) /\ Len(LineOf(s)) = m
                       /\ \A i \in 1..m : LineOf(s)[i] = u[i]
  <2>1. 0 \in 0..Len(s) /\ 0 + m + 2 = m + 2 /\ \A i \in 1..m : 0 + i = i
    BY <1>2
  <2>2. /\ HasLine(Erase(s, 0)) <=> 0 + m + 2 <= Len(s)
        /\ HasLine(Erase(s, 0)) =>
             /\ LineOf(Erase(s, 0)) \in Seq(Byte) /\ Len(LineOf(Erase(s, 0))) = m
             /\ \A i \in 1..m : LineOf(Erase(s, 0))[i] = u[0 + i]
    BY <1>1, <1>2, <2>1, LineThere
  <2> QED
    BY <1>3, <2>1, <2>2
<1>5. HasLine(s) => LineOf(s) = line
  BY <1>1, <1>2, <1>4, SameSequence
<1> QED
  BY <1>1, <1>4, <1>5 DEF line

\* Where the empty line after the headers of a part begins.
HeadEnd(p) == IF p.typed THEN 6 ELSE 3

\* The line of a part header.
LEMMA HeadersText ==
  ASSUME NEW form \in Seq(PartType), NEW k \in 1..Len(form), NEW s \in Seq(Byte),
         Begins(s, Prepare(form[k]) \o TextOf(form)[k + 1]),
         NEW o \in 0..Len(s), o \in (IF form[k].typed THEN {0, 3, 6} ELSE {0, 3})
  PROVE  LET p == form[k]
             u == Prepare(p) \o TextOf(form)[k + 1]
             r == Erase(s, o)
         IN  /\ ~HasLine(r) => s # u
             /\ HasLine(r) /\ o # HeadEnd(p) =>
                  /\ Len(LineOf(r)) = 1 /\ o + 3 <= Len(s)
                  /\ LineOf(r)[1] = IF o = 0 THEN p.name ELSE "Type"
             /\ HasLine(r) /\ o = HeadEnd(p) => LineOf(r) = <<>> /\ o + 2 <= Len(s)
             /\ Erase(u, HeadEnd(p) + 2) = (Load(p).data \o CRLF) \o TextOf(form)[k + 1]
<1> DEFINE p == form[k]
           u == Prepare(p) \o TextOf(form)[k + 1]
           r == Erase(s, o)
           n == IF o = HeadEnd(p) THEN 0 ELSE 1
           v == (Load(p).data \o CRLF) \o TextOf(form)[k + 1]
<1>1. p.typed \in BOOLEAN
  <2>1. p \in PartType
    OBVIOUS
  <2> HIDE DEF p
  <2> QED
    BY <2>1 DEF PartType
<1>2. /\ HasLineOf(u, 0, 1) /\ u[1] = p.name
      /\ p.typed => HasLineOf(u, 3, 1) /\ u[4] = "Type" /\ HasLineOf(u, 6, 0)
      /\ ~p.typed => HasLineOf(u, 3, 0)
      /\ Erase(u, IF p.typed THEN 8 ELSE 5) = v
      /\ u \in Seq(Byte) /\ Begins(s, u)
  BY HeadersThenData
<1> HIDE DEF p, u, v
<1>3. /\ HasLineOf(u, o, n) /\ n \in {0, 1}
      /\ n = 1 => u[o + 1] = IF o = 0 THEN p.name ELSE "Type"
  <2>1. o \in (IF p.typed THEN {0, 3, 6} ELSE {0, 3})
    BY DEF p
  <2>2. n = IF o = HeadEnd(p) THEN 0 ELSE 1
    OBVIOUS
  <2> HIDE DEF n
  <2>3. CASE p.typed
    <3>1. o \in {0, 3, 6} /\ HeadEnd(p) = 6
      BY <2>1, <2>3 DEF HeadEnd
    <3>2. 0 + 1 = 1 /\ 3 + 1 = 4
      OBVIOUS
    <3>3. CASE o = 0
      BY <1>2, <2>2, <3>1, <3>2, <3>3
    <3>4. CASE o = 3
      BY <1>2, <2>2, <2>3, <3>1, <3>2, <3>4
    <3>5. CASE o = 6
      BY <1>2, <2>2, <2>3, <3>1, <3>5
    <3> QED
      BY <3>1, <3>3, <3>4, <3>5
  <2>4. CASE ~p.typed
    <3>1. o \in {0, 3} /\ HeadEnd(p) = 3 /\ 0 + 1 = 1
      BY <2>1, <2>4 DEF HeadEnd
    <3>2. CASE o = 0
      BY <1>2, <2>2, <3>1, <3>2
    <3>3. CASE o = 3
      BY <1>2, <2>2, <2>4, <3>1, <3>3
    <3> QED
      BY <3>1, <3>2, <3>3
  <2> QED
    BY <2>3, <2>4
<1>4. Erase(u, HeadEnd(p) + 2) = v
  <2>1. HeadEnd(p) + 2 = IF p.typed THEN 8 ELSE 5
    BY DEF HeadEnd
  <2> QED
    BY <1>2, <2>1
<1>5. n = IF o = HeadEnd(p) THEN 0 ELSE 1
  OBVIOUS
<1> HIDE DEF n
<1>6. n \in Nat
  BY <1>3
<1>7. /\ HasLine(r) <=> o + n + 2 <= Len(s)
      /\ HasLine(r) => /\ LineOf(r) \in Seq(Byte) /\ Len(LineOf(r)) = n
                       /\ \A i \in 1..n : LineOf(r)[i] = u[o + i]
  <2>1. /\ HasLine(Erase(s, o)) <=> o + n + 2 <= Len(s)
        /\ HasLine(Erase(s, o)) =>
             /\ LineOf(Erase(s, o)) \in Seq(Byte) /\ Len(LineOf(Erase(s, o))) = n
             /\ \A i \in 1..n : LineOf(Erase(s, o))[i] = u[o + i]
    BY <1>2, <1>3, <1>6, LineThere
  <2> QED
    BY <2>1, Zenon DEF r
<1>8. o + n + 2 <= Len(u)
  BY <1>3 DEF HasLineOf
<1> HIDE DEF r
<1>9. ~HasLine(r) => s # u
  BY <1>7, <1>8
<1>10. ASSUME HasLine(r), o # HeadEnd(p)
       PROVE  /\ Len(LineOf(r)) = 1 /\ o + 3 <= Len(s)
              /\ LineOf(r)[1] = IF o = 0 THEN p.name ELSE "Type"
  <2>1. n = 1
    BY <1>5, <1>10
  <2>2. 1 \in 1..n /\ o + n + 2 = o + 3
    BY <2>1
  <2> QED
    BY <1>3, <1>7, <1>10, <2>1, <2>2
<1>11. ASSUME HasLine(r), o = HeadEnd(p) PROVE LineOf(r) = <<>> /\ o + 2 <= Len(s)
  <2>1. n = 0
    BY <1>5, <1>11
  <2>2. o + n + 2 = o + 2
    BY <2>1
  <2> QED
    BY <1>7, <1>11, <2>1, <2>2
<1> QED
  BY <1>4, <1>9, <1>10, <1>11 DEF p, u, r, v

\* Somewhere in a form, there is something to be read.
LEMMA NotAtTheEnd ==
  ASSUME Writing, Reading, request.form # <<>>, Position
  PROVE  Unread # <<>>
<1> DEFINE form == request.form
           k == Len(form_parts) + 1
<1>1. /\ form \in Seq(PartType) /\ Len(form) \in Nat \ {0} /\ Unread \in Seq(Byte)
      /\ Begins(pending_data, Unread) /\ pending_data \in Seq(Byte)
  BY ReadingForm, Zenon DEF IsJoined
<1>2. /\ k \in 1..Len(form) /\ step \in {"kStart", "kBoundaryParsed", "kHeadersParsed"}
      /\ step = "kStart" => Unread = TextOf(form)[1]
      /\ step = "kBoundaryParsed" => Unread = Prepare(form[k]) \o TextOf(form)[k + 1]
      /\ step = "kHeadersParsed" =>
           Unread = (Load(form[k]).data \o CRLF) \o TextOf(form)[k + 1]
  BY Zenon DEF Position
<1> HIDE DEF form, k
<1> SUFFICES Len(Unread) > 0
  BY <1>1
<1>3. CASE step = "kStart"
  <2>1. Len(BoundaryLine) + 2 <= Len(Unread)
    BY <1>1, <1>2, <1>3, FirstText
  <2> QED
    BY <1>1, <2>1, BoundaryBytes
<1>4. CASE step = "kBoundaryParsed"
  <2>1. HasLineOf(Unread, 0, 1)
    BY <1>1, <1>2, <1>4, HeadersThenData
  <2> QED
    BY <1>1, <2>1 DEF HasLineOf
<1>5. CASE step = "kHeadersParsed"
  <2>1. /\ Load(form[k]).data \in Seq(Byte)
        /\ DataThen(Unread, Load(form[k]).data, LineAfter(form, k))
    BY <1>1, <1>2, <1>5, DataThenLine
  <2>2. Len(LineAfter(form, k)) \in Nat
    BY <1>1, <1>2, TextAfter
  <2> QED
    BY <1>1, <2>1, <2>2 DEF DataThen
<1> QED
  BY <1>2, <1>3, <1>4, <1>5

-----------------------------------------------------------------------------
(* The steps of Parse() *)

\* Parse() returns for more data only if more is coming.
LEMMA ReturningReads ==
  ASSUME Writing, Reading, request.form # <<>>, Position, pending_data # Unread,
         pc' = "read", off' = 0,
         UNCHANGED <<formVars, request, wire, pending_data, step, part, form_parts>>
  PROVE  Reading'
<1>1. Coming' = Coming /\ Unread' = Unread
  BY DEF Coming, Unread, Unsent, formVars
<1>2. Coming # <<>> /\ wire \in Seq(Byte) /\ pending_data \in Seq(Byte)
  BY ReadingForm
<1>3. Position'
  BY <1>1, PositionKept
<1> QED
  BY <1>1, <1>2, <1>3 DEF Reading

LEMMA EndOfDataReads ==
  ASSUME Writing, Reading, EndOfData
  PROVE  Reading'
<1> SUFFICES ASSUME request.form # <<>> PROVE Reading'
  BY DEF EndOfData, requestVars, Reading
<1>1. Position /\ pc = "content" /\ pending_data = <<>>
  BY DEF EndOfData, Reading
<1>2. pc' = "read"
  BY <1>1 DEF EndOfData, Position
<1>3. pending_data # Unread
  BY <1>1, NotAtTheEnd
<1>4. /\ off' = 0
      /\ UNCHANGED <<formVars, request, wire, pending_data, step, part, form_parts>>
  BY <1>1 DEF EndOfData, requestVars, stepVars, Position
<1> QED
  BY <1>1, <1>2, <1>3, <1>4, ReturningReads

LEMMA FirstBoundaryReads ==
  ASSUME Writing, Reading, FirstBoundary
  PROVE  Reading'
<1> SUFFICES ASSUME request.form # <<>> PROVE Reading'
  BY DEF FirstBoundary, requestVars, Reading
<1> DEFINE form == request.form
           m == Len(BoundaryLine)
<1>1. Position /\ pc = "content" /\ step = "kStart"
  BY DEF FirstBoundary, Reading
<1>2. Unread = TextOf(form)[1] /\ Len(form_parts) + 1 = 1 /\ Saved(0) /\ off = 0
  <2>1. /\ Unread = TextOf(form)[1] /\ Len(form_parts) + 1 = 1 /\ off = 0
        /\ Saved(Len(form_parts) + 1 - 1)
    BY <1>1 DEF Position
  <2> QED
    BY <2>1
<1>3. /\ form \in Seq(PartType) /\ Len(form) \in Nat \ {0} /\ Unread \in Seq(Byte)
      /\ pending_data \in Seq(Byte) /\ Begins(pending_data, Unread)
  BY ReadingForm, Zenon DEF IsJoined
<1>4. UNCHANGED <<formVars, request, wire, off, part, form_parts, stream, body>>
  BY DEF FirstBoundary, requestVars
<1> HIDE DEF form
<1>5. /\ m + 2 <= Len(Unread)
      /\ HasLine(pending_data) <=> m + 2 <= Len(pending_data)
      /\ HasLine(pending_data) => LineOf(pending_data) = BoundaryLine
      /\ Erase(Unread, m + 2) = Prepare(form[1]) \o TextOf(form)[2]
  BY <1>2, <1>3, FirstText
<1>6. CASE HasLine(pending_data)
  <2>1. LineOf(pending_data) = BoundaryLine
    BY <1>5, <1>6
  <2>2. /\ pending_data' = Erase(pending_data, m + 2)
        /\ step' = "kBoundaryParsed" /\ pc' = "content"
    BY <1>1, <1>6, <2>1, BoundaryBytes DEF FirstBoundary, AfterLine
  <2>3. m + 2 \in 0..Len(pending_data)
    BY <1>3, <1>5, <1>6, BoundaryBytes
  <2> DEFINE n == m + 2
  <2> HIDE DEF n
  <2>4. /\ wire' \in Seq(Byte) /\ pending_data' \in Seq(Byte)
        /\ Unread' = Erase(Unread, n)
    BY <1>4, <2>2, <2>3, Consumes DEF n
  <2>5. Unread' = Prepare(form[1]) \o TextOf(form)[2]
    BY <1>5, <2>4 DEF n
  <2>6. Position'
    <3>1. (Len(form_parts) + 1)' = 1 /\ (Len(form_parts) + 1)' + 1 = 2
          /\ (Len(form_parts) + 1)' - 1 = 0
      BY <1>2, <1>4
    <3>2. Saved(0)'
      BY <1>2, <1>4 DEF Saved
    <3>3. 1 \in 1..Len(form) /\ form' = form
      BY <1>3, <1>4 DEF form
    <3> QED
      BY <1>2, <1>4, <2>2, <2>5, <3>1, <3>2, <3>3 DEF Position, form
  <2> QED
    BY <2>2, <2>4, <2>6 DEF Reading
<1>7. CASE ~HasLine(pending_data)
  <2>1. pc' = "read" /\ UNCHANGED <<pending_data, step>>
    BY <1>7 DEF FirstBoundary
  <2>2. pending_data # Unread
    BY <1>5, <1>7
  <2> QED
    BY <1>1, <1>2, <1>4, <2>1, <2>2, ReturningReads
<1> QED
  BY <1>6, <1>7

LEMMA BeginPartReads ==
  ASSUME Writing, Reading, BeginPart
  PROVE  Reading'
<1> SUFFICES ASSUME request.form # <<>> PROVE Reading'
  BY DEF BeginPart, requestVars, Reading
<1>1. Position /\ pc = "content" /\ step = "kBoundaryParsed" /\ off = 0
  BY DEF BeginPart, Reading, Position
<1>2. /\ pc' = "part_headers"
      /\ UNCHANGED <<formVars, request, wire, pending_data, off, step, form_parts>>
  BY DEF BeginPart, requestVars
<1>3. Unread' = Unread
  BY <1>2 DEF Coming, Unread, Unsent, formVars
<1>4. wire \in Seq(Byte) /\ pending_data \in Seq(Byte)
  BY ReadingForm
<1>5. 0 <= Len(pending_data)
  BY <1>4
<1>6. Position'
  BY <1>1, <1>2, <1>3, <1>5 DEF Position, Saved
<1> QED
  BY <1>2, <1>4, <1>6 DEF Reading

\* In the headers of part k.
LEMMA AtHeaders ==
  ASSUME Writing, Reading, request.form # <<>>, pc = "part_headers"
  PROVE  LET form == request.form
             k == Len(form_parts) + 1
             p == form[k]
             r == Erase(pending_data, off)
         IN  /\ Position /\ step = "kBoundaryParsed" /\ k \in 1..Len(form) /\ Saved(k - 1)
             /\ Unread = Prepare(p) \o TextOf(form)[k + 1]
             /\ p \in PartType /\ p.name \in Names /\ p.typed \in BOOLEAN
             /\ off \in (IF p.typed THEN {0, 3, 6} ELSE {0, 3}) /\ off <= Len(pending_data)
             /\ off # 0 => part = p.name
             /\ wire \in Seq(Byte) /\ pending_data \in Seq(Byte) /\ form \in Seq(PartType)
             /\ ~HasLine(r) => pending_data # Unread
             /\ HasLine(r) /\ off # HeadEnd(p) =>
                  /\ Len(LineOf(r)) = 1 /\ off + 3 <= Len(pending_data)
                  /\ LineOf(r)[1] = IF off = 0 THEN p.name ELSE "Type"
             /\ HasLine(r) /\ off = HeadEnd(p) =>
                  LineOf(r) = <<>> /\ off + 2 <= Len(pending_data)
             /\ Erase(Unread, HeadEnd(p) + 2) = (Load(p).data \o CRLF) \o TextOf(form)[k + 1]
<1> DEFINE form == request.form
           k == Len(form_parts) + 1
           p == form[k]
<1>1. /\ Position /\ step = "kBoundaryParsed" /\ k \in 1..Len(form) /\ Saved(k - 1)
      /\ Unread = Prepare(p) \o TextOf(form)[k + 1]
      /\ off \in (IF p.typed THEN {0, 3, 6} ELSE {0, 3}) /\ off <= Len(pending_data)
      /\ off # 0 => part = p.name
  <2>1. Position
    BY DEF Reading
  <2> QED
    BY <2>1, Zenon DEF Position
<1>2. /\ form \in Seq(PartType) /\ wire \in Seq(Byte) /\ pending_data \in Seq(Byte)
      /\ Begins(pending_data, Unread)
  BY ReadingForm, Zenon DEF IsJoined
<1>3. p \in PartType /\ p.name \in Names /\ p.typed \in BOOLEAN
  <2>1. p \in PartType
    BY <1>1, <1>2
  <2> HIDE DEF p
  <2> QED
    BY <2>1 DEF PartType
<1>4. off \in 0..Len(pending_data)
  <2>1. off \in {0, 3, 6} /\ Len(pending_data) \in Nat
    BY <1>1, <1>2
  <2> QED
    BY <1>1, <2>1
<1> HIDE DEF form, k
<1>5. Begins(pending_data, Prepare(form[k]) \o TextOf(form)[k + 1])
  BY <1>1, <1>2, Zenon
<1>6. LET r == Erase(pending_data, off)
          u == Prepare(p) \o TextOf(form)[k + 1]
      IN  /\ ~HasLine(r) => pending_data # u
          /\ HasLine(r) /\ off # HeadEnd(p) =>
               /\ Len(LineOf(r)) = 1 /\ off + 3 <= Len(pending_data)
               /\ LineOf(r)[1] = IF off = 0 THEN p.name ELSE "Type"
          /\ HasLine(r) /\ off = HeadEnd(p) =>
               LineOf(r) = <<>> /\ off + 2 <= Len(pending_data)
          /\ Erase(u, HeadEnd(p) + 2) = (Load(p).data \o CRLF) \o TextOf(form)[k + 1]
  BY <1>1, <1>2, <1>4, <1>5, HeadersText
<1> QED
  BY <1>1, <1>2, <1>3, <1>6, Zenon DEF form, k

LEMMA PartHeadersNeedMoreReads ==
  ASSUME Writing, Reading, PartHeadersNeedMore
  PROVE  Reading'
<1> SUFFICES ASSUME request.form # <<>> PROVE Reading'
  BY DEF PartHeadersNeedMore, requestVars, Reading
<1>1. pc = "part_headers" /\ ~HasLine(Erase(pending_data, off)) /\ off' = 0 /\ pc' = "read"
  BY DEF PartHeadersNeedMore
<1>2. Position /\ pending_data # Unread
  BY <1>1, AtHeaders, Zenon
<1>3. UNCHANGED <<formVars, request, wire, pending_data, step, part, form_parts>>
  BY DEF PartHeadersNeedMore, requestVars, stepVars
<1> QED
  BY <1>1, <1>2, <1>3, ReturningReads

LEMMA PartHeaderLineReads ==
  ASSUME Writing, Reading, PartHeaderLine
  PROVE  Reading'
<1> SUFFICES ASSUME request.form # <<>> PROVE Reading'
  BY DEF PartHeaderLine, requestVars, Reading
<1> DEFINE form == request.form
           k == Len(form_parts) + 1
           p == form[k]
           line == LineOf(Erase(pending_data, off))
<1>1. /\ pc = "part_headers" /\ HasLine(Erase(pending_data, off)) /\ line # <<>>
      /\ off' = off + Len(line) + 2
      /\ part' = IF ContentDispositionValid(line[1]) THEN line[1] ELSE part
      /\ pc' = IF line[1] = "Type" \/ ContentDispositionValid(line[1]) THEN pc ELSE "failed"
  BY Zenon DEF PartHeaderLine
<1>2. UNCHANGED <<formVars, request, wire, pending_data, step, form_parts, stream, body>>
  BY DEF PartHeaderLine, requestVars
<1>3. /\ Position /\ step = "kBoundaryParsed" /\ k \in 1..Len(form) /\ Saved(k - 1)
      /\ Unread = Prepare(p) \o TextOf(form)[k + 1]
      /\ p \in PartType /\ p.name \in Names /\ p.typed \in BOOLEAN
      /\ off \in (IF p.typed THEN {0, 3, 6} ELSE {0, 3}) /\ off <= Len(pending_data)
      /\ off # 0 => part = p.name
      /\ wire \in Seq(Byte) /\ pending_data \in Seq(Byte) /\ form \in Seq(PartType)
      /\ off # HeadEnd(p) =>
           /\ Len(line) = 1 /\ off + 3 <= Len(pending_data)
           /\ line[1] = IF off = 0 THEN p.name ELSE "Type"
      /\ off = HeadEnd(p) => line = <<>>
  BY <1>1, AtHeaders, Zenon
<1>4. Unread' = Unread
  BY <1>2 DEF Coming, Unread, Unsent, formVars
<1>5. "Type" \notin Names
  BY NamesAssumption
<1> HIDE DEF line
<1>6. off # HeadEnd(p)
  BY <1>1, <1>3
<1>7. off' = off + 3 /\ off + 3 <= Len(pending_data)
  <2>1. off \in Nat /\ Len(line) = 1
    BY <1>3, <1>6
  <2> QED
    BY <1>1, <1>3, <1>6, <2>1
<1>8. off' \in (IF p.typed THEN {0, 3, 6} ELSE {0, 3}) /\ off' # 0
  <2> HIDE DEF p
  <2> QED
    BY <1>3, <1>6, <1>7 DEF HeadEnd
<1>9. CASE off = 0
  <2>1. line[1] = p.name
    BY <1>3, <1>6, <1>9
  <2>2. CASE p.name \in SplitNames
    <3>1. pc' = "failed"
      BY <1>1, <1>3, <1>5, <2>1, <2>2 DEF ContentDispositionValid
    <3>2. BadPart'
      <4>1. k \in DOMAIN form
        BY <1>3
      <4>2. BadPart
        BY <2>2, <4>1, Zenon DEF BadPart
      <4> QED
        BY <1>2, <4>2, Zenon DEF BadPart
    <3> QED
      BY <1>2, <1>3, <3>1, <3>2 DEF Reading
  <2>3. CASE p.name \notin SplitNames
    <3>1. pc' = "part_headers" /\ part' = p.name
      BY <1>1, <1>3, <2>1, <2>3 DEF ContentDispositionValid
    <3>2. Position'
      BY <1>2, <1>3, <1>4, <1>7, <1>8, <3>1 DEF Position, Saved
    <3> QED
      BY <1>2, <1>3, <3>1, <3>2 DEF Reading
  <2> QED
    BY <2>2, <2>3
<1>10. CASE off # 0
  <2>1. line[1] = "Type"
    BY <1>3, <1>6, <1>10
  <2>2. pc' = "part_headers" /\ part' = p.name
    BY <1>1, <1>3, <1>5, <1>10, <2>1 DEF ContentDispositionValid
  <2>3. Position'
    BY <1>2, <1>3, <1>4, <1>7, <1>8, <2>2 DEF Position, Saved
  <2> QED
    BY <1>2, <1>3, <2>2, <2>3 DEF Reading
<1> QED
  BY <1>9, <1>10

LEMMA PartHeadersEndReads ==
  ASSUME Writing, Reading, PartHeadersEnd
  PROVE  Reading'
<1> SUFFICES ASSUME request.form # <<>> PROVE Reading'
  BY DEF PartHeadersEnd, requestVars, Reading
<1> DEFINE form == request.form
           k == Len(form_parts) + 1
           p == form[k]
           line == LineOf(Erase(pending_data, off))
           n == off + 2
<1>1. /\ pc = "part_headers" /\ HasLine(Erase(pending_data, off)) /\ line = <<>>
      /\ pending_data' = Erase(pending_data, n) /\ off' = 0
      /\ step' = "kHeadersParsed" /\ pc' = "content"
  BY Zenon DEF PartHeadersEnd
<1>2. UNCHANGED <<formVars, request, wire, part, form_parts, stream, body>>
  BY DEF PartHeadersEnd, requestVars
<1>3. /\ k \in 1..Len(form) /\ Saved(k - 1)
      /\ off \in (IF p.typed THEN {0, 3, 6} ELSE {0, 3})
      /\ off # 0 => part = p.name
      /\ pending_data \in Seq(Byte)
      /\ off # HeadEnd(p) => Len(line) = 1
      /\ off = HeadEnd(p) => off + 2 <= Len(pending_data)
      /\ Erase(Unread, HeadEnd(p) + 2) = (Load(p).data \o CRLF) \o TextOf(form)[k + 1]
  BY <1>1, AtHeaders, Zenon
<1>4. off = HeadEnd(p)
  <2>1. Len(line) # 1
    <3> HIDE DEF line
    <3> QED
      BY <1>1
  <2> QED
    BY <1>3, <2>1
<1>5. off # 0 /\ off \in Nat
  BY <1>4 DEF HeadEnd
<1>6. n \in 0..Len(pending_data)
  <2>1. off + 2 <= Len(pending_data)
    BY <1>3, <1>4, Zenon
  <2>2. Len(pending_data) \in Nat
    BY <1>3, LenProperties, Zenon
  <2> QED
    BY <1>5, <2>1, <2>2
<1> HIDE DEF n
<1>7. wire' \in Seq(Byte) /\ pending_data' \in Seq(Byte) /\ Unread' = Erase(Unread, n)
  <2>1. pending_data' = Erase(pending_data, n) /\ UNCHANGED <<formVars, request, wire>>
    BY <1>1, <1>2, Zenon
  <2> QED
    BY <1>6, <2>1, Consumes, Zenon
<1>8. Unread' = (Load(p).data \o CRLF) \o TextOf(form)[k + 1]
  BY <1>3, <1>4, <1>7 DEF n
<1>9. Position'
  BY <1>1, <1>2, <1>3, <1>5, <1>8 DEF Position, Saved
<1> QED
  BY <1>1, <1>7, <1>9 DEF Reading

\* In the data of part k.
LEMMA AtData ==
  ASSUME Writing, Reading, request.form # <<>>, pc = "content", step = "kHeadersParsed",
         NEW k, k = Len(form_parts) + 1
  PROVE  LET form == request.form
             data == Load(form[k]).data
             line == LineAfter(form, k)
             P == Len(data) + 3
             found == BoundaryLines(pending_data)
         IN  /\ Position /\ k \in 1..Len(form) /\ Saved(k - 1) /\ part = form[k].name /\ off = 0
             /\ form \in Seq(PartType) /\ wire \in Seq(Byte) /\ pending_data \in Seq(Byte)
             /\ data \in Seq(Byte) /\ Len(line) \in Nat
             /\ line = IF k = Len(form) THEN LastLine ELSE BoundaryLine
             /\ found = {} => pending_data # Unread
             /\ found # {} =>
                  /\ Min(found) = P /\ P \in LineStarts(pending_data)
                  /\ LineAt(pending_data, P) = line /\ P + Len(line) + 1 <= Len(pending_data)
                  /\ SubSeq(pending_data, 1, Len(data)) = data
             /\ \A q \in LineStarts(pending_data) : q < P =>
                  /\ q \in LineStarts(data \o CRLF)
                  /\ LineAt(pending_data, q) = LineAt(data \o CRLF, q)
             /\ Erase(Unread, P + Len(line) + 1) = More(form, k)
<1> DEFINE form == request.form
           data == Load(form[k]).data
           line == LineAfter(form, k)
           P == Len(data) + 3
           found == BoundaryLines(pending_data)
<1>1. /\ Position /\ k \in 1..Len(form) /\ Saved(k - 1) /\ part = form[k].name /\ off = 0
      /\ Unread = (data \o CRLF) \o TextOf(form)[k + 1]
  <2>1. Position /\ pc # "part_headers"
    BY DEF Reading
  <2> QED
    BY <2>1, Zenon DEF Position
<1>2. /\ form \in Seq(PartType) /\ wire \in Seq(Byte) /\ pending_data \in Seq(Byte)
      /\ Begins(pending_data, Unread) /\ form \in Forms
  BY ReadingForm, Zenon DEF IsJoined
<1>3. BoundaryLines(data \o CRLF) = {}
  <2>1. k \in DOMAIN form
    <3>1. DOMAIN form = 1..Len(form)
      BY <1>2, LenProperties, Zenon
    <3> QED
      BY <1>1, <3>1, Zenon
  <2> QED
    BY <1>2, <2>1, DataAssumption, Zenon
<1>4. k \in 0..Len(form)
  <2>1. k \in 1..Len(form)
    BY <1>1, Zenon
  <2>2. Len(form) \in Nat
    BY <1>2, LenProperties, Zenon
  <2> HIDE DEF form
  <2> QED
    BY <2>1, <2>2
<1> HIDE DEF form
<1>5. line \in {BoundaryLine, LastLine} /\ line \in Seq(Byte)
  BY <1>2, <1>4, TextAfter
<1>6. /\ Unread \in Seq(Byte) /\ data \in Seq(Byte) /\ DataThen(Unread, data, line)
      /\ SubSeq(Unread, 1, Len(data)) = data
      /\ Erase(Unread, Len(data) + 2 + Len(line) + 2) = More(form, k)
  BY <1>1, <1>2, DataThenLine
<1>7. line = IF k = Len(form) THEN LastLine ELSE BoundaryLine
  BY DEF LineAfter
<1> HIDE DEF data, line
<1>8. /\ found = {} => pending_data # Unread
      /\ found # {} => /\ Min(found) = P /\ P \in LineStarts(pending_data)
                       /\ LineAt(pending_data, P) = line
                       /\ P + Len(line) + 1 <= Len(pending_data)
      /\ \A q \in LineStarts(pending_data) : q < P =>
           /\ q \in LineStarts(data \o CRLF)
           /\ LineAt(pending_data, q) = LineAt(data \o CRLF, q)
  <2>1. /\ data \in Seq(Byte) /\ line \in {BoundaryLine, LastLine}
        /\ Unread \in Seq(Byte) /\ pending_data \in Seq(Byte)
        /\ DataThen(Unread, data, line) /\ Begins(pending_data, Unread)
    BY <1>2, <1>5, <1>6
  <2> DEFINE u == Unread
             s == pending_data
  <2> HIDE DEF u, s
  <2>2. /\ u \in Seq(Byte) /\ s \in Seq(Byte) /\ DataThen(u, data, line) /\ Begins(s, u)
    BY <2>1 DEF u, s
  <2>3. /\ BoundaryLines(s) = {} => s # u
        /\ BoundaryLines(s) # {} =>
             /\ Min(BoundaryLines(s)) = P /\ P \in LineStarts(s)
             /\ LineAt(s, P) = line /\ P + Len(line) + 1 <= Len(s)
        /\ \A q \in LineStarts(s) : q < P =>
             q \in LineStarts(data \o CRLF) /\ LineAt(s, q) = LineAt(data \o CRLF, q)
    BY <1>3, <2>1, <2>2, BoundaryFound
  <2> QED
    BY <2>3 DEF u, s
<1>9. Len(line) \in Nat /\ Len(data) \in Nat
  BY <1>5, <1>6
<1> HIDE DEF found
<1>10. ASSUME found # {} PROVE SubSeq(pending_data, 1, Len(data)) = data
  <2> DEFINE w == SubSeq(pending_data, 1, Len(data))
             D == Len(data)
  <2>1. D \in 0..Len(pending_data)
    BY <1>2, <1>8, <1>9, <1>10
  <2>2. D \in 0..Len(Unread) /\ \A i \in 1..D : pending_data[i] = Unread[i]
    BY <1>2, <1>6, <2>1 DEF Begins
  <2>3. w \in Seq(Byte) /\ Len(w) = D /\ \A i \in 1..D : w[i] = pending_data[i]
    BY <1>2, <2>1, Erased
  <2>4. \A i \in 1..D : SubSeq(Unread, 1, D)[i] = Unread[i]
    BY <1>6, <2>2, Erased
  <2>5. \A i \in 1..D : data[i] = Unread[i]
    BY <1>6, <2>4
  <2> HIDE DEF w
  <2>6. w = data
    BY <1>6, <2>2, <2>3, <2>5, SameSequence
  <2> QED
    BY <2>6 DEF w
<1>11. Erase(Unread, P + Len(line) + 1) = More(form, k)
  <2>1. P + Len(line) + 1 = Len(data) + 2 + Len(line) + 2
    BY <1>9
  <2> QED
    BY <1>6, <2>1
<1> QED
  BY <1>1, <1>2, <1>6, <1>7, <1>8, <1>9, <1>10, <1>11, Zenon DEF form, data, line, found

LEMMA AwaitBoundaryReads ==
  ASSUME Writing, Reading, AwaitBoundary
  PROVE  Reading'
<1> SUFFICES ASSUME request.form # <<>> PROVE Reading'
  BY DEF AwaitBoundary, requestVars, Reading
<1>1. /\ pc = "content" /\ step = "kHeadersParsed" /\ BoundaryLines(pending_data) = {}
      /\ pc' = "read" /\ off' = off
  BY DEF AwaitBoundary
<1>2. Position /\ pending_data # Unread /\ off = 0
  BY <1>1, AtData, Zenon
<1>3. UNCHANGED <<formVars, request, wire, pending_data, step, part, form_parts>>
  BY DEF AwaitBoundary, requestVars, stepVars
<1> QED
  BY <1>1, <1>2, <1>3, ReturningReads

\* A part that is appended to those that were saved.
LEMMA OneMoreSaved ==
  ASSUME request.form \in Seq(PartType), NEW k \in 1..Len(request.form), Saved(k - 1),
         Load(request.form[k]).data \in Seq(Byte),
         form_parts' = Append(form_parts, [name |-> request.form[k].name,
                                           data |-> Load(request.form[k]).data]),
         request' = request
  PROVE  Saved(k)'
<1> DEFINE form == request.form
           x == [name |-> form[k].name, data |-> Load(form[k]).data]
           S == [name : Names, data : Seq(Byte)]
           a == Append(form_parts, x)
<1>1. x \in S
  <2>1. form[k] \in PartType
    OBVIOUS
  <2>2. form[k].name \in Names
    BY <2>1, Zenon DEF PartType
  <2> QED
    BY <2>2
<1>2. /\ form_parts \in Seq(S) /\ Len(form_parts) = k - 1
      /\ \A i \in 1..(k - 1) : form_parts[i] = [name |-> form[i].name, data |-> Load(form[i]).data]
  BY Zenon DEF Saved
<1>3. form_parts' = a /\ form' = form
  OBVIOUS
<1>4. x = [name |-> form[k].name, data |-> Load(form[k]).data]
  OBVIOUS
<1> HIDE DEF x, S
<1>5. /\ a \in Seq(S) /\ Len(a) = Len(form_parts) + 1 /\ a[Len(form_parts) + 1] = x
      /\ \A i \in 1..Len(form_parts) : a[i] = form_parts[i]
  BY <1>1, <1>2, AppendProperties
<1> HIDE DEF a, form
<1>6. Len(a) = k /\ a[k] = x /\ k - 1 + 1 = k
  BY <1>2, <1>5
<1>7. ASSUME NEW i \in 1..k
      PROVE  a[i] = [name |-> form[i].name, data |-> Load(form[i]).data]
  <2>1. CASE i = k
    BY <1>4, <1>6, <2>1
  <2>2. CASE i # k
    <3>1. i \in 1..(k - 1)
      BY <2>2
    <3> QED
      BY <1>2, <1>5, <3>1
  <2> QED
    BY <2>1, <2>2
<1> QED
  BY <1>3, <1>5, <1>6, <1>7, Zenon DEF Saved, S, form

LEMMA EndPartReads ==
  ASSUME Writing, Reading, EndPart
  PROVE  Reading'
<1> SUFFICES ASSUME request.form # <<>> PROVE Reading'
  BY DEF EndPart, requestVars, Reading
<1>0. PICK k : k = Len(form_parts) + 1
  OBVIOUS
<1> DEFINE form == request.form
           data == Load(form[k]).data
           line == LineAfter(form, k)
           D == Len(data)
           P == D + 3
           n == P + Len(line) + 1
           found == BoundaryLines(pending_data)
           ended == \E q \in LineStarts(pending_data) :
                      q <= P /\ SetsEnd(LineAt(pending_data, q))
<1>1. pc = "content" /\ step = "kHeadersParsed" /\ found # {} /\ DataEnds(Min(found))
  BY DEF EndPart
<1>2. UNCHANGED <<formVars, request, stream, wire, off>>
  BY DEF EndPart, requestVars
<1>3. /\ k \in 1..Len(form) /\ Saved(k - 1) /\ part = form[k].name /\ off = 0
      /\ form \in Seq(PartType) /\ wire \in Seq(Byte) /\ pending_data \in Seq(Byte)
      /\ data \in Seq(Byte) /\ Len(line) \in Nat
      /\ line = IF k = Len(form) THEN LastLine ELSE BoundaryLine
      /\ Min(found) = P /\ P \in LineStarts(pending_data)
      /\ LineAt(pending_data, P) = line /\ n <= Len(pending_data)
      /\ SubSeq(pending_data, 1, Len(data)) = data
      /\ \A q \in LineStarts(pending_data) : q < P =>
           /\ q \in LineStarts(data \o CRLF)
           /\ LineAt(pending_data, q) = LineAt(data \o CRLF, q)
      /\ Erase(Unread, n) = More(form, k)
  BY <1>0, <1>1, AtData, Zenon
<1>4. D \in Nat /\ P - 1 = D + 2 /\ P - 3 = D /\ n \in 0..Len(pending_data)
  <2>1. D \in Nat /\ Len(line) \in Nat /\ Len(pending_data) \in Nat
    BY <1>3
  <2>2. n <= Len(pending_data)
    BY <1>3
  <2> HIDE DEF D, line
  <2> QED
    BY <2>1, <2>2
<1>5. DataEnds(P)
  BY <1>1, <1>3, Zenon
<1>6. CASE D = 0
  <2>1. ~(P - 1 > 2)
    BY <1>4, <1>6
  <2>2. pc' = "failed" /\ pending_data' = pending_data
    BY <1>5, <2>1, Zenon DEF DataEnds
  <2>3. BadPart'
    <3>1. k \in DOMAIN form
      BY <1>3
    <3>2. data = <<>>
      <4> HIDE DEF data
      <4> QED
        BY <1>3, <1>6
    <3>3. BadPart
      BY <3>1, <3>2, Zenon DEF BadPart
    <3> QED
      BY <1>2, <3>3, Zenon DEF BadPart
  <2> QED
    BY <1>2, <1>3, <2>2, <2>3 DEF Reading
<1>7. CASE D # 0
  <2>1. P - 1 > 2
    BY <1>4, <1>7
  <2>2. SavePart(P, P - 3, "kBoundaryParsed")
    BY <1>5, <2>1, Zenon DEF DataEnds
  <2>3. /\ pending_data' = Erase(pending_data, P + Len(LineAt(pending_data, P)) + 1)
        /\ form_parts' = Append(form_parts,
                                [name |-> part, data |-> SubSeq(pending_data, 1, P - 3)])
        /\ step' = IF ended THEN "kEnded" ELSE "kBoundaryParsed"
        /\ part' = NoPart
        /\ IF ended THEN Finish ELSE UNCHANGED <<pc, body>>
    BY <2>2, Zenon DEF SavePart
  <2>4. /\ pending_data' = Erase(pending_data, n)
        /\ form_parts' = Append(form_parts, [name |-> form[k].name, data |-> data])
    <3>1. SubSeq(pending_data, 1, P - 3) = data
      BY <1>3, <1>4, Zenon
    <3> QED
      BY <1>3, <2>3, <3>1, Zenon
  <2>5. wire' \in Seq(Byte) /\ pending_data' \in Seq(Byte) /\ Unread' = More(form, k)
    <3> DEFINE m == n
    <3> HIDE DEF m
    <3>1. m \in 0..Len(pending_data) /\ pending_data' = Erase(pending_data, m)
          /\ Erase(Unread, m) = More(form, k)
      BY <1>3, <1>4, <2>4 DEF m
    <3>2. wire' \in Seq(Byte) /\ pending_data' \in Seq(Byte) /\ Unread' = Erase(Unread, m)
      BY <1>2, <3>1, Consumes
    <3> QED
      BY <3>1, <3>2, Zenon
  <2>6. Saved(k)'
    BY <1>2, <1>3, <2>4, OneMoreSaved
  <2>7. CASE ended
    <3>1. pc' = "finished" /\ body' = IF stream' THEN "file" ELSE "form"
      BY <1>2, <2>3, <2>7, Zenon DEF Finish
    <3>2. CASE k = Len(form)
      <4>1. Saved(Len(form))'
        BY <1>2, <2>6, <3>2
      <4>2. Complete'
        BY <3>1, <4>1, Zenon DEF Complete
      <4> QED
        BY <2>5, <3>1, <4>2 DEF Reading
    <3>3. CASE k # Len(form)
      <4>1. PICK q \in LineStarts(pending_data) :
              q <= P /\ SetsEnd(LineAt(pending_data, q))
        BY <2>7
      <4>2. q # P
        BY <1>3, <3>3, <4>1, BoundaryBytes
      <4>3. q < P
        <5>1. q \in Nat
          <6>1. pending_data \in Seq(Byte)
            BY <1>3, Zenon
          <6> QED
            BY <4>1, <6>1, StartsAreNumbers, Zenon
        <5> QED
          BY <1>4, <4>1, <4>2, <5>1
      <4>4. q \in LineStarts(data \o CRLF) /\ SetsEnd(LineAt(data \o CRLF, q))
        BY <1>3, <4>1, <4>3
      <4>5. LooksLast(form, k) /\ k \in 1..(Len(form) - 1)
        BY <1>3, <3>3, <4>4 DEF LooksLast
      <4>6. Complete'
        BY <1>2, <4>5 DEF Complete
      <4> QED
        BY <2>5, <3>1, <4>6 DEF Reading
    <3> QED
      BY <3>2, <3>3
  <2>8. CASE ~ended
    <3>1. step' = "kBoundaryParsed" /\ pc' = "content"
      BY <1>1, <2>3, <2>8, Zenon
    <3>2. k # Len(form)
      <4> SUFFICES ASSUME k = Len(form) PROVE FALSE
        OBVIOUS
      <4>1. SetsEnd(LineAt(pending_data, P)) /\ P <= P
        BY <1>3, <1>4, BoundaryBytes
      <4> QED
        BY <1>3, <2>8, <4>1, Zenon
    <3>3. Unread' = Prepare(form[k + 1]) \o TextOf(form)[k + 2]
      BY <2>5, <3>2, Zenon DEF More
    <3>4. Len(form_parts') = k
      BY <2>6 DEF Saved
    <3>5. k + 1 \in 1..Len(form) /\ k + 1 - 1 = k /\ k + 1 + 1 = k + 2
      <4>1. k \in 1..Len(form)
        BY <1>3, Zenon
      <4>2. Len(form) \in Nat
        BY <1>3, LenProperties, Zenon
      <4> HIDE DEF form
      <4> QED
        BY <3>2, <4>1, <4>2
    <3>6. Position'
      <4> DEFINE F == request'.form
                 K == Len(form_parts') + 1
      <4>1. F = form /\ K = k + 1 /\ K - 1 = k /\ K + 1 = k + 2
        BY <1>2, <3>4, <3>5
      <4>2. K \in 1..Len(F)
        BY <3>5, <4>1, Zenon
      <4>3. Saved(Len(form_parts) + 1 - 1)'
        BY <2>6, <4>1
      <4>4. Prepare(F[K]) = Prepare(form[k + 1]) /\ TextOf(F)[K + 1] = TextOf(form)[k + 2]
        BY <4>1, Zenon
      <4>5. Unread' = Prepare(F[K]) \o TextOf(F)[K + 1]
        BY <3>3, <4>4, Zenon
      <4>6. off' = 0
        BY <1>2, <1>3
      <4> QED
        BY <3>1, <4>2, <4>3, <4>5, <4>6 DEF Position
    <3> QED
      BY <2>5, <3>1, <3>6 DEF Reading
  <2> QED
    BY <2>7, <2>8
<1> QED
  BY <1>6, <1>7

-----------------------------------------------------------------------------
(* What is proved of the parser *)

\* A request of which nothing was written, with a new parser.
New ==
  /\ request \in Requests /\ parts = request.form /\ index = 0 /\ wire = request.bytes
  /\ pc = "headers" /\ pending_data = <<>> /\ off = 0
  /\ step = "kStart" /\ part = NoPart /\ form_parts = <<>>

\* This parser is at the beginning of the form.
LEMMA NewReads == New => Reading
<1> USE DEF New
<1> SUFFICES ASSUME New, request.form # <<>> PROVE Reading
  BY DEF Reading
<1> DEFINE form == request.form
           t == TextOf(form)[1]
<1>1. /\ form \in Seq(PartType) /\ Len(form) \in Nat \ {0} /\ request.bytes = <<>>
  BY TwoKinds
<1>2. t \in Seq(Byte)
  <2>1. 0 \in 0..Len(form) /\ 0 + 1 = 1
    BY <1>1
  <2> QED
    BY <1>1, <2>1, TextAfter
<1>3. Unsent = t
  BY <1>1 DEF Unsent
<1> HIDE DEF t
<1>4. Unread = t
  <2>1. <<>> \o t = t /\ <<>> \o (<<>> \o t) = t
    BY <1>2, ConcatEmptySeq
  <2> QED
    BY <1>1, <1>3, <2>1, Zenon DEF Unread, Coming
<1>5. Saved(0)
  BY DEF Saved
<1>6. Position
  <2>1. Len(form_parts) + 1 = 1 /\ Len(form_parts) + 1 - 1 = 0 /\ 1 \in 1..Len(form)
    BY <1>1
  <2> QED
    BY <1>4, <1>5, <2>1 DEF Position, t
<1>7. wire \in Seq(Byte) /\ pending_data \in Seq(Byte)
  BY <1>1
<1> QED
  BY <1>6, <1>7 DEF Reading

\* The parser is where the text says it is, for all ways to split it, if each request
\* has a connection, and so a parser, of its own.
LEMMA ReadingCorrect ==
  ASSUME KeepAlive \subseteq {FALSE}
  PROVE  Spec => [](Writing /\ Reading)
<1>0. (New => Reading)'
  BY NewReads, PTL
<1>1. Init => Reading
  BY NewReads DEF Init, New
<1>2. Writing /\ Reading /\ [Next]_vars => Reading'
  <2> SUFFICES ASSUME Writing, Reading, [Next]_vars PROVE Reading'
    OBVIOUS
  <2>1. CASE NextRequest
    <3>1. New'
      BY <2>1 DEF NextRequest, ParserInit, New
    <3> QED
      BY <1>0, <3>1
  <2>2. CASE WritePayload
    BY <2>2, WritingReads
  <2>3. CASE Refuse
    <3>1. pc' = "refused" /\ UNCHANGED <<request, wire, pending_data>>
      BY <2>3 DEF Refuse, requestVars
    <3> QED
      BY <3>1 DEF Reading
  <2>4. CASE \E n \in 0..Len(wire) : HeadersEnd(n)
    BY <2>4, TakingReads DEF HeadersEnd
  <2>5. CASE \E n \in 1..Len(wire) : Read(n)
    <3>1. PICK n \in 1..Len(wire) : Read(n)
      BY <2>5
    <3>2. request.form # <<>> => n \in 0..Len(wire)
      OBVIOUS
    <3>3. request.form = <<>> => request'.form = <<>>
      BY <3>1 DEF Read, Take
    <3> QED
      BY <3>1, <3>2, <3>3, TakingReads DEF Read, Reading
  <2>6. CASE ParseMultipartContent
    BY <2>6, EndOfDataReads, FirstBoundaryReads, BeginPartReads, PartHeadersNeedMoreReads,
       PartHeaderLineReads, PartHeadersEndReads, AwaitBoundaryReads, EndPartReads
       DEF ParseMultipartContent
  <2>7. CASE HandleRequest
    <3>1. pc' = "handled" /\ UNCHANGED <<request, wire, pending_data>>
      BY <2>7 DEF HandleRequest
    <3> QED
      BY <3>1 DEF Reading
  <2>8. CASE UNCHANGED vars
    <3>1. /\ UNCHANGED <<request, wire, stream, pc, off, pending_data, step, part, form_parts, body>>
          /\ Coming' = Coming /\ Unread' = Unread
      BY <2>8 DEF vars, requestVars, stepVars, formVars, Unread, Coming, Unsent
    <3>2. Position => Position'
      BY <3>1, PositionKept
    <3>3. (Complete => Complete') /\ (BadPart => BadPart')
      BY <3>1, CompleteKept
    <3> QED
      BY <3>1, <3>2, <3>3 DEF Reading
  <2> QED
    BY <2>1, <2>2, <2>3, <2>4, <2>5, <2>6, <2>7, <2>8 DEF Next
<1> QED
  BY <1>1, <1>2, WritingCorrect, PTL DEF Spec

\* For all forms, all boundaries and all ways to split what is sent: a form that is
\* finished has the parts that the client sent, with their names and their data
\* (ParseMultipartContent() in request_parser.cc), but for lines like the last one.
THEOREM TheFormIsTheClients ==
  ASSUME KeepAlive \subseteq {FALSE}
  PROVE  Spec => []FormIsFaithful
<1>1. Reading /\ Writing => FormIsFaithful
  <2> SUFFICES ASSUME Reading, Writing, pc = "finished", request.form # <<>>, ~stream,
                      \A i \in 1..(Len(request.form) - 1) : ~LooksLast(request.form, i)
               PROVE  /\ body = "form"
                      /\ form_parts = [i \in DOMAIN request.form |->
                                         [name |-> request.form[i].name,
                                          data |-> Load(request.form[i]).data]]
    BY DEF FormIsFaithful
  <2>1. Saved(Len(request.form)) /\ body = "form"
    BY DEF Reading, Complete
  <2>2. request.form \in Seq(PartType)
    BY ReadingForm
  <2> DEFINE L == Len(request.form)
             S == [name : Names, data : Seq(Byte)]
             f == [i \in DOMAIN request.form |->
                     [name |-> request.form[i].name, data |-> Load(request.form[i]).data]]
  <2>3. /\ form_parts \in Seq(S) /\ Len(form_parts) = L
        /\ \A i \in 1..L : form_parts[i] = [name |-> request.form[i].name,
                                            data |-> Load(request.form[i]).data]
    BY <2>1, Zenon DEF Saved
  <2>4. DOMAIN request.form = 1..L
    BY <2>2
  <2>5. f = [i \in 1..L |-> form_parts[i]]
    BY <2>3, <2>4
  <2> HIDE DEF S, L
  <2>6. form_parts = [i \in 1..L |-> form_parts[i]]
    BY <2>3
  <2> QED
    BY <2>1, <2>5, <2>6
<1> QED
  BY <1>1, ReadingCorrect, PTL

\* A form is rejected only for a part that is empty or has a name with a semicolon:
\* no way to split it is a reason (the boundaries and headers in request_parser.cc).
THEOREM NoGoodFormIsRejected ==
  ASSUME KeepAlive \subseteq {FALSE}
  PROVE  Spec => []GoodFormIsParsed
<1>1. Reading => GoodFormIsParsed
  BY DEF Reading, BadPart, GoodFormIsParsed
<1> QED
  BY <1>1, ReadingCorrect, PTL

\* Parse() returns for more data only if the client has more to send, or has sent
\* what was not read yet: the two do not wait for each other.
THEOREM NoneWaitsForBoth ==
  ASSUME KeepAlive \subseteq {FALSE}
  PROVE  Spec => []WaitsOnlyForData
<1>1. Reading /\ Writing => WaitsOnlyForData
  <2> SUFFICES ASSUME Reading, Writing, pc = "read", request.form # <<>>, index > Len(parts)
               PROVE  wire # <<>>
    BY DEF WaitsOnlyForData
  <2>1. Unsent = <<>>
    BY DEF Unsent, Writing
  <2>2. Coming # <<>> /\ wire \in Seq(Byte)
    BY DEF Reading
  <2> QED
    BY <2>1, <2>2, ConcatEmptySeq DEF Coming
<1> QED
  BY <1>1, ReadingCorrect, PTL

=============================================================================
