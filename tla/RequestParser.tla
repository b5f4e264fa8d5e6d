----------------------------- MODULE RequestParser -----------------------------
(***************************************************************************)
(* Multipart content of requests, webcc/request_parser.cc, from a client   *)
(* that writes a form (FormBody) to the parser that reads it in pieces of  *)
(* any length.  An iteration of a loop of the code is a step here; one     *)
(* that changes nothing and goes round again is a stuttering step.         *)
(*                                                                         *)
(* The start line and the headers are in Parser: here they have been read, *)
(* and a view is looked for.  Requests that are parsed are handled.        *)
(***************************************************************************)
EXTENDS FormBody, Router

CONSTANTS
  Forms,        \* forms of webcc clients, sequences of parts
  Foreign,      \* content of other clients
  Targets,      \* the methods and paths of requests
  KeepAlive,    \* whether a next request may use the same connection
  MaxRequests   \* bound: requests, on one connection or several

\* GetSize() throws for a part with neither data nor a file.
ASSUME FormsAssumption ==
  \A f \in Forms : /\ f \in Seq(PartType) /\ f # <<>>
                   /\ \A i \in DOMAIN f : f[i].data # <<>> \/ f[i].path
ASSUME ForeignAssumption ==
  \A r \in Foreign : r.bytes \in Seq(STRING) /\ r.length \in BOOLEAN
ASSUME TargetsAssumption == Targets \subseteq [method : Methods, path : Paths]
ASSUME RequestsAssumption == KeepAlive \subseteq BOOLEAN /\ MaxRequests \in Nat
ASSUME NamesAssumption ==
  Names \subseteq STRING \ {"", "none", "Type", "CR", "LF", "-"}

VARIABLES
  request,       \* what is sent, see Requests
  count,         \* how many requests there were
  wire,          \* content sent and not read yet
  stream,        \* stream_
  answer,        \* who has answered the request
  pc,            \* where Parse() is; "read" when it has returned
  pending_data,  \* pending_data_
  off,           \* off, in ParsePartHeaders()
  step,          \* step_
  part,          \* part_: its name, or NoPart
  form_parts,    \* form_parts_
  body           \* the kind of body the request has

requestVars == <<request, count, stream, answer>>
stepVars == <<step, part, form_parts>>
vars == <<formVars, requestVars, wire, pc, pending_data, off, stepVars, body>>

NoPart == "none"

\* What a client sends to a target: a form, part by part, or foreign content at
\* once.  A valid Content-Length is parsed with the headers if it is there.
Contents ==
  {Build(f) : f \in Forms}
    \cup {[form |-> <<>>, bytes |-> r.bytes, content_length |-> Len(r.bytes),
           valid |-> r.length] : r \in Foreign}
Requests ==
  {[form |-> c.form, bytes |-> c.bytes, content_length |-> c.content_length,
    valid |-> c.valid, method |-> t.method, path |-> t.path] : c \in Contents, t \in Targets}

\* What the server makes of a part: the Content-Type of the part is not kept.
Received == [name : Names \cup {""}, data : Seq(STRING)]

TypeOK ==
  /\ parts \in Seq(PartType)
  /\ index \in Nat /\ sent \in Nat
  /\ request \in Requests
  /\ count \in 1..MaxRequests
  /\ wire \in Seq(STRING) /\ pending_data \in Seq(STRING)
  /\ stream \in BOOLEAN
  /\ pc \in {"headers", "read", "content", "part_headers", "finished", "refused",
           "failed", "handled"}
  /\ answer \in {v.name : v \in Views} \cup {"", "file", "Not Found", "Bad Request"}
  /\ off \in 0..Len(pending_data)
  /\ step \in {"kStart", "kBoundaryParsed", "kHeadersParsed", "kEnded"}
  /\ part \in Names \cup {"", NoPart}
  /\ form_parts \in Seq(Received)
  /\ body \in {"empty", "form", "file"}

-----------------------------------------------------------------------------
(* The next request *)

Init ==
  /\ request \in Requests
  /\ parts = request.form /\ index = 0 /\ sent = Len(request.bytes)
  /\ wire = request.bytes
  /\ count = 1
  /\ stream = FALSE /\ answer = ""
  /\ pc = "headers"
  /\ pending_data = <<>> /\ off = 0 /\ body = "empty"
  /\ step = "kStart" /\ part = NoPart /\ form_parts = <<>>

\* Init() on a connection that is kept, which leaves step_, part_ and form_parts_;
\* another connection has a parser of its own.
ParserInit(keep) ==
  /\ stream' = FALSE /\ answer' = ""
  /\ pc' = "headers"
  /\ pending_data' = <<>> /\ off' = 0 /\ body' = "empty"
  /\ IF keep THEN UNCHANGED stepVars
     ELSE step' = "kStart" /\ part' = NoPart /\ form_parts' = <<>>

\* The client has sent all of a request and got its answer.
NextRequest ==
  /\ pc = "handled"
  /\ index > Len(parts) /\ wire = <<>>
  /\ count < MaxRequests
  /\ count' = count + 1
  /\ request' \in Requests
  /\ parts' = request'.form /\ index' = 0 /\ sent' = Len(request'.bytes)
  /\ wire' = request'.bytes
  /\ \E keep \in KeepAlive : ParserInit(keep)

\* The client writes the next payload, an empty one at the end.
WritePayload ==
  /\ index <= Len(parts)
  /\ NextPayload
  /\ wire' = wire \o Payload
  /\ sent' = sent + Len(Payload)
  /\ UNCHANGED <<requestVars, pc, pending_data, off, stepVars, body>>

-----------------------------------------------------------------------------
(* Parse(): the end of the headers, and the content *)

\* No view matches, nor a file; or there is no temporary file to stream to.
Refuse ==
  /\ pc = "headers"
  /\ \/ \E is_file \in BOOLEAN : ~MatchViewOrStatic(request.method, request.path, is_file)
     \/ MatchStream(request.method, request.path)
  /\ pc' = "refused"
  /\ UNCHANGED <<formVars, requestVars, wire, pending_data, off, stepVars, body>>

\* ParseContent() is given the next n bytes of the content.
Take(n) ==
  /\ pending_data' = pending_data \o SubSeq(wire, 1, n)
  /\ wire' = Erase(wire, n)
  /\ pc' = IF request.valid THEN "content" ELSE "failed"
  /\ UNCHANGED <<formVars, request, count, answer, off, stepVars, body>>

\* Some of the content may have come with the headers.
HeadersEnd(n) ==
  /\ pc = "headers"
  /\ \E is_file \in BOOLEAN : MatchViewOrStatic(request.method, request.path, is_file)
  /\ stream' = MatchStream(request.method, request.path)
  /\ Take(n)

Read(n) == pc = "read" /\ Take(n) /\ UNCHANGED stream

\* The body becomes the form, and then what the body handler has: nothing, or the
\* empty file of a request that is streamed.
Finish ==
  /\ pc' = "finished"
  /\ body' = IF stream THEN "file" ELSE "form"

EndOfData ==
  /\ pc = "content"
  /\ pending_data = <<>>
  /\ IF step = "kEnded" THEN Finish ELSE pc' = "read" /\ UNCHANGED body
  /\ UNCHANGED <<formVars, requestVars, wire, pending_data, off, stepVars>>

\* Seeded bug: the last boundary is not taken for one.
IsBoundaryNotLast(line) ==
  /\ Len(line) = Len(Boundary) + 2
  /\ SubSeq(line, 1, 2) = <<"-", "-">>
  /\ SubSeq(line, 3, Len(Boundary) + 2) = Boundary

IsBoundary(line) ==
  /\ Len(line) \in {Len(Boundary) + 2, Len(Boundary) + 4}
  /\ SubSeq(line, 1, 2) = <<"-", "-">>
  /\ Len(line) = Len(Boundary) + 4 =>
       SubSeq(line, Len(line) - 1, Len(line)) = <<"-", "-">>
  /\ SubSeq(line, 3, Len(Boundary) + 2) = Boundary

\* The lines for which IsBoundary() sets *end, whatever is between the dashes.
SetsEnd(line) ==
  /\ Len(line) = Len(Boundary) + 4
  /\ SubSeq(line, 1, 2) = <<"-", "-">>
  /\ SubSeq(line, Len(line) - 1, Len(line)) = <<"-", "-">>

FirstBoundary ==
  /\ pc = "content" /\ pending_data # <<>> /\ step = "kStart"
  /\ IF HasLine(pending_data)
     THEN /\ pending_data' = AfterLine(pending_data)
          /\ IF IsBoundary(LineOf(pending_data))
             THEN step' = "kBoundaryParsed" /\ UNCHANGED pc
             ELSE pc' = "failed" /\ UNCHANGED step
     ELSE pc' = "read" /\ UNCHANGED <<pending_data, step>>
  /\ UNCHANGED <<formVars, requestVars, wire, off, part, form_parts, body>>

\* ParsePartHeaders() reads the headers of a part from the first, each time.
BeginPart ==
  /\ pc = "content" /\ pending_data # <<>> /\ step = "kBoundaryParsed"
  /\ part' = IF part = NoPart THEN "" ELSE part
  /\ pc' = "part_headers"
  /\ UNCHANGED <<formVars, requestVars, wire, pending_data, off, step, form_parts, body>>

\* ContentDisposition::Init() splits at semicolons, quoted or not: the rest of a
\* name is no key with a value.
ContentDispositionValid(text) == text \in Names \ SplitNames

PartHeadersNeedMore ==
  /\ pc = "part_headers"
  /\ ~HasLine(Erase(pending_data, off))
  /\ off' = 0
  /\ pc' = "read"
  /\ UNCHANGED <<formVars, requestVars, wire, pending_data, stepVars, body>>

\* Seeded bug: the line is read again and again.
PartHeaderLineStays ==
  /\ pc = "part_headers"
  /\ HasLine(Erase(pending_data, off))
  /\ LET line == LineOf(Erase(pending_data, off))
     IN  /\ line # <<>>
         /\ part' = IF ContentDispositionValid(line[1]) THEN line[1] ELSE part
         /\ pc' = IF line[1] = "Type" \/ ContentDispositionValid(line[1])
                  THEN pc ELSE "failed"
  /\ UNCHANGED <<formVars, requestVars, wire, pending_data, off, step, form_parts, body>>

PartHeaderLine ==
  /\ pc = "part_headers"
  /\ HasLine(Erase(pending_data, off))
  /\ LET line == LineOf(Erase(pending_data, off))
     IN  /\ line # <<>>
         /\ off' = off + Len(line) + 2
         /\ part' = IF ContentDispositionValid(line[1]) THEN line[1] ELSE part
         /\ pc' = IF line[1] = "Type" \/ ContentDispositionValid(line[1])
                  THEN pc ELSE "failed"
  /\ UNCHANGED <<formVars, requestVars, wire, pending_data, step, form_parts, body>>

PartHeadersEnd ==
  /\ pc = "part_headers"
  /\ HasLine(Erase(pending_data, off))
  /\ LineOf(Erase(pending_data, off)) = <<>>
  /\ pending_data' = Erase(pending_data, off + 2)
  /\ off' = 0
  /\ step' = "kHeadersParsed"
  /\ pc' = "content"
  /\ UNCHANGED <<formVars, requestVars, wire, part, form_parts, body>>

\* Where the complete lines of s begin, and the line that begins there.
LineStarts(s) == {p \in {1} \cup {i + 2 : i \in LineEnds(s)} : HasLine(Erase(s, p - 1))}
LineAt(s, p) == LineOf(Erase(s, p - 1))

\* GetNextBoundaryLine(): the lines that are boundaries, of which it takes the
\* first.
BoundaryLines(s) == {p \in LineStarts(s) : IsBoundary(LineAt(s, p))}

\* The boundary is 30 random characters, and on no line of the data.
ASSUME DataAssumption ==
  \A f \in Forms : \A i \in DOMAIN f : BoundaryLines(Load(f[i]).data \o CRLF) = {}

AwaitBoundary ==
  /\ pc = "content" /\ pending_data # <<>> /\ step = "kHeadersParsed"
  /\ BoundaryLines(pending_data) = {}
  /\ pc' = "read"
  /\ UNCHANGED <<formVars, requestVars, wire, pending_data, off, stepVars, body>>

\* The first n pending bytes are the data of the part that the boundary line at p
\* ends.  The content ends if any line up to it had the dashes of the last.
SavePart(p, n, next) ==
  LET ended == \E q \in LineStarts(pending_data) :
                  q <= p /\ SetsEnd(LineAt(pending_data, q))
  IN  /\ pending_data' = Erase(pending_data, p + Len(LineAt(pending_data, p)) + 1)
      /\ form_parts' = Append(form_parts,
                              [name |-> part, data |-> SubSeq(pending_data, 1, n)])
      /\ step' = IF ended THEN "kEnded" ELSE next
      /\ part' = NoPart
      /\ IF ended THEN Finish ELSE UNCHANGED <<pc, body>>

\* Seeded bug: the CRLF after the data is taken for data.
DataEndsWithLine(p) == SavePart(p, p - 1, "kBoundaryParsed")

\* Seeded bug: after a part, the first boundary is expected.
DataEndsStartOver(p) == SavePart(p, p - 3, "kStart")

\* The data ends before the CRLF before the boundary; a part without is refused.
DataEnds(p) ==
  IF p - 1 > 2 THEN SavePart(p, p - 3, "kBoundaryParsed")
  ELSE pc' = "failed" /\ UNCHANGED <<pending_data, stepVars, body>>

EndPart ==
  /\ pc = "content" /\ pending_data # <<>> /\ step = "kHeadersParsed"
  /\ BoundaryLines(pending_data) # {}
  /\ DataEnds(Min(BoundaryLines(pending_data)))
  /\ UNCHANGED <<formVars, requestVars, wire, off>>

\* A worker handles the request; a file may have come or gone since.
HandleRequest ==
  /\ pc = "finished"
  /\ \E is_file \in BOOLEAN : answer' = Handle(request.method, request.path, is_file)
  /\ pc' = "handled"
  /\ UNCHANGED <<formVars, request, count, stream, wire, pending_data, off, stepVars, body>>

ParseMultipartContent ==
  \/ EndOfData \/ FirstBoundary \/ BeginPart
  \/ PartHeadersNeedMore \/ PartHeaderLine \/ PartHeadersEnd
  \/ AwaitBoundary \/ EndPart

Next ==
  \/ NextRequest
  \/ WritePayload
  \/ Refuse
  \/ \E n \in 0..Len(wire) : HeadersEnd(n)
  \/ \E n \in 1..Len(wire) : Read(n)
  \/ ParseMultipartContent
  \/ HandleRequest

\* The thread that parses runs.
Spec == Init /\ [][Next]_vars /\ WF_vars(ParseMultipartContent)

-----------------------------------------------------------------------------
\* A line of the data of part i has the dashes of the last boundary.
LooksLast(f, i) ==
  LET data == Load(f[i]).data \o CRLF
  IN  \E p \in LineStarts(data) : SetsEnd(LineAt(data, p))

\* However the content is split, a form that is finished has the parts the client
\* sent, with their names and their data, unless a part other than the last has a
\* line like the last boundary, or the view asked for the request to be streamed.
FormIsFaithful ==
  /\ pc = "finished" /\ request.form # <<>> /\ ~stream
  /\ \A i \in 1..(Len(request.form) - 1) : ~LooksLast(request.form, i)
  => /\ body = "form"
     /\ form_parts = [i \in DOMAIN request.form |->
                        [name |-> request.form[i].name, data |-> Load(request.form[i]).data]]

\* The content of a form is rejected only if one of its parts is empty or has a name with a
\* semicolon.
GoodFormIsParsed ==
  pc = "failed" /\ request.form # <<>> =>
    \E i \in DOMAIN request.form : \/ Load(request.form[i]).data = <<>>
                                   \/ request.form[i].name \in SplitNames

\* The server does not wait for more when the client has sent all of its form, or
\* both would wait for each other.
WaitsOnlyForData == pc = "read" /\ request.form # <<>> /\ index > Len(parts) => wire # <<>>

\* The client writes as many bytes as the Content-Length it has announced,
\* although it loads and frees the data of the parts meanwhile.
LengthMatches == index > Len(parts) => sent = request.content_length

\* A request that the parser has let through is handled by a view, or as a file,
\* and it was streamed if and only if this view has asked for it.
RightView ==
  pc = "handled" => /\ answer # "Bad Request"
                    /\ \A v \in Views :
                         answer = v.name => (stream <=> request.method \in v.stream)

\* Each call of Parse() returns.
ParseReturns ==
  pc \in {"content", "part_headers"} ~> pc \in {"read", "finished", "failed"}

=============================================================================
