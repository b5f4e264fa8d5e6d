------------------------------- MODULE Exchange -------------------------------
(***************************************************************************)
(* One request and its response, from the calls of an application that     *)
(* builds the request to the view that reads it and back: RequestBuilder,  *)
(* ClientSession::Send(), Request::Prepare(), the server's parser, the     *)
(* view with its ResponseBuilder, Connection::SendResponse(), and the      *)
(* client's parser.  How messages are split into reads is in Parser, which *)
(* view is found in Router, how forms are cut into parts in FormBody.  No  *)
(* application says "Transfer-Encoding: chunked" of content that the       *)
(* library does not cut into chunks; Parser has messages that are chunked. *)
(***************************************************************************)
EXTENDS Message, Url, Base64

CONSTANTS
  Urls,      \* requests: session, method, text of the URL, and what the text means
  Pieces,    \* arguments of Path()
  Params,    \* arguments of Query()
  Bodies,    \* arguments of Body()
  TheFile,   \* what is in the file that is sent
  Fields,    \* arguments of Header()
  Logins,    \* arguments of AuthBasic()
  Codes,     \* arguments of Code()
  MaxCalls   \* bound: calls of the two builders

\* What an application sets itself: a length is a number, and content is not chunked.
OwnFields(fields) ==
  \A f \in fields :
    /\ iequals(f[1], "Content-Length") => \E n \in 0..MaxLength : f[2] = <<ToString(n)>>
    /\ iequals(f[1], "Transfer-Encoding") => f[2] # <<"chunked">>

ASSUME ExchangeAssumption ==
  /\ \A u \in Urls :
       /\ DOMAIN u = {"session", "method", "text", "encode", "segments", "params"}
       /\ u.session.headers \in Seq(Range(u.session.headers))
       /\ SetFields(<<>>, u.session.headers, FALSE) = u.session.headers
       /\ u.session.media_type \in Seq(STRING) /\ u.session.charset \in Seq(STRING)
       /\ OwnFields(Range(u.session.headers))
  /\ OwnFields(Fields)
  /\ \A k, l \in {"Authorization", "Connection", "Content-Encoding", "Content-Length",
                  "Content-Type", "Host", "Server"} : iequals(k, l) => k = l
  /\ ~iequals("Close", "Keep-Alive")
  /\ \A f \in Fields :
       iequals(f[1], "Content-Encoding") => f[2] \notin {<<"gzip">>, <<"deflate">>}
  /\ Logins \subseteq Seq(0..255) \X Seq(0..255)
  /\ Bodies \subseteq Seq(STRING) /\ TheFile \in Seq(STRING) /\ MaxCalls \in Nat

VARIABLES
  pc,        \* how far the exchange is
  calls,     \* how many calls the builders had
  session,   \* the ClientSession
  builder,   \* the RequestBuilder
  asked,     \* what the application has asked the builder for
  request,   \* the Request at the client
  seen,      \* the Request at the server
  answer,    \* the ResponseBuilder
  response,  \* the Response at the server
  got,       \* the Response at the client
  files,     \* temporary files that exist
  open       \* the ends of the connection that are kept open

clientVars == <<session, builder, asked, request>>
serverVars == <<seen, answer, response>>
vars == <<pc, calls, clientVars, serverVars, got, files, open>>

kSpace == 32
kHead == <<72, 69, 65, 68>>
kHttp11 == <<72, 84, 84, 80, 47, 49, 46, 49>>

\* In the start line of a response.
Blank == " "

Nothing == [outcome |-> "none", body |-> NoBody]

-----------------------------------------------------------------------------
(* ClientSession *)

InitHeaders ==
  << <<"User-Agent", <<"Webcc">> >>, <<"Accept-Encoding", <<"gzip", ",", "deflate">> >>,
     <<"Accept", <<"*/*">> >>, <<"Connection", <<"Keep-Alive">> >> >>

NewSession == [headers |-> InitHeaders, media_type |-> <<>>, charset |-> <<>>]

\* The type and the credentials: login and password, with a colon between.
BasicCredentials(login, password) ==
  <<"Basic", Base64Encode(login \o <<Colon>> \o password)>>

SessionAuthBasic(s, login, password) ==
  [s EXCEPT !.headers = SetHeader(@, "Authorization", BasicCredentials(login, password))]

-----------------------------------------------------------------------------
(* RequestBuilder: Get(), Post() and so on, and then other calls *)

Init ==
  /\ pc = "build" /\ calls = 0
  /\ \E u \in Urls :
       /\ session = u.session
       /\ builder = [method |-> u.method, url |-> NewUrl(u.text, u.encode), body |-> NoBody,
                     media_type |-> <<>>, charset |-> <<>>, form_parts |-> <<>>,
                     headers |-> <<>>, keep_alive |-> TRUE, gzip |-> FALSE]
       /\ asked = [segments |-> u.segments, params |-> u.params, data |-> <<>>,
                   headers |-> <<>>, login |-> <<>>]
  /\ request = Nothing /\ seen = Nothing /\ response = Nothing /\ got = Nothing
  /\ answer = [code |-> 200, body |-> NoBody, media_type |-> <<>>,
               charset |-> <<>>, headers |-> <<>>, gzip |-> FALSE]
  /\ files = {} /\ open = {}

Call(b, a) ==
  /\ pc = "build" /\ calls < MaxCalls
  /\ calls' = calls + 1 /\ builder' = b /\ asked' = a
  /\ UNCHANGED <<pc, session, request, serverVars, got, files, open>>

Segments(path) == SelectSeq(split(path, Slash, FALSE), LAMBDA s : s # <<>>)

Port(port) == Call([builder EXCEPT !.url.port = port], asked)

Path(piece, encode) ==
  Call([builder EXCEPT !.url = AppendPath(@, piece, encode)],
       [asked EXCEPT !.segments = @ \o Segments(IF encode THEN piece ELSE DecodeUnsafe(piece))])

Query(key, value, encode) ==
  Call([builder EXCEPT !.url = AppendQuery(@, key, value, encode)],
       [asked EXCEPT !.params =
          Append(@, IF encode THEN <<key, value>> ELSE <<DecodeUnsafe(key), DecodeUnsafe(value)>>)])

MediaType(media_type) == Call([builder EXCEPT !.media_type = media_type], asked)
Charset(charset) == Call([builder EXCEPT !.charset = charset], asked)

Body(data) ==
  Call([builder EXCEPT !.body = StringBody(data, FALSE)], [asked EXCEPT !.data = data])

\* File(), which infers the media type.
File ==
  Call([builder EXCEPT !.body = FileBody(TheFile), !.media_type = <<FromExtension(".jpg")>>],
       [asked EXCEPT !.data = TheFile])

\* FormData() and FormFile().
Form(part) == Call([builder EXCEPT !.form_parts = Append(@, part)], asked)

\* Header(), which may replace credentials.
Header(key, value) ==
  Call([builder EXCEPT !.headers = Append(@, <<key, value>>)],
       [asked EXCEPT !.headers = Append(@, <<key, value>>),
                     !.login = IF iequals(key, "Authorization") /\ value # <<>> THEN <<>> ELSE @])

Date == Header("Date", <<"now">>)

KeepAlive(keep_alive) == Call([builder EXCEPT !.keep_alive = keep_alive], asked)

AuthBasic(login, password) ==
  Call([builder EXCEPT !.headers =
          Append(@, <<"Authorization", BasicCredentials(login, password)>>)],
       [asked EXCEPT !.login = <<login, password>>])

Gzip == Call([builder EXCEPT !.gzip = TRUE], asked)

BuilderCall ==
  \/ Port(<<56, 48>>)
  \/ \E p \in Pieces : Path(p.text, p.encode)
  \/ \E p \in Params : Query(p.key, p.value, p.encode)
  \/ MediaType(<<"application/json">>) \/ Charset(<<"utf-8">>)
  \/ \E data \in Bodies : Body(data)
  \/ File \/ Form("part")
  \/ \E f \in Fields : Header(f[1], f[2])
  \/ Date \/ KeepAlive(FALSE) \/ Gzip
  \/ \E l \in Logins : AuthBasic(l[1], l[2])

\* Both builders set the headers they were given, one after the other.
SetAll(fields) == SetFields(<<>>, fields, FALSE)

\* Seeded bug: compressed content is not marked.
BodyHeadersUnmarked(headers, b, compress) ==
  SetContentType(headers, b.media_type, b.charset)

\* The headers that both builders set for a body, which is compressed or not.
BodyHeaders(headers, b, compress) ==
  LET typed == SetContentType(headers, b.media_type, b.charset)
  IN  IF compress THEN SetHeader(typed, "Content-Encoding", <<"gzip">>) ELSE typed

\* operator(): a body takes precedence over a form.
Built(b) ==
  LET given == SetAll(b.headers)
      headers == IF b.keep_alive THEN given ELSE SetHeader(given, "Connection", <<"Close">>)
      compress == b.gzip /\ CanCompressBody(b.body)
      empty == [outcome |-> "built", method |-> b.method, url |-> b.url,
                start_line |-> <<>>, headers |-> headers, body |-> EmptyBody]
  IN  IF b.body.kind # "none"
      THEN SetBody([empty EXCEPT !.headers = BodyHeaders(@, b, compress)],
                   IF compress THEN CompressBody(b.body) ELSE b.body)
      ELSE IF b.form_parts # <<>>
           THEN SetBody([empty EXCEPT !.headers =
                           SetHeader(@, "Content-Type",
                                     <<"multipart/form-data", ";", "boundary", "=", "30 chars">>)],
                        FormBody(b.form_parts))
           ELSE empty

Build ==
  /\ pc = "build"
  /\ request' = Built(builder)
  /\ pc' = "built"
  /\ UNCHANGED <<calls, session, builder, asked, serverVars, got, files, open>>

-----------------------------------------------------------------------------
(* ClientSession::Send() and Request::Prepare() *)

\* Seeded bug: what the session has replaces what the request has.
WithDefaultsOverriding(s, r) ==
  [r EXCEPT !.headers = SetFields(@, s.headers, FALSE)]

\* Headers of the session, and its content type, unless the request has them.
WithDefaults(s, r) ==
  LET headers == SetFields(r.headers, s.headers, TRUE)
  IN  [r EXCEPT !.headers =
         IF GetSize(r.body) # 0 /\ s.media_type # <<>> /\ ~HasHeader(headers, "Content-Type")
         THEN SetContentType(headers, s.media_type, s.charset) ELSE headers]

\* Prepare(), unless the host is missing.
PrepareRequest(r) ==
  LET target == r.url.path \o (IF r.url.query = <<>> THEN <<>> ELSE <<Question>> \o r.url.query)
      host == r.url.host \o (IF r.url.port = <<>> THEN <<>> ELSE <<Colon>> \o r.url.port)
  IN  [r EXCEPT !.start_line = r.method \o <<kSpace>> \o target \o <<kSpace>> \o kHttp11,
                !.headers = SetHeader(@, "Host", <<host>>)]

\* A file that cannot be opened any more is an error, too.
Send ==
  /\ pc = "built"
  /\ \/ /\ request.url.host # <<>>
        /\ request' = PrepareRequest(WithDefaults(session, request))
        /\ pc' = "sent"
     \/ /\ request.url.host = <<>> \/ request.body.kind = "file"
        /\ request' = WithDefaults(session, request)
        /\ pc' = "threw"
  /\ UNCHANGED <<calls, session, builder, asked, serverVars, got, files, open>>

-----------------------------------------------------------------------------
(* The server *)

\* RequestParser::ParseStartLine(): three words, of which the version is ignored.
StartLineValid(line) == Len(split(line, kSpace, TRUE)) = 3

\* All of the request is read.  If the view has asked for it, the content goes to
\* a temporary file, which the body of the request owns; the file may not open when
\* the headers have ended.  As long as content is missing, the server reads on.
ParseRequest(stream) ==
  /\ pc = "sent"
  /\ LET written == Written(request)
         strs == split(written.start_line, kSpace, TRUE)
         parsed == Received(written, TRUE, stream, FALSE)
         valid == StartLineValid(written.start_line) /\ parsed.outcome # "failed"
     IN  \/ /\ valid /\ parsed.outcome = "finished"
            /\ seen' = [outcome |-> "finished", method |-> strs[1], url |-> NewUrl(strs[2], FALSE),
                        headers |-> parsed.headers, body |-> parsed.body,
                        unread |-> parsed.unread, stream |-> stream]
            /\ pc' = "handle"
            /\ files' = IF stream THEN {"request"} ELSE {}
         \/ /\ valid => stream
            /\ seen' = [Nothing EXCEPT !.outcome = IF valid THEN "no file" ELSE "failed"]
            /\ pc' = "refused"
            /\ UNCHANGED files
  /\ UNCHANGED <<calls, clientVars, answer, response, got, open>>

\* The connection is lost before all of the content has come, which may be less than
\* its length says: the body handler is destroyed with its parser, the file it has
\* opened stays.
BreakOff(message, is_request, file, ignore_body) ==
  /\ \/ Written(message).content # <<>>
     \/ Received(Written(message), is_request, FALSE, ignore_body).outcome = "waiting"
  /\ \E stream \in BOOLEAN : files' = files \cup (IF stream THEN {file} ELSE {})
  /\ pc' = "lost"
  /\ UNCHANGED <<calls, clientVars, serverVars, got, open>>

BreakOffRequest ==
  /\ pc = "sent" /\ StartLineValid(request.start_line)
  /\ BreakOff(request, TRUE, "request", FALSE)

\* The calls of a view to its ResponseBuilder.
Answer(a) ==
  /\ pc = "handle" /\ calls < MaxCalls
  /\ calls' = calls + 1 /\ answer' = a
  /\ UNCHANGED <<pc, clientVars, seen, response, got, files, open>>

AnswerCall ==
  \/ \E code \in Codes : Answer([answer EXCEPT !.code = code])
  \/ Answer([answer EXCEPT !.media_type = <<"application/json">>, !.charset = <<"utf-8">>])
  \/ \E data \in Bodies : Answer([answer EXCEPT !.body = StringBody(data, FALSE)])
  \/ Answer([answer EXCEPT !.body = FileBody(TheFile), !.media_type = <<FromExtension(".jpg")>>])
  \/ \E f \in Fields : Answer([answer EXCEPT !.headers = Append(@, f)])
  \/ Answer([answer EXCEPT !.gzip = TRUE])

\* operator() of ResponseBuilder, which knows the request or not.
BuiltResponse(a, known, request_headers) ==
  LET compress == a.gzip /\ known /\ AcceptEncodingGzip(request_headers) /\ CanCompressBody(a.body)
      empty == [outcome |-> "built", status |-> a.code, start_line |-> <<>>,
                headers |-> SetAll(a.headers), body |-> EmptyBody]
  IN  IF a.body.kind = "none" THEN SetBody(empty, EmptyBody)
      ELSE SetBody([empty EXCEPT !.headers = BodyHeaders(@, a, compress)],
                   IF compress THEN CompressBody(a.body) ELSE a.body)

kTable ==
  [status \in {200, 201, 202, 204, 304, 400, 404, 500, 501, 503} |->
     CASE status = 200 -> <<"OK">> [] status = 201 -> <<"Created">>
       [] status = 202 -> <<"Accepted">> [] status = 204 -> <<"No", Blank, "Content">>
       [] status = 304 -> <<"Not", Blank, "Modified">> [] status = 400 -> <<"Bad", Blank, "Request">>
       [] status = 404 -> <<"Not", Blank, "Found">>
       [] status = 500 -> <<"Internal", Blank, "Server", Blank, "Error">>
       [] status = 501 -> <<"Not", Blank, "Implemented">>
       [] status = 503 -> <<"Service", Blank, "Unavailable">>]

\* Code() takes one of them, and a number is told from its digits.
ASSUME StatusAssumption ==
  /\ Codes \subseteq DOMAIN kTable
  /\ \A s, t \in DOMAIN kTable : ToString(s) # Blank /\ (ToString(s) = ToString(t) => s = t)

\* Prepare() of Response.
PrepareResponse(r) ==
  [r EXCEPT !.start_line = <<"HTTP/1.1", Blank, ToString(r.status), Blank>> \o kTable[r.status],
            !.headers = SetHeader(@, "Server", <<"Webcc">>)]

\* Seeded bug: what the view has said of the connection is left.
SendResponsePolite(r, keep) ==
  PrepareResponse([r EXCEPT !.headers =
    IF HasHeader(@, "Connection") THEN @
    ELSE SetHeader(@, "Connection", IF keep THEN <<"Keep-Alive">> ELSE <<"Close">>)])

\* SendResponse() says whether the connection is kept, whatever the view has said.
SendResponse(r, keep) ==
  PrepareResponse([r EXCEPT !.headers =
    SetHeader(@, "Connection", IF keep THEN <<"Keep-Alive">> ELSE <<"Close">>)])

\* The response is written, and the server reads on or closes; or a file cannot be
\* opened, and the exception ends the server.
Respond ==
  /\ pc = "handle"
  /\ LET keep == IsConnectionKeepAlive(seen.headers)
     IN  /\ \E known \in BOOLEAN :
              response' = SendResponse(BuiltResponse(answer, known, seen.headers), keep)
         /\ \/ pc' = "responded" /\ open' = IF keep THEN {"server"} ELSE {}
            \/ response'.body.kind = "file" /\ pc' = "crashed" /\ UNCHANGED open
  /\ UNCHANGED <<calls, clientVars, seen, answer, got, files>>

\* Bad Request, and the connection is closed, perhaps before it is written.
RespondBadRequest ==
  /\ pc = "refused"
  /\ response' = SendResponse(SetBody([outcome |-> "built", status |-> 400, start_line |-> <<>>,
                                       headers |-> <<>>, body |-> EmptyBody], EmptyBody), FALSE)
  /\ pc' \in {"responded", "lost"}
  /\ UNCHANGED <<calls, clientVars, seen, answer, got, files, open>>

-----------------------------------------------------------------------------
(* The client *)

\* SplitStartLine(): two words, and what follows the spaces after them.
SplitStartLine(line) ==
  LET words == split(line, Blank, TRUE)
      off == 1 + Len(words[1]) + 1 + Len(words[2]) + 1
  IN  <<words[1], words[2], from(line, off)>>

\* Request() tells the parser to skip the body of an answer to HEAD.
ignroe_body(r) == r.method = kHead

BreakOffResponse ==
  pc = "responded" /\ BreakOff(response, FALSE, "response", ignroe_body(request))

\* ResponseParser::ParseStartLine(), and the rest; a temporary file as above.
ReceiveResponse(stream) ==
  /\ pc = "responded"
  /\ LET written == Written(response)
         parts == SplitStartLine(written.start_line)
         parsed == Received(written, FALSE, stream, ignroe_body(request))
     IN  \/ /\ parsed.outcome = "finished"
            /\ got' = [outcome |-> "finished",
                       status |-> CHOOSE s \in DOMAIN kTable : <<ToString(s)>> = parts[2],
                       headers |-> parsed.headers, body |-> parsed.body,
                       unread |-> parsed.unread, stream |-> stream]
            /\ open' = open \cup (IF IsConnectionKeepAlive(parsed.headers) THEN {"client"} ELSE {})
            /\ files' = IF stream THEN files \cup {"response"} ELSE files
            /\ pc' = "done"
         \/ /\ parsed.outcome = "failed" \/ stream
            /\ pc' = "failed"
            /\ UNCHANGED <<got, open, files>>
  /\ UNCHANGED <<calls, clientVars, serverVars>>

-----------------------------------------------------------------------------
(* Files that were streamed *)

\* Move(): the file is the application's now, and the body has none.
Move(file) == file \in files /\ files' = files \ {file}

\* Seeded bug: the body leaves its file.
DropKeepsFile(file) == UNCHANGED files

\* ~FileBody(): the body removes the file that was not moved.
Drop(file) == files' = files \ {file}

MoveRequestFile ==
  /\ pc \in {"handle", "responded", "done"} /\ seen.body.kind = "file"
  /\ Move("request")
  /\ UNCHANGED <<pc, calls, clientVars, serverVars, got, open>>
MoveResponseFile ==
  /\ got.body.kind = "file"
  /\ Move("response")
  /\ UNCHANGED <<pc, calls, clientVars, serverVars, got, open>>

\* The last reference to a message goes: the server's when the response was
\* written, the client's at any time.
DropRequest ==
  /\ pc = "done" /\ seen.outcome = "finished"
  /\ Drop("request") /\ seen' = Nothing
  /\ UNCHANGED <<pc, calls, clientVars, answer, response, got, open>>
DropResponse ==
  /\ pc = "done" /\ got # Nothing
  /\ Drop("response") /\ got' = Nothing
  /\ UNCHANGED <<pc, calls, clientVars, serverVars, open>>

-----------------------------------------------------------------------------
Next ==
  \/ BuilderCall \/ Build \/ Send
  \/ \E stream \in BOOLEAN : ParseRequest(stream) \/ ReceiveResponse(stream)
  \/ AnswerCall \/ Respond \/ RespondBadRequest
  \/ BreakOffRequest \/ BreakOffResponse
  \/ MoveRequestFile \/ MoveResponseFile \/ DropRequest \/ DropResponse

Spec == Init /\ [][Next]_vars

-----------------------------------------------------------------------------
(* Properties *)

\* The target of the request says what was asked for: it has a path, no space and
\* no "://", and '&' and '=' only between parameters (they are not escaped).
Unambiguous ==
  /\ request.url.path # <<>>
  /\ \A text \in {request.url.path, request.url.query} :
       kSpace \notin Range(text) /\ find(text, <<Colon, Slash, Slash>>) = npos
  /\ \A i \in DOMAIN asked.params :
       LET p == asked.params[i]
       IN  Ampersand \notin Range(p[1]) \cup Range(p[2]) /\ Equal \notin Range(p[1])

\* What the application has given as content; a body takes precedence over a form.
Given == IF builder.body.kind # "none" THEN asked.data ELSE builder.form_parts

\* Whatever calls have built a request whose target is unambiguous, the server
\* accepts it, and its view finds the method, the segments of the path, all
\* parameters in their order, and the content, which was compressed, sent in
\* payloads and read to a string or a file in between.  Content that is compressed
\* or a form arrives only if it is not streamed, FileBodyHandler::Finish().
RequestArrives ==
  (seen.outcome \in {"finished", "failed"} /\ Unambiguous) =>
    /\ seen.outcome = "finished"
    /\ seen.method = request.method
    /\ Segments(DecodeUnsafe(seen.url.path)) = asked.segments
    /\ UrlQuery(seen.url.query) = asked.params
    /\ ~(seen.stream /\ (request.body.compressed \/ request.body.kind = "form")) =>
         seen.body.data = Given

\* What the application has asked for last, for a key of which it has given a value.
AskedAt(key) ==
  {i \in DOMAIN asked.headers : iequals(asked.headers[i][1], key) /\ asked.headers[i][2] # <<>>}
Asked(key) == asked.headers[Max(AskedAt(key))][2]

\* The library sets these headers by the URL, the content and the login.
SetByLibrary(key) ==
  \/ \E k \in {"Host", "Content-Length", "Content-Type", "Content-Encoding"} : iequals(key, k)
  \/ iequals(key, "Connection") /\ ~builder.keep_alive
  \/ iequals(key, "Authorization") /\ asked.login # <<>>

\* The application's last value of a header reaches the server, or the session's
\* if the application has none or an empty one, whatever the case of the key;
\* KeepAlive(false) has the last word on the connection; and credentials decode to
\* the login and the password and fit DecodedSize().
HeadersArrive ==
  seen.outcome = "finished" =>
    /\ \A f \in Range(asked.headers) \cup Range(session.headers) :
         ~SetByLibrary(f[1]) =>
           GetHeader(seen.headers, f[1]) =
             IF AskedAt(f[1]) # {} THEN Asked(f[1]) ELSE GetHeader(session.headers, f[1])
    /\ ~builder.keep_alive => ~IsConnectionKeepAlive(seen.headers)
    /\ asked.login # <<>> =>
         LET credentials == GetHeader(seen.headers, "Authorization")[2]
         IN  /\ Base64Decode(credentials) = asked.login[1] \o <<Colon>> \o asked.login[2]
             /\ Len(Base64Decode(credentials)) <= DecodedSize(Len(credentials))

\* The status and the content that the view has given to its ResponseBuilder reach
\* the client, through compression if both sides want it, payloads, and streaming;
\* except content of an answer to HEAD and compressed content that is streamed.
ResponseArrives ==
  got # Nothing =>
    /\ got.status = IF seen.outcome \in {"failed", "no file"} THEN 400 ELSE answer.code
    /\ IF request.method = kHead THEN got.body.data = <<>>
       ELSE IF got.stream /\ response.body.compressed
            THEN Inflated(got.body.data) = answer.body.data
            ELSE got.body.data = answer.body.data

\* Both ends decide alone whether the connection is kept, the server by the request
\* in OnWriteOK(), the client by the response: they agree, whatever the view has
\* put into its headers, and what is kept has nothing left to read, but for the
\* body that a view has given in answer to HEAD, which the client skips.
ConnectionAgreed ==
  pc = "done" =>
    /\ ("client" \in open) = ("server" \in open)
    /\ seen.outcome = "finished" => seen.unread = 0
    /\ got # Nothing /\ request.method # kHead => got.unread = 0

\* A temporary file exists only as long as a message that owns it and removes it
\* at last; but the file of a transfer that was broken off stays.
TempFileOwned ==
  pc \notin {"lost", "crashed"} =>
    /\ "request" \in files => seen.body.kind = "file"
    /\ "response" \in files => got.body.kind = "file"

=============================================================================
