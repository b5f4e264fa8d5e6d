------------------------------- MODULE Message -------------------------------
(***************************************************************************)
(* Messages, webcc/message.cc, with their headers and content type         *)
(* (common.cc) and their bodies (body.cc).  A header is a pair of a key    *)
(* and a value, which is a sequence of tokens; the empty one is <<>>.      *)
(***************************************************************************)
EXTENDS Strings, Gzip, SequencesExt, TLC

CONSTANTS
  Upper(_),        \* toupper() of a token
  kGzipThreshold,  \* data is compressed if it is longer
  ChunkSize,       \* of a file that is sent piece by piece
  MaxLength        \* bound: the length of content

ASSUME MessageAssumption ==
  kGzipThreshold \in Nat /\ ChunkSize \in Nat \ {0} /\ MaxLength \in Nat

iequals(a, b) == Upper(a) = Upper(b)

-----------------------------------------------------------------------------
(* Headers *)

FindHeader(headers, key) == {i \in DOMAIN headers : iequals(headers[i][1], key)}
HasHeader(headers, key) == FindHeader(headers, key) # {}
GetHeader(headers, key) ==
  IF HasHeader(headers, key) THEN headers[Min(FindHeader(headers, key))][2] ELSE <<>>

\* Set(): an empty value changes nothing.
SetHeader(headers, key, value) ==
  IF value = <<>> THEN headers
  ELSE IF HasHeader(headers, key)
       THEN [headers EXCEPT ![Min(FindHeader(headers, key))][2] = value]
       ELSE Append(headers, <<key, value>>)

\* Headers are set one by one, all of them or those that are not there.
SetFields(headers, fields, unless_set) ==
  FoldLeft(LAMBDA h, f : IF unless_set /\ HasHeader(h, f[1]) THEN h ELSE SetHeader(h, f[1], f[2]),
           headers, fields)

-----------------------------------------------------------------------------
(* ContentType *)

\* Init(): the parameter is taken for the boundary or the charset whatever its key.
ParseContentType(str) ==
  LET pos == find(str, <<";">>)
      media_type == IF pos = npos THEN str ELSE before(str, pos)
      other == IF pos = npos THEN <<>> ELSE from(str, pos + 1)
  IN  [media_type |-> media_type,
       multipart |-> media_type = <<"multipart/form-data">>,
       additional |-> IF has_kv(other, "=") THEN split_kv(other, "=")[2] ELSE <<>>]

\* media_types::FromExtension() of an extension in lower case.
FromExtension(lext) ==
  CASE lext \in {".htm", ".html", ".php"} -> "text/html"
    [] lext = ".css" -> "text/css" [] lext = ".txt" -> "text/plain"
    [] lext = ".js" -> "application/javascript" [] lext = ".json" -> "application/json"
    [] lext = ".xml" -> "application/xml" [] lext = ".swf" -> "application/x-shockwave-flash"
    [] lext = ".flv" -> "video/x-flv" [] lext = ".png" -> "image/png"
    [] lext \in {".jpe", ".jpeg", ".jpg"} -> "image/jpeg" [] lext = ".gif" -> "image/gif"
    [] lext = ".bmp" -> "image/bmp" [] lext = ".ico" -> "image/vnd.microsoft.icon"
    [] lext \in {".tiff", ".tif"} -> "image/tiff" [] lext \in {".svg", ".svgz"} -> "image/svg+xml"
    [] OTHER -> "application/text"

ContentTypeValid(type) ==
  type.media_type # <<>> /\ (type.multipart => type.additional # <<>>)

-----------------------------------------------------------------------------
(* Bodies *)

NoBody == [kind |-> "none", data |-> <<>>, compressed |-> FALSE]
EmptyBody == [kind |-> "empty", data |-> <<>>, compressed |-> FALSE]
StringBody(data, compressed) == [kind |-> "string", data |-> data, compressed |-> compressed]
FileBody(data) == [kind |-> "file", data |-> data, compressed |-> FALSE]
FormBody(parts) == [kind |-> "form", data |-> parts, compressed |-> FALSE]

\* Whether Compress() returns true, and what it leaves; only a StringBody has one.
CanCompressBody(body) ==
  /\ body.kind = "string"
  /\ body.compressed \/ (Len(body.data) > kGzipThreshold /\ CanCompress(body.data))
CompressBody(body) ==
  IF body.compressed THEN body ELSE StringBody(Compress(body.data), TRUE)

CanDecompressBody(body) == ~body.compressed \/ CanDecompress(body.data)
DecompressBody(body) ==
  IF body.compressed THEN StringBody(Decompress(body.data), FALSE) ELSE body

GetSize(body) == Len(body.data)

\* What InitPayload() and the calls of NextPayload() give.
Payloads(body) ==
  CASE body.kind = "empty" -> <<>>
    [] body.kind \in {"string", "form"} -> <<body.data>>
    [] body.kind = "file" -> pieces(body.data, ChunkSize)

-----------------------------------------------------------------------------
(* Message *)

to_size_t(str) == CHOOSE n \in 0..MaxLength : str = <<ToString(n)>>

\* SetBody() with the length; the body is never the one the message has.
SetBody(message, body) ==
  [message EXCEPT !.body = body,
                  !.headers = SetHeader(@, "Content-Length", <<ToString(GetSize(body))>>)]

IsConnectionKeepAlive(headers) ==
  LET connection == GetHeader(headers, "Connection")
  IN  HasHeader(headers, "Connection") =>
        Len(connection) = 1 /\ iequals(connection[1], "Keep-Alive")

\* GetContentEncoding() is not kUnknown.
IsCompressed(headers) == GetHeader(headers, "Content-Encoding") \in {<<"gzip">>, <<"deflate">>}

AcceptEncodingGzip(headers) == find(GetHeader(headers, "Accept-Encoding"), <<"gzip">>) # npos

SetContentType(headers, media_type, charset) ==
  IF media_type = <<>> THEN headers
  ELSE SetHeader(headers, "Content-Type",
         IF charset = <<>> THEN media_type
         ELSE media_type \o <<";", "charset", "=">> \o charset)

\* What is written: GetPayload(), and then the payloads of the body.
Written(message) ==
  [start_line |-> message.start_line, headers |-> message.headers,
   content |-> FlattenSeq(Payloads(message.body))]

-----------------------------------------------------------------------------
(* What a parser makes of a message it has been given all of, parser.cc *)

\* The body handler's Finish(), after the form has become the body.  Whether it
\* fails is not looked at: the body is empty then.
FinishBody(headers, content, form, stream) ==
  LET body == StringBody(content, IsCompressed(headers))
  IN  CASE stream -> FileBody(IF form THEN <<>> ELSE content)
        [] ~stream /\ form -> FormBody(content)
        [] ~stream /\ ~form /\ content # <<>> /\ CanDecompressBody(body) -> DecompressBody(body)
        [] OTHER -> EmptyBody

\* A header that comes again replaces the first.
ReceivedHeaders(written) == SetFields(<<>>, written.headers, FALSE)

\* All that follows is content if there is a length, and there is no content
\* otherwise, or if the body is to be ignored.  The length is a number, and the
\* content is not chunked (Parser has what is).
Received(written, is_request, stream, ignore_body) ==
  LET headers == ReceivedHeaders(written)
      type == ParseContentType(GetHeader(headers, "Content-Type"))
      has_length == ~ignore_body /\ HasHeader(headers, "Content-Length")
      content == IF has_length THEN written.content ELSE <<>>
  IN  [outcome |-> IF HasHeader(headers, "Content-Type") /\ ~ContentTypeValid(type)
                   THEN "failed"
                   ELSE IF has_length /\ Len(content) < to_size_t(GetHeader(headers, "Content-Length"))
                        THEN "waiting" ELSE "finished",
       headers |-> headers,
       body |-> FinishBody(headers, content, is_request /\ type.multipart, stream),
       unread |-> Len(written.content) - Len(content)]

=============================================================================
