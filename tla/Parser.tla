-------------------------------- MODULE Parser --------------------------------
(***************************************************************************)
(* The parser of HTTP messages, webcc/parser.cc, with what the request and *)
(* the response parser add to it except for multipart content.  The bytes  *)
(* of a message arrive in pieces of any length; each Parse() takes one     *)
(* piece and goes on where the last one stopped.  An iteration of a loop   *)
(* of the code is a step here.                                             *)
(*                                                                         *)
(* The text of a line is one byte that names its meaning: a line is acted  *)
(* upon only when its CRLF has come, wherever its text was split.          *)
(* Messages follow each other on a connection, the next one being sent     *)
(* when the one before has been parsed.                                    *)
(***************************************************************************)
EXTENDS Naturals, Sequences, Lines

CONSTANTS
  Messages,     \* what the peer may send, see below
  Lengths,      \* the Content-Length headers, and what stoul() makes of them
  Sizes,        \* the chunk-size lines, and what stoul() makes of them
  Width,        \* the bits of std::size_t
  MaxMessages   \* bound: messages on the connection

SizeMax == 2 ^ Width
kInvalidLength == SizeMax - 1

\* Any std::size_t can be written, kInvalidLength too ("-1", or all "f").  The other
\* lines that have a meaning are "Chunked", "Other", and "S", a good start line.
ASSUME NumbersAssumption ==
  /\ \A t \in DOMAIN Lengths : Lengths[t] \in 0..kInvalidLength
  /\ \A t \in DOMAIN Sizes : Sizes[t] \in 0..kInvalidLength
  /\ DOMAIN Lengths \cap {"CR", "LF", "S", "Chunked", "Other"} = {}
  /\ DOMAIN Sizes \cap {"CR", "LF"} = {}

\* A line begins at position p, and the text of the i-th line of a message.
LineAt(bytes, p) == p + 2 <= Len(bytes) /\ bytes[p + 1] = "CR" /\ bytes[p + 2] = "LF"
Text(bytes, i) == bytes[3 * i - 2]

\* The message begins with a start line, n - 1 headers, and an empty line.
IsHead(bytes, n) ==
  /\ \A i \in 1..n : LineAt(bytes, 3 * i - 2)
  /\ Text(bytes, 1) = "S"
  /\ \A i \in 2..n : Text(bytes, i) \in DOMAIN Lengths \cup {"Chunked", "Other"}
  /\ 3 * n + 2 <= Len(bytes) /\ bytes[3 * n + 1] = "CR" /\ bytes[3 * n + 2] = "LF"

\* All that follows is the content, as long as each Content-Length says.
IsFixed(m, n) ==
  /\ Erase(m.bytes, 3 * n + 2) = m.body
  /\ \A i \in 2..n : Text(m.bytes, i) \in DOMAIN Lengths => Lengths[Text(m.bytes, i)] = Len(m.body)

\* Chunks follow: where each begins, and after how much of the content.
IsChunks(m, n, after) ==
  /\ 3 * n + 3 \in DOMAIN after /\ after[3 * n + 3] = 0
  /\ \A p \in DOMAIN after :
       /\ LineAt(m.bytes, p) /\ m.bytes[p] \in DOMAIN Sizes
       /\ LET size == Sizes[m.bytes[p]]
              end == p + 3 + size
          IN  \/ size = 0 /\ after[p] = Len(m.body)
              \/ /\ size # 0 /\ end + 2 \in DOMAIN after /\ after[end + 2] = after[p] + size
                 /\ \A i \in 1..size : m.bytes[p + 2 + i] = m.body[after[p] + i]
                 /\ m.bytes[end] = "CR" /\ m.bytes[end + 1] = "LF"

\* What a good message is made of; an answer to HEAD has no content whatever its
\* headers say.
IsGood(m, n, after) ==
  LET texts == {Text(m.bytes, i) : i \in 2..n}
      has_length == texts \cap DOMAIN Lengths # {}
  IN  /\ IsHead(m.bytes, n)
      /\ CASE m.head -> m.body = <<>>
           [] ~m.head /\ "Chunked" \in texts -> IsChunks(m, n, after)
           [] ~m.head /\ "Chunked" \notin texts /\ has_length -> IsFixed(m, n)
           [] OTHER -> m.body = <<>>

\* A message is given by its bytes; whether they are good, and a view matches if
\* it is a request; its content; and whether it answers a HEAD.  A good message fits
\* in memory: its length is a std::size_t.  2 ^ Width is a number.
ASSUME MessagesAssumption ==
  \A m \in Messages :
    /\ DOMAIN m = {"bytes", "ok", "body", "head"}
    /\ m.bytes \in Seq(STRING) /\ m.body \in Seq(STRING)
    /\ m.ok \in BOOLEAN /\ m.head \in BOOLEAN
    /\ m.ok => Len(m.bytes) < SizeMax
    /\ m.ok => \E n \in 1..Len(m.bytes) :
                \E starts \in SUBSET {p \in 1..Len(m.bytes) : m.bytes[p] \in DOMAIN Sizes} :
                \E after \in [starts -> 0..Len(m.body)] : IsGood(m, n, after)
ASSUME BoundsAssumption ==
  Width \in Nat /\ SizeMax \in Nat /\ SizeMax > 5 /\ MaxMessages \in Nat \ {0}

VARIABLES
  msg,                    \* the message to be parsed
  count,                  \* how many messages there were
  aligned,                \* the first byte to be read is the first of msg
  inbox,                  \* bytes sent and not read yet
  pc,                     \* where Parse() is; "read" when it has returned
  pending_data,           \* pending_data_
  start_line_parsed,      \* start_line_parsed_
  header_ended,           \* header_ended_
  content_length,         \* content_length_
  content_length_parsed,  \* content_length_parsed_
  chunked,                \* chunked_
  chunk_size,             \* chunk_size_
  content                 \* what body_handler_ was given

headVars == <<start_line_parsed, header_ended, content_length, content_length_parsed, chunked>>
peerVars == <<msg, count, aligned>>
vars == <<peerVars, inbox, pc, pending_data, headVars, chunk_size, content>>

TypeOK ==
  /\ msg \in Messages
  /\ count \in 0..MaxMessages
  /\ aligned \in BOOLEAN
  /\ inbox \in Seq(STRING)
  /\ pc \in {"read", "headers", "content", "chunk", "finished", "failed", "threw"}
  /\ pending_data \in Seq(STRING)
  /\ start_line_parsed \in BOOLEAN
  /\ header_ended \in BOOLEAN
  /\ content_length \in 0..kInvalidLength
  /\ content_length_parsed \in BOOLEAN
  /\ chunked \in BOOLEAN
  /\ chunk_size \in 0..kInvalidLength
  /\ content \in Seq(STRING)

Init ==
  /\ msg \in Messages
  /\ count = 1
  /\ aligned = TRUE
  /\ inbox = msg.bytes
  /\ pc = "read"
  /\ pending_data = <<>>
  /\ start_line_parsed = FALSE
  /\ header_ended = FALSE
  /\ content_length = kInvalidLength
  /\ content_length_parsed = FALSE
  /\ chunked = FALSE
  /\ chunk_size = kInvalidLength
  /\ content = <<>>

-----------------------------------------------------------------------------
(* Parse(): the headers *)

\* Seeded bug: what the headers said of the content is not reset.
NextMessageKeepsHeaders ==
  /\ pc = "finished"
  /\ count < MaxMessages
  /\ msg' \in Messages
  /\ count' = count + 1
  /\ aligned' = (inbox = <<>>)
  /\ inbox' = inbox \o msg'.bytes
  /\ pc' = "read"
  /\ pending_data' = <<>>
  /\ start_line_parsed' = FALSE
  /\ header_ended' = FALSE
  /\ UNCHANGED <<content_length, content_length_parsed, chunked>>
  /\ chunk_size' = kInvalidLength
  /\ content' = <<>>

\* Init() for the next message; pending data of the last one is dropped.
NextMessage ==
  /\ pc = "finished"
  /\ count < MaxMessages
  /\ msg' \in Messages
  /\ count' = count + 1
  /\ aligned' = (inbox = <<>>)
  /\ inbox' = inbox \o msg'.bytes
  /\ pc' = "read"
  /\ pending_data' = <<>>
  /\ start_line_parsed' = FALSE
  /\ header_ended' = FALSE
  /\ content_length' = kInvalidLength
  /\ content_length_parsed' = FALSE
  /\ chunked' = FALSE
  /\ chunk_size' = kInvalidLength
  /\ content' = <<>>

\* Parse() is given the next n bytes.
Read(n) ==
  /\ pc = "read"
  /\ pending_data' = pending_data \o SubSeq(inbox, 1, n)
  /\ inbox' = Erase(inbox, n)
  /\ pc' = IF header_ended THEN "content" ELSE "headers"
  /\ UNCHANGED <<peerVars, headVars, chunk_size, content>>

\* No full line: the headers continue in the next piece.
HeadersNeedMore ==
  /\ pc = "headers"
  /\ ~HasLine(pending_data)
  /\ pc' = "read"
  /\ UNCHANGED <<peerVars, inbox, pending_data, headVars, chunk_size, content>>

ParseStartLine(line) ==
  /\ ~start_line_parsed
  /\ start_line_parsed' = TRUE
  /\ pc' = IF line = <<"S">> THEN "headers" ELSE "failed"
  /\ UNCHANGED <<header_ended, content_length, content_length_parsed, chunked>>

ParseHeaderLine(line) ==
  /\ start_line_parsed
  /\ \/ /\ line[1] \in DOMAIN Lengths
        /\ content_length_parsed' = TRUE
        /\ content_length' = Lengths[line[1]]
        /\ UNCHANGED <<pc, chunked>>
     \/ /\ line = <<"Chunked">>
        /\ chunked' = TRUE
        /\ UNCHANGED <<pc, content_length, content_length_parsed>>
     \/ /\ line = <<"Other">>
        /\ UNCHANGED <<pc, content_length, content_length_parsed, chunked>>
     \/ /\ line[1] \notin DOMAIN Lengths \cup {"Chunked", "Other"}
        /\ pc' = "failed"
        /\ UNCHANGED <<content_length, content_length_parsed, chunked>>
  /\ UNCHANGED <<start_line_parsed, header_ended>>

HeaderLine ==
  /\ pc = "headers"
  /\ HasLine(pending_data)
  /\ LET line == LineOf(pending_data)
     IN  line # <<>> /\ (ParseStartLine(line) \/ ParseHeaderLine(line))
  /\ pending_data' = AfterLine(pending_data)
  /\ UNCHANGED <<peerVars, inbox, chunk_size, content>>

\* The empty line, even before a start line.  A request that matches no view is
\* not parsed further.
HeadersEnd ==
  /\ pc = "headers"
  /\ HasLine(pending_data)
  /\ LineOf(pending_data) = <<>>
  /\ header_ended' = TRUE
  /\ pending_data' = AfterLine(pending_data)
  /\ \/ pc' = "content"
     \/ (~msg.ok \/ ~start_line_parsed) /\ pc' = "failed"
  /\ UNCHANGED <<peerVars, inbox, start_line_parsed, content_length,
                 content_length_parsed, chunked, chunk_size, content>>

-----------------------------------------------------------------------------
(* ParseContent() *)

\* The body handler, of a request or response that is not streamed.
AddContent(data) == content' = content \o data

\* Finish() makes the body of the content.
Finish == pc' = "finished"

IsFixedContentFull == Len(content') >= content_length

\* The body of a response to HEAD is ignored.
IgnoreBody ==
  /\ pc = "content"
  /\ msg.head
  /\ Finish
  /\ UNCHANGED <<peerVars, inbox, pending_data, headVars, chunk_size, content>>

\* No Content-Length, no content.
NoContent ==
  /\ pc = "content"
  /\ ~msg.head /\ ~chunked /\ ~content_length_parsed
  /\ Finish
  /\ UNCHANGED <<peerVars, inbox, pending_data, headVars, chunk_size, content>>

\* Seeded bug: one byte more than Content-Length is waited for.
ParseFixedContentLate ==
  /\ pc = "content"
  /\ ~msg.head /\ ~chunked /\ content_length_parsed
  /\ content' = content \o pending_data
  /\ pending_data' = <<>>
  /\ pc' = IF Len(content') > content_length THEN "finished" ELSE "read"
  /\ UNCHANGED <<peerVars, inbox, headVars, chunk_size>>

\* A Content-Length that is read as kInvalidLength is an error.
ParseFixedContent ==
  /\ pc = "content"
  /\ ~msg.head /\ ~chunked /\ content_length_parsed
  /\ \/ /\ content_length = kInvalidLength
        /\ pc' = "failed"
        /\ UNCHANGED <<pending_data, content>>
     \/ /\ content_length # kInvalidLength
        /\ AddContent(pending_data)
        /\ pending_data' = <<>>
        /\ IF IsFixedContentFull THEN Finish ELSE pc' = "read"
  /\ UNCHANGED <<peerVars, inbox, headVars, chunk_size>>

\* The top of the loop of ParseChunkedContent(): a chunk-size line is read
\* unless a chunk is being read.  Without a full line, chunk_size_ stays
\* invalid and the loop goes on.
ParseChunkSize ==
  /\ pc = "content"
  /\ ~msg.head /\ chunked
  /\ IF chunk_size = kInvalidLength /\ HasLine(pending_data)
     THEN LET line == LineOf(pending_data)
          IN  /\ pending_data' = AfterLine(pending_data)
              /\ IF line # <<>> /\ line[1] \in DOMAIN Sizes
                 THEN chunk_size' = Sizes[line[1]] /\ pc' = "chunk"
                 ELSE pc' = "failed" /\ UNCHANGED chunk_size
     ELSE pc' = "chunk" /\ UNCHANGED <<pending_data, chunk_size>>
  /\ UNCHANGED <<peerVars, inbox, headVars, content>>

\* chunk_size_ + 2, for the CRLF after the chunk; the sum of two std::size_t wraps.
ChunkEnd == (chunk_size + 2) % SizeMax

LastChunk ==
  /\ pc = "chunk"
  /\ chunk_size = 0
  /\ Finish
  /\ UNCHANGED <<peerVars, inbox, pending_data, headVars, chunk_size, content>>

\* If the sum has wrapped, chunk_size_ is more than a string can hold, and appending
\* so many bytes throws.
WholeChunk ==
  /\ pc = "chunk"
  /\ chunk_size # 0
  /\ ChunkEnd <= Len(pending_data)
  /\ IF ChunkEnd < chunk_size
     THEN pc' = "threw" /\ UNCHANGED <<pending_data, chunk_size, content>>
     ELSE /\ AddContent(SubSeq(pending_data, 1, chunk_size))
          /\ pending_data' = Erase(pending_data, ChunkEnd)
          /\ chunk_size' = kInvalidLength
          /\ pc' = "content"
  /\ UNCHANGED <<peerVars, inbox, headVars>>

\* Seeded bug: a chunk without its CRLF is taken, and nothing is left of it.
PartOfChunkOrAll ==
  /\ pc = "chunk"
  /\ chunk_size # 0
  /\ ChunkEnd > Len(pending_data)
  /\ chunk_size >= Len(pending_data)
  /\ AddContent(pending_data)
  /\ chunk_size' = chunk_size - Len(pending_data)
  /\ pending_data' = <<>>
  /\ pc' = "read"
  /\ UNCHANGED <<peerVars, inbox, headVars>>

PartOfChunk ==
  /\ pc = "chunk"
  /\ chunk_size # 0
  /\ ChunkEnd > Len(pending_data)
  /\ chunk_size > Len(pending_data)
  /\ AddContent(pending_data)
  /\ chunk_size' = chunk_size - Len(pending_data)
  /\ pending_data' = <<>>
  /\ pc' = "read"
  /\ UNCHANGED <<peerVars, inbox, headVars>>

\* The chunk is there, its CRLF is not.
AwaitChunkEnd ==
  /\ pc = "chunk"
  /\ chunk_size # 0
  /\ ChunkEnd > Len(pending_data)
  /\ chunk_size <= Len(pending_data)
  /\ pc' = "read"
  /\ UNCHANGED <<peerVars, inbox, pending_data, headVars, chunk_size, content>>

-----------------------------------------------------------------------------
Parse ==
  \/ HeadersNeedMore \/ HeaderLine \/ HeadersEnd
  \/ IgnoreBody \/ NoContent \/ ParseFixedContent
  \/ ParseChunkSize \/ LastChunk \/ WholeChunk \/ PartOfChunk \/ AwaitChunkEnd

Next ==
  \/ NextMessage
  \/ \E n \in 1..Len(inbox) : Read(n)
  \/ Parse

Spec == Init /\ [][Next]_vars

-----------------------------------------------------------------------------
\* However it is split, a message that is parsed from its first byte gives the
\* content the peer sent.
ContentIsFaithful == pc = "finished" /\ aligned /\ msg.ok => content = msg.body

\* A good message is not rejected.
GoodIsParsed == pc = "failed" => ~(aligned /\ msg.ok)

\* The parser does not wait for bytes when the peer has sent all of a message.
WaitsOnlyForData == pc = "read" /\ aligned /\ msg.ok => inbox # <<>>

\* Parse() waits for the rest of a good message, wherever a read has split it,
\* and does not end with an exception.
NeverThrows == aligned /\ msg.ok => pc # "threw"

=============================================================================
