# A verification project for webcc

webcc is an HTTP client and server library in C++ over asio (`src/webcc`). This
directory has TLA+ modules for its core, TLC configurations that check them on
small instances, and proofs that TLAPS checks for instances of any size.
`PROJECT.json` lists components, runs, findings, hazards and theorems, and for
every definition the lines it stands for.

## The system and its parts

| Component (src/webcc) | State | Operations | What is hard | What makes it correct |
|---|---|---|---|---|
| `Queue` (queue.h) | a list, a mutex, a condition variable | PopOrWait, Pop, Push, Clear, Size from any thread | the notification is outside the lock; spurious wakeups | linearizable FIFO; no lost wakeup |
| `Server` (server.cc) | running flag, io_context, acceptor, signal set, worker threads | Run, Stop, handlers of accept and signals, workers | many threads; stopping while all of it runs; running again | stopping ends and leaves nothing; a connection is used by one thread |
| `Connection`, `ConnectionPool` | socket, request, response, parser; the set of connections | Start, OnRead, OnWrite..., Close; Start, Close, Clear | handlers on several threads, sockets closed under them | one operation at a time; no connection forgotten |
| `Router`, `View` | table of routes | Route, FindView, MatchView | regular expressions | first match, the same at parsing and handling time |
| `Client` (client.cc), `Socket` | a socket, a private event loop, a timer | Request, Close | timer against read, late handlers, loop out of work | a request ends; a stale timer does nothing; `closed_` tells the truth |
| `ClientPool`, `ClientSession` | map from server to client | Get, Add, Remove; Send | reuse of a connection the server has closed, retry | the pool has usable clients; a request arrives once and whole |
| `Parser`, `RequestParser`, `ResponseParser` | pending data, flags, sizes | Init, Parse | bytes split anywhere; one parser for many messages | the content that was sent, whatever the split |
| `Body`, `FormPart`, `Message` | headers, parts, files | SetBody, Prepare, InitPayload, NextPayload, Compress, Move | parts that are freed while sent; temporary files | as many bytes as Content-Length says; a file has an owner |
| `RequestBuilder`, `ResponseBuilder` | what a message will be | setters in any order, operator() | later calls over earlier ones, defaults of the session | what was asked for arrives |
| `Url`, `Headers`, `base64`, `gzip`, strings | text | conversions | edges of text, keys in any case | one side reads what the other wrote |
| logger | a file | output | | |

A server has one thread in `Run()`, some threads in the event loop (the first of
them may be the same), and the workers. The loop threads run the handlers of the
acceptor, the signals and the connections. A connection that has read a request
goes into the queue; a worker takes it, calls the view, and starts to write the
response; the loop writes the rest and reads the next request. `DoStop()` closes
the acceptor, ends the workers with a null connection in the queue, closes the
pool and stops the loop.

A client runs in the thread that calls it. A session keeps clients whose
connection may be used again.

## Modules

`MessageQueue` is the abstract queue: each call takes effect at one instant.
`Queue` is queue.h with its lock and its condition variable; it is shown to
implement `MessageQueue`, and the server uses the queue at that level.

`Connection` has the handlers of connection.cc and the methods of the pool, as
steps of the loop threads. What the pool does inside its mutex and after it are
two steps. `Server` extends it with server.cc: `Run`, the handlers of the
acceptor and of the signals, the workers, and `DoStop` in the steps in which
other threads can see it. A completed operation stays ready until a loop thread
takes it, in any order; closing a socket completes what is outstanding with
"aborted", or with another error if a loop thread sees the shutdown first. What
the operating system, asio and the clients do is nondeterministic and marked
external in the map.

`Client` is client.cc with the queue of its event loop, because the order of
handlers in this queue decides what a late timer can do. What a request leaves
behind is `RequestOutcome`: `Client` is checked to keep to it (`KeepsContract`)
and `ClientSession` uses nothing else of the client. `waited` is a history variable
of `Client`: the timeout has passed since the last read began. No action depends on
it; `expired`, which is the timer's own, is what the handler looks at. `ClientSession`
is the pool and the retry; it remembers of each client whether a request was written
to its connection in part only (`partial`), and whether by an error or by an exception.

`Parser` is parser.cc with the start lines and the HEAD rule of its subclasses.
`Lines` has what it shares with `RequestParser`.
Bytes are members of a small set; the text of a line is one byte, since a line is
acted upon only when its CRLF has come. `std::size_t` has `Width` bits, so that
`chunk_size_ + 2` overflows where it does in the code; the sizes of chunks and the
lengths that a peer writes may be any of them (`Sizes`, `Lengths`). `MCParser` has
the messages for TLC.

`RequestParser` composes three parts of an upload: the form as a client builds,
sizes and writes it (`FormBody`: `FormPart`, `FormBody`, the builder), the parser
of multipart content (request_parser.cc), and the two lookups of a view (`Router`:
router.cc and the static files of server.cc), by the parser when the headers end
and by the worker that handles the request. `KeepAlive` says whether a next
request uses the same connection, and so the same parser. Content of other
clients is there too: without a length, without a boundary, with a bad part
header. `MCRequestParser` has forms, contents and routes for TLC: data that is a
CRLF, lines that are nearly a boundary, an empty file, a name with a semicolon,
overlapping routes.

`Exchange` is one request and its response, end to end: any calls of a
`RequestBuilder`, its operator(), `ClientSession::Send()` with the defaults of the
session, `Request::Prepare()`, the parser of the server, any calls of a view to a
`ResponseBuilder`, `Connection::SendResponse()` and `OnWriteOK()`, the parser of the
client, and what becomes of files that content was streamed to. It is about what
the two sides make of the same message, so a message is read in one step here
(every split is in `Parser`). A request may be refused, a transfer may break off,
a file may not open; a server that was promised more content than the request has
(an application can set `Content-Length` itself) waits until the connection is lost. The operators it is built from are in modules of their own:
`Strings` (string.h), `Url` (percent-encoding, URLs, queries), `Base64`, `Gzip` (the
loops around zlib, which is external) and `Message` (headers, content types,
bodies, messages, and what a parser makes of a whole one). Where single characters
matter (URLs, start lines of requests, credentials) a string is a sequence of
their codes; the values of headers are sequences of tokens, such as `"gzip"`, `","`
and `"deflate"`; content is a sequence of bytes. `asked` records what the
application meant, to compare it with what the view sees; no action depends on it.
`MCExchange` has the inputs for TLC.

In each module, definitions marked "Seeded bug" are mutants of the definition
that follows them: TLC finds the property they are listed for violated.

## Runs

| Run | Instance | Shows |
|---|---|---|
| queue | 3 threads, 2 messages, list of at most 2 when Push is called | no lost wakeup, linearizability; blocked threads are served once calls cease |
| server_signal | 1 loop, 2 workers, 2 clients, 2 runs, 2 signals | a client told to close is not served again; a signal ends Run and leaves nothing pooled or queued; a queued request is taken |
| server_stop | 2 loops, 2 workers, 1 client, 2 runs, 3 stops | a connection is in one place, pool and sockets agree, no connection is forgotten, the server does not become deaf, no null connection is left over, workers are joined before the next Run; Stop and Run return |
| client | any number of requests: the module has no bound, these are all of its states | the loop never runs dry while a read is waited for, no handler outlives its variables, nothing times out before the timeout has passed since its read began, at most two handlers of timers are left however many reads there were, every read ends |
| session | 3 servers, 4 clients, forms of 2 parts | the pool has open, distinct clients of the right server, none of which has failed; no request is delivered twice |
| parser | 2 messages of 13 on one connection, every split into reads | content is what was sent; good messages are accepted; no needless wait |
| exchange | 1 request to 6 URLs from 2 sessions, 3 calls of the builders of 25 and 12 kinds | method, path, parameters, content, headers and credentials reach the view, status and content reach the client; both ends agree whether the connection is kept; temporary files have owners |
| form | 2 requests of 11 contents to 5 targets, each on its own connection, every split into reads, reads between writes | a form arrives with its parts; only forms with an empty part or a semicolon in a name are rejected; Content-Length is what is written; client and server do not wait for each other; `Parse()` returns; the view that handles a request is the one asked about streaming |

Four runs find a statement of the repository violated; `PROJECT.json` quotes it
under "findings": `server_two_stops` (a signal during `Stop()`), `session_form` (the
retry of a form whose parts have been freed), `parser_throws` (a chunk-size line
that is split) and `form_again` (the second form on a kept connection).

More behaviours are in the models and excepted by the properties:

- a file that cannot be read any more throws when its request is written, after the
  headers (body.cc:191), and the exception passes by the lines that "remove the failed
  connection from pool" (client_session.cc:118): a reused client stays in the pool with
  half a request on its connection, which the next request to this server follows
  (`partial` is `"file"` in `ClientSession`; `PoolIsUsable`);
- a chunked message is finished before its last CRLF is read (`aligned` in
  `Parser`);
- a line of data with the dashes of the last boundary, in a part that is not the
  last, ends a form early (`LooksLast`);
- content that is streamed to a file stays compressed, and a form that is streamed
  is replaced by an empty file;
- a URL without a path gives a start line of two words, which a webcc server
  refuses (`Unambiguous` in `Exchange`, as the next two);
- `"://"` anywhere in a target, as in a parameter that is a URL, makes the server
  take what is before it for the scheme: path and query are lost;
- `EncodeQuery()` does not escape `&` and `=`, so a parameter that has them arrives
  as something else;
- the body that a view gives in answer to HEAD is written, and skipped by the
  client, which keeps the connection with these bytes unread;
- the temporary file of a transfer that breaks off is removed by nobody;
- a file that cannot be opened when the response is written ends the server with
  an exception (`"crashed"`).

Bounds. Two connections, workers, loops or runs are enough for any two of them to
meet; three keys are the fewest for which the map's inconsistent order can miss
one; three threads let a third one take a message between a push and the thread
it wakes. The boundary of one byte makes the lines that matter three and five bytes
long, so that data can differ from it in one place; two parts are a first and a
last one. With two loop threads `CloseMeansClose` does not hold (a 400 response
may be completely written by one thread while the other has not closed the socket
yet), so it is checked for one; `NothingLeft` holds when nothing but signals
stops a server with one loop. With two loops, or another thread that stops, an accept
handler that saw the acceptor open adds its connection to the pool after `DoStop()`
has cleared it (server.cc:170). In `Exchange`, three calls are a body, its
compression and one more, or a path and two parameters. The inputs have what the
conversions treat apart: a space, `%`, `+`, `=`, `&`, `?`, `://`, a byte that is not
ASCII, text that is encoded already, a slash on either side of a path; credentials
of two and four bytes; bodies that are empty, at the threshold of
compression and above it; keys in two cases, an empty value, a `Connection` that is
neither. `kGzipThreshold` and `ChunkSize` are 2 instead of 1400 and 1024.

Fairness. A thread that can run does: weak fairness of each loop, worker and
stopping thread. A signal handler that is ready is run, although new handlers
become ready all the time, because asio takes them in order: strong fairness of
`OnSignal`. In the client, the thread runs and time passes. In `RequestParser`, the
thread that parses runs. Nothing is assumed of
clients, of the network, or of those who call `Run()` and `Stop()`. A view is
assumed to return.

## Proofs

TLAPS checks the theorems for instances of any size: any numbers of threads,
connections, servers and requests, any forms, any ways to split what is sent.
Eight modules have them.

`QueueProofs`, for any finite set of threads and any messages: types, mutual
exclusion (`MutexHeld`, which no run lists: `AtomicSpec` needs it), `NoLostWakeup`, and the refinement of `MessageQueue`. `NoLostWakeup`
is inductive once it is known that only threads in `PopOrWait()` block
(`WaitersPop`); the argument counts: a push adds a message and a thread in flight,
a thread leaves the flight only with a message or by waking another.

`ServerProofs`, for any numbers of connections, loops, workers, stoppers, signals
and runs. First its threads: types; `WorkersJoined`, from the invariant `Control`, which says where
threads can be relative to each other (a stopped loop has no workers, `DoStop()`
is in a signal handler or holds the mutex); and `OneChain`, from `Control` and
`Fresh` (a client that has not connected is nowhere). `Control` is needed because
`Run()` and `Join` replace the places of all threads at once. Then the accept, the
pool and the promises to clients:

- `NoStrayNull`: a null connection is around (`NullAround`: queued, or with a worker
  that leaves) only while a `DoStop()` is joining workers or draining the queue.
- `AcceptArmed`: who takes the outstanding accept becomes the thread that makes
  the next one (`Accepting`), or leaves the acceptor closed.
- `PoolOwnsSockets`, from `Owned`: a connection between accept and `Start()` is known
  to the accept handler alone, and one that is being closed was erased from the
  pool before. Without the latter, `Close()` of one thread could close what another
  has just pooled, and the property is not inductive.
- `NoOrphan`: an operation is aborted only after this side has closed the socket
  (`AbortedByClose`), so that the handlers which ignore `operation_aborted` drop
  nothing that is still pooled; everything else in the pool is `Carried` by an
  operation, the queue or a thread.
- Three theorems have a condition, which is their hypothesis. `CloseMeansClose` needs
  one thread in the event loop (`OneLoop`; the default of `Run()`, server.h:48);
  `NothingLeft` needs one, and nobody who calls `Stop()` besides the signal handler,
  as in the example servers; `OneStopAtATime` holds without signals, so the
  signal handler of the run `server_two_stops` is the only way to break it.
  Their invariants are `Promises`, `LeavesNothing` and `NoSignal`.

`ClientProofs`: all properties of the run client but `ReadEnds`. The invariant speaks of the order
of handlers in the queue of the event loop: the reactor has one turn (`OnePoll`), a
read has at most one handler (`OneRead`) and is outstanding only within
`DoReadResponse()` (`ReadInRun`); its timer or the handler of one is behind it
(`TimerBehind`), which is why the loop cannot be stopped meanwhile (`Running`); and
`Progress` ties what was sent and closed to the outcome that will be told.
`TimeoutIsReal` rests on the timer being started again with each read (`TimerIsNew`): if
it has expired, then since this read began, whatever handlers of earlier timers the
queue has.
`TheContractIsKept` is the other half of `ClientSessionProofs`: the client has
only the outcomes (`RequestOutcome`) of which the session is proved.

`ClientSessionProofs`: the clients of the pool are distinct and usable, `Send()` works
with one of them, found under its key, or with one that is outside (`InUse`), and
the server has the whole request only after the last `Request()` (`Sent`). An error
half way through a request stays on a client of the pool only until the retry has
connected it again (`Usable`). All
three properties of the run session follow, whatever the lookup in the
inconsistently ordered map returns.

`RequestParserProofs`:

- `RightView`, for any routes: the first match is the same in both lookups.
- `LengthMatches`: `TextOf(form)` is the text of a form from each of its parts on. What
  the client has written and what is left of the text (`Unsent`) are together as
  long as `GetSize()` has said (`Writing`), although `NextPayload()` frees and loads
  parts on the way.
- `FormIsFaithful`, `GoodFormIsParsed` and `WaitsOnlyForData`: the invariant (`Reading`)
  is that what the parser has pending, what is on the wire and what is unsent make
  up the rest of the text from a place in the current part on, which place `step_`
  and `off` tell (`Position`), the parts before being saved. Each step then is a
  fact about a text and a beginning of it: the line the parser finds there is the
  line of the whole text if it is complete (`LineThere`), and the first boundary line
  behind the data is the one the client wrote, wherever the data that has come
  ends (`BoundaryFound`). The hypothesis is that a request has a connection of its own
  (`KeepAlive` has no `TRUE`): on a kept connection the code does not do this, as the
  run `form_again` shows.

`ParserProofs`, for messages of any number of headers and chunks, good and bad, one
after another in any pieces: types, `ContentIsFaithful`, `GoodIsParsed` and
`WaitsOnlyForData`. What a good message (`ok`) is made of is an assumption on the
messages, `IsGood`: lines at every third byte, of which the first is a good start line
and the others are headers; then the content as the headers say, of the length of every
`Content-Length`, or in chunks, each with the place of the next. The invariant,
`Follows`, says how many bytes of the message are used (`Used`) in each state of the
parser, and that its flags are what the headers among them have said (`Said`): after i
lines 3i bytes; in content of fixed length, the head and as many bytes as were given
to the body handler; in a chunk, its size line and what is no longer in `chunk_size_`.
A read moves bytes from one side of the place to the other (`ReadMore`), a step of
`Parse()` moves the place (`UseMore`, `NextLine`). An exception is not excluded, since
the code has it: `OnlyWrappedSizesThrow` says that it comes only where `chunk_size_ + 2`
wraps around, of which there are two ways (`WrappedSize`): the peer has written one of
the two largest sizes, or a size line is split and leaves the size invalid. A good
message has sizes that its bytes bear out, and these do not wrap.

`ExchangeProofs`, for any requests, sessions, bodies and calls of the builders:

- `TempFileOwned` needs to know which files there can be in each phase (`FilesInv`),
  since parsing replaces the message that was the owner, and that what was streamed
  becomes a file whatever its content (`StreamedIsFile`).
- `ConnectionAgreed`: the invariant (`AgreedInv`) follows the `Connection` header from
  the calls that set it to the two that read it, the server's in the request and the
  client's in the response. `SetHeader()` replaces a key in whatever case it was, so the
  keys of a message are distinct (`SetChanges`, `SetKeeps`), so the parser, which
  sets them one by one, gets the headers as they were written (`ReceivedAsWritten`), so
  both look at the same value. What `Prepare()`, the session's defaults and
  `SendResponse()` add has other keys or is what the message says of the connection
  itself (`PrepareKeeps`, `DefaultsKeep`, `SendSays`). Compression takes every byte of a
  body, whatever the size of zlib's buffer (`CompressTakesAll`).
- `HeadersArrive`: `HeadersInv` follows the headers of a request. Those of the builder are
  what its calls have asked for (`IsGiven`: `SetHeader()` one after the other leaves the value
  that was given last, whatever the case of the key); `operator()` offers them, with
  `Close` for a connection that is not to be kept (`AreOffered`); the session completes
  them with its own where there was nothing (`AreCompleted`); what `Prepare()` sets has
  other keys, and the parser finds each header as it was written. The credentials
  are `Base64RoundTrip`: for any bytes, what `Base64Decode` makes of `Base64Encode(s)` is
  `s`, within the buffer that `DecodedSize()` has it allocate. Each group of three, two
  or one bytes makes four characters that are decoded alone (`GroupEncoded`, `GroupsJoined`).
- `ResponseArrives`: `RespondInv` follows the answer. A response `Says` a status in
  its start line and `Carries` a content: as a stream that is marked as compressed
  (`CarriesStream`), or in payloads that add up to it, without a mark
  (`CarriesPlain`); `BuiltResponse`, `SendResponse` and `Prepare()` keep to it
  (`AnswerBuilt`, `SendCarries`). The client reads the status in the second word
  (`StatusWord`), puts the payloads together as they were cut (`CarriedReceived`), and makes
  the content of a stream again by `GzipRoundTrip`: what `Decompress` makes of
  `Compress(data)` is `data`, whatever the sizes of data and buffers, where the loop
  that grows the buffer needs an induction (`SizeGrows`).

- `PercentRoundTrip`: for any bytes, `Decode()` does not fail on what `EncodePath()` or
  `EncodeQuery()` made of them, and finds them again (`PathAndQueryDecoded`). A byte is coded
  as itself or as `%` and two digits that `HexInverted` reads back, and `%` itself never as
  itself. So no escape crosses the end of a byte's code (`IsWhole`), which is the invariant
  of the induction over the bytes (`CodingIsWhole`, `BytesRead`).

`DataLemmas` is what these proofs share: induction over the numbers, got from the
fact that their order is well founded, because the library's theorem of induction takes
an operator and cannot be instantiated; cuts and concatenations of sequences; lines;
`FlattenSeq` of one and two sequences; sums over functions.

The assumptions are the named ASSUMEs of the modules: the sets of threads are
disjoint, the null values are no members of the sets they stand beside, there
is a loop thread; the boundary has no line ends or dashes and is on no line of the
data (it is 30 random letters and digits), the names of parts are no other words of
the text, a view's name identifies it and is none of the other answers; a good
message for `Parser` is made as above and has fewer bytes than a `std::size_t` can
count, and `std::size_t` holds more than 5; upper case
does not make two of the header keys that the library sets the same, nor `Close` the
same as `Keep-Alive`; the headers of a session were made by `Set()`, so their keys
are distinct; logins and passwords are bytes; the application leaves
`Content-Encoding: gzip` and `deflate` to `Gzip()`, does not say `Transfer-Encoding:
chunked` of content that is not in chunks, and gives a number if it sets
`Content-Length` itself (`OwnFields`); `Code()` takes one of the statuses of
the table (it is an `enum`), and a number is told from its digits (`ToString`).

Only model-checked: all liveness (the prover does not reason about fairness), and
`RequestArrives` of `Exchange`, in which URLs and queries are taken apart over their text:
the split of a start line, of a path into segments and of a query into parameters, one after
another and each with its exceptions. Of its parts, the percent-encoding is proved
(`PercentRoundTrip`); that what is split again is what was joined is not. `TypeOK` of
`Parser` is proved and that of `RequestParser` documents its state; no run lists either.

## Not modelled

Exceptions thrown by views (nothing in webcc catches them); adding routes while
the server runs, which the code does not guard; a view that calls `Stop()`; a file
that changes between the header with its size and its last chunk; compression
itself (zlib), TLS, the text of dates and of the log. Data of 4 GiB and more that is
compressed, the size of which gzip.cc casts to zlib's `uInt`. A `Transfer-Encoding:
chunked` that an application sets with `Header()`: the library never cuts content into
chunks, so its own parser would take the content for something else. Names of temporary files and
boundaries are random and taken to be unique. `AuthToken()` and the other uses of
`Auth()` differ from `AuthBasic()` in text only. Data races on `running_`, which
`IsRunning()` reads without the mutex, are benign on the platforms the library
supports. The examples and tests use the library and add no state to it.

## Plan

1. Several exchanges over one kept connection: what a chunked message or an answer
   to HEAD leaves unread, read by the next; a file that changes while it is sent.
2. The map of `ClientPool` with its order.
3. Proofs: of `Exchange`, that the target of a request arrives (`RequestArrives`), from
   `PercentRoundTrip` to `AppendPath()`, `AppendQuery()` and what the parser splits.
