# Formal models of korall

korall is a web server library in C: an application registers routes, calls
`korall_init` and `korall_run`, and the library accepts connections, starts a
thread for each, speaks HTTP/1.x or WebSocket on it, with or without TLS. This
directory holds TLA+ models of its core logic, the TLC configurations that check
them, and TLAPS proofs of every safety property that a passing run checks. Paths below
are relative to the repository; `src/` in `PROJECT.json` is the repository's root.

Contents: [1 Inventory](#1-inventory) · [2 Modules](#2-modules) ·
[3 Runs](#3-runs-what-they-check-and-show) · [4 Fairness](#4-fairness) ·
[5 Proofs](#5-proofs) · [6 Findings](#6-findings) ·
[7 Not modelled](#7-what-is-not-modelled) · [8 Plan](#8-plan)

## 1 Inventory

### Components, their state and how they interact

| component (source) | state | operations | talks to |
|---|---|---|---|
| accept loop (`src/korall.c`) | `thread_arr` of `MAX_THREADS` entries on the stack of `server_run`, one mutex, the loop's locals | `server_run` | pool, sockets, TLS |
| thread pool (`src/server/http/server_http.c`, `src/thread/`) | entries `{thread, running}` | `sync_threads`, `create_data_process_thread`, the end of `process_incoming_data` | dynamic array, OS threads |
| connection thread (`server_http.c`) | receive buffer, `is_websocket`, `ws_route`, `close`, the SSL object | `process_incoming_data`, `http_process_request`, `websocket_process_data` | parser, responses, frames, routes, pool |
| dynamic array (`src/array/`) | bytes, size, capacity | get, set, push, pop, remove, remove_list, clear, find | pool, config, routes |
| HTTP parsing (`src/http/http.c`) | `HTTPRequest` in an arena | start line, target, header lines, body; `korall_request_*_get` | lookup tables, header validation |
| header validation (`src/http/http_headers.c`, `src/utils/date/`) | `req->connection`, `host`, `upgrade` | one function for each header that is checked | lookup tables |
| responses (`http.c`) | `HTTPResponse` in an arena: text, write position, header count | `korall_response_start_set`, `_header_set`, `_body_set`, `http_response_send` | header validation, sockets |
| CORS (`http.c`) | none | `http_verify_origin`, `http_allowed_methods`, `http_allowed_headers` | config, responses |
| WebSocket (`src/http/websocket/`) | `in_wsf`, `out_wsf` in an arena | decode, construct, encode, send | sockets, routes |
| TLS (`src/http/tls/`) | `SSL_CTX` | context with certificate and key | OpenSSL |
| configuration (`src/config/`) | `g_config` | `config_init` from `korall_config.json` | cJSON, array |
| routes (`src/http/routes/`, `korall.c`) | two arrays | init, add, find | array, connection threads |
| logging (`src/utils/logging/`) | log file, `log_mutex` | `log_msg` | all |
| sockets (`src/socket/`) | none | listen, accept, receive, send, close; checks of ports, names and addresses | OS |
| arena (`src/arena/`) | memory, offset | init, alloc, clear, free | parser, responses, frames |
| SHA-1, base64, strings (`src/utils/`) | none | pure functions | upgrade, parser |
| lookup tables (`src/lookup/`) | none | string to number and back | parser, validation |
| proxy server (`src/server/proxy/`) | none | an empty stub | – |
| cJSON (`deps/cjson/`) | – | third-party parser | config |

The main thread and the connection threads share the thread array (under the mutex,
except for two reads of its size), the socket handles of the process (which the
kernel reuses), the C library's `struct tm`, and the log. A connection thread owns
its buffers and arenas. Route callbacks of the application run in the connection
thread. Everything else is called synchronously.

### What is hard, and which properties make each part correct

`PROJECT.json` lists the hazards at their lines. In short:

- **Pool.** A thread marks its array entry by an index fixed at its creation, while
  `sync_threads` moves the entries; joins happen under the mutex that an ending
  thread needs; `socket_close` runs twice per thread while handles are reused.
  Correct means: each thread is listed once and joined once, the list of removals
  stays right while the array shifts, no more than `MAX_THREADS` threads, an answer
  goes to the connection that asked, the accept loop always comes back.
- **Connection.** One `recv` is taken for one message; an upgrade changes the
  protocol for both ends at once; early returns send nothing and leave memory.
  Correct means: both ends change protocol together, each request is answered, the
  connection ends when it was asked to and only then, routes get their bodies, a
  TLS connection stays on TLS.
- **WebSocket.** Three length encodings, masking, byte order, binary data handled
  with `strlen`. Correct means: what a client encodes by RFC 6455 is what is
  decoded, and what is sent decodes to what the route answered.
- **Configuration, routes, CORS.** Lists that are cleared before they are refilled,
  limits, and later code that relies on what the lists can contain.
- **Date and log.** Unsynchronised static memory of the C library.
- **Parser.** Scanners with several local counters and small buffers, whose limits are
  off by one here and there; headers are found by the first place where a name occurs in
  the text. Correct means: the target scanner accepts a stated grammar, a lookup
  returns the value of the line that was meant or nothing, lists and dates are judged
  as their grammar says.
- **Responses.** A callback calls the functions that write a response in any order
  and may ignore their results; each function checks a limit of its own, and the
  buffer they are joined in has no limit but its size. Correct means: no text leaves its
  buffer, whatever is called, and a body goes out with its own length.
- **Arena, array, SHA-1, base64.** Address arithmetic, alignment, overlapping moves,
  padding at block borders. Correct means: blocks do not overlap, bytes are those of
  the elements, digests are those of the padded message however it is split.

## 2 Modules

`MC*.tla` give values to constants; every other module can be read alone. A
definition marked "Fault:" is a wrong variant of the definition after it. No
specification uses it: it is there to show that the runs notice such a mistake.

| module | models |
|---|---|
| `ArrayList` | `src/array/array.c` as its callers see it: a sequence and a capacity |
| `ThreadSlots` | abstract: what a pool of threads promises |
| `ThreadPool` | `server_run`, accepting, `sync_threads`, thread creation, the skeleton of `process_incoming_data`, clients, socket handles; implements `ThreadSlots` |
| `WsFrame` | decoding and encoding of frames, byte by byte (operators only) |
| `WebSocket` | one upgraded connection: frame in, route, frame out |
| `Connection` | one connection from the handshake to its end, with its client |
| `Config` | `korall_init` to the first preflight answer: configuration, route capacity, CORS |
| `DateHeader` | the Date header and the log, two users of one `struct tm` |
| `Text` | text as tokens, and the searches of `src/utils/utils.c` in it (operators only) |
| `RequestTarget` | the scanners of request targets and query parameters, and the grammar they follow |
| `HeaderValues` | `src/http/http_headers.c`, the checks of values, and dates |
| `HeaderFields` | header lines, what the parser keeps of them, and lookups in the kept text |
| `Arena`, `ArenaUse` | `src/arena/arena.c` as operators; an arena in use |
| `Base64`, `Sha1` | `b64_encode`; `src/utils/sha1/sha1.c` without the rounds on a block |
| `Response` | the response object: buffers, limits, and the functions that write to it |
| `Exchange` | `http_process_request` from received text to sent text, with a callback; extends the modules of target, headers and response |
| `ArrayMem` | the bytes behind an array and what `array.c` does to them, against `ArrayList` |
| `MCLibrary` | `Exchange`, `ArrayMem`, `ArenaUse`, `Sha1`, `DateHeader` and the calendar side by side |
| `Lemmas` | proofs about folds and loops and about `Arena`, for the modules below |
| `HeaderFields_proofs` | proofs about `HeaderFields`, `HeaderValues` and parameters: what is found in texts of any length |
| `ThreadPool_proofs`, `Connection_proofs`, `WebSocket_proofs`, `Config_proofs`, `Exchange_proofs`, `Library_proofs` | the theorems of section 5 |

`ThreadPool` and `Connection` model the same loop from two sides. `ThreadPool` has
many connections and forgets what is said on them: its action `Process` is "the
answer was sent, and the connection goes on or ends". `Connection` has one
connection and says what that answer is. `WebSocket` and `WsFrame` in turn say
which bytes the frames of `Connection.ProcessFrame` are. `Exchange` opens what
`Connection.Outcome` takes as given: there a request is a record of flags, here it is a
target and a list of header lines, and the answer is made step by step.

### ThreadPool

| code | model |
|---|---|
| the place of the main thread in `server_run` and its locals | `main.pc`, `main.conn`, `main.sock`, `main.num` (= `args->thread_num`), `main.i`, `main.removeList` |
| `thread_arr` | `threadArr`, entries `[thread, running]` |
| the mutex | `lock`; in the Windows build (`Posix = FALSE`) no lock is taken |
| a connection thread | `worker[w]`, named after the connection it was made for: place, handle `fd`, index `num`, and `on`, the connection its `recv` found behind the handle |
| socket handles | `fdTable`, from handles to connections |
| the far end | `client[c]`: open, closed ("fin") or reset ("rst"), bytes waiting, shut down by the server |
| the listen queue | `backlog` |

`server_run` is `Accept`, `Handshake` (if `Secure`), `SyncBegin` … `SyncEnd`, then
`Drop` or `PrepareArgs`, `CreateThread`/`CreateFails`, `PushThread`. The lock is a
variable and not an atomic block, since the point is what happens while it is held.
`ScanJoin` is guarded by the end of the thread it joins: that is `pthread_join`.
`socket_close` is two steps, shutdown and close, and each `recv` is two: the handle
is looked up at the call, the data comes later. `Finish` sets `running` at the
thread's own index, which may be another thread's entry; past the end the code
reads through NULL, which is a crash or not (`up'` is nondeterministic there).
`CreateFails` returns as the code does and leaves the socket open.

A connection's name stands for a new connection as soon as nothing refers to the
old one, so a handle or a name is reused for ever in a finite model. Names are
symmetric.

### Connection

A request is a record of what the code asks of it: where its first syntax error is,
its protocol version, whether `Connection: close` comes first, and so on. `Outcome` is the order
of the checks in `http_process_request` and
`http_process_request_construct_response`: a later check is reached only when the
earlier ones passed. Bytes travel as pieces. A message may be cut behind its start
line, inside its headers, or behind them; `Recv` returns one or more pieces, and
`Parsed` says what the parser makes of the first. The client (`Send`, `Read`,
`HangUp`) takes turns unless `Pipelines` is set, and always waits for the answer to
an upgrade. `arenas` counts memory that no `free` is left for. The Date header's
month is checked against the table, because `korall_response_header_set` does so.
`setting` holds what does not change during a connection: whether the server uses
TLS, whether the client does, whether any method is allowed, the month, whether
messages may be split or sent without waiting. The properties that hold only in some
settings say in which.

### WebSocket and WsFrame

`Decode`, `Construct`, `Encode` and `Sent` are the four functions of `websocket.c`
on byte sequences; the other half of the comparison (`FrameStart`, `ClientBytes`,
`ServerBytes`) is written from RFC 6455, section 5.2. `Sent` cuts the frame at its
first zero byte: the code passes `strlen` of it to `send`. The close frame 88 02 03
E8 has no zero byte, which is why it comes through. A length counts up to `LengthCap`,
256 * 256 * 256; beyond it is only known to be larger. What a byte of a number and a bit
of a byte count for are tables (`Weight`, `Power`).

### Config

A field of the file is missing or has a value; of a text only the length counts. The
actions follow `config_init_inner` from top to bottom and stop early where it
returns. `RoutesInit` computes the capacity that `array_push` compares with;
`Preflight` is what an OPTIONS request gets.

### DateHeader

`struct tm` has two fields here, a day and an hour, written one after the other and
read one after the other: the least with which a torn value shows. `gmtime` and
`localtime` write to the same one, as in the GNU C library (POSIX allows it).

### Text, RequestTarget, HeaderValues, HeaderFields

A text is a sequence of tokens: separators, words, and a few tokens that stand for a
long piece (`x63` is a label of 63 letters, `x2K` two thousand of them). The code never
cuts a token but for the first letter of a value whose colon has no space behind it
(`CutFirst`). Only what is compared with a length needs the length of a text
(`TextLen`, `Fits`). What was decided character by character in the code is decided
token by token, in the same order and with the same counters.

`RequestTarget` has `http_request_process_target_relative`, `_absolute` and
`http_domain_port_process` as they scan (`RelativeOk`, `AbsoluteOk`, `DomainPort`),
`korall_request_param_get`, and separately the grammar (`IsRelative`,
`ParamValue`). `HeaderValues` does the same for values, most of all for Cache-Control:
`CacheControlReqOk` is the loop with its three searches, `IsCacheControl` the grammar.
`HeaderFields.ReadFields` is the loop over the lines; `HeaderGet` is
`korall_request_header_get`, which searches the text that was kept, and
`ReadableLine` is the line that a reader of the text would take.

### Response, Exchange

A response is the lengths of its texts and the counts of its headers. `HeaderSet`,
`StartSet`, `BodySet`, `Construct` and `ConstructUpgrade` are the functions of
`http.c`, with what each leaves behind when it fails half way ("ok" is what the last
one returned). The sizes are those of `http.h`; only the number of headers is a
constant, `HeaderCapacity`.

`Exchange` follows `http_process_request`: `Parse` (`Parsed` says where
`http_request_parse` stopped), `Judge` (the host, then CORS), `Options` (a
preflight), `Route` (the upgrade, the 204, the search for a route), the calls of a
callback (`CallStart` … `CallBody`), `Return`, `Send`. An error goes through
`Fail` to the end. The callback is arbitrary: it calls any function, in any order,
up to the bound in its case.

### ArrayMem, Arena, Sha1, Base64

`ArrayMem` keeps the bytes of an array, moved by `memcpy`, `memmove` and `memset`, beside
the sequence that `ArrayList` makes of the same calls; `HoldsList` compares them.
Elements have no zero byte, so that bytes left behind the end show. `Arena` has
addresses as offsets; `ArenaUse` allocates, clears and frees in any order.
`Sha1` takes a message in pieces and keeps blocks, padding, and the context's two marks;
a digest is the list of its blocks. `Base64.Encoded` is the loop over triples of
bytes, `IsEncodingOf` compares bits.

## 3 Runs: what they check and show

Every run finishes within about two minutes on two cores. "Pass" runs explore their whole state
space; deadlock is not checked because the clients may stop sending, an exchange
ends and the bounds may be used up, which is no fault of the server. `pool_windows`
and `connection` check progress in its place.

| run | expects | what it shows |
|---|---|---|
| `pool_posix` | pass | the bookkeeping of the thread array is right in every interleaving: `EveryThreadListedOnce`, `RemoveListIsJoined`, `UnlockedSizeStaysTrue`, `StaleIndexIsAhead`; the mutex keeps scan, creation and ends of threads apart (`LockExcludes`); the pool implements `ThreadSlots` |
| `pool_windows` | pass | without the lock the accept loop always comes back, and queued connections are accepted |
| `pool_server_closes` | pass | if only the server ends connections, one `socket_close` per thread happens, and handles and connections are never confused |
| `join_deadlock` | violation | a thread with a stale index marks another one, and the accept loop joins that running thread under the lock that it needs |
| `handle_reuse` | violation | the second `socket_close` hits the next connection |
| `websocket` | pass | short frames are read back, lengths are written in network order, short texts without a zero byte are echoed whole, close and unmasked frames are answered by whole close frames (its type invariant is proved instead, section 5) |
| `websocket_length` | violation | lengths from 126 on are read in host order |
| `connection` | pass | in seven settings: both ends switch to WebSocket together (`ProtocolsAgree`); an answer is the last one exactly if its message asked for that (`EndsAsAsked`); memory is left behind by unanswered requests only; HTTP answers and echoes keep the channel of the handshake; routes find their bodies; every request is answered or the connection ends; a leaver is noticed |
| `september` | violation | no 404 is sent in September |
| `config` | pass | port and texts stay in range, the wildcard stays alone, CORS origins are allowed ones, any list of different methods can be written |
| `library` | pass | the sequential parts, each explored while the others rest: what is below |
| `date_race` | violation | a Date header shows a time nobody asked for |

`library` asks twelve questions of parts that share no state, and is one run because
they need about two minutes together (about 620 000 states):

| property | what it says |
|---|---|
| `WritesStayInside` | no text of a response runs into the next block of its arena; the first blocks of both arenas fit |
| `SendBufferHolds` | what `http_response_send` joins with `sprintf` fits its buffer |
| `AnswersAreFramed` | the last Content-Length is that of the body, unless the callback has set that header itself; the library's own responses have exactly one |
| `TargetFollowsGrammar` | the scanner with four local counters accepts exactly the targets of the grammar |
| `LookupReadsLines` | a header lookup returns the value of the first line with the name, if a reader could take it, and nothing if no line begins with it; parameters likewise |
| `CacheListIsJudged` | Cache-Control of requests is judged as by the grammar; of responses nothing else is accepted |
| `ArrayIsList` | the bytes of an array are its elements, and none is left behind |
| `BlocksStayApart` | blocks of an arena are aligned, inside it and apart |
| `AcceptKeyIsRfc` | digests are of the padded message however it was split; base64 holds the bits |
| `LinesAreWhole` | the two pieces of a log line stand together |
| `DatesAreJudgedRight` | `http_process_date` accepts the days of the calendar but those of September |
| `TypeOK` | the types of `Exchange` |

`SendBufferHolds` is closer than it looks. The longest phrase (444) makes a start
line of 49 characters where `HTTP_RES_START_LINE_LEN` has 48, a body begins with a CRLF
that no limit counts, and `sprintf` adds a zero byte: four characters too many for
a buffer that has one to spare. It holds because a body is written only after its own
Content-Length, which takes 25 characters of the 8192 that a header may have. The
mutant that writes the body first breaks it.

### Bounds, and why they are enough

- **Pool.** Two threads, three connections, two or three handles, a listen queue of
  one. A removal can move another thread's entry only with two entries, a handle
  can be reused only if a third connection waits, and the pool can be full. The
  theorems of section 5 hold without these bounds. `pool_windows` has one
  thread and clients that close but do not reset, as liveness allows no symmetry
  reduction; a full pool, a drop, a reused entry and a third connection in the queue
  all happen. `pool_server_closes` has three handles, so
  that a dropped connection does not use up the handles that a second thread needs.
- **Connection.** Up to three messages: an upgrade, a message on the upgraded
  connection, and one more; two where messages are split, since one of them already
  meets everything a part can be taken for. `MCRequests` has a request for each way
  through the code. Months are May, in which `%b` and the table agree as in all others, and
  September, in which they do not.
- **WebSocket.** Payloads of 0, a few, 125 and 126 bytes, with and without zero
  bytes; answer lengths on both sides of 125/126 and 65535/65536; two masking keys.
- **Config.** Texts and ports on both sides of each limit, lists of every kind,
  limits of two for origins and headers in place of 100 (the code compares with the
  limit only), and the real limits for methods.
- **Library, exchange.** Every relative target of up to three characters and every
  query of up to four, over an alphabet that has each kind of character the scanner
  tells apart, so every pair of its branches follows each other; hosts with labels on
  both sides of 63 characters; Cache-Control lists of up to three of eleven items,
  one for each way a directive can end; up to three of twelve lines whose names and
  values contain each other, with no, one or two spaces; for every other header one value
  for each branch. A callback makes up to four calls of every kind, or fourteen of
  the longest headers where `HeaderCapacity` is 12 instead of 100: two more than fit.
  Section 5 proves the two properties of buffers without these bounds. Twelve, since the
  library itself sets up to nine headers before a callback's own.
- **Library, the rest.** An array of four elements of two bytes: removal at the
  beginning, inside and at the end. An arena of 100 bytes with blocks of 0, 1, 16, 17 and
  40: all residues that alignment distinguishes, full and too full. SHA-1 messages of up
  to 130 bytes in pieces of 0, 1, 23, 27 and 64, so that 55, 56, 63 and 64 bytes in a block
  all occur. Base64 of up to five bytes. Days of eight years: both ends of the range,
  leap years, centuries.
- **DateHeader**, in `library` and `date_race`. Two threads, two hours per day, times 0 to
  2, three pieces of log text: one complete line and the first part of the next. A third
  thread adds no new conflict on a struct that any second one can overwrite.

### What the passing runs do not say

`BodyIsComplete` asks for whole bodies only where requests arrive whole and one at a
time: one `recv` is taken for one request, so a body that comes later is parsed as a
request of its own and answered with 400. `OneThreadPerConnection` passes only if
clients do not hang up (`handle_reuse` shows the rest). `EveryRequestAnswered` leaves
out September, requests sent together, and routes that never call
`korall_response_start_set`, for which the code sends nothing. `AnswersKeepTls` says
that the plain client of a TLS server is served in the clear, which is what the code
does, and leaves out pong and close frames, which carry no SSL object and are sent in
the clear on any connection. `LinesAreWhole` is about the order of the two writes of
`log_msg`, not about the buffering of the file. `AnswersAreFramed` leaves out callbacks
that set Content-Length themselves. `LookupReadsLines` says nothing of a line whose
value has no or two spaces before it, or whose name an earlier line mentions:
there the code returns something else, or nothing. `ProtocolsAgree` leaves out the later
parts of a message that was cut: behind an upgrade request whose body comes in a second
`recv`, that body is read as a frame. `EchoIsWhole` leaves out payloads with a zero
byte, which come back cut, and would not notice a ping that reached a route; that it
does not is the definition `WebSocket.Answers`. `EndedThreadLeavesNoHandle` is checked
where only the server ends connections, and `QueuedIsAccepted` assumes that a handle
becomes free again and again: neither forbids the handles that are lost when `shutdown`
fails. `AnsweredRequestsLeaveNoArena` allows the arenas of unanswered requests, which
the code does leave behind. `MethodsFit` is about lists of different methods.
`DatesAreJudgedRight` has September as an exception. `CacheListIsJudged` is an
equivalence for requests only: valid directives of responses are refused, see
section 6. `TargetFollowsGrammar` is about relative targets; absolute ones have no
reference but the code.

## 4 Fairness

Safety properties are checked without fairness. The live runs assume:

- `Fairness` of `ThreadPool`: weak fairness of the main thread and of each connection
  thread. The operating system schedules a thread that can run. Weak fairness is
  enough although threads compete for the mutex, since in the build that the
  run covers no lock is taken; in the POSIX build the accept loop does get stuck
  (`join_deadlock`). Clients have no fairness: they may be silent for ever, and
  a `recv` may wait for ever.
- `FairSpec` of `Connection`: weak fairness of the connection thread, and of `Read`, a
  client that reads what has come. Nothing makes a client send or leave. A handshake
  whose client never speaks blocks, and no property claims otherwise: a TLS client
  has sent its hello when it connects, and cannot ask before its handshake is over.

## 5 Proofs

### The thread pool

`ThreadPool_proofs.tla` proves, for every set of connections, every number of
threads and handles, both builds, with and without TLS:

| theorem | statement |
|---|---|
| `Inductive` | `Spec => []IInv` |
| `TypeCorrect` | `Spec => []TypeOK` |
| `ThreadsListedOnce` | `Spec => []EveryThreadListedOnce` |
| `RemovesExactlyJoined` | `Spec => []RemoveListIsJoined` |
| `UnlockedSizeIsRight` | `Spec => []UnlockedSizeStaysTrue` |
| `IndexNeverBehind` | `Spec => []StaleIndexIsAhead` |
| `PoolImplementsSlots` | `Spec => ImplementsSlots` |

The only assumption is `PoolAssumption` on the constants: `None`, `Server` and the
connections differ, and the numbers are positive. TLC evaluates it in every pool run.

None of the properties is inductive alone. `RemoveListIsJoined`, for one, survives a
removal only if the list ascends and every index in it is below the size: taking the
largest index first then leaves the other indices valid. And a joined
thread's entry can be told from others only if no two entries name one thread. The
inductive invariant therefore is

    IInv == TypeOK /\ EntriesInv /\ MainInv /\ BacklogInv /\ RemoveListInv

- `EntriesInv`: entries name different existing threads, each at its own index or to
  the left of it, and each thread is listed once it is pushed.
- `MainInv`: the connection in the hands of the main thread has no thread yet, and
  the number prepared for it is still the size of the array.
- `BacklogInv`: a connection in the listen queue has no thread and waits once. With
  it, `Accept` establishes `MainInv`.
- `RemoveListInv`: the list of removals ascends, is below the scan and below the
  size, and is `RemoveListIsJoined`.

The proof that a step preserves it has one lemma per action that touches the array
or the list (`ScanJoinInv`, `RemoveOneInv`, `CreateThreadInv`, `PushThreadInv`, …)
and one for all steps that leave both alone (`QuietInv`). Worker steps are quiet
with one exception, `Finish`, which changes a `running` flag: nothing in `IInv`
speaks of the flags, and so the bookkeeping is right **whatever** the stale
indices mark. That is the precise line between what holds and what
`join_deadlock` refutes. `RemoveIndexFacts` states what `array_remove` does to a sequence.

`PoolImplementsSlots` maps `occupied` to the threads that exist and `ended` to those
whose code has returned. A step of the pool is a `Spawn` (`CreateThread`), an `End`
(`Unlock`), a `Reap` (`RemoveOne`) or leaves both alone. That a slot is free when
a thread is created (`SlotIsFree`) is a counting argument: the threads that exist are
those of the array, whose size is below `MaxThreads`.

Two more invariants rest on `IInv`:

| theorem | statement |
|---|---|
| `LockKeepsApart` | `Spec => []LockExcludes` |
| `HandlesAreOwned` | `HangUps = {}` implies `Spec => []HandleInv` |
| `ThreadPerConnection` | `HangUps = {}` implies `Spec => []OneThreadPerConnection` |
| `AnswersGoToRequesters` | `HangUps = {}` implies `Spec => []AnswersItsRequester` |
| `EndedThreadsLeaveNoHandle` | `HangUps = {}` implies `Spec => []EndedThreadLeavesNoHandle` |

`LockExcludes` is inductive with `IInv`. `HandleInv` says who owns each handle: the main
thread from `accept` to the creation of a thread, then that thread until its close, then
nobody, and no two owners have the same one. The hypothesis that no client hangs up
(`pool_server_closes` has the same) is not there for the sake of the proof: with clients
that do, `handle_reuse` refutes `OneThreadPerConnection`. A client that hangs up lets
`process_incoming_data` run `socket_close` twice, and between the two another connection
may get the number.

### The connection

`Connection_proofs.tla` proves, for every set of requests, frames and settings and any
number of messages:

| theorem | statement |
|---|---|
| `ConnectionInvariant` | `Spec => []IInv` |
| `ConnectionTypes` | `Spec => []TypeOK` |
| `BothEndsAgree` | `Spec => []ProtocolsAgree` |
| `NothingElseEnds` | `Spec => []EndsAsAsked` |
| `ChannelIsKept` | `Spec => []AnswersKeepTls` |
| `OnlySilenceLeavesArenas` | `Spec => []AnsweredRequestsLeaveNoArena` |
| `BodiesAreWhole` | `Spec => []BodyIsComplete` |

The parts of the invariant, each for one of the properties:

- `TypeInv`, with a bound on `arenas` that counts the pieces still to come;
- `ProtocolInv`: a pending upgrade is the last thing its client has sent, and behind the
  101 there are frames only. Without that, a piece in the stream could be taken for a frame
  by one end and for a request by the other;
- `ChannelInv`: the handshake decides the channel, and a TLS client whose handshake failed
  has left without a message;
- `WholeInv`: where nothing is split, a message is one piece;
- `TurnsInv`: where client and server take turns, one piece at most is under way, and it is
  of a message without an answer;
- `ArenaInv`: the arenas left behind are two at most for each message that is neither
  answered nor under way.

### WebSocket frames

`WebSocket_proofs.tla` proves, for every set of payloads, masking keys, routes and lengths:

| theorem | statement |
|---|---|
| `AnswersFollowFrames` | `Spec => []WsInv` |
| `FramesAreBytes` | `Spec => []TypeOK` |
| `ShortFramesAreRead` | `Spec => []ShortFrameIsRead` |
| `LengthsAreInNetworkOrder` | `Spec => []AnswerLengthIsNetworkOrder` |
| `EchoesAreWhole` | `Spec => []EchoIsWhole` |
| `ClosesAreAnswered` | `Spec => []CloseIsAnswered` |

`WsInv` has three phases: `Idle`, nothing has come; `Arrived`, the bytes in the buffer are
those of the client's frame; `Answered`, `out_wsf` and the wire are what the functions made
of it. The properties then follow from lemmas about the functions, which are the point:

- `XorTwice`: XOR with a key byte, written bit by bit, undoes itself (`BitsOfNumber`,
  `XorBits`), so unmasking what RFC 6455 masks returns the payload (`DecodedFrame`);
- `ReversedIsNetworkOrder`: the bytes of a number stored by a little-endian host, reversed,
  are its digits to the base 256 from the highest (`ThreeDigits`);
- `EncodeFacts`: an encoded frame is header, close code and data, one behind the other;
- `StrFacts`, `EchoIsSent`, `CloseIsSent`: what `strlen` cuts off. The hypotheses that
  a payload has no zero byte and is short are those of `EchoIsWhole` itself.

`EchoIsWhole` is about the echo route, which answers with a TEXT frame always, so a
binary payload comes back as text. `CloseIsAnswered` has fixed codes, as the code has:
1000 for every close frame, whatever code the client sent, and 1002 for an unmasked
frame.

### The configuration

`Config_proofs.tla` proves, for every file, every origin and all limits of lists:

| theorem | statement |
|---|---|
| `ConfigTypes` | `Spec => []TypeOK` |
| `WildcardAlone` | `Spec => []WildcardIsAlone` |
| `OriginsAllowed` | `Spec => []OriginsAreAllowedOnes` |
| `MethodsAreWritten` | `Spec => []MethodsFit` |

`ConfigInv` types the configuration, says that the methods are the default or names of
methods only, and ties the CORS headers to the configuration they were made from.
`ReadListFacts` is a statement about a fold: whatever the items of a JSON array, what
`array_push` leaves are acceptable strings, no more than the limit. `MethodsFit` is
arithmetic over all sets of methods: the lengths of different methods add up to the letters
of a subset of the nine names (`LengthsAddUp`, `OneMoreMethod`), at most 44, and eight
separators make 52, exactly the limit.

Facts about folds are proved without the induction theorems of the library, which
take an operator. A fold of the community modules is a recursive function on the subsets of
its set; `Lemmas.FoldExists` constructs that function from sets of n elements to those of
n + 1, and `FoldInduction` takes a subset without the property that is minimal
in the well-founded order of strict subsets. Both speak of functions and sets only.

### The exchange: buffers and framing of a response

`Exchange_proofs.tla` proves, for every set of requests, servers and callbacks, every
length of a custom header and every `HeaderCapacity`:

| theorem | statement |
|---|---|
| `SendBufferIsLargeEnough` | `Spec => []SendBufferHolds` |
| `BuffersHold` | `Spec => []WritesStayInside` |
| `AnswersHaveLengths` | `HeaderCapacity >= 9` implies `Spec => []AnswersAreFramed` |
| `ExchangeTypes` | `Spec => []TypeOK` |
| `TargetsFollowGrammar` | `Spec => []TargetFollowsGrammar` |
| `LookupsReadLines` | `Spec => []LookupReadsLines` |
| `CacheListsAreJudged` | `Spec => []CacheListIsJudged` |

The last three are the next section's. The assumptions, which TLC evaluates in
`library`, are

- `HeaderCapacityAssumption`: a positive number;
- `ExchangeAssumption`: the types of a case. Targets and lines are sequences of tokens
  of any length, and what is compared with a limit has a length. A line has no CRLF
  inside, since the lines of a case are those that a reader of the text sees;
- `NamesAssumption`: a name that is looked up is not empty and has none of the
  characters that end one (`:`, CR, LF in a field's, `=` in a parameter's);
- `WordsAssumption`: a space has length 1, and two directives of a request never fit
  the buffer of 14 characters for one, as the shortest has seven and a comma
  stands between them.

The properties of the buffers are not inductive. The lengths of the parts say nothing of their sum as
long as every header may be 8192 characters long and a body may exist without one.
The invariant (`ResponseInv`) therefore counts the headers:

- `HeadersFit`: the text of the headers is at most 8192 times their number, and 8167
  less than that as soon as one of them is a Content-Length (8192 less the 25 that this
  line has at most).
- `BodyHasLength`: a body is at most 1048578 long, and there is a Content-Length.

Each function that writes to a response has a lemma that it keeps the invariant
(`HeaderSetInv`, `ThenInv`, `StartSetInv`, `BodySetInv`, `ConstructInv`,
`ConstructUpgradeInv`), and so has each step, those of the
callback in `CallStepInv`. `SendBufferFits` and `InsideHolds` are what follows of a
single response.

`AnswersHaveLengths` has an invariant of its own, `FrameInv`: before a callback is called the
response has neither a start line nor a body nor a Content-Length, and three
headers at most after CORS, five after a preflight. `http_response_construct` adds four
(Date, Server, Content-Type, Content-Length), so nine must fit: otherwise it leaves the
body out and does not notice. `HTTP_RES_HEADER_COUNT` is 100. `ExchangeTypes` needs which
marks and hosts a section of header lines can leave (`ReadFieldsFacts`, a fold again).

### The exchange: scanners, lookups and lists

Each of these properties compares a loop of the code with a definition without one, on
texts of any length. A request is what the parser makes of its case (`ParsedHolds`), so
each property follows from what the functions return. Loops are modelled as folds, and a fold is
taken turn by turn: `Lemmas.FoldTurns` makes of it a function on `0 .. n` whose values are the
states of the loop behind each turn. An invariant of the loop is then an induction over
these numbers (`CountUp`).

- `TargetsFollowGrammar`. The invariants of the two loops, over the path and over the
  query, say what the counters and flags mean: `seg_len` is the distance from the last
  "/", `in_val` that an "=" came after the last "&". `PathOfPieces` and `QueryOfPieces`
  say the same of the grammar, which speaks of the pieces between separators. Both
  are turned into a condition on each token and its neighbours, and there they agree
  (`RelativeOkIs`).
- `LookupsReadLines`. `korall_request_header_get` searches the whole text of the header
  section. `Layout` numbers where each line begins; `LineOfPlace` finds the line of a
  place, and `LineOfMatch` shows that a place where the name stands is inside one line,
  because no name has the characters of a CRLF. So the first place of the name is the
  line of the reader if no earlier line mentions the name (`ReadableIsFirst`), and what
  is behind its colon, up to the next CRLF, is the value (`BehindColon`, `ValueEnds`).
  Conversely, something is found only where a line begins (`HeaderGetFinds`). The guard
  `at > 2` in `HeaderGet` is that of the code's two reads before the place.
  `ParamGetReads` is about parameters.
- `CacheListsAreJudged`. `Pass` is one pass of the loop, `PassOutcome` what it does by the
  places of the first "=" and the first ",". The reference reads items token by token
  (`ItemsOf`). `Judging` is the invariant that joins them: the loop stands at
  the beginning of the i-th item and all items before it are directives whose names fit,
  or it has returned and the grammar says the same (`ItemIsJudged`, `JudgingGoes`). The
  hard case is an "=" behind a comma: then the code takes all in front of "=" for a name
  if that fits the buffer. Two directives of a request never fit (`WordsAssumption`):
  if several items do, one of them is no directive, and the grammar has no such list
  either (`TwoNames`). In a response two can fit 21 characters, the list is refused, and
  only one direction is true and proved.

### The log, the arena, the array, the calendar and the accept key

`Library_proofs.tla` is about `LibrarySpec`, the specification of `library`, in which the
other parts rest:

| theorem | statement |
|---|---|
| `LogLinesAreWhole` | `LibrarySpec => []LinesAreWhole` |
| `BlocksApart` | `LibrarySpec => []BlocksStayApart` |
| `ArrayHoldsList` | `LibrarySpec => []ArrayIsList` |
| `DatesAreRight` | `LibrarySpec => []DatesAreJudgedRight` |
| `AcceptKeysAreRfc` | `LibrarySpec => []AcceptKeyIsRfc` |
| `EncodedIsRfc` | every sequence of bytes is encoded as RFC 4648 asks |

The first holds for any number of threads. Its invariant: who is inside `log_msg`'s
critical section holds the mutex, and if the last piece of the log is a stamp, its writer is
about to write the message. Any other thread is then kept out by the mutex.

`Lemmas.tla` states what `arena_alloc` does when a block fits (`AllocFits`), where four
blocks come to lie (`FourBlocks`, for `http_response_init`), and that a block takes at
most fifteen bytes over its size (`AllocRoom`). With that, `RequestArenaHolds` adds up
the ten blocks of `http_request_init`: the 1024 bytes of slack are enough. `BlocksApart`
proves that blocks are aligned, inside and apart for an arena of any capacity and blocks of any
sizes; its invariant is the property and the type of the arena, as every block ends at
`cur` at the latest.

`ArrayHoldsList` holds for any capacity, any size of an element and any bytes. Its invariant,
`Holds`, is the property with the type of the memory. `OffsetFacts` says that elements lie
one behind the other, which is all the arithmetic there is; after that each of the moves of
`array.c` has a lemma (`PopHolds`, `MovedHolds`, `RemoveHolds`, `PushHolds`, `SetHolds`,
`ClearHolds`). `array_remove_list` needs two inductions at once (`RemoveListHolds`): the
memory after some removals from the end holds the list without their elements, and
`WithoutOneMore` says that the list without one more element, in front of all the others that
go, is what `array_remove` makes of it at the *same* index. That is why the order matters:
`RemoveForward` starts from the smallest index, and the lemma has no counterpart for it.

`DatesAreRight` holds for any years, not only those of the run: `LeapDays` compares the rule
by remainders with the list of the centuries without a leap day, and `ValidDates` the limits
of the days with the table of the days before each month.

`AcceptKeysAreRfc` holds for calls of any lengths and every message of less than 2^32 bits
(`MessageAssumption`; the low word of the counter, the high one is never reached). Its
invariant, `ShaInv`, says that the context behind n bytes is `Ctx(n)`: the full blocks,
the open one, and eight times n in the counter. `PutNext` is a byte more, and `PadShape` and
`PaddedText` say that `SHA1PadMessage` makes of it the blocks that the standard hashes,
with one block more from 56 bytes on. `EncodedIsRfc` compares the characters of
`b64_encode` with the bits of the bytes, for texts of any length: `Triple` and `Shifts` are
the two halves of the loop, and each of the four characters of a group has a lemma.

### Only model-checked

- Liveness: `AcceptLoopReturns`, `QueuedIsAccepted`, `EveryRequestAnswered`,
  `LeaverIsNoticed`. The prover has no rules for fairness, and ENABLED is out of its reach.

Every safety property of a passing run is a theorem.

## 6 Findings

Each violation run refutes one statement of the repository's own text;
`PROJECT.json` quotes it.

1. `join_deadlock`: the index in `thread_num` goes stale, so an ended thread marks a
   running one, and the accept loop then waits for it under the lock.
2. `handle_reuse`: `socket_close` at `server_http.c:645` and again at 675.
3. `september`: `"Sept"` in the month table, `"Sep"` from `strftime`.
4. `websocket_length`: the length bytes of a frame are read in host order.
5. `date_race`: `gmtime` and `localtime` in several threads.

The models also contain, faithfully, behaviour that differs from the documentation
and for which there is no run of its own:

- a client whose TLS handshake fails is served in the clear (`Connection.HandshakeFails`);
- a body of a GET request is not refused (`BodyRead`; the result of
  `http_request_process_body` is ignored at `http.c:50`), and a split request loses its body;
- one byte of a pong is sent (`WsFrame.Sent`: `strlen` of 8A 00);
- a repeated method is listed twice (`Config.CompInt`: addresses are compared), and
  then the method text can be a character too long;
- the capacity of the route arrays is 24 times the documented one (`RoutesInit`);
- a text of exactly its maximum length leaves no room for the zero byte (`ReadText`);
- the documented default of `allow_methods`, written into the file, allows no method
  (`ReadList` clears the list before it looks at the first string);
- a header name that begins with the name looked up is taken for it ("Accept" finds
  "Accept-Language"); two spaces behind a colon leave one in the value, so that
  "Connection:  close" does not close; no space costs the value its first letter
  (`HeaderFields.HeaderGet`);
- a directive name longer than the search's limit ends the check of Cache-Control
  with success, so "stale-while-revalidate" is accepted unjudged; and the limit of 21
  for responses lets the search for "=" run over a comma, so "public, max-age=3600" is
  refused (`HeaderValues.CacheControlResOk`);
- no date in September is accepted in a header (`DateOk`);
- an absolute target is kept whole and so matches no route; "http:///a", with an empty
  host, is accepted (`RequestTarget.AbsoluteOk`);
- a callback that sets the body twice sends two Content-Lengths (`Response.BodySet`);
- data behind an empty header section is read as a header (`Exchange.CaseType`
  leaves such requests out).

## 7 What is not modelled

- The proxy server is an empty stub, cJSON is third-party code, TLS is OpenSSL's.
- `cleanup` is never reached: `server_run` has no exit.
- The eighty rounds of SHA-1 on a block, and its counter from 2^29 bytes on, which no
  caller reaches: the accept key has 60 bytes.
- Spelling: which characters make a word. The tables of methods, fields, media types and
  phrases are cut to the rows that occur; IPv6 addresses are never valid as a host, as
  in the code.
- `array_find` and the other functions that change nothing; `socket_listen`, which
  runs once before all else.
- Wording, formatting and logging of values; `websocket_frame_log_hex`.
- Memory beyond a buffer. `websocket_frame_decode` (`websocket.c:80`) unmasks `length` bytes
  in place, so a length that is read wrongly or announces too much takes the loop past
  the receive buffer; `WsFrame.Unmask` changes only the bytes that are there. The value
  of `Connection` is filled into `con[20]` with a limit of 20 (`server_http.c:465`), and the
  zero byte behind a value of 20 characters is written one place too far; values in
  the models have a length and no zero byte.
- Close frames without the FIN bit, which no client may send: the code answers them with
  nothing and ends the connection (`server_http.c:100`). `WebSocket.Legal` leaves
  them out.
- Failure of `malloc` (the code exits), of `SSL_new`, and of a write.
- The crash that a signal such as SIGPIPE causes is an action of `ThreadPool`
  (`BrokenPipe`), but the code promises nothing about it.

## 8 Plan

Each component that has state of its own is modelled or partly modelled, as `PROJECT.json`
says of each; what the models leave out is in sections 3 (what the passing runs do not
say) and 7. Every safety property that a passing run checks is a theorem, and what
stays with TLC is liveness. If the code changes, the proofs that depend on it most closely
are those of its loops: an invariant of a loop in `HeaderFields_proofs` or `Exchange_proofs`
names the counters and flags of the scanner it is about.
