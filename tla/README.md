# A TLA+ model of imonitor

imonitor follows logins recorded in `/var/log/wtmp`, keeps a formatted copy in
`./auth.log`, and serves that file (and any other in its directory) through a
small asynchronous web server. One process, one thread, one epoll instance.

## 1. Inventory

| Component | Source | State | Operations | Talks to |
|---|---|---|---|---|
| web server | `imonitor.c` | one `struct connection` on the heap per client, its state, its descriptors, its AIO context | `handle_new_connection`, `handle_client_request`/`receive_message`, `handle_work` (header, `read_data`, `send_data`), `handle_work_done`, `connection_remove` | epoll, Linux AIO through eventfds, clients' sockets, the HTTP parser, the file system |
| epoll wrappers | `w_epoll.h` | none; the kernel's interest list and descriptor table | add / modify / remove with a pointer | the kernel |
| log collector | `imonitor.c` (`main`, `create_logfile`, `write_log`) | offset of `logfd`, inotify watch, `getutxent` cursor | copy the history, watch, append the last record | wtmp, inotify, `./auth.log`; the web server, which serves that file and shares the thread |
| HTTP parser | `http-parser/` | `struct http_parser`, one global instance | `http_parser_init`, `http_parser_execute`, callbacks | `receive_message()` |
| request and header helpers | `utils.c` | none | headers, `is_file`, `is_req_finished` | the web server |
| socket helpers | `sock_util.c` | none | listener, peer address | the web server |
| list of records | `list.c` | - | not compiled (`Makefile.am` does not name it) | - |
| logging, build, parser tests | `debug.h`, `Makefile.am`, ..., `http-parser/test.c` | - | - | - |

What makes each one hard, and what makes it correct:

* **Web server.** A connection owns up to three descriptors (socket, file,
  eventfd), a heap block and an AIO operation, each with its own lifetime; the
  epoll list holds raw pointers to the block; descriptor numbers are reused at
  once; several fields are used uninitialised; any failure is `exit()`. It is
  correct if no event reaches a freed block, if there is never more than one
  operation on a connection's buffer, if the loop blocks only for work that
  exists, if every client gets exactly the bytes of its file in order, and if
  every request is answered completely.
* **Log collector.** wtmp grows between any two of its system calls, inotify
  merges modifications, an entry is four `write()` calls, and the process can be
  killed and restarted on top of an old log. It is correct if the log holds whole
  entries in order, each login once, and none is lost.
* **Receiving a request.** The bytes arrive in any pieces, the end of a request is
  guessed from the last four of them, the buffer may fill up, and the parser and
  the path it leaves are globals of all connections; which string of the request is
  stored as path is settled by the place of a value in an initializer. It is correct
  if no whole request is refused, and if what is stored is not cut, not mixed with an
  earlier request's, and a path.
* **HTTP parser.** The stream may be cut anywhere, with only the fields of the
  struct (one of them in a byte) carried over; the struct is reused between
  connections without being cleared. It is correct if cuts make no difference,
  callbacks come in order, and bodies have the length that was announced.

`PROJECT.json` lists the hazards one by one, at the line where each bites.

## 2. Modules

| Module | Models |
|---|---|
| `Descriptors` | descriptor table (lowest free number first), epoll interest list, the wrappers of `w_epoll.h` as operators on it |
| `Imonitor` | the event loop: one action per handler; the kernel completing operations; the clients; logins that lengthen the served log |
| `Transfer` | what the server promises a client: header, exactly the announced bytes, end of stream |
| `MCImonitor` | file sizes and symmetry for TLC |
| `ImonitorProofs` | theorems about `Imonitor` in any surroundings: types, pointers, buffers, states |
| `Ownership` | no new state: named restrictions of `Imonitor`'s constants, and the invariants that hold under them |
| `OwnershipProofs` | theorems: who owns a descriptor, what the loop blocks on |
| `DeliveryProofs` | theorems: each client's bytes, from the header to the end |
| `UptimeProofs` | theorems: what the loop waits for, and that it does not DIE |
| `TransferProofs` | theorems: announced lengths, and the step simulation of `Transfer` |
| `LogCollector` | start-up, history copy, inotify branch, `write_log()`, crashes |
| `LogCollectorProofs` | theorems about `LogCollector` |
| `HttpParser` | `http_parser_execute()` one character at a time, and its inductive invariant |
| `HttpParserProofs` | theorems about `HttpParser` |
| `ReceiveMessage` | `receive_message()` byte by byte, with `is_req_finished()`, `on_path_cb()` and an instance of `HttpParser` for the parse |
| `MCReceiveMessage` | seven requests for TLC |
| `ReceiveMessageProofs` | theorems about `ReceiveMessage` |

### Imonitor

The server's process state is `proc` (running or exited) and `waiting` (the
connection whose `io_getevents()` blocks the thread); the kernel's is `fdtab`,
`interest` and `aio`; the heap is `alloc` and `heap`; the clients' is `client`,
`stream` and `clogged`; `size` and `logins` are the files and wtmp. The actions
have the names of the C functions. `handle_work_done()` is two actions,
`AwaitWork` up to `io_getevents()` and `handle_work_done` after it, because the
thread can wait there while clients and kernel go on; every other handler is
atomic, since nothing but the kernel and the peers runs beside it.

What is abstracted, and how:

* A connection's record has the fields the code reads. What `malloc()` leaves in
  `fd`, `eventfd` and `file_dimension` is drawn from `GarbageFds` and
  `GarbageDims` when the block is created.
* `DIE()` is `Exit`: the process stops, and what the handler had done is dropped
  with it, since its descriptors and memory are gone.
* A buffer is a header or a byte range of a file. Peers check what they receive
  with `Receive`: header first, then ranges without gap or overlap.
* The result of a failed operation is a negative number (`Failed`), which is added up
  as in the code: where a `size_t` holds it, it stands for the number it is congruent
  to, so that a sum can come back into range. `io_submit()` refuses a negative length
  or offset, and the server DIEs (`Submit`).
* A request is idle, part, whole, long (it has filled `recv_buffer` without an
  end), read or extra (there are bytes after it): whole is what
  `is_req_finished()` accepts, and what the parser makes of it is `path`. How
  `receive_message()` gets there, and that it is the URL, is `ReceiveMessage`.
* A path names a file, nothing, or a directory, which `access()` finds and
  `open(O_RDWR)` refuses. The size of a file is an `int`, `IntRange` values wide.
* An AIO operation is asynchronous, as its API allows. A socket takes a buffer
  whole, or, with the client move "short", a part of it. A descriptor that a stray `close()` hits leaves epoll at once,
  also with an operation in flight.
* `stream.eof` is the server closing the socket, not the process ending.
* Descriptor numbers are compressed: 0 is stdin; the descriptors `main()` opens
  once and never closes have none.

### LogCollector

One cell of `logfile.cells` is one entry, all of the same width; it holds the
number of its wtmp record, or `Torn`. `BeginEntry` and `EndEntry` are the first
and the last of the four writes, so that a crash can fall between them.
`RootLog` says whether `/auth.log` exists, which is the file `file_exists()`
really tests. `Rotate` is logrotate: records up to `first` are then in the old
file, which the inotify watch stays on, and which a copy in progress reads to its
end (`history`). The watch is on the file, so `watching` is false from then on;
`ReadLast` on an empty new file finds no record.

### HttpParser

`parser` is `struct http_parser` together with the locals of a call; `Return`
and `Save` are the end of a call, where those locals are written back in the
width of their fields, `Entered` the start of the next one. `whole` is a
reference: the same stream parsed by the same definitions in one unending call
on a cleared struct. `due` counts announced body bytes independently of
`content_length`. Characters are
case-insensitive classes; keywords keep the letters at which matching starts,
branches and ends; a version or a status code is its number of significant
digits (0.9 is a zero major and one digit of minor); methods are CONNECT, COPY,
HEAD and "other". `HTTP_PARSER_STRICT` is on, as it is by default. Two bounds
stop where the C program has no defined outcome: `MethodBound` (index past the
end of the string "CONNECT") and `ChunkBound` (a chunk size of 2^63 and more).
A call that returns early leaves older locals in the struct than the model does;
only `http_parser_init()` ever sees that struct again, and it is the caller's
duty not to use it otherwise (`call` is then "dead", "overflow" or "halted").

### ReceiveMessage

One connection at a time, since nothing else runs while `receive_message()` does;
`NextConnection` hands the globals `request_parser` and `request_path` on to the
next, as they are. `settings_on_path` is an
initializer without designators, and its fourth value, `on_path_cb`, stands beside the
comment `on_path`; but the fourth member of `struct http_parser_settings` is `on_url`.
`Handed` is taken from that struct, so what the model stores in `request_path` is, as in
the program, the URL. For the usual `GET /file HTTP/1.1` that is the path;
for an absolute URL or one with a query it is not (`PathStored`, run `path_stored`).

A request is given in four parts (before the URL, the URL, the rest of the header, what
follows), so that the URL that was sent is known without parsing (`UrlAssumption`: the
parser marks just that part of the whole header as a URL, and no line end stands among
the three bytes before it, which are a method's and spaces; this excludes only a CONNECT
with a line end in its last letters, of which the parser reads but the first, so that
its URL can be cut).
Bytes arrive one by one between any two calls of `recv()`, which
takes what is queued and fits. `ReceiveFails`, `ReceiveEof`, `ReceivePart` and
`ReceiveWhole` are its outcomes; the first leads to `RemoveUnread` of `Imonitor`, the
second and fourth are `ReceiveEof` and `ReceiveWhole` there. A global string is
what stands before its NUL. `Behind` is what the memory behind `recv_buffer`, padding
and the uninitialised `recv_len`, may add to a full buffer, which has no NUL of its
own: 12 bytes at most, since `send_buffer` starts with a zero. `Run` is the loop of
`http_parser_execute()`, byte by byte; `Parse` is `http_parser_init()`, that loop over
the C string in the buffer, and what the call returns.

`OwnPath` and `AskedPath` are about buffers that are not full. For a full one they
are false of the code (see section 3): what `strlen()` finds behind it is parsed, too.

## 3. Runs

Passing runs:

| Run | Question | Bounds, and why they are enough |
|---|---|---|
| `served` | Do well-behaved clients get everything, always? Does the loop implement `Transfer`? | 2 clients, `BUFSIZ` 2; files of 3 (full and partial read) and 0; either client may be slow. Fair. |
| `rude` | Can clients that cut, extend, never end, half-close, reset or stall make another client's bytes wrong? | 2 clients, every client move but short writes, files of 1 and 2 (end on and off a buffer boundary) |
| `hostile` | Do pointers, buffers and states stay sound when descriptors run out, numbers are reused and garbage is closed? | 2 clients, 4 descriptor numbers, garbage 0 (stdin) and 2 (a client's), one login that makes a file of 2 a file of 3, which does not fit an `int` of 6 values; paths of a file, a directory and nothing |
| `collector` | Is the log ordered and the history exact across crashes, rotations and races? | 4 records, 2 rotations, 2 crashes: one run interrupted, one that writes over it, one more; each may meet a new wtmp |
| `requests` | Whatever the pieces and whatever came before, is the URL that is stored the one that was sent? | seven requests: a plain one; an absolute URL with a query; one that begins with an empty line and ends in a bare LF; one with a NUL in it; one with a body; two pipelined ones that fill the buffer; one that does not fit. `BUFSIZ` 32 is the least that takes the pipelined ones |
| `cuts` | Do cuts and left-over fields change a parse? | 17 character classes under `HTTP_BOTH`, so that requests, responses and upgrades all occur; the letter of `keep-alive` is left out, because it doubles the states (1.46 million, which also passes); index and `nread` in 2 bits so that truncation happens, sizes modulo 4 (no chunk data) |
| `framing` | Are bodies, callbacks and assertions right, and still whatever the cut? | the classes needed for Content-Length, chunked bodies with trailers and several requests; sizes modulo 8; both results of `on_headers_complete` |

The parser runs have no bound on the length of a stream: their state spaces are
finite because every counter in the struct is. Both check the inductive invariant
`ParserInv` of the proofs as well, as `served` checks `SilentInv`, `UptimeInv` and
`MeasureInv`, and `rude` checks `OwnershipInv` and `DeliveryInv`: in each case under
the restrictions that their theorems name. (`served` has no logins, so that the
counting of them in `UptimeInv` is covered by its proof alone.) In the real program
`HTTP_MAX_HEADER_SIZE` is larger than the byte `nread` is cut to; `Limit` = `Byte`
is the smallest instance in which a header may still be longer than either.
`CHECK_DEADLOCK FALSE` is set in all but `requests` and `path_stored`, since a dead process, a served
set of clients or a bounded wtmp has no next step.

Runs that must fail, each on one statement of the repository (quoted in
`PROJECT.json`, "findings"):

| Run | Statement | What happens |
|---|---|---|
| `growing_log` | the transfer ends when file-size bytes have been read | the log grows after its size is taken; `send_len` passes `file_dimension`, which is compared with `==`; the loop never ends |
| `not_found` | the connection closes when the transfer is complete | a 404 closes descriptor 0, the next socket gets number 0, the next 404 closes it |
| `cut_request` | "Closing communication." | a request in two segments meets EAGAIN, then `DIE()` on an eventfd that was never made |
| `path_stored` | "Request path is stored in global request_path variable" | `on_path_cb` is registered as `on_url`: of an absolute URL with a query all of it is stored, and looked up as a file name |
| `short_write` | sending goes on until all data has been sent | the end of a write goes by the bytes that were *read*; what the socket did not take is lost, and the connection is closed |

More disagreements are plain in one action or definition each and have no run: a
peer that closes before its request leaves block, context and socket behind,
although CLOSED is documented as released (`ReceiveEof`, README.md:33); a record
appended between an inotify event and the `lseek()` is logged twice, and of several
whose reports inotify merges only the last is logged (`ReadEvent`, `ReadLast`); a login
between the end of `create_logfile()` and `inotify_add_watch()` is not logged at all
(`inotify_add_watch`, imonitor.c:535);
`file_exists("./auth.log")` tests `/auth.log`, so that the log is rebuilt at every
start (`create_logfile`, imonitor.c:518); after a rotation of wtmp no login is
logged any more (`Rotate`, imonitor.c:535); a request followed by four bytes of
body ends the server (`is_req_finished`, then `RemoveUnread`); with two pipelined
requests in one buffer the second URL is copied over the first (`on_path_cb`); when
a second request begins at the end of a full `recv_buffer`, `strlen()` runs on
behind it and the URL that is answered is made of what lies there, against the
comment "Parse path from HTTP request" (`ReceiveWhole`, imonitor.c:190). In
the parser: a request without Content-Length waits for a body of 2^64 - 1 bytes,
since `content_length` is unsigned and -1 is greater than 0, against the comment
"Assume content-length 0 - read the next" (`HeadersDone`, http_parser.c:1421); the
maximum header size is not kept over many calls, since `nread` is cut to a byte
after each (`Save`, http_parser.c:1571, test.c:1384); a header line without a colon
makes an `on_header_field` call that no value follows, so that the next field call
does not continue the name (`Field`, http-parser/README.md:156); and
`http_should_keep_alive()` returns true when the message is *not* the last
(http_parser.h:167).

Each property of a passing run also has a mutant: the definition it depends on
with a plausible mistake, under which TLC finds the property violated. The
mutants stand just before the definitions they replace, named after them.

### Fairness

`served` and `growing_log` assume weak fairness of each connection's handlers
(epoll returns ready descriptors in turn), of the kernel's completions, of the
inotify branch, and, for a client that has connected, of sending its request and
of reading what it is sent. Nothing is assumed of clients that do not connect or
of further logins. `collector` assumes that a program that is down is started
and that a started one runs; crashes are bounded and not fair. Inside a handler
the C code is sequential, so one weak fairness condition per process is what the
scheduler gives.

## 4. Proofs

All theorems hold for every value of the constants that satisfies the named
assumptions: any number of clients, blocks, files and descriptors, any buffer
size, any alphabet (`DescriptorsAssumption`, `ImonitorAssumption`,
`LogCollectorAssumption`, `ReceiveMessageAssumption`, `ParserAssumption`,
`HttpParserAssumption`; `UrlAssumption` for `UrlNeverCut` alone). TLC evaluates each
of them on the instances it checks.

`ImonitorProofs`, for any clients, files and garbage

* `TypeCorrect`: `TypeOK` is inductive by itself; one lemma per action.
* `RegistrationCorrect`: `RegistrationInv` is inductive relative to `TypeOK`. It
  is needed because the safety properties speak of the interest list or of the
  operations alone, while the handlers relate the two through the descriptor
  numbers stored in a block: an entry of the list belongs to a live block under
  the number of its socket, or of its eventfd while an operation is out and not
  being harvested. It does not say that the descriptor table agrees with the
  block. That is false: a stray `close(conn->fd)` can give a block's number to
  another connection, and the proof shows that the pointers survive even this.
* `NeverDangling`, `OneOperationAtATime`, `NoUseAfterFree`, `NoUnknownState`:
  consequences of it.

### Restricted surroundings

The rest of what `Imonitor` promises is false in general, as the failing runs
show. `Ownership` names what must be ruled out, and each theorem assumes only what
it needs:

| Restriction | Rules out | Without it |
|---|---|---|
| `ZeroedMemory` | garbage in `conn->fd` | the first `close(conn->fd)` of a refused request hits any descriptor (`hostile` allows it) |
| `NoEarlyEnd` | streams that end before the request, and requests that fill the buffer | `recv()` returns 0, `receive_message()` marks the block CLOSED and returns, and nobody removes block or socket (imonitor.c:178-182) |
| `NothingMissing` | 404 | it closes descriptor 0, and then whoever gets that number (`not_found`) |
| `WholeWrites` | short writes | the end of a write goes by the bytes that were read (`short_write`) |
| `SilentClients` | bytes, ends or resets after the request | EPOLLIN on the socket of a connection at work is taken for the end of its operation, and the thread waits for it (`rude` allows it) |
| `PatientClients` | requests in pieces, over-long ones, clients that leave | `DIE()` on an eventfd that was never made, and on the write that fails (`cut_request`) |
| `OnlyFiles` | directories, too | `access()` accepts them and `open()` does not: `DIE()` |
| `EnoughDescriptors` | running out | three per block, and one per login, because wtmp is opened for each and never closed: `DIE()` |
| `SizesFit` | sizes that an `int` cannot hold | a negative length: `DIE()` |
| `NoResets`, `FixedSizes` | resets, and growing files that are asked for | a transfer that cannot be completed, or passes its length (`growing_log`) |

No theorem bounds the order of events: clients and kernel take any of their
remaining steps at any time.

`OwnershipProofs` (`ZeroedMemory`, `NothingMissing`)

* `DescriptorsOwned`: `OwnershipInv` is inductive relative to `TypeOK` and
  `RegistrationInv`. The three numbers a block stores are indices into a table
  whose free entries are handed out lowest first, so that one wrong `close()` would
  give a number in use to someone else. The invariant therefore says both ways who
  owns what: each block's numbers name its own socket, file and eventfd
  (`BlockOwns`), no two blocks share one (`Exclusive`), and every descriptor of that
  kind has its block (`HasOwner`). An operation that is out works on the object that
  the block still has open.
* `NothingLost` (`NoOrphanDescriptor`; also `NoEarlyEnd`): each descriptor is recorded in
  a block that some handler will still pass to `connection_remove()`. A block that was
  left CLOSED does not count as an owner: it stays for good, and its socket with it.
  That there is none under `NoEarlyEnd` is an invariant of its own, `NoneLeftClosed`.
* `NeverBlockedOnNothing` (`BlockedOnRealWork`): a consequence.

`DeliveryProofs` (and `WholeWrites`)

* `DeliveryCorrect`: `DeliveryInv` gives, for each stage of a transfer (asking,
  before the header, header out, read out, data out, between operations), what the
  buffer holds and how far the client has come, in terms of `send_len` and
  `read_data`. A step of another connection changes neither, which is what ownership
  is needed for.
* `NothingMixedUp` (`RightBytes`), `NothingCutShort` (`ClosedOnlyWhenComplete`):
  consequences. Clients may send in pieces, leave, reset, stall and ask for a file
  that grows.

`UptimeProofs`

* `SilentClientsWakeNothing` (`SilentInv`; `SilentClients`) and its consequence
  `NeverHeldUp` (`WorkDoneWhenTriggered`): an event on a working connection can only
  be the eventfd of a finished operation.
* `EveryoneCanGoOn` (`UptimeInv`) and `NeverDies` (`ServerStaysUp`; `OnlyFiles`, `PatientClients`, `EnoughDescriptors`,
  `SizesFit`): `UptimeInv` excludes the cause of each `DIE()`: a handler runs only in
  a state and on a descriptor it can go on from, reads succeed, so that no negative
  length is submitted, and the table is never full. The last is a
  count: the entries in use are stdin, at most three per block by `OwnershipInv`, and
  at most one per login.

`TransferProofs` (all of `ZeroedMemory`, `NothingMissing`, `WholeWrites`,
`NoResets`, `FixedSizes`, `SizesFit`)

* `NeverTooMuch`: `MeasureInv`, the length in the header is the file's and `send_len`
  with the read that is out never passes it, so that the `==` that ends a transfer is
  reached.
* `ImplementsPromise`: `Imonitor` implements `Transfer`, which is the safety part of
  the property `ImplementsTransfer`: initial states map to initial states, and one
  lemma per kind of step shows which action of `Transfer`, or stutter, it maps to.

### The other components

`LogCollectorProofs`

* `CollectorCorrect`: `TypeOK` and `CollectorInv`, the conjunction of the phases
  of `main()`, of what is known of the record in hand, and of the copy's
  progress; `EntriesInOrder` and `BackfillExact` are not inductive without them.
* `LogIsOrdered`, `BackfillIsExact`: its two conjuncts that matter to a reader.

`ReceiveMessageProofs`

* `ReceiveCorrect`: `ReceiveInv` is inductive: the buffer is a prefix of the
  stream and no longer than what has arrived, and while the loop goes on (or has
  been left without an answer) it does not end in a line feed. The last conjunct is
  what `is_req_finished()` gives each round, and what `WholeIsAnswered` needs.
* `BufferIsPrefix`, `ClosedIsFinished`, `WholeIsAnswered`: consequences of it, for
  every request, every `BUFSIZ` and every way the bytes arrive in.
* `PathCorrect`: `PathInv`, which adds that the global parser is one that
  `http_parser_init()` can set up again, that a URL has room for its NUL, that it is
  what a cleared parser makes of the same buffer, and that a buffer was parsed only
  where `is_req_finished()` ends the loop. All of that is about a run of the parser
  over a text, a recursive function, and is shown by induction over the text:
  `SetInduction` is induction over a set of numbers, which follows from the library's
  theorem that such a set has a least element, and `RunExists` with it that the
  equation of `Run` has a solution. The induction steps come from
  `HttpParserProofs`, of which the module takes an instance with the same constants
  (the lemmas `Same...` show that its definitions are the ones `ReceiveMessage` uses):
  * one more byte keeps the parser fit for the next (`Fit`, `ParsedFits`), in
    contrast to the theorems there without `MethodBound`: past the end of CONNECT's
    string the parser stays where it is;
  * two parsers set up on different leftovers stay alike (`ParsedSame`);
  * a URL is entered only after the first byte, and no line end is part of one.
* `BuffersNeverOverrun` (`TypeOK`): the length of what is stored is bounded by that of its
  piece (`Sound`), which starts behind the first byte and behind the last line end;
  the text is longer than `recv_buffer` only when that is full and the text runs on
  behind it, and then a line end, by which `is_req_finished()` ended the loop, stands
  in the last four bytes of the buffer.
* `PathIsOwn` (`OwnPath`): two runs over one text, `ParseAlike`.
* `UrlNeverCut` (`AskedPath`): a run over a header goes through stages (`Stage`:
  before the URL, in it, behind it), the run over a part of the header is a part of
  that run (`RunPrefix`), and `is_req_finished()` ends no part in the middle of a
  URL, because it wants a line end among the last four bytes (`CutUrl`).

`HttpParserProofs`

* `ParserInvariant`: `ParserInv` is inductive. It has three parts, each shown for
  every case of the switch of `http_parser_execute()` (one lemma per case) and put
  together for `Step`:
  * *Two parsers of one stream agree* (`SameRun`, the lemmas `...Same`). The property
    compares two parsers field by field, but not all fields agree at all times:
    `index`, `header_state`, `major`, `minor`, `status` and `content_length` only in
    the states that read them before they set them, which `SameRun` lists.
  * *A parser fits its state* (`Consistent`, the lemmas `...Goes`): which keyword may
    be in the middle of being matched, and how far; which callback came last; that
    chunks occur under the flag `CHUNKED` only, with a count that starts at zero.
  * *The length due is the length left* (`Announced`, the lemmas `...Effect` and
    `...Announced`): the history variable, which saturates where `content_length`
    wraps, equals it, or is saturated, or nothing has been announced.

  What a call writes back is cut to a byte. That is harmless for `nread` in this
  respect because no branch but the overflow check reads it, and for `index` because
  where it matters it is smaller than any keyword, which
  `HttpParserAssumption` (a byte holds more than the keywords' letters) makes precise.
* `AnyCutSameParse`, `PiecesCover`, `BodyExact`, `CallbackOrder`,
  `NoAssertionFails`, `ParserTypes`: consequences, for streams of any length under
  `MethodBound` and `ChunkBound`, the two places where the C program has no defined
  outcome.

### Checked by TLC only

All liveness (`EveryRequestServed`, `LastLoginLogged` and the fairness of `Transfer`
in `ImplementsTransfer`), which the prover does not cover. Every safety property of a
passing run is a theorem. The failing runs are counterexamples and need no proof.

## 5. Not modelled

`list.c` (not compiled), `sock_util.c` but for `get_peer_address()` (system calls
before the loop, or never called), `debug.h`, build files, `test.c`; the wrappers of
`w_epoll.h` that nothing calls; the text of log entries and headers; the moment in
a rotation when there is no wtmp; HTTP-parser calls of length 0, and its non-strict
mode.

## 6. Plan

Done: `Descriptors`, `Imonitor` with short writes, directories and narrow sizes,
`Transfer` and the refinement; `LogCollector` with rotation; `HttpParser`;
`ReceiveMessage` on top of it; the proofs above: all invariants of the web server,
the log collector, the parser and the request loop, and the safety part of the
refinement.

Next, in this order:

1. `WholeWrites` and `NoResets` weakened to the connections that break them: a
   short write or a reset damages only its own client.
2. Composition of `LogCollector` with `Imonitor` on one log file (torn entries as
   a client sees them).
