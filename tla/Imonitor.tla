------------------------------- MODULE Imonitor -------------------------------
(***************************************************************************)
(* The event loop of imonitor.c: one thread takes one epoll event at a     *)
(* time and runs its handler.  A client connection walks through           *)
(*                                                                         *)
(*   NEW_CONN -> DATA_RECEIVED -> SENDING (header)                         *)
(*            -> READING -> SENDING -> READING -> ... -> removed           *)
(*                                                                         *)
(* where every READING and SENDING step submits one Linux AIO operation    *)
(* whose completion comes back through an eventfd.  The other participants *)
(* are the kernel (which completes the operations), the clients, and the   *)
(* logins that make the served log file grow.                              *)
(*                                                                         *)
(* DIE() prints and calls exit(); the effects of the handler it cuts short *)
(* die with the process, so Exit changes nothing but the process.          *)
(***************************************************************************)
EXTENDS Descriptors, FiniteSets

CONSTANTS
  BufSiz,       \* BUFSIZ: bytes per AIO read
  InitSize,     \* sizes of the files when the server starts
  LogFile,      \* the file write_log() appends to
  MaxLogins,    \* bound: logins during a run
  Missing,      \* a request path that names no file
  Directory,    \* one that names something open(O_RDWR) refuses
  IntRange,     \* 2^32: the size of a file goes through an int
  Paths,        \* what clients ask for
  ClientMoves,  \* what clients do besides sending one whole request
  GarbageFds,   \* what malloc() may leave in an int descriptor field
  GarbageDims   \* what malloc() may leave in file_dimension

Moves == {"fragment", "extra", "long", "fin", "rst", "slow", "short"}

ASSUME ImonitorAssumption ==
  /\ BufSiz \in Nat \ {0}
  /\ InitSize \in [Files -> Nat]
  /\ LogFile \in Files
  /\ MaxLogins \in Nat
  /\ Missing # Directory /\ {Missing, Directory} \cap (Files \cup {None}) = {}
  /\ IntRange \in Nat \ {0}
  /\ Paths \subseteq Files \cup {Missing, Directory}
  /\ ClientMoves \subseteq Moves
  /\ GarbageFds \subseteq Fd
  /\ GarbageFds # {}
  /\ GarbageDims \subseteq Nat
  /\ GarbageDims # {}

VARIABLES
  proc,      \* the server process: "running" or "dead"
  waiting,   \* the connection handle_work_done() blocks on in io_getevents
  fdtab,     \* descriptor table
  interest,  \* epoll interest list
  aio,       \* the operation in each connection's AIO context
  alloc,     \* heap blocks in use
  heap,      \* contents of the blocks
  client,    \* each peer's end of its connection
  stream,    \* what each peer has received
  clogged,   \* peers whose socket's send buffer is full
  size,      \* file sizes
  logins     \* wtmp records written so far and those inotify still reports

kernelVars == <<fdtab, interest, aio>>
peerVars   == <<client, stream, clogged>>
fileVars   == <<size, logins>>
vars == <<proc, waiting, kernelVars, alloc, heap, peerVars, fileVars>>

-----------------------------------------------------------------------------
(* Data.                                                                   *)

(* The result of an operation that failed: events->res is a negative error *)
(* number, and one stands for all.  (In a size_t a negative number stands  *)
(* for the one it is congruent to modulo 2^64, as far from every size.)    *)
Failed == -1

(* An off_t stored in an int, whose upper half is the negative numbers.    *)
AsInt(n) ==
  LET m == n % IntRange IN IF m < IntRange \div 2 THEN m ELSE m - IntRange

States == {"NEW_CONN", "DATA_RECEIVED", "SENDING", "READING", "CLOSED"}

Names == Files \cup {Missing, Directory, None}

(* What a send_buffer holds: nothing yet, a header, or bytes lo .. lo+n-1  *)
(* of a file.  In a 200 header n is the Content-Length.                    *)
Buffers == [kind : {"empty", "200", "404", "data"},
            file : Files \cup {None}, lo : Nat, n : Nat]
EmptyBuffer    == [kind |-> "empty", file |-> None, lo |-> 0, n |-> 0]
write_http200_header(f, n) == [kind |-> "200", file |-> f, lo |-> 0, n |-> n]
write_http404_header == [kind |-> "404", file |-> None, lo |-> 0, n |-> 0]
FileBytes(f, lo, n) == [kind |-> "data", file |-> f, lo |-> lo, n |-> n]

(* struct connection, without the fields nothing reads.                    *)
Connections ==
  [sockfd : Fd, eventfd : Fd, fd : Fd,
   state : States, path : Names, is_header : BOOLEAN,
   send_len : Int, read_data : Nat \cup {Failed},
   file_dimension : Nat, send_buffer : Buffers]

(* A block outside alloc: connection_remove() leaves STATE_CONNECTION_CLOSED *)
(* behind, and what is in the other fields is the allocator's business.    *)
FreedBlock ==
  [sockfd |-> 0, eventfd |-> 0, fd |-> 0, state |-> "CLOSED", path |-> None,
   is_header |-> FALSE, send_len |-> 0, read_data |-> 0, file_dimension |-> 0,
   send_buffer |-> EmptyBuffer]

(* One AIO context, created for one operation at a time.                   *)
Operations ==
  [op : {"none", "read", "header", "data"}, obj : Objects,
   lo : Nat, len : Nat, done : BOOLEAN, res : Nat \cup {Failed}]
Idle == [op |-> "none", obj |-> Free, lo |-> 0, len |-> 0,
         done |-> FALSE, res |-> 0]
Operation(op, obj, lo, len) ==
  [op |-> op, obj |-> obj, lo |-> lo, len |-> len, done |-> FALSE, res |-> 0]

(* A peer: not connected, in the listen backlog, accepted, or accepted and *)
(* gone (FIN or RST received by the server); and how much of its request   *)
(* the server's socket holds: "long" is BUFSIZ bytes and more of it.       *)
Peers ==
  [link : {"none", "backlog", "open", "fin", "rst"},
   req : {"idle", "part", "whole", "long", "read", "extra"},
   path : Names]

(* What a peer has seen: the header, the body bytes in order, whether      *)
(* anything came out of order, and the end of the stream.                  *)
Streams ==
  [hdr : {"none", "200", "404"}, file : Files \cup {None}, clen : Nat,
   upto : Nat, ok : BOOLEAN, eof : BOOLEAN]
Silent == [hdr |-> "none", file |-> None, clen |-> 0, upto |-> 0,
           ok |-> TRUE, eof |-> FALSE]

(* The stream s after n bytes from buffer b.                               *)
Receive(s, b, n) ==
  IF b.kind \in {"200", "404"} /\ s.hdr = "none"
  THEN [s EXCEPT !.hdr = b.kind, !.file = b.file, !.clen = b.n]
  ELSE IF b.kind = "data" /\ s.hdr = "200" /\ s.file = b.file
          /\ b.lo = s.upto /\ n <= b.n
  THEN [s EXCEPT !.upto = @ + n]
  ELSE [s EXCEPT !.ok = FALSE]

SetMin(a, b) == IF a < b THEN a ELSE b

-----------------------------------------------------------------------------
(* Readiness, as poll() of the objects reports it.                         *)

Readable(k) ==
  \/ client[k].req \in {"part", "whole", "long", "extra"}
  \/ client[k].link \in {"fin", "rst"}
Writable(k) == k \notin clogged \/ client[k].link = "rst"

PollIn(f) ==
  \/ fdtab[f].kind = "sock" /\ Readable(fdtab[f].of)
  \/ fdtab[f].kind = "evfd" /\ aio[fdtab[f].of].done
PollOut(f) == fdtab[f].kind = "sock" /\ Writable(fdtab[f].of)

(* The main loop is in epoll_wait, and what it gets back carries pointer   *)
(* c.  An event with EPOLLOUT goes to handle_work() whatever else it has.  *)
InLoop == proc = "running" /\ waiting = None

OutEvent(c) ==
  \E f \in Fd : interest[f].ptr = c /\ "OUT" \in interest[f].ev /\ PollOut(f)
InEvent(c) ==
  \E f \in Fd : /\ interest[f].ptr = c /\ "IN" \in interest[f].ev /\ PollIn(f)
                /\ ~("OUT" \in interest[f].ev /\ PollOut(f))

Exit ==
  /\ proc' = "dead"
  /\ UNCHANGED <<waiting, kernelVars, alloc, heap, peerVars, fileVars>>

(* The streams after the numbers fds are closed: a peer whose socket was   *)
(* among them sees the end of its stream.                                  *)
Hangup(tab, fds) ==
  [k \in Clients |->
     IF \E f \in fds : tab[f] = Sock(k) THEN [stream[k] EXCEPT !.eof = TRUE]
                                        ELSE stream[k]]

(* A mutant that forgets close(conn->fd).                                  *)
connection_remove_KeepsFile(c, tab, int) ==
  LET fds == {heap[c].sockfd}
  IN  /\ fdtab' = Close(tab, fds)
      /\ interest' = Forget(int, fds)
      /\ stream' = Hangup(tab, fds)
      /\ heap' = [heap EXCEPT ![c] = FreedBlock]
      /\ alloc' = alloc \ {c}

(* connection_remove(): both descriptors of the block, then the block.     *)
connection_remove(c, tab, int) ==
  LET fds == {heap[c].fd, heap[c].sockfd}
  IN  /\ fdtab' = Close(tab, fds)
      /\ interest' = Forget(int, fds)
      /\ stream' = Hangup(tab, fds)
      /\ heap' = [heap EXCEPT ![c] = FreedBlock]
      /\ alloc' = alloc \ {c}

-----------------------------------------------------------------------------
Init ==
  /\ proc = "running"
  /\ waiting = None
  /\ fdtab = [f \in Fd |-> IF f = 0 THEN Stdin ELSE Free]
  /\ interest = [f \in Fd |-> Absent]
  /\ aio = [c \in Conns |-> Idle]
  /\ alloc = {}
  /\ heap = [c \in Conns |-> FreedBlock]
  /\ client = [k \in Clients |-> [link |-> "none", req |-> "idle", path |-> None]]
  /\ stream = [k \in Clients |-> Silent]
  /\ clogged = {}
  /\ size = InitSize
  /\ logins = [total |-> 0, reported |-> FALSE]

-----------------------------------------------------------------------------
(* The clients.                                                            *)

ClientStep(k) == proc = "running" /\ UNCHANGED <<proc, waiting, kernelVars,
                                                 alloc, heap, fileVars>>

Connect(k, p) ==
  /\ ClientStep(k)
  /\ client[k].link = "none"
  /\ client' = [client EXCEPT ![k].link = "backlog", ![k].path = p]
  /\ UNCHANGED <<stream, clogged>>

(* The request arrives in one segment.                                     *)
SendRequest(k) ==
  /\ ClientStep(k)
  /\ client[k].link = "open" /\ client[k].req = "idle"
  /\ client' = [client EXCEPT ![k].req = "whole"]
  /\ UNCHANGED <<stream, clogged>>

(* A segment that ends where is_req_finished() does not take it for the    *)
(* end of the request, and the rest of it.                                 *)
SendFragment(k) ==
  /\ ClientStep(k)
  /\ "fragment" \in ClientMoves
  /\ client[k].link = "open"
  /\ \/ client[k].req = "idle" /\ client' = [client EXCEPT ![k].req = "part"]
     \/ client[k].req = "part" /\ client' = [client EXCEPT ![k].req = "whole"]
  /\ UNCHANGED <<stream, clogged>>

(* More than recv_buffer holds, and never anything is_req_finished() takes *)
(* for the end of a request.                                               *)
SendLong(k) ==
  /\ ClientStep(k)
  /\ "long" \in ClientMoves
  /\ client[k].link = "open" /\ client[k].req = "idle"
  /\ client' = [client EXCEPT ![k].req = "long"]
  /\ UNCHANGED <<stream, clogged>>

(* More bytes after the request, which nothing will ever receive.          *)
SendExtra(k) ==
  /\ ClientStep(k)
  /\ "extra" \in ClientMoves
  /\ client[k].link = "open" /\ client[k].req = "read"
  /\ client' = [client EXCEPT ![k].req = "extra"]
  /\ UNCHANGED <<stream, clogged>>

(* The peer closes (FIN), or its host resets the connection.               *)
Leave(k, how) ==
  /\ ClientStep(k)
  /\ how \in ClientMoves
  /\ client[k].link \in {"open", "fin"} /\ client[k].link # how
  /\ client' = [client EXCEPT ![k].link = how]
  /\ UNCHANGED <<stream, clogged>>

(* The peer reads, and its acknowledgements empty the send buffer.         *)
Drain(k) ==
  /\ ClientStep(k)
  /\ k \in clogged
  /\ clogged' = clogged \ {k}
  /\ UNCHANGED <<client, stream>>

(* A login or logout appends a record to wtmp, which inotify reports.      *)
Login ==
  /\ proc = "running"
  /\ logins.total < MaxLogins
  /\ logins' = [total |-> logins.total + 1, reported |-> TRUE]
  /\ UNCHANGED <<proc, waiting, kernelVars, alloc, heap, peerVars, size>>

-----------------------------------------------------------------------------
(* The kernel completes the operation of connection c.  A read fills the   *)
(* block's send_buffer at that moment and a write takes its bytes from it. *)
(* Abstraction: a read of what is not a file, which takes a number that    *)
(* stray close() calls have mixed up, fails.                               *)

CompleteWith(c, r) == aio' = [aio EXCEPT ![c].done = TRUE, ![c].res = r]

ReadDone(c) ==
  /\ proc = "running"
  /\ aio[c].op = "read" /\ ~aio[c].done
  /\ IF aio[c].obj.kind = "file"
     THEN LET f == aio[c].obj.of
              n == IF aio[c].lo >= size[f] THEN 0
                   ELSE SetMin(BufSiz, size[f] - aio[c].lo)
          IN  /\ CompleteWith(c, n)
              /\ heap' = [heap EXCEPT ![c].send_buffer =
                            IF n = 0 THEN @ ELSE FileBytes(f, aio[c].lo, n)]
     ELSE CompleteWith(c, Failed) /\ UNCHANGED heap
  /\ UNCHANGED <<proc, waiting, fdtab, interest, alloc, peerVars, fileVars>>

(* The socket takes n of the bytes, all of them or what there is room for. *)
Send(c, n) ==
  LET k == aio[c].obj.of
  IN  /\ CompleteWith(c, n)
      /\ stream' = IF n = 0 THEN stream
                   ELSE [stream EXCEPT ![k] = Receive(@, heap[c].send_buffer, n)]

WriteDone(c) ==
  /\ proc = "running"
  /\ aio[c].op \in {"header", "data"} /\ ~aio[c].done
  /\ aio[c].obj.kind = "sock" /\ client[aio[c].obj.of].link # "rst"
  /\ \/ Send(c, aio[c].len) /\ UNCHANGED clogged
     \/ /\ "slow" \in ClientMoves
        /\ Send(c, aio[c].len)
        /\ clogged' = clogged \cup {aio[c].obj.of}
     \/ /\ "short" \in ClientMoves
        /\ \E n \in 1 .. aio[c].len - 1 : Send(c, n)
        /\ clogged' = clogged \cup {aio[c].obj.of}
  /\ UNCHANGED <<proc, waiting, fdtab, interest, alloc, heap, client, fileVars>>

(* A write to a connection the peer has reset is an error, or SIGPIPE,     *)
(* which the program does not handle.  A write to anything but a socket is *)
(* an error.                                                               *)
WriteFails(c) ==
  /\ proc = "running"
  /\ aio[c].op \in {"header", "data"} /\ ~aio[c].done
  /\ \/ aio[c].obj.kind # "sock"
     \/ client[aio[c].obj.of].link = "rst"
  /\ \/ /\ CompleteWith(c, Failed)
        /\ UNCHANGED <<proc, waiting, fdtab, interest, alloc, heap, peerVars, fileVars>>
     \/ /\ aio[c].obj.kind = "sock" /\ client[aio[c].obj.of].link = "rst"
        /\ Exit

-----------------------------------------------------------------------------
(* The handlers.                                                           *)

(* accept() into the lowest free number; connection_create() sets sockfd   *)
(* and clears the two buffers, and the fields nothing initialises keep     *)
(* whatever malloc() hands out.                                            *)
handle_new_connection(k, c) ==
  /\ InLoop
  /\ client[k].link = "backlog"
  /\ c \notin alloc
  /\ IF FreeFds(fdtab) = {} THEN Exit
     ELSE LET s == LowestFree(fdtab)
          IN  /\ fdtab' = [fdtab EXCEPT ![s] = Sock(k)]
              /\ interest' = w_epoll_add_ptr_in(interest, s, c)
              /\ alloc' = alloc \cup {c}
              /\ \E e, d \in GarbageFds, dim \in GarbageDims :
                   heap' = [heap EXCEPT ![c] =
                     [sockfd |-> s, eventfd |-> e, fd |-> d,
                      state |-> "NEW_CONN", path |-> None, is_header |-> FALSE,
                      send_len |-> 0, read_data |-> 0, file_dimension |-> dim,
                      send_buffer |-> EmptyBuffer]]
              /\ client' = [client EXCEPT ![k].link = "open"]
              /\ UNCHANGED <<proc, waiting, aio, stream, clogged, fileVars>>

(* receive_message() when recv() (or getpeername()) fails: a reset peer,   *)
(* or a non-blocking recv() that finds the request cut short.  It removes  *)
(* an eventfd that was never created.                                      *)
RemoveUnread(c) ==
  LET e == heap[c].eventfd
      s == heap[c].sockfd
      without == w_epoll_remove_ptr(interest, e)
  IN  IF CanCtl(fdtab, interest, e) /\ CanCtl(fdtab, without, s)
      THEN /\ connection_remove(c, fdtab, w_epoll_remove_ptr(without, s))
           /\ UNCHANGED <<proc, waiting, aio, client, clogged, fileVars>>
      ELSE Exit

(* receive_message() and handle_client_request() on connection c.          *)
ReceiveFails(c) ==
  LET o == fdtab[heap[c].sockfd]
  IN  /\ \/ o.kind # "sock"
         \/ client[o.of].link = "rst"
         \/ client[o.of].link # "fin" /\ client[o.of].req \notin {"whole", "long"}
      /\ RemoveUnread(c)

(* recv() returns 0: the end of the stream, or no room left in recv_buffer, *)
(* which the code does not tell apart.                                     *)
ReceiveEof(c) ==
  LET o == fdtab[heap[c].sockfd]
  IN  /\ o.kind = "sock"
      /\ \/ client[o.of].link = "fin" /\ client[o.of].req # "whole"
         \/ client[o.of].link # "rst" /\ client[o.of].req = "long"
      /\ heap' = [heap EXCEPT ![c].state = "CLOSED"]
      /\ \E rest \in {"read"} \cup ({client[o.of].req} \cap {"long"}) :
           client' = [client EXCEPT ![o.of].req = rest]
      /\ UNCHANGED <<proc, waiting, kernelVars, alloc, stream, clogged, fileVars>>

(* A mutant that leaves the request in the socket's receive queue.         *)
ReceiveWhole_Peeks(c) ==
  LET o == fdtab[heap[c].sockfd]
  IN  /\ o.kind = "sock"
      /\ client[o.of].link # "rst" /\ client[o.of].req = "whole"
      /\ heap' = [heap EXCEPT ![c].path = client[o.of].path,
                              ![c].state = "DATA_RECEIVED"]
      /\ interest' = w_epoll_update_ptr_inout(interest, heap[c].sockfd, c)
      /\ UNCHANGED <<proc, waiting, fdtab, aio, alloc, peerVars, fileVars>>

ReceiveWhole(c) ==
  LET o == fdtab[heap[c].sockfd]
  IN  /\ o.kind = "sock"
      /\ client[o.of].link # "rst" /\ client[o.of].req = "whole"
      /\ IF CanCtl(fdtab, interest, heap[c].sockfd)
         THEN /\ heap' = [heap EXCEPT ![c].path = client[o.of].path,
                                      ![c].state = "DATA_RECEIVED"]
              /\ interest' = w_epoll_update_ptr_inout(interest, heap[c].sockfd, c)
              /\ client' = [client EXCEPT ![o.of].req = "read"]
              /\ UNCHANGED <<proc, waiting, fdtab, aio, alloc, stream, clogged, fileVars>>
         ELSE Exit

(* A mutant of handle_epollin() without its switch on the state.           *)
handle_client_request_AnyState(c) ==
  /\ InLoop
  /\ InEvent(c)
  /\ ReceiveFails(c) \/ ReceiveEof(c) \/ ReceiveWhole(c)

handle_client_request(c) ==
  /\ InLoop
  /\ InEvent(c) /\ heap[c].state = "NEW_CONN"
  /\ ReceiveFails(c) \/ ReceiveEof(c) \/ ReceiveWhole(c)

(* STATE_DATA_RECEIVED of handle_work(): write a header into the send      *)
(* buffer, having opened the file if there is one.  DIE() when open()      *)
(* fails or the size does not fit the int.  The mutant forgets is_header.  *)
HeaderReady_NoFlag(c, block, tab) ==
  /\ fdtab' = tab
  /\ heap' = [heap EXCEPT ![c] = [block EXCEPT !.state = "SENDING"]]
  /\ UNCHANGED <<proc, waiting, interest, aio, alloc, peerVars, fileVars>>

HeaderReady(c, block, tab) ==
  /\ fdtab' = tab
  /\ heap' = [heap EXCEPT ![c] = [block EXCEPT !.is_header = TRUE, !.state = "SENDING"]]
  /\ UNCHANGED <<proc, waiting, interest, aio, alloc, peerVars, fileVars>>

PrepareNotFound(c) ==
  HeaderReady(c, [heap[c] EXCEPT !.send_buffer = write_http404_header], fdtab)

(* A mutant without the test for a negative size.                          *)
PrepareFile_NoDie(c, p) ==
  IF FreeFds(fdtab) = {} THEN Exit
  ELSE LET d == LowestFree(fdtab)
           n == AsInt(size[p])
       IN  HeaderReady(c, [heap[c] EXCEPT !.send_buffer = write_http200_header(p, n),
                                          !.file_dimension = n, !.fd = d],
                       [fdtab EXCEPT ![d] = File(p)])

PrepareFile(c, p) ==
  IF FreeFds(fdtab) = {} \/ AsInt(size[p]) < 0 THEN Exit
  ELSE LET d == LowestFree(fdtab)
           n == AsInt(size[p])
       IN  HeaderReady(c, [heap[c] EXCEPT !.send_buffer = write_http200_header(p, n),
                                          !.file_dimension = n, !.fd = d],
                       [fdtab EXCEPT ![d] = File(p)])

PrepareHeader(c) ==
  /\ heap[c].state = "DATA_RECEIVED"
  /\ CASE heap[c].path \in Files   -> PrepareFile(c, heap[c].path)
       [] heap[c].path = Directory -> Exit
       [] OTHER                    -> PrepareNotFound(c)

(* The common part of read_data() and send_data() and of the re-arming     *)
(* that follows them in handle_work(): a new eventfd, the submission on    *)
(* number d, and EPOLLOUT switched off on the socket.  io_submit() refuses *)
(* a closed number, and an offset or a length that is negative as an       *)
(* off_t or a ssize_t: the length that a failed read has left.             *)
Submit(c, d, op, lo, len, block) ==
  IF FreeFds(fdtab) = {} THEN Exit
  ELSE LET e     == LowestFree(fdtab)
           tab   == [fdtab EXCEPT ![e] = EventFd(c)]
           armed == w_epoll_add_ptr_eventfd(interest, e, c)
       IN  IF \/ tab[d] = Free \/ lo < 0 \/ len < 0
              \/ ~CanCtl(tab, armed, heap[c].sockfd)
           THEN Exit
           ELSE /\ fdtab' = tab
                /\ interest' = w_epoll_update_ptr_in(armed, heap[c].sockfd, c)
                /\ aio' = [aio EXCEPT ![c] = Operation(op, tab[d], lo, len)]
                /\ heap' = [heap EXCEPT ![c] = [block EXCEPT !.eventfd = e]]
                /\ UNCHANGED <<proc, waiting, alloc, peerVars, fileVars>>

(* A mutant that forgets the offset of the read.                           *)
read_data_FromStart(c) ==
  /\ heap[c].state = "READING"
  /\ Submit(c, heap[c].fd, "read", 0, BufSiz, heap[c])

read_data(c) ==
  /\ heap[c].state = "READING"
  /\ Submit(c, heap[c].fd, "read", heap[c].send_len, BufSiz, heap[c])

send_data(c) ==
  /\ heap[c].state = "SENDING"
  /\ IF heap[c].is_header
     THEN Submit(c, heap[c].sockfd, "header", 0, 1,
                 [heap[c] EXCEPT !.is_header = FALSE])
     ELSE Submit(c, heap[c].sockfd, "data", 0, heap[c].read_data, heap[c])

handle_work(c) ==
  /\ InLoop
  /\ OutEvent(c)
  /\ IF heap[c].state \in {"NEW_CONN", "CLOSED"} THEN Exit
     ELSE PrepareHeader(c) \/ read_data(c) \/ send_data(c)

(* A mutant that neither removes nor closes the eventfd.                   *)
AwaitWork_KeepsEventFd(c) ==
  /\ InLoop
  /\ InEvent(c) /\ heap[c].state # "NEW_CONN"
  /\ waiting' = c
  /\ UNCHANGED <<proc, kernelVars, alloc, heap, peerVars, fileVars>>

(* handle_work_done() up to io_getevents(), which waits, with no timeout,  *)
(* for the operation of c: any EPOLLIN on a connection past NEW_CONN is    *)
(* taken for its completion.                                               *)
AwaitWork(c) ==
  /\ InLoop
  /\ InEvent(c) /\ heap[c].state # "NEW_CONN"
  /\ LET e == heap[c].eventfd
     IN  IF CanCtl(fdtab, interest, e)
         THEN /\ interest' = Forget(interest, {e})
              /\ fdtab' = Close(fdtab, {e})
              /\ stream' = Hangup(fdtab, {e})
              /\ waiting' = c
              /\ UNCHANGED <<proc, aio, alloc, heap, client, clogged, fileVars>>
         ELSE Exit

(* What was read so far against the size taken when the file was opened;   *)
(* and a mutant that takes a short read for the end of the file.           *)
TransferDone_ShortRead(c) == heap[c].read_data < BufSiz
TransferDone(c) == heap[c].send_len = heap[c].file_dimension

(* The rest of it: harvest the result, then move on by state.              *)
handle_work_done(c) ==
  /\ proc = "running" /\ waiting = c
  /\ aio[c].done
  /\ LET s   == heap[c].sockfd
         res == aio[c].res
     IN  IF ~CanCtl(fdtab, interest, s) \/ heap[c].state \notin {"READING", "SENDING"}
         THEN Exit
         ELSE
          /\ waiting' = None
          /\ aio' = [aio EXCEPT ![c] = Idle]
          /\ \/ /\ heap[c].state = "READING"
                /\ heap' = [heap EXCEPT ![c].send_len = @ + res,
                                        ![c].read_data = res,
                                        ![c].state = "SENDING"]
                /\ interest' = w_epoll_update_ptr_out(interest, s, c)
                /\ UNCHANGED <<fdtab, alloc, stream>>
             \/ /\ heap[c].state = "SENDING"
                /\ TransferDone(c)
                /\ connection_remove(c, fdtab, w_epoll_remove_ptr(interest, s))
             \/ /\ heap[c].state = "SENDING"
                /\ ~TransferDone(c)
                /\ heap' = [heap EXCEPT ![c].state = "READING"]
                /\ interest' = w_epoll_update_ptr_out(interest, s, c)
                /\ UNCHANGED <<fdtab, alloc, stream>>
          /\ UNCHANGED <<proc, client, clogged, fileVars>>

(* main(), the inotify branch: drain the report, open wtmp (which is never *)
(* closed) and append the last record to the log.                          *)
NewLogEntry ==
  /\ InLoop
  /\ logins.reported
  /\ IF FreeFds(fdtab) = {} THEN Exit
     ELSE /\ fdtab' = [fdtab EXCEPT ![LowestFree(fdtab)] = Wtmp]
          /\ size' = [size EXCEPT ![LogFile] = @ + 1]
          /\ logins' = [logins EXCEPT !.reported = FALSE]
          /\ UNCHANGED <<proc, waiting, interest, aio, alloc, heap, peerVars>>

-----------------------------------------------------------------------------
ClientNext(k) ==
  \/ \E p \in Paths : Connect(k, p)
  \/ SendRequest(k)
  \/ SendFragment(k)
  \/ SendLong(k)
  \/ SendExtra(k)
  \/ \E how \in {"fin", "rst"} : Leave(k, how)
  \/ Drain(k)

KernelNext(c) == ReadDone(c) \/ WriteDone(c) \/ WriteFails(c)

ServerNext(c) ==
  \/ \E k \in Clients : handle_new_connection(k, c)
  \/ handle_client_request(c)
  \/ handle_work(c)
  \/ AwaitWork(c)
  \/ handle_work_done(c)

Next ==
  \/ \E k \in Clients : ClientNext(k)
  \/ \E c \in Conns : KernelNext(c) \/ ServerNext(c)
  \/ Login
  \/ NewLogEntry

Spec == Init /\ [][Next]_vars

(* epoll returns ready descriptors in turn, so an event that stays ready   *)
(* is taken; the kernel completes what is submitted; a client that has     *)
(* connected sends its request and reads what it is sent.                  *)
Fairness ==
  /\ \A c \in Conns : WF_vars(ServerNext(c)) /\ WF_vars(KernelNext(c))
  /\ WF_vars(NewLogEntry)
  /\ \A k \in Clients : WF_vars(SendRequest(k)) /\ WF_vars(Drain(k))

FairSpec == Spec /\ Fairness

-----------------------------------------------------------------------------
(* Properties.                                                             *)

(* Every variable keeps the shape its declaration describes; in particular *)
(* descriptors stay in range and pointers point at blocks.                 *)
TypeOK ==
  /\ proc \in {"running", "dead"}
  /\ waiting \in Conns \cup {None}
  /\ fdtab \in [Fd -> Objects]
  /\ interest \in [Fd -> Interests]
  /\ aio \in [Conns -> Operations]
  /\ alloc \subseteq Conns
  /\ heap \in [Conns -> Connections]
  /\ client \in [Clients -> Peers]
  /\ stream \in [Clients -> Streams]
  /\ clogged \subseteq Clients
  /\ size \in [Files -> Nat]
  /\ logins \in [total : 0 .. MaxLogins, reported : BOOLEAN]

(* epoll never hands main() the address of a freed struct connection, not  *)
(* even when stray close() calls and reused numbers have mixed up the      *)
(* descriptors of two connections.                                         *)
NoDanglingPointer ==
  \A f \in Fd : interest[f].ptr # None => interest[f].ptr \in alloc

(* While a connection waits for its eventfd, EPOLLOUT is off on its socket *)
(* (README.md:58): handle_work() never starts a second operation on the    *)
(* one-slot AIO context, nor refills send_buffer under a running one.      *)
OutMeansIdle ==
  \A f \in Fd : "OUT" \in interest[f].ev => aio[interest[f].ptr].op = "none"

(* free() in connection_remove() never hits a block whose send_buffer an   *)
(* AIO operation still reads or writes.                                    *)
FreeMeansIdle ==
  \A c \in Conns \ alloc : aio[c].op = "none"

(* The loop blocks in io_getevents() only for an operation that exists, so *)
(* that the kernel can end the wait.                                       *)
BlockedOnRealWork ==
  waiting # None => aio[waiting].op # "none"

(* handle_work_done() is entered because an operation finished             *)
(* (imonitor.c:404), so its io_getevents() does not hold up the other      *)
(* connections.                                                            *)
WorkDoneWhenTriggered ==
  waiting # None => aio[waiting].done

WorkStates == {"DATA_RECEIVED", "SENDING", "READING"}

(* No handler meets a state its switch does not know: the two              *)
(* DIE(1, "Unknown state") at imonitor.c:399 and 451 are never reached.    *)
HandlersKnowTheState ==
  \A c \in Conns :
    /\ \A f \in Fd :
         interest[f].ptr = c /\ "OUT" \in interest[f].ev =>
           heap[c].state \in WorkStates
    /\ aio[c].op # "none" => heap[c].state \in {"SENDING", "READING"}

(* What the four properties above rest on.  An entry of the interest list *)
(* points at a block in use, under one of the two numbers that block       *)
(* records: its socket's, or, while an operation is out that nobody has    *)
(* started to harvest, its eventfd's.  Only an idle block is registered    *)
(* for EPOLLOUT, and only a block past the header has an operation out.    *)
EntryOK(f) ==
  LET c == interest[f].ptr
  IN  interest[f] # Absent =>
        /\ c \in alloc
        /\ "OUT" \in interest[f].ev =>
             aio[c].op = "none" /\ heap[c].state \in WorkStates
        /\ \/ f = heap[c].sockfd
           \/ f = heap[c].eventfd /\ aio[c].op # "none" /\ waiting # c

BlockOK(c) ==
  aio[c].op # "none" => c \in alloc /\ heap[c].state \in {"SENDING", "READING"}

RegistrationInv ==
  /\ \A f \in Fd : EntryOK(f)
  /\ \A c \in Conns : BlockOK(c)
  /\ waiting # None => waiting \in alloc

(* The process outlives everything that goes on in this configuration: no  *)
(* handler meets an epoll_ctl, io_submit or state it DIEs on.              *)
ServerStaysUp == proc = "running"

(* A block that some handler will still pass to connection_remove().  One  *)
(* that receive_message() has left in STATE_CONNECTION_CLOSED (its callers *)
(* do nothing about it) is in use for good.                                *)
Removable(c) == c \in alloc /\ heap[c].state # "CLOSED"

(* Every descriptor opened for a connection is recorded in a block that    *)
(* the loop has not lost sight of: connection_remove() can still close it. *)
NoOrphanDescriptor ==
  \A f \in Fd :
    LET o == fdtab[f]
    IN  /\ o.kind = "sock" => \E c \in Conns : Removable(c) /\ heap[c].sockfd = f
        /\ o.kind = "evfd" => Removable(o.of) /\ heap[o.of].eventfd = f
        /\ o.kind = "file" => \E c \in Conns : Removable(c) /\ heap[c].fd = f

(* Each client gets the header first and then bytes of the file it asked   *)
(* for, in order and without gap or repetition, whatever the two           *)
(* connections' operations do between them.                                *)
RightBytes ==
  \A k \in Clients :
    /\ stream[k].ok
    /\ stream[k].hdr = "200" => stream[k].file = client[k].path
    /\ stream[k].hdr = "404" => client[k].path = Missing

(* The server closes a client's connection only when the whole file has    *)
(* been sent (README.md:32) or the 404 answer has, unless the client has   *)
(* itself reset the connection.                                            *)
ClosedOnlyWhenComplete ==
  \A k \in Clients :
    stream[k].eof /\ client[k].link # "rst" =>
      stream[k].hdr # "none" /\ stream[k].upto = stream[k].clen

(* Once a whole request has arrived, the transfer is completed and the     *)
(* connection closed (README.md:32).                                       *)
EveryRequestServed ==
  \A k \in Clients : client[k].req = "whole" ~> stream[k].eof

(* The streams the clients see are what Transfer promises them.            *)
Promise == INSTANCE Transfer WITH
  Lengths <- {InitSize[f] : f \in Files} \cup {0},
  asked   <- {k \in Clients : client[k].req \in {"whole", "read", "extra"}},
  phase   <- [k \in Clients |-> IF stream[k].eof THEN "closed"
                                ELSE IF stream[k].hdr = "none" THEN "silent"
                                ELSE "announced"],
  length  <- [k \in Clients |-> stream[k].clen],
  upto    <- [k \in Clients |-> stream[k].upto]

ImplementsTransfer == Promise!FairSpec

=============================================================================
