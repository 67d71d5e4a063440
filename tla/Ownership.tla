------------------------------ MODULE Ownership ------------------------------
(***************************************************************************)
(* What the event loop keeps true when nothing in its surroundings sets    *)
(* off one of the stray close() calls, early wake-ups or DIEs that Imonitor *)
(* allows: named restrictions of Imonitor's constants, and the invariants  *)
(* that its safety properties rest on under them.  They relate each block  *)
(* to the descriptors, the operation and the client that are its own.      *)
(***************************************************************************)
EXTENDS Imonitor

-----------------------------------------------------------------------------
(* Restrictions on the surroundings.                                       *)

(* Blocks come from fresh, zeroed memory: an int nothing has set is 0.     *)
ZeroedMemory == GarbageFds = {0}

(* Every path names something, so that no connection is closed without     *)
(* having opened a file.                                                   *)
NothingMissing == Missing \notin Paths

(* A socket takes every buffer whole.                                      *)
WholeWrites == "short" \notin ClientMoves

(* A client that has sent its request sends nothing more and stays.        *)
SilentClients == ClientMoves \cap {"extra", "fin", "rst"} = {}

(* A client sends its request in one piece that fits the buffer, and does  *)
(* not leave.                                                              *)
PatientClients == ClientMoves \cap {"fragment", "long", "fin", "rst"} = {}

(* No stream ends before its request, and each request fits recv_buffer:   *)
(* recv() never returns 0.                                                 *)
NoEarlyEnd == ClientMoves \cap {"fin", "long"} = {}

(* Every path names a file that can be opened.                             *)
OnlyFiles == Paths \subseteq Files

(* Descriptors for a socket, a file and an eventfd per block, and one that *)
(* each login leaves behind.                                               *)
EnoughDescriptors ==
  IsFiniteSet(Conns) /\ 3 * Cardinality(Conns) + MaxLogins <= MaxFd

(* No file comes to a size that an int cannot hold.                        *)
SizesFit == \A f \in Files : 2 * (InitSize[f] + MaxLogins) < IntRange - 1

(* No client resets its connection.                                        *)
NoResets == "rst" \notin ClientMoves

(* What clients ask for does not grow.                                     *)
FixedSizes == MaxLogins = 0 \/ LogFile \notin Paths

-----------------------------------------------------------------------------
(* Descriptors.                                                            *)

(* The client whose socket block c holds.                                  *)
Peer(c) == fdtab[heap[c].sockfd].of

(* Block c is past the header, so open() has set its fd.                   *)
Opened(c) == heap[c].state \in {"SENDING", "READING"}

(* An operation of c is out, and nobody has started to harvest it.         *)
Armed(c) == aio[c].op # "none" /\ waiting # c

(* The three numbers in a block: each is the block's own, or 0, which is   *)
(* standard input and never registered.  An operation that is out works on *)
(* what its block has opened.                                              *)
SocketOwned(c) ==
  LET s == heap[c].sockfd
  IN  /\ fdtab[s].kind = "sock"
      /\ interest[s] # Absent
      /\ aio[c].op \in {"header", "data"} => aio[c].obj = fdtab[s]

FileOwned(c) ==
  IF Opened(c) THEN /\ fdtab[heap[c].fd] = File(heap[c].path)
                    /\ aio[c].op = "read" => aio[c].obj = fdtab[heap[c].fd]
  ELSE heap[c].fd = 0

EventFdOwned(c) ==
  LET e == heap[c].eventfd
  IN  /\ Armed(c) => fdtab[e] = EventFd(c) /\ interest[e] # Absent
      /\ aio[c].op # "none" => e # 0
      /\ ~Opened(c) => e = 0
      /\ "IN" \in interest[heap[c].sockfd].ev => e = 0 \/ aio[c].op # "none"

BlockOwns(c) ==
  /\ SocketOwned(c) /\ FileOwned(c) /\ EventFdOwned(c)
  /\ heap[c].state = "DATA_RECEIVED" => heap[c].path \in Paths

(* Two blocks share no socket and no file descriptor.                      *)
Exclusive(c, d) ==
  /\ heap[c].sockfd = heap[d].sockfd => c = d
  /\ Opened(c) /\ Opened(d) /\ heap[c].fd = heap[d].fd => c = d

(* And what the table holds at f belongs to a block in use, or to nobody.  *)
HasOwner(f) ==
  LET o == fdtab[f]
  IN  /\ o.kind = "std" => f = 0
      /\ o.kind = "sock" => \E c \in alloc : heap[c].sockfd = f
      /\ o.kind = "evfd" => o.of \in alloc /\ Armed(o.of) /\ heap[o.of].eventfd = f
      /\ o.kind = "file" => \E c \in alloc : Opened(c) /\ heap[c].fd = f

(* A client has at most one socket, and none before it is accepted.        *)
OneSocket(f, g) ==
  fdtab[f].kind = "sock" =>
    /\ fdtab[f] = fdtab[g] => f = g
    /\ client[fdtab[f].of].link \in {"open", "fin", "rst"}

(* Every block owns its descriptors, every descriptor has its block, and   *)
(* handle_work_done() waits only for operations that were submitted: a     *)
(* number that close() has freed and accept() or open() has reused is      *)
(* never still in use under its old meaning.                               *)
OwnershipInv ==
  /\ fdtab[0] = Stdin /\ interest[0] = Absent
  /\ \A c \in alloc : BlockOwns(c)
  /\ \A c, d \in alloc : Exclusive(c, d)
  /\ \A f \in Fd : HasOwner(f)
  /\ \A f, g \in Fd : OneSocket(f, g)
  /\ \A k \in Clients : client[k].link # "none" => client[k].path \in Paths
  /\ BlockedOnRealWork

(* No connection has been taken for closed and left to itself.             *)
NoneLeftClosed ==
  /\ \A k \in Clients : client[k].link # "fin" /\ client[k].req # "long"
  /\ \A c \in alloc : heap[c].state # "CLOSED"

(* A client whose request has been taken has nothing more to be received.  *)
SilentInv ==
  /\ \A k \in Clients : client[k].link \notin {"fin", "rst"}
  /\ \A c \in alloc : heap[c].state \in WorkStates => client[Peer(c)].req = "read"
  /\ WorkDoneWhenTriggered

-----------------------------------------------------------------------------
(* Bytes.                                                                  *)

(* What the client of block c must have received before its next bytes:    *)
(* the header, and n bytes of the file.                                    *)
Has(c, n) ==
  LET s == stream[Peer(c)]
  IN  client[Peer(c)].link # "rst" =>
        s.hdr = "200" /\ s.file = heap[c].path /\ s.clen = heap[c].file_dimension
          /\ s.upto = n

HasNothing(c) ==
  stream[Peer(c)].hdr = "none" /\ stream[Peer(c)].upto = 0

HeaderInBuffer(c) ==
  /\ heap[c].send_buffer = write_http200_header(heap[c].path, heap[c].file_dimension)
  /\ heap[c].send_len = 0

(* The buffer holds the last read_data bytes of the send_len read so far.  *)
DataInBuffer(c) ==
  LET h == heap[c]
  IN  /\ h.read_data >= 0 /\ h.read_data <= h.send_len
      /\ h.read_data > 0 =>
           h.send_buffer = FileBytes(h.path, h.send_len - h.read_data, h.read_data)

(* One case per stage of a transfer.                                       *)
Asking(c) ==
  ~Opened(c) => HasNothing(c) /\ heap[c].send_len = 0

BeforeHeader(c) ==
  heap[c].state = "SENDING" /\ heap[c].is_header =>
    HasNothing(c) /\ HeaderInBuffer(c) /\ aio[c].op = "none"

BetweenOperations(c) ==
  aio[c].op = "none" /\ ~heap[c].is_header =>
    /\ heap[c].state = "READING" => heap[c].send_len >= 0 /\ Has(c, heap[c].send_len)
    /\ heap[c].state = "SENDING" =>
         DataInBuffer(c) /\ Has(c, heap[c].send_len - heap[c].read_data)

HeaderOut(c) ==
  aio[c].op = "header" =>
    /\ heap[c].state = "SENDING" /\ ~heap[c].is_header
    /\ aio[c].len = 1
    /\ HeaderInBuffer(c)
    /\ IF aio[c].done THEN Has(c, 0) ELSE HasNothing(c)

ReadOut(c) ==
  aio[c].op = "read" =>
    /\ heap[c].state = "READING"
    /\ aio[c].lo = heap[c].send_len /\ heap[c].send_len >= 0
    /\ Has(c, heap[c].send_len)
    /\ aio[c].done =>
         /\ aio[c].res >= 0
         /\ aio[c].res > 0 =>
              heap[c].send_buffer = FileBytes(heap[c].path, aio[c].lo, aio[c].res)

DataOut(c) ==
  aio[c].op = "data" =>
    /\ heap[c].state = "SENDING" /\ ~heap[c].is_header
    /\ aio[c].len = heap[c].read_data
    /\ DataInBuffer(c)
    /\ Has(c, IF aio[c].done THEN heap[c].send_len
              ELSE heap[c].send_len - heap[c].read_data)

Stage(c) ==
  /\ heap[c].state \in WorkStates => heap[c].path = client[Peer(c)].path
  /\ heap[c].is_header => heap[c].state = "SENDING"
  /\ Asking(c) /\ BeforeHeader(c) /\ BetweenOperations(c)
  /\ HeaderOut(c) /\ ReadOut(c) /\ DataOut(c)

(* A client that is not served, or not served any more.                    *)
StreamEnds(k) ==
  /\ client[k].link \in {"none", "backlog"} => stream[k] = Silent
  /\ stream[k].ok
  /\ stream[k].hdr # "404"
  /\ stream[k].hdr = "200" => stream[k].file = client[k].path
  /\ stream[k].eof =>
       /\ \A f \in Fd : fdtab[f] # Sock(k)
       /\ client[k].link # "rst" =>
            stream[k].hdr = "200" /\ stream[k].upto = stream[k].clen

(* At each stage of its transfer a block and its client agree on how far   *)
(* the file has come.                                                      *)
DeliveryInv ==
  /\ \A c \in alloc : Stage(c)
  /\ \A k \in Clients : StreamEnds(k)

-----------------------------------------------------------------------------
(* Announced lengths.                                                      *)

(* The header's length is the file's, and no read goes beyond it.          *)
Measured(c) ==
  /\ Opened(c) =>
       /\ heap[c].file_dimension = InitSize[heap[c].path]
       /\ heap[c].send_len <= heap[c].file_dimension
  /\ aio[c].op = "read" /\ aio[c].done =>
       heap[c].send_len + aio[c].res <= heap[c].file_dimension
  /\ heap[c].state \in WorkStates => client[Peer(c)].req \in {"read", "extra"}

(* Nothing is sent that was not asked for, nor more than was announced.    *)
MeasureInv ==
  /\ \A k \in Clients : client[k].link # "rst"
  /\ \A f \in Files \cap Paths : size[f] = InitSize[f]
  /\ logins.reported => logins.total > 0
  /\ \A c \in alloc : Measured(c)

-----------------------------------------------------------------------------
(* Staying up.                                                             *)

(* A block that has work and no operation waits for EPOLLOUT, and one that *)
(* has never submitted any has a client that can be written to.            *)
CanGoOn(c) ==
  /\ heap[c].state # "CLOSED"
  /\ heap[c].state = "NEW_CONN" => client[Peer(c)].req \in {"idle", "whole"}
  /\ heap[c].state \in WorkStates /\ aio[c].op = "none" =>
       "OUT" \in interest[heap[c].sockfd].ev
  /\ heap[c].eventfd = 0 => Peer(c) \notin clogged

(* No read fails, so that the length of each write is one.                 *)
ReadsSucceed(c) ==
  /\ heap[c].send_len >= 0 /\ heap[c].read_data >= 0
  /\ heap[c].state = "READING" /\ aio[c].op # "none" => aio[c].op = "read"
  /\ aio[c].op = "read" /\ aio[c].done => aio[c].res >= 0

WtmpFds == {f \in Fd : fdtab[f] = Wtmp}

UptimeInv ==
  /\ proc = "running"
  /\ \A c \in alloc : CanGoOn(c) /\ ReadsSucceed(c)
  /\ \A k \in Clients :
       /\ client[k].link \notin {"fin", "rst"}
       /\ client[k].link \in {"none", "backlog"} =>
            client[k].req = "idle" /\ k \notin clogged
  /\ Cardinality(WtmpFds) + (IF logins.reported THEN 1 ELSE 0) <= logins.total
  /\ \A f \in Files :
       size[f] + (IF logins.reported THEN 1 ELSE 0) <= InitSize[f] + logins.total

=============================================================================
