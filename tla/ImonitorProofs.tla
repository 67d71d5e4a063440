---------------------------- MODULE ImonitorProofs ----------------------------
(***************************************************************************)
(* Proofs about Imonitor, for any number of clients, blocks, files and     *)
(* descriptors, any buffer size, and any contents of uninitialised memory. *)
(***************************************************************************)
EXTENDS Imonitor, WellFoundedInduction, TLAPS

-----------------------------------------------------------------------------
(* Facts about the descriptor table.                                       *)

(* open(), accept() and eventfd() return a number that was free, whenever  *)
(* there is one.                                                           *)
LEMMA LowestFreeIsFree ==
  ASSUME NEW tab, FreeFds(tab) # {}
  PROVE  LowestFree(tab) \in Fd /\ tab[LowestFree(tab)] = Free
<1>1. FreeFds(tab) \subseteq Nat
  BY DescriptorsAssumption DEF FreeFds, Fd
<1>2. \E f \in FreeFds(tab) :
        \A g \in FreeFds(tab) : <<g, f>> \notin OpToRel(<, Nat)
  BY <1>1, NatLessThanWellFounded, WFMin
<1>3. \A f, g \in Nat : <<g, f>> \notin OpToRel(<, Nat) => f <= g
  BY DEF OpToRel
<1>4. \E f \in FreeFds(tab) : \A g \in FreeFds(tab) : f <= g
  BY <1>1, <1>2, <1>3
<1>5. LowestFree(tab) \in FreeFds(tab)
  BY <1>4 DEF LowestFree
<1> QED  BY <1>5 DEF FreeFds

(* Closing and forgetting keep the two tables well formed.                 *)
LEMMA CloseType ==
  ASSUME NEW tab \in [Fd -> Objects], NEW fds
  PROVE  Close(tab, fds) \in [Fd -> Objects]
BY DEF Close, Objects, Free

LEMMA ForgetType ==
  ASSUME NEW int \in [Fd -> Interests], NEW fds
  PROVE  Forget(int, fds) \in [Fd -> Interests]
BY DEF Forget, Interests, Absent

-----------------------------------------------------------------------------
(* Type correctness.  One lemma per action; each touches few variables.    *)

LEMMA ExitType ==
  ASSUME TypeOK, Exit
  PROVE  TypeOK'
BY DEF TypeOK, Exit, kernelVars, peerVars, fileVars

LEMMA FreedBlockType == FreedBlock \in Connections
<1>1. 0 \in Fd
  BY DescriptorsAssumption DEF Fd
<1>2. None \in Names /\ None \in Files \cup {None}
  BY DEF Names
<1>3. EmptyBuffer \in Buffers
  BY <1>2 DEF EmptyBuffer, Buffers
<1> QED  BY <1>1, <1>2, <1>3 DEF FreedBlock, Connections, States

LEMMA InitType == Init => TypeOK
<1> SUFFICES ASSUME Init PROVE TypeOK  OBVIOUS
<1> USE DescriptorsAssumption, ImonitorAssumption
<1>1. 0 \in Fd  BY DEF Fd
<1>2. fdtab \in [Fd -> Objects]
  BY DEF Init, Objects, Stdin, Free
<1>3. interest \in [Fd -> Interests]
  BY DEF Init, Interests, Absent
<1>4. aio \in [Conns -> Operations]
  BY DEF Init, Operations, Idle, Objects, Free
<1>5. heap \in [Conns -> Connections]
  BY FreedBlockType DEF Init
<1>6. client \in [Clients -> Peers] /\ stream \in [Clients -> Streams]
  <2>1. None \in Names /\ None \in Files \cup {None}
    BY DEF Names
  <2>2. [link |-> "none", req |-> "idle", path |-> None] \in Peers
    BY <2>1 DEF Peers
  <2>3. Silent \in Streams
    BY <2>1 DEF Silent, Streams
  <2> QED  BY <2>2, <2>3 DEF Init
<1>7. logins \in [total : 0 .. MaxLogins, reported : BOOLEAN]
  BY DEF Init
<1> QED  BY <1>2, <1>3, <1>4, <1>5, <1>6, <1>7 DEF Init, TypeOK

(* One field of one peer changes.                                          *)
LEMMA PeerTypes ==
  ASSUME TypeOK, NEW k \in Clients
  PROVE  /\ \A l \in {"open", "fin", "rst"} :
              [client EXCEPT ![k].link = l] \in [Clients -> Peers]
         /\ \A r \in {"part", "whole", "long", "read", "extra"} :
              [client EXCEPT ![k].req = r] \in [Clients -> Peers]
         /\ \A p \in Names :
              [client EXCEPT ![k].link = "backlog", ![k].path = p]
                \in [Clients -> Peers]
<1>1. client \in [Clients -> Peers] /\ client[k] \in Peers
  BY DEF TypeOK
<1>2. ASSUME NEW q \in Peers PROVE [client EXCEPT ![k] = q] \in [Clients -> Peers]
  BY <1>1
<1>3. ASSUME NEW l \in {"open", "fin", "rst"}
      PROVE  [client EXCEPT ![k].link = l] \in [Clients -> Peers]
  <2>1. [client[k] EXCEPT !.link = l] \in Peers
    BY <1>1 DEF Peers
  <2>2. [client EXCEPT ![k].link = l] = [client EXCEPT ![k] = [client[k] EXCEPT !.link = l]]
    BY <1>1
  <2> QED  BY <1>2, <2>1, <2>2
<1>4. ASSUME NEW r \in {"part", "whole", "long", "read", "extra"}
      PROVE  [client EXCEPT ![k].req = r] \in [Clients -> Peers]
  <2>1. [client[k] EXCEPT !.req = r] \in Peers
    BY <1>1 DEF Peers
  <2>2. [client EXCEPT ![k].req = r] = [client EXCEPT ![k] = [client[k] EXCEPT !.req = r]]
    BY <1>1
  <2> QED  BY <1>2, <2>1, <2>2
<1>5. ASSUME NEW p \in Names
      PROVE  [client EXCEPT ![k].link = "backlog", ![k].path = p]
               \in [Clients -> Peers]
  <2>1. [client[k] EXCEPT !.link = "backlog", !.path = p] \in Peers
    BY <1>1 DEF Peers
  <2>2. [client EXCEPT ![k].link = "backlog", ![k].path = p]
          = [client EXCEPT ![k] = [client[k] EXCEPT !.link = "backlog", !.path = p]]
    BY <1>1
  <2> QED  BY <1>2, <2>1, <2>2
<1> QED  BY <1>3, <1>4, <1>5

LEMMA ClientFrame ==
  ASSUME TypeOK, NEW k \in Clients, ClientStep(k),
         client' \in [Clients -> Peers], UNCHANGED <<stream, clogged>>
  PROVE  TypeOK'
BY DEF TypeOK, ClientStep, kernelVars, fileVars

LEMMA ClientType ==
  ASSUME TypeOK, NEW k \in Clients, ClientNext(k)
  PROVE  TypeOK'
<1>1. None \in Names /\ Paths \subseteq Names
  BY ImonitorAssumption DEF Names
<1>2. ASSUME NEW p \in Paths, Connect(k, p) PROVE TypeOK'
  <2>1. client' = [client EXCEPT ![k].link = "backlog", ![k].path = p]
    BY <1>2 DEF Connect
  <2>2. client' \in [Clients -> Peers]
    BY <1>1, <2>1, PeerTypes
  <2> QED  BY <1>2, <2>2, ClientFrame DEF Connect
<1>3. ASSUME NEW r \in {"part", "whole", "long", "extra"}, ClientStep(k),
             client' = [client EXCEPT ![k].req = r], UNCHANGED <<stream, clogged>>
      PROVE  TypeOK'
  <2>1. client' \in [Clients -> Peers]
    BY <1>1, <1>3, PeerTypes
  <2> QED  BY <1>3, <2>1, ClientFrame
<1>4. CASE SendRequest(k) \/ SendFragment(k) \/ SendLong(k) \/ SendExtra(k)
  BY <1>3, <1>4 DEF SendRequest, SendFragment, SendLong, SendExtra
<1>5. ASSUME NEW how \in {"fin", "rst"}, Leave(k, how) PROVE TypeOK'
  <2>1. client' = [client EXCEPT ![k].link = how]
    BY <1>5 DEF Leave
  <2>2. client' \in [Clients -> Peers]
    BY <1>1, <2>1, PeerTypes
  <2> QED  BY <1>5, <2>2, ClientFrame DEF Leave
<1>6. CASE Drain(k)
  BY <1>6 DEF TypeOK, Drain, ClientStep, kernelVars, fileVars
<1> QED  BY <1>2, <1>4, <1>5, <1>6 DEF ClientNext

LEMMA LoginType ==
  ASSUME TypeOK, Login
  PROVE  TypeOK'
BY ImonitorAssumption DEF TypeOK, Login, kernelVars, peerVars

LEMMA ObjectTypes ==
  /\ Free \in Objects /\ Wtmp \in Objects
  /\ \A k \in Clients : Sock(k) \in Objects
  /\ \A c \in Conns : EventFd(c) \in Objects
  /\ \A f \in Files : File(f) \in Objects
BY DEF Objects, Free, Wtmp, Sock, EventFd, File

LEMMA ObjectOwners ==
  ASSUME NEW o \in Objects
  PROVE  /\ o.kind = "sock" => o.of \in Clients
         /\ o.kind = "evfd" => o.of \in Conns
         /\ o.kind = "file" => o.of \in Files
BY DEF Objects

LEMMA HangupType ==
  ASSUME TypeOK, NEW fds
  PROVE  Hangup(fdtab, fds) \in [Clients -> Streams]
<1>1. stream \in [Clients -> Streams]
  BY DEF TypeOK
<1>2. \A q \in Streams : [q EXCEPT !.eof = TRUE] \in Streams
  BY DEF Streams
<1> QED  BY <1>1, <1>2 DEF Hangup

LEMMA OperationType ==
  ASSUME NEW op \in {"read", "header", "data"}, NEW o \in Objects,
         NEW lo \in Nat, NEW len \in Nat
  PROVE  Operation(op, o, lo, len) \in Operations
BY DEF Operation, Operations

LEMMA RemoveType ==
  ASSUME TypeOK, NEW c \in Conns, NEW int \in [Fd -> Interests],
         connection_remove(c, fdtab, int)
  PROVE  /\ fdtab' \in [Fd -> Objects]
         /\ interest' \in [Fd -> Interests]
         /\ stream' \in [Clients -> Streams]
         /\ heap' \in [Conns -> Connections]
         /\ alloc' \subseteq Conns
<1>2. heap' \in [Conns -> Connections] /\ alloc' \subseteq Conns
  BY FreedBlockType DEF TypeOK, connection_remove
<1>3. fdtab' \in [Fd -> Objects] /\ interest' \in [Fd -> Interests]
  BY CloseType, ForgetType DEF TypeOK, connection_remove
<1>4. stream' \in [Clients -> Streams]
  BY HangupType DEF connection_remove
<1> QED  BY <1>2, <1>3, <1>4

(* The wrappers of w_epoll.h.                                              *)
LEMMA EpollTypes ==
  ASSUME NEW int \in [Fd -> Interests], NEW f \in Fd, NEW c \in Conns
  PROVE  /\ w_epoll_add_ptr_in(int, f, c) \in [Fd -> Interests]
         /\ w_epoll_add_ptr_eventfd(int, f, c) \in [Fd -> Interests]
         /\ w_epoll_update_ptr_in(int, f, c) \in [Fd -> Interests]
         /\ w_epoll_update_ptr_out(int, f, c) \in [Fd -> Interests]
         /\ w_epoll_update_ptr_inout(int, f, c) \in [Fd -> Interests]
         /\ w_epoll_remove_ptr(int, f) \in [Fd -> Interests]
BY DEF Interests, Absent, w_epoll_add_ptr_in, w_epoll_add_ptr_eventfd,
       w_epoll_update_ptr_in, w_epoll_update_ptr_out,
       w_epoll_update_ptr_inout, w_epoll_remove_ptr

LEMMA ReceiveType ==
  ASSUME NEW s \in Streams, NEW b \in Buffers, NEW n \in Nat
  PROVE  Receive(s, b, n) \in Streams
<1>1. CASE b.kind \in {"200", "404"} /\ s.hdr = "none"
  BY <1>1 DEF Receive, Streams, Buffers
<1>2. CASE /\ ~(b.kind \in {"200", "404"} /\ s.hdr = "none")
           /\ b.kind = "data" /\ s.hdr = "200" /\ s.file = b.file
           /\ b.lo = s.upto /\ n <= b.n
  BY <1>2 DEF Receive, Streams, Buffers
<1>3. CASE /\ ~(b.kind \in {"200", "404"} /\ s.hdr = "none")
           /\ ~(/\ b.kind = "data" /\ s.hdr = "200" /\ s.file = b.file
                /\ b.lo = s.upto /\ n <= b.n)
  BY <1>3 DEF Receive, Streams
<1> QED  BY <1>1, <1>2, <1>3

LEMMA KernelType ==
  ASSUME TypeOK, NEW c \in Conns, KernelNext(c)
  PROVE  TypeOK'
<1> USE DEF peerVars, fileVars
<1>1. ASSUME NEW r \in Nat \cup {Failed}, CompleteWith(c, r)
      PROVE  aio' \in [Conns -> Operations]
  <2>1. aio \in [Conns -> Operations] /\ aio[c] \in Operations
    BY DEF TypeOK
  <2>2. [aio[c] EXCEPT !.done = TRUE, !.res = r] \in Operations
    BY <2>1 DEF Operations
  <2>3. aio' = [aio EXCEPT ![c] = [aio[c] EXCEPT !.done = TRUE, !.res = r]]
    BY <1>1, <2>1 DEF CompleteWith
  <2> QED  BY <2>1, <2>2, <2>3
<1>2. Failed \in Nat \cup {Failed} /\ aio[c].len \in Nat
  BY DEF TypeOK, Operations
<1>3. CASE ReadDone(c)
  <2>1. CASE aio[c].obj.kind = "file"
    <3> DEFINE f == aio[c].obj.of
               n == IF aio[c].lo >= size[f] THEN 0
                    ELSE SetMin(BufSiz, size[f] - aio[c].lo)
    <3>1. f \in Files
      BY <2>1, ObjectOwners DEF TypeOK, Operations
    <3>2. size[f] \in Nat
      BY <3>1 DEF TypeOK
    <3>3. aio[c].lo \in Nat
      BY DEF TypeOK, Operations
    <3>4. n \in Nat
      BY <3>2, <3>3, ImonitorAssumption DEF SetMin
    <3>5. FileBytes(f, aio[c].lo, n) \in Buffers
      BY <3>1, <3>3, <3>4 DEF FileBytes, Buffers
    <3>6. /\ CompleteWith(c, n)
          /\ heap' = [heap EXCEPT ![c].send_buffer =
                        IF n = 0 THEN @ ELSE FileBytes(f, aio[c].lo, n)]
      BY <1>3, <2>1 DEF ReadDone
    <3> HIDE DEF n, f
    <3>7. heap' \in [Conns -> Connections]
      BY <3>5, <3>6 DEF TypeOK, Connections
    <3>8. aio' \in [Conns -> Operations]
      BY <1>1, <3>4, <3>6
    <3> QED  BY <1>3, <3>7, <3>8 DEF ReadDone, TypeOK
  <2>2. CASE ~(aio[c].obj.kind = "file")
    BY <1>1, <1>2, <1>3, <2>2 DEF ReadDone, TypeOK
  <2> QED  BY <2>1, <2>2
<1>4. CASE WriteDone(c)
  <2> DEFINE k == aio[c].obj.of
  <2>1. k \in Clients
    BY <1>4, ObjectOwners DEF WriteDone, TypeOK, Operations
  <2>2. heap[c].send_buffer \in Buffers
    BY DEF TypeOK, Connections
  <2>3. ASSUME NEW n \in Nat, Send(c, n)
        PROVE  aio' \in [Conns -> Operations] /\ stream' \in [Clients -> Streams]
    <3>1. stream \in [Clients -> Streams]
      BY DEF TypeOK
    <3>2. Receive(stream[k], heap[c].send_buffer, n) \in Streams
      BY <2>1, <2>2, <3>1, ReceiveType
    <3>3. stream' \in [Clients -> Streams]
      BY <2>1, <2>3, <3>1, <3>2 DEF Send
    <3> QED  BY <1>1, <2>3, <3>3 DEF Send
  <2>4. \E n \in Nat : Send(c, n)
    <3>1. aio[c].len \in Nat
      BY <1>2
    <3>2. 1 .. aio[c].len - 1 \subseteq Nat
      OBVIOUS
    <3> QED  BY <1>4, <3>1, <3>2 DEF WriteDone
  <2>5. clogged' \subseteq Clients
    BY <1>4, <2>1 DEF WriteDone, TypeOK
  <2> QED  BY <1>4, <2>3, <2>4, <2>5 DEF WriteDone, TypeOK
<1>5. CASE WriteFails(c)
  <2>1. CASE Exit  BY <2>1, ExitType
  <2>2. CASE ~Exit
    <3>1. aio' \in [Conns -> Operations]
      BY <1>1, <1>2, <1>5, <2>2 DEF WriteFails
    <3> QED  BY <1>5, <2>2, <3>1 DEF WriteFails, TypeOK
  <2> QED  BY <2>1, <2>2
<1> QED  BY <1>3, <1>4, <1>5 DEF KernelNext

LEMMA AcceptType ==
  ASSUME TypeOK, NEW k \in Clients, NEW c \in Conns, handle_new_connection(k, c)
  PROVE  TypeOK'
<1>1. CASE FreeFds(fdtab) = {}
  BY <1>1, ExitType DEF handle_new_connection
<1>2. CASE FreeFds(fdtab) # {}
  <2> DEFINE s == LowestFree(fdtab)
  <2>1. s \in Fd
    BY <1>2, LowestFreeIsFree
  <2>2. fdtab' \in [Fd -> Objects]
    BY <1>2, <2>1, ObjectTypes DEF handle_new_connection, TypeOK
  <2>3. interest' \in [Fd -> Interests]
    BY <1>2, <2>1, EpollTypes DEF handle_new_connection, TypeOK
  <2>4. EmptyBuffer \in Buffers
    BY DEF EmptyBuffer, Buffers
  <2>5. heap' \in [Conns -> Connections]
    <3>1. PICK e \in GarbageFds, d \in GarbageFds, dim \in GarbageDims :
            heap' = [heap EXCEPT ![c] =
              [sockfd |-> s, eventfd |-> e, fd |-> d,
               state |-> "NEW_CONN", path |-> None, is_header |-> FALSE,
               send_len |-> 0, read_data |-> 0, file_dimension |-> dim,
               send_buffer |-> EmptyBuffer]]
      BY <1>2 DEF handle_new_connection
    <3>2. e \in Fd /\ d \in Fd /\ dim \in Nat
      BY ImonitorAssumption
    <3> HIDE DEF s
    <3>3. [sockfd |-> s, eventfd |-> e, fd |-> d,
           state |-> "NEW_CONN", path |-> None, is_header |-> FALSE,
           send_len |-> 0, read_data |-> 0, file_dimension |-> dim,
           send_buffer |-> EmptyBuffer] \in Connections
      <4>1. None \in Names
        BY DEF Names
      <4> QED  BY <2>1, <2>4, <3>2, <4>1 DEF Connections, States
    <3> QED  BY <3>1, <3>3 DEF TypeOK
  <2>6. client' \in [Clients -> Peers]
    BY <1>2 DEF handle_new_connection, TypeOK, Peers
  <2> QED
    BY <1>2, <2>2, <2>3, <2>5, <2>6
       DEF handle_new_connection, TypeOK, fileVars
<1> QED  BY <1>1, <1>2

LEMMA RequestType ==
  ASSUME TypeOK, NEW c \in Conns, handle_client_request(c)
  PROVE  TypeOK'
<1> DEFINE s == heap[c].sockfd
           e == heap[c].eventfd
           o == fdtab[s]
<1>1. s \in Fd /\ e \in Fd
  BY DEF TypeOK, Connections
<1>2. o.kind = "sock" => o.of \in Clients
  BY <1>1, ObjectOwners DEF TypeOK
<1> USE DEF kernelVars, fileVars
<1>3. CASE Exit  BY <1>3, ExitType
<1>4. CASE ReceiveFails(c) /\ ~Exit
  <2>1. /\ connection_remove(c, fdtab,
             w_epoll_remove_ptr(w_epoll_remove_ptr(interest, e), s))
        /\ UNCHANGED <<proc, waiting, aio, client, clogged, fileVars>>
    BY <1>4 DEF ReceiveFails, RemoveUnread
  <2>2. w_epoll_remove_ptr(w_epoll_remove_ptr(interest, e), s) \in [Fd -> Interests]
    BY <1>1, EpollTypes DEF TypeOK
  <2> QED  BY <2>1, <2>2, RemoveType DEF TypeOK
<1>5. CASE ReceiveEof(c)
  <2>1. heap' \in [Conns -> Connections]
    BY <1>5 DEF ReceiveEof, TypeOK, Connections, States
  <2>2. client' \in [Clients -> Peers]
    <3>1. o.of \in Clients
      BY <1>2, <1>5 DEF ReceiveEof
    <3>2. \E rest \in {"read", "long"} :
            client' = [client EXCEPT ![o.of].req = rest]
      BY <1>5 DEF ReceiveEof
    <3>3. None \in Names
      BY DEF Names
    <3>4. PICK rest \in {"read", "long"} :
            client' = [client EXCEPT ![o.of].req = rest]
      BY <3>2
    <3> HIDE DEF o
    <3>5. [client EXCEPT ![o.of].req = rest] \in [Clients -> Peers]
      BY <3>1, <3>3, PeerTypes
    <3> QED  BY <3>4, <3>5
  <2> QED  BY <1>5, <2>1, <2>2 DEF ReceiveEof, TypeOK
<1>6. CASE ReceiveWhole(c) /\ ~Exit
  <2>1. /\ o.kind = "sock"
        /\ heap' = [heap EXCEPT ![c].path = client[o.of].path,
                                ![c].state = "DATA_RECEIVED"]
        /\ interest' = w_epoll_update_ptr_inout(interest, s, c)
        /\ client' = [client EXCEPT ![o.of].req = "read"]
        /\ UNCHANGED <<proc, waiting, fdtab, aio, alloc, stream, clogged, fileVars>>
    BY <1>6 DEF ReceiveWhole
  <2>2. client[o.of].path \in Names
    BY <1>2, <2>1 DEF TypeOK, Peers
  <2>3. heap' \in [Conns -> Connections]
    <3> DEFINE b == [heap[c] EXCEPT !.path = client[o.of].path,
                                    !.state = "DATA_RECEIVED"]
    <3>1. heap' = [heap EXCEPT ![c] = b]
      BY <2>1 DEF TypeOK, Connections
    <3>2. heap[c] \in Connections
      BY DEF TypeOK
    <3>3. b \in Connections
      BY <2>2, <3>2 DEF Connections, States
    <3> QED  BY <3>1, <3>3 DEF TypeOK
  <2>4. client' \in [Clients -> Peers]
    <3>1. o.of \in Clients /\ client' = [client EXCEPT ![o.of].req = "read"]
      BY <1>2, <2>1
    <3> HIDE DEF o
    <3>2. [client EXCEPT ![o.of].req = "read"] \in [Clients -> Peers]
      BY <2>2, <3>1, PeerTypes
    <3> QED  BY <3>1, <3>2
  <2>5. interest' \in [Fd -> Interests]
    BY <1>1, <2>1, EpollTypes DEF TypeOK
  <2> QED  BY <2>1, <2>3, <2>4, <2>5 DEF TypeOK
<1> QED  BY <1>3, <1>4, <1>5, <1>6 DEF handle_client_request

(* Submit, for whatever it is handed by read_data() and send_data().       *)
LEMMA SubmitType ==
  ASSUME TypeOK, NEW c \in Conns, NEW d \in Fd,
         NEW op \in {"read", "header", "data"},
         NEW lo \in Int, NEW len \in Int,
         NEW block \in Connections, Submit(c, d, op, lo, len, block)
  PROVE  TypeOK'
<1>1. CASE Exit  BY <1>1, ExitType
<1>2. CASE ~Exit
  <2> DEFINE e     == LowestFree(fdtab)
             tab   == [fdtab EXCEPT ![e] = EventFd(c)]
             armed == w_epoll_add_ptr_eventfd(interest, e, c)
  <2>1. e \in Fd
    BY <1>2, LowestFreeIsFree DEF Submit
  <2>2. heap[c].sockfd \in Fd
    BY DEF TypeOK, Connections
  <2>3. tab \in [Fd -> Objects]
    BY <2>1, ObjectTypes DEF TypeOK
  <2>4. armed \in [Fd -> Interests]
    BY <2>1, EpollTypes DEF TypeOK
  <2>5. /\ fdtab' = tab
        /\ interest' = w_epoll_update_ptr_in(armed, heap[c].sockfd, c)
        /\ aio' = [aio EXCEPT ![c] = Operation(op, tab[d], lo, len)]
        /\ heap' = [heap EXCEPT ![c] = [block EXCEPT !.eventfd = e]]
        /\ UNCHANGED <<proc, waiting, alloc, peerVars, fileVars>>
    BY <1>2 DEF Submit
  <2> HIDE DEF armed, tab, e
  <2>6. interest' \in [Fd -> Interests]
    BY <2>2, <2>4, <2>5, EpollTypes
  <2>7. Operation(op, tab[d], lo, len) \in Operations
    <3>1. ~(lo < 0) /\ ~(len < 0)
      BY <1>2 DEF Submit
    <3>2. lo \in Nat /\ len \in Nat
      BY <3>1
    <3> QED  BY <2>3, <3>2, OperationType
  <2>8. aio' \in [Conns -> Operations]
    BY <2>5, <2>7 DEF TypeOK
  <2>9. heap' \in [Conns -> Connections]
    BY <2>1, <2>5 DEF TypeOK, Connections
  <2> QED
    BY <2>3, <2>5, <2>6, <2>8, <2>9 DEF TypeOK, peerVars, fileVars
<1> QED  BY <1>1, <1>2

LEMMA AsIntType ==
  ASSUME NEW n \in Nat
  PROVE  AsInt(n) \in Int
<1>1. IntRange \in Nat \ {0}
  BY ImonitorAssumption
<1>2. n % IntRange \in Int
  BY <1>1
<1> QED  BY <1>1, <1>2 DEF AsInt

LEMMA HeaderType ==
  ASSUME TypeOK, NEW c \in Conns, NEW block \in Connections,
         NEW tab \in [Fd -> Objects], HeaderReady(c, block, tab)
  PROVE  TypeOK'
<1> DEFINE b == [block EXCEPT !.is_header = TRUE, !.state = "SENDING"]
<1>1. b \in Connections
  BY DEF Connections, States
<1>2. heap' = [heap EXCEPT ![c] = b] /\ fdtab' = tab
  BY DEF HeaderReady
<1> HIDE DEF b
<1>3. heap' \in [Conns -> Connections]
  BY <1>1, <1>2 DEF TypeOK
<1> QED  BY <1>2, <1>3 DEF HeaderReady, TypeOK, peerVars, fileVars

(* What PrepareHeader hands on is a block under the same two numbers.      *)
LEMMA PreparedBlock ==
  ASSUME TypeOK, NEW c \in Conns, PrepareHeader(c), ~Exit
  PROVE  \E block \in Connections, tab \in [Fd -> Objects] :
           /\ HeaderReady(c, block, tab)
           /\ block.sockfd = heap[c].sockfd
           /\ block.eventfd = heap[c].eventfd
<1> DEFINE p == heap[c].path
<1>1. heap[c] \in Connections /\ fdtab \in [Fd -> Objects]
  BY DEF TypeOK
<1>2. CASE PrepareFile(c, p) /\ p \in Files
  <2> DEFINE d == LowestFree(fdtab)
             n == AsInt(size[p])
             block == [heap[c] EXCEPT !.send_buffer = write_http200_header(p, n),
                                      !.file_dimension = n, !.fd = d]
             tab == [fdtab EXCEPT ![d] = File(p)]
  <2>1. d \in Fd
    BY <1>2, LowestFreeIsFree DEF PrepareFile
  <2>2. n \in Nat
    <3>1. size[p] \in Nat
      BY <1>2 DEF TypeOK
    <3>2. n \in Int
      BY <3>1, AsIntType
    <3>3. ~(n < 0)
      BY <1>2 DEF PrepareFile
    <3> QED  BY <3>2, <3>3
  <2>3. HeaderReady(c, block, tab)
    BY <1>2 DEF PrepareFile
  <2> HIDE DEF n, d, p
  <2>4. write_http200_header(p, n) \in Buffers
    BY <1>2, <2>2 DEF write_http200_header, Buffers
  <2>5. block \in Connections
    BY <1>1, <2>1, <2>2, <2>4 DEF Connections
  <2>6. block.sockfd = heap[c].sockfd /\ block.eventfd = heap[c].eventfd
    BY <1>1 DEF Connections
  <2>7. tab \in [Fd -> Objects]
    BY <1>1, <1>2, <2>1, ObjectTypes
  <2> HIDE DEF block, tab
  <2> QED  BY <2>3, <2>5, <2>6, <2>7
<1>3. CASE PrepareNotFound(c)
  <2> DEFINE block == [heap[c] EXCEPT !.send_buffer = write_http404_header]
  <2>1. write_http404_header \in Buffers
    BY DEF write_http404_header, Buffers
  <2>2. block \in Connections
    BY <1>1, <2>1 DEF Connections
  <2>3. block.sockfd = heap[c].sockfd /\ block.eventfd = heap[c].eventfd
    BY <1>1 DEF Connections
  <2>4. HeaderReady(c, block, fdtab)
    BY <1>3 DEF PrepareNotFound
  <2> HIDE DEF block
  <2> QED  BY <1>1, <2>2, <2>3, <2>4
<1> QED  BY <1>2, <1>3 DEF PrepareHeader

LEMMA WorkType ==
  ASSUME TypeOK, NEW c \in Conns, handle_work(c)
  PROVE  TypeOK'
<1>1. CASE Exit  BY <1>1, ExitType
<1>2. heap[c] \in Connections
  BY DEF TypeOK
<1>3. CASE PrepareHeader(c) /\ ~Exit
  BY <1>3, PreparedBlock, HeaderType
<1>4. CASE read_data(c)
  <2>1. heap[c].fd \in Fd /\ heap[c].send_len \in Int
    BY <1>2 DEF Connections
  <2> QED
    BY <1>2, <1>4, <2>1, SubmitType, ImonitorAssumption DEF read_data
<1>5. CASE send_data(c)
  <2>1. heap[c].sockfd \in Fd /\ heap[c].read_data \in Int
    BY <1>2 DEF Connections, Failed
  <2>2. [heap[c] EXCEPT !.is_header = FALSE] \in Connections
    BY <1>2 DEF Connections
  <2>3. CASE heap[c].is_header
    <3> DEFINE b == [heap[c] EXCEPT !.is_header = FALSE]
    <3>1. Submit(c, heap[c].sockfd, "header", 0, 1, b)
      BY <1>5, <2>3 DEF send_data
    <3>2. b \in Connections /\ 0 \in Int /\ 1 \in Int
      BY <2>2
    <3> HIDE DEF b
    <3> QED  BY <2>1, <3>1, <3>2, SubmitType
  <2>4. CASE ~heap[c].is_header
    <3>1. Submit(c, heap[c].sockfd, "data", 0, heap[c].read_data, heap[c])
      BY <1>5, <2>4 DEF send_data
    <3> QED  BY <1>2, <2>1, <3>1, SubmitType
  <2> QED  BY <2>3, <2>4
<1> QED  BY <1>1, <1>3, <1>4, <1>5 DEF handle_work

LEMMA AwaitType ==
  ASSUME TypeOK, NEW c \in Conns, AwaitWork(c)
  PROVE  TypeOK'
<1>1. CASE Exit  BY <1>1, ExitType
<1>2. CASE ~Exit
  <2> DEFINE e == heap[c].eventfd
  <2>1. /\ interest' = Forget(interest, {e})
        /\ fdtab' = Close(fdtab, {e})
        /\ stream' = Hangup(fdtab, {e})
        /\ waiting' = c
        /\ UNCHANGED <<proc, aio, alloc, heap, client, clogged, fileVars>>
    BY <1>2 DEF AwaitWork
  <2>2. /\ interest' \in [Fd -> Interests]
        /\ fdtab' \in [Fd -> Objects]
        /\ stream' \in [Clients -> Streams]
    BY <2>1, CloseType, ForgetType, HangupType DEF TypeOK
  <2> QED  BY <2>1, <2>2 DEF TypeOK, fileVars
<1> QED  BY <1>1, <1>2

LEMMA DoneType ==
  ASSUME TypeOK, NEW c \in Conns, handle_work_done(c)
  PROVE  TypeOK'
<1>1. CASE Exit  BY <1>1, ExitType
<1>2. CASE ~Exit
  <2> DEFINE s   == heap[c].sockfd
             res == aio[c].res
  <2>1. s \in Fd /\ res \in Nat \cup {Failed}
    BY DEF TypeOK, Connections, Operations
  <2>2. /\ waiting' = None
        /\ aio' = [aio EXCEPT ![c] = Idle]
        /\ UNCHANGED <<proc, client, clogged, fileVars>>
    BY <1>2 DEF handle_work_done
  <2>3. waiting' \in Conns \cup {None} /\ aio' \in [Conns -> Operations]
    BY <2>2, ObjectTypes DEF TypeOK, Idle, Operations
  <2>4. CASE /\ heap' = [heap EXCEPT ![c].send_len = @ + res,
                                     ![c].read_data = res,
                                     ![c].state = "SENDING"]
             /\ interest' = w_epoll_update_ptr_out(interest, s, c)
             /\ UNCHANGED <<fdtab, alloc, stream>>
    <3>1. heap[c].send_len + res \in Int
      <4>1. heap[c].send_len \in Int
        BY DEF TypeOK, Connections
      <4> QED  BY <2>1, <4>1 DEF Failed
    <3>2. heap' \in [Conns -> Connections]
      <4> DEFINE b == [heap[c] EXCEPT !.send_len = @ + res,
                                      !.read_data = res, !.state = "SENDING"]
      <4>1. heap' = [heap EXCEPT ![c] = b]
        BY <2>4 DEF TypeOK, Connections
      <4>2. heap[c] \in Connections
        BY DEF TypeOK
      <4>3. b \in Connections
        BY <2>1, <3>1, <4>2 DEF Connections, States
      <4> QED  BY <4>1, <4>3 DEF TypeOK
    <3>3. interest' \in [Fd -> Interests]
      BY <2>1, <2>4, EpollTypes DEF TypeOK
    <3> QED  BY <2>2, <2>3, <2>4, <3>2, <3>3 DEF TypeOK, fileVars
  <2>5. CASE connection_remove(c, fdtab, w_epoll_remove_ptr(interest, s))
    <3>1. w_epoll_remove_ptr(interest, s) \in [Fd -> Interests]
      BY <2>1, EpollTypes DEF TypeOK
    <3> QED
      BY <2>2, <2>3, <2>5, <3>1, RemoveType DEF TypeOK, fileVars
  <2>6. CASE /\ heap' = [heap EXCEPT ![c].state = "READING"]
             /\ interest' = w_epoll_update_ptr_out(interest, s, c)
             /\ UNCHANGED <<fdtab, alloc, stream>>
    <3>1. heap' \in [Conns -> Connections]
      BY <2>6 DEF TypeOK, Connections, States
    <3>2. interest' \in [Fd -> Interests]
      BY <2>1, <2>6, EpollTypes DEF TypeOK
    <3> QED  BY <2>2, <2>3, <2>6, <3>1, <3>2 DEF TypeOK, fileVars
  <2> QED  BY <1>2, <2>4, <2>5, <2>6 DEF handle_work_done
<1> QED  BY <1>1, <1>2

LEMMA LogEntryType ==
  ASSUME TypeOK, NewLogEntry
  PROVE  TypeOK'
<1>1. CASE Exit  BY <1>1, ExitType
<1>2. CASE ~Exit
  <2>1. LowestFree(fdtab) \in Fd
    BY <1>2, LowestFreeIsFree DEF NewLogEntry
  <2>2. fdtab' \in [Fd -> Objects]
    BY <1>2, <2>1, ObjectTypes DEF NewLogEntry, TypeOK
  <2>3. size' \in [Files -> Nat]
    BY <1>2, ImonitorAssumption DEF NewLogEntry, TypeOK
  <2>4. logins' \in [total : 0 .. MaxLogins, reported : BOOLEAN]
    BY <1>2 DEF NewLogEntry, TypeOK
  <2> QED  BY <1>2, <2>2, <2>3, <2>4 DEF NewLogEntry, TypeOK, peerVars
<1> QED  BY <1>1, <1>2

(* Every reachable state is well typed, whatever malloc() leaves in the    *)
(* fields connection_create() does not initialise (imonitor.c:88).         *)
THEOREM TypeCorrect == Spec => []TypeOK
<1>1. Init => TypeOK  BY InitType
<1>2. TypeOK /\ [Next]_vars => TypeOK'
  <2> SUFFICES ASSUME TypeOK, [Next]_vars PROVE TypeOK'  OBVIOUS
  <2>1. ASSUME NEW k \in Clients, ClientNext(k) PROVE TypeOK'
    BY <2>1, ClientType
  <2>2. ASSUME NEW c \in Conns, KernelNext(c) PROVE TypeOK'
    BY <2>2, KernelType
  <2>3. ASSUME NEW c \in Conns, ServerNext(c) PROVE TypeOK'
    BY <2>3, AcceptType, RequestType, WorkType, AwaitType, DoneType
       DEF ServerNext
  <2>4. CASE Login  BY <2>4, LoginType
  <2>5. CASE NewLogEntry  BY <2>5, LogEntryType
  <2>6. CASE UNCHANGED vars
    BY <2>6 DEF TypeOK, vars, kernelVars, peerVars, fileVars
  <2> QED  BY <2>1, <2>2, <2>3, <2>4, <2>5, <2>6 DEF Next
<1> QED  BY <1>1, <1>2, PTL DEF Spec

-----------------------------------------------------------------------------
(* The registration invariant: what epoll may hand back, and when.         *)

(* A step that leaves the interest list, the blocks in use and the wait    *)
(* alone, and moves no block out of its working states, preserves it.      *)
LEMMA RegistrationFrame ==
  ASSUME TypeOK, RegistrationInv,
         UNCHANGED <<interest, alloc, waiting>>,
         \A c \in Conns :
           /\ aio'[c].op = aio[c].op
           /\ heap'[c].sockfd = heap[c].sockfd
           /\ heap'[c].eventfd = heap[c].eventfd
           /\ \/ heap'[c].state = heap[c].state
              \/ heap'[c].state = "SENDING"
  PROVE  RegistrationInv'
<1>1. ASSUME NEW f \in Fd PROVE EntryOK(f)'
  <2>1. interest[f] # Absent => interest[f].ptr \in Conns
    BY DEF RegistrationInv, EntryOK, TypeOK
  <2> QED  BY <2>1 DEF RegistrationInv, EntryOK, WorkStates
<1>2. ASSUME NEW c \in Conns PROVE BlockOK(c)'
  BY DEF RegistrationInv, BlockOK
<1> QED  BY <1>1, <1>2 DEF RegistrationInv

(* A block in use whose entries are all gone can be freed.                 *)
LEMMA RegistrationRemove ==
  ASSUME TypeOK, RegistrationInv, NEW c \in Conns,
         NEW int \in [Fd -> Interests],
         \A f \in Fd : int[f] # Absent =>
                         int[f] = interest[f] /\ interest[f].ptr # c,
         connection_remove(c, fdtab, int),
         aio' \in [Conns -> Operations], aio'[c].op = "none",
         \A d \in Conns \ {c} : aio'[d] = aio[d],
         waiting' = None, waiting \in {None, c}
  PROVE  RegistrationInv'
<1>1. /\ alloc' = alloc \ {c}
      /\ heap' = [heap EXCEPT ![c] = FreedBlock]
  BY DEF connection_remove
<1>2. ASSUME NEW f \in Fd
      PROVE  interest'[f] # Absent => interest'[f] = interest[f] /\ interest[f].ptr # c
  BY DEF connection_remove, Forget
<1>3. ASSUME NEW f \in Fd PROVE EntryOK(f)'
  <2> SUFFICES ASSUME interest'[f] # Absent PROVE EntryOK(f)'
    BY DEF EntryOK
  <2>1. interest'[f] = interest[f] /\ interest[f].ptr # c /\ interest[f].ptr \in alloc
    BY <1>2 DEF RegistrationInv, EntryOK
  <2>2. interest[f].ptr \in Conns
    BY <2>1 DEF TypeOK
  <2>3. /\ heap'[interest[f].ptr] = heap[interest[f].ptr]
        /\ aio'[interest[f].ptr] = aio[interest[f].ptr]
    BY <1>1, <2>1, <2>2 DEF TypeOK
  <2>4. waiting' # interest[f].ptr
    BY <2>2, DescriptorsAssumption
  <2> QED  BY <1>1, <2>1, <2>3, <2>4 DEF RegistrationInv, EntryOK
<1>4. ASSUME NEW d \in Conns PROVE BlockOK(d)'
  BY <1>1 DEF RegistrationInv, BlockOK, TypeOK
<1> QED  BY <1>3, <1>4 DEF RegistrationInv

LEMMA InitRegistration == Init => RegistrationInv
BY DescriptorsAssumption
   DEF Init, RegistrationInv, EntryOK, BlockOK, Idle, Absent

LEMMA ExitRegistration ==
  ASSUME TypeOK, RegistrationInv, Exit
  PROVE  RegistrationInv'
BY RegistrationFrame DEF Exit, kernelVars

LEMMA ClientRegistration ==
  ASSUME TypeOK, RegistrationInv, NEW k \in Clients, ClientNext(k)
  PROVE  RegistrationInv'
<1>1. UNCHANGED <<waiting, interest, aio, alloc, heap>>
  BY DEF ClientNext, Connect, SendRequest, SendFragment, SendLong, SendExtra,
         Leave, Drain, ClientStep, kernelVars
<1> QED  BY <1>1, RegistrationFrame

LEMMA KernelRegistration ==
  ASSUME TypeOK, RegistrationInv, NEW c \in Conns, KernelNext(c)
  PROVE  RegistrationInv'
<1>1. CASE Exit  BY <1>1, ExitRegistration
<1>2. CASE ~Exit
  <2>1. UNCHANGED <<waiting, interest, alloc>>
    BY <1>2 DEF KernelNext, ReadDone, WriteDone, WriteFails
  <2>2. \A d \in Conns : aio'[d].op = aio[d].op
    <3>1. \E r : CompleteWith(c, r)
      BY <1>2 DEF KernelNext, ReadDone, WriteDone, WriteFails, Send
    <3> QED  BY <3>1 DEF CompleteWith, TypeOK, Operations
  <2>3. ASSUME NEW d \in Conns
        PROVE  /\ heap'[d].sockfd = heap[d].sockfd
               /\ heap'[d].eventfd = heap[d].eventfd
               /\ heap'[d].state = heap[d].state
    <3>1. \/ heap' = heap
          \/ \E b : heap' = [heap EXCEPT ![c].send_buffer = b]
      BY <1>2 DEF KernelNext, ReadDone, WriteDone, WriteFails
    <3> QED  BY <3>1 DEF TypeOK, Connections
  <2> QED  BY <2>1, <2>2, <2>3, RegistrationFrame
<1> QED  BY <1>1, <1>2

LEMMA AcceptRegistration ==
  ASSUME TypeOK, RegistrationInv, NEW k \in Clients, NEW c \in Conns,
         handle_new_connection(k, c)
  PROVE  RegistrationInv'
<1>1. CASE FreeFds(fdtab) = {}
  BY <1>1, ExitRegistration DEF handle_new_connection
<1>2. CASE FreeFds(fdtab) # {}
  <2> DEFINE s == LowestFree(fdtab)
  <2>1. /\ interest' = w_epoll_add_ptr_in(interest, s, c)
        /\ alloc' = alloc \cup {c}
        /\ UNCHANGED <<waiting, aio>>
        /\ c \notin alloc
        /\ heap'[c].sockfd = s
        /\ \A d \in Conns \ {c} : heap'[d] = heap[d]
    BY <1>2 DEF handle_new_connection, TypeOK
  <2> HIDE DEF s
  <2>2. aio[c].op = "none"
    BY <2>1 DEF RegistrationInv, BlockOK
  <2>3. ASSUME NEW f \in Fd PROVE EntryOK(f)'
    <3>1. CASE f = s
      BY <2>1, <3>1 DEF EntryOK, w_epoll_add_ptr_in, TypeOK
    <3>2. CASE f # s
      <4>1. interest'[f] = interest[f]
        BY <2>1, <3>2 DEF w_epoll_add_ptr_in, TypeOK
      <4>2. interest[f] # Absent => interest[f].ptr \in Conns \ {c}
        BY <2>1 DEF RegistrationInv, EntryOK, TypeOK
      <4> QED  BY <2>1, <4>1, <4>2 DEF RegistrationInv, EntryOK
    <3> QED  BY <3>1, <3>2
  <2>4. ASSUME NEW d \in Conns PROVE BlockOK(d)'
    BY <2>1, <2>2 DEF RegistrationInv, BlockOK
  <2> QED  BY <2>1, <2>3, <2>4 DEF RegistrationInv
<1> QED  BY <1>1, <1>2

LEMMA RequestRegistration ==
  ASSUME TypeOK, RegistrationInv, NEW c \in Conns, handle_client_request(c)
  PROVE  RegistrationInv'
<1> DEFINE s == heap[c].sockfd
           e == heap[c].eventfd
           without == w_epoll_remove_ptr(interest, e)
<1>1. s \in Fd /\ e \in Fd
  BY DEF TypeOK, Connections
<1>2. heap[c].state = "NEW_CONN" /\ waiting = None
  BY DEF handle_client_request, InLoop
<1>3. aio[c].op = "none"
  BY <1>2 DEF RegistrationInv, BlockOK
<1>4. \A f \in Fd : interest[f].ptr = c /\ interest[f] # Absent => f = s
  BY <1>3 DEF RegistrationInv, EntryOK
<1>5. c \in alloc
  <2>1. PICK f \in Fd : interest[f].ptr = c /\ "IN" \in interest[f].ev
    BY DEF handle_client_request, InEvent
  <2>2. interest[f] # Absent
    BY <2>1 DEF Absent
  <2> QED  BY <2>1, <2>2 DEF RegistrationInv, EntryOK
<1>6. CASE Exit  BY <1>6, ExitRegistration
<1>7. CASE ReceiveFails(c) /\ ~Exit
  <2> DEFINE int == w_epoll_remove_ptr(without, s)
  <2>1. /\ connection_remove(c, fdtab, int)
        /\ UNCHANGED <<waiting, aio>>
    BY <1>7 DEF ReceiveFails, RemoveUnread, fileVars
  <2>2. int \in [Fd -> Interests]
    BY <1>1, EpollTypes DEF TypeOK
  <2>3. \A f \in Fd : int[f] # Absent => int[f] = interest[f] /\ f # s
    BY <1>1 DEF w_epoll_remove_ptr, TypeOK
  <2>4. \A f \in Fd : int[f] # Absent => int[f] = interest[f] /\ interest[f].ptr # c
    BY <1>4, <2>3
  <2> HIDE DEF int
  <2> QED
    BY <1>2, <1>3, <2>1, <2>2, <2>4, RegistrationRemove DEF TypeOK
<1>8. CASE ReceiveEof(c)
  <2>1. /\ UNCHANGED <<waiting, interest, aio, alloc>>
        /\ heap'[c].state = "CLOSED"
        /\ \A d \in Conns : /\ heap'[d].sockfd = heap[d].sockfd
                            /\ heap'[d].eventfd = heap[d].eventfd
                            /\ d # c => heap'[d] = heap[d]
    BY <1>8 DEF ReceiveEof, kernelVars, TypeOK, Connections
  <2>2. ASSUME NEW f \in Fd PROVE EntryOK(f)'
    <3>1. interest[f] # Absent => interest[f].ptr \in Conns
      BY DEF RegistrationInv, EntryOK, TypeOK
    <3> QED
      BY <1>2, <2>1, <3>1 DEF RegistrationInv, EntryOK, WorkStates
  <2>3. ASSUME NEW d \in Conns PROVE BlockOK(d)'
    BY <1>3, <2>1 DEF RegistrationInv, BlockOK
  <2> QED  BY <2>1, <2>2, <2>3 DEF RegistrationInv
<1>9. CASE ReceiveWhole(c) /\ ~Exit
  <2>1. /\ UNCHANGED <<waiting, aio, alloc>>
        /\ interest' = w_epoll_update_ptr_inout(interest, s, c)
        /\ heap' = [heap EXCEPT ![c].path = client[fdtab[s].of].path,
                                ![c].state = "DATA_RECEIVED"]
    BY <1>9 DEF ReceiveWhole
  <2>2. /\ heap'[c].state = "DATA_RECEIVED"
        /\ heap'[c].sockfd = s
        /\ \A d \in Conns \ {c} : heap'[d] = heap[d]
    BY <2>1 DEF TypeOK, Connections
  <2> HIDE DEF s
  <2>3. ASSUME NEW f \in Fd PROVE EntryOK(f)'
    <3>1. CASE f = s
      BY <1>3, <1>5, <2>1, <2>2, <3>1
         DEF EntryOK, w_epoll_update_ptr_inout, TypeOK, WorkStates
    <3>2. CASE f # s
      <4>1. interest'[f] = interest[f]
        BY <2>1, <3>2 DEF w_epoll_update_ptr_inout, TypeOK
      <4>2. interest[f] # Absent => interest[f].ptr \in Conns \ {c}
        BY <1>4, <3>2 DEF RegistrationInv, EntryOK, TypeOK
      <4> QED  BY <2>1, <2>2, <4>1, <4>2 DEF RegistrationInv, EntryOK
    <3> QED  BY <3>1, <3>2
  <2>4. ASSUME NEW d \in Conns PROVE BlockOK(d)'
    BY <1>3, <2>1, <2>2 DEF RegistrationInv, BlockOK
  <2> QED  BY <1>2, <2>1, <2>3, <2>4 DEF RegistrationInv
<1> QED  BY <1>6, <1>7, <1>8, <1>9 DEF handle_client_request

(* A block registered for EPOLLOUT has an idle context and one entry.      *)
LEMMA OutEventFacts ==
  ASSUME TypeOK, RegistrationInv, NEW c \in Conns, OutEvent(c)
  PROVE  /\ c \in alloc
         /\ aio[c].op = "none"
         /\ heap[c].state \in WorkStates
         /\ \A f \in Fd : interest[f].ptr = c /\ interest[f] # Absent
                            => f = heap[c].sockfd
<1>1. PICK f \in Fd : interest[f].ptr = c /\ "OUT" \in interest[f].ev
  BY DEF OutEvent
<1>2. interest[f] # Absent
  BY <1>1 DEF Absent
<1>3. c \in alloc /\ aio[c].op = "none" /\ heap[c].state \in WorkStates
  BY <1>1, <1>2 DEF RegistrationInv, EntryOK
<1> QED  BY <1>3 DEF RegistrationInv, EntryOK

LEMMA SubmitRegistration ==
  ASSUME TypeOK, RegistrationInv, NEW c \in Conns, InLoop, OutEvent(c),
         heap[c].state \in {"SENDING", "READING"},
         NEW d \in Fd, NEW op \in {"read", "header", "data"},
         NEW lo, NEW len, NEW block \in Connections,
         block.sockfd = heap[c].sockfd, block.state = heap[c].state,
         Submit(c, d, op, lo, len, block)
  PROVE  RegistrationInv'
<1>1. CASE Exit  BY <1>1, ExitRegistration
<1>2. CASE ~Exit
  <2> DEFINE s     == heap[c].sockfd
             e     == LowestFree(fdtab)
             armed == w_epoll_add_ptr_eventfd(interest, e, c)
  <2>1. e \in Fd /\ s \in Fd
    BY <1>2, LowestFreeIsFree DEF Submit, TypeOK, Connections
  <2>2. /\ interest' = w_epoll_update_ptr_in(armed, s, c)
        /\ aio'[c].op = op
        /\ \A b \in Conns \ {c} : aio'[b] = aio[b] /\ heap'[b] = heap[b]
        /\ heap'[c] = [block EXCEPT !.eventfd = e]
        /\ UNCHANGED <<waiting, alloc>>
    BY <1>2 DEF Submit, Operation, TypeOK
  <2>3. heap'[c].eventfd = e /\ heap'[c].sockfd = s /\ heap'[c].state = heap[c].state
    BY <2>2 DEF Connections
  <2>4. waiting = None /\ waiting # c
    BY DescriptorsAssumption DEF InLoop
  <2> HIDE DEF s, e
  <2>5. \A f \in Fd :
          /\ f \in {s, e} => interest'[f] = [ev |-> {"IN"}, ptr |-> c]
          /\ f \notin {s, e} => interest'[f] = interest[f]
    BY <2>1, <2>2 DEF TypeOK, w_epoll_update_ptr_in, w_epoll_add_ptr_eventfd
  <2>6. ASSUME NEW f \in Fd PROVE EntryOK(f)'
    <3>1. CASE f \in {s, e}
      <4>1. interest'[f].ptr = c /\ "OUT" \notin interest'[f].ev
        BY <2>5, <3>1
      <4> QED
        BY <2>2, <2>3, <2>4, <3>1, <4>1, OutEventFacts DEF EntryOK
    <3>2. CASE f \notin {s, e}
      <4>1. interest'[f] = interest[f]
        BY <2>5, <3>2
      <4>2. interest[f] # Absent => interest[f].ptr \in Conns \ {c}
        BY <3>2, OutEventFacts DEF RegistrationInv, EntryOK, TypeOK, s
      <4> QED  BY <2>2, <4>1, <4>2 DEF RegistrationInv, EntryOK
    <3> QED  BY <3>1, <3>2
  <2>7. ASSUME NEW b \in Conns PROVE BlockOK(b)'
    BY <2>2, <2>3, OutEventFacts DEF RegistrationInv, BlockOK
  <2> QED  BY <2>2, <2>4, <2>6, <2>7 DEF RegistrationInv
<1> QED  BY <1>1, <1>2

LEMMA HeaderRegistration ==
  ASSUME TypeOK, RegistrationInv, NEW c \in Conns,
         NEW block \in Connections, NEW tab,
         block.sockfd = heap[c].sockfd, block.eventfd = heap[c].eventfd,
         HeaderReady(c, block, tab)
  PROVE  RegistrationInv'
<1>1. UNCHANGED <<waiting, interest, aio, alloc>>
  BY DEF HeaderReady
<1>2. /\ heap'[c].sockfd = block.sockfd
      /\ heap'[c].eventfd = block.eventfd
      /\ heap'[c].state = "SENDING"
      /\ \A d \in Conns \ {c} : heap'[d] = heap[d]
  BY DEF HeaderReady, TypeOK
<1> QED  BY <1>1, <1>2, RegistrationFrame

LEMMA WorkRegistration ==
  ASSUME TypeOK, RegistrationInv, NEW c \in Conns, handle_work(c)
  PROVE  RegistrationInv'
<1>1. CASE Exit  BY <1>1, ExitRegistration
<1>2. heap[c] \in Connections /\ InLoop /\ OutEvent(c)
  BY DEF TypeOK, handle_work
<1>3. CASE PrepareHeader(c) /\ ~Exit
  BY <1>3, PreparedBlock, HeaderRegistration
<1>4. CASE read_data(c)
  BY <1>2, <1>4, SubmitRegistration DEF read_data, Connections
<1>5. CASE send_data(c)
  <2>1. heap[c].sockfd \in Fd
    BY <1>2 DEF Connections
  <2>2. /\ [heap[c] EXCEPT !.is_header = FALSE] \in Connections
        /\ [heap[c] EXCEPT !.is_header = FALSE].sockfd = heap[c].sockfd
        /\ [heap[c] EXCEPT !.is_header = FALSE].state = heap[c].state
    BY <1>2 DEF Connections
  <2>3. CASE heap[c].is_header
    BY <1>2, <1>5, <2>1, <2>2, <2>3, SubmitRegistration DEF send_data
  <2>4. CASE ~heap[c].is_header
    BY <1>2, <1>5, <2>1, <2>4, SubmitRegistration DEF send_data
  <2> QED  BY <2>3, <2>4
<1> QED  BY <1>1, <1>3, <1>4, <1>5 DEF handle_work

LEMMA AwaitRegistration ==
  ASSUME TypeOK, RegistrationInv, NEW c \in Conns, AwaitWork(c)
  PROVE  RegistrationInv'
<1>1. CASE Exit  BY <1>1, ExitRegistration
<1>2. CASE ~Exit
  <2> DEFINE e == heap[c].eventfd
  <2>1. /\ interest' = Forget(interest, {e})
        /\ waiting' = c
        /\ UNCHANGED <<aio, alloc, heap>>
    BY <1>2 DEF AwaitWork
  <2>2. \A f \in Fd : interest'[f] # Absent => f # e /\ interest'[f] = interest[f]
    BY <2>1 DEF Forget
  <2>3. c \in alloc
    <3>1. PICK f \in Fd : interest[f].ptr = c /\ "IN" \in interest[f].ev
      BY DEF AwaitWork, InEvent
    <3>2. interest[f] # Absent
      BY <3>1 DEF Absent
    <3> QED  BY <3>1, <3>2 DEF RegistrationInv, EntryOK
  <2>4. ASSUME NEW f \in Fd PROVE EntryOK(f)'
    <3> SUFFICES ASSUME interest'[f] # Absent PROVE EntryOK(f)'
      BY DEF EntryOK
    <3>1. f # e /\ interest'[f] = interest[f] /\ EntryOK(f)
      BY <2>2 DEF RegistrationInv
    <3>2. interest[f].ptr = c => f = heap[c].sockfd
      BY <3>1 DEF EntryOK
    <3> QED  BY <2>1, <3>1, <3>2 DEF EntryOK
  <2>5. ASSUME NEW d \in Conns PROVE BlockOK(d)'
    BY <2>1 DEF RegistrationInv, BlockOK
  <2> QED  BY <2>1, <2>3, <2>4, <2>5 DEF RegistrationInv
<1> QED  BY <1>1, <1>2

LEMMA DoneRegistration ==
  ASSUME TypeOK, RegistrationInv, NEW c \in Conns, handle_work_done(c)
  PROVE  RegistrationInv'
<1>1. CASE Exit  BY <1>1, ExitRegistration
<1>2. CASE ~Exit
  <2> DEFINE s == heap[c].sockfd
  <2>1. s \in Fd
    BY DEF TypeOK, Connections
  <2>2. /\ waiting = c
        /\ waiting' = None
        /\ aio' = [aio EXCEPT ![c] = Idle]
    BY <1>2 DEF handle_work_done
  <2>3. /\ aio'[c].op = "none"
        /\ \A d \in Conns \ {c} : aio'[d] = aio[d]
        /\ aio' \in [Conns -> Operations]
    BY <2>2, DoneType DEF TypeOK, Idle
  <2>4. c \in alloc /\ \A f \in Fd : interest[f] # Absent /\ interest[f].ptr = c => f = s
    BY <2>2, DescriptorsAssumption DEF RegistrationInv, EntryOK
  <2>5. CASE connection_remove(c, fdtab, w_epoll_remove_ptr(interest, s))
    <3> DEFINE int == w_epoll_remove_ptr(interest, s)
    <3>1. int \in [Fd -> Interests]
      BY <2>1, EpollTypes DEF TypeOK
    <3>2. \A f \in Fd : int[f] # Absent => int[f] = interest[f] /\ f # s
      BY <2>1 DEF w_epoll_remove_ptr, TypeOK
    <3>3. \A f \in Fd : int[f] # Absent => int[f] = interest[f] /\ interest[f].ptr # c
      BY <2>4, <3>2
    <3> HIDE DEF int
    <3>4. connection_remove(c, fdtab, int)
      BY <2>5 DEF int
    <3> QED
      BY <2>2, <2>3, <3>1, <3>3, <3>4, RegistrationRemove
  <2>6. CASE /\ interest' = w_epoll_update_ptr_out(interest, s, c)
             /\ UNCHANGED alloc
             /\ heap'[c].sockfd = s
             /\ heap'[c].state \in {"SENDING", "READING"}
             /\ \A d \in Conns \ {c} : heap'[d] = heap[d]
    <3> HIDE DEF s
    <3>1. ASSUME NEW f \in Fd PROVE EntryOK(f)'
      <4>1. CASE f = s
        <5>1. interest'[f] = [ev |-> {"OUT"}, ptr |-> c]
          BY <2>1, <2>6, <4>1 DEF w_epoll_update_ptr_out, TypeOK
        <5> QED  BY <2>3, <2>4, <2>6, <4>1, <5>1 DEF EntryOK, WorkStates
      <4>2. CASE f # s
        <5>1. interest'[f] = interest[f]
          BY <2>1, <2>6, <4>2 DEF w_epoll_update_ptr_out, TypeOK
        <5>2. interest[f] # Absent => interest[f].ptr \in Conns \ {c}
          BY <2>4, <4>2 DEF RegistrationInv, EntryOK, TypeOK
        <5>3. interest[f] # Absent => waiting' # interest[f].ptr
          BY <2>2, <5>2, DescriptorsAssumption
        <5> QED
          BY <2>3, <2>6, <5>1, <5>2, <5>3 DEF RegistrationInv, EntryOK
      <4> QED  BY <4>1, <4>2
    <3>2. ASSUME NEW d \in Conns PROVE BlockOK(d)'
      BY <2>3, <2>6 DEF RegistrationInv, BlockOK
    <3> QED  BY <2>2, <3>1, <3>2 DEF RegistrationInv
  <2>7. CASE /\ heap' = [heap EXCEPT ![c].send_len = @ + aio[c].res,
                                     ![c].read_data = aio[c].res,
                                     ![c].state = "SENDING"]
             /\ interest' = w_epoll_update_ptr_out(interest, s, c)
             /\ UNCHANGED <<fdtab, alloc, stream>>
    BY <2>6, <2>7 DEF TypeOK, Connections
  <2>8. CASE /\ heap' = [heap EXCEPT ![c].state = "READING"]
             /\ interest' = w_epoll_update_ptr_out(interest, s, c)
             /\ UNCHANGED <<fdtab, alloc, stream>>
    BY <2>6, <2>8 DEF TypeOK, Connections
  <2> QED  BY <1>2, <2>5, <2>7, <2>8 DEF handle_work_done
<1> QED  BY <1>1, <1>2

LEMMA LogRegistration ==
  ASSUME TypeOK, RegistrationInv, Login \/ NewLogEntry
  PROVE  RegistrationInv'
<1>1. UNCHANGED <<waiting, interest, aio, alloc, heap>>
  BY DEF Login, NewLogEntry, Exit, kernelVars
<1> QED  BY <1>1, RegistrationFrame

(* The registration invariant holds in every reachable state, for any      *)
(* clients and any garbage: it does not depend on descriptors being the    *)
(* right ones, only on who registers and who removes which pointer.        *)
THEOREM RegistrationCorrect == Spec => []RegistrationInv
<1>1. Init => RegistrationInv  BY InitRegistration
<1>2. TypeOK /\ RegistrationInv /\ [Next]_vars => RegistrationInv'
  <2> SUFFICES ASSUME TypeOK, RegistrationInv, [Next]_vars
               PROVE  RegistrationInv'
    OBVIOUS
  <2>1. ASSUME NEW k \in Clients, ClientNext(k) PROVE RegistrationInv'
    BY <2>1, ClientRegistration
  <2>2. ASSUME NEW c \in Conns, KernelNext(c) PROVE RegistrationInv'
    BY <2>2, KernelRegistration
  <2>3. ASSUME NEW c \in Conns, ServerNext(c) PROVE RegistrationInv'
    BY <2>3, AcceptRegistration, RequestRegistration, WorkRegistration,
       AwaitRegistration, DoneRegistration DEF ServerNext
  <2>4. CASE Login \/ NewLogEntry  BY <2>4, LogRegistration
  <2>5. CASE UNCHANGED vars
    BY <2>5, RegistrationFrame DEF vars, kernelVars
  <2> QED  BY <2>1, <2>2, <2>3, <2>4, <2>5 DEF Next
<1> QED  BY <1>1, <1>2, TypeCorrect, PTL DEF Spec

(* epoll_wait never returns a pointer to a freed connection.               *)
THEOREM NeverDangling == Spec => []NoDanglingPointer
<1>1. TypeOK /\ RegistrationInv => NoDanglingPointer
  BY DEF RegistrationInv, EntryOK, NoDanglingPointer, Absent
<1> QED  BY <1>1, TypeCorrect, RegistrationCorrect, PTL

(* A socket is never registered for EPOLLOUT while an operation of its     *)
(* connection is out (README.md:58).                                       *)
THEOREM OneOperationAtATime == Spec => []OutMeansIdle
<1>1. RegistrationInv => OutMeansIdle
  BY DEF RegistrationInv, EntryOK, OutMeansIdle, Absent
<1> QED  BY <1>1, RegistrationCorrect, PTL

(* No block is freed under an operation that still uses its buffer.        *)
THEOREM NoUseAfterFree == Spec => []FreeMeansIdle
<1>1. RegistrationInv => FreeMeansIdle
  BY DEF RegistrationInv, BlockOK, FreeMeansIdle
<1> QED  BY <1>1, RegistrationCorrect, PTL

(* Neither DIE(1, "Unknown state") is reachable.                           *)
THEOREM NoUnknownState == Spec => []HandlersKnowTheState
<1>1. RegistrationInv => HandlersKnowTheState
  BY DEF RegistrationInv, EntryOK, BlockOK, HandlersKnowTheState, Absent
<1> QED  BY <1>1, RegistrationCorrect, PTL

=============================================================================
