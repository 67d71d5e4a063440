----------------------------- MODULE UptimeProofs -----------------------------
(***************************************************************************)
(* Proofs about what the event loop waits for and what it stops on: while  *)
(* clients keep silent after their request, handle_work_done() never has   *)
(* to wait; while they are patient and descriptors last, no handler DIEs.  *)
(***************************************************************************)
EXTENDS Ownership, OwnershipProofs, FiniteSetTheorems

-----------------------------------------------------------------------------
(* Events.                                                                 *)

(* EPOLLIN comes from the block's socket, which has nothing to write at    *)
(* that moment, or from its eventfd, whose operation is finished.          *)
LEMMA InEventCases ==
  ASSUME TypeOK, RegistrationInv, OwnershipInv, NEW c \in Conns, InEvent(c)
  PROVE  /\ c \in alloc
         /\ \/ /\ Readable(Peer(c))
               /\ "OUT" \in interest[heap[c].sockfd].ev => ~Writable(Peer(c))
            \/ aio[c].op # "none" /\ aio[c].done
<1>1. PICK f \in Fd : /\ interest[f].ptr = c /\ "IN" \in interest[f].ev /\ PollIn(f)
                      /\ ~("OUT" \in interest[f].ev /\ PollOut(f))
  BY DEF InEvent
<1>2. c \in alloc
  BY InEventOwner
<1>3. interest[f] # Absent
  BY <1>1 DEF Absent
<1>4. CASE f = heap[c].sockfd
  <2>1. fdtab[f] = Sock(Peer(c))
    BY <1>2, <1>4, PeerFacts
  <2> QED  BY <1>1, <1>2, <1>4, <2>1, Kinds DEF PollIn, PollOut
<1>5. CASE f = heap[c].eventfd /\ Armed(c)
  <2>1. fdtab[f] = EventFd(c)
    BY <1>2, <1>5 DEF OwnershipInv, BlockOwns, EventFdOwned
  <2> QED  BY <1>1, <1>2, <1>5, <2>1, Kinds DEF PollIn, Armed
<1> QED
  BY <1>1, <1>3, <1>4, <1>5 DEF RegistrationInv, EntryOK, Armed

(* A step of another connection leaves a block's entry and its client's    *)
(* send buffer alone.                                                      *)
LEMMA OtherEntries ==
  ASSUME TypeOK, RegistrationInv, OwnershipInv,
         NEW c \in Conns, KernelNext(c) \/ ServerNext(c), ~Exit,
         NEW d \in alloc, d # c
  PROVE  /\ interest'[heap[d].sockfd] = interest[heap[d].sockfd]
         /\ Peer(d) \in clogged' => Peer(d) \in clogged
<1> DEFINE t == heap[d].sockfd
<1>1. /\ t \in Fd /\ fdtab[t] = Sock(Peer(d))
      /\ c \in alloc => heap[c].sockfd # t /\ Peer(c) # Peer(d)
  BY PeerFacts DEF OwnershipInv, Exclusive
<1>2. CASE KernelNext(c)
  <2>1. clogged' = clogged \/ (clogged' = clogged \cup {aio[c].obj.of}
                               /\ aio[c].op \in {"header", "data"})
    BY <1>2 DEF KernelNext, ReadDone, WriteDone, WriteFails, peerVars
  <2>2. aio[c].op \in {"header", "data"} => c \in alloc /\ aio[c].obj.of = Peer(c)
    BY DEF RegistrationInv, BlockOK, OwnershipInv, BlockOwns, SocketOwned, Peer
  <2> QED  BY <1>1, <1>2, <2>1, <2>2, KernelSteps
<1>3. CASE ServerNext(c)
  <2>1. clogged' = clogged
    BY <1>3
       DEF ServerNext, handle_new_connection, handle_client_request, ReceiveFails,
           RemoveUnread, ReceiveEof, ReceiveWhole, handle_work, PrepareHeader,
           PrepareNotFound, PrepareFile, HeaderReady, read_data, send_data, Submit,
           AwaitWork, handle_work_done, peerVars
  <2>2. CASE \E k \in Clients : handle_new_connection(k, c)
    <3>1. /\ FreeFds(fdtab) # {}
          /\ interest' = w_epoll_add_ptr_in(interest, LowestFree(fdtab), c)
      BY <2>2 DEF handle_new_connection
    <3>2. LowestFree(fdtab) # t
      BY <1>1, <3>1, LowestFreeIsFree, Kinds
    <3> QED  BY <1>1, <2>1, <3>1, <3>2 DEF w_epoll_add_ptr_in, TypeOK
  <2>3. CASE handle_client_request(c)
    <3>1. c \in alloc /\ (ReceiveEof(c) \/ ReceiveWhole(c))
      BY <2>3, RequestCases
    <3>2. UNCHANGED interest
            \/ interest' = w_epoll_update_ptr_inout(interest, heap[c].sockfd, c)
      BY <3>1 DEF ReceiveEof, ReceiveWhole, kernelVars
    <3> QED  BY <1>1, <2>1, <3>1, <3>2 DEF w_epoll_update_ptr_inout, TypeOK
  <2>4. CASE handle_work(c)
    <3>1. c \in alloc
      BY <2>4, OutEventFacts DEF handle_work
    <3> DEFINE e == LowestFree(fdtab)
    <3>2. \/ UNCHANGED interest
          \/ /\ FreeFds(fdtab) # {}
             /\ interest' = w_epoll_update_ptr_in(w_epoll_add_ptr_eventfd(interest, e, c),
                                                  heap[c].sockfd, c)
      BY <2>4
         DEF handle_work, PrepareHeader, PrepareNotFound, PrepareFile, HeaderReady,
             read_data, send_data, Submit
    <3>3. FreeFds(fdtab) # {} => e # t
      BY <1>1, LowestFreeIsFree, Kinds
    <3> HIDE DEF e
    <3> QED
      BY <1>1, <2>1, <3>1, <3>2, <3>3
         DEF w_epoll_update_ptr_in, w_epoll_add_ptr_eventfd, TypeOK
  <2>5. CASE AwaitWork(c)
    <3>1. fdtab[heap[c].eventfd] = EventFd(c)
      BY <2>5, AwaitOwner DEF AwaitWork
    <3>2. interest' = Forget(interest, {heap[c].eventfd})
      BY <2>5 DEF AwaitWork
    <3>3. t \notin {heap[c].eventfd}
      BY <1>1, <3>1, Kinds
    <3> QED  BY <1>1, <2>1, <3>2, <3>3, CloseForget
  <2>6. CASE handle_work_done(c)
    <3>1. c \in alloc /\ Opened(c)
      BY <2>6, DescriptorsAssumption DEF handle_work_done, RegistrationInv, Opened
    <3>2. fdtab[heap[c].fd].kind = "file"
      BY <3>1, Kinds DEF OwnershipInv, BlockOwns, FileOwned
    <3>3. t \notin {heap[c].fd, heap[c].sockfd}
      BY <1>1, <3>1, <3>2, Kinds
    <3>4. \/ interest' = w_epoll_update_ptr_out(interest, heap[c].sockfd, c)
          \/ interest' = Forget(w_epoll_remove_ptr(interest, heap[c].sockfd),
                                {heap[c].fd, heap[c].sockfd})
      BY <2>6 DEF handle_work_done, connection_remove
    <3> QED
      BY <1>1, <2>1, <3>3, <3>4
         DEF w_epoll_update_ptr_out, w_epoll_remove_ptr, Forget, TypeOK
  <2> QED  BY <1>3, <2>2, <2>3, <2>4, <2>5, <2>6 DEF ServerNext
<1> QED  BY <1>2, <1>3

LEMMA OnlyAcceptAllocates ==
  ASSUME NEW c \in Conns, ServerNext(c),
         \A k \in Clients : ~handle_new_connection(k, c)
  PROVE  alloc' \subseteq alloc
<1>1. CASE Exit  BY <1>1 DEF Exit
<1>2. CASE handle_client_request(c) /\ ~Exit
  BY <1>2 DEF handle_client_request, ReceiveFails, RemoveUnread, ReceiveEof,
              ReceiveWhole, connection_remove
<1>3. CASE handle_work(c) /\ ~Exit
  BY <1>3 DEF handle_work, PrepareHeader, PrepareNotFound, PrepareFile, HeaderReady,
              read_data, send_data, Submit
<1>4. CASE AwaitWork(c) /\ ~Exit
  BY <1>4 DEF AwaitWork
<1>5. CASE handle_work_done(c) /\ ~Exit
  BY <1>5 DEF handle_work_done, connection_remove
<1> QED  BY <1>1, <1>2, <1>3, <1>4, <1>5 DEF ServerNext

LEMMA WorkKeepsSocket ==
  ASSUME TypeOK, NEW c \in Conns, handle_work(c), ~Exit
  PROVE  heap'[c].sockfd = heap[c].sockfd
<1>1. heap[c] \in Connections
  BY Numbers
<1>2. CASE PrepareHeader(c)
  <2>1. CASE PrepareNotFound(c)
    BY <1>1, <2>1 DEF PrepareNotFound, HeaderReady, TypeOK, Connections
  <2>2. CASE PrepareFile(c, heap[c].path)
    <3> DEFINE d == LowestFree(fdtab)
               n == AsInt(size[heap[c].path])
               b == write_http200_header(heap[c].path, n)
    <3>1. heap' = [heap EXCEPT ![c] =
                     [[heap[c] EXCEPT !.send_buffer = b, !.file_dimension = n, !.fd = d]
                          EXCEPT !.is_header = TRUE, !.state = "SENDING"]]
      BY <2>2 DEF PrepareFile, HeaderReady
    <3> HIDE DEF b, n, d
    <3> QED  BY <1>1, <3>1 DEF TypeOK, Connections
  <2> QED  BY <1>2, <2>1, <2>2 DEF PrepareHeader
<1>3. ASSUME NEW d, NEW op, NEW lo, NEW len, NEW block \in Connections,
             block.sockfd = heap[c].sockfd, Submit(c, d, op, lo, len, block)
      PROVE  heap'[c].sockfd = heap[c].sockfd
  BY <1>3 DEF Submit, TypeOK, Connections
<1>4. CASE read_data(c)
  BY <1>1, <1>3, <1>4 DEF read_data
<1>5. CASE send_data(c)
  <2> DEFINE block == [heap[c] EXCEPT !.is_header = FALSE]
  <2>1. block \in Connections /\ block.sockfd = heap[c].sockfd
    BY <1>1 DEF Connections
  <2>2. \/ Submit(c, heap[c].sockfd, "header", 0, 1, block)
        \/ Submit(c, heap[c].sockfd, "data", 0, heap[c].read_data, heap[c])
    BY <1>5 DEF send_data
  <2> HIDE DEF block
  <2> QED  BY <1>1, <1>3, <2>1, <2>2
<1> QED  BY <1>2, <1>4, <1>5 DEF handle_work

-----------------------------------------------------------------------------
(* Waiting only for what is done.                                          *)

LEMMA InitSilent == Init => SilentInv
BY DEF Init, SilentInv, WorkDoneWhenTriggered

(* A client that is silent after its request changes nothing more.         *)
LEMMA SilentClient ==
  ASSUME SilentClients, TypeOK, NEW k \in Clients, ClientNext(k), NEW j \in Clients,
         client[j].link \notin {"fin", "rst"}
  PROVE  /\ client'[j].link \notin {"fin", "rst"}
         /\ client[j].req = "read" => client'[j].req = "read"
<1>1. client \in [Clients -> Peers] /\ client[j] \in Peers
  BY DEF TypeOK
<1>2. CASE \E p \in Paths : Connect(k, p)
  BY <1>1, <1>2 DEF Connect, Peers
<1>3. CASE SendRequest(k) \/ SendFragment(k) \/ SendLong(k)
  BY <1>1, <1>3 DEF SendRequest, SendFragment, SendLong, Peers
<1>4. CASE Drain(k)
  BY <1>4 DEF Drain
<1> QED  BY <1>2, <1>3, <1>4 DEF ClientNext, SendExtra, Leave, SilentClients

(* Most steps start no wait and change no block's state.                   *)
LEMMA SilentFrame ==
  ASSUME TypeOK, OwnershipInv, TypeOK', OwnershipInv', SilentInv, [Next]_vars,
         UNCHANGED <<alloc, waiting>>,
         \A c \in Conns : /\ heap'[c].sockfd = heap[c].sockfd
                          /\ heap'[c].state = heap[c].state
                          /\ aio[c].done => aio'[c].done,
         \A k \in Clients :
           client[k].link \notin {"fin", "rst"} =>
             /\ client'[k].link \notin {"fin", "rst"}
             /\ client[k].req = "read" => client'[k].req = "read"
  PROVE  SilentInv'
<1>1. ASSUME NEW c \in alloc, heap[c].state \in WorkStates
      PROVE  client'[Peer(c)'].req = "read"
  <2>1. c \in Conns /\ Peer(c)' = Peer(c) /\ Peer(c) \in Clients
    BY <1>1, PeerFacts, PeerStays
  <2> QED  BY <1>1, <2>1 DEF SilentInv
<1>2. \A c \in alloc' : c \in alloc /\ c \in Conns
  BY DEF TypeOK
<1>3. WorkDoneWhenTriggered'
  BY DEF TypeOK, SilentInv, WorkDoneWhenTriggered
<1> QED  BY <1>1, <1>2, <1>3 DEF SilentInv, WorkStates

LEMMA SilentServer ==
  ASSUME TypeOK, RegistrationInv, OwnershipInv, TypeOK', OwnershipInv', SilentInv,
         [Next]_vars, NEW c \in Conns, ServerNext(c), ~Exit
  PROVE  SilentInv'
<1>1. ASSUME NEW j \in Clients
      PROVE  client'[j].link \notin {"fin", "rst"}
             /\ (client[j].req = "read" => client'[j].req = "read")
  <2>1. client[j].link \notin {"fin", "rst"}
    BY DEF SilentInv
  <2>2. CASE \E k \in Clients : handle_new_connection(k, c)
    BY <2>1, <2>2 DEF handle_new_connection, TypeOK, Peers
  <2>3. CASE handle_client_request(c)
    <3>1. ReceiveEof(c) \/ ReceiveWhole(c)
      BY <2>3, RequestCases
    <3>2. client[j] \in Peers
      BY DEF TypeOK
    <3>3. PICK k, r : /\ client' = [client EXCEPT ![k].req = r]
                      /\ client[k].req = "read" => r = "read"
      BY <3>1 DEF ReceiveEof, ReceiveWhole
    <3> QED  BY <2>1, <3>2, <3>3 DEF TypeOK, Peers
  <2>4. CASE handle_work(c) \/ AwaitWork(c) \/ handle_work_done(c)
    <3>1. client' = client
      BY <2>4
         DEF handle_work, PrepareHeader, PrepareNotFound, PrepareFile, HeaderReady,
             read_data, send_data, Submit, AwaitWork, handle_work_done, peerVars
    <3> QED  BY <2>1, <3>1
  <2> QED  BY <2>2, <2>3, <2>4 DEF ServerNext
<1>2. ASSUME NEW d \in alloc', heap'[d].state \in WorkStates
      PROVE  client'[Peer(d)'].req = "read"
  <2>1. CASE d # c /\ d \in alloc
    <3>1. heap'[d] = heap[d] /\ Peer(d)' = Peer(d) /\ client'[Peer(d)] = client[Peer(d)]
      BY <2>1, Bystanders
    <3> QED  BY <1>2, <2>1, <3>1 DEF SilentInv
  <2>2. CASE d = c /\ c \in alloc /\ heap[c].state \in WorkStates
    <3>1. heap'[c].sockfd = heap[c].sockfd
      <4>1. ~handle_client_request(c) /\ \A k \in Clients : ~handle_new_connection(k, c)
        BY <2>2 DEF handle_client_request, handle_new_connection, WorkStates
      <4>2. CASE handle_work(c)
        BY <4>2, WorkKeepsSocket
      <4>3. CASE AwaitWork(c)
        BY <4>3 DEF AwaitWork
      <4>4. CASE handle_work_done(c)
        BY <1>2, <2>2, <4>4 DEF handle_work_done, connection_remove, TypeOK, Connections
      <4> QED  BY <4>1, <4>2, <4>3, <4>4 DEF ServerNext
    <3>2. Peer(c)' = Peer(c) /\ Peer(c) \in Clients
      BY <1>2, <2>2, <3>1, PeerStays, PeerFacts
    <3> QED  BY <1>1, <2>2, <3>2 DEF SilentInv
  <2>3. CASE d = c /\ c \in alloc /\ heap[c].state \notin WorkStates
    <3>1. handle_client_request(c)
      <4>1. ~handle_work(c) /\ ~handle_work_done(c) /\ \A k \in Clients : ~handle_new_connection(k, c)
        BY <2>3, OutEventFacts DEF handle_work, handle_work_done, handle_new_connection, WorkStates
      <4>2. ~AwaitWork(c)
        BY <1>2, <2>3 DEF AwaitWork
      <4> QED  BY <4>1, <4>2 DEF ServerNext
    <3>2. heap[c].state = "NEW_CONN" /\ (ReceiveEof(c) \/ ReceiveWhole(c))
      BY <3>1, RequestCases
    <3>3. ReceiveWhole(c)
      <4>1. ASSUME ReceiveEof(c) PROVE heap'[c].state = "CLOSED"
        BY <4>1 DEF ReceiveEof, TypeOK, Connections
      <4>2. heap'[c].state # "CLOSED"
        BY <1>2, <2>3 DEF WorkStates
      <4> QED  BY <3>2, <4>1, <4>2
    <3>4. /\ client' = [client EXCEPT ![Peer(c)].req = "read"]
          /\ heap'[c].sockfd = heap[c].sockfd
      BY <3>3 DEF ReceiveWhole, Peer, TypeOK, Connections
    <3>5. Peer(c)' = Peer(c) /\ Peer(c) \in Clients
      BY <1>2, <2>3, <3>4, PeerStays, PeerFacts
    <3> QED  BY <2>3, <3>4, <3>5 DEF TypeOK, Peers
  <2>4. CASE d \notin alloc
    <3>1. PICK k \in Clients : handle_new_connection(k, c)
      BY <1>2, <2>4, OnlyAcceptAllocates
    <3>2. alloc' = alloc \cup {c} /\ heap'[c].state = "NEW_CONN"
      BY <3>1 DEF handle_new_connection, TypeOK
    <3> QED  BY <1>2, <2>4, <3>2 DEF WorkStates
  <2> QED  BY <2>1, <2>2, <2>3, <2>4
<1>3. WorkDoneWhenTriggered'
  <2>1. CASE AwaitWork(c)
    <3>1. c \in alloc /\ Armed(c)
      BY <2>1, AwaitOwner DEF AwaitWork
    <3>2. heap[c].state \in WorkStates
      BY <3>1 DEF Armed, RegistrationInv, BlockOK, WorkStates
    <3>3. ~Readable(Peer(c))
      BY <3>1, <3>2, PeerFacts DEF SilentInv, Readable
    <3>4. aio[c].done
      BY <2>1, <3>3, InEventCases DEF AwaitWork
    <3>5. waiting' = c /\ aio' = aio
      BY <2>1 DEF AwaitWork
    <3> QED  BY <3>4, <3>5 DEF WorkDoneWhenTriggered
  <2>2. CASE ~AwaitWork(c)
    <3>1. waiting' = None
      BY <2>2
         DEF ServerNext, handle_new_connection, handle_client_request, ReceiveFails,
             RemoveUnread, ReceiveEof, ReceiveWhole, handle_work, PrepareHeader,
             PrepareNotFound, PrepareFile, HeaderReady, read_data, send_data, Submit,
             handle_work_done, InLoop
    <3> QED  BY <3>1 DEF WorkDoneWhenTriggered
  <2> QED  BY <2>1, <2>2
<1> QED  BY <1>1, <1>2, <1>3 DEF SilentInv

LEMMA SilentStep ==
  ASSUME SilentClients,
         TypeOK, RegistrationInv, OwnershipInv, TypeOK', OwnershipInv', SilentInv,
         [Next]_vars
  PROVE  SilentInv'
<1>1. CASE Exit \/ Login \/ NewLogEntry \/ UNCHANGED vars
  <2>1. UNCHANGED <<alloc, waiting, heap, aio, client>>
    BY <1>1 DEF Exit, Login, NewLogEntry, vars, kernelVars, peerVars
  <2> QED  BY <2>1, SilentFrame
<1>2. ASSUME NEW k \in Clients, ClientNext(k) PROVE SilentInv'
  <2>1. UNCHANGED <<alloc, waiting, heap, aio>>
    BY <1>2 DEF ClientNext, Connect, SendRequest, SendFragment, SendLong, SendExtra,
                Leave, Drain, ClientStep, kernelVars
  <2> QED  BY <1>2, <2>1, SilentClient, SilentFrame
<1>3. ASSUME NEW c \in Conns, KernelNext(c), ~Exit PROVE SilentInv'
  <2>1. /\ UNCHANGED <<alloc, waiting, client>>
        /\ \A d \in Conns \ {c} : aio'[d] = aio[d] /\ heap'[d] = heap[d]
        /\ heap' = heap \/ \E b : heap' = [heap EXCEPT ![c].send_buffer = b]
        /\ \E r : aio'[c] = [aio[c] EXCEPT !.done = TRUE, !.res = r]
    BY <1>3, KernelSteps
  <2>2. heap'[c].sockfd = heap[c].sockfd /\ heap'[c].state = heap[c].state /\ aio'[c].done
    BY <2>1 DEF TypeOK, Connections, Operations
  <2> QED  BY <2>1, <2>2, SilentFrame
<1>4. ASSUME NEW c \in Conns, ServerNext(c), ~Exit PROVE SilentInv'
  BY <1>4, SilentServer
<1> QED  BY <1>1, <1>2, <1>3, <1>4 DEF Next

(* While clients send nothing after their request and stay, nothing is     *)
(* left in the socket of a connection that has work: what wakes the loop   *)
(* for it is its own eventfd, and only when its operation is done.         *)
THEOREM SilentClientsWakeNothing ==
  ASSUME ZeroedMemory, NothingMissing, SilentClients
  PROVE  Spec => []SilentInv
<1>1. Init => SilentInv
  BY InitSilent
<1>2. TypeOK /\ RegistrationInv /\ OwnershipInv /\ TypeOK' /\ OwnershipInv'
        /\ SilentInv /\ [Next]_vars => SilentInv'
  BY SilentStep
<1> QED
  BY <1>1, <1>2, TypeCorrect, RegistrationCorrect, DescriptorsOwned, PTL DEF Spec

(* While clients send nothing after their request and stay, io_getevents() *)
(* is entered only for an operation that is already done (imonitor.c:404): *)
(* no connection holds up the others.                                      *)
THEOREM NeverHeldUp ==
  ASSUME ZeroedMemory, NothingMissing, SilentClients
  PROVE  Spec => []WorkDoneWhenTriggered
<1>1. SilentInv => WorkDoneWhenTriggered
  BY DEF SilentInv
<1> QED
  BY <1>1, SilentClientsWakeNothing, PTL

-----------------------------------------------------------------------------
(* Descriptors never run out.                                              *)

LEMMA ImageSize ==
  ASSUME NEW S, IsFiniteSet(S), NEW f
  PROVE  /\ IsFiniteSet({f[x] : x \in S})
         /\ Cardinality({f[x] : x \in S}) <= Cardinality(S)
<1> DEFINE T == {f[x] : x \in S}
           g == [x \in S |-> f[x]]
<1>1. g \in Surjection(S, T)
  BY DEF Surjection
<1> HIDE DEF g, T
<1>2. IsFiniteSet(T) /\ Cardinality(T) <= Cardinality(S)
  BY <1>1, FS_Surjection
<1> QED  BY <1>2 DEF T

LEMMA UnionSize ==
  ASSUME NEW S, IsFiniteSet(S), NEW T, IsFiniteSet(T)
  PROVE  /\ IsFiniteSet(S \cup T)
         /\ Cardinality(S \cup T) <= Cardinality(S) + Cardinality(T)
<1>1. IsFiniteSet(S \cap T)
  BY FS_Subset
<1>2. Cardinality(S) \in Nat /\ Cardinality(T) \in Nat /\ Cardinality(S \cap T) \in Nat
  BY <1>1, FS_CardinalityType
<1>3. /\ IsFiniteSet(S \cup T)
      /\ Cardinality(S \cup T) = Cardinality(S) + Cardinality(T) - Cardinality(S \cap T)
  BY FS_Union
<1> QED  BY <1>2, <1>3

(* Everything in the table is standard input, wtmp, or owned by a block:   *)
(* three numbers for each at most, the third while an operation is out.    *)
LEMMA TableSize ==
  ASSUME TypeOK, OwnershipInv, IsFiniteSet(Conns),
         2 * Cardinality(alloc) + Cardinality({c \in alloc : Armed(c)})
           + Cardinality(WtmpFds) < MaxFd
  PROVE  FreeFds(fdtab) # {}
<1> DEFINE A == {c \in alloc : Armed(c)}
           sockfds == {heap[c].sockfd : c \in alloc}
           fds == {heap[c].fd : c \in alloc}
           eventfds == {heap[c].eventfd : c \in A}
           owned == sockfds \cup fds
           used == (owned \cup eventfds) \cup (WtmpFds \cup {0})
<1>1. /\ alloc \subseteq Conns /\ IsFiniteSet(alloc) /\ IsFiniteSet(A)
      /\ Cardinality(alloc) \in Nat /\ Cardinality(A) \in Nat
  BY FS_Subset, FS_CardinalityType DEF TypeOK
<1>2. IsFiniteSet(Fd) /\ Cardinality(Fd) = MaxFd + 1
  BY FS_Interval, DescriptorsAssumption DEF Fd
<1>3. IsFiniteSet(WtmpFds) /\ Cardinality(WtmpFds) \in Nat
  BY <1>2, FS_Subset, FS_CardinalityType DEF WtmpFds
<1>4. /\ IsFiniteSet(sockfds) /\ Cardinality(sockfds) <= Cardinality(alloc)
      /\ IsFiniteSet(fds) /\ Cardinality(fds) <= Cardinality(alloc)
      /\ IsFiniteSet(eventfds) /\ Cardinality(eventfds) <= Cardinality(A)
  <2> DEFINE f == [c \in Conns |-> heap[c].sockfd]
             g == [c \in Conns |-> heap[c].fd]
             h == [c \in Conns |-> heap[c].eventfd]
  <2>1. /\ sockfds = {f[c] : c \in alloc}
        /\ fds = {g[c] : c \in alloc}
        /\ eventfds = {h[c] : c \in A}
    BY <1>1
  <2> HIDE DEF f, g, h, A, sockfds, fds, eventfds
  <2> QED  BY <1>1, <2>1, ImageSize
<1>5. \A f \in Fd : fdtab[f] # Free => f \in used
  <2> SUFFICES ASSUME NEW f \in Fd, fdtab[f] # Free PROVE f \in used
    OBVIOUS
  <2>1. /\ fdtab[f].kind \in {"std", "wtmp", "sock", "evfd", "file"}
        /\ fdtab[f].kind = "wtmp" => fdtab[f] = Wtmp
    BY DEF TypeOK, Objects, Free, Wtmp
  <2>2. HasOwner(f)
    BY DEF OwnershipInv
  <2> QED  BY <2>1, <2>2 DEF HasOwner, WtmpFds
<1> HIDE DEF A, sockfds, fds, eventfds
<1>6. /\ IsFiniteSet(owned)
      /\ Cardinality(owned) <= Cardinality(sockfds) + Cardinality(fds)
  BY <1>4, UnionSize
<1> HIDE DEF owned
<1>7. /\ IsFiniteSet(owned \cup eventfds)
      /\ Cardinality(owned \cup eventfds) <= Cardinality(owned) + Cardinality(eventfds)
  BY <1>4, <1>6, UnionSize
<1>8. /\ IsFiniteSet(WtmpFds \cup {0})
      /\ Cardinality(WtmpFds \cup {0}) <= Cardinality(WtmpFds) + 1
  BY <1>3, FS_AddElement
<1>9. /\ IsFiniteSet(used)
      /\ Cardinality(used) <= Cardinality(owned \cup eventfds) + Cardinality(WtmpFds \cup {0})
  BY <1>7, <1>8, UnionSize
<1> HIDE DEF used
<1>10. Cardinality(used) < MaxFd + 1
  <2>1. /\ Cardinality(used) \in Nat /\ Cardinality(owned) \in Nat
        /\ Cardinality(sockfds) \in Nat /\ Cardinality(fds) \in Nat
        /\ Cardinality(eventfds) \in Nat
        /\ Cardinality(owned \cup eventfds) \in Nat
        /\ Cardinality(WtmpFds \cup {0}) \in Nat
    BY <1>4, <1>6, <1>7, <1>8, <1>9, FS_CardinalityType
  <2>2. 2 * Cardinality(alloc) + Cardinality(A) + Cardinality(WtmpFds) < MaxFd
    BY DEF A
  <2> QED
    BY <1>1, <1>3, <1>4, <1>6, <1>7, <1>8, <1>9, <2>1, <2>2, DescriptorsAssumption
<1>11. CASE FreeFds(fdtab) = {}
  <2>1. Fd \subseteq used
    BY <1>5, <1>11 DEF FreeFds
  <2>2. MaxFd + 1 <= Cardinality(used)
    BY <1>2, <1>9, <2>1, FS_Subset
  <2> QED
    BY <1>9, <1>10, <2>2, FS_CardinalityType, DescriptorsAssumption
<1> QED  BY <1>11

(* A descriptor is left for a new connection, for what a connection opens  *)
(* while it has no operation out, and for the log.                         *)
LEMMA Room ==
  ASSUME EnoughDescriptors, TypeOK, OwnershipInv, UptimeInv,
         logins.reported \/ \E c \in Conns : c \notin alloc \/ ~Armed(c)
  PROVE  FreeFds(fdtab) # {}
<1> DEFINE A == {c \in alloc : Armed(c)}
           n == Cardinality(Conns)
           w == Cardinality(WtmpFds)
<1>1. IsFiniteSet(Conns) /\ n \in Nat /\ 3 * n + MaxLogins <= MaxFd
  BY FS_CardinalityType DEF EnoughDescriptors
<1>2. alloc \subseteq Conns /\ A \subseteq Conns
  BY DEF TypeOK
<1>3. /\ Cardinality(alloc) <= n /\ Cardinality(alloc) \in Nat
      /\ Cardinality(A) <= n /\ Cardinality(A) \in Nat
  BY <1>1, <1>2, FS_Subset, FS_CardinalityType
<1>4. w \in Nat
  <2>1. IsFiniteSet(Fd) /\ WtmpFds \subseteq Fd
    BY FS_Interval, DescriptorsAssumption DEF Fd, WtmpFds
  <2> QED  BY <2>1, FS_Subset, FS_CardinalityType
<1>5. w + (IF logins.reported THEN 1 ELSE 0) <= MaxLogins
  <2>1. logins.total \in 0 .. MaxLogins /\ MaxLogins \in Nat
    BY ImonitorAssumption DEF TypeOK
  <2> QED  BY <1>4, <2>1 DEF UptimeInv
<1>6. ASSUME ~logins.reported PROVE Cardinality(A) <= n - 1
  <2>1. PICK c \in Conns : A \subseteq Conns \ {c}
    BY <1>2, <1>6
  <2>2. IsFiniteSet(Conns \ {c}) /\ Cardinality(Conns \ {c}) = n - 1
    BY <1>1, FS_RemoveElement
  <2> QED  BY <2>1, <2>2, FS_Subset
<1> HIDE DEF A, n, w
<1>7. 2 * Cardinality(alloc) + Cardinality(A) + w < MaxFd
  <2>1. MaxLogins \in Nat /\ MaxFd \in Nat
    BY ImonitorAssumption, DescriptorsAssumption
  <2>2. CASE logins.reported
    BY <1>1, <1>3, <1>4, <1>5, <2>1, <2>2
  <2>3. CASE ~logins.reported
    BY <1>1, <1>3, <1>4, <1>5, <1>6, <2>1, <2>3
  <2> QED  BY <2>2, <2>3
<1> QED  BY <1>1, <1>7, TableSize DEF A, w

-----------------------------------------------------------------------------
(* No handler stops the process.                                           *)

(* A size below half the range of an int comes through it unchanged.       *)
LEMMA SmallSizes ==
  ASSUME NEW n \in Nat, 2 * n < IntRange - 1
  PROVE  AsInt(n) = n
<1>1. IntRange \in Nat \ {0} /\ n < IntRange
  BY ImonitorAssumption
<1>2. n % IntRange = n
  BY <1>1
<1>3. n < IntRange \div 2
  BY <1>1
<1> QED  BY <1>2, <1>3 DEF AsInt

LEMMA SizesFine ==
  ASSUME SizesFit, TypeOK, UptimeInv, NEW f \in Files
  PROVE  AsInt(size[f]) >= 0
<1>1. /\ size[f] \in Nat /\ InitSize[f] \in Nat /\ MaxLogins \in Nat
      /\ logins.total \in 0 .. MaxLogins /\ IntRange \in Nat
  BY ImonitorAssumption DEF TypeOK
<1>2. size[f] <= InitSize[f] + logins.total
  BY <1>1 DEF UptimeInv
<1>3. 2 * (InitSize[f] + MaxLogins) < IntRange - 1
  BY DEF SizesFit
<1>4. 2 * size[f] < IntRange - 1
  BY <1>1, <1>2, <1>3
<1> QED  BY <1>1, <1>4, SmallSizes

LEMMA RequestLives ==
  ASSUME TypeOK, RegistrationInv, OwnershipInv, UptimeInv,
         NEW c \in Conns, handle_client_request(c)
  PROVE  proc' = "running"
<1>1. /\ c \in alloc /\ heap[c].state = "NEW_CONN" /\ proc = "running"
  BY InEventCases DEF handle_client_request, UptimeInv
<1>2. /\ Peer(c) \in Clients /\ fdtab[heap[c].sockfd] = Sock(Peer(c))
      /\ client[Peer(c)].link = "open" /\ client[Peer(c)].req \in {"idle", "whole"}
      /\ interest[heap[c].sockfd] # Absent
  BY <1>1, PeerFacts
     DEF UptimeInv, CanGoOn, OwnershipInv, BlockOwns, SocketOwned
<1>3. aio[c].op = "none"
  BY <1>1 DEF RegistrationInv, BlockOK
<1>4. client[Peer(c)].req = "whole"
  BY <1>2, <1>3, InEventCases DEF handle_client_request, Readable
<1>5. ReceiveWhole(c)
  BY <1>2, <1>4, Kinds DEF handle_client_request, ReceiveFails, ReceiveEof
<1>6. CanCtl(fdtab, interest, heap[c].sockfd)
  BY <1>2, Kinds DEF CanCtl
<1> QED  BY <1>1, <1>5, <1>6 DEF ReceiveWhole

LEMMA WorkLives ==
  ASSUME OnlyFiles, EnoughDescriptors, SizesFit,
         TypeOK, RegistrationInv, OwnershipInv, UptimeInv,
         NEW c \in Conns, handle_work(c)
  PROVE  proc' = "running"
<1> DEFINE s == heap[c].sockfd
<1>1. /\ c \in alloc /\ aio[c].op = "none" /\ heap[c].state \in WorkStates
      /\ proc = "running"
  BY OutEventFacts DEF handle_work, UptimeInv
<1>2. s \in Fd /\ fdtab[s] # Free /\ interest[s] # Absent
  BY <1>1, PeerFacts, Kinds DEF OwnershipInv, BlockOwns, SocketOwned
<1>3. FreeFds(fdtab) # {}
  BY <1>1, Room DEF Armed
<1>4. CASE PrepareHeader(c)
  <2> DEFINE p == heap[c].path
  <2>1. p \in Files
    BY <1>1, <1>4 DEF PrepareHeader, OwnershipInv, BlockOwns, OnlyFiles
  <2>2. PrepareFile(c, p) /\ AsInt(size[p]) >= 0
    BY <1>4, <2>1, SizesFine, ImonitorAssumption DEF PrepareHeader
  <2>3. AsInt(size[p]) \in Int
    BY <2>1, AsIntType DEF TypeOK
  <2> QED  BY <1>1, <1>3, <2>2, <2>3 DEF PrepareFile, HeaderReady
<1>5. ASSUME NEW d \in Fd, fdtab[d] # Free, NEW op, NEW block,
             NEW lo \in Nat, NEW len \in Nat, Submit(c, d, op, lo, len, block)
      PROVE  proc' = "running"
  <2> DEFINE e == LowestFree(fdtab)
             tab == [fdtab EXCEPT ![e] = EventFd(c)]
             armed == w_epoll_add_ptr_eventfd(interest, e, c)
  <2>1. e \in Fd /\ fdtab[e] = Free
    BY <1>3, LowestFreeIsFree
  <2>2. tab[d] # Free
    BY <1>5, <2>1, Kinds DEF TypeOK
  <2>3. CanCtl(tab, armed, s)
    BY <1>2, <2>1, Kinds DEF CanCtl, w_epoll_add_ptr_eventfd, TypeOK
  <2>4. ~(lo < 0) /\ ~(len < 0)
    OBVIOUS
  <2> HIDE DEF e
  <2> QED  BY <1>1, <1>3, <1>5, <2>2, <2>3, <2>4 DEF Submit, e
<1>8. heap[c].send_len \in Nat /\ heap[c].read_data \in Nat
  <2>1. heap[c].send_len \in Int /\ heap[c].read_data \in Int
    BY <1>1, Numbers DEF Connections, Failed
  <2> QED  BY <1>1, <2>1 DEF UptimeInv, ReadsSucceed
<1>6. CASE read_data(c)
  <2>1. heap[c].fd \in Fd /\ fdtab[heap[c].fd] # Free
    BY <1>1, <1>6, Numbers, Kinds
       DEF read_data, OwnershipInv, BlockOwns, FileOwned, Opened
  <2> QED  BY <1>5, <1>6, <1>8, <2>1, ImonitorAssumption DEF read_data
<1>7. CASE send_data(c)
  BY <1>2, <1>5, <1>7, <1>8 DEF send_data
<1> QED
  BY <1>1, <1>4, <1>6, <1>7 DEF handle_work, WorkStates

(* An event on a block that works and has no operation would be EPOLLOUT.  *)
LEMMA AwaitLives ==
  ASSUME TypeOK, RegistrationInv, OwnershipInv, UptimeInv,
         NEW c \in Conns, AwaitWork(c)
  PROVE  proc' = "running"
<1>1. /\ c \in alloc /\ InEvent(c) /\ heap[c].state # "NEW_CONN" /\ proc = "running"
      /\ waiting # c
  BY InEventCases, DescriptorsAssumption DEF AwaitWork, UptimeInv, InLoop
<1>2. aio[c].op # "none"
  <2> SUFFICES ASSUME aio[c].op = "none" PROVE FALSE  OBVIOUS
  <2>1. heap[c].eventfd = 0
    BY <1>1, InEventOwner
  <2>2. heap[c] \in Connections /\ CanGoOn(c)
    BY <1>1, Numbers DEF UptimeInv
  <2>3. Peer(c) \notin clogged /\ "OUT" \in interest[heap[c].sockfd].ev
    BY <1>1, <2>1, <2>2 DEF CanGoOn, Connections, States, WorkStates
  <2> QED  BY <1>1, <2>3, InEventCases DEF Writable
<1>3. Armed(c) /\ heap[c].eventfd \in Fd
  BY <1>1, <1>2, Numbers DEF Armed
<1>4. CanCtl(fdtab, interest, heap[c].eventfd)
  BY <1>1, <1>3, Kinds DEF CanCtl, OwnershipInv, BlockOwns, EventFdOwned
<1> QED  BY <1>1, <1>4 DEF AwaitWork

LEMMA DoneLives ==
  ASSUME TypeOK, RegistrationInv, OwnershipInv, UptimeInv,
         NEW c \in Conns, handle_work_done(c)
  PROVE  proc' = "running"
<1>1. /\ waiting = c /\ c \in alloc /\ proc = "running" /\ aio[c].op # "none"
  BY DescriptorsAssumption
     DEF handle_work_done, RegistrationInv, OwnershipInv, BlockedOnRealWork
<1>2. heap[c].state \in {"READING", "SENDING"}
  BY <1>1 DEF RegistrationInv, BlockOK
<1>3. CanCtl(fdtab, interest, heap[c].sockfd)
  BY <1>1, PeerFacts, Kinds DEF CanCtl, OwnershipInv, BlockOwns, SocketOwned
<1> QED  BY <1>1, <1>2, <1>3 DEF handle_work_done

LEMMA NobodyDies ==
  ASSUME OnlyFiles, EnoughDescriptors, SizesFit,
         TypeOK, RegistrationInv, OwnershipInv, UptimeInv, [Next]_vars
  PROVE  proc' = "running"
<1>1. proc = "running"
  BY DEF UptimeInv
<1>2. CASE Login \/ UNCHANGED vars
  BY <1>1, <1>2 DEF Login, vars
<1>3. CASE NewLogEntry
  BY <1>1, <1>3, Room DEF NewLogEntry
<1>4. ASSUME NEW k \in Clients, ClientNext(k) PROVE proc' = "running"
  BY <1>1, <1>4
     DEF ClientNext, Connect, SendRequest, SendFragment, SendLong, SendExtra, Leave,
         Drain, ClientStep
<1>5. ASSUME NEW c \in Conns, KernelNext(c) PROVE proc' = "running"
  <2>1. aio[c].obj \in Objects
    BY DEF TypeOK, Operations
  <2>2. aio[c].obj.kind = "sock" => client[aio[c].obj.of].link # "rst"
    BY <2>1, ObjectOwners DEF UptimeInv
  <2> QED  BY <1>1, <1>5, <2>2 DEF KernelNext, ReadDone, WriteDone, WriteFails
<1>6. ASSUME NEW c \in Conns, ServerNext(c) PROVE proc' = "running"
  <2>1. CASE \E k \in Clients : handle_new_connection(k, c)
    BY <1>1, <2>1, Room DEF handle_new_connection
  <2> QED
    BY <1>6, <2>1, RequestLives, WorkLives, AwaitLives, DoneLives DEF ServerNext
<1> QED  BY <1>2, <1>3, <1>4, <1>5, <1>6 DEF Next

-----------------------------------------------------------------------------
(* What keeps the handlers going.                                          *)

LEMMA InitUptime ==
  ASSUME Init
  PROVE  UptimeInv
<1>1. /\ proc = "running" /\ alloc = {} /\ clogged = {} /\ size = InitSize
      /\ logins.total = 0 /\ logins.reported = FALSE
      /\ \A k \in Clients : client[k].link = "none" /\ client[k].req = "idle"
  BY DEF Init
<1>2. WtmpFds = {}
  BY Kinds DEF Init, WtmpFds
<1>3. Cardinality(WtmpFds) = 0
  BY <1>2, FS_EmptySet
<1>4. \A f \in Files : InitSize[f] \in Nat
  BY ImonitorAssumption
<1> QED  BY <1>1, <1>3, <1>4 DEF UptimeInv

(* Only the two steps of a login touch the log and the count of logins.    *)
LEMMA LogsUnchanged ==
  ASSUME [Next]_vars, ~Login, ~NewLogEntry
  PROVE  UNCHANGED <<size, logins>>
<1>1. CASE UNCHANGED vars
  BY <1>1 DEF vars, fileVars
<1>2. CASE Exit
  BY <1>2 DEF Exit, fileVars
<1>3. ASSUME NEW k \in Clients, ClientNext(k) PROVE UNCHANGED <<size, logins>>
  BY <1>3
     DEF ClientNext, Connect, SendRequest, SendFragment, SendLong, SendExtra, Leave,
         Drain, ClientStep, fileVars
<1>4. ASSUME NEW c \in Conns, KernelNext(c), ~Exit PROVE UNCHANGED <<size, logins>>
  BY <1>4 DEF KernelNext, ReadDone, WriteDone, WriteFails, fileVars
<1>5. ASSUME NEW c \in Conns, ServerNext(c), ~Exit PROVE UNCHANGED <<size, logins>>
  <2>1. CASE \E k \in Clients : handle_new_connection(k, c)
    BY <1>5, <2>1 DEF handle_new_connection, fileVars
  <2>2. CASE handle_client_request(c)
    BY <1>5, <2>2
       DEF handle_client_request, ReceiveFails, RemoveUnread, ReceiveEof, ReceiveWhole,
           fileVars
  <2>3. CASE handle_work(c)
    BY <1>5, <2>3
       DEF handle_work, PrepareHeader, PrepareNotFound, PrepareFile, HeaderReady,
           read_data, send_data, Submit, fileVars
  <2>4. CASE AwaitWork(c) \/ handle_work_done(c)
    BY <1>5, <2>4 DEF AwaitWork, handle_work_done, fileVars
  <2> QED  BY <1>5, <2>1, <2>2, <2>3, <2>4 DEF ServerNext
<1> QED  BY <1>1, <1>2, <1>3, <1>4, <1>5 DEF Next

(* The two counts of UptimeInv.                                            *)
Counts ==
  /\ Cardinality(WtmpFds) + (IF logins.reported THEN 1 ELSE 0) <= logins.total
  /\ \A f \in Files :
       size[f] + (IF logins.reported THEN 1 ELSE 0) <= InitSize[f] + logins.total

LEMMA CountsStep ==
  ASSUME TypeOK, TypeOK', UptimeInv, [Next]_vars
  PROVE  Counts'
<1>1. /\ IsFiniteSet(Fd) /\ WtmpFds \subseteq Fd /\ WtmpFds' \subseteq Fd
      /\ IsFiniteSet(WtmpFds) /\ IsFiniteSet(WtmpFds')
      /\ Cardinality(WtmpFds) \in Nat /\ Cardinality(WtmpFds') \in Nat
  <2>1. IsFiniteSet(Fd) /\ WtmpFds \subseteq Fd /\ WtmpFds' \subseteq Fd
    BY FS_Interval, DescriptorsAssumption DEF Fd, WtmpFds
  <2> QED  BY <2>1, FS_Subset, FS_CardinalityType
<1>2. /\ logins \in [total : 0 .. MaxLogins, reported : BOOLEAN]
      /\ logins.total \in Nat /\ logins.reported \in BOOLEAN
      /\ MaxLogins \in Nat
      /\ \A f \in Files : size[f] \in Nat /\ size'[f] \in Nat /\ InitSize[f] \in Nat
  BY ImonitorAssumption DEF TypeOK
<1>3. ~NewLogEntry \/ Exit => WtmpFds' \subseteq WtmpFds
  <2>1. CASE ~NewLogEntry
    BY <2>1, TableSteps, Kinds DEF WtmpFds
  <2>2. CASE Exit
    BY <2>2 DEF Exit, WtmpFds, kernelVars
  <2> QED  BY <2>1, <2>2
<1>4. ~NewLogEntry \/ Exit => Cardinality(WtmpFds') <= Cardinality(WtmpFds)
  BY <1>1, <1>3, FS_Subset
<1>5. Counts
  BY DEF Counts, UptimeInv
<1>6. CASE Login
  <2>1. logins' = [total |-> logins.total + 1, reported |-> TRUE] /\ UNCHANGED size
    BY <1>6 DEF Login
  <2>2. Cardinality(WtmpFds') <= Cardinality(WtmpFds)
    BY <1>4, <1>6, <2>1, <1>2 DEF Login, NewLogEntry, Exit, kernelVars, WtmpFds
  <2>3. Cardinality(WtmpFds') + 1 <= logins.total + 1
    BY <1>1, <1>2, <1>5, <2>2 DEF Counts
  <2>4. \A f \in Files : size[f] + 1 <= InitSize[f] + (logins.total + 1)
    BY <1>2, <1>5 DEF Counts
  <2> QED  BY <2>1, <2>3, <2>4 DEF Counts
<1>7. CASE NewLogEntry /\ ~Exit
  <2> DEFINE t == LowestFree(fdtab)
  <2>1. /\ t \in Fd /\ logins.reported
        /\ fdtab' = [fdtab EXCEPT ![t] = Wtmp]
        /\ size' = [size EXCEPT ![LogFile] = @ + 1]
        /\ logins' = [logins EXCEPT !.reported = FALSE]
    BY <1>7, LowestFreeIsFree DEF NewLogEntry
  <2> HIDE DEF t
  <2>2. WtmpFds' \subseteq WtmpFds \cup {t}
    BY <2>1 DEF WtmpFds, TypeOK
  <2>3. Cardinality(WtmpFds') <= Cardinality(WtmpFds) + 1
    <3>1. /\ IsFiniteSet(WtmpFds \cup {t})
          /\ \/ Cardinality(WtmpFds \cup {t}) = Cardinality(WtmpFds)
             \/ Cardinality(WtmpFds \cup {t}) = Cardinality(WtmpFds) + 1
      BY <1>1, FS_AddElement
    <3>2. Cardinality(WtmpFds') <= Cardinality(WtmpFds \cup {t})
      BY <2>2, <3>1, FS_Subset
    <3> QED  BY <1>1, <3>1, <3>2
  <2>4. logins'.total = logins.total /\ logins'.reported = FALSE
    BY <1>2, <2>1
  <2>5. \A f \in Files : size'[f] <= size[f] + 1
    BY <1>2, <2>1 DEF TypeOK
  <2>6. Cardinality(WtmpFds') + 0 <= logins.total
    BY <1>1, <1>2, <1>5, <2>1, <2>3 DEF Counts
  <2>7. \A f \in Files : size'[f] + 0 <= InitSize[f] + logins.total
    BY <1>2, <1>5, <2>1, <2>5 DEF Counts
  <2> QED  BY <2>4, <2>6, <2>7 DEF Counts
<1>8. CASE ~Login /\ (~NewLogEntry \/ Exit)
  <2>1. UNCHANGED <<size, logins>>
    BY <1>8, LogsUnchanged DEF Exit, fileVars
  <2> QED  BY <1>1, <1>2, <1>4, <1>5, <1>8, <2>1 DEF Counts
<1> QED  BY <1>6, <1>7, <1>8

(* Clients: nobody leaves, and one that has not been accepted has sent and *)
(* been sent nothing.                                                      *)
PatientPeer(k) ==
  /\ client[k].link \notin {"fin", "rst"}
  /\ client[k].link \in {"none", "backlog"} => client[k].req = "idle" /\ k \notin clogged

LEMMA PatientStep ==
  ASSUME PatientClients, TypeOK, RegistrationInv, OwnershipInv, UptimeInv, [Next]_vars,
         ~Exit, NEW j \in Clients
  PROVE  PatientPeer(j)'
<1>1. /\ client \in [Clients -> Peers] /\ client[j] \in Peers
      /\ PatientPeer(j)
  BY DEF TypeOK, UptimeInv, PatientPeer
<1>2. CASE UNCHANGED <<client, clogged>>
  BY <1>1, <1>2 DEF PatientPeer
<1>3. ASSUME NEW k \in Clients, ClientNext(k) PROVE PatientPeer(j)'
  <2>1. CASE \E p \in Paths : Connect(k, p)
    BY <1>1, <2>1 DEF Connect, PatientPeer, Peers
  <2>2. CASE SendRequest(k)
    BY <1>1, <2>2 DEF SendRequest, PatientPeer, Peers
  <2>3. CASE SendExtra(k)
    BY <1>1, <2>3 DEF SendExtra, PatientPeer, Peers
  <2>4. CASE Drain(k)
    BY <1>1, <2>4 DEF Drain, PatientPeer
  <2> QED
    BY <1>3, <2>1, <2>2, <2>3, <2>4
       DEF ClientNext, SendFragment, SendLong, Leave, PatientClients
<1>4. ASSUME NEW c \in Conns, KernelNext(c) PROVE PatientPeer(j)'
  <2>1. client' = client
    BY <1>4, KernelSteps
  <2>2. clogged' = clogged \/ (clogged' = clogged \cup {aio[c].obj.of}
                               /\ aio[c].op \in {"header", "data"})
    BY <1>4 DEF KernelNext, ReadDone, WriteDone, WriteFails, peerVars
  <2>3. aio[c].op \in {"header", "data"} =>
          client[aio[c].obj.of].link \in {"open", "fin", "rst"}
    <3>1. aio[c].op \in {"header", "data"} => c \in alloc /\ aio[c].obj.of = Peer(c)
      BY DEF RegistrationInv, BlockOK, OwnershipInv, BlockOwns, SocketOwned, Peer
    <3> QED  BY <3>1, PeerFacts
  <2> QED  BY <1>1, <2>1, <2>2, <2>3 DEF PatientPeer
<1>5. ASSUME NEW c \in Conns, ServerNext(c) PROVE PatientPeer(j)'
  <2>1. CASE \E k \in Clients : handle_new_connection(k, c)
    BY <1>1, <2>1 DEF handle_new_connection, PatientPeer, Peers
  <2>2. CASE handle_client_request(c)
    <3>1. c \in alloc /\ (ReceiveEof(c) \/ ReceiveWhole(c))
      BY <2>2, RequestCases
    <3>2. Peer(c) \in Clients /\ client[Peer(c)].link \in {"open", "fin", "rst"}
      BY <3>1, PeerFacts
    <3>3. PICK r : client' = [client EXCEPT ![Peer(c)].req = r]
      BY <3>1 DEF ReceiveEof, ReceiveWhole, Peer
    <3>4. clogged' = clogged
      BY <3>1 DEF ReceiveEof, ReceiveWhole
    <3>5. /\ client'[j].link = client[j].link
          /\ j # Peer(c) => client'[j] = client[j]
      BY <1>1, <3>2, <3>3 DEF Peers
    <3> QED  BY <1>1, <3>2, <3>4, <3>5 DEF PatientPeer
  <2>3. CASE handle_work(c) \/ AwaitWork(c) \/ handle_work_done(c)
    <3>1. UNCHANGED <<client, clogged>>
      BY <2>3
         DEF handle_work, PrepareHeader, PrepareNotFound, PrepareFile, HeaderReady,
             read_data, send_data, Submit, AwaitWork, handle_work_done, peerVars
    <3> QED  BY <1>2, <3>1
  <2> QED  BY <1>5, <2>1, <2>2, <2>3 DEF ServerNext
<1>6. Login \/ NewLogEntry \/ UNCHANGED vars => UNCHANGED <<client, clogged>>
  BY DEF Login, NewLogEntry, vars, peerVars
<1> QED  BY <1>2, <1>3, <1>4, <1>5, <1>6 DEF Next

(* A block goes on if nothing about it changes but that its client reads   *)
(* or sends its request.                                                   *)
LEMMA GoesOnFrame ==
  ASSUME NEW d \in alloc, CanGoOn(d),
         Peer(d)' = Peer(d),
         interest'[heap[d].sockfd] = interest[heap[d].sockfd],
         heap'[d].sockfd = heap[d].sockfd, heap'[d].eventfd = heap[d].eventfd,
         heap'[d].state = heap[d].state,
         aio'[d].op = aio[d].op,
         client'[Peer(d)].req \in {client[Peer(d)].req, "whole"},
         Peer(d) \in clogged' => Peer(d) \in clogged
  PROVE  CanGoOn(d)'
BY DEF CanGoOn

LEMMA ClientGoesOn ==
  ASSUME PatientClients, TypeOK, OwnershipInv, UptimeInv, TypeOK', OwnershipInv',
         NEW k \in Clients, ClientNext(k), NEW d \in alloc
  PROVE  CanGoOn(d)'
<1>1. /\ UNCHANGED <<alloc, heap, aio, interest, fdtab>>
      /\ clogged' \subseteq clogged
  BY DEF ClientNext, Connect, SendRequest, SendFragment, SendLong, SendExtra,
         Leave, Drain, ClientStep, kernelVars
<1>2. /\ Peer(d) \in Clients /\ Peer(d)' = Peer(d)
      /\ client[Peer(d)].link \in {"open", "fin", "rst"}
      /\ client \in [Clients -> Peers] /\ client[Peer(d)] \in Peers
      /\ CanGoOn(d)
  BY <1>1, PeerFacts DEF Peer, TypeOK, UptimeInv
<1>3. CASE SendExtra(k) /\ k = Peer(d)
  <2>1. heap[d].state # "NEW_CONN"
    BY <1>2, <1>3 DEF SendExtra, CanGoOn
  <2> QED  BY <1>1, <1>2, <2>1 DEF CanGoOn
<1>4. CASE ~(SendExtra(k) /\ k = Peer(d))
  <2>1. client'[Peer(d)].req \in {client[Peer(d)].req, "whole"}
    <3>1. CASE \E p \in Paths : Connect(k, p)
      BY <1>2, <3>1 DEF Connect, Peers
    <3>2. CASE SendRequest(k)
      BY <1>2, <3>2 DEF SendRequest, Peers
    <3>3. CASE SendExtra(k)
      BY <1>2, <1>4, <3>3 DEF SendExtra, Peers
    <3>4. CASE Drain(k)
      BY <3>4 DEF Drain
    <3> QED
      BY <3>1, <3>2, <3>3, <3>4
         DEF ClientNext, SendFragment, SendLong, Leave, PatientClients
  <2> QED  BY <1>1, <1>2, <2>1, GoesOnFrame
<1> QED  BY <1>3, <1>4

LEMMA OthersGoOn ==
  ASSUME TypeOK, RegistrationInv, OwnershipInv, UptimeInv, TypeOK', OwnershipInv',
         NEW c \in Conns, KernelNext(c) \/ ServerNext(c), ~Exit,
         NEW d \in alloc, d # c
  PROVE  CanGoOn(d)'
<1>1. /\ heap'[d] = heap[d] /\ aio'[d] = aio[d] /\ Peer(d)' = Peer(d)
      /\ client'[Peer(d)] = client[Peer(d)]
  BY Bystanders
<1>2. CanGoOn(d)
  BY DEF UptimeInv
<1> QED  BY <1>1, <1>2, OtherEntries, GoesOnFrame
LEMMA KernelGoesOn ==
  ASSUME TypeOK, RegistrationInv, OwnershipInv, UptimeInv,
         NEW c \in Conns, KernelNext(c), ~Exit, c \in alloc
  PROVE  CanGoOn(c)'
<1>1. /\ UNCHANGED <<fdtab, interest, alloc, client>>
      /\ aio[c].op # "none"
      /\ \E r : aio'[c] = [aio[c] EXCEPT !.done = TRUE, !.res = r]
      /\ heap' = heap \/ \E b : heap' = [heap EXCEPT ![c].send_buffer = b]
  BY KernelSteps
<1>2. /\ heap'[c].sockfd = heap[c].sockfd /\ heap'[c].eventfd = heap[c].eventfd
      /\ heap'[c].state = heap[c].state
      /\ aio'[c].op = aio[c].op
  BY <1>1, Numbers DEF TypeOK, Connections, Operations
<1>3. Peer(c)' = Peer(c)
  BY <1>1, <1>2 DEF Peer
<1>4. CanGoOn(c) /\ heap[c].eventfd # 0
  BY <1>1 DEF UptimeInv, OwnershipInv, BlockOwns, EventFdOwned
<1> QED  BY <1>1, <1>2, <1>3, <1>4 DEF CanGoOn

(* A new connection has a client that has sent nothing yet.                *)
LEMMA AcceptGoesOn ==
  ASSUME ZeroedMemory, TypeOK, UptimeInv,
         NEW c \in Conns, NEW k \in Clients, handle_new_connection(k, c), ~Exit
  PROVE  CanGoOn(c)'
<1> DEFINE s == LowestFree(fdtab)
<1>1. FreeFds(fdtab) # {} /\ s \in Fd
  BY LowestFreeIsFree DEF handle_new_connection
<1>2. /\ fdtab' = [fdtab EXCEPT ![s] = Sock(k)]
      /\ client' = [client EXCEPT ![k].link = "open"]
      /\ UNCHANGED <<aio, clogged>>
      /\ \E e, d \in GarbageFds, dim \in GarbageDims :
           heap' = [heap EXCEPT ![c] =
             [sockfd |-> s, eventfd |-> e, fd |-> d,
              state |-> "NEW_CONN", path |-> None, is_header |-> FALSE,
              send_len |-> 0, read_data |-> 0, file_dimension |-> dim,
              send_buffer |-> EmptyBuffer]]
  BY <1>1 DEF handle_new_connection
<1> HIDE DEF s
<1>3. heap'[c].state = "NEW_CONN" /\ heap'[c].sockfd = s
  BY <1>2 DEF TypeOK
<1>4. Peer(c)' = k
  BY <1>1, <1>2, <1>3, Kinds DEF Peer, TypeOK
<1>5. client[k].req = "idle" /\ k \notin clogged
  BY DEF handle_new_connection, UptimeInv
<1>6. client'[k].req = "idle"
  BY <1>2, <1>5 DEF TypeOK, Peers
<1> QED  BY <1>2, <1>3, <1>4, <1>5, <1>6 DEF CanGoOn, WorkStates

(* A patient client's request comes whole, and turns EPOLLOUT on.          *)
LEMMA RequestGoesOn ==
  ASSUME TypeOK, RegistrationInv, OwnershipInv, UptimeInv, TypeOK', OwnershipInv',
         NEW c \in Conns, handle_client_request(c), ~Exit
  PROVE  CanGoOn(c)'
<1>1. /\ c \in alloc /\ heap[c].state = "NEW_CONN" /\ aio[c].op = "none"
      /\ ReceiveEof(c) \/ ReceiveWhole(c)
  BY RequestCases
<1>2. /\ CanGoOn(c) /\ Peer(c) \in Clients /\ heap[c].sockfd \in Fd
      /\ client[Peer(c)].link \notin {"fin", "rst"}
      /\ client[Peer(c)].req \in {"idle", "whole"}
  BY <1>1, PeerFacts DEF UptimeInv, CanGoOn
<1>3. ReceiveWhole(c)
  BY <1>1, <1>2 DEF ReceiveEof, Peer
<1>4. /\ interest' = w_epoll_update_ptr_inout(interest, heap[c].sockfd, c)
      /\ UNCHANGED <<fdtab, clogged>>
      /\ heap'[c].sockfd = heap[c].sockfd /\ heap'[c].eventfd = heap[c].eventfd
      /\ heap'[c].state = "DATA_RECEIVED"
  BY <1>3 DEF ReceiveWhole, TypeOK, Connections
<1>5. Peer(c)' = Peer(c)
  BY <1>4 DEF Peer
<1>6. "OUT" \in interest'[heap[c].sockfd].ev
  BY <1>2, <1>4 DEF w_epoll_update_ptr_inout, TypeOK
<1> QED  BY <1>2, <1>4, <1>5, <1>6 DEF CanGoOn

(* A header made leaves EPOLLOUT on; an operation submitted has its own    *)
(* eventfd, which is not number 0.                                         *)
LEMMA WorkGoesOn ==
  ASSUME TypeOK, RegistrationInv, OwnershipInv, UptimeInv, TypeOK', OwnershipInv',
         NEW c \in Conns, handle_work(c), ~Exit
  PROVE  CanGoOn(c)'
<1>1. /\ c \in alloc /\ aio[c].op = "none" /\ heap[c].state \in WorkStates
      /\ heap[c] \in Connections /\ heap'[c] \in Connections
      /\ alloc' = alloc /\ CanGoOn(c)
  <2>1. alloc' = alloc
    BY DEF handle_work, PrepareHeader, PrepareNotFound, PrepareFile, HeaderReady,
           read_data, send_data, Submit
  <2> QED  BY <2>1, OutEventFacts, Numbers DEF handle_work, UptimeInv, TypeOK
<1>2. Peer(c)' = Peer(c)
  <2>1. heap'[c].sockfd = heap[c].sockfd /\ [Next]_vars
    BY WorkKeepsSocket DEF Next, ServerNext
  <2> QED  BY <1>1, <2>1, PeerStays
<1>3. CASE PrepareHeader(c)
  <2> DEFINE p == heap[c].path
             n == AsInt(size[p])
             b == write_http200_header(p, n)
  <2>1. UNCHANGED <<interest, aio, clogged>>
    BY <1>3 DEF PrepareHeader, PrepareNotFound, PrepareFile, HeaderReady, peerVars
  <2>2. CASE PrepareNotFound(c)
    BY <1>1, <1>2, <2>1, <2>2
       DEF PrepareNotFound, HeaderReady, TypeOK, Connections, CanGoOn
  <2>3. CASE PrepareFile(c, p)
    <3>1. heap' = [heap EXCEPT ![c] =
                    [[heap[c] EXCEPT !.send_buffer = b, !.file_dimension = n,
                                     !.fd = LowestFree(fdtab)]
                       EXCEPT !.is_header = TRUE, !.state = "SENDING"]]
      BY <2>3 DEF PrepareFile, HeaderReady
    <3> HIDE DEF b, n
    <3>2. /\ heap'[c].sockfd = heap[c].sockfd /\ heap'[c].eventfd = heap[c].eventfd
          /\ heap'[c].state = "SENDING"
      BY <1>1, <3>1 DEF TypeOK, Connections
    <3> QED  BY <1>1, <1>2, <2>1, <3>2 DEF CanGoOn
  <2> QED  BY <1>3, <2>2, <2>3 DEF PrepareHeader
<1>4. ASSUME NEW d, NEW op \in {"read", "header", "data"}, NEW lo, NEW len,
             NEW block \in Connections, block.state \in WorkStates,
             Submit(c, d, op, lo, len, block)
      PROVE  CanGoOn(c)'
  <2> DEFINE e == LowestFree(fdtab)
             x == [fdtab EXCEPT ![e] = EventFd(c)][d]
  <2>1. /\ FreeFds(fdtab) # {}
        /\ aio' = [aio EXCEPT ![c] = Operation(op, x, lo, len)]
        /\ heap' = [heap EXCEPT ![c] = [block EXCEPT !.eventfd = e]]
    BY <1>4 DEF Submit
  <2>2. e # 0
    BY <2>1, LowestFreeIsFree, FreeIsUnused
  <2> HIDE DEF e, x
  <2>3. /\ aio'[c].op # "none"
        /\ heap'[c].eventfd = e /\ heap'[c].state = block.state
    BY <1>4, <2>1 DEF TypeOK, Connections, Operation
  <2> QED  BY <1>4, <2>2, <2>3 DEF CanGoOn, WorkStates
<1>5. CASE read_data(c)
  BY <1>1, <1>4, <1>5 DEF read_data
<1>6. CASE send_data(c)
  <2> DEFINE block == [heap[c] EXCEPT !.is_header = FALSE]
  <2>1. block \in Connections /\ block.state = heap[c].state
    BY <1>1 DEF Connections
  <2>2. \/ Submit(c, heap[c].sockfd, "header", 0, 1, block)
        \/ Submit(c, heap[c].sockfd, "data", 0, heap[c].read_data, heap[c])
    BY <1>6 DEF send_data
  <2> HIDE DEF block
  <2> QED  BY <1>1, <1>4, <2>1, <2>2
<1> QED  BY <1>3, <1>5, <1>6 DEF handle_work

LEMMA AwaitGoesOn ==
  ASSUME TypeOK, RegistrationInv, OwnershipInv, UptimeInv, TypeOK', OwnershipInv',
         NEW c \in Conns, AwaitWork(c), ~Exit
  PROVE  CanGoOn(c)'
<1>1. /\ c \in alloc /\ alloc' = alloc /\ UNCHANGED <<heap, aio, clogged>>
      /\ heap[c].state # "NEW_CONN" /\ aio[c].op # "none"
  BY AwaitOwner DEF AwaitWork, Armed
<1>2. CanGoOn(c) /\ heap[c].eventfd # 0
  BY <1>1 DEF UptimeInv, OwnershipInv, BlockOwns, EventFdOwned
<1> QED  BY <1>1, <1>2 DEF CanGoOn

(* The end of an operation turns EPOLLOUT on again.                        *)
LEMMA DoneGoesOn ==
  ASSUME TypeOK, RegistrationInv, OwnershipInv, UptimeInv, TypeOK', OwnershipInv',
         NEW c \in Conns, handle_work_done(c), ~Exit, c \in alloc'
  PROVE  CanGoOn(c)'
<1>1. c \in alloc /\ aio[c].op # "none" /\ heap[c].sockfd \in Fd
  BY DescriptorsAssumption, Numbers
     DEF handle_work_done, RegistrationInv, OwnershipInv, BlockedOnRealWork
<1>2. heap[c].eventfd # 0
  BY <1>1 DEF OwnershipInv, BlockOwns, EventFdOwned
<1>3. /\ interest' = w_epoll_update_ptr_out(interest, heap[c].sockfd, c)
      /\ \/ \E l, r : heap' = [heap EXCEPT ![c].send_len = l, ![c].read_data = r,
                                           ![c].state = "SENDING"]
         \/ heap' = [heap EXCEPT ![c].state = "READING"]
  BY DEF handle_work_done, connection_remove
<1>4. /\ heap'[c].sockfd = heap[c].sockfd /\ heap'[c].eventfd = heap[c].eventfd
      /\ heap'[c].state \in {"SENDING", "READING"}
  <2>1. heap[c] \in Connections
    BY Numbers
  <2>2. ASSUME NEW l, NEW r, heap' = [heap EXCEPT ![c].send_len = l, ![c].read_data = r,
                                                 ![c].state = "SENDING"]
        PROVE  /\ heap'[c].sockfd = heap[c].sockfd
               /\ heap'[c].eventfd = heap[c].eventfd
               /\ heap'[c].state = "SENDING"
    BY <2>1, <2>2 DEF TypeOK, Connections
  <2>3. CASE heap' = [heap EXCEPT ![c].state = "READING"]
    BY <2>1, <2>3 DEF TypeOK, Connections
  <2> QED  BY <1>3, <2>2, <2>3
<1>5. "OUT" \in interest'[heap[c].sockfd].ev
  BY <1>1, <1>3 DEF w_epoll_update_ptr_out, TypeOK
<1> QED  BY <1>2, <1>4, <1>5 DEF CanGoOn

(* A read goes to the file its block has opened, and does not fail.        *)
LEMMA ReadsStep ==
  ASSUME TypeOK, TypeOK', RegistrationInv, OwnershipInv, UptimeInv, [Next]_vars, ~Exit,
         NEW d \in alloc'
  PROVE  ReadsSucceed(d)'
<1>1. \A x \in alloc : x \in Conns /\ ReadsSucceed(x) /\ heap[x] \in Connections /\ aio[x] \in Operations
  BY DEF UptimeInv, TypeOK
<1>2. CASE UNCHANGED <<alloc, heap, aio>>
  BY <1>1, <1>2 DEF ReadsSucceed
<1>3. ASSUME NEW c \in Conns, KernelNext(c) \/ ServerNext(c), d # c
      PROVE  ReadsSucceed(d)'
  <2>1. alloc' \subseteq alloc \cup {c}
    BY <1>3, KernelSteps, OnlyAcceptAllocates DEF handle_new_connection
  <2>2. d \in alloc /\ heap'[d] = heap[d] /\ aio'[d] = aio[d]
    BY <1>3, <2>1, OtherBlocks
  <2> QED  BY <1>1, <2>2 DEF ReadsSucceed
<1>4. ASSUME KernelNext(d), d \in alloc
      PROVE  ReadsSucceed(d)'
  <2>1. /\ \E r : aio'[d] = [aio[d] EXCEPT !.done = TRUE, !.res = r]
        /\ heap' = heap \/ \E b : heap' = [heap EXCEPT ![d].send_buffer = b]
    BY <1>1, <1>4, KernelSteps
  <2>2. /\ heap'[d].send_len = heap[d].send_len /\ heap'[d].read_data = heap[d].read_data
        /\ heap'[d].state = heap[d].state /\ aio'[d].op = aio[d].op
    BY <1>1, <1>4, <2>1 DEF TypeOK, Connections, Operations
  <2>3. ASSUME aio[d].op = "read" PROVE aio'[d].res >= 0
    <3>1. ReadDone(d)
      BY <1>4, <2>3 DEF KernelNext, WriteDone, WriteFails
    <3>2. aio[d].obj.kind = "file" /\ aio[d].obj.of \in Files
      <4>1. aio[d].obj = fdtab[heap[d].fd] /\ fdtab[heap[d].fd] = File(heap[d].path)
        <5>1. BlockOwns(d) /\ heap[d].state \in {"SENDING", "READING"}
          BY <1>1, <1>4, <2>3 DEF OwnershipInv, RegistrationInv, BlockOK
        <5> QED  BY <2>3, <5>1 DEF BlockOwns, FileOwned, Opened
      <4>2. aio[d].obj.kind = "file"
        BY <4>1 DEF File
      <4> QED  BY <1>1, <1>4, <4>2, ObjectOwners DEF Operations
    <3>3. \E n \in Nat : CompleteWith(d, n)
      <4> DEFINE f == aio[d].obj.of
                 n == IF aio[d].lo >= size[f] THEN 0
                      ELSE SetMin(BufSiz, size[f] - aio[d].lo)
      <4>1. size[f] \in Nat /\ aio[d].lo \in Nat /\ BufSiz \in Nat
        BY <1>1, <1>4, <3>2, ImonitorAssumption DEF TypeOK, Operations
      <4>2. CompleteWith(d, n)
        BY <3>1, <3>2 DEF ReadDone
      <4>3. n \in Nat
        BY <4>1 DEF SetMin
      <4> QED  BY <4>2, <4>3
    <3> QED  BY <1>1, <1>4, <3>3 DEF CompleteWith, TypeOK, Operations
  <2> QED  BY <1>1, <1>4, <2>2, <2>3 DEF ReadsSucceed
<1>5. ASSUME NEW k \in Clients, handle_new_connection(k, d)
      PROVE  ReadsSucceed(d)'
  <2>1. d \notin alloc /\ d \in Conns
    BY <1>5 DEF handle_new_connection, TypeOK
  <2>2. PICK s, e, x, dim :
          heap' = [heap EXCEPT ![d] =
                     [sockfd |-> s, eventfd |-> e, fd |-> x,
                      state |-> "NEW_CONN", path |-> None, is_header |-> FALSE,
                      send_len |-> 0, read_data |-> 0, file_dimension |-> dim,
                      send_buffer |-> EmptyBuffer]]
    BY <1>5 DEF handle_new_connection
  <2>3. aio' = aio /\ aio[d].op = "none"
    BY <1>5, <2>1 DEF handle_new_connection, RegistrationInv, BlockOK
  <2>4. heap'[d].send_len = 0 /\ heap'[d].read_data = 0 /\ heap'[d].state = "NEW_CONN"
    BY <2>1, <2>2 DEF TypeOK
  <2> QED  BY <2>3, <2>4 DEF ReadsSucceed
<1>6. ASSUME d \in alloc, handle_client_request(d)
      PROVE  ReadsSucceed(d)'
  <2>1. /\ aio' = aio
        /\ heap'[d].send_len = heap[d].send_len /\ heap'[d].read_data = heap[d].read_data
        /\ heap'[d].state # "READING"
    <3>1. ReceiveEof(d) \/ ReceiveWhole(d)
      BY <1>1, <1>6, RequestCases
    <3>2. CASE ReceiveEof(d)
      <4>1. aio' = aio /\ heap' = [heap EXCEPT ![d].state = "CLOSED"]
        BY <3>2 DEF ReceiveEof, kernelVars
      <4> QED  BY <1>1, <1>6, <4>1 DEF TypeOK, Connections
    <3>3. CASE ReceiveWhole(d)
      <4>1. PICK p : /\ aio' = aio
                     /\ heap' = [heap EXCEPT ![d].path = p, ![d].state = "DATA_RECEIVED"]
        BY <3>3 DEF ReceiveWhole
      <4> QED  BY <1>1, <1>6, <4>1 DEF TypeOK, Connections
    <3> QED  BY <3>1, <3>2, <3>3
  <2> QED  BY <1>1, <1>6, <2>1 DEF ReadsSucceed
<1>7. ASSUME d \in alloc, handle_work(d)
      PROVE  ReadsSucceed(d)'
  <2>1. aio[d].op = "none"
    BY <1>1, <1>7, OutEventFacts DEF handle_work
  <2>2. CASE PrepareHeader(d)
    <3>1. /\ aio' = aio
          /\ heap'[d].send_len = heap[d].send_len /\ heap'[d].read_data = heap[d].read_data
      <4>1. CASE PrepareNotFound(d)
        BY <1>1, <1>7, <4>1 DEF PrepareNotFound, HeaderReady, TypeOK, Connections
      <4>2. ASSUME NEW p, PrepareFile(d, p)
            PROVE  /\ aio' = aio
                   /\ heap'[d].send_len = heap[d].send_len
                   /\ heap'[d].read_data = heap[d].read_data
        <5>1. PICK b, n, f, tab :
                HeaderReady(d, [heap[d] EXCEPT !.send_buffer = b, !.file_dimension = n,
                                               !.fd = f], tab)
          BY <4>2 DEF PrepareFile
        <5>2. aio' = aio
          BY <5>1 DEF HeaderReady
        <5>3. heap'[d] = [[heap[d] EXCEPT !.send_buffer = b, !.file_dimension = n, !.fd = f]
                            EXCEPT !.is_header = TRUE, !.state = "SENDING"]
          BY <1>7, <5>1 DEF HeaderReady, TypeOK
        <5> QED  BY <1>1, <1>7, <5>2, <5>3 DEF Connections
      <4> QED  BY <2>2, <4>1, <4>2 DEF PrepareHeader
    <3> QED  BY <1>1, <1>7, <2>1, <3>1 DEF ReadsSucceed
  <2>3. ASSUME NEW x, NEW op, NEW lo, NEW len, NEW block \in Connections,
               Submit(d, x, op, lo, len, block),
               block.state = "READING" => op = "read",
               block.send_len = heap[d].send_len, block.read_data = heap[d].read_data
        PROVE  ReadsSucceed(d)'
    <3>1. \E o, e : /\ aio' = [aio EXCEPT ![d] = Operation(op, o, lo, len)]
                    /\ heap' = [heap EXCEPT ![d] = [block EXCEPT !.eventfd = e]]
      BY <2>3 DEF Submit
    <3>2. /\ aio'[d].op = op /\ aio'[d].done = FALSE
          /\ heap'[d].send_len = heap[d].send_len /\ heap'[d].read_data = heap[d].read_data
          /\ heap'[d].state = block.state
      BY <1>1, <1>7, <2>3, <3>1 DEF TypeOK, Operation, Connections
    <3> QED  BY <1>1, <1>7, <2>3, <3>2 DEF ReadsSucceed
  <2>4. CASE read_data(d)
    BY <1>1, <1>7, <2>3, <2>4 DEF read_data
  <2>5. CASE send_data(d)
    <3> DEFINE b == [heap[d] EXCEPT !.is_header = FALSE]
    <3>1. /\ b \in Connections /\ b.state = heap[d].state
          /\ b.send_len = heap[d].send_len /\ b.read_data = heap[d].read_data
      BY <1>1, <1>7 DEF Connections
    <3>2. /\ heap[d].state = "SENDING"
          /\ \/ Submit(d, heap[d].sockfd, "header", 0, 1, b)
             \/ Submit(d, heap[d].sockfd, "data", 0, heap[d].read_data, heap[d])
      BY <2>5 DEF send_data
    <3> HIDE DEF b
    <3> QED  BY <1>1, <1>7, <2>3, <3>1, <3>2
  <2> QED  BY <1>7, <2>2, <2>4, <2>5 DEF handle_work
<1>8. ASSUME d \in alloc, AwaitWork(d)
      PROVE  ReadsSucceed(d)'
  BY <1>1, <1>8 DEF AwaitWork, ReadsSucceed
<1>9. ASSUME d \in alloc, handle_work_done(d)
      PROVE  ReadsSucceed(d)'
  <2>1. aio'[d].op = "none"
    BY <1>1, <1>9 DEF handle_work_done, TypeOK, Idle
  <2>2. CASE /\ heap[d].state = "READING"
             /\ heap' = [heap EXCEPT ![d].send_len = @ + aio[d].res,
                                     ![d].read_data = aio[d].res, ![d].state = "SENDING"]
    <3>1. aio[d].op = "read" /\ aio[d].done
      BY <1>1, <1>9, <2>2, DescriptorsAssumption
         DEF handle_work_done, OwnershipInv, BlockedOnRealWork, ReadsSucceed
    <3>2. aio[d].res \in Int /\ aio[d].res >= 0 /\ heap[d].send_len \in Int /\ heap[d].send_len >= 0
      BY <1>1, <1>9, <3>1 DEF ReadsSucceed, Connections, Operations, Failed
    <3>3. heap'[d].send_len = heap[d].send_len + aio[d].res /\ heap'[d].read_data = aio[d].res
      BY <1>1, <1>9, <2>2 DEF TypeOK, Connections
    <3> QED  BY <2>1, <3>2, <3>3 DEF ReadsSucceed
  <2>3. CASE heap' = [heap EXCEPT ![d].state = "READING"]
    <3>1. heap'[d].send_len = heap[d].send_len /\ heap'[d].read_data = heap[d].read_data
      BY <1>1, <1>9, <2>3 DEF TypeOK, Connections
    <3> QED  BY <1>1, <1>9, <2>1, <3>1 DEF ReadsSucceed
  <2>4. ~(alloc' = alloc \ {d})
    OBVIOUS
  <2> QED  BY <1>9, <2>2, <2>3, <2>4 DEF handle_work_done, connection_remove
<1>10. Login \/ NewLogEntry \/ UNCHANGED vars => UNCHANGED <<alloc, heap, aio>>
  BY DEF Login, NewLogEntry, vars, kernelVars
<1>11. ASSUME NEW k \in Clients, ClientNext(k)
       PROVE  UNCHANGED <<alloc, heap, aio>>
  BY <1>11 DEF ClientNext, Connect, SendRequest, SendFragment, SendLong, SendExtra,
               Leave, Drain, ClientStep, kernelVars
<1>12. ASSUME NEW c \in Conns, KernelNext(c) \/ ServerNext(c), d = c
       PROVE  ReadsSucceed(d)'
  <2>1. CASE d \in alloc
    <3>1. \A k \in Clients : ~handle_new_connection(k, d)
      BY <2>1 DEF handle_new_connection
    <3> QED  BY <1>12, <2>1, <3>1, <1>4, <1>6, <1>7, <1>8, <1>9 DEF ServerNext
  <2>2. CASE d \notin alloc
    <3>1. \E k \in Clients : handle_new_connection(k, d)
      BY <1>12, <2>2, KernelSteps, OnlyAcceptAllocates
    <3> QED  BY <3>1, <1>5
  <2> QED  BY <2>1, <2>2
<1> QED  BY <1>2, <1>3, <1>10, <1>11, <1>12 DEF Next

LEMMA UptimeStep ==
  ASSUME ZeroedMemory, OnlyFiles, PatientClients, EnoughDescriptors, SizesFit,
         TypeOK, RegistrationInv, OwnershipInv, UptimeInv, TypeOK', OwnershipInv',
         [Next]_vars
  PROVE  UptimeInv'
<1>1. proc' = "running" /\ ~Exit
  BY NobodyDies DEF Exit
<1>2. Counts'
  BY CountsStep
<1>3. \A k \in Clients : PatientPeer(k)'
  BY <1>1, PatientStep
<1>4. ASSUME NEW d \in alloc' PROVE CanGoOn(d)'
  <2>1. CASE Login \/ NewLogEntry \/ UNCHANGED vars
    <3>1. UNCHANGED <<interest, aio, alloc, heap, client, clogged>>
      BY <1>1, <2>1 DEF Login, NewLogEntry, vars, kernelVars, peerVars
    <3>2. d \in alloc /\ CanGoOn(d) /\ Peer(d)' = Peer(d)
      BY <1>4, <3>1, PeerStays DEF UptimeInv
    <3> QED  BY <3>1, <3>2, GoesOnFrame
  <2>2. ASSUME NEW k \in Clients, ClientNext(k) PROVE CanGoOn(d)'
    <3>1. alloc' = alloc
      BY <2>2 DEF ClientNext, Connect, SendRequest, SendFragment, SendLong, SendExtra,
                  Leave, Drain, ClientStep
    <3> QED  BY <1>4, <2>2, <3>1, ClientGoesOn
  <2>3. ASSUME NEW c \in Conns, KernelNext(c) PROVE CanGoOn(d)'
    BY <1>1, <1>4, <2>3, KernelSteps, KernelGoesOn, OthersGoOn
  <2>4. ASSUME NEW c \in Conns, ServerNext(c) PROVE CanGoOn(d)'
    <3>1. CASE d # c
      <4>1. d \in alloc
        <5>1. alloc' \subseteq alloc \cup {c}
          BY <2>4, OnlyAcceptAllocates, <1>1 DEF handle_new_connection
        <5> QED  BY <1>4, <3>1, <5>1
      <4> QED  BY <1>1, <2>4, <3>1, <4>1, OthersGoOn
    <3>2. CASE d = c
      BY <1>1, <1>4, <2>4, <3>2, AcceptGoesOn, RequestGoesOn, WorkGoesOn,
         AwaitGoesOn, DoneGoesOn DEF ServerNext
    <3> QED  BY <3>1, <3>2
  <2> QED  BY <2>1, <2>2, <2>3, <2>4 DEF Next
<1>5. ASSUME NEW d \in alloc' PROVE ReadsSucceed(d)'
  BY <1>1, <1>5, ReadsStep
<1> QED  BY <1>1, <1>2, <1>3, <1>4, <1>5 DEF UptimeInv, Counts, PatientPeer

LEMMA OnlyFilesAreNotMissing == OnlyFiles => NothingMissing
BY ImonitorAssumption DEF OnlyFiles, NothingMissing

(* With zeroed memory, paths that name files of a size an int can hold,    *)
(* patient clients and three descriptors per connection besides the one    *)
(* that every login leaves open: no connection gets stuck.  One that has   *)
(* work and no operation out waits for EPOLLOUT, the client of one that    *)
(* has not had an operation yet can be written to, no read fails, no       *)
(* client disappears, and wtmp costs no more than a descriptor per login.                     *)
THEOREM EveryoneCanGoOn ==
  ASSUME ZeroedMemory, OnlyFiles, PatientClients, EnoughDescriptors, SizesFit
  PROVE  Spec => []UptimeInv
<1>1. Init => UptimeInv
  BY InitUptime
<1>2. TypeOK /\ RegistrationInv /\ OwnershipInv /\ TypeOK' /\ OwnershipInv'
        /\ UptimeInv /\ [Next]_vars => UptimeInv'
  BY UptimeStep
<1>3. Spec => []OwnershipInv
  BY OnlyFilesAreNotMissing, DescriptorsOwned
<1> QED
  BY <1>1, <1>2, <1>3, TypeCorrect, RegistrationCorrect, PTL DEF Spec

(* Under the same assumptions none of the DIEs in the handlers is ever     *)
(* reached: no epoll_ctl() or io_submit() fails, no state is unknown, and  *)
(* accept(), open() and eventfd() find a number.                           *)
THEOREM NeverDies ==
  ASSUME ZeroedMemory, OnlyFiles, PatientClients, EnoughDescriptors, SizesFit
  PROVE  Spec => []ServerStaysUp
<1>1. UptimeInv => ServerStaysUp
  BY DEF UptimeInv, ServerStaysUp
<1> QED
  BY <1>1, EveryoneCanGoOn, PTL
=============================================================================
