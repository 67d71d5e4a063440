--------------------------- MODULE OwnershipProofs ---------------------------
(***************************************************************************)
(* Proofs that every descriptor has one owner, and of what follows: none   *)
(* is lost, and the loop blocks only on work that exists.  They need       *)
(* zeroed memory and paths that name something; without either a stray     *)
(* close() breaks them.                                                    *)
(***************************************************************************)
EXTENDS Ownership, ImonitorProofs

-----------------------------------------------------------------------------
(* Facts about one state.                                                  *)

LEMMA Numbers ==
  ASSUME TypeOK, NEW c \in Conns
  PROVE  /\ heap[c].sockfd \in Fd
         /\ heap[c].eventfd \in Fd
         /\ heap[c].fd \in Fd
         /\ heap[c] \in Connections
         /\ aio[c] \in Operations
BY DEF TypeOK, Connections

LEMMA Kinds ==
  /\ Free.kind = "free" /\ Stdin.kind = "std" /\ Wtmp.kind = "wtmp"
  /\ \A x : /\ Sock(x).kind = "sock" /\ Sock(x).of = x
            /\ EventFd(x).kind = "evfd" /\ EventFd(x).of = x
            /\ File(x).kind = "file" /\ File(x).of = x
BY DEF Free, Stdin, Wtmp, Sock, EventFd, File

LEMMA SockIs ==
  ASSUME NEW o \in Objects, o.kind = "sock"
  PROVE  o.of \in Clients /\ o = Sock(o.of)
BY DEF Objects, Sock

(* A free number is in no block and not registered.                        *)
LEMMA FreeIsUnused ==
  ASSUME TypeOK, RegistrationInv, OwnershipInv,
         NEW f \in Fd, fdtab[f] = Free
  PROVE  /\ f # 0
         /\ interest[f] = Absent
         /\ \A c \in alloc : /\ heap[c].sockfd # f
                             /\ Opened(c) => heap[c].fd # f
                             /\ Armed(c) => heap[c].eventfd # f
<1>1. f # 0
  BY Kinds DEF OwnershipInv
<1>2. ASSUME NEW c \in alloc
      PROVE  /\ heap[c].sockfd # f
             /\ Opened(c) => heap[c].fd # f
             /\ Armed(c) => heap[c].eventfd # f
  BY <1>2, Kinds DEF OwnershipInv, BlockOwns, SocketOwned, FileOwned, EventFdOwned
<1>3. interest[f] = Absent
  BY <1>2 DEF RegistrationInv, EntryOK, Armed
<1> QED  BY <1>1, <1>2, <1>3

(* Registered numbers: the socket's entry points at its block.             *)
LEMMA SocketEntry ==
  ASSUME TypeOK, RegistrationInv, OwnershipInv, NEW c \in alloc
  PROVE  interest[heap[c].sockfd].ptr = c
<1> DEFINE s == heap[c].sockfd
           d == interest[s].ptr
<1>1. s \in Fd /\ interest[s] # Absent /\ fdtab[s].kind = "sock"
  BY Numbers DEF OwnershipInv, BlockOwns, SocketOwned, TypeOK
<1>2. d \in alloc /\ (s = heap[d].sockfd \/ (s = heap[d].eventfd /\ Armed(d)))
  BY <1>1 DEF RegistrationInv, EntryOK, Armed
<1>3. s # heap[d].eventfd \/ ~Armed(d)
  BY <1>1, <1>2, Kinds DEF OwnershipInv, BlockOwns, EventFdOwned
<1> QED  BY <1>2, <1>3 DEF OwnershipInv, Exclusive

(* An event on a connection past NEW_CONN finds an operation, or an        *)
(* eventfd that was never made.                                            *)
LEMMA InEventOwner ==
  ASSUME TypeOK, RegistrationInv, OwnershipInv, NEW c \in Conns, InEvent(c)
  PROVE  /\ c \in alloc
         /\ heap[c].eventfd = 0 \/ aio[c].op # "none"
<1>1. PICK f \in Fd : interest[f].ptr = c /\ "IN" \in interest[f].ev
  BY DEF InEvent
<1>2. interest[f] # Absent
  BY <1>1 DEF Absent
<1>3. c \in alloc /\ (f = heap[c].sockfd \/ aio[c].op # "none")
  BY <1>1, <1>2 DEF RegistrationInv, EntryOK
<1> QED  BY <1>1, <1>3 DEF OwnershipInv, BlockOwns, EventFdOwned

LEMMA AwaitOwner ==
  ASSUME TypeOK, RegistrationInv, OwnershipInv, NEW c \in Conns,
         AwaitWork(c), CanCtl(fdtab, interest, heap[c].eventfd)
  PROVE  /\ c \in alloc /\ Armed(c)
         /\ fdtab[heap[c].eventfd] = EventFd(c)
<1>1. c \in alloc /\ (heap[c].eventfd = 0 \/ aio[c].op # "none")
  BY InEventOwner DEF AwaitWork
<1>2. heap[c].eventfd # 0
  BY DEF OwnershipInv, CanCtl
<1>3. Armed(c)
  BY <1>1, <1>2, DescriptorsAssumption DEF Armed, AwaitWork, InLoop
<1> QED  BY <1>1, <1>3 DEF OwnershipInv, BlockOwns, EventFdOwned

-----------------------------------------------------------------------------
(* Steps.                                                                  *)

(* Most steps open and close nothing, and change neither the operations    *)
(* nor the descriptor fields of a block.                                   *)
LEMMA OwnershipFrame ==
  ASSUME TypeOK, OwnershipInv,
         UNCHANGED <<fdtab, interest, alloc, waiting>>,
         \A c \in Conns :
           /\ aio'[c].op = aio[c].op
           /\ aio'[c].obj = aio[c].obj
           /\ heap'[c].sockfd = heap[c].sockfd
           /\ heap'[c].eventfd = heap[c].eventfd
           /\ heap'[c].fd = heap[c].fd
           /\ heap'[c].path = heap[c].path
           /\ Opened(c)' = Opened(c)
           /\ heap'[c].state = "DATA_RECEIVED" => heap[c].state = "DATA_RECEIVED",
         \A k \in Clients :
           /\ client[k].link \in {"open", "fin", "rst"} =>
                client'[k].link \in {"open", "fin", "rst"}
           /\ client'[k].link # "none" => client'[k].path \in Paths
  PROVE  OwnershipInv'
<1>1. alloc \subseteq Conns /\ fdtab \in [Fd -> Objects] /\ waiting \in Conns \cup {None}
  BY DEF TypeOK
<1>2. \A c \in Conns : Armed(c)' = Armed(c)
  BY DEF Armed
<1>3. ASSUME NEW c \in alloc PROVE BlockOwns(c)'
  BY <1>1, <1>2, <1>3
     DEF OwnershipInv, BlockOwns, SocketOwned, FileOwned, EventFdOwned
<1>4. ASSUME NEW c \in alloc, NEW d \in alloc PROVE Exclusive(c, d)'
  BY <1>1, <1>4 DEF OwnershipInv, Exclusive
<1>5. ASSUME NEW f \in Fd PROVE HasOwner(f)'
  BY <1>1, <1>2, <1>5 DEF OwnershipInv, HasOwner
<1>6. ASSUME NEW f \in Fd, NEW g \in Fd PROVE OneSocket(f, g)'
  <2>1. fdtab[f].kind = "sock" => fdtab[f].of \in Clients
    BY <1>1, ObjectOwners
  <2> QED  BY <2>1 DEF OwnershipInv, OneSocket
<1>7. BlockedOnRealWork'
  BY <1>1 DEF OwnershipInv, BlockedOnRealWork
<1> QED  BY <1>3, <1>4, <1>5, <1>6, <1>7 DEF OwnershipInv

LEMMA InitOwnership == Init => OwnershipInv
<1> SUFFICES ASSUME Init PROVE OwnershipInv  OBVIOUS
<1>1. 0 \in Fd /\ alloc = {} /\ waiting = None
  BY DescriptorsAssumption DEF Init, Fd
<1>2. fdtab[0] = Stdin /\ interest[0] = Absent
  BY <1>1 DEF Init
<1>3. \A f \in Fd : fdtab[f].kind \in {"std", "free"} /\ (fdtab[f].kind = "std" => f = 0)
  BY Kinds DEF Init
<1> QED  BY <1>1, <1>2, <1>3 DEF Init, OwnershipInv, HasOwner, OneSocket, BlockedOnRealWork

(* Only Connect sets a path, and only Leave changes the link of a client   *)
(* that has been accepted.                                                 *)
LEMMA ClientLinks ==
  ASSUME TypeOK, OwnershipInv, NEW k \in Clients, ClientNext(k), NEW j \in Clients
  PROVE  /\ client[j].link \in {"open", "fin", "rst"} =>
              client'[j].link \in {"open", "fin", "rst"}
         /\ client'[j].link # "none" => client'[j].path \in Paths
<1>1. client \in [Clients -> Peers] /\ client[j] \in Peers
  BY DEF TypeOK
<1>2. client[j].link # "none" => client[j].path \in Paths
  BY DEF OwnershipInv
<1>3. CASE \E p \in Paths : Connect(k, p)
  BY <1>1, <1>2, <1>3 DEF Connect, Peers
<1>4. CASE \E r : client' = [client EXCEPT ![k].req = r]
  BY <1>1, <1>2, <1>4 DEF Peers
<1>5. CASE \E how \in {"fin", "rst"} : Leave(k, how)
  BY <1>1, <1>2, <1>5 DEF Leave, Peers
<1>6. CASE client' = client
  BY <1>1, <1>2, <1>6
<1> QED  BY <1>3, <1>4, <1>5, <1>6
         DEF ClientNext, SendRequest, SendFragment, SendLong, SendExtra, Drain

LEMMA ExitOwnership ==
  ASSUME TypeOK, OwnershipInv, Exit
  PROVE  OwnershipInv'
BY OwnershipFrame DEF Exit, kernelVars, peerVars, Opened, OwnershipInv

LEMMA ClientOwnership ==
  ASSUME TypeOK, OwnershipInv, NEW k \in Clients, ClientNext(k)
  PROVE  OwnershipInv'
<1>1. UNCHANGED <<fdtab, interest, alloc, waiting, aio, heap>>
  BY DEF ClientNext, Connect, SendRequest, SendFragment, SendLong, SendExtra,
         Leave, Drain, ClientStep, kernelVars
<1> QED  BY <1>1, ClientLinks, OwnershipFrame DEF Opened

(* A completion changes a result and perhaps a buffer.                     *)
LEMMA KernelSteps ==
  ASSUME TypeOK, NEW c \in Conns, KernelNext(c), ~Exit
  PROVE  /\ UNCHANGED <<proc, waiting, fdtab, interest, alloc, client, size, logins>>
         /\ \A d \in Conns \ {c} : aio'[d] = aio[d] /\ heap'[d] = heap[d]
         /\ aio[c].op # "none" /\ ~aio[c].done
         /\ \E r : aio'[c] = [aio[c] EXCEPT !.done = TRUE, !.res = r]
         /\ heap' = heap \/ \E b : heap' = [heap EXCEPT ![c].send_buffer = b]
<1>1. \E r : CompleteWith(c, r)
  BY DEF KernelNext, ReadDone, WriteDone, WriteFails, Send
<1>2. /\ \A d \in Conns \ {c} : aio'[d] = aio[d]
      /\ \E r : aio'[c] = [aio[c] EXCEPT !.done = TRUE, !.res = r]
  BY <1>1 DEF CompleteWith, TypeOK
<1>3. /\ UNCHANGED <<proc, waiting, fdtab, interest, alloc, client, size, logins>>
      /\ aio[c].op # "none" /\ ~aio[c].done
      /\ heap' = heap \/ \E b : heap' = [heap EXCEPT ![c].send_buffer = b]
  BY DEF KernelNext, ReadDone, WriteDone, WriteFails, fileVars, peerVars
<1> QED  BY <1>2, <1>3 DEF TypeOK

LEMMA KernelOwnership ==
  ASSUME TypeOK, OwnershipInv, NEW c \in Conns, KernelNext(c)
  PROVE  OwnershipInv'
<1>1. CASE Exit  BY <1>1, ExitOwnership
<1>2. CASE ~Exit
  <2>1. ASSUME NEW d \in Conns
        PROVE  /\ aio'[d].op = aio[d].op
               /\ aio'[d].obj = aio[d].obj
               /\ heap'[d].sockfd = heap[d].sockfd
               /\ heap'[d].eventfd = heap[d].eventfd
               /\ heap'[d].fd = heap[d].fd
               /\ heap'[d].path = heap[d].path
               /\ heap'[d].state = heap[d].state
    <3>1. aio'[d].op = aio[d].op /\ aio'[d].obj = aio[d].obj
      BY <1>2, KernelSteps, Numbers DEF Operations
    <3>2. heap' = heap \/ \E b : heap' = [heap EXCEPT ![c].send_buffer = b]
      BY <1>2, KernelSteps
    <3> QED  BY <3>1, <3>2 DEF TypeOK, Connections
  <2>2. UNCHANGED <<waiting, fdtab, interest, alloc, client>>
    BY <1>2, KernelSteps
  <2>3. \A k \in Clients : client[k].link # "none" => client[k].path \in Paths
    BY DEF OwnershipInv
  <2> QED  BY <2>1, <2>2, <2>3, OwnershipFrame DEF Opened
<1> QED  BY <1>1, <1>2

(* The new block takes a number that was free, and its client's only one.  *)
LEMMA AcceptOwnership ==
  ASSUME ZeroedMemory, TypeOK, RegistrationInv, OwnershipInv,
         NEW k \in Clients, NEW c \in Conns, handle_new_connection(k, c)
  PROVE  OwnershipInv'
<1>1. CASE FreeFds(fdtab) = {}
  BY <1>1, ExitOwnership DEF handle_new_connection
<1>2. CASE FreeFds(fdtab) # {}
  <2> DEFINE s == LowestFree(fdtab)
  <2>1. s \in Fd /\ fdtab[s] = Free
    BY <1>2, LowestFreeIsFree
  <2>2. /\ fdtab' = [fdtab EXCEPT ![s] = Sock(k)]
        /\ interest' = w_epoll_add_ptr_in(interest, s, c)
        /\ alloc' = alloc \cup {c}
        /\ client' = [client EXCEPT ![k].link = "open"]
        /\ UNCHANGED <<waiting, aio>>
        /\ c \notin alloc /\ waiting = None
        /\ client[k].link = "backlog"
    BY <1>2 DEF handle_new_connection, InLoop
  <2>3. /\ \A d \in Conns \ {c} : heap'[d] = heap[d]
        /\ heap'[c].sockfd = s /\ heap'[c].eventfd = 0 /\ heap'[c].fd = 0
        /\ heap'[c].state = "NEW_CONN"
    BY <1>2 DEF handle_new_connection, TypeOK, ZeroedMemory
  <2> HIDE DEF s
  <2>4. /\ s # 0 /\ interest[s] = Absent
        /\ \A d \in alloc : /\ heap[d].sockfd # s
                            /\ Opened(d) => heap[d].fd # s
                            /\ Armed(d) => heap[d].eventfd # s
    BY <2>1, FreeIsUnused
  <2>5. aio[c].op = "none"
    BY <2>2 DEF RegistrationInv, BlockOK
  <2>6. /\ fdtab'[s] = Sock(k)
        /\ \A f \in Fd \ {s} : fdtab'[f] = fdtab[f] /\ interest'[f] = interest[f]
        /\ interest'[s] = [ev |-> {"IN"}, ptr |-> c]
    BY <2>1, <2>2 DEF TypeOK, w_epoll_add_ptr_in
  <2>7. \A d \in alloc : /\ d \in Conns \ {c} /\ heap'[d] = heap[d] /\ aio'[d] = aio[d]
                         /\ Armed(d)' = Armed(d) /\ Opened(d)' = Opened(d)
    BY <2>2, <2>3 DEF TypeOK, Armed, Opened
  <2>8. ~Armed(c)' /\ ~Opened(c)'
    BY <2>2, <2>3, <2>5 DEF Armed, Opened
  <2>9. ASSUME NEW d \in alloc' PROVE BlockOwns(d)'
    <3>1. CASE d = c
      <4>1. interest'[s] # Absent
        BY <2>6 DEF Absent
      <4>2. SocketOwned(c)' /\ FileOwned(c)'
        BY <2>2, <2>3, <2>5, <2>6, <2>8, <4>1, Kinds DEF SocketOwned, FileOwned
      <4>3. EventFdOwned(c)'
        BY <2>2, <2>3, <2>5, <2>8 DEF EventFdOwned
      <4> QED  BY <2>3, <3>1, <4>2, <4>3 DEF BlockOwns
    <3>2. CASE d # c
      <4>1. d \in alloc /\ BlockOwns(d)
        BY <2>2, <3>2 DEF OwnershipInv
      <4>2. heap[d].sockfd \in Fd /\ heap[d].eventfd \in Fd /\ heap[d].fd \in Fd
        BY <2>7, <4>1, Numbers
      <4> QED
        BY <2>4, <2>6, <2>7, <4>1, <4>2
           DEF BlockOwns, SocketOwned, FileOwned, EventFdOwned
    <3> QED  BY <3>1, <3>2
  <2>10. ASSUME NEW b \in alloc', NEW d \in alloc' PROVE Exclusive(b, d)'
    BY <2>2, <2>3, <2>4, <2>7, <2>8 DEF OwnershipInv, Exclusive
  <2>11. ASSUME NEW f \in Fd PROVE HasOwner(f)'
    <3>1. CASE f = s
      BY <2>2, <2>3, <2>6, <3>1, Kinds DEF HasOwner
    <3>2. CASE f # s
      BY <2>2, <2>6, <2>7, <3>2 DEF OwnershipInv, HasOwner
    <3> QED  BY <3>1, <3>2
  <2>12. \A j \in Clients : /\ client'[j].path = client[j].path
                            /\ j # k => client'[j] = client[j]
                            /\ j = k => client'[j].link = "open"
    BY <2>2 DEF TypeOK, Peers
  <2>13. ASSUME NEW f \in Fd, NEW g \in Fd PROVE OneSocket(f, g)'
    <3>1. \A h \in Fd : fdtab[h].kind = "sock" =>
            fdtab[h].of \in Clients /\ fdtab[h].of # k /\ OneSocket(h, h)
      BY <2>2, ObjectOwners DEF OwnershipInv, OneSocket, TypeOK
    <3> QED
      BY <2>6, <2>12, <3>1, Kinds DEF OwnershipInv, OneSocket
  <2>14. \A j \in Clients : client'[j].link # "none" => client'[j].path \in Paths
    BY <2>2, <2>12 DEF OwnershipInv
  <2>15. fdtab'[0] = Stdin /\ interest'[0] = Absent
    BY <2>4, <2>6, DescriptorsAssumption DEF OwnershipInv, Fd
  <2> QED
    BY <2>2, <2>9, <2>10, <2>11, <2>13, <2>14, <2>15
       DEF OwnershipInv, BlockedOnRealWork
<1> QED  BY <1>1, <1>2

(* An eventfd that was never made is number 0, which is not registered.    *)
LEMMA RequestOwnership ==
  ASSUME TypeOK, RegistrationInv, OwnershipInv,
         NEW c \in Conns, handle_client_request(c)
  PROVE  OwnershipInv'
<1> DEFINE s == heap[c].sockfd
           o == fdtab[s]
<1>1. /\ InEvent(c) /\ heap[c].state = "NEW_CONN" /\ waiting = None
  BY DEF handle_client_request, InLoop
<1>2. c \in alloc
  BY <1>1, InEventOwner
<1>3. s \in Fd /\ fdtab[s].kind = "sock" /\ heap[c].eventfd = 0
  BY <1>1, <1>2, Numbers
     DEF OwnershipInv, BlockOwns, SocketOwned, EventFdOwned, Opened
<1>4. o.of \in Clients /\ client[o.of].link \in {"open", "fin", "rst"}
  BY <1>3, ObjectOwners DEF OwnershipInv, OneSocket, TypeOK
<1>5. CASE Exit  BY <1>5, ExitOwnership
<1>6. CASE ReceiveFails(c) /\ ~Exit
  BY <1>3, <1>6 DEF ReceiveFails, RemoveUnread, CanCtl, OwnershipInv
<1>7. ASSUME NEW r, client' = [client EXCEPT ![o.of].req = r], NEW j \in Clients
      PROVE  client'[j].link = client[j].link /\ client'[j].path = client[j].path
  BY <1>4, <1>7 DEF TypeOK, Peers
<1>8. CASE ReceiveEof(c)
  <2>1. /\ UNCHANGED <<fdtab, interest, alloc, waiting, aio>>
        /\ heap' = [heap EXCEPT ![c].state = "CLOSED"]
        /\ \E r : client' = [client EXCEPT ![o.of].req = r]
    BY <1>8 DEF ReceiveEof, kernelVars
  <2>2. \A d \in Conns : /\ heap'[d].sockfd = heap[d].sockfd
                         /\ heap'[d].eventfd = heap[d].eventfd
                         /\ heap'[d].fd = heap[d].fd
                         /\ heap'[d].path = heap[d].path
                         /\ Opened(d)' = Opened(d)
                         /\ heap'[d].state = "DATA_RECEIVED" => heap[d].state = "DATA_RECEIVED"
    BY <1>1, <2>1 DEF TypeOK, Connections, Opened
  <2>3. \A j \in Clients : client'[j].link = client[j].link /\ client'[j].path = client[j].path
    BY <1>7, <2>1
  <2>4. \A j \in Clients : client[j].link # "none" => client[j].path \in Paths
    BY DEF OwnershipInv
  <2> QED  BY <2>1, <2>2, <2>3, <2>4, OwnershipFrame
<1>9. CASE ReceiveWhole(c) /\ ~Exit
  <2>1. /\ UNCHANGED <<fdtab, alloc, waiting, aio>>
        /\ heap' = [heap EXCEPT ![c].path = client[o.of].path,
                                ![c].state = "DATA_RECEIVED"]
        /\ client' = [client EXCEPT ![o.of].req = "read"]
        /\ interest' = w_epoll_update_ptr_inout(interest, s, c)
    BY <1>9 DEF ReceiveWhole
  <2>2. ASSUME NEW d \in Conns
        PROVE  /\ heap'[d].sockfd = heap[d].sockfd
               /\ heap'[d].eventfd = heap[d].eventfd
               /\ heap'[d].fd = heap[d].fd
               /\ Opened(d)' = Opened(d)
               /\ Armed(d)' = Armed(d)
               /\ d # c => heap'[d] = heap[d]
    <3>1. d # c => heap'[d] = heap[d]
      BY <2>1 DEF TypeOK
    <3>2. /\ heap'[c].sockfd = heap[c].sockfd
          /\ heap'[c].eventfd = heap[c].eventfd
          /\ heap'[c].fd = heap[c].fd
          /\ heap'[c].state = "DATA_RECEIVED"
      BY <2>1 DEF TypeOK, Connections
    <3>3. Armed(d)' = Armed(d)
      BY <2>1 DEF Armed
    <3>4. CASE d = c
      BY <1>1, <3>2, <3>3, <3>4 DEF Opened
    <3>5. CASE d # c
      BY <3>1, <3>3, <3>5 DEF Opened
    <3> QED  BY <3>4, <3>5
  <2>3. \A j \in Clients : client'[j].link = client[j].link /\ client'[j].path = client[j].path
    BY <1>7, <2>1
  <2>4. /\ heap'[c].path = client[o.of].path /\ heap'[c].path \in Paths
        /\ ~Opened(c)
    <3>1. heap'[c].path = client[o.of].path
      BY <2>1 DEF TypeOK, Connections
    <3>2. client[o.of].path \in Paths
      BY <1>4 DEF OwnershipInv
    <3>3. ~Opened(c)
      BY <1>1 DEF Opened
    <3> QED  BY <3>1, <3>2, <3>3
  <2>5. /\ \A f \in Fd \ {s} : interest'[f] = interest[f]
        /\ interest'[s] # Absent
        /\ s # 0
    BY <1>3, <2>1, Kinds DEF TypeOK, w_epoll_update_ptr_inout, Absent, OwnershipInv
  <2> HIDE DEF s, o
  <2>6. ASSUME NEW d \in alloc PROVE BlockOwns(d)'
    <3>1. BlockOwns(d) /\ d \in Conns
      BY DEF OwnershipInv, TypeOK
    <3>2. heap[d].sockfd \in Fd /\ heap[d].eventfd \in Fd
      BY <3>1, Numbers
    <3>3. Armed(d) => heap[d].eventfd # s
      BY <1>3, <3>1, Kinds DEF BlockOwns, EventFdOwned, s
    <3>4. SocketOwned(d)' /\ FileOwned(d)'
      BY <2>1, <2>2, <2>4, <2>5, <3>1, <3>2 DEF BlockOwns, SocketOwned, FileOwned
    <3>5. CASE d = c
      <4>1. aio[c].op = "none"
        BY <1>1 DEF RegistrationInv, BlockOK
      <4> QED
        BY <1>3, <2>1, <2>2, <2>4, <3>1, <3>4, <3>5, <4>1
           DEF BlockOwns, EventFdOwned, Armed
    <3>6. CASE d # c
      <4>1. heap[d].sockfd # s
        BY <1>2, <3>6 DEF OwnershipInv, Exclusive, s
      <4>2. heap'[d] = heap[d] /\ Armed(d)' = Armed(d) /\ Opened(d)' = Opened(d)
        BY <2>2, <3>1, <3>6
      <4>3. interest'[heap[d].sockfd] = interest[heap[d].sockfd]
        BY <2>5, <3>2, <4>1
      <4>4. Armed(d) => interest'[heap[d].eventfd] = interest[heap[d].eventfd]
        BY <2>5, <3>2, <3>3
      <4>5. EventFdOwned(d)'
        BY <2>1, <3>1, <4>2, <4>3, <4>4 DEF BlockOwns, EventFdOwned
      <4> QED  BY <3>1, <3>4, <4>2, <4>5 DEF BlockOwns
    <3> QED  BY <3>5, <3>6
  <2>7. ASSUME NEW b \in alloc, NEW d \in alloc PROVE Exclusive(b, d)'
    BY <2>2, <2>7 DEF OwnershipInv, Exclusive, TypeOK
  <2>8. ASSUME NEW f \in Fd PROVE HasOwner(f)'
    BY <2>1, <2>2 DEF OwnershipInv, HasOwner, TypeOK
  <2>9. ASSUME NEW f \in Fd, NEW g \in Fd PROVE OneSocket(f, g)'
    BY <2>1, <2>3, ObjectOwners DEF OwnershipInv, OneSocket, TypeOK
  <2> QED
    BY <2>1, <2>3, <2>5, <2>6, <2>7, <2>8, <2>9, DescriptorsAssumption
       DEF OwnershipInv, BlockedOnRealWork, Fd
<1> QED  BY <1>5, <1>6, <1>8, <1>9 DEF handle_client_request

(* open() gives the block a number that was free, in place of a 0.         *)
LEMMA PrepareOwnership ==
  ASSUME NothingMissing, TypeOK, RegistrationInv, OwnershipInv,
         NEW c \in Conns, InLoop, OutEvent(c), PrepareHeader(c), ~Exit
  PROVE  OwnershipInv'
<1> DEFINE p == heap[c].path
           t == LowestFree(fdtab)
           n == AsInt(size[p])
<1>1. c \in alloc /\ aio[c].op = "none"
  BY OutEventFacts
<1>2. heap[c].state = "DATA_RECEIVED" /\ ~Opened(c) /\ p \in Files
  <2>1. heap[c].state = "DATA_RECEIVED" /\ p \in Paths /\ p # Directory
    BY <1>1 DEF PrepareHeader, OwnershipInv, BlockOwns, HeaderReady, PrepareNotFound
  <2> QED  BY <2>1, ImonitorAssumption DEF NothingMissing, Opened
<1>3. /\ FreeFds(fdtab) # {}
      /\ HeaderReady(c, [heap[c] EXCEPT !.send_buffer = write_http200_header(p, n),
                                        !.file_dimension = n, !.fd = t],
                     [fdtab EXCEPT ![t] = File(p)])
  BY <1>2, ImonitorAssumption DEF PrepareHeader, PrepareFile
<1>4. t \in Fd /\ fdtab[t] = Free
  BY <1>3, LowestFreeIsFree
<1>5. /\ fdtab' = [fdtab EXCEPT ![t] = File(p)]
      /\ UNCHANGED <<interest, alloc, waiting, aio, client>>
      /\ \A d \in Conns \ {c} : heap'[d] = heap[d]
      /\ heap'[c].sockfd = heap[c].sockfd /\ heap'[c].eventfd = heap[c].eventfd
      /\ heap'[c].fd = t /\ heap'[c].path = p /\ heap'[c].state = "SENDING"
  BY <1>3 DEF HeaderReady, TypeOK, Connections, peerVars
<1> HIDE DEF t, n, p
<1>6. /\ t # 0 /\ interest[t] = Absent
      /\ \A d \in alloc : /\ heap[d].sockfd # t
                          /\ Opened(d) => heap[d].fd # t
                          /\ Armed(d) => heap[d].eventfd # t
  BY <1>4, FreeIsUnused
<1>7. fdtab'[t] = File(p) /\ \A f \in Fd \ {t} : fdtab'[f] = fdtab[f]
  BY <1>4, <1>5 DEF TypeOK
<1>8. \A d \in alloc : d \in Conns /\ Armed(d)' = Armed(d)
  BY <1>5 DEF Armed, TypeOK
<1>9. Opened(c)' /\ \A d \in alloc \ {c} : heap'[d] = heap[d] /\ Opened(d)' = Opened(d)
  BY <1>5, <1>8 DEF Opened
<1>10. ASSUME NEW d \in alloc PROVE BlockOwns(d)'
  <2>1. BlockOwns(d) /\ heap[d].sockfd \in Fd /\ heap[d].eventfd \in Fd /\ heap[d].fd \in Fd
    BY <1>8, Numbers DEF OwnershipInv
  <2>2. CASE d = c
    <3>1. SocketOwned(c)'
      BY <1>5, <1>6, <1>7, <2>1, <2>2 DEF BlockOwns, SocketOwned
    <3>2. FileOwned(c)'
      BY <1>1, <1>5, <1>7, <1>9 DEF FileOwned
    <3>3. EventFdOwned(c)'
      BY <1>1, <1>5, <1>9, <2>1, <2>2 DEF BlockOwns, EventFdOwned, Armed
    <3> QED  BY <1>5, <2>2, <3>1, <3>2, <3>3 DEF BlockOwns
  <2>3. CASE d # c
    <3>1. heap'[d] = heap[d] /\ Opened(d)' = Opened(d) /\ Armed(d)' = Armed(d)
      BY <1>8, <1>9, <2>3
    <3>2. SocketOwned(d)' /\ FileOwned(d)'
      BY <1>5, <1>6, <1>7, <2>1, <3>1 DEF BlockOwns, SocketOwned, FileOwned
    <3>3. EventFdOwned(d)'
      BY <1>5, <1>6, <1>7, <2>1, <3>1 DEF BlockOwns, EventFdOwned
    <3> QED  BY <2>1, <3>1, <3>2, <3>3 DEF BlockOwns
  <2> QED  BY <2>2, <2>3
<1>11. ASSUME NEW b \in alloc, NEW d \in alloc PROVE Exclusive(b, d)'
  BY <1>5, <1>6, <1>8, <1>9 DEF OwnershipInv, Exclusive
<1>12. ASSUME NEW f \in Fd PROVE HasOwner(f)'
  <2>1. CASE f = t
    BY <1>1, <1>5, <1>7, <1>9, <2>1, Kinds DEF HasOwner
  <2>2. CASE f # t
    <3>1. HasOwner(f) /\ fdtab'[f] = fdtab[f]
      BY <1>7, <2>2 DEF OwnershipInv
    <3>2. \A d \in alloc : /\ heap'[d].sockfd = heap[d].sockfd
                           /\ heap'[d].eventfd = heap[d].eventfd
                           /\ Opened(d) => Opened(d)' /\ heap'[d].fd = heap[d].fd
      BY <1>2, <1>5, <1>9
    <3> QED  BY <1>5, <1>8, <3>1, <3>2 DEF HasOwner
  <2> QED  BY <2>1, <2>2
<1>13. ASSUME NEW f \in Fd, NEW g \in Fd PROVE OneSocket(f, g)'
  BY <1>5, <1>7, Kinds DEF OwnershipInv, OneSocket
<1> QED
  BY <1>5, <1>6, <1>7, <1>10, <1>11, <1>12, <1>13, DescriptorsAssumption
     DEF OwnershipInv, BlockedOnRealWork, Fd

(* The new eventfd takes a free number in place of one that is closed.     *)
LEMMA SubmitOwnership ==
  ASSUME TypeOK, RegistrationInv, OwnershipInv,
         NEW c \in Conns, InLoop, OutEvent(c), Opened(c),
         NEW d \in Fd, NEW op \in {"read", "header", "data"},
         NEW lo, NEW len, NEW block \in Connections,
         d = IF op = "read" THEN heap[c].fd ELSE heap[c].sockfd,
         block.sockfd = heap[c].sockfd, block.fd = heap[c].fd,
         block.path = heap[c].path, block.state = heap[c].state,
         Submit(c, d, op, lo, len, block), ~Exit
  PROVE  OwnershipInv'
<1> DEFINE s == heap[c].sockfd
           e == LowestFree(fdtab)
           armed == w_epoll_add_ptr_eventfd(interest, e, c)
<1>1. c \in alloc /\ aio[c].op = "none" /\ waiting = None /\ waiting # c
  BY OutEventFacts, DescriptorsAssumption DEF InLoop
<1>2. e \in Fd /\ fdtab[e] = Free /\ s \in Fd
  BY LowestFreeIsFree, Numbers DEF Submit
<1>3. /\ fdtab' = [fdtab EXCEPT ![e] = EventFd(c)]
      /\ interest' = w_epoll_update_ptr_in(armed, s, c)
      /\ aio' = [aio EXCEPT ![c] = Operation(op, fdtab'[d], lo, len)]
      /\ heap' = [heap EXCEPT ![c] = [block EXCEPT !.eventfd = e]]
      /\ UNCHANGED <<alloc, waiting, client>>
  BY DEF Submit, peerVars
<1>4. /\ \A b \in Conns \ {c} : heap'[b] = heap[b] /\ aio'[b] = aio[b]
      /\ aio'[c].op = op /\ aio'[c].obj = fdtab'[d]
      /\ heap'[c].sockfd = s /\ heap'[c].eventfd = e
      /\ heap'[c].fd = heap[c].fd /\ heap'[c].path = heap[c].path
      /\ heap'[c].state = heap[c].state
  BY <1>3 DEF TypeOK, Connections, Operation
<1> HIDE DEF e
<1>5. /\ e # 0
      /\ \A b \in alloc : /\ heap[b].sockfd # e
                          /\ Opened(b) => heap[b].fd # e
                          /\ Armed(b) => heap[b].eventfd # e
  BY <1>2, FreeIsUnused
<1>6. /\ \A f \in Fd \ {e, s} : interest'[f] = interest[f]
      /\ interest'[e] = [ev |-> {"IN"}, ptr |-> c]
      /\ interest'[s] = [ev |-> {"IN"}, ptr |-> c]
      /\ interest'[e] # Absent /\ interest'[s] # Absent
  BY <1>2, <1>3 DEF TypeOK, w_epoll_update_ptr_in, w_epoll_add_ptr_eventfd, Absent
<1> HIDE DEF s, armed
<1>7. fdtab'[e] = EventFd(c) /\ \A f \in Fd \ {e} : fdtab'[f] = fdtab[f]
  BY <1>2, <1>3 DEF TypeOK
<1>8. /\ Armed(c)' /\ ~Armed(c) /\ Opened(c)'
      /\ \A b \in alloc \ {c} : /\ b \in Conns /\ heap'[b] = heap[b] /\ aio'[b] = aio[b]
                                /\ Armed(b)' = Armed(b) /\ Opened(b)' = Opened(b)
  BY <1>1, <1>3, <1>4 DEF Armed, Opened, TypeOK
<1>9. ASSUME NEW b \in alloc PROVE BlockOwns(b)'
  <2>1. /\ BlockOwns(b) /\ b \in Conns
        /\ heap[b].sockfd \in Fd /\ heap[b].eventfd \in Fd /\ heap[b].fd \in Fd
    BY Numbers DEF OwnershipInv, TypeOK
  <2>2. heap'[b].sockfd = heap[b].sockfd /\ heap'[b].fd = heap[b].fd
        /\ heap'[b].path = heap[b].path /\ Opened(b)' = Opened(b)
    <3>1. CASE b = c  BY <1>4, <3>1 DEF s, Opened
    <3>2. CASE b # c  BY <1>8, <3>2
    <3> QED  BY <3>1, <3>2
  <2>3. fdtab'[heap[b].sockfd] = fdtab[heap[b].sockfd]
        /\ (Opened(b) => fdtab'[heap[b].fd] = fdtab[heap[b].fd])
    BY <1>5, <1>7, <2>1
  <2>4. SocketOwned(b)'
    <3>1. fdtab'[heap[b].sockfd].kind = "sock" /\ interest'[heap[b].sockfd] # Absent
      BY <1>6, <1>5, <2>1, <2>3 DEF BlockOwns, SocketOwned
    <3>2. CASE b = c  BY <1>4, <2>2, <3>1, <3>2 DEF SocketOwned, s
    <3>3. CASE b # c  BY <1>4, <2>1, <2>2, <2>3, <3>1, <3>3 DEF BlockOwns, SocketOwned
    <3> QED  BY <3>2, <3>3
  <2>5. FileOwned(b)'
    <3>1. CASE b = c  BY <1>4, <1>8, <2>1, <2>2, <2>3, <3>1 DEF BlockOwns, FileOwned
    <3>2. CASE b # c  BY <1>4, <2>1, <2>2, <2>3, <3>2 DEF BlockOwns, FileOwned
    <3> QED  BY <3>1, <3>2
  <2>6. CASE b = c
    <3>1. EventFdOwned(c)'
      BY <1>4, <1>5, <1>6, <1>7, <1>8 DEF EventFdOwned
    <3> QED  BY <1>4, <2>4, <2>5, <2>6, <3>1 DEF BlockOwns, Opened
  <2>7. CASE b # c
    <3>1. heap[b].sockfd \notin {e, s} /\ (Armed(b) => heap[b].eventfd \notin {e, s})
      <4>1. heap[b].sockfd # s
        BY <1>1, <2>7 DEF OwnershipInv, Exclusive, s
      <4>2. fdtab[s].kind = "sock"
        BY <1>1 DEF OwnershipInv, BlockOwns, SocketOwned, s
      <4>3. Armed(b) => heap[b].eventfd # s
        BY <2>1, <4>2, Kinds DEF BlockOwns, EventFdOwned
      <4> QED  BY <1>5, <4>1, <4>3
    <3>2. EventFdOwned(b)'
      BY <1>6, <1>7, <1>8, <2>1, <2>7, <3>1 DEF BlockOwns, EventFdOwned
    <3> QED  BY <1>8, <2>1, <2>4, <2>5, <2>7, <3>2 DEF BlockOwns
  <2> QED  BY <2>6, <2>7
<1>10. ASSUME NEW a \in alloc, NEW b \in alloc PROVE Exclusive(a, b)'
  BY <1>4, <1>8 DEF OwnershipInv, Exclusive, s
<1>11. ASSUME NEW f \in Fd PROVE HasOwner(f)'
  <2>1. CASE f = e
    BY <1>1, <1>3, <1>4, <1>7, <1>8, <2>1, Kinds DEF HasOwner
  <2>2. CASE f # e
    <3>1. HasOwner(f) /\ fdtab'[f] = fdtab[f]
      BY <1>7, <2>2 DEF OwnershipInv
    <3>2. \A b \in alloc : /\ heap'[b].sockfd = heap[b].sockfd
                           /\ heap'[b].fd = heap[b].fd
                           /\ Opened(b) => Opened(b)'
                           /\ Armed(b) => Armed(b)' /\ heap'[b].eventfd = heap[b].eventfd
      BY <1>4, <1>8 DEF s
    <3> QED  BY <1>3, <3>1, <3>2 DEF HasOwner
  <2> QED  BY <2>1, <2>2
<1>12. ASSUME NEW f \in Fd, NEW g \in Fd PROVE OneSocket(f, g)'
  BY <1>3, <1>7, Kinds DEF OwnershipInv, OneSocket
<1>13. fdtab'[0] = Stdin /\ interest'[0] = Absent
  <2>1. s # 0
    BY <1>1, Kinds DEF OwnershipInv, BlockOwns, SocketOwned, s
  <2> QED  BY <1>5, <1>6, <1>7, <2>1, DescriptorsAssumption DEF OwnershipInv, Fd
<1> QED
  BY <1>1, <1>3, <1>9, <1>10, <1>11, <1>12, <1>13
     DEF OwnershipInv, BlockedOnRealWork

LEMMA WorkOwnership ==
  ASSUME NothingMissing, TypeOK, RegistrationInv, OwnershipInv,
         NEW c \in Conns, handle_work(c)
  PROVE  OwnershipInv'
<1>1. CASE Exit  BY <1>1, ExitOwnership
<1>2. heap[c] \in Connections /\ InLoop /\ OutEvent(c)
  BY Numbers DEF handle_work
<1>3. CASE PrepareHeader(c) /\ ~Exit
  BY <1>2, <1>3, PrepareOwnership
<1>4. CASE read_data(c) /\ ~Exit
  BY <1>2, <1>4, Numbers, SubmitOwnership DEF read_data, Opened
<1>5. CASE send_data(c) /\ ~Exit
  <2> DEFINE block == [heap[c] EXCEPT !.is_header = FALSE]
  <2>1. /\ block \in Connections
        /\ block.sockfd = heap[c].sockfd /\ block.fd = heap[c].fd
        /\ block.path = heap[c].path /\ block.state = heap[c].state
    BY <1>2 DEF Connections
  <2> HIDE DEF block
  <2>2. CASE heap[c].is_header
    <3>1. Submit(c, heap[c].sockfd, "header", 0, 1, block)
      BY <1>5, <2>2 DEF send_data, block
    <3> QED  BY <1>2, <1>5, <2>1, <3>1, Numbers, SubmitOwnership DEF send_data, Opened
  <2>3. CASE ~heap[c].is_header
    BY <1>2, <1>5, <2>3, Numbers, SubmitOwnership DEF send_data, Opened
  <2> QED  BY <2>2, <2>3
<1> QED  BY <1>1, <1>3, <1>4, <1>5 DEF handle_work

LEMMA CloseForget ==
  ASSUME TypeOK, NEW fds
  PROVE  \A f \in Fd :
           /\ Close(fdtab, fds)[f] = IF f \in fds THEN Free ELSE fdtab[f]
           /\ Forget(interest, fds)[f] = IF f \in fds THEN Absent ELSE interest[f]
BY DEF Close, Forget

(* handle_work_done() closes the eventfd of its own connection.            *)
LEMMA AwaitOwnership ==
  ASSUME TypeOK, RegistrationInv, OwnershipInv, NEW c \in Conns, AwaitWork(c)
  PROVE  OwnershipInv'
<1>1. CASE ~CanCtl(fdtab, interest, heap[c].eventfd)
  BY <1>1, ExitOwnership DEF AwaitWork
<1>2. CASE CanCtl(fdtab, interest, heap[c].eventfd)
  <2> DEFINE e == heap[c].eventfd
  <2>1. e \in Fd /\ c \in alloc /\ Armed(c) /\ fdtab[e] = EventFd(c)
    BY <1>2, AwaitOwner, Numbers
  <2>2. /\ fdtab' = Close(fdtab, {e})
        /\ interest' = Forget(interest, {e})
        /\ waiting = None /\ waiting' = c
        /\ UNCHANGED <<aio, alloc, heap, client>>
    BY <1>2 DEF AwaitWork, InLoop
  <2>3. /\ \A f \in Fd \ {e} : fdtab'[f] = fdtab[f] /\ interest'[f] = interest[f]
        /\ fdtab'[e] = Free
    BY <2>1, <2>2, CloseForget
  <2> HIDE DEF e
  <2>4. ~Armed(c)' /\ \A d \in Conns : /\ Opened(d)' = Opened(d)
                                       /\ d # c => Armed(d)' = Armed(d)
    BY <2>2, DescriptorsAssumption DEF Armed, Opened
  <2>5. \A d \in alloc : /\ d \in Conns
                         /\ heap[d].sockfd \in Fd \ {e}
                         /\ Opened(d) => heap[d].fd \in Fd \ {e}
                         /\ d # c /\ Armed(d) => heap[d].eventfd \in Fd \ {e}
    BY <2>1, Numbers, Kinds
       DEF TypeOK, OwnershipInv, BlockOwns, SocketOwned, FileOwned, EventFdOwned
  <2>6. ASSUME NEW d \in alloc PROVE BlockOwns(d)'
    <3>1. BlockOwns(d)
      BY DEF OwnershipInv
    <3>2. SocketOwned(d)' /\ FileOwned(d)'
      BY <2>2, <2>3, <2>4, <2>5, <3>1 DEF BlockOwns, SocketOwned, FileOwned
    <3>3. EventFdOwned(d)'
      BY <2>2, <2>3, <2>4, <2>5, <3>1 DEF BlockOwns, EventFdOwned
    <3> QED  BY <2>2, <3>1, <3>2, <3>3 DEF BlockOwns
  <2>7. ASSUME NEW b \in alloc, NEW d \in alloc PROVE Exclusive(b, d)'
    BY <2>2, <2>4, <2>5 DEF OwnershipInv, Exclusive
  <2>8. ASSUME NEW f \in Fd PROVE HasOwner(f)'
    <3>1. CASE f = e
      BY <2>3, <3>1, Kinds DEF HasOwner
    <3>2. CASE f # e
      <4>1. HasOwner(f) /\ fdtab'[f] = fdtab[f]
        BY <2>3, <3>2 DEF OwnershipInv
      <4>2. fdtab[f].kind = "evfd" => fdtab[f].of # c
        BY <3>2, <4>1 DEF HasOwner, e
      <4> QED  BY <2>2, <2>4, <2>5, <4>1, <4>2 DEF HasOwner
    <3> QED  BY <3>1, <3>2
  <2>9. ASSUME NEW f \in Fd, NEW g \in Fd PROVE OneSocket(f, g)'
    <3>1. CASE f = e
      BY <2>3, <3>1, Kinds DEF OneSocket
    <3>2. CASE f # e
      <4>1. OneSocket(f, g) /\ fdtab'[f] = fdtab[f] /\ fdtab'[g] \in {Free, fdtab[g]}
        BY <2>3, <3>2 DEF OwnershipInv
      <4> QED  BY <2>2, <4>1, Kinds DEF OneSocket
    <3> QED  BY <3>1, <3>2
  <2>10. aio[c].op # "none" /\ e # 0
    BY <2>1, Kinds DEF Armed, OwnershipInv
  <2>11. fdtab'[0] = Stdin /\ interest'[0] = Absent
    BY <2>3, <2>10, DescriptorsAssumption DEF OwnershipInv, Fd
  <2>12. BlockedOnRealWork'
    BY <2>2, <2>10 DEF BlockedOnRealWork
  <2> QED
    BY <2>2, <2>6, <2>7, <2>8, <2>9, <2>11, <2>12 DEF OwnershipInv
<1> QED  BY <1>1, <1>2

(* connection_remove() closes the block's own two numbers and no others.   *)
LEMMA RemoveOwnership ==
  ASSUME TypeOK, RegistrationInv, OwnershipInv, NEW c \in Conns,
         waiting = c, Opened(c), waiting' = None,
         aio' = [aio EXCEPT ![c] = Idle], client' = client,
         connection_remove(c, fdtab, w_epoll_remove_ptr(interest, heap[c].sockfd))
  PROVE  OwnershipInv'
<1> DEFINE s == heap[c].sockfd
           t == heap[c].fd
           fds == {t, s}
<1>1. c \in alloc /\ s \in Fd /\ t \in Fd
  BY Numbers, DescriptorsAssumption DEF RegistrationInv
<1>2. /\ fdtab' = Close(fdtab, fds)
      /\ interest' = Forget(w_epoll_remove_ptr(interest, s), fds)
      /\ heap' = [heap EXCEPT ![c] = FreedBlock]
      /\ alloc' = alloc \ {c}
  BY DEF connection_remove
<1>3. \A f \in Fd : /\ f \in fds => fdtab'[f] = Free /\ interest'[f] = Absent
                    /\ f \notin fds => fdtab'[f] = fdtab[f] /\ interest'[f] = interest[f]
  BY <1>1, <1>2 DEF Close, Forget, w_epoll_remove_ptr, TypeOK
<1>4. /\ fdtab[s].kind = "sock" /\ fdtab[t].kind = "file"
      /\ ~Armed(c)
  BY <1>1, Kinds DEF OwnershipInv, BlockOwns, SocketOwned, FileOwned, Armed
<1>5. \A d \in alloc' : /\ d \in Conns /\ d \in alloc /\ d # c
                        /\ heap'[d] = heap[d] /\ aio'[d] = aio[d]
                        /\ Opened(d)' = Opened(d) /\ Armed(d)' = Armed(d)
  <2>1. \A d \in alloc' : d \in Conns /\ d \in alloc /\ d # c /\ d # None
    BY <1>2, DescriptorsAssumption DEF TypeOK
  <2>2. \A d \in alloc' : heap'[d] = heap[d] /\ aio'[d] = aio[d]
    BY <1>2, <2>1 DEF TypeOK
  <2> QED  BY <2>1, <2>2 DEF Opened, Armed
<1> HIDE DEF s, t
<1>6. ASSUME NEW d \in alloc'
      PROVE  /\ BlockOwns(d)
             /\ heap[d].sockfd \in Fd \ fds
             /\ Opened(d) => heap[d].fd \in Fd \ fds
             /\ Armed(d) => heap[d].eventfd \in Fd \ fds
  <2>1. d \in alloc /\ d # c
    BY <1>5
  <2>2. BlockOwns(d) /\ Exclusive(c, d)
    BY <1>1, <2>1 DEF OwnershipInv
  <2>3. heap[d].sockfd \in Fd /\ heap[d].fd \in Fd /\ heap[d].eventfd \in Fd
    BY <1>5, Numbers
  <2>4. heap[d].sockfd # s /\ (Opened(d) => heap[d].fd # t)
    BY <2>1, <2>2 DEF Exclusive, s, t
  <2> QED
    BY <1>4, <2>3, <2>4, <2>2, Kinds
       DEF BlockOwns, SocketOwned, FileOwned, EventFdOwned
<1>7. ASSUME NEW d \in alloc' PROVE BlockOwns(d)'
  <2>1. SocketOwned(d)' /\ FileOwned(d)'
    BY <1>3, <1>5, <1>6 DEF BlockOwns, SocketOwned, FileOwned
  <2>2. EventFdOwned(d)'
    BY <1>3, <1>5, <1>6 DEF BlockOwns, EventFdOwned
  <2> QED  BY <1>5, <1>6, <2>1, <2>2 DEF BlockOwns
<1>8. ASSUME NEW b \in alloc', NEW d \in alloc' PROVE Exclusive(b, d)'
  BY <1>5 DEF OwnershipInv, Exclusive
<1>9. ASSUME NEW f \in Fd PROVE HasOwner(f)'
  <2>1. CASE f \in fds
    BY <1>3, <2>1, Kinds DEF HasOwner
  <2>2. CASE f \notin fds
    <3>1. HasOwner(f) /\ fdtab'[f] = fdtab[f]
      BY <1>3, <2>2 DEF OwnershipInv
    <3>2. f # s /\ f # t
      BY <2>2
    <3>3. \A d \in alloc : d # c => d \in alloc'
      BY <1>2
    <3>4. fdtab[f].kind = "sock" => \E d \in alloc' : heap'[d].sockfd = f
      BY <1>5, <3>1, <3>2, <3>3 DEF HasOwner, s
    <3>5. fdtab[f].kind = "file" => \E d \in alloc' : Opened(d)' /\ heap'[d].fd = f
      BY <1>5, <3>1, <3>2, <3>3 DEF HasOwner, t
    <3>6. fdtab[f].kind = "evfd" =>
            LET d == fdtab[f].of
            IN  d \in alloc' /\ Armed(d)' /\ heap'[d].eventfd = f
      BY <1>4, <1>5, <3>1, <3>3 DEF HasOwner
    <3> QED  BY <3>1, <3>4, <3>5, <3>6 DEF HasOwner
  <2> QED  BY <2>1, <2>2
<1>10. ASSUME NEW f \in Fd, NEW g \in Fd PROVE OneSocket(f, g)'
  BY <1>3, Kinds DEF OwnershipInv, OneSocket
<1>11. fdtab'[0] = Stdin /\ interest'[0] = Absent
  BY <1>3, <1>4, Kinds, DescriptorsAssumption DEF OwnershipInv, Fd
<1> QED
  BY <1>7, <1>8, <1>9, <1>10, <1>11 DEF OwnershipInv, BlockedOnRealWork

LEMMA DoneOwnership ==
  ASSUME TypeOK, RegistrationInv, OwnershipInv, NEW c \in Conns, handle_work_done(c)
  PROVE  OwnershipInv'
<1>1. CASE Exit  BY <1>1, ExitOwnership
<1>2. CASE ~Exit
  <2> DEFINE s == heap[c].sockfd
  <2>1. /\ waiting = c /\ waiting' = None
        /\ aio' = [aio EXCEPT ![c] = Idle]
        /\ UNCHANGED client
        /\ Opened(c) /\ s \in Fd
    BY <1>2, Numbers DEF handle_work_done, Opened
  <2>2. c \in alloc /\ ~Armed(c) /\ fdtab[s].kind = "sock"
    BY <2>1, DescriptorsAssumption
       DEF RegistrationInv, Armed, OwnershipInv, BlockOwns, SocketOwned
  <2>3. CASE connection_remove(c, fdtab, w_epoll_remove_ptr(interest, s))
    BY <2>1, <2>3, RemoveOwnership
  <2>4. CASE /\ interest' = w_epoll_update_ptr_out(interest, s, c)
             /\ UNCHANGED <<fdtab, alloc>>
             /\ heap'[c].sockfd = s /\ heap'[c].fd = heap[c].fd
             /\ heap'[c].eventfd = heap[c].eventfd /\ heap'[c].path = heap[c].path
             /\ heap'[c].state \in {"SENDING", "READING"}
             /\ \A d \in Conns \ {c} : heap'[d] = heap[d]
    <3>1. /\ \A f \in Fd \ {s} : interest'[f] = interest[f]
          /\ "IN" \notin interest'[s].ev
          /\ interest'[s] # Absent
      BY <2>1, <2>4 DEF TypeOK, w_epoll_update_ptr_out, Absent
    <3>2. /\ aio'[c].op = "none"
          /\ \A d \in alloc : /\ d \in Conns
                              /\ heap'[d].sockfd = heap[d].sockfd /\ heap'[d].fd = heap[d].fd
                              /\ heap'[d].eventfd = heap[d].eventfd
                              /\ heap'[d].path = heap[d].path
                              /\ d # c => aio'[d] = aio[d] /\ heap'[d] = heap[d]
      BY <2>1, <2>4 DEF TypeOK, Idle
    <3>3. \A d \in alloc : Opened(d)' = Opened(d) /\ Armed(d)' = Armed(d)
      <4>1. Opened(c)' = Opened(c) /\ Armed(c)' = Armed(c)
        BY <2>1, <2>2, <2>4, <3>2 DEF Opened, Armed
      <4>2. ASSUME NEW d \in alloc, d # c
            PROVE  Opened(d)' = Opened(d) /\ Armed(d)' = Armed(d)
        BY <2>1, <3>2, <4>2, DescriptorsAssumption DEF Opened, Armed
      <4> QED  BY <4>1, <4>2
    <3> HIDE DEF s
    <3>4. ASSUME NEW d \in alloc PROVE BlockOwns(d)'
      <4>1. /\ BlockOwns(d)
            /\ heap[d].sockfd \in Fd /\ heap[d].fd \in Fd /\ heap[d].eventfd \in Fd
        BY <3>2, Numbers DEF OwnershipInv
      <4>2. Armed(d) => heap[d].eventfd # s
        BY <2>2, <4>1, Kinds DEF BlockOwns, EventFdOwned
      <4>3. SocketOwned(d)' /\ FileOwned(d)'
        BY <2>4, <3>1, <3>2, <3>3, <4>1 DEF BlockOwns, SocketOwned, FileOwned
      <4>4. CASE d = c
        <5>1. EventFdOwned(c)'
          BY <2>1, <2>2, <2>4, <3>1, <3>2, <3>3 DEF EventFdOwned
        <5> QED  BY <2>4, <4>3, <4>4, <5>1 DEF BlockOwns
      <4>5. CASE d # c
        <5>1. heap[d].sockfd # s
          BY <2>2, <4>5 DEF OwnershipInv, Exclusive, s
        <5>2. EventFdOwned(d)'
          BY <2>4, <3>1, <3>2, <3>3, <4>1, <4>2, <4>5, <5>1 DEF BlockOwns, EventFdOwned
        <5> QED  BY <3>2, <4>1, <4>3, <4>5, <5>2 DEF BlockOwns
      <4> QED  BY <4>4, <4>5
    <3>5. ASSUME NEW b \in alloc, NEW d \in alloc PROVE Exclusive(b, d)'
      BY <3>2, <3>3 DEF OwnershipInv, Exclusive
    <3>6. ASSUME NEW f \in Fd PROVE HasOwner(f)'
      BY <2>4, <3>2, <3>3 DEF OwnershipInv, HasOwner
    <3>7. ASSUME NEW f \in Fd, NEW g \in Fd PROVE OneSocket(f, g)'
      BY <2>1, <2>4 DEF OwnershipInv, OneSocket
    <3>8. s # 0
      BY <2>2, Kinds DEF OwnershipInv
    <3> QED
      BY <2>1, <2>4, <3>1, <3>4, <3>5, <3>6, <3>7, <3>8, DescriptorsAssumption
         DEF OwnershipInv, BlockedOnRealWork, Fd
  <2>5. CASE /\ heap' = [heap EXCEPT ![c].send_len = @ + aio[c].res,
                                     ![c].read_data = aio[c].res,
                                     ![c].state = "SENDING"]
             /\ interest' = w_epoll_update_ptr_out(interest, s, c)
             /\ UNCHANGED <<fdtab, alloc, stream>>
    BY <2>4, <2>5 DEF TypeOK, Connections
  <2>6. CASE /\ heap' = [heap EXCEPT ![c].state = "READING"]
             /\ interest' = w_epoll_update_ptr_out(interest, s, c)
             /\ UNCHANGED <<fdtab, alloc, stream>>
    BY <2>4, <2>6 DEF TypeOK, Connections
  <2> QED  BY <1>2, <2>3, <2>5, <2>6 DEF handle_work_done
<1> QED  BY <1>1, <1>2

LEMMA LoginOwnership ==
  ASSUME TypeOK, OwnershipInv, Login
  PROVE  OwnershipInv'
BY OwnershipFrame DEF Login, kernelVars, peerVars, Opened, OwnershipInv

(* The descriptor left open on wtmp has no owner and needs none.           *)
LEMMA LogEntryOwnership ==
  ASSUME TypeOK, RegistrationInv, OwnershipInv, NewLogEntry
  PROVE  OwnershipInv'
<1>1. CASE Exit  BY <1>1, ExitOwnership
<1>2. CASE ~Exit
  <2> DEFINE t == LowestFree(fdtab)
  <2>1. /\ t \in Fd /\ fdtab[t] = Free
        /\ fdtab' = [fdtab EXCEPT ![t] = Wtmp]
        /\ UNCHANGED <<waiting, interest, aio, alloc, heap, client>>
    BY <1>2, LowestFreeIsFree DEF NewLogEntry, peerVars
  <2> HIDE DEF t
  <2>2. /\ t # 0
        /\ \A d \in alloc : /\ heap[d].sockfd # t
                            /\ Opened(d) => heap[d].fd # t
                            /\ Armed(d) => heap[d].eventfd # t
    BY <2>1, FreeIsUnused
  <2>3. fdtab'[t] = Wtmp /\ \A f \in Fd \ {t} : fdtab'[f] = fdtab[f]
    BY <2>1 DEF TypeOK
  <2>4. \A d \in alloc : d \in Conns /\ Opened(d)' = Opened(d) /\ Armed(d)' = Armed(d)
    BY <2>1 DEF Opened, Armed, TypeOK
  <2>5. ASSUME NEW d \in alloc PROVE BlockOwns(d)'
    <3>1. BlockOwns(d) /\ heap[d].sockfd \in Fd /\ heap[d].fd \in Fd /\ heap[d].eventfd \in Fd
      BY <2>4, Numbers DEF OwnershipInv
    <3>2. SocketOwned(d)' /\ FileOwned(d)'
      BY <2>1, <2>2, <2>3, <2>4, <3>1 DEF BlockOwns, SocketOwned, FileOwned
    <3>3. EventFdOwned(d)'
      BY <2>1, <2>2, <2>3, <2>4, <3>1 DEF BlockOwns, EventFdOwned
    <3> QED  BY <2>1, <3>1, <3>2, <3>3 DEF BlockOwns
  <2>6. ASSUME NEW b \in alloc, NEW d \in alloc PROVE Exclusive(b, d)'
    BY <2>1, <2>4 DEF OwnershipInv, Exclusive
  <2>7. ASSUME NEW f \in Fd PROVE HasOwner(f)'
    <3>1. CASE f = t
      BY <2>3, <3>1, Kinds DEF HasOwner
    <3>2. CASE f # t
      BY <2>1, <2>3, <2>4, <3>2 DEF OwnershipInv, HasOwner
    <3> QED  BY <3>1, <3>2
  <2>8. ASSUME NEW f \in Fd, NEW g \in Fd PROVE OneSocket(f, g)'
    BY <2>1, <2>3, Kinds DEF OwnershipInv, OneSocket
  <2>9. fdtab'[0] = Stdin /\ interest'[0] = Absent
    BY <2>1, <2>2, <2>3, DescriptorsAssumption DEF OwnershipInv, Fd
  <2> QED
    BY <2>1, <2>5, <2>6, <2>7, <2>8, <2>9 DEF OwnershipInv, BlockedOnRealWork
<1> QED  BY <1>1, <1>2

LEMMA OwnershipStep ==
  ASSUME ZeroedMemory, NothingMissing
  PROVE  TypeOK /\ RegistrationInv /\ OwnershipInv /\ [Next]_vars => OwnershipInv'
<1> SUFFICES ASSUME TypeOK, RegistrationInv, OwnershipInv, [Next]_vars
             PROVE  OwnershipInv'
  OBVIOUS
<1>1. ASSUME NEW k \in Clients, ClientNext(k) PROVE OwnershipInv'
  BY <1>1, ClientOwnership
<1>2. ASSUME NEW c \in Conns, KernelNext(c) PROVE OwnershipInv'
  BY <1>2, KernelOwnership
<1>3. ASSUME NEW c \in Conns, ServerNext(c) PROVE OwnershipInv'
  BY <1>3, AcceptOwnership, RequestOwnership, WorkOwnership, AwaitOwnership,
     DoneOwnership DEF ServerNext
<1>4. CASE Login  BY <1>4, LoginOwnership
<1>5. CASE NewLogEntry  BY <1>5, LogEntryOwnership
<1>6. CASE UNCHANGED vars
  <2>1. \A k \in Clients : client[k].link # "none" => client[k].path \in Paths
    BY DEF OwnershipInv
  <2> QED  BY <1>6, <2>1, OwnershipFrame DEF vars, kernelVars, peerVars, Opened
<1> QED  BY <1>1, <1>2, <1>3, <1>4, <1>5, <1>6 DEF Next

-----------------------------------------------------------------------------
(* What a step leaves alone.                                               *)

(* The client of a block: accepted, with a path, and nobody else's.        *)
LEMMA PeerFacts ==
  ASSUME TypeOK, OwnershipInv, NEW c \in alloc
  PROVE  /\ c \in Conns /\ heap[c].sockfd \in Fd
         /\ Peer(c) \in Clients
         /\ fdtab[heap[c].sockfd] = Sock(Peer(c))
         /\ client[Peer(c)].link \in {"open", "fin", "rst"}
         /\ client[Peer(c)].path \in Paths
         /\ \A d \in alloc : Peer(d) = Peer(c) => d = c
<1>1. ASSUME NEW d \in alloc
      PROVE  /\ d \in Conns /\ heap[d].sockfd \in Fd
             /\ Peer(d) \in Clients
             /\ fdtab[heap[d].sockfd] = Sock(Peer(d))
             /\ fdtab[heap[d].sockfd].kind = "sock"
  <2>1. d \in Conns /\ heap[d].sockfd \in Fd
    BY Numbers DEF TypeOK
  <2>2. fdtab[heap[d].sockfd] \in Objects /\ fdtab[heap[d].sockfd].kind = "sock"
    BY <2>1 DEF TypeOK, OwnershipInv, BlockOwns, SocketOwned
  <2> QED  BY <2>1, <2>2, SockIs DEF Peer
<1>2. client[Peer(c)].link \in {"open", "fin", "rst"}
  BY <1>1 DEF OwnershipInv, OneSocket, Peer
<1>3. client[Peer(c)].path \in Paths
  BY <1>1, <1>2 DEF OwnershipInv
<1>4. ASSUME NEW d \in alloc, Peer(d) = Peer(c) PROVE d = c
  <2>1. heap[d].sockfd = heap[c].sockfd
    BY <1>1, <1>4 DEF OwnershipInv, OneSocket
  <2> QED  BY <2>1 DEF OwnershipInv, Exclusive
<1> QED  BY <1>1, <1>2, <1>3, <1>4

(* No step puts one object in the place of another without a close between, *)
(* only accept() makes a socket, and only a login leaves wtmp open.        *)
LEMMA TableSteps ==
  ASSUME TypeOK, [Next]_vars, NEW f \in Fd
  PROVE  \/ fdtab'[f] = fdtab[f]
         \/ fdtab'[f] = Free
         \/ /\ fdtab[f] = Free
            /\ \A k \in Clients : fdtab'[f] = Sock(k) => client[k].link = "backlog"
            /\ fdtab'[f] = Wtmp => NewLogEntry
<1> DEFINE Changes(t) == \/ t[f] = fdtab[f]
                         \/ t[f] = Free
                         \/ /\ fdtab[f] = Free
                            /\ \A k \in Clients : t[f] = Sock(k) => client[k].link = "backlog"
                            /\ t[f] = Wtmp => NewLogEntry
<1> SUFFICES Changes(fdtab')  OBVIOUS
<1>1. ASSUME FreeFds(fdtab) # {}, NEW o, fdtab' = [fdtab EXCEPT ![LowestFree(fdtab)] = o],
             \A k \in Clients : o = Sock(k) => client[k].link = "backlog",
             o = Wtmp => NewLogEntry
      PROVE  Changes(fdtab')
  BY <1>1, LowestFreeIsFree DEF TypeOK
<1>2. ASSUME NEW fds, fdtab' = Close(fdtab, fds)
      PROVE  Changes(fdtab')
  BY <1>2 DEF Close
<1>3. CASE UNCHANGED fdtab  BY <1>3
<1> HIDE DEF Changes
<1>4. CASE Login \/ NewLogEntry \/ UNCHANGED vars
  <2>1. CASE NewLogEntry /\ ~Exit
    <3>1. FreeFds(fdtab) # {} /\ fdtab' = [fdtab EXCEPT ![LowestFree(fdtab)] = Wtmp]
      BY <2>1 DEF NewLogEntry
    <3>2. \A k : Wtmp # Sock(k)
      BY Kinds
    <3> QED  BY <1>1, <2>1, <3>1, <3>2
  <2> QED  BY <1>3, <1>4, <2>1 DEF Login, Exit, vars, kernelVars
<1>5. ASSUME NEW k \in Clients, ClientNext(k) PROVE Changes(fdtab')
  BY <1>3, <1>5 DEF ClientNext, Connect, SendRequest, SendFragment, SendLong,
              SendExtra, Leave, Drain, ClientStep, kernelVars
<1>6. ASSUME NEW c \in Conns, KernelNext(c) PROVE Changes(fdtab')
  BY <1>3, <1>6, KernelSteps DEF Exit, kernelVars
<1>7. ASSUME NEW c \in Conns, ServerNext(c) PROVE Changes(fdtab')
  <2>1. CASE Exit  BY <1>3, <2>1 DEF Exit, kernelVars
  <2>2. CASE ~Exit /\ \E k \in Clients : handle_new_connection(k, c)
    <3>1. PICK k \in Clients : handle_new_connection(k, c)
      BY <2>2
    <3>2. /\ FreeFds(fdtab) # {} /\ client[k].link = "backlog"
          /\ fdtab' = [fdtab EXCEPT ![LowestFree(fdtab)] = Sock(k)]
      BY <2>2, <3>1 DEF handle_new_connection
    <3>3. Sock(k) # Wtmp /\ \A j : Sock(k) = Sock(j) => j = k
      BY Kinds
    <3> QED  BY <1>1, <3>2, <3>3
  <2>3. CASE ~Exit /\ handle_client_request(c)
    BY <1>2, <1>3, <2>3
       DEF handle_client_request, ReceiveFails, RemoveUnread, ReceiveEof,
           ReceiveWhole, connection_remove, kernelVars
  <2>4. CASE ~Exit /\ handle_work(c)
    <3>1. CASE PrepareHeader(c)
      <4>1. \/ UNCHANGED fdtab
            \/ /\ FreeFds(fdtab) # {}
               /\ fdtab' = [fdtab EXCEPT ![LowestFree(fdtab)] = File(heap[c].path)]
        BY <2>4, <3>1 DEF PrepareHeader, PrepareNotFound, PrepareFile, HeaderReady
      <4>2. File(heap[c].path) # Wtmp /\ \A k : File(heap[c].path) # Sock(k)
        BY Kinds
      <4> QED  BY <1>1, <1>3, <4>1, <4>2
    <3>2. CASE read_data(c) \/ send_data(c)
      <4>1. /\ FreeFds(fdtab) # {}
            /\ fdtab' = [fdtab EXCEPT ![LowestFree(fdtab)] = EventFd(c)]
        BY <2>4, <3>2 DEF read_data, send_data, Submit
      <4>2. EventFd(c) # Wtmp /\ \A k : EventFd(c) # Sock(k)
        BY Kinds
      <4> QED  BY <1>1, <4>1, <4>2
    <3> QED  BY <2>4, <3>1, <3>2 DEF handle_work
  <2>5. CASE ~Exit /\ AwaitWork(c)
    BY <1>2, <2>5 DEF AwaitWork
  <2>6. CASE ~Exit /\ handle_work_done(c)
    BY <1>2, <1>3, <2>6 DEF handle_work_done, connection_remove
  <2> QED  BY <1>7, <2>1, <2>2, <2>3, <2>4, <2>5, <2>6 DEF ServerNext
<1> QED  BY <1>3, <1>4, <1>5, <1>6, <1>7 DEF Next

(* So a block that keeps its number keeps its client.                      *)
LEMMA PeerStays ==
  ASSUME TypeOK, OwnershipInv, TypeOK', OwnershipInv', [Next]_vars,
         NEW c \in alloc, c \in alloc', heap'[c].sockfd = heap[c].sockfd
  PROVE  Peer(c)' = Peer(c)
<1>1. heap[c].sockfd \in Fd /\ fdtab[heap[c].sockfd] # Free
  BY PeerFacts, Kinds
<1>2. fdtab'[heap[c].sockfd] # Free
  BY Kinds DEF OwnershipInv, BlockOwns, SocketOwned
<1> QED  BY <1>1, <1>2, TableSteps DEF Peer

(* Closing the numbers fds touches only the streams of the clients whose   *)
(* sockets are among them.                                                 *)
LEMMA HangupOthers ==
  ASSUME TypeOK, NEW fds, NEW k \in Clients, \A f \in fds : fdtab[f] # Sock(k)
  PROVE  Hangup(fdtab, fds)[k] = stream[k]
BY DEF Hangup

(* A handler or a completion on behalf of one connection changes nothing   *)
(* in the blocks and the operations of the others ...                      *)
LEMMA OtherBlocks ==
  ASSUME TypeOK, NEW c \in Conns, KernelNext(c) \/ ServerNext(c), ~Exit,
         NEW d \in alloc, d # c
  PROVE  d \in alloc' /\ heap'[d] = heap[d] /\ aio'[d] = aio[d]
<1>1. d \in Conns
  BY DEF TypeOK
<1>2. CASE KernelNext(c)
  BY <1>1, <1>2, KernelSteps
<1>3. CASE \E j \in Clients : handle_new_connection(j, c)
  BY <1>1, <1>3 DEF handle_new_connection, TypeOK
<1>4. CASE handle_client_request(c)
  <2>1. /\ alloc' \in {alloc, alloc \ {c}} /\ UNCHANGED aio
        /\ \E h : heap' = [heap EXCEPT ![c] = h]
    BY <1>4 DEF handle_client_request, ReceiveFails, RemoveUnread,
                connection_remove, ReceiveEof, ReceiveWhole, kernelVars
  <2> QED  BY <1>1, <2>1 DEF TypeOK
<1>5. CASE handle_work(c)
  <2>1. /\ UNCHANGED alloc
        /\ UNCHANGED aio \/ \E a : aio' = [aio EXCEPT ![c] = a]
        /\ \E h : heap' = [heap EXCEPT ![c] = h]
    BY <1>5
       DEF handle_work, PrepareHeader, PrepareNotFound, PrepareFile, HeaderReady,
           read_data, send_data, Submit
  <2> QED  BY <1>1, <2>1 DEF TypeOK
<1>6. CASE AwaitWork(c)
  BY <1>6 DEF AwaitWork
<1>7. CASE handle_work_done(c)
  <2>1. /\ alloc' \in {alloc, alloc \ {c}}
        /\ aio' = [aio EXCEPT ![c] = Idle]
        /\ \E h : heap' = [heap EXCEPT ![c] = h]
    BY <1>7 DEF handle_work_done, connection_remove
  <2> QED  BY <1>1, <2>1 DEF TypeOK
<1> QED  BY <1>2, <1>3, <1>4, <1>5, <1>6, <1>7 DEF ServerNext

(* An answered handle_client_request() is one of the two receptions: the   *)
(* cleanup after a failed recv() stops the process.                        *)
LEMMA RequestCases ==
  ASSUME TypeOK, RegistrationInv, OwnershipInv, NEW c \in Conns,
         handle_client_request(c), ~Exit
  PROVE  /\ c \in alloc /\ heap[c].state = "NEW_CONN" /\ aio[c].op = "none"
         /\ ReceiveEof(c) \/ ReceiveWhole(c)
<1>1. c \in alloc /\ heap[c].state = "NEW_CONN"
  BY InEventOwner DEF handle_client_request
<1>2. heap[c].eventfd = 0 /\ aio[c].op = "none"
  BY <1>1 DEF OwnershipInv, BlockOwns, EventFdOwned, Opened, RegistrationInv, BlockOK
<1>3. ~ReceiveFails(c)
  BY <1>2 DEF ReceiveFails, RemoveUnread, CanCtl, OwnershipInv
<1> QED  BY <1>1, <1>2, <1>3 DEF handle_client_request

(* ... and nothing of what their clients have sent and received.           *)
LEMMA OtherClients ==
  ASSUME TypeOK, RegistrationInv, OwnershipInv,
         NEW c \in Conns, KernelNext(c) \/ ServerNext(c), ~Exit,
         NEW k \in Clients, c \in alloc => Peer(c) # k, ~handle_new_connection(k, c)
  PROVE  client'[k] = client[k] /\ stream'[k] = stream[k]
<1>2. c \in alloc => /\ Peer(c) \in Clients /\ Peer(c) # k
                     /\ fdtab[heap[c].sockfd] = Sock(Peer(c))
  BY PeerFacts
<1>4. CASE KernelNext(c)
  <2>1. client' = client
    BY <1>4, KernelSteps
  <2>2. stream' = stream \/ \E n : Send(c, n) /\ aio[c].op \in {"header", "data"}
    BY <1>4 DEF KernelNext, ReadDone, WriteDone, WriteFails, peerVars
  <2>3. ASSUME aio[c].op \in {"header", "data"} PROVE aio[c].obj = Sock(Peer(c)) /\ c \in alloc
    BY <1>2, <2>3 DEF RegistrationInv, BlockOK, OwnershipInv, BlockOwns, SocketOwned
  <2>4. stream'[k] = stream[k]
    BY <1>2, <2>2, <2>3, Kinds DEF Send, TypeOK
  <2> QED  BY <2>1, <2>4
<1>5. CASE \E j \in Clients : handle_new_connection(j, c)
  <2>1. PICK j \in Clients : handle_new_connection(j, c)
    BY <1>5
  <2>2. client' = [client EXCEPT ![j].link = "open"] /\ UNCHANGED stream
    BY <2>1 DEF handle_new_connection
  <2> QED  BY <2>1, <2>2 DEF TypeOK
<1>6. CASE handle_client_request(c)
  <2>1. c \in alloc /\ (ReceiveEof(c) \/ ReceiveWhole(c))
    BY <1>6, RequestCases
  <2>2. UNCHANGED stream /\ \E q : client' = [client EXCEPT ![Peer(c)] = q]
    BY <2>1 DEF ReceiveEof, ReceiveWhole, Peer
  <2> QED  BY <1>2, <2>1, <2>2 DEF TypeOK
<1>7. CASE handle_work(c)
  BY <1>7 DEF handle_work, PrepareHeader, PrepareNotFound, PrepareFile, HeaderReady,
              read_data, send_data, Submit, peerVars
<1>8. CASE AwaitWork(c)
  <2>1. fdtab[heap[c].eventfd] = EventFd(c)
    BY <1>8, AwaitOwner DEF AwaitWork
  <2>2. UNCHANGED client /\ stream' = Hangup(fdtab, {heap[c].eventfd})
    BY <1>8 DEF AwaitWork
  <2>3. \A f \in {heap[c].eventfd} : fdtab[f] # Sock(k)
    BY <2>1, Kinds
  <2>4. stream'[k] = stream[k]
    BY <2>2, <2>3, HangupOthers
  <2> QED  BY <2>2, <2>4
<1>9. CASE handle_work_done(c)
  <2>1. c \in alloc /\ UNCHANGED client /\ Opened(c)
    BY <1>9, DescriptorsAssumption DEF handle_work_done, RegistrationInv, Opened
  <2>2. CASE connection_remove(c, fdtab, w_epoll_remove_ptr(interest, heap[c].sockfd))
    <3>1. fdtab[heap[c].fd].kind = "file"
      BY <2>1, Kinds DEF OwnershipInv, BlockOwns, FileOwned
    <3>2. stream' = Hangup(fdtab, {heap[c].fd, heap[c].sockfd})
      BY <2>2 DEF connection_remove
    <3>3. \A f \in {heap[c].fd, heap[c].sockfd} : fdtab[f] # Sock(k)
      BY <1>2, <2>1, <3>1, Kinds
    <3>4. stream'[k] = stream[k]
      BY <3>2, <3>3, HangupOthers
    <3> QED  BY <2>1, <3>4
  <2> QED  BY <1>9, <2>1, <2>2 DEF handle_work_done
<1> QED  BY <1>4, <1>5, <1>6, <1>7, <1>8, <1>9 DEF ServerNext

LEMMA Bystanders ==
  ASSUME TypeOK, RegistrationInv, OwnershipInv, TypeOK', OwnershipInv',
         NEW c \in Conns, KernelNext(c) \/ ServerNext(c), ~Exit,
         NEW d \in alloc, d # c
  PROVE  /\ d \in alloc'
         /\ heap'[d] = heap[d] /\ aio'[d] = aio[d]
         /\ Peer(d)' = Peer(d)
         /\ client'[Peer(d)] = client[Peer(d)]
         /\ stream'[Peer(d)] = stream[Peer(d)]
<1>1. d \in alloc' /\ heap'[d] = heap[d] /\ aio'[d] = aio[d]
  BY OtherBlocks
<1>2. Peer(d)' = Peer(d)
  <2>1. [Next]_vars
    BY DEF Next
  <2> QED  BY <1>1, <2>1, PeerStays
<1>3. /\ Peer(d) \in Clients /\ ~handle_new_connection(Peer(d), c)
      /\ c \in alloc => Peer(c) # Peer(d)
  BY PeerFacts DEF handle_new_connection
<1>4. client'[Peer(d)] = client[Peer(d)] /\ stream'[Peer(d)] = stream[Peer(d)]
  BY <1>3, OtherClients
<1> QED  BY <1>1, <1>2, <1>4

-----------------------------------------------------------------------------
(* Theorems.                                                               *)

(* Blocks and descriptors stay in step: whatever clients send and however  *)
(* they leave, and however many logins leave wtmp open, accept(), open(),  *)
(* eventfd() and the closes in connection_remove() and handle_work_done()  *)
(* never take a number from a block that still uses it.                    *)
THEOREM DescriptorsOwned ==
  ASSUME ZeroedMemory, NothingMissing
  PROVE  Spec => []OwnershipInv
<1>1. Init => OwnershipInv  BY InitOwnership
<1>2. TypeOK /\ RegistrationInv /\ OwnershipInv /\ [Next]_vars => OwnershipInv'
  BY OwnershipStep
<1> QED  BY <1>1, <1>2, TypeCorrect, RegistrationCorrect, PTL DEF Spec

(* Without an early end recv() never returns 0, and nothing else closes a  *)
(* connection without removing it.                                         *)
LEMMA ServerLeavesNone ==
  ASSUME TypeOK, NoneLeftClosed, NEW c \in Conns, ServerNext(c)
  PROVE  NoneLeftClosed'
<1>1. CASE Exit
  BY <1>1 DEF Exit, NoneLeftClosed, peerVars
<1>2. ASSUME ~Exit, NEW k \in Clients, handle_new_connection(k, c)
      PROVE  NoneLeftClosed'
  <2>1. PICK s, e, d, dim :
          heap' = [heap EXCEPT ![c] =
                     [sockfd |-> s, eventfd |-> e, fd |-> d,
                      state |-> "NEW_CONN", path |-> None, is_header |-> FALSE,
                      send_len |-> 0, read_data |-> 0, file_dimension |-> dim,
                      send_buffer |-> EmptyBuffer]]
    BY <1>2 DEF handle_new_connection
  <2>2. client' = [client EXCEPT ![k].link = "open"] /\ alloc' = alloc \cup {c}
    BY <1>2 DEF handle_new_connection
  <2>3. \A x \in Conns : heap'[x].state = IF x = c THEN "NEW_CONN" ELSE heap[x].state
    BY <2>1 DEF TypeOK
  <2>4. \A j \in Clients : client'[j].link # "fin" /\ client'[j].req # "long"
    BY <2>2 DEF TypeOK, NoneLeftClosed, Peers
  <2> QED  BY <2>2, <2>3, <2>4 DEF TypeOK, NoneLeftClosed
<1>3. CASE ~Exit /\ handle_client_request(c)
  <2>1. ~ReceiveEof(c)
    <3>1. fdtab[heap[c].sockfd] \in Objects
      BY DEF TypeOK, Connections
    <3> QED  BY <3>1, ObjectOwners DEF NoneLeftClosed, ReceiveEof
  <2>2. CASE ReceiveFails(c)
    <3>1. /\ \E int : connection_remove(c, fdtab, int)
          /\ UNCHANGED client
      BY <1>3, <2>2 DEF ReceiveFails, RemoveUnread
    <3> QED  BY <3>1 DEF connection_remove, TypeOK, NoneLeftClosed
  <2>3. CASE ReceiveWhole(c)
    <3>1. /\ heap' = [heap EXCEPT ![c].path = client[Peer(c)].path,
                                  ![c].state = "DATA_RECEIVED"]
          /\ client' = [client EXCEPT ![Peer(c)].req = "read"]
          /\ alloc' = alloc
      BY <1>3, <2>3 DEF ReceiveWhole, Peer
    <3> QED  BY <3>1 DEF TypeOK, NoneLeftClosed, Peers
  <2> QED  BY <1>3, <2>1, <2>2, <2>3 DEF handle_client_request
<1>4. CASE ~Exit /\ handle_work(c)
  <2>1. UNCHANGED <<alloc, client>> /\ \A d \in Conns \ {c} : heap'[d] = heap[d]
    BY <1>4 DEF TypeOK, handle_work, PrepareHeader, PrepareFile, PrepareNotFound,
         HeaderReady, read_data, send_data, Submit, peerVars
  <2>2. heap'[c].state \in {"SENDING", "READING"}
    <3>1. CASE PrepareHeader(c)
      <4>1. \E b \in Connections :
              heap' = [heap EXCEPT ![c] = [b EXCEPT !.is_header = TRUE, !.state = "SENDING"]]
        BY <1>4, <3>1, PreparedBlock DEF HeaderReady
      <4> QED  BY <4>1 DEF TypeOK, Connections
    <3>2. CASE read_data(c)
      <4>1. \E e : heap' = [heap EXCEPT ![c] = [heap[c] EXCEPT !.eventfd = e]]
        BY <1>4, <3>2 DEF read_data, Submit
      <4> QED  BY <3>2, <4>1 DEF TypeOK, Connections, read_data
    <3>3. CASE send_data(c)
      <4> DEFINE x == [heap[c] EXCEPT !.is_header = FALSE]
      <4>1. /\ heap[c] \in Connections /\ x \in Connections
            /\ x.state = "SENDING" /\ heap[c].state = "SENDING"
        BY <3>3, Numbers DEF send_data, Connections
      <4>2. \/ Submit(c, heap[c].sockfd, "header", 0, 1, x)
            \/ Submit(c, heap[c].sockfd, "data", 0, heap[c].read_data, heap[c])
        BY <3>3 DEF send_data
      <4> HIDE DEF x
      <4>3. PICK b \in Connections :
              /\ b.state = "SENDING"
              /\ \E e : heap' = [heap EXCEPT ![c] = [b EXCEPT !.eventfd = e]]
        BY <1>4, <4>1, <4>2 DEF Submit
      <4> QED  BY <4>3 DEF TypeOK, Connections
    <3> QED  BY <1>4, <3>1, <3>2, <3>3 DEF handle_work
  <2> QED  BY <2>1, <2>2 DEF TypeOK, NoneLeftClosed
<1>5. CASE ~Exit /\ AwaitWork(c)
  BY <1>5 DEF AwaitWork, NoneLeftClosed
<1>6. CASE ~Exit /\ handle_work_done(c)
  <2>1. client' = client
    BY <1>6 DEF handle_work_done
  <2>2. CASE \E int : connection_remove(c, fdtab, int)
    BY <2>1, <2>2 DEF connection_remove, TypeOK, NoneLeftClosed
  <2>3. CASE heap' = [heap EXCEPT ![c].send_len = @ + aio[c].res,
                                  ![c].read_data = aio[c].res, ![c].state = "SENDING"]
               /\ alloc' = alloc
    BY <2>1, <2>3 DEF TypeOK, Connections, NoneLeftClosed
  <2>4. CASE heap' = [heap EXCEPT ![c].state = "READING"] /\ alloc' = alloc
    BY <2>1, <2>4 DEF TypeOK, Connections, NoneLeftClosed
  <2> QED  BY <1>6, <2>2, <2>3, <2>4 DEF handle_work_done
<1> QED  BY <1>1, <1>2, <1>3, <1>4, <1>5, <1>6 DEF ServerNext

LEMMA LeavesNone ==
  ASSUME NoEarlyEnd, TypeOK, NoneLeftClosed, [Next]_vars
  PROVE  NoneLeftClosed'
<1>1. CASE UNCHANGED vars
  BY <1>1 DEF vars, peerVars, NoneLeftClosed
<1>2. ASSUME NEW k \in Clients, ClientNext(k)
      PROVE  NoneLeftClosed'
  <2>1. UNCHANGED <<alloc, heap>>
    BY <1>2 DEF ClientNext, ClientStep, Connect, SendRequest, SendFragment, SendLong,
         SendExtra, Leave, Drain
  <2>2. \A j \in Clients : client'[j].link # "fin" /\ client'[j].req # "long"
    BY <1>2 DEF NoEarlyEnd, TypeOK, Peers, NoneLeftClosed, ClientNext, Connect, SendRequest,
         SendFragment, SendLong, SendExtra, Leave, Drain
  <2> QED  BY <2>1, <2>2 DEF NoneLeftClosed
<1>3. ASSUME NEW c \in Conns, KernelNext(c)
      PROVE  NoneLeftClosed'
  <2>1. UNCHANGED <<alloc, client>> /\ \A d \in Conns : heap'[d].state = heap[d].state
    <3>1. CASE Exit
      BY <3>1 DEF Exit, peerVars
    <3>2. CASE ~Exit
      <4>1. /\ UNCHANGED <<alloc, client>>
            /\ heap' = heap \/ \E b : heap' = [heap EXCEPT ![c].send_buffer = b]
        BY <1>3, <3>2, KernelSteps
      <4> QED  BY <4>1 DEF TypeOK, Connections
    <3> QED  BY <3>1, <3>2
  <2> QED  BY <2>1 DEF TypeOK, NoneLeftClosed
<1>4. ASSUME NEW c \in Conns, ServerNext(c)
      PROVE  NoneLeftClosed'
  BY <1>4, ServerLeavesNone
<1>5. CASE Login \/ NewLogEntry
  BY <1>5 DEF Login, NewLogEntry, Exit, peerVars, NoneLeftClosed
<1> QED  BY <1>1, <1>2, <1>3, <1>4, <1>5 DEF Next

(* No descriptor of a connection is lost: each is recorded in a block that *)
(* the loop still serves and that connection_remove() will close it by     *)
(* (imonitor.c:101), where no stream ends before its request: a connection *)
(* on which recv() returns 0 is left in STATE_CONNECTION_CLOSED, and keeps *)
(* its block and its socket for good (imonitor.c:190-196).                 *)
THEOREM NothingLost ==
  ASSUME ZeroedMemory, NothingMissing, NoEarlyEnd
  PROVE  Spec => []NoOrphanDescriptor
<1>1. Init => NoneLeftClosed
  BY DEF Init, NoneLeftClosed
<1>2. TypeOK /\ NoneLeftClosed /\ [Next]_vars => NoneLeftClosed'
  BY LeavesNone
<1>3. TypeOK /\ OwnershipInv /\ NoneLeftClosed => NoOrphanDescriptor
  BY DEF TypeOK, OwnershipInv, HasOwner, NoneLeftClosed, Removable, NoOrphanDescriptor
<1> QED  BY <1>1, <1>2, <1>3, TypeCorrect, DescriptorsOwned, PTL DEF Spec

(* io_getevents() is never entered for a connection with nothing to wait   *)
(* for, which would stop the whole server (imonitor.c:412).                *)
THEOREM NeverBlockedOnNothing ==
  ASSUME ZeroedMemory, NothingMissing
  PROVE  Spec => []BlockedOnRealWork
<1>1. OwnershipInv => BlockedOnRealWork
  BY DEF OwnershipInv
<1> QED  BY <1>1, DescriptorsOwned, PTL

=============================================================================
