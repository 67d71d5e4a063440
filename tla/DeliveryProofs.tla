---------------------------- MODULE DeliveryProofs ----------------------------
(***************************************************************************)
(* Proofs that each client gets the right bytes, and all of them before    *)
(* its connection is closed, whatever the other connections do in between. *)
(* They rest on the ownership of descriptors and need sockets that take a  *)
(* buffer whole: the end of a write goes by what was read (imonitor.c:440). *)
(***************************************************************************)
EXTENDS Ownership, OwnershipProofs

-----------------------------------------------------------------------------
(* Facts about one state.                                                  *)

LEMMA StageTypes ==
  ASSUME TypeOK, OwnershipInv, NEW c \in alloc
  PROVE  /\ c \in Conns /\ heap[c] \in Connections /\ aio[c] \in Operations
         /\ heap[c].send_len \in Int /\ heap[c].read_data \in Nat \cup {-1}
         /\ heap[c].state \in States /\ heap[c].is_header \in BOOLEAN
         /\ heap[c].file_dimension \in Nat
         /\ stream[Peer(c)] \in Streams
         /\ client[Peer(c)] \in Peers
BY PeerFacts DEF TypeOK, Connections, Failed

(* The stream of a client that still has its socket has not ended.         *)
LEMMA StreamOpen ==
  ASSUME TypeOK, OwnershipInv, DeliveryInv, NEW c \in alloc
  PROVE  /\ Stage(c) /\ StreamEnds(Peer(c))
         /\ stream[Peer(c)].eof = FALSE
<1>1. Stage(c) /\ StreamEnds(Peer(c))
  BY PeerFacts DEF DeliveryInv
<1>2. stream[Peer(c)].eof \in BOOLEAN
  BY StageTypes DEF Streams
<1> QED  BY <1>1, <1>2, PeerFacts DEF StreamEnds

LEMMA InitDelivery == Init => DeliveryInv
<1> SUFFICES ASSUME Init PROVE DeliveryInv  OBVIOUS
<1>1. \A k \in Clients : client[k].link = "none" /\ stream[k] = Silent
  BY DEF Init
<1> QED  BY <1>1 DEF Init, DeliveryInv, StreamEnds, Silent

-----------------------------------------------------------------------------
(* Steps.                                                                  *)

(* A block whose client neither sends nor receives stays at its stage.     *)
LEMMA StageFrame ==
  ASSUME NEW c \in Conns, Stage(c),
         heap'[c] = heap[c], aio'[c] = aio[c], Peer(c)' = Peer(c),
         stream'[Peer(c)] = stream[Peer(c)],
         client'[Peer(c)].path = client[Peer(c)].path,
         client[Peer(c)].link = "rst" => client'[Peer(c)].link = "rst"
  PROVE  Stage(c)'
<1>1. /\ \A n : Has(c, n) => Has(c, n)'
      /\ HasNothing(c)' = HasNothing(c)
      /\ Opened(c)' = Opened(c)
      /\ HeaderInBuffer(c)' = HeaderInBuffer(c)
      /\ DataInBuffer(c)' = DataInBuffer(c)
  BY DEF Has, HasNothing, Opened, HeaderInBuffer, DataInBuffer
<1>2. Asking(c)' /\ BeforeHeader(c)' /\ HeaderOut(c)'
  BY <1>1 DEF Stage, Asking, BeforeHeader, HeaderOut
<1>3. BetweenOperations(c)'
  BY <1>1 DEF Stage, BetweenOperations
<1>4. ReadOut(c)'
  BY <1>1 DEF Stage, ReadOut
<1>5. DataOut(c)'
  BY <1>1 DEF Stage, DataOut
<1> QED  BY <1>2, <1>3, <1>4, <1>5 DEF Stage

LEMMA StreamFrame ==
  ASSUME TypeOK, [Next]_vars, NEW k \in Clients, StreamEnds(k),
         stream'[k] = stream[k],
         client'[k].path = client[k].path \/ client[k].link = "none",
         client'[k].link \in {"none", "backlog"} => client[k].link \in {"none", "backlog"},
         client[k].link = "rst" => client'[k].link = "rst"
  PROVE  StreamEnds(k)'
<1>1. stream[k].eof => client[k].link # "backlog" /\ client[k].link # "none"
  BY DEF StreamEnds, Silent
<1>2. stream[k].hdr = "200" => client[k].link # "none"
  BY DEF StreamEnds, Silent
<1>3. ASSUME stream[k].eof, NEW f \in Fd PROVE fdtab'[f] # Sock(k)
  <2>1. fdtab[f] # Sock(k) /\ Free # Sock(k)
    BY <1>3, Kinds DEF StreamEnds
  <2> QED  BY <1>1, <1>3, <2>1, TableSteps
<1> QED  BY <1>1, <1>2, <1>3 DEF StreamEnds

(* So it is enough to look at the block that a step is about, and at its   *)
(* client.                                                                 *)
LEMMA OwnStage ==
  ASSUME TypeOK, RegistrationInv, OwnershipInv, TypeOK', OwnershipInv', DeliveryInv,
         NEW c \in alloc, KernelNext(c) \/ ServerNext(c), ~Exit, alloc' \subseteq alloc,
         c \in alloc' => Stage(c)',
         NEW k \in Clients, k = Peer(c), StreamEnds(k)'
  PROVE  DeliveryInv'
<1>1. c \in Conns /\ [Next]_vars
  BY DEF Next, TypeOK
<1>2. ASSUME NEW d \in alloc', d # c PROVE Stage(d)'
  <2>1. d \in alloc /\ d \in Conns
    BY <1>2 DEF TypeOK
  <2>2. /\ heap'[d] = heap[d] /\ aio'[d] = aio[d] /\ Peer(d)' = Peer(d)
        /\ client'[Peer(d)] = client[Peer(d)] /\ stream'[Peer(d)] = stream[Peer(d)]
    BY <1>1, <1>2, <2>1, Bystanders
  <2> QED  BY <2>1, <2>2, StageFrame DEF DeliveryInv
<1>3. ASSUME NEW j \in Clients, j # k PROVE StreamEnds(j)'
  <2>1. ~handle_new_connection(j, c)
    BY DEF handle_new_connection
  <2>2. stream'[j] = stream[j] /\ client'[j] = client[j]
    BY <1>1, <1>3, <2>1, OtherClients
  <2> QED  BY <1>1, <2>2, StreamFrame DEF DeliveryInv
<1> QED  BY <1>2, <1>3 DEF DeliveryInv

(* Steps of nobody's connection.                                           *)
LEMMA QuietDelivery ==
  ASSUME TypeOK, OwnershipInv, DeliveryInv, TypeOK', OwnershipInv', [Next]_vars,
         UNCHANGED <<alloc, heap, aio, stream>>,
         \A k \in Clients :
           /\ client'[k].path = client[k].path \/ client[k].link = "none"
           /\ client'[k].link \in {"none", "backlog"} => client[k].link \in {"none", "backlog"}
           /\ client[k].link = "rst" => client'[k].link = "rst"
  PROVE  DeliveryInv'
<1>1. ASSUME NEW c \in alloc' PROVE Stage(c)'
  <2>1. c \in alloc /\ c \in Conns /\ Peer(c)' = Peer(c) /\ Peer(c) \in Clients
        /\ client[Peer(c)].link # "none"
    BY <1>1, PeerFacts, PeerStays
  <2> QED  BY <2>1, StageFrame DEF DeliveryInv
<1>2. ASSUME NEW k \in Clients PROVE StreamEnds(k)'
  BY StreamFrame DEF DeliveryInv
<1> QED  BY <1>1, <1>2 DEF DeliveryInv

LEMMA ExitDelivery ==
  ASSUME TypeOK, OwnershipInv, DeliveryInv, TypeOK', OwnershipInv', [Next]_vars,
         Exit
  PROVE  DeliveryInv'
BY QuietDelivery DEF Exit, kernelVars, peerVars

LEMMA ClientDelivery ==
  ASSUME TypeOK, OwnershipInv, DeliveryInv, TypeOK', OwnershipInv', [Next]_vars,
         NEW k \in Clients, ClientNext(k)
  PROVE  DeliveryInv'
<1>1. UNCHANGED <<alloc, heap, aio, stream>>
  BY DEF ClientNext, Connect, SendRequest, SendFragment, SendLong, SendExtra,
         Leave, Drain, ClientStep, kernelVars
<1>2. client \in [Clients -> Peers]
  BY DEF TypeOK
<1>3. CASE \E p \in Paths : Connect(k, p)
  BY <1>1, <1>2, <1>3, QuietDelivery DEF Connect, Peers
<1>4. CASE \E r : client' = [client EXCEPT ![k].req = r]
  BY <1>1, <1>2, <1>4, QuietDelivery DEF Peers
<1>5. CASE \E how \in {"fin", "rst"} : Leave(k, how)
  BY <1>1, <1>2, <1>5, QuietDelivery DEF Leave, Peers
<1>6. CASE client' = client
  BY <1>1, <1>6, QuietDelivery
<1> QED  BY <1>3, <1>4, <1>5, <1>6
         DEF ClientNext, SendRequest, SendFragment, SendLong, SendExtra, Drain

LEMMA LogDelivery ==
  ASSUME TypeOK, OwnershipInv, DeliveryInv, TypeOK', OwnershipInv', [Next]_vars,
         Login \/ NewLogEntry \/ UNCHANGED vars
  PROVE  DeliveryInv'
<1>1. UNCHANGED <<alloc, heap, aio, stream, client>>
  BY DEF Login, NewLogEntry, Exit, vars, kernelVars, peerVars
<1> QED  BY <1>1, QuietDelivery

LEMMA AwaitDelivery ==
  ASSUME TypeOK, RegistrationInv, OwnershipInv, DeliveryInv, TypeOK', OwnershipInv',
         [Next]_vars, NEW c \in Conns, AwaitWork(c), ~Exit
  PROVE  DeliveryInv'
<1>1. fdtab[heap[c].eventfd] = EventFd(c)
  BY AwaitOwner DEF AwaitWork
<1>2. /\ UNCHANGED <<alloc, heap, aio, client>>
      /\ stream' = Hangup(fdtab, {heap[c].eventfd})
  BY DEF AwaitWork
<1>3. ASSUME NEW k \in Clients PROVE stream'[k] = stream[k]
  <2>1. \A f \in {heap[c].eventfd} : fdtab[f] # Sock(k)
    BY <1>1, Kinds
  <2> QED  BY <1>2, <2>1, HangupOthers
<1>4. stream' = stream
  BY <1>2, <1>3 DEF Hangup, TypeOK
<1> QED  BY <1>2, <1>4, QuietDelivery

LEMMA AcceptDelivery ==
  ASSUME TypeOK, RegistrationInv, OwnershipInv, DeliveryInv, TypeOK', OwnershipInv',
         [Next]_vars, NEW k \in Clients, NEW c \in Conns,
         handle_new_connection(k, c), ~Exit
  PROVE  DeliveryInv'
<1> DEFINE s == LowestFree(fdtab)
<1>1. s \in Fd
  BY LowestFreeIsFree DEF handle_new_connection
<1>2. /\ fdtab' = [fdtab EXCEPT ![s] = Sock(k)]
      /\ alloc' = alloc \cup {c} /\ c \notin alloc
      /\ client' = [client EXCEPT ![k].link = "open"] /\ client[k].link = "backlog"
      /\ UNCHANGED <<aio, stream>>
      /\ heap'[c].sockfd = s /\ heap'[c].state = "NEW_CONN"
      /\ heap'[c].is_header = FALSE /\ heap'[c].send_len = 0
  BY DEF handle_new_connection, TypeOK
<1> HIDE DEF s
<1>3. Peer(c)' = k
  BY <1>1, <1>2, Kinds DEF Peer, TypeOK
<1>4. stream'[k] = Silent
  BY <1>2 DEF DeliveryInv, StreamEnds
<1>5. aio'[c].op = "none"
  BY <1>2 DEF RegistrationInv, BlockOK
<1>6. Stage(c)'
  BY <1>2, <1>3, <1>4, <1>5
     DEF Stage, Asking, BeforeHeader, BetweenOperations, HeaderOut, ReadOut,
         DataOut, HasNothing, Opened, Silent, WorkStates
<1>7. ASSUME NEW d \in alloc', d # c PROVE Stage(d)'
  <2>1. d \in alloc /\ d \in Conns
    BY <1>2, <1>7 DEF TypeOK
  <2>2. /\ heap'[d] = heap[d] /\ aio'[d] = aio[d] /\ Peer(d)' = Peer(d)
        /\ client'[Peer(d)] = client[Peer(d)] /\ stream'[Peer(d)] = stream[Peer(d)]
    BY <1>7, <2>1, Bystanders DEF ServerNext
  <2> QED  BY <2>1, <2>2, StageFrame DEF DeliveryInv
<1>8. ASSUME NEW j \in Clients PROVE StreamEnds(j)'
  <2>1. CASE j = k
    BY <1>2, <1>4, <2>1 DEF StreamEnds, Silent, TypeOK, Peers
  <2>2. CASE j # k
    BY <1>2, <2>2, StreamFrame DEF DeliveryInv, TypeOK
  <2> QED  BY <2>1, <2>2
<1> QED  BY <1>6, <1>7, <1>8 DEF DeliveryInv

-----------------------------------------------------------------------------
(* The steps of a transfer, each on behalf of one block.                   *)

(* A step that keeps the block, its number and its client's stream.        *)
LEMMA OwnClient ==
  ASSUME TypeOK, OwnershipInv, TypeOK', OwnershipInv', DeliveryInv, [Next]_vars,
         NEW c \in alloc, c \in alloc', heap'[c].sockfd = heap[c].sockfd,
         UNCHANGED stream,
         client'[Peer(c)].path = client[Peer(c)].path,
         client'[Peer(c)].link = client[Peer(c)].link
  PROVE  /\ Peer(c)' = Peer(c) /\ Peer(c) \in Clients
         /\ \A n : Has(c, n)' = LET s == stream[Peer(c)]
                                IN  client[Peer(c)].link # "rst" =>
                                      /\ s.hdr = "200" /\ s.file = heap'[c].path
                                      /\ s.clen = heap'[c].file_dimension
                                      /\ s.upto = n
         /\ HasNothing(c)' = HasNothing(c)
         /\ StreamEnds(Peer(c))'
<1>1. Peer(c)' = Peer(c) /\ Peer(c) \in Clients
  BY PeerStays, PeerFacts
<1>2. StreamEnds(Peer(c))'
  BY <1>1, StreamOpen, StreamFrame
<1> QED  BY <1>1, <1>2 DEF Has, HasNothing

LEMMA RequestDelivery ==
  ASSUME TypeOK, RegistrationInv, OwnershipInv, TypeOK', OwnershipInv', DeliveryInv,
         [Next]_vars, NEW c \in Conns, handle_client_request(c), ~Exit
  PROVE  DeliveryInv'
<1>1. /\ c \in alloc /\ heap[c].state = "NEW_CONN" /\ aio[c].op = "none"
      /\ ReceiveEof(c) \/ ReceiveWhole(c)
  BY RequestCases
<1>2. /\ UNCHANGED <<alloc, aio, stream>>
      /\ \E r : client' = [client EXCEPT ![Peer(c)].req = r]
      /\ \/ heap' = [heap EXCEPT ![c].state = "CLOSED"]
         \/ heap' = [heap EXCEPT ![c].path = client[Peer(c)].path,
                                 ![c].state = "DATA_RECEIVED"]
  BY <1>1 DEF ReceiveEof, ReceiveWhole, Peer, kernelVars
<1>3. Peer(c) \in Clients /\ Stage(c)
  BY <1>1, PeerFacts, StreamOpen
<1>4. client'[Peer(c)].path = client[Peer(c)].path
      /\ client'[Peer(c)].link = client[Peer(c)].link
  BY <1>2, <1>3 DEF TypeOK, Peers
<1>5. /\ heap'[c].sockfd = heap[c].sockfd /\ heap'[c].is_header = heap[c].is_header
      /\ heap'[c].send_len = heap[c].send_len
      /\ \/ heap'[c].state = "CLOSED"
         \/ heap'[c].state = "DATA_RECEIVED" /\ heap'[c].path = client[Peer(c)].path
  BY <1>2 DEF TypeOK, Connections
<1>6. /\ Peer(c)' = Peer(c) /\ HasNothing(c)' = HasNothing(c) /\ StreamEnds(Peer(c))'
  BY <1>1, <1>2, <1>4, <1>5, OwnClient
<1>7. HasNothing(c) /\ heap[c].send_len = 0 /\ heap[c].is_header = FALSE
  BY <1>1, <1>3, StageTypes DEF Stage, Asking, Opened
<1>8. Stage(c)'
  BY <1>1, <1>2, <1>4, <1>5, <1>6, <1>7
     DEF Stage, Asking, BeforeHeader, BetweenOperations, HeaderOut, ReadOut,
         DataOut, Opened, WorkStates
<1> QED  BY <1>1, <1>2, <1>3, <1>6, <1>8, OwnStage DEF ServerNext

LEMMA PrepareDelivery ==
  ASSUME NothingMissing,
         TypeOK, RegistrationInv, OwnershipInv, TypeOK', OwnershipInv', DeliveryInv,
         [Next]_vars, NEW c \in Conns, handle_work(c), PrepareHeader(c), ~Exit
  PROVE  DeliveryInv'
<1> DEFINE p == heap[c].path
           t == LowestFree(fdtab)
           n == AsInt(size[p])
<1>1. c \in alloc /\ aio[c].op = "none"
  BY OutEventFacts DEF handle_work
<1>2. heap[c].state = "DATA_RECEIVED" /\ ~Opened(c) /\ p \in Files
  <2>1. heap[c].state = "DATA_RECEIVED" /\ p \in Paths /\ p # Directory
    BY <1>1 DEF PrepareHeader, OwnershipInv, BlockOwns, HeaderReady, PrepareNotFound
  <2> QED  BY <2>1, ImonitorAssumption DEF NothingMissing, Opened
<1>3. HeaderReady(c, [heap[c] EXCEPT !.send_buffer = write_http200_header(p, n),
                                     !.file_dimension = n, !.fd = t],
                  [fdtab EXCEPT ![t] = File(p)])
  BY <1>2, ImonitorAssumption DEF PrepareHeader, PrepareFile
<1>4. /\ UNCHANGED <<alloc, aio, stream, client>>
      /\ heap'[c].sockfd = heap[c].sockfd
      /\ heap'[c].path = p /\ heap'[c].state = "SENDING" /\ heap'[c].is_header = TRUE
      /\ heap'[c].send_buffer = write_http200_header(p, n)
      /\ heap'[c].file_dimension = n /\ heap'[c].send_len = heap[c].send_len
  BY <1>3 DEF HeaderReady, TypeOK, Connections, peerVars
<1> HIDE DEF n, t
<1>5. Peer(c)' = Peer(c) /\ HasNothing(c)' = HasNothing(c) /\ StreamEnds(Peer(c))'
  BY <1>1, <1>4, OwnClient
<1>6. HasNothing(c) /\ heap[c].send_len = 0 /\ p = client[Peer(c)].path
  BY <1>1, <1>2, StreamOpen DEF Stage, Asking, WorkStates
<1>7. Stage(c)'
  BY <1>1, <1>4, <1>5, <1>6
     DEF Stage, Asking, BeforeHeader, BetweenOperations, HeaderOut, ReadOut,
         DataOut, Opened, HeaderInBuffer
<1> QED  BY <1>1, <1>4, <1>5, <1>7, OwnStage, PeerFacts DEF ServerNext

(* Nothing has been transferred yet when an operation is submitted.        *)
LEMMA SubmitStage ==
  ASSUME TypeOK, RegistrationInv, OwnershipInv, TypeOK', OwnershipInv', DeliveryInv,
         [Next]_vars, NEW c \in Conns, handle_work(c), ~Exit,
         NEW d, NEW op \in {"read", "header", "data"}, NEW lo, NEW len,
         Submit(c, d, op, lo, len, [heap[c] EXCEPT !.is_header = FALSE]),
         op = "read" => heap[c].state = "READING" /\ lo = heap[c].send_len,
         op = "header" => heap[c].state = "SENDING" /\ heap[c].is_header /\ len = 1,
         op = "data" => /\ heap[c].state = "SENDING" /\ ~heap[c].is_header
                        /\ len = heap[c].read_data
  PROVE  DeliveryInv'
<1> DEFINE b == [heap[c] EXCEPT !.is_header = FALSE]
<1>1. c \in alloc /\ aio[c].op = "none"
  BY OutEventFacts DEF handle_work
<1>2. Stage(c) /\ Peer(c) \in Clients /\ heap[c] \in Connections
  BY <1>1, StreamOpen, PeerFacts, StageTypes
<1>3. b \in Connections
  BY <1>2 DEF Connections
<1> Submit(c, d, op, lo, len, b)  OBVIOUS
<1> HIDE DEF b
<1>4. /\ UNCHANGED <<alloc, stream, client>>
      /\ aio'[c].op = op /\ aio'[c].done = FALSE
      /\ aio'[c].lo = lo /\ aio'[c].len = len
      /\ heap'[c] = [b EXCEPT !.eventfd = LowestFree(fdtab)]
  BY DEF Submit, Operation, TypeOK, peerVars
<1>5. /\ heap'[c].sockfd = heap[c].sockfd /\ heap'[c].state = heap[c].state /\ heap'[c].path = heap[c].path
      /\ heap'[c].send_len = heap[c].send_len /\ heap'[c].read_data = heap[c].read_data
      /\ heap'[c].file_dimension = heap[c].file_dimension
      /\ heap'[c].send_buffer = heap[c].send_buffer
      /\ heap'[c].is_header = FALSE
  BY <1>2, <1>4 DEF Connections, b
<1>6. /\ Peer(c)' = Peer(c) /\ StreamEnds(Peer(c))'
      /\ HasNothing(c)' = HasNothing(c)
      /\ \A x : Has(c, x)' = LET s == stream[Peer(c)]
                             IN  client[Peer(c)].link # "rst" =>
                                   /\ s.hdr = "200" /\ s.file = heap'[c].path
                                   /\ s.clen = heap'[c].file_dimension
                                   /\ s.upto = x
  BY <1>1, <1>4, <1>5, OwnClient
<1>7. /\ \A x : Has(c, x) => Has(c, x)'
      /\ HeaderInBuffer(c)' = HeaderInBuffer(c) /\ DataInBuffer(c)' = DataInBuffer(c)
  BY <1>4, <1>5, <1>6 DEF Has, HeaderInBuffer, DataInBuffer
<1>8. /\ heap[c].state \in {"READING", "SENDING"}
      /\ heap'[c].path = client'[Peer(c)'].path
  BY <1>2, <1>4, <1>5, <1>6 DEF Stage, WorkStates
<1>9. Stage(c)'
  <2>1. CASE op = "read"
    <3>1. Has(c, heap[c].send_len) /\ heap[c].send_len >= 0
      BY <1>1, <1>2, <2>1 DEF Stage, BetweenOperations
    <3>2. ReadOut(c)'
      BY <1>4, <1>5, <1>7, <2>1, <3>1 DEF ReadOut
    <3> QED
      BY <1>4, <1>5, <1>6, <1>8, <2>1, <3>2
         DEF Stage, Asking, BeforeHeader, BetweenOperations, HeaderOut, DataOut, Opened
  <2>2. CASE op = "header"
    <3>1. HasNothing(c)' /\ HeaderInBuffer(c)'
      BY <1>2, <1>6, <1>7, <2>2 DEF Stage, BeforeHeader
    <3>2. HeaderOut(c)'
      BY <1>4, <1>5, <2>2, <3>1 DEF HeaderOut
    <3> QED
      BY <1>4, <1>5, <1>6, <1>8, <2>2, <3>2
         DEF Stage, Asking, BeforeHeader, BetweenOperations, ReadOut, DataOut, Opened
  <2>3. CASE op = "data"
    <3>1. DataInBuffer(c)' /\ Has(c, heap[c].send_len - heap[c].read_data)'
      BY <1>1, <1>2, <1>5, <1>7, <2>3 DEF Stage, BetweenOperations
    <3>2. DataOut(c)'
      BY <1>4, <1>5, <1>7, <2>3, <3>1 DEF DataOut
    <3> QED
      BY <1>4, <1>5, <1>6, <1>8, <2>3, <3>2
         DEF Stage, Asking, BeforeHeader, BetweenOperations, HeaderOut, ReadOut, Opened
  <2> QED  BY <2>1, <2>2, <2>3
<1> QED  BY <1>1, <1>2, <1>4, <1>6, <1>9, OwnStage DEF ServerNext

LEMMA SubmitDelivery ==
  ASSUME TypeOK, RegistrationInv, OwnershipInv, TypeOK', OwnershipInv', DeliveryInv,
         [Next]_vars, NEW c \in Conns, handle_work(c), read_data(c) \/ send_data(c), ~Exit
  PROVE  DeliveryInv'
<1> DEFINE h == heap[c]
           b == [h EXCEPT !.is_header = FALSE]
<1>1. Stage(c) /\ h \in Connections
  BY OutEventFacts, StreamOpen, StageTypes DEF handle_work
<1>2. ~h.is_header => b = h
  BY <1>1 DEF Connections
<1>3. CASE read_data(c)
  <2>1. ~h.is_header
    BY <1>1, <1>3 DEF read_data, Stage
  <2>2. h.state = "READING" /\ Submit(c, h.fd, "read", h.send_len, BufSiz, b)
    BY <1>2, <1>3, <2>1 DEF read_data
  <2> QED  BY <2>2, SubmitStage
<1>4. CASE send_data(c) /\ h.is_header
  <2>1. h.state = "SENDING" /\ Submit(c, h.sockfd, "header", 0, 1, b)
    BY <1>4 DEF send_data
  <2> QED  BY <1>4, <2>1, SubmitStage
<1>5. CASE send_data(c) /\ ~h.is_header
  <2>1. h.state = "SENDING" /\ Submit(c, h.sockfd, "data", 0, h.read_data, b)
    BY <1>2, <1>5 DEF send_data
  <2> QED  BY <1>5, <2>1, SubmitStage
<1> QED  BY <1>3, <1>4, <1>5

(* A read leaves its bytes in send_buffer, at the offset reached so far.   *)
LEMMA ReadDelivery ==
  ASSUME TypeOK, RegistrationInv, OwnershipInv, TypeOK', OwnershipInv', DeliveryInv,
         [Next]_vars, NEW c \in Conns, ReadDone(c), ~Exit
  PROVE  DeliveryInv'
<1> DEFINE p == heap[c].path
           lo == aio[c].lo
           n == IF lo >= size[p] THEN 0 ELSE SetMin(BufSiz, size[p] - lo)
<1>1. c \in alloc /\ aio[c].op = "read" /\ Opened(c)
  BY DEF ReadDone, RegistrationInv, BlockOK, Opened
<1>2. Stage(c) /\ Peer(c) \in Clients /\ heap[c] \in Connections /\ aio[c] \in Operations
  BY <1>1, StreamOpen, PeerFacts, StageTypes
<1>3. /\ heap[c].state = "READING" /\ lo = heap[c].send_len /\ lo >= 0 /\ lo \in Nat
      /\ Has(c, lo)
      /\ heap[c].is_header = FALSE
  BY <1>1, <1>2 DEF Stage, ReadOut, Operations, Failed, Connections
<1>4. aio[c].obj = File(p) /\ p \in Files
  <2>1. aio[c].obj = File(p)
    BY <1>1 DEF OwnershipInv, BlockOwns, FileOwned
  <2> QED  BY <1>2, <2>1, ObjectOwners, Kinds DEF Operations
<1>5. n \in Nat
  <2>1. size[p] \in Nat /\ BufSiz \in Nat
    BY <1>4, ImonitorAssumption DEF TypeOK
  <2> QED  BY <1>3, <2>1 DEF SetMin
<1>6. /\ CompleteWith(c, n)
      /\ heap' = [heap EXCEPT ![c].send_buffer = IF n = 0 THEN @ ELSE FileBytes(p, lo, n)]
      /\ UNCHANGED <<alloc, stream, client>>
  BY <1>3, <1>4, Kinds DEF ReadDone, peerVars
<1> HIDE DEF n
<1>7. /\ aio'[c].op = "read" /\ aio'[c].lo = lo /\ aio'[c].done = TRUE /\ aio'[c].res = n
      /\ heap'[c].sockfd = heap[c].sockfd /\ heap'[c].state = "READING"
      /\ heap'[c].path = p /\ heap'[c].send_len = heap[c].send_len
      /\ heap'[c].file_dimension = heap[c].file_dimension
      /\ heap'[c].is_header = FALSE
      /\ n > 0 => heap'[c].send_buffer = FileBytes(p, lo, n)
  BY <1>1, <1>2, <1>3, <1>5, <1>6 DEF CompleteWith, TypeOK, Operations, Connections
<1>8. /\ Peer(c)' = Peer(c) /\ StreamEnds(Peer(c))'
      /\ \A x : Has(c, x) => Has(c, x)'
  BY <1>1, <1>6, <1>7, OwnClient DEF Has
<1>9. ReadOut(c)'
  BY <1>3, <1>5, <1>7, <1>8 DEF ReadOut
<1>10. Stage(c)'
  BY <1>2, <1>3, <1>6, <1>7, <1>8, <1>9
     DEF Stage, Asking, BeforeHeader, BetweenOperations, HeaderOut, DataOut,
         Opened, WorkStates
<1> QED  BY <1>1, <1>2, <1>6, <1>8, <1>10, OwnStage DEF KernelNext

(* A socket takes the header, or the bytes last read, whole.               *)
LEMMA WriteDelivery ==
  ASSUME WholeWrites,
         TypeOK, RegistrationInv, OwnershipInv, TypeOK', OwnershipInv', DeliveryInv,
         [Next]_vars, NEW c \in Conns, WriteDone(c), ~Exit
  PROVE  DeliveryInv'
<1> DEFINE k == Peer(c)
           b == heap[c].send_buffer
           n == aio[c].len
<1>1. c \in alloc /\ aio[c].op \in {"header", "data"} /\ ~aio[c].done
      /\ UNCHANGED <<alloc, heap, client>>
  BY DEF WriteDone, RegistrationInv, BlockOK
<1>2. /\ Stage(c) /\ StreamEnds(k) /\ k \in Clients
      /\ heap[c] \in Connections /\ aio[c] \in Operations /\ stream[k] \in Streams
      /\ client[k].link \in {"open", "fin", "rst"} /\ stream[k].eof = FALSE
  BY <1>1, StreamOpen, PeerFacts, StageTypes
<1>3. aio[c].obj.of = k
  BY <1>1 DEF OwnershipInv, BlockOwns, SocketOwned, Peer
<1>4. /\ client[k].link # "rst"
      /\ CompleteWith(c, n)
      /\ stream' = IF n = 0 THEN stream ELSE [stream EXCEPT ![k] = Receive(@, b, n)]
  BY <1>3 DEF WriteDone, Send, WholeWrites
<1>5. /\ aio'[c].op = aio[c].op /\ aio'[c].len = n /\ aio'[c].done = TRUE
      /\ stream'[k] = IF n = 0 THEN stream[k] ELSE Receive(stream[k], b, n)
  BY <1>2, <1>4 DEF CompleteWith, TypeOK, Operations
<1>6. k' = k
  <2>1. heap'[c].sockfd = heap[c].sockfd /\ c \in alloc'
    BY <1>1
  <2> QED  BY <1>1, <2>1, PeerStays
<1>7. heap[c].path = client[k].path /\ heap[c].state = "SENDING" /\ ~heap[c].is_header
  BY <1>1, <1>2 DEF Stage, HeaderOut, DataOut, WorkStates
<1> DEFINE m == IF aio[c].op = "header" THEN 0 ELSE heap[c].send_len
<1>8. /\ stream'[k].hdr = "200" /\ stream'[k].file = heap[c].path
      /\ stream'[k].clen = heap[c].file_dimension /\ stream'[k].upto = m
      /\ stream'[k].ok /\ stream'[k].eof = FALSE
  <2>1. CASE aio[c].op = "header"
    <3>1. n = 1 /\ HasNothing(c) /\ b = write_http200_header(heap[c].path, heap[c].file_dimension)
      BY <1>1, <1>2, <2>1 DEF Stage, HeaderOut, HeaderInBuffer
    <3>2. stream'[k] = [stream[k] EXCEPT !.hdr = "200", !.file = heap[c].path,
                                         !.clen = heap[c].file_dimension]
      BY <1>5, <3>1 DEF Receive, HasNothing, write_http200_header
    <3> QED  BY <1>2, <2>1, <3>1, <3>2 DEF Streams, StreamEnds, HasNothing
  <2>2. CASE aio[c].op = "data"
    <3>1. /\ n = heap[c].read_data /\ DataInBuffer(c)
          /\ Has(c, heap[c].send_len - heap[c].read_data)
      BY <1>1, <1>2, <2>2 DEF Stage, DataOut
    <3>2. /\ heap[c].send_len \in Nat /\ heap[c].read_data \in Nat
      BY <1>2, <3>1 DEF DataInBuffer, Connections, Failed
    <3>3. CASE n = 0
      BY <1>2, <1>4, <1>5, <2>2, <3>1, <3>2, <3>3 DEF Has, StreamEnds
    <3>4. CASE n # 0
      <4>1. b = FileBytes(heap[c].path, heap[c].send_len - n, n)
        BY <3>1, <3>2, <3>4 DEF DataInBuffer
      <4>2. stream'[k] = [stream[k] EXCEPT !.upto = @ + n]
        BY <1>4, <1>5, <3>1, <3>2, <3>4, <4>1 DEF Receive, FileBytes, Has
      <4>3. stream[k].upto = heap[c].send_len - n
        BY <1>4, <3>1 DEF Has
      <4>4. stream[k].upto + n = heap[c].send_len
        BY <3>1, <3>2, <4>3
      <4> QED  BY <1>2, <1>4, <2>2, <3>1, <4>2, <4>4 DEF Has, StreamEnds, Streams
    <3> QED  BY <3>3, <3>4
  <2> QED  BY <1>1, <2>1, <2>2
<1>9. StreamEnds(k)'
  BY <1>1, <1>2, <1>6, <1>7, <1>8 DEF StreamEnds
<1>10. Has(c, m)'
  BY <1>1, <1>5, <1>6, <1>8 DEF Has
<1>11. Stage(c)'
  <2>1. HeaderOut(c)'
    BY <1>1, <1>2, <1>5, <1>7, <1>10 DEF Stage, HeaderOut, HeaderInBuffer
  <2>2. DataOut(c)'
    BY <1>1, <1>2, <1>5, <1>7, <1>10 DEF Stage, DataOut, DataInBuffer
  <2> QED
    BY <1>1, <1>5, <1>6, <1>7, <2>1, <2>2
       DEF Stage, Asking, BeforeHeader, BetweenOperations, ReadOut, Opened
<1> QED  BY <1>1, <1>2, <1>6, <1>9, <1>11, OwnStage DEF KernelNext

(* A write fails only when the client has reset the connection.            *)
LEMMA FailedDelivery ==
  ASSUME TypeOK, RegistrationInv, OwnershipInv, TypeOK', OwnershipInv', DeliveryInv,
         [Next]_vars, NEW c \in Conns, WriteFails(c), ~Exit
  PROVE  DeliveryInv'
<1>1. c \in alloc /\ aio[c].op \in {"header", "data"}
      /\ UNCHANGED <<alloc, heap, client, stream>> /\ CompleteWith(c, Failed)
  BY DEF WriteFails, RegistrationInv, BlockOK, peerVars
<1>2. /\ Stage(c) /\ Peer(c) \in Clients
      /\ heap[c] \in Connections /\ aio[c] \in Operations
      /\ fdtab[heap[c].sockfd] = Sock(Peer(c))
  BY <1>1, StreamOpen, PeerFacts, StageTypes
<1>3. aio[c].obj = Sock(Peer(c))
  BY <1>1, <1>2 DEF OwnershipInv, BlockOwns, SocketOwned
<1>4. aio[c].len >= 0
  BY <1>1, <1>2 DEF Stage, HeaderOut, DataOut, DataInBuffer
<1>5. client[Peer(c)].link = "rst"
  BY <1>2, <1>3, <1>4, Kinds DEF WriteFails, Operations, Failed
<1>6. /\ aio'[c].op = aio[c].op /\ aio'[c].len = aio[c].len
  BY <1>1, <1>2 DEF CompleteWith, TypeOK, Operations
<1>7. Peer(c)' = Peer(c) /\ StreamEnds(Peer(c))' /\ \A x : Has(c, x)'
  BY <1>1, <1>5, OwnClient
<1>8. Stage(c)'
  <2>1. heap[c].state = "SENDING" /\ ~heap[c].is_header
        /\ heap[c].path = client[Peer(c)].path
    BY <1>1, <1>2 DEF Stage, HeaderOut, DataOut, WorkStates
  <2> DEFINE m == heap[c].send_len - heap[c].read_data
  <2>2. DataOut(c)'
    BY <1>1, <1>2, <1>6, <1>7 DEF Stage, DataOut, DataInBuffer
  <2>3. aio'[c].done
    BY <1>1, <1>2 DEF CompleteWith, TypeOK, Operations
  <2>4. HeaderOut(c)'
    BY <1>1, <1>2, <1>6, <1>7, <2>3 DEF Stage, HeaderOut, HeaderInBuffer
  <2> QED
    BY <1>1, <1>6, <1>7, <2>1, <2>2, <2>4
       DEF Stage, Asking, BeforeHeader, BetweenOperations, ReadOut, Opened
<1> QED  BY <1>1, <1>2, <1>7, <1>8, OwnStage DEF KernelNext

(* The end of a write goes on to the next read or, when as much has been   *)
(* read as the header announced, to the end of the connection.             *)
LEMMA DoneDelivery ==
  ASSUME TypeOK, RegistrationInv, OwnershipInv, TypeOK', OwnershipInv', DeliveryInv,
         [Next]_vars, NEW c \in Conns, handle_work_done(c), ~Exit
  PROVE  DeliveryInv'
<1> DEFINE res == aio[c].res
<1>1. /\ c \in alloc /\ waiting = c /\ aio[c].op # "none" /\ aio[c].done
      /\ aio' = [aio EXCEPT ![c] = Idle]
      /\ UNCHANGED client
      /\ heap[c].state \in {"READING", "SENDING"}
  BY DescriptorsAssumption
     DEF handle_work_done, RegistrationInv, OwnershipInv, BlockedOnRealWork
<1>2. /\ Stage(c) /\ Peer(c) \in Clients
      /\ heap[c] \in Connections /\ aio[c] \in Operations
      /\ fdtab[heap[c].sockfd] = Sock(Peer(c)) /\ heap[c].sockfd \in Fd
  BY <1>1, StreamOpen, PeerFacts, StageTypes
<1>3. /\ aio'[c].op = "none"
      /\ heap[c].path = client[Peer(c)].path
  BY <1>1, <1>2 DEF TypeOK, Idle, Stage, WorkStates
<1>4. heap[c].state = "READING" => aio[c].op = "read"
  BY <1>1, <1>2 DEF Stage, HeaderOut, DataOut, Operations
<1>5. heap[c].state = "SENDING" =>
        heap[c].send_len \in Nat /\ Has(c, heap[c].send_len) /\ heap[c].is_header = FALSE
  <2> SUFFICES ASSUME heap[c].state = "SENDING"
               PROVE  /\ heap[c].send_len \in Nat /\ Has(c, heap[c].send_len)
                      /\ heap[c].is_header = FALSE
    OBVIOUS
  <2>1. aio[c].op \in {"header", "data"}
    BY <1>1, <1>2 DEF Stage, ReadOut, Operations
  <2>2. CASE aio[c].op = "header"
    BY <1>1, <1>2, <2>2 DEF Stage, HeaderOut, HeaderInBuffer, Connections
  <2>3. CASE aio[c].op = "data"
    BY <1>1, <1>2, <2>3 DEF Stage, DataOut, DataInBuffer, Connections, Failed
  <2> QED  BY <2>1, <2>2, <2>3
<1>6. CASE /\ heap[c].state = "READING"
           /\ heap' = [heap EXCEPT ![c].send_len = @ + res,
                                   ![c].read_data = res,
                                   ![c].state = "SENDING"]
           /\ UNCHANGED <<alloc, stream>>
  <2>1. /\ heap[c].send_len \in Nat /\ Has(c, heap[c].send_len)
        /\ res \in Nat
        /\ res > 0 => heap[c].send_buffer = FileBytes(heap[c].path, heap[c].send_len, res)
        /\ heap[c].is_header = FALSE
    BY <1>1, <1>2, <1>4, <1>6 DEF Stage, ReadOut, Connections, Operations, Failed
  <2>2. /\ heap'[c].sockfd = heap[c].sockfd /\ heap'[c].state = "SENDING"
        /\ heap'[c].path = heap[c].path /\ heap'[c].is_header = FALSE
        /\ heap'[c].file_dimension = heap[c].file_dimension
        /\ heap'[c].send_buffer = heap[c].send_buffer
        /\ heap'[c].send_len = heap[c].send_len + res
        /\ heap'[c].read_data = res
    BY <1>2, <1>6, <2>1 DEF TypeOK, Connections
  <2>3. /\ Peer(c)' = Peer(c) /\ StreamEnds(Peer(c))'
        /\ \A x : Has(c, x) => Has(c, x)'
    BY <1>1, <1>6, <2>2, OwnClient DEF Has
  <2>4. /\ heap'[c].send_len - heap'[c].read_data = heap[c].send_len
        /\ heap'[c].read_data >= 0 /\ heap'[c].read_data <= heap'[c].send_len
    BY <2>1, <2>2
  <2>5. DataInBuffer(c)' /\ Has(c, heap[c].send_len - heap[c].read_data)'
    BY <2>1, <2>2, <2>3, <2>4 DEF DataInBuffer
  <2>6. Stage(c)'
    BY <1>1, <1>3, <2>2, <2>3, <2>5
       DEF Stage, Asking, BeforeHeader, BetweenOperations, HeaderOut, ReadOut,
           DataOut, Opened
  <2> QED  BY <1>1, <1>2, <1>6, <2>3, <2>6, OwnStage DEF ServerNext
<1>7. CASE /\ heap[c].state = "SENDING"
           /\ heap' = [heap EXCEPT ![c].state = "READING"]
           /\ UNCHANGED <<alloc, stream>>
  <2>1. /\ heap'[c].sockfd = heap[c].sockfd /\ heap'[c].state = "READING"
        /\ heap'[c].path = heap[c].path /\ heap'[c].is_header = FALSE
        /\ heap'[c].file_dimension = heap[c].file_dimension
        /\ heap'[c].send_len = heap[c].send_len
    BY <1>2, <1>5, <1>7 DEF TypeOK, Connections
  <2>2. /\ Peer(c)' = Peer(c) /\ StreamEnds(Peer(c))'
        /\ \A x : Has(c, x) => Has(c, x)'
    BY <1>1, <1>7, <2>1, OwnClient DEF Has
  <2>3. Has(c, heap[c].send_len)' /\ heap'[c].send_len >= 0
    BY <1>5, <1>7, <2>1, <2>2
  <2>4. Stage(c)'
    BY <1>1, <1>3, <2>1, <2>2, <2>3
       DEF Stage, Asking, BeforeHeader, BetweenOperations, HeaderOut, ReadOut,
           DataOut, Opened
  <2> QED  BY <1>1, <1>2, <1>7, <2>2, <2>4, OwnStage DEF ServerNext
<1>8. CASE /\ heap[c].state = "SENDING" /\ TransferDone(c)
           /\ connection_remove(c, fdtab, w_epoll_remove_ptr(interest, heap[c].sockfd))
  <2> DEFINE k == Peer(c)
             fds == {heap[c].fd, heap[c].sockfd}
  <2>1. /\ fdtab' = Close(fdtab, fds) /\ stream' = Hangup(fdtab, fds)
        /\ alloc' = alloc \ {c}
    BY <1>8 DEF connection_remove
  <2>2. stream'[k] = [stream[k] EXCEPT !.eof = TRUE]
    BY <1>2, <2>1 DEF Hangup
  <2>3. ASSUME NEW f \in Fd PROVE fdtab'[f] # Sock(k)
    <3>1. fdtab[f] = Sock(k) => f = heap[c].sockfd
      BY <1>2, Kinds DEF OwnershipInv, OneSocket
    <3> QED  BY <2>1, <3>1, CloseForget, Kinds
  <2>4. /\ stream[k] \in Streams /\ StreamEnds(k) /\ client[k].link \in {"open", "fin", "rst"}
        /\ client[k].link # "rst" =>
             stream[k].hdr = "200" /\ stream[k].upto = stream[k].clen
    BY <1>1, <1>5, <1>8, StreamOpen, StageTypes, PeerFacts DEF TransferDone, Has
  <2> HIDE DEF k
  <2>5. ASSUME NEW j \in Clients, j = k PROVE StreamEnds(j)'
    BY <1>1, <2>2, <2>3, <2>4, <2>5 DEF StreamEnds, Streams
  <2> QED  BY <1>1, <1>2, <2>1, <2>5, OwnStage DEF ServerNext, k
<1> QED  BY <1>6, <1>7, <1>8 DEF handle_work_done

LEMMA DeliveryStep ==
  ASSUME NothingMissing, WholeWrites,
         TypeOK, RegistrationInv, OwnershipInv, TypeOK', OwnershipInv', DeliveryInv,
         [Next]_vars
  PROVE  DeliveryInv'
<1>1. CASE Exit  BY <1>1, ExitDelivery
<1>2. CASE ~Exit
  <2>1. ASSUME NEW k \in Clients, ClientNext(k) PROVE DeliveryInv'
    BY <2>1, ClientDelivery
  <2>2. ASSUME NEW c \in Conns, KernelNext(c) PROVE DeliveryInv'
    BY <1>2, <2>2, ReadDelivery, WriteDelivery, FailedDelivery DEF KernelNext
  <2>3. ASSUME NEW c \in Conns, ServerNext(c) PROVE DeliveryInv'
    <3>1. CASE \E k \in Clients : handle_new_connection(k, c)
      BY <1>2, <3>1, AcceptDelivery
    <3>2. CASE handle_client_request(c)
      BY <1>2, <3>2, RequestDelivery
    <3>3. CASE handle_work(c)
      BY <1>2, <3>3, PrepareDelivery, SubmitDelivery DEF handle_work
    <3>4. CASE AwaitWork(c)
      BY <1>2, <3>4, AwaitDelivery
    <3>5. CASE handle_work_done(c)
      BY <1>2, <3>5, DoneDelivery
    <3> QED  BY <2>3, <3>1, <3>2, <3>3, <3>4, <3>5 DEF ServerNext
  <2>4. CASE Login \/ NewLogEntry \/ UNCHANGED vars
    BY <2>4, LogDelivery
  <2> QED  BY <2>1, <2>2, <2>3, <2>4 DEF Next
<1> QED  BY <1>1, <1>2

-----------------------------------------------------------------------------
(* Theorems.                                                               *)

(* The blocks' counters and buffers and what their clients have received   *)
(* agree at every stage of a transfer.                                     *)
THEOREM DeliveryCorrect ==
  ASSUME ZeroedMemory, NothingMissing, WholeWrites
  PROVE  Spec => []DeliveryInv
<1>1. Init => DeliveryInv
  BY InitDelivery
<1>2. TypeOK /\ RegistrationInv /\ OwnershipInv /\ TypeOK' /\ OwnershipInv'
        /\ DeliveryInv /\ [Next]_vars => DeliveryInv'
  BY DeliveryStep
<1> QED
  BY <1>1, <1>2, TypeCorrect, RegistrationCorrect, DescriptorsOwned, PTL DEF Spec

(* Two transfers that the loop interleaves never mix: each client gets its *)
(* header and then the bytes of its own file, in order (imonitor.c:359).   *)
THEOREM NothingMixedUp ==
  ASSUME ZeroedMemory, NothingMissing, WholeWrites
  PROVE  Spec => []RightBytes
<1>1. DeliveryInv => RightBytes
  BY DEF DeliveryInv, StreamEnds, RightBytes
<1> QED  BY <1>1, DeliveryCorrect, PTL

(* connection_remove() ends a connection only after all the bytes that the *)
(* header announced, unless the client has reset it (imonitor.c:440).      *)
THEOREM NothingCutShort ==
  ASSUME ZeroedMemory, NothingMissing, WholeWrites
  PROVE  Spec => []ClosedOnlyWhenComplete
<1>1. DeliveryInv => ClosedOnlyWhenComplete
  BY DEF DeliveryInv, StreamEnds, ClosedOnlyWhenComplete
<1> QED  BY <1>1, DeliveryCorrect, PTL

=============================================================================
