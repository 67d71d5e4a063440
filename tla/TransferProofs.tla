---------------------------- MODULE TransferProofs ----------------------------
(***************************************************************************)
(* Proof that the event loop implements Transfer, step by step: as long as *)
(* no client resets and what is asked for does not grow, each completed    *)
(* write is the next piece of what was announced, and each close of a      *)
(* socket the end of an answer given in full.                              *)
(***************************************************************************)
EXTENDS DeliveryProofs, UptimeProofs

-----------------------------------------------------------------------------
(* No transfer overtakes the length announced for it.                      *)

LEMMA InitMeasure == Init => MeasureInv
BY DEF Init, MeasureInv

(* A file that can be asked for has the size it started with, and the int  *)
(* it goes through has room for it.                                        *)
LEMMA KnownSize ==
  ASSUME SizesFit, TypeOK, MeasureInv, NEW p \in Files \cap Paths
  PROVE  size[p] = InitSize[p] /\ AsInt(size[p]) = InitSize[p] /\ InitSize[p] \in Nat
<1>1. /\ size[p] = InitSize[p] /\ InitSize[p] \in Nat
      /\ MaxLogins \in Nat /\ IntRange \in Nat
  BY ImonitorAssumption DEF MeasureInv
<1>2. 2 * (InitSize[p] + MaxLogins) < IntRange - 1
  BY DEF SizesFit
<1>3. 2 * InitSize[p] < IntRange - 1
  BY <1>1, <1>2
<1> QED  BY <1>1, <1>3, SmallSizes

LEMMA OpenedPath ==
  ASSUME TypeOK, OwnershipInv, DeliveryInv, NEW c \in alloc, Opened(c)
  PROVE  heap[c].path \in Files \cap Paths
<1>1. fdtab[heap[c].fd] = File(heap[c].path) /\ fdtab[heap[c].fd] \in Objects
  BY Numbers DEF OwnershipInv, BlockOwns, FileOwned, TypeOK
<1>2. heap[c].path \in Files
  BY <1>1, ObjectOwners, Kinds
<1>3. heap[c].path = client[Peer(c)].path
  BY StreamOpen DEF Stage, Opened, WorkStates
<1> QED  BY <1>2, <1>3, PeerFacts

LEMMA LinkStep ==
  ASSUME NoResets, TypeOK, RegistrationInv, OwnershipInv, MeasureInv, [Next]_vars, ~Exit,
         NEW j \in Clients
  PROVE  client'[j].link # "rst"
<1>1. client \in [Clients -> Peers] /\ client[j] \in Peers /\ client[j].link # "rst"
  BY DEF TypeOK, MeasureInv
<1>2. CASE UNCHANGED client
  BY <1>1, <1>2
<1>3. ASSUME NEW k \in Clients, ClientNext(k) PROVE client'[j].link # "rst"
  <2>1. CASE \E p \in Paths : Connect(k, p)
    BY <1>1, <2>1 DEF Connect, Peers
  <2>2. CASE SendRequest(k) \/ SendFragment(k) \/ SendLong(k) \/ SendExtra(k)
    BY <1>1, <2>2 DEF SendRequest, SendFragment, SendLong, SendExtra, Peers
  <2>3. CASE \E how \in {"fin", "rst"} : Leave(k, how)
    BY <1>1, <2>3 DEF Leave, NoResets, Peers
  <2>4. CASE Drain(k)
    BY <1>1, <2>4 DEF Drain
  <2> QED  BY <1>3, <2>1, <2>2, <2>3, <2>4 DEF ClientNext
<1>4. ASSUME NEW c \in Conns, KernelNext(c) PROVE UNCHANGED client
  BY <1>4, KernelSteps
<1>5. ASSUME NEW c \in Conns, ServerNext(c) PROVE client'[j].link # "rst"
  <2>1. CASE \E k \in Clients : handle_new_connection(k, c)
    BY <1>1, <2>1 DEF handle_new_connection, Peers
  <2>2. CASE handle_client_request(c)
    <3>1. ReceiveEof(c) \/ ReceiveWhole(c)
      BY <2>2, RequestCases
    <3>2. PICK r : client' = [client EXCEPT ![Peer(c)].req = r]
      BY <3>1 DEF ReceiveEof, ReceiveWhole, Peer
    <3> QED  BY <1>1, <3>2 DEF Peers
  <2>3. CASE handle_work(c) \/ AwaitWork(c) \/ handle_work_done(c)
    <3>1. UNCHANGED client
      BY <2>3
         DEF handle_work, PrepareHeader, PrepareNotFound, PrepareFile, HeaderReady,
             read_data, send_data, Submit, AwaitWork, handle_work_done, peerVars
    <3> QED  BY <1>2, <3>1
  <2> QED  BY <1>5, <2>1, <2>2, <2>3 DEF ServerNext
<1>6. Login \/ NewLogEntry \/ UNCHANGED vars => UNCHANGED client
  BY DEF Login, NewLogEntry, vars, peerVars
<1> QED  BY <1>2, <1>3, <1>4, <1>5, <1>6 DEF Next

(* Only the log grows, and nobody asks for it while anybody logs in.       *)
LEMMA SizeStep ==
  ASSUME FixedSizes, TypeOK, TypeOK', MeasureInv, [Next]_vars, ~Exit
  PROVE  /\ \A f \in Files \cap Paths : size'[f] = InitSize[f]
         /\ logins'.reported => logins'.total > 0
<1>1. /\ logins \in [total : 0 .. MaxLogins, reported : BOOLEAN]
      /\ logins.total \in Nat /\ MaxLogins \in Nat
      /\ logins.reported => logins.total > 0
      /\ \A f \in Files \cap Paths : size[f] = InitSize[f]
  BY ImonitorAssumption DEF TypeOK, MeasureInv
<1>2. CASE Login
  BY <1>1, <1>2 DEF Login
<1>3. CASE NewLogEntry
  <2>1. /\ logins.reported
        /\ size' = [size EXCEPT ![LogFile] = @ + 1]
        /\ logins' = [logins EXCEPT !.reported = FALSE]
    BY <1>3 DEF NewLogEntry
  <2>2. LogFile \notin Paths
    BY <1>1, <2>1 DEF FixedSizes
  <2> QED  BY <1>1, <2>1, <2>2 DEF TypeOK
<1>4. CASE ~Login /\ ~NewLogEntry
  BY <1>1, <1>4, LogsUnchanged
<1> QED  BY <1>2, <1>3, <1>4

(* A block whose numbers and whose client's request stay is still within   *)
(* what was announced.                                                     *)
LEMMA MeasureFrame ==
  ASSUME NEW d \in alloc, Measured(d), Peer(d)' = Peer(d),
         heap'[d].state = heap[d].state, heap'[d].path = heap[d].path,
         heap'[d].send_len = heap[d].send_len,
         heap'[d].file_dimension = heap[d].file_dimension,
         aio'[d].op = "read" /\ aio'[d].done => aio'[d] = aio[d],
         client[Peer(d)].req \in {"read", "extra"} =>
           client'[Peer(d)].req \in {"read", "extra"}
  PROVE  Measured(d)'
BY DEF Measured, Opened, WorkStates

LEMMA ClientMeasure ==
  ASSUME TypeOK, OwnershipInv, MeasureInv, NEW k \in Clients, ClientNext(k),
         NEW d \in alloc
  PROVE  Measured(d)'
<1>1. UNCHANGED <<alloc, heap, aio, fdtab>>
  BY DEF ClientNext, Connect, SendRequest, SendFragment, SendLong, SendExtra,
         Leave, Drain, ClientStep, kernelVars
<1>2. /\ Peer(d) \in Clients /\ Peer(d)' = Peer(d) /\ Measured(d)
      /\ client \in [Clients -> Peers] /\ client[Peer(d)] \in Peers
  BY <1>1, PeerFacts DEF Peer, TypeOK, MeasureInv
<1>3. client[Peer(d)].req \in {"read", "extra"} =>
        client'[Peer(d)].req \in {"read", "extra"}
  <2>1. CASE \E p \in Paths : Connect(k, p)
    BY <1>2, <2>1 DEF Connect, Peers
  <2>2. CASE SendRequest(k) \/ SendFragment(k) \/ SendLong(k) \/ SendExtra(k)
    BY <1>2, <2>2 DEF SendRequest, SendFragment, SendLong, SendExtra, Peers
  <2>3. CASE \E how \in {"fin", "rst"} : Leave(k, how)
    BY <1>2, <2>3 DEF Leave, Peers
  <2>4. CASE Drain(k)
    BY <2>4 DEF Drain
  <2> QED  BY <2>1, <2>2, <2>3, <2>4 DEF ClientNext
<1> QED  BY <1>1, <1>2, <1>3, MeasureFrame

LEMMA OthersMeasure ==
  ASSUME TypeOK, RegistrationInv, OwnershipInv, MeasureInv, TypeOK', OwnershipInv',
         NEW c \in Conns, KernelNext(c) \/ ServerNext(c), ~Exit,
         NEW d \in alloc, d # c
  PROVE  Measured(d)'
<1>1. /\ heap'[d] = heap[d] /\ aio'[d] = aio[d] /\ Peer(d)' = Peer(d)
      /\ client'[Peer(d)] = client[Peer(d)]
  BY Bystanders
<1>2. Measured(d)
  BY DEF MeasureInv
<1> QED  BY <1>1, <1>2, MeasureFrame

(* A read starts where the last one ended and stops at the end of the file. *)
LEMMA ReadMeasure ==
  ASSUME SizesFit, TypeOK, RegistrationInv, OwnershipInv, DeliveryInv, MeasureInv,
         NEW c \in Conns, ReadDone(c), ~Exit
  PROVE  Measured(c)'
<1> DEFINE h == heap[c]
           n == IF h.send_len >= size[h.path] THEN 0
                ELSE SetMin(BufSiz, size[h.path] - h.send_len)
<1>1. c \in alloc /\ aio[c].op = "read" /\ Opened(c)
  BY DEF ReadDone, RegistrationInv, BlockOK, Opened
<1>2. /\ h \in Connections /\ aio[c] \in Operations /\ Measured(c)
      /\ aio[c].lo = h.send_len /\ h.send_len \in Nat
  <2>1. h \in Connections /\ aio[c] \in Operations /\ Measured(c) /\ Stage(c)
    BY <1>1, StreamOpen, StageTypes DEF MeasureInv
  <2>2. aio[c].lo = h.send_len
    BY <1>1, <2>1 DEF Stage, ReadOut
  <2>3. aio[c].lo \in Nat
    BY <2>1 DEF Operations
  <2> QED  BY <2>1, <2>2, <2>3
<1>3. h.path \in Files \cap Paths
  BY <1>1, OpenedPath
<1>4. /\ size[h.path] = h.file_dimension /\ h.file_dimension \in Nat
      /\ h.send_len <= h.file_dimension
  BY <1>1, <1>2, <1>3, KnownSize DEF Measured
<1>5. aio[c].obj = File(h.path)
  BY <1>1 DEF OwnershipInv, BlockOwns, FileOwned
<1>6. /\ CompleteWith(c, n)
      /\ \E b : heap' = [heap EXCEPT ![c].send_buffer = b]
      /\ UNCHANGED <<fdtab, client>>
  BY <1>2, <1>5, Kinds DEF ReadDone, peerVars
<1>7. n \in Nat /\ h.send_len + n <= h.file_dimension
  <2>1. BufSiz \in Nat
    BY ImonitorAssumption
  <2> QED  BY <1>2, <1>4, <2>1 DEF SetMin
<1> HIDE DEF n
<1>8. /\ aio'[c].op = "read" /\ aio'[c].res = n
      /\ heap'[c].sockfd = h.sockfd /\ heap'[c].state = h.state
      /\ heap'[c].path = h.path /\ heap'[c].send_len = h.send_len
      /\ heap'[c].file_dimension = h.file_dimension
  BY <1>1, <1>2, <1>6 DEF CompleteWith, TypeOK, Operations, Connections
<1>9. Peer(c)' = Peer(c)
  BY <1>6, <1>8 DEF Peer
<1> QED  BY <1>2, <1>6, <1>7, <1>8, <1>9 DEF Measured, Opened

LEMMA WriteMeasure ==
  ASSUME TypeOK, RegistrationInv, MeasureInv,
         NEW c \in Conns, WriteDone(c) \/ WriteFails(c), ~Exit
  PROVE  Measured(c)'
<1>1. /\ c \in alloc /\ aio[c].op \in {"header", "data"}
      /\ UNCHANGED <<fdtab, heap, client>>
  BY DEF WriteDone, WriteFails, peerVars, RegistrationInv, BlockOK
<1>2. \E r : CompleteWith(c, r)
  BY DEF WriteDone, WriteFails, Send
<1>3. aio'[c].op = aio[c].op
  BY <1>2 DEF CompleteWith, TypeOK, Operations
<1>4. Measured(c) /\ Peer(c)' = Peer(c)
  BY <1>1 DEF MeasureInv, Peer
<1> QED  BY <1>1, <1>3, <1>4, MeasureFrame

LEMMA AcceptMeasure ==
  ASSUME TypeOK, RegistrationInv, NEW c \in Conns,
         NEW k \in Clients, handle_new_connection(k, c), ~Exit
  PROVE  Measured(c)'
<1>1. aio[c].op = "none"
  BY DEF handle_new_connection, RegistrationInv, BlockOK
<1>2. aio' = aio /\ heap'[c].state = "NEW_CONN"
  BY DEF handle_new_connection, TypeOK
<1> QED  BY <1>1, <1>2 DEF Measured, Opened, WorkStates

LEMMA RequestMeasure ==
  ASSUME TypeOK, RegistrationInv, OwnershipInv,
         NEW c \in Conns, handle_client_request(c), ~Exit
  PROVE  Measured(c)'
<1>1. /\ c \in alloc /\ heap[c].state = "NEW_CONN" /\ aio[c].op = "none"
      /\ ReceiveEof(c) \/ ReceiveWhole(c)
  BY RequestCases
<1>2. aio' = aio /\ UNCHANGED fdtab
  BY <1>1 DEF ReceiveEof, ReceiveWhole, kernelVars
<1>3. CASE ReceiveEof(c)
  <2>1. heap'[c].state = "CLOSED"
    BY <1>3 DEF ReceiveEof, TypeOK, Connections
  <2> QED  BY <1>1, <1>2, <2>1 DEF Measured, Opened, WorkStates
<1>4. CASE ReceiveWhole(c)
  <2>1. /\ heap'[c].state = "DATA_RECEIVED" /\ heap'[c].sockfd = heap[c].sockfd
        /\ client' = [client EXCEPT ![Peer(c)].req = "read"]
    BY <1>4 DEF ReceiveWhole, Peer, TypeOK, Connections
  <2>2. Peer(c)' = Peer(c) /\ Peer(c) \in Clients
    BY <1>1, <1>2, <2>1, PeerFacts DEF Peer
  <2>3. client'[Peer(c)].req = "read"
    BY <2>1, <2>2 DEF TypeOK, Peers
  <2> QED  BY <1>1, <1>2, <2>1, <2>2, <2>3 DEF Measured, Opened
<1> QED  BY <1>1, <1>3, <1>4

(* The header announces the size the file has now, with nothing read yet.  *)
LEMMA PrepareMeasure ==
  ASSUME SizesFit, NothingMissing, TypeOK, RegistrationInv, OwnershipInv, DeliveryInv,
         MeasureInv, TypeOK', OwnershipInv',
         NEW c \in Conns, handle_work(c), PrepareHeader(c), ~Exit
  PROVE  Measured(c)'
<1> DEFINE p == heap[c].path
           n == AsInt(size[p])
           b == write_http200_header(p, n)
<1>1. /\ c \in alloc /\ aio[c].op = "none" /\ heap[c].state = "DATA_RECEIVED"
      /\ heap[c] \in Connections /\ Measured(c)
  BY OutEventFacts, Numbers DEF handle_work, PrepareHeader, MeasureInv
<1>2. p \in Paths
  BY <1>1 DEF OwnershipInv, BlockOwns
<1>3. p \in Files /\ PrepareFile(c, p)
  BY <1>2, ImonitorAssumption DEF PrepareHeader, NothingMissing
<1>4. n = InitSize[p] /\ InitSize[p] \in Nat
  BY <1>2, <1>3, KnownSize
<1>5. heap[c].send_len = 0
  BY <1>1, StreamOpen DEF Stage, Asking, Opened
<1>6. /\ heap' = [heap EXCEPT ![c] =
                   [[heap[c] EXCEPT !.send_buffer = b, !.file_dimension = n,
                                    !.fd = LowestFree(fdtab)]
                      EXCEPT !.is_header = TRUE, !.state = "SENDING"]]
      /\ UNCHANGED <<alloc, aio, client>>
  BY <1>3 DEF PrepareFile, HeaderReady, peerVars
<1> HIDE DEF b, n
<1>7. /\ heap'[c].sockfd = heap[c].sockfd /\ heap'[c].path = p
      /\ heap'[c].send_len = 0 /\ heap'[c].file_dimension = n
  BY <1>1, <1>5, <1>6 DEF TypeOK, Connections
<1>8. Peer(c)' = Peer(c)
  <2>1. [Next]_vars
    BY DEF Next, ServerNext
  <2> QED  BY <1>1, <1>6, <1>7, <2>1, PeerStays
<1>9. client[Peer(c)].req \in {"read", "extra"}
  BY <1>1 DEF Measured, WorkStates
<1> QED  BY <1>1, <1>4, <1>6, <1>7, <1>8, <1>9 DEF Measured

LEMMA SubmitMeasure ==
  ASSUME TypeOK, RegistrationInv, OwnershipInv, MeasureInv, TypeOK', OwnershipInv',
         NEW c \in Conns, handle_work(c), read_data(c) \/ send_data(c), ~Exit
  PROVE  Measured(c)'
<1>1. c \in alloc /\ heap[c] \in Connections /\ Measured(c)
  BY OutEventFacts, Numbers DEF handle_work, MeasureInv
<1>2. /\ UNCHANGED <<alloc, client>>
      /\ \E op, x, lo, len : aio' = [aio EXCEPT ![c] = Operation(op, x, lo, len)]
  BY DEF read_data, send_data, Submit, peerVars
<1>3. ~aio'[c].done
  BY <1>2 DEF Operation, TypeOK
<1>4. heap'[c].sockfd = heap[c].sockfd
  BY WorkKeepsSocket
<1>5. Peer(c)' = Peer(c)
  <2>1. [Next]_vars
    BY DEF Next, ServerNext
  <2> QED  BY <1>1, <1>2, <1>4, <2>1, PeerStays
<1>6. /\ heap'[c].state = heap[c].state /\ heap'[c].path = heap[c].path
      /\ heap'[c].send_len = heap[c].send_len
      /\ heap'[c].file_dimension = heap[c].file_dimension
  <2> DEFINE e == LowestFree(fdtab)
  <2>1. \/ heap' = [heap EXCEPT ![c] = [heap[c] EXCEPT !.eventfd = e]]
        \/ heap' = [heap EXCEPT ![c] = [[heap[c] EXCEPT !.is_header = FALSE]
                                          EXCEPT !.eventfd = e]]
    BY DEF read_data, send_data, Submit
  <2> HIDE DEF e
  <2>2. CASE heap' = [heap EXCEPT ![c] = [heap[c] EXCEPT !.eventfd = e]]
    BY <1>1, <2>2 DEF TypeOK, Connections
  <2>3. CASE heap' = [heap EXCEPT ![c] = [[heap[c] EXCEPT !.is_header = FALSE]
                                            EXCEPT !.eventfd = e]]
    BY <1>1, <2>3 DEF TypeOK, Connections
  <2> QED  BY <2>1, <2>2, <2>3
<1> QED  BY <1>1, <1>2, <1>3, <1>5, <1>6, MeasureFrame

LEMMA AwaitMeasure ==
  ASSUME TypeOK, RegistrationInv, OwnershipInv, MeasureInv, TypeOK', OwnershipInv',
         NEW c \in Conns, AwaitWork(c), ~Exit
  PROVE  Measured(c)'
<1>1. c \in alloc /\ Measured(c) /\ UNCHANGED <<alloc, heap, aio, client>>
  BY AwaitOwner DEF AwaitWork, MeasureInv
<1>2. Peer(c)' = Peer(c)
  <2>1. [Next]_vars
    BY DEF Next, ServerNext
  <2> QED  BY <1>1, <2>1, PeerStays
<1> QED  BY <1>1, <1>2, MeasureFrame

(* The end of a read counts its bytes.                                     *)
LEMMA DoneMeasure ==
  ASSUME TypeOK, RegistrationInv, OwnershipInv, DeliveryInv, MeasureInv,
         TypeOK', OwnershipInv',
         NEW c \in Conns, handle_work_done(c), ~Exit, c \in alloc'
  PROVE  Measured(c)'
<1> DEFINE res == aio[c].res
<1>1. /\ c \in alloc /\ aio[c].op # "none" /\ aio[c].done
      /\ aio' = [aio EXCEPT ![c] = Idle] /\ UNCHANGED client
      /\ heap[c].state \in {"READING", "SENDING"}
  BY DescriptorsAssumption
     DEF handle_work_done, RegistrationInv, OwnershipInv, BlockedOnRealWork
<1>2. /\ heap[c] \in Connections /\ aio[c] \in Operations /\ Stage(c) /\ Measured(c)
      /\ client[Peer(c)].req \in {"read", "extra"}
  BY <1>1, StreamOpen, StageTypes DEF MeasureInv, Measured, WorkStates
<1>3. aio'[c].op = "none"
  BY <1>1 DEF TypeOK, Idle
<1>4. \/ /\ heap[c].state = "READING"
         /\ heap' = [heap EXCEPT ![c].send_len = @ + res, ![c].read_data = res,
                                 ![c].state = "SENDING"]
      \/ heap' = [heap EXCEPT ![c].state = "READING"]
  BY <1>1 DEF handle_work_done, connection_remove
<1>5. heap[c].state = "READING" => heap[c].send_len + res <= heap[c].file_dimension
  <2>1. heap[c].state = "READING" => aio[c].op = "read"
    BY <1>1, <1>2 DEF Stage, HeaderOut, DataOut, Operations
  <2> QED  BY <1>1, <1>2, <2>1 DEF Measured
<1> HIDE DEF res
<1>6. /\ heap'[c].sockfd = heap[c].sockfd /\ heap'[c].path = heap[c].path
      /\ heap'[c].file_dimension = heap[c].file_dimension
      /\ heap'[c].send_len <= heap[c].file_dimension
  <2>1. CASE heap' = [heap EXCEPT ![c].state = "READING"]
    <3>1. heap[c].send_len <= heap[c].file_dimension
      BY <1>1, <1>2 DEF Measured, Opened
    <3> QED  BY <1>2, <2>1, <3>1 DEF TypeOK, Connections
  <2>2. CASE /\ heap[c].state = "READING"
             /\ heap' = [heap EXCEPT ![c].send_len = @ + res, ![c].read_data = res,
                                     ![c].state = "SENDING"]
    <3>1. /\ heap'[c].sockfd = heap[c].sockfd /\ heap'[c].path = heap[c].path
          /\ heap'[c].file_dimension = heap[c].file_dimension
          /\ heap'[c].send_len = heap[c].send_len + res
      BY <1>2, <2>2 DEF TypeOK, Connections
    <3> QED  BY <1>5, <2>2, <3>1
  <2> QED  BY <1>4, <2>1, <2>2
<1>7. Peer(c)' = Peer(c)
  <2>1. [Next]_vars
    BY DEF Next, ServerNext
  <2> QED  BY <1>1, <1>6, <2>1, PeerStays
<1>8. heap[c].file_dimension = InitSize[heap[c].path]
  BY <1>1, <1>2 DEF Measured, Opened
<1> QED  BY <1>1, <1>2, <1>3, <1>6, <1>7, <1>8 DEF Measured

LEMMA MeasureStep ==
  ASSUME NoResets, FixedSizes, SizesFit, NothingMissing,
         TypeOK, RegistrationInv, OwnershipInv, DeliveryInv, MeasureInv,
         TypeOK', OwnershipInv', [Next]_vars
  PROVE  MeasureInv'
<1>1. CASE Exit \/ UNCHANGED vars
  <2>1. UNCHANGED <<fdtab, aio, alloc, heap, client, size, logins>>
    BY <1>1 DEF Exit, vars, kernelVars, peerVars, fileVars
  <2> QED
    BY <2>1 DEF MeasureInv, Measured, Opened, Peer
<1>2. CASE ~Exit /\ ~UNCHANGED vars
  <2>1. ASSUME NEW d \in alloc' PROVE Measured(d)'
    <3>1. CASE Login \/ NewLogEntry
      <4>1. UNCHANGED <<aio, alloc, heap, client>>
        BY <1>2, <3>1 DEF Login, NewLogEntry, kernelVars, peerVars
      <4>2. d \in alloc /\ Measured(d) /\ Peer(d)' = Peer(d)
        BY <2>1, <4>1, PeerStays DEF MeasureInv
      <4> QED  BY <4>1, <4>2, MeasureFrame
    <3>2. ASSUME NEW k \in Clients, ClientNext(k) PROVE Measured(d)'
      <4>1. alloc' = alloc
        BY <3>2 DEF ClientNext, Connect, SendRequest, SendFragment, SendLong, SendExtra,
                    Leave, Drain, ClientStep
      <4> QED  BY <2>1, <3>2, <4>1, ClientMeasure
    <3>3. ASSUME NEW c \in Conns, KernelNext(c) PROVE Measured(d)'
      <4>1. alloc' = alloc
        BY <1>2, <3>3, KernelSteps
      <4> QED
        BY <1>2, <2>1, <3>3, <4>1, ReadMeasure, WriteMeasure, OthersMeasure DEF KernelNext
    <3>4. ASSUME NEW c \in Conns, ServerNext(c) PROVE Measured(d)'
      <4>1. CASE d # c
        <5>1. alloc' \subseteq alloc \cup {c}
          BY <1>2, <3>4, OnlyAcceptAllocates DEF handle_new_connection
        <5> QED  BY <1>2, <2>1, <3>4, <4>1, <5>1, OthersMeasure
      <4>2. CASE d = c
        BY <1>2, <2>1, <3>4, <4>2, AcceptMeasure, RequestMeasure, PrepareMeasure,
           SubmitMeasure, AwaitMeasure, DoneMeasure DEF ServerNext, handle_work
      <4> QED  BY <4>1, <4>2
    <3> QED  BY <1>2, <3>1, <3>2, <3>3, <3>4 DEF Next
  <2> QED  BY <1>2, <2>1, LinkStep, SizeStep DEF MeasureInv
<1> QED  BY <1>1, <1>2

(* No transfer passes the length its header announced, and no byte goes to *)
(* a client that has not asked (imonitor.c:369, 440).                      *)
THEOREM NeverTooMuch ==
  ASSUME ZeroedMemory, NothingMissing, WholeWrites, NoResets, FixedSizes, SizesFit
  PROVE  Spec => []MeasureInv
<1>1. Init => MeasureInv
  BY InitMeasure
<1>2. TypeOK /\ RegistrationInv /\ OwnershipInv /\ TypeOK' /\ OwnershipInv'
        /\ DeliveryInv /\ MeasureInv /\ [Next]_vars => MeasureInv'
  BY MeasureStep
<1> QED
  BY <1>1, <1>2, TypeCorrect, RegistrationCorrect, DescriptorsOwned, DeliveryCorrect,
     PTL DEF Spec
-----------------------------------------------------------------------------
(* Each step is a step of Transfer, or changes nothing Transfer sees.      *)

HasAsked(k) == client[k].req \in {"whole", "read", "extra"}

(* A step about client k at most.                                          *)
OnlyAbout(k) ==
  \A j \in Clients \ {k} : stream'[j] = stream[j] /\ HasAsked(j)' = HasAsked(j)

LEMMA StutterStep ==
  ASSUME \A k \in Clients : stream'[k] = stream[k] /\ HasAsked(k)' = HasAsked(k)
  PROVE  UNCHANGED Promise!vars
BY DEF Promise!vars, HasAsked

LEMMA AskStep ==
  ASSUME NEW k \in Clients, OnlyAbout(k), stream'[k] = stream[k],
         ~HasAsked(k), HasAsked(k)'
  PROVE  Promise!Ask(k)
<1>1. /\ {j \in Clients : HasAsked(j)}' = {j \in Clients : HasAsked(j)} \cup {k}
      /\ \A j \in Clients : stream'[j] = stream[j]
  BY DEF OnlyAbout
<1> QED  BY <1>1 DEF Promise!Ask, HasAsked

LEMMA AnnounceStep ==
  ASSUME NEW k \in Clients, OnlyAbout(k), HasAsked(k), HasAsked(k)',
         stream[k].hdr = "none", ~stream[k].eof,
         stream'[k].hdr # "none", ~stream'[k].eof,
         stream'[k].clen \in {InitSize[f] : f \in Files} \cup {0},
         stream'[k].upto = stream[k].upto
  PROVE  Promise!Announce(k)
BY DEF Promise!Announce, OnlyAbout, HasAsked

LEMMA DeliverStep ==
  ASSUME NEW k \in Clients, OnlyAbout(k), HasAsked(k)' = HasAsked(k),
         stream[k].hdr # "none", ~stream[k].eof,
         stream'[k].hdr # "none", ~stream'[k].eof,
         stream'[k].clen = stream[k].clen,
         stream'[k].upto \in stream[k].upto + 1 .. stream[k].clen
  PROVE  Promise!Deliver(k)
BY DEF Promise!Deliver, OnlyAbout, HasAsked

LEMMA FinishStep ==
  ASSUME NEW k \in Clients, OnlyAbout(k), HasAsked(k)' = HasAsked(k),
         stream[k].hdr # "none", ~stream[k].eof, stream'[k].eof,
         stream[k].upto = stream[k].clen,
         stream'[k].clen = stream[k].clen, stream'[k].upto = stream[k].upto
  PROVE  Promise!Finish(k)
BY DEF Promise!Finish, OnlyAbout, HasAsked

LEMMA ClientRefines ==
  ASSUME TypeOK, NEW k \in Clients, ClientNext(k)
  PROVE  Promise!Ask(k) \/ UNCHANGED Promise!vars
<1>1. stream' = stream
  BY DEF ClientNext, Connect, SendRequest, SendFragment, SendLong, SendExtra,
         Leave, Drain
<1>2. /\ \A j \in Clients \ {k} : client'[j] = client[j]
      /\ HasAsked(k) => HasAsked(k)'
  <2>1. client \in [Clients -> Peers] /\ client[k] \in Peers
    BY DEF TypeOK
  <2>2. CASE \E p \in Paths : Connect(k, p)
    BY <2>1, <2>2 DEF Connect, Peers, HasAsked
  <2>3. CASE SendRequest(k) \/ SendFragment(k) \/ SendLong(k) \/ SendExtra(k)
    BY <2>1, <2>3 DEF SendRequest, SendFragment, SendLong, SendExtra, Peers, HasAsked
  <2>4. CASE \E how \in {"fin", "rst"} : Leave(k, how)
    BY <2>1, <2>4 DEF Leave, Peers, HasAsked
  <2>5. CASE Drain(k)
    BY <2>5 DEF Drain, HasAsked
  <2> QED  BY <2>2, <2>3, <2>4, <2>5 DEF ClientNext
<1>3. CASE HasAsked(k)' = HasAsked(k)
  <2>1. \A j \in Clients : stream'[j] = stream[j] /\ HasAsked(j)' = HasAsked(j)
    BY <1>1, <1>2, <1>3 DEF HasAsked
  <2> QED  BY <2>1, StutterStep
<1>4. CASE ~HasAsked(k) /\ HasAsked(k)'
  <2>1. OnlyAbout(k)
    BY <1>1, <1>2 DEF OnlyAbout, HasAsked
  <2> QED  BY <1>1, <1>4, <2>1, AskStep
<1> QED  BY <1>2, <1>3, <1>4 DEF HasAsked

(* receive_message() may take an end of stream for a request.              *)
LEMMA RequestRefines ==
  ASSUME TypeOK, RegistrationInv, OwnershipInv,
         NEW c \in Conns, handle_client_request(c), ~Exit
  PROVE  Promise!Next \/ UNCHANGED Promise!vars
<1>1. c \in alloc /\ (ReceiveEof(c) \/ ReceiveWhole(c))
  BY RequestCases
<1>2. PICK k \in Clients : k = Peer(c)
  BY <1>1, PeerFacts
<1>3. stream' = stream
  BY <1>1 DEF ReceiveEof, ReceiveWhole
<1>4. PICK r : client' = [client EXCEPT ![k].req = r] /\ r \in {"read", client[k].req}
  BY <1>1, <1>2 DEF ReceiveEof, ReceiveWhole, Peer
<1>5. /\ \A j \in Clients \ {k} : client'[j] = client[j]
      /\ client'[k].req \in {"read", client[k].req}
  BY <1>4 DEF TypeOK, Peers
<1>6. CASE HasAsked(k)' = HasAsked(k)
  <2>1. \A j \in Clients : stream'[j] = stream[j] /\ HasAsked(j)' = HasAsked(j)
    BY <1>3, <1>5, <1>6 DEF HasAsked
  <2> QED  BY <2>1, StutterStep
<1>7. CASE ~HasAsked(k) /\ HasAsked(k)'
  <2>1. OnlyAbout(k)
    BY <1>3, <1>5 DEF OnlyAbout, HasAsked
  <2>2. Promise!Ask(k)
    BY <1>3, <1>7, <2>1, AskStep
  <2> QED  BY <2>2 DEF Promise!Next
<1> QED  BY <1>5, <1>6, <1>7 DEF HasAsked

(* A completed write is the announcement, or the next piece of the file.   *)
LEMMA WriteRefines ==
  ASSUME WholeWrites,
         TypeOK, RegistrationInv, OwnershipInv, DeliveryInv, MeasureInv,
         TypeOK', OwnershipInv', DeliveryInv', MeasureInv',
         NEW c \in Conns, WriteDone(c), ~Exit
  PROVE  Promise!Next \/ UNCHANGED Promise!vars
<1> DEFINE n == aio[c].len
<1>1. /\ c \in alloc /\ aio[c].op \in {"header", "data"} /\ ~aio[c].done
      /\ UNCHANGED <<alloc, heap, client, fdtab>>
  BY DEF WriteDone, RegistrationInv, BlockOK
<1>k. PICK k \in Clients : k = Peer(c)
  BY <1>1, PeerFacts
<1>2. /\ Stage(c) /\ Stage(c)' /\ Measured(c) /\ Peer(c)' = k
      /\ heap[c] \in Connections /\ aio[c] \in Operations
      /\ ~stream[k].eof /\ ~stream'[k].eof
      /\ client[k].link # "rst"
  <2>1. Peer(c)' = k /\ fdtab'[heap[c].sockfd] = Sock(k) /\ heap[c].sockfd \in Fd
    BY <1>1, <1>k, PeerFacts DEF Peer
  <2>2. Stage(c)' /\ StreamEnds(k)'
    BY <1>1 DEF DeliveryInv
  <2>3. ~stream'[k].eof
    BY <2>1, <2>2 DEF StreamEnds
  <2> QED  BY <1>1, <1>k, <2>1, <2>2, <2>3, StreamOpen, StageTypes DEF MeasureInv
<1>3. aio[c].obj.of = k
  BY <1>1, <1>k DEF OwnershipInv, BlockOwns, SocketOwned, Peer
<1>4. /\ CompleteWith(c, n)
      /\ stream' = IF n = 0 THEN stream
                   ELSE [stream EXCEPT ![k] = Receive(@, heap[c].send_buffer, n)]
  BY <1>3 DEF WriteDone, Send, WholeWrites
<1>5. aio'[c].op = aio[c].op /\ aio'[c].done
  BY <1>1, <1>2, <1>4 DEF CompleteWith, TypeOK, Operations
<1>6. OnlyAbout(k) /\ HasAsked(k)' = HasAsked(k)
  BY <1>1, <1>4 DEF OnlyAbout, HasAsked, TypeOK
<1>7. HasAsked(k) /\ Opened(c)
  BY <1>1, <1>k, <1>2 DEF Stage, HeaderOut, DataOut, Measured, HasAsked, WorkStates, Opened
<1>8. heap[c].file_dimension \in {InitSize[f] : f \in Files}
  BY <1>1, <1>2, <1>7, OpenedPath DEF Measured
<1>9. CASE aio[c].op = "header"
  <2>1. HasNothing(c) /\ Has(c, 0)'
    BY <1>1, <1>2, <1>5, <1>9 DEF Stage, HeaderOut
  <2>2. /\ stream[k].hdr = "none" /\ stream[k].upto = 0
        /\ stream'[k].hdr = "200" /\ stream'[k].upto = 0
        /\ stream'[k].clen = heap[c].file_dimension
    BY <1>1, <1>k, <1>2, <2>1 DEF HasNothing, Has
  <2>3. Promise!Announce(k)
    BY <1>2, <1>6, <1>7, <1>8, <2>2, AnnounceStep
  <2> QED  BY <1>2, <2>3 DEF Promise!Next, Promise!Answer
<1>10. CASE aio[c].op = "data"
  <2> DEFINE m == heap[c].send_len
             r == heap[c].read_data
  <2>1. n = r /\ DataInBuffer(c) /\ Has(c, m - r) /\ Has(c, m)'
    BY <1>1, <1>2, <1>5, <1>10 DEF Stage, DataOut
  <2>2. /\ stream[k].hdr = "200" /\ stream[k].upto = m - r
        /\ stream'[k].hdr = "200" /\ stream'[k].upto = m
        /\ stream[k].clen = heap[c].file_dimension
        /\ stream'[k].clen = heap[c].file_dimension
    BY <1>1, <1>k, <1>2, <2>1 DEF Has
  <2>3. /\ m \in Nat /\ r \in Nat /\ heap[c].file_dimension \in Nat
        /\ m <= heap[c].file_dimension
    BY <1>2, <1>7, <2>1 DEF DataInBuffer, Connections, Failed, Measured
  <2>4. CASE r = 0
    <3>1. \A j \in Clients : stream'[j] = stream[j] /\ HasAsked(j)' = HasAsked(j)
      BY <1>1, <1>4, <2>1, <2>4 DEF HasAsked
    <3> QED  BY <3>1, StutterStep
  <2>5. CASE r # 0
    <3>1. stream'[k].upto \in stream[k].upto + 1 .. stream[k].clen
      BY <2>2, <2>3, <2>5
    <3>2. Promise!Deliver(k)
      BY <1>2, <1>6, <2>2, <3>1, DeliverStep
    <3> QED  BY <1>2, <3>2 DEF Promise!Next, Promise!Answer
  <2> QED  BY <2>4, <2>5
<1> QED  BY <1>1, <1>9, <1>10

(* connection_remove() after the last byte is the end of the answer.       *)
LEMMA DoneRefines ==
  ASSUME TypeOK, RegistrationInv, OwnershipInv, DeliveryInv, MeasureInv,
         TypeOK', OwnershipInv', DeliveryInv', MeasureInv',
         NEW c \in Conns, handle_work_done(c), ~Exit
  PROVE  Promise!Next \/ UNCHANGED Promise!vars
<1>1. c \in alloc /\ client' = client
  BY DescriptorsAssumption DEF handle_work_done, RegistrationInv
<1>k. PICK k \in Clients : k = Peer(c)
  BY <1>1, PeerFacts
<1>2. /\ fdtab[heap[c].sockfd] = Sock(k)
      /\ StreamEnds(k)' /\ stream[k] \in Streams /\ ~stream[k].eof
      /\ client[k].link # "rst"
  BY <1>1, <1>k, StreamOpen, PeerFacts, StageTypes DEF DeliveryInv, MeasureInv
<1>3. CASE stream' = stream
  BY <1>1, <1>3, StutterStep DEF HasAsked
<1>4. CASE stream' = Hangup(fdtab, {heap[c].fd, heap[c].sockfd})
  <2>1. stream'[k] = [stream[k] EXCEPT !.eof = TRUE]
    BY <1>2, <1>4 DEF Hangup
  <2>2. /\ stream'[k].eof /\ stream'[k].hdr = stream[k].hdr
        /\ stream'[k].clen = stream[k].clen /\ stream'[k].upto = stream[k].upto
    BY <1>2, <2>1 DEF Streams
  <2>3. stream[k].hdr = "200" /\ stream[k].upto = stream[k].clen
    BY <1>1, <1>2, <2>2 DEF StreamEnds
  <2>4. OnlyAbout(k)
    <3>1. ASSUME NEW j \in Clients, j # k PROVE stream'[j] = stream[j]
      <4>1. ~handle_new_connection(j, c) /\ ServerNext(c)
        BY <1>1 DEF handle_new_connection, ServerNext
      <4> QED  BY <1>1, <1>k, <3>1, <4>1, OtherClients
    <3> QED  BY <1>1, <3>1 DEF OnlyAbout, HasAsked
  <2>5. Promise!Finish(k)
    BY <1>1, <1>2, <2>2, <2>3, <2>4, FinishStep DEF HasAsked
  <2> QED  BY <1>2, <2>5 DEF Promise!Next, Promise!Answer
<1> QED  BY <1>3, <1>4 DEF handle_work_done, connection_remove

(* Nothing else reaches a client.                                          *)
LEMMA QuietSteps ==
  ASSUME TypeOK, RegistrationInv, OwnershipInv,
         \/ Exit \/ Login \/ NewLogEntry \/ UNCHANGED vars
         \/ \E c \in Conns :
              \/ ReadDone(c) \/ WriteFails(c) \/ handle_work(c) \/ AwaitWork(c)
              \/ \E k \in Clients : handle_new_connection(k, c)
  PROVE  UNCHANGED Promise!vars
<1>1. CASE Exit \/ Login \/ NewLogEntry \/ UNCHANGED vars
  <2>1. UNCHANGED <<stream, client>>
    BY <1>1 DEF Exit, Login, NewLogEntry, vars, peerVars
  <2> QED  BY <2>1, StutterStep DEF HasAsked
<1>2. ASSUME NEW c \in Conns, ~Exit, ReadDone(c) \/ WriteFails(c) \/ handle_work(c)
      PROVE  UNCHANGED Promise!vars
  <2>1. UNCHANGED <<stream, client>>
    BY <1>2
       DEF ReadDone, WriteFails, handle_work, PrepareHeader, PrepareNotFound,
           PrepareFile, HeaderReady, read_data, send_data, Submit, peerVars
  <2> QED  BY <2>1, StutterStep DEF HasAsked
<1>3. ASSUME NEW c \in Conns, ~Exit, AwaitWork(c) PROVE UNCHANGED Promise!vars
  <2>1. fdtab[heap[c].eventfd] = EventFd(c)
    BY <1>3, AwaitOwner DEF AwaitWork
  <2>2. client' = client /\ stream' = Hangup(fdtab, {heap[c].eventfd})
    BY <1>3 DEF AwaitWork
  <2>3. \A k \in Clients : stream'[k] = stream[k]
    BY <2>1, <2>2, HangupOthers, Kinds
  <2> QED  BY <2>2, <2>3, StutterStep DEF HasAsked
<1>4. ASSUME NEW c \in Conns, NEW k \in Clients, ~Exit, handle_new_connection(k, c)
      PROVE  UNCHANGED Promise!vars
  <2>1. stream' = stream /\ client' = [client EXCEPT ![k].link = "open"]
    BY <1>4 DEF handle_new_connection
  <2>2. \A j \in Clients : HasAsked(j)' = HasAsked(j)
    BY <2>1 DEF HasAsked, TypeOK, Peers
  <2> QED  BY <2>1, <2>2, StutterStep
<1> QED  BY <1>1, <1>2, <1>3, <1>4

(* While nobody resets, what is asked for has a fixed size an int can hold *)
(* and sockets take whole buffers, the event loop implements Transfer: a   *)
(* header only to a client that has asked, with the length of a file, then *)
(* at most as many bytes, and a close only after the last (README.md:32).  *)
THEOREM ImplementsPromise ==
  ASSUME ZeroedMemory, NothingMissing, WholeWrites, NoResets, FixedSizes, SizesFit
  PROVE  Spec => Promise!Spec
<1>1. Init => Promise!Init
  BY DEF Init, Promise!Init, Silent
<1>2. ASSUME TypeOK, RegistrationInv, OwnershipInv, DeliveryInv, MeasureInv,
             TypeOK', OwnershipInv', DeliveryInv', MeasureInv', [Next]_vars
      PROVE  [Promise!Next]_Promise!vars
  <2>1. CASE Exit \/ Login \/ NewLogEntry \/ UNCHANGED vars
    BY <1>2, <2>1, QuietSteps
  <2>2. ASSUME NEW k \in Clients, ClientNext(k) PROVE [Promise!Next]_Promise!vars
    BY <1>2, <2>2, ClientRefines DEF Promise!Next
  <2>3. ASSUME NEW c \in Conns, KernelNext(c), ~Exit PROVE [Promise!Next]_Promise!vars
    BY <1>2, <2>3, QuietSteps, WriteRefines DEF KernelNext
  <2>4. ASSUME NEW c \in Conns, ServerNext(c), ~Exit PROVE [Promise!Next]_Promise!vars
    <3>1. CASE handle_client_request(c)
      BY <1>2, <2>4, <3>1, RequestRefines
    <3>2. CASE handle_work_done(c)
      BY <1>2, <2>4, <3>2, DoneRefines
    <3> QED  BY <1>2, <2>4, <3>1, <3>2, QuietSteps DEF ServerNext
  <2> QED  BY <1>2, <2>1, <2>2, <2>3, <2>4 DEF Next
<1> QED
  BY <1>1, <1>2, TypeCorrect, RegistrationCorrect, DescriptorsOwned, DeliveryCorrect,
     NeverTooMuch, PTL DEF Spec, Promise!Spec
=============================================================================
