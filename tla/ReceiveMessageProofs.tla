------------------------- MODULE ReceiveMessageProofs -------------------------
(***************************************************************************)
(* Proofs about ReceiveMessage, for every set of requests, every BUFSIZ    *)
(* and every way the bytes arrive in.  First the buffer, then what the     *)
(* parser hands over of it, which is the URL: a run over a text is a       *)
(* recursive function, reasoned about with induction over sets of numbers. *)
(***************************************************************************)
EXTENDS ReceiveMessage, WellFoundedInduction, TLAPS

(* The inductive invariant: the buffer is what has been sent so far, and   *)
(* the loop goes round only with a buffer that does not end a line.        *)
BufferType ==
  /\ peer \in [request : Requests, arrived : Nat, end : {"open", "fin", "reset"}]
  /\ conn = [state |-> conn.state, recv_buffer |-> conn.recv_buffer,
             request_path |-> conn.request_path]
  /\ conn.recv_buffer \in Seq(Bytes) /\ Len(conn.recv_buffer) <= BufSize
  /\ peer.arrived <= Len(Stream(peer.request))

LoopInv ==
  /\ conn.state = "NEW_CONN" => conn.recv_buffer = <<>>
  /\ conn.state # "DATA_RECEIVED" =>
       At(conn.recv_buffer, Len(conn.recv_buffer)) # "LF"

ReceiveInv == BufferType /\ BufferAsSent /\ ClosedOnlyWhenFinished /\ LoopInv

(* A stream is a sequence of bytes.                                        *)
LEMMA StreamType ==
  ASSUME NEW r \in Requests
  PROVE  Stream(r) \in Seq(Bytes)
BY ReceiveMessageAssumption DEF Stream, Header

(* What recv() adds continues a prefix of a stream.                        *)
LEMMA PrefixExtends ==
  ASSUME NEW S, NEW s \in Seq(S), NEW m \in Nat, NEW n \in Nat, m + n <= Len(s)
  PROVE  /\ SubSeq(s, 1, m) \in Seq(S) /\ Len(SubSeq(s, 1, m)) = m
         /\ SubSeq(s, 1, m) \o SubSeq(s, m + 1, m + n) = SubSeq(s, 1, m + n)
         /\ SubSeq(s, 1, m + n) \in Seq(S) /\ Len(SubSeq(s, 1, m + n)) = m + n
<1>1. SubSeq(s, 1, m) \in Seq(S) /\ Len(SubSeq(s, 1, m)) = m
  OBVIOUS
<1>2. SubSeq(s, 1, m + n) \in Seq(S) /\ Len(SubSeq(s, 1, m + n)) = m + n
  OBVIOUS
<1>3. /\ SubSeq(s, m + 1, m + n) \in Seq(S)
      /\ Len(SubSeq(s, m + 1, m + n)) = n
      /\ \A i \in 1 .. n : SubSeq(s, m + 1, m + n)[i] = s[m + i]
  OBVIOUS
<1>4. SubSeq(s, 1, m) \o SubSeq(s, m + 1, m + n) = SubSeq(s, 1, m + n)
  <2> DEFINE a == SubSeq(s, 1, m)
             b == SubSeq(s, m + 1, m + n)
             c == SubSeq(s, 1, m + n)
  <2>1. a \o b \in Seq(S) /\ Len(a \o b) = m + n
    BY <1>1, <1>3
  <2>2. ASSUME NEW i \in 1 .. m + n
        PROVE  (a \o b)[i] = c[i]
    <3>1. CASE i <= m
      BY <3>1, <1>1, <1>3
    <3>2. CASE i > m
      BY <3>2, <1>1, <1>3
    <3> QED BY <3>1, <3>2
  <2> QED BY <2>1, <2>2, <1>2
<1> QED BY <1>1, <1>2, <1>4

(* The buffer after recv() is a longer prefix of the stream, and fits.     *)
LEMMA CollectedPrefix ==
  ASSUME BufferType, BufferAsSent, Queued > 0, Room > 0
  PROVE  /\ Collected \in Seq(Bytes)
         /\ Len(Collected) <= BufSize /\ Len(Collected) <= peer.arrived
         /\ Collected = SubSeq(Stream(peer.request), 1, Len(Collected))
         /\ Len(Collected) > 0
<1> DEFINE s == Stream(peer.request)
           m == Len(conn.recv_buffer)
           n == IF Queued < Room THEN Queued ELSE Room
<1>1. s \in Seq(Bytes)
  BY StreamType DEF BufferType
<1>2. /\ m \in Nat /\ peer.arrived \in Nat /\ BufSize \in Nat
      /\ peer.arrived <= Len(s) /\ m <= BufSize /\ m <= peer.arrived
      /\ conn.recv_buffer = SubSeq(s, 1, m)
  BY ReceiveMessageAssumption DEF BufferType, BufferAsSent
<1>3. n \in Nat /\ n > 0 /\ m + n <= peer.arrived /\ m + n <= BufSize
  BY <1>2 DEF Queued, Room
<1>4. Collected = SubSeq(s, 1, m) \o SubSeq(s, m + 1, m + n)
  BY <1>2 DEF Collected, Received
<1>5. m + n <= Len(s) /\ Len(s) \in Nat
  BY <1>1, <1>2, <1>3
<1> HIDE DEF s, m, n
<1>6. Collected = SubSeq(s, 1, m + n) /\ Collected \in Seq(Bytes) /\ Len(Collected) = m + n
  BY <1>1, <1>2, <1>3, <1>4, <1>5, PrefixExtends
<1> QED BY <1>2, <1>3, <1>6 DEF s

-----------------------------------------------------------------------------
(* A fresh connection satisfies the invariant.                             *)
LEMMA FreshInv ==
  ASSUME NEW r \in Requests, peer' = NewPeer(r), conn' = connection_create
  PROVE  ReceiveInv'
<1>1. Stream(r) \in Seq(Bytes)
  BY StreamType
<1>2. /\ peer' = [request |-> r, arrived |-> 0, end |-> "open"]
      /\ conn' = [state |-> "NEW_CONN", recv_buffer |-> <<>>, request_path |-> <<>>]
  BY DEF NewPeer, connection_create
<1>3. SubSeq(Stream(r), 1, 0) = <<>>
  BY <1>1
<1>4. BufferType'
  BY <1>1, <1>2, ReceiveMessageAssumption DEF BufferType
<1>5. BufferAsSent'
  BY <1>2, <1>3 DEF BufferAsSent
<1>6. ClosedOnlyWhenFinished' /\ LoopInv'
  BY <1>2 DEF ClosedOnlyWhenFinished, LoopInv, At
<1> QED BY <1>4, <1>5, <1>6 DEF ReceiveInv

(* The steps that leave the buffer alone.                                  *)
LEMMA SameBuffer ==
  ASSUME ReceiveInv, NEW st,
         peer' = peer,
         conn' = [conn EXCEPT !.state = st],
         st # "NEW_CONN", conn.state # "DATA_RECEIVED",
         st = "CLOSED" => peer.end = "fin" \/ Len(conn.recv_buffer) = BufSize
  PROVE  ReceiveInv'
<1>1. /\ conn'.state = st /\ conn'.recv_buffer = conn.recv_buffer
      /\ conn' = [state |-> conn'.state, recv_buffer |-> conn'.recv_buffer,
                  request_path |-> conn'.request_path]
  BY DEF ReceiveInv, BufferType
<1>2. BufferType'
  BY <1>1 DEF ReceiveInv, BufferType
<1>3. BufferAsSent'
  BY <1>1 DEF ReceiveInv, BufferAsSent
<1>4. ClosedOnlyWhenFinished' /\ LoopInv'
  BY <1>1 DEF ReceiveInv, ClosedOnlyWhenFinished, LoopInv
<1> QED BY <1>2, <1>3, <1>4 DEF ReceiveInv

(* The steps that add to the buffer.                                       *)
LEMMA MoreBuffer ==
  ASSUME ReceiveInv, Queued > 0, Room > 0, NEW st, NEW p,
         peer' = peer,
         conn' = [state |-> st, recv_buffer |-> Collected, request_path |-> p],
         st \in {"RECEIVING", "DATA_RECEIVED"},
         st = "RECEIVING" => is_req_finished(Collected)
  PROVE  ReceiveInv'
<1>1. /\ Collected \in Seq(Bytes)
      /\ Len(Collected) <= BufSize /\ Len(Collected) <= peer.arrived
      /\ Collected = SubSeq(Stream(peer.request), 1, Len(Collected))
      /\ Len(Collected) > 0
  BY CollectedPrefix DEF ReceiveInv
<1>2. /\ conn'.state = st /\ conn'.recv_buffer = Collected
      /\ conn' = [state |-> conn'.state, recv_buffer |-> conn'.recv_buffer,
                  request_path |-> conn'.request_path]
  OBVIOUS
<1>3. st = "RECEIVING" => At(Collected, Len(Collected)) # "LF"
  BY DEF is_req_finished
<1>4. BufferType'
  BY <1>1, <1>2 DEF ReceiveInv, BufferType
<1>5. BufferAsSent'
  BY <1>1, <1>2 DEF BufferAsSent
<1>6. ClosedOnlyWhenFinished' /\ LoopInv'
  BY <1>2, <1>3 DEF ClosedOnlyWhenFinished, LoopInv
<1> QED BY <1>4, <1>5, <1>6 DEF ReceiveInv

(* Each step of the peer and of receive_message() keeps the invariant.     *)
LEMMA ReceiveStep == ReceiveInv /\ [Next]_vars => ReceiveInv'
<1> SUFFICES ASSUME ReceiveInv, [Next]_vars
             PROVE  ReceiveInv'
  OBVIOUS
<1>1. CASE Arrive
  <2>1. /\ peer' = [peer EXCEPT !.arrived = @ + 1] /\ conn' = conn
        /\ peer.arrived < Len(Stream(peer.request))
        /\ conn.state \in {"NEW_CONN", "RECEIVING"}
    BY <1>1 DEF Arrive
  <2>2. /\ peer' \in [request : Requests, arrived : Nat, end : {"open", "fin", "reset"}]
        /\ peer'.request = peer.request /\ peer'.arrived = peer.arrived + 1
        /\ peer'.end = peer.end /\ peer.arrived \in Nat
    BY <2>1 DEF ReceiveInv, BufferType
  <2>3. Len(Stream(peer.request)) \in Nat
    BY StreamType DEF ReceiveInv, BufferType
  <2>4. BufferType'
    BY <2>1, <2>2, <2>3 DEF ReceiveInv, BufferType
  <2>5. BufferAsSent'
    <3>1. Len(conn.recv_buffer) \in Nat
      BY DEF ReceiveInv, BufferType
    <3> QED BY <2>1, <2>2, <3>1 DEF ReceiveInv, BufferAsSent
  <2>6. ClosedOnlyWhenFinished' /\ LoopInv'
    BY <2>1, <2>2 DEF ReceiveInv, ClosedOnlyWhenFinished, LoopInv
  <2> QED BY <2>4, <2>5, <2>6 DEF ReceiveInv
<1>2. ASSUME NEW e \in {"fin", "reset"}, Stop(e)
      PROVE  ReceiveInv'
  <2>1. /\ peer' = [peer EXCEPT !.end = e] /\ conn' = conn
        /\ conn.state \in {"NEW_CONN", "RECEIVING"}
    BY <1>2 DEF Stop
  <2>2. /\ peer' \in [request : Requests, arrived : Nat, end : {"open", "fin", "reset"}]
        /\ peer'.request = peer.request /\ peer'.arrived = peer.arrived
    BY <2>1 DEF ReceiveInv, BufferType
  <2>3. BufferType'
    BY <2>1, <2>2 DEF ReceiveInv, BufferType
  <2>4. BufferAsSent'
    BY <2>1, <2>2 DEF ReceiveInv, BufferAsSent
  <2>5. ClosedOnlyWhenFinished' /\ LoopInv'
    BY <2>1, <2>2 DEF ReceiveInv, ClosedOnlyWhenFinished, LoopInv
  <2> QED BY <2>3, <2>4, <2>5 DEF ReceiveInv
<1>3. CASE ReceiveFails
  <2>1. /\ peer' = peer /\ conn' = [conn EXCEPT !.state = "REMOVED"]
        /\ conn.state # "DATA_RECEIVED"
    BY <1>3 DEF ReceiveFails, InLoop
  <2> QED BY <2>1, SameBuffer
<1>4. CASE ReceiveEof
  <2>1. /\ peer' = peer /\ conn' = [conn EXCEPT !.state = "CLOSED"]
        /\ conn.state # "DATA_RECEIVED"
        /\ peer.end = "fin" \/ Room = 0
    BY <1>4 DEF ReceiveEof, InLoop
  <2>2. Room = 0 => Len(conn.recv_buffer) = BufSize
    BY ReceiveMessageAssumption DEF ReceiveInv, BufferType, Room
  <2> QED BY <2>1, <2>2, SameBuffer
<1>5. CASE ReceivePart
  <2>1. /\ peer' = peer /\ Queued > 0 /\ Room > 0 /\ is_req_finished(Collected)
        /\ conn' = [conn EXCEPT !.state = "RECEIVING", !.recv_buffer = Collected]
    BY <1>5 DEF ReceivePart
  <2>2. conn' = [state |-> "RECEIVING", recv_buffer |-> Collected,
                 request_path |-> conn.request_path]
    BY <2>1 DEF ReceiveInv, BufferType
  <2> QED BY <2>1, <2>2, MoreBuffer
<1>6. CASE ReceiveWhole
  <2>1. peer' = peer /\ Queued > 0 /\ Room > 0
    BY <1>6 DEF ReceiveWhole
  <2>2. PICK p : conn' = [state |-> "DATA_RECEIVED", recv_buffer |-> Collected,
                          request_path |-> p]
    BY <1>6 DEF ReceiveWhole
  <2> QED BY <2>1, <2>2, MoreBuffer
<1>7. ASSUME NEW r \in Requests, NextConnection(r)
      PROVE  ReceiveInv'
  BY <1>7, FreshInv DEF NextConnection
<1>8. CASE UNCHANGED vars
  BY <1>8 DEF ReceiveInv, BufferType, BufferAsSent, ClosedOnlyWhenFinished, LoopInv, vars
<1> QED BY <1>1, <1>2, <1>3, <1>4, <1>5, <1>6, <1>7, <1>8 DEF Next

(* The first connection is a fresh one.                                    *)
LEMMA ReceiveInit == Init => ReceiveInv
<1> SUFFICES ASSUME Init PROVE ReceiveInv
  OBVIOUS
<1>1. PICK r \in Requests : peer = [request |-> r, arrived |-> 0, end |-> "open"]
  BY DEF Init, NewPeer
<1>2. conn = [state |-> "NEW_CONN", recv_buffer |-> <<>>, request_path |-> <<>>]
  BY DEF Init, connection_create
<1>3. Stream(r) \in Seq(Bytes)
  BY StreamType
<1>4. SubSeq(Stream(r), 1, 0) = <<>>
  BY <1>3
<1>5. BufferType
  BY <1>1, <1>2, <1>3, ReceiveMessageAssumption DEF BufferType
<1>6. BufferAsSent
  BY <1>1, <1>2, <1>4 DEF BufferAsSent
<1>7. ClosedOnlyWhenFinished /\ LoopInv
  BY <1>2 DEF ClosedOnlyWhenFinished, LoopInv, At
<1> QED BY <1>5, <1>6, <1>7 DEF ReceiveInv

(* The invariant of receive_message()'s buffer.                            *)
THEOREM ReceiveCorrect == Spec => []ReceiveInv
BY ReceiveInit, ReceiveStep, PTL DEF Spec

(* recv_buffer is always a gapless prefix of what the peer has sent,       *)
(* however its bytes arrive.                                               *)
THEOREM BufferIsPrefix == Spec => []BufferAsSent
<1>1. ReceiveInv => BufferAsSent
  BY DEF ReceiveInv
<1> QED BY <1>1, ReceiveCorrect, PTL

(* End of stream is what receive_message() reports only of a peer that has *)
(* finished, or of a full buffer.                                          *)
THEOREM ClosedIsFinished == Spec => []ClosedOnlyWhenFinished
<1>1. ReceiveInv => ClosedOnlyWhenFinished
  BY DEF ReceiveInv
<1> QED BY <1>1, ReceiveCorrect, PTL

(* A request whose header has arrived to its line end is never given up.   *)
THEOREM WholeIsAnswered == Spec => []AnsweredWhenWhole
<1>1. ReceiveInv => AnsweredWhenWhole
  BY DEF ReceiveInv, LoopInv, AnsweredWhenWhole
<1> QED BY <1>1, ReceiveCorrect, PTL

(* The facts HttpParserProofs knows of the parser.                         *)
PP == INSTANCE HttpParserProofs
        WITH Types <- {"REQUEST"}, HeaderResults <- {0},
             call <- conn, parser <- request_parser, whole <- request_parser,
             due <- 0

-----------------------------------------------------------------------------
(* P and PP are instances of the same definitions, expanded here once.     *)
LEMMA SameTables ==
  /\ P!Alphabet = PP!Alphabet /\ P!Digits = PP!Digits /\ P!Token = PP!Token
  /\ P!Letters = PP!Letters /\ P!Url = PP!Url
  /\ P!StartStates = PP!StartStates /\ P!ChunkStates = PP!ChunkStates
  /\ P!BodyStates = PP!BodyStates /\ P!UrlStates = PP!UrlStates
  /\ P!PathStates = PP!PathStates /\ P!TableStates = PP!TableStates
  /\ P!Rows = PP!Rows /\ P!First = PP!First /\ P!Further = PP!Further
  /\ P!method_strings = PP!method_strings /\ P!MethodOf = PP!MethodOf
  /\ P!FieldOf = PP!FieldOf /\ P!Keyword = PP!Keyword /\ P!Matched = PP!Matched
  /\ P!MatchedFields = PP!MatchedFields /\ P!MatchedValues = PP!MatchedValues
  /\ P!Unset = PP!Unset /\ P!Value = PP!Value /\ P!FlagOf = PP!FlagOf /\ P!unhex = PP!unhex
<1>1. /\ P!Digits = PP!Digits /\ P!Letters = PP!Letters
  BY DEF P!Digits, PP!Digits, P!Letters, PP!Letters
<1>2. P!Alphabet = PP!Alphabet /\ P!Token = PP!Token /\ P!Url = PP!Url
  BY <1>1 DEF P!Alphabet, PP!Alphabet, P!Token, PP!Token, P!Url, PP!Url
<1>3. /\ P!StartStates = PP!StartStates /\ P!ChunkStates = PP!ChunkStates
      /\ P!BodyStates = PP!BodyStates /\ P!UrlStates = PP!UrlStates
      /\ P!PathStates = PP!PathStates
  BY DEF P!StartStates, PP!StartStates, P!ChunkStates, PP!ChunkStates, P!BodyStates,
         PP!BodyStates, P!UrlStates, PP!UrlStates, P!PathStates, PP!PathStates
<1>4. P!TableStates = PP!TableStates
  BY <1>3 DEF P!TableStates, PP!TableStates, P!ResponseStates, PP!ResponseStates,
              P!VersionStates, PP!VersionStates
<1>5. P!Rows = PP!Rows
  <2>1. P!StatusRows = PP!StatusRows
    BY <1>1, <1>2 DEF P!StatusRows, PP!StatusRows
  <2>2. P!HostRows = PP!HostRows
    BY <1>1, <1>2 DEF P!HostRows, PP!HostRows
  <2>3. P!PathRows = PP!PathRows
    BY <1>1, <1>2, <1>3 DEF P!PathRows, PP!PathRows
  <2>4. P!VersionRows = PP!VersionRows
    BY <1>1, <1>2 DEF P!VersionRows, PP!VersionRows
  <2> QED BY <1>4, <2>1, <2>2, <2>3, <2>4 DEF P!Rows, PP!Rows
<1>6. P!First = PP!First /\ P!Further = PP!Further
  BY DEF P!First, PP!First, P!Further, PP!Further
<1>7. P!method_strings = PP!method_strings /\ P!MethodOf = PP!MethodOf
  BY DEF P!method_strings, PP!method_strings, P!MethodOf, PP!MethodOf
<1>8. P!FieldOf = PP!FieldOf /\ P!Keyword = PP!Keyword /\ P!Matched = PP!Matched
  BY DEF P!FieldOf, PP!FieldOf, P!Keyword, PP!Keyword, P!Matched, PP!Matched
<1>9. P!MatchedFields = PP!MatchedFields /\ P!MatchedValues = PP!MatchedValues
  BY DEF P!MatchedFields, PP!MatchedFields, P!MatchedValues, PP!MatchedValues
<1>10. P!Unset = PP!Unset /\ P!Value = PP!Value /\ P!FlagOf = PP!FlagOf /\ P!unhex = PP!unhex
  BY <1>1 DEF P!Unset, PP!Unset, P!Value, PP!Value, P!FlagOf, PP!FlagOf, P!unhex, PP!unhex
<1> QED BY <1>1, <1>2, <1>3, <1>4, <1>5, <1>6, <1>7, <1>8, <1>9, <1>10

LEMMA SameError ==
  ASSUME NEW m PROVE P!Error(m) = PP!Error(m)
BY DEF P!Error, PP!Error

(* Each part of the switch is the same one.                                *)
LEMMA SameRow ==
  ASSUME NEW m, NEW ch PROVE P!Row(m, ch) = PP!Row(m, ch)
BY DEF P!Row, PP!Row, P!Rows, PP!Rows, P!StatusRows, PP!StatusRows, P!HostRows, PP!HostRows,
       P!PathRows, PP!PathRows, P!VersionRows, PP!VersionRows, P!Mark, PP!Mark,
       P!CallBack, PP!CallBack, P!Error, PP!Error, P!First, PP!First, P!Further, PP!Further,
       P!Letters, PP!Letters, P!Digits, PP!Digits, P!Alphabet, PP!Alphabet, P!Url, PP!Url,
       P!Lengthen, PP!Lengthen, P!TableStates, PP!TableStates, P!PathStates, PP!PathStates,
       P!UrlStates, PP!UrlStates, P!ResponseStates, PP!ResponseStates,
       P!VersionStates, PP!VersionStates

LEMMA SameLine ==
  ASSUME NEW m, NEW ch
  PROVE  /\ P!Start(m, ch) = PP!Start(m, ch)
         /\ P!ReqOrRes(m, ch) = PP!ReqOrRes(m, ch) /\ P!Method(m, ch) = PP!Method(m, ch)
<1>1. P!message_begin(m) = PP!message_begin(m)
  BY SameTables DEF P!message_begin, PP!message_begin
<1>2. ASSUME NEW n
      PROVE  P!start_req_method_assign(n, ch) = PP!start_req_method_assign(n, ch)
  BY SameTables, SameError DEF P!start_req_method_assign, PP!start_req_method_assign
<1>3. P!Start(m, ch) = PP!Start(m, ch)
  BY <1>1, <1>2, SameError DEF P!Start, PP!Start
<1>4. P!ReqOrRes(m, ch) = PP!ReqOrRes(m, ch)
  BY SameError DEF P!ReqOrRes, PP!ReqOrRes
<1>5. P!Method(m, ch) = PP!Method(m, ch)
  BY SameTables, SameError DEF P!Method, PP!Method
<1> QED BY <1>3, <1>4, <1>5

LEMMA SameComplete ==
  ASSUME NEW m
  PROVE  /\ P!Complete(m) = PP!Complete(m)
         /\ P!http_should_keep_alive(m) = PP!http_should_keep_alive(m)
<1>1. P!http_should_keep_alive(m) = PP!http_should_keep_alive(m)
  BY DEF P!http_should_keep_alive, PP!http_should_keep_alive
<1>2. \A t : P!start_state(t) = PP!start_state(t)
  BY DEF P!start_state, PP!start_state
<1> QED BY <1>1, <1>2 DEF P!Complete, PP!Complete

LEMMA SameHeaders ==
  ASSUME NEW m, NEW ch
  PROVE  /\ P!HeadersDone(m, ch, 0) = PP!HeadersDone(m, ch, 0)
         /\ P!FieldStart(m, ch, 0) = PP!FieldStart(m, ch, 0)
<1>1. ASSUME NEW n
      PROVE  P!HeadersDone(n, ch, 0) = PP!HeadersDone(n, ch, 0)
  BY SameError, SameComplete DEF P!HeadersDone, PP!HeadersDone
<1>2. P!FieldStart(m, ch, 0) = PP!FieldStart(m, ch, 0)
  BY <1>1, SameError, SameTables DEF P!FieldStart, PP!FieldStart
<1> QED BY <1>1, <1>2

LEMMA SameField ==
  ASSUME NEW m, NEW ch
  PROVE  /\ P!Field(m, ch) = PP!Field(m, ch) /\ P!ValueStart(m, ch) = PP!ValueStart(m, ch)
         /\ P!HeaderDone(m, ch) = PP!HeaderDone(m, ch)
         /\ P!HeaderValue(m, ch) = PP!HeaderValue(m, ch)
<1>1. P!Match(m, ch) = PP!Match(m, ch)
  BY SameTables DEF P!Match, PP!Match
<1>2. \A h : P!NextIn(m, h) = PP!NextIn(m, h)
  BY DEF P!NextIn, PP!NextIn
<1>3. P!FieldToken(m, ch) = PP!FieldToken(m, ch)
  BY <1>1, <1>2, SameTables DEF P!FieldToken, PP!FieldToken
<1>4. P!Field(m, ch) = PP!Field(m, ch)
  BY <1>3, SameTables, SameError DEF P!Field, PP!Field
<1>5. P!ValueStart(m, ch) = PP!ValueStart(m, ch)
  BY SameTables, SameError DEF P!ValueStart, PP!ValueStart
<1>6. ASSUME NEW n
      PROVE  P!HeaderDone(n, ch) = PP!HeaderDone(n, ch)
  BY SameTables, SameError DEF P!HeaderDone, PP!HeaderDone
<1>7. P!HeaderValue(m, ch) = PP!HeaderValue(m, ch)
  <2>1. \A n : P!Decimal(n, ch) = PP!Decimal(n, ch)
    BY SameTables DEF P!Decimal, PP!Decimal
  <2> QED BY <1>1, <1>6, <2>1, SameTables, SameError DEF P!HeaderValue, PP!HeaderValue
<1> QED BY <1>4, <1>5, <1>6, <1>7

LEMMA SameChunk ==
  ASSUME NEW m, NEW ch PROVE P!Chunk(m, ch) = PP!Chunk(m, ch)
<1>1. P!ChunkSizeDone(m, ch) = PP!ChunkSizeDone(m, ch)
  BY SameError DEF P!ChunkSizeDone, PP!ChunkSizeDone
<1>2. \A n : P!Hex(n, ch) = PP!Hex(n, ch)
  BY SameTables DEF P!Hex, PP!Hex
<1> QED BY <1>1, <1>2, SameTables, SameError DEF P!Chunk, PP!Chunk

LEMMA SameStep ==
  ASSUME NEW m, NEW ch PROVE P!Step(m, ch, 0) = PP!Step(m, ch, 0)
<1>1. ASSUME NEW n
      PROVE  P!Dispatch(n, ch, 0) = PP!Dispatch(n, ch, 0)
  BY SameTables, SameRow, SameLine, SameHeaders, SameField, SameChunk
     DEF P!Dispatch, PP!Dispatch
<1>2. P!Count(m) = PP!Count(m)
  BY SameTables DEF P!Count, PP!Count, P!PARSING_HEADER, PP!PARSING_HEADER
<1>3. \A c : P!LastOf(c) = PP!LastOf(c)
  BY DEF P!LastOf, PP!LastOf
<1> QED BY <1>1, <1>2, <1>3 DEF P!Step, PP!Step

LEMMA SameParsed ==
  ASSUME NEW m, NEW ch PROVE Parsed(m, ch) = PP!Parsed(m, ch)
<1>1. \A c : P!LastOf(c) = PP!LastOf(c)
  BY DEF P!LastOf, PP!LastOf
<1>2. ASSUME NEW n
      PROVE  P!Body(n, 1) = PP!Body(n, 1)
  BY SameComplete DEF P!Body, PP!Body
<1> QED BY <1>1, <1>2, SameStep, SameTables DEF Parsed, PP!Parsed

LEMMA SameEnds ==
  /\ P!Zeroed = PP!Zeroed
  /\ \A m : P!Save(m) = PP!Save(m)
  /\ \A m : P!http_parser_init(m, "REQUEST") = PP!http_parser_init(m, "REQUEST")
<1>1. P!Zeroed = PP!Zeroed
  BY DEF P!Zeroed, PP!Zeroed
<1>2. \A m : P!Save(m) = PP!Save(m)
  BY DEF P!Save, PP!Save
<1>3. \A m : P!http_parser_init(m, "REQUEST") = PP!http_parser_init(m, "REQUEST")
  BY DEF P!http_parser_init, PP!http_parser_init, P!start_state, PP!start_state
<1> QED BY <1>1, <1>2, <1>3

-----------------------------------------------------------------------------
(* Induction over the natural numbers, from the library's theorem that     *)
(* every set of them has a least one.                                      *)
LEMMA NatLeast ==
  ASSUME NEW T, T \subseteq Nat, T # {}
  PROVE  \E n \in T : \A k \in T : ~(k < n)
<1> DEFINE R == OpToRel(<, Nat)
<1>1. \E x \in T : \A y \in T : ~(<<y, x>> \in R)
  <2>1. IsWellFoundedOn(R, Nat)
    BY NatLessThanWellFounded
  <2> HIDE DEF R
  <2> QED BY <2>1, WFMin
<1>2. PICK x \in T : \A y \in T : ~(<<y, x>> \in R)
  BY <1>1
<1>3. \A y \in T : y < x => <<y, x>> \in R
  BY DEF OpToRel
<1> QED BY <1>2, <1>3

(* What holds of 0, and of n + 1 when of n, holds of all.                  *)
LEMMA SetInduction ==
  ASSUME NEW T, 0 \in T, \A n \in Nat : n \in T => n + 1 \in T
  PROVE  \A n \in Nat : n \in T
<1> DEFINE D == Nat \ T
<1> SUFFICES ASSUME D # {} PROVE FALSE
  OBVIOUS
<1>1. PICK n \in D : \A k \in D : ~(k < n)
  BY NatLeast
<1>2. n # 0 /\ n - 1 \in Nat /\ n - 1 < n /\ (n - 1) + 1 = n
  OBVIOUS
<1> QED BY <1>1, <1>2

-----------------------------------------------------------------------------
(* The run of http_parser_execute() over a text, turn by turn.             *)
Begin(m, path) == [parser |-> m, piece |-> <<>>, path |-> path]
IsRun(run, m, path, text, l) ==
  run = [i \in 0 .. l |-> IF i = 0 THEN [parser |-> m, piece |-> <<>>, path |-> path]
                          ELSE Turn(run[i - 1], text[i])]

(* The run is the one function that satisfies its equation.                *)
LEMMA RunChosen ==
  ASSUME NEW m, NEW path, NEW text
  PROVE  Run(m, path, text) = CHOOSE run : IsRun(run, m, path, text, Len(text))
BY DEF Run, IsRun

(* The member that settings_on_path sets is the callback of the URL.       *)
LEMMA HandedIsUrl == Handed = "url"
BY DEF Handed, http_parser_settings, settings_on_path

(* What a call returns is read off the end of its run.                     *)
LEMMA ExecuteRun ==
  ASSUME NEW m, NEW path, NEW text
  PROVE  LET r == Run(m, path, text)[Len(text)]
         IN  http_parser_execute(m, path, text) =
               [parser |-> [P!Save(r.parser) EXCEPT !.marks = {}, !.calls = <<"none">>],
                path   |-> IF "url" \in r.parser.marks /\ r.parser.state # "s_dead"
                           THEN on_path_cb(r.path, r.piece) ELSE r.path]
BY HandedIsUrl DEF http_parser_execute

(* There is one for a text of any length.                                  *)
LEMMA RunExists ==
  ASSUME NEW m, NEW path, NEW text, NEW l \in Nat
  PROVE  \E g : IsRun(g, m, path, text, l)
<1>1. PICK b : b = [parser |-> m, piece |-> <<>>, path |-> path]
  OBVIOUS
<1> DEFINE T == {n \in Nat : \E g : g = [i \in 0 .. n |-> IF i = 0 THEN b ELSE Turn(g[i - 1], text[i])]}
<1>2. 0 \in T
  <2>1. PICK g : g = [i \in 0 .. 0 |-> b]
    OBVIOUS
  <2>2. g = [i \in 0 .. 0 |-> IF i = 0 THEN b ELSE Turn(g[i - 1], text[i])]
    BY <2>1
  <2> QED BY <2>2
<1>3. ASSUME NEW n \in Nat, n \in T
      PROVE  n + 1 \in T
  <2>1. PICK g : g = [i \in 0 .. n |-> IF i = 0 THEN b ELSE Turn(g[i - 1], text[i])]
    BY <1>3
  <2>2. PICK t : t = Turn(g[n], text[n + 1])
    OBVIOUS
  <2>3. PICK h : h = [i \in 0 .. n + 1 |-> IF i = n + 1 THEN t ELSE g[i]]
    OBVIOUS
  <2>4. ASSUME NEW i \in 0 .. n + 1
        PROVE  h[i] = IF i = 0 THEN b ELSE Turn(h[i - 1], text[i])
    <3>1. CASE i = n + 1
      <4>1. h[i] = t /\ h[i - 1] = g[n] /\ i # 0
        BY <2>3, <3>1
      <4> QED BY <2>2, <3>1, <4>1
    <3>2. CASE i # n + 1
      <4>1. i \in 0 .. n /\ h[i] = g[i] /\ (i # 0 => h[i - 1] = g[i - 1])
        BY <2>3, <3>2
      <4>2. g[i] = IF i = 0 THEN b ELSE Turn(g[i - 1], text[i])
        BY <2>1, <4>1
      <4> QED BY <4>1, <4>2
    <3> QED BY <3>1, <3>2
  <2>5. h = [i \in 0 .. n + 1 |-> IF i = 0 THEN b ELSE Turn(h[i - 1], text[i])]
    BY <2>3, <2>4
  <2> QED BY <2>5
<1> HIDE DEF T
<1>4. \A n \in Nat : n \in T
  BY <1>2, <1>3, SetInduction
<1>5. PICK g : g = [i \in 0 .. l |-> IF i = 0 THEN b ELSE Turn(g[i - 1], text[i])]
  BY <1>4 DEF T
<1>6. IsRun(g, m, path, text, l)
  BY <1>1, <1>5 DEF IsRun
<1> QED BY <1>6

(* It begins with what it is given, and goes on turn by turn.              *)
LEMMA RunTurns ==
  ASSUME NEW m, NEW path, NEW text, Len(text) \in Nat
  PROVE  /\ Run(m, path, text)[0] = Begin(m, path)
         /\ \A i \in 1 .. Len(text) :
              Run(m, path, text)[i] = Turn(Run(m, path, text)[i - 1], text[i])
<1>1. PICK b : b = Begin(m, path)
  OBVIOUS
<1>2. PICK run : run = Run(m, path, text)
  OBVIOUS
<1>3. IsRun(run, m, path, text, Len(text))
  <2>1. \E g : IsRun(g, m, path, text, Len(text))
    BY RunExists
  <2> QED BY <1>2, <2>1, RunChosen
<1>4. run = [i \in 0 .. Len(text) |-> IF i = 0 THEN b ELSE Turn(run[i - 1], text[i])]
  BY <1>1, <1>3 DEF IsRun, Begin
<1>5. run[0] = b
  BY <1>4
<1>6. \A i \in 1 .. Len(text) : run[i] = Turn(run[i - 1], text[i])
  BY <1>4
<1> QED BY <1>1, <1>2, <1>5, <1>6

-----------------------------------------------------------------------------
StringEnds(s, n) == /\ \A i \in 1 .. n : s[i] # "NUL"
                    /\ n < Len(s) => s[n + 1] = "NUL"

(* strlen() finds a NUL, or the end.                                       *)
LEMMA StringEnd ==
  ASSUME NEW S, NEW s \in Seq(S)
  PROVE  \E n \in 0 .. Len(s) : StringEnds(s, n)
<1>1. CASE \A i \in 1 .. Len(s) : s[i] # "NUL"
  <2>1. Len(s) \in 0 .. Len(s) /\ StringEnds(s, Len(s))
    BY <1>1 DEF StringEnds
  <2> QED BY <2>1
<1>2. CASE ~(\A i \in 1 .. Len(s) : s[i] # "NUL")
  <2> DEFINE T == {i \in 1 .. Len(s) : s[i] = "NUL"}
  <2>1. T \subseteq Nat /\ T # {}
    BY <1>2
  <2>2. PICK n \in T : \A k \in T : ~(k < n)
    <3> HIDE DEF T
    <3> QED BY <2>1, NatLeast
  <2>3. n \in 1 .. Len(s) /\ s[n] = "NUL"
    OBVIOUS
  <2>4. \A i \in 1 .. n - 1 : s[i] # "NUL"
    <3>1. SUFFICES ASSUME NEW i \in 1 .. n - 1, s[i] = "NUL" PROVE FALSE
      OBVIOUS
    <3>2. i \in T /\ i < n
      BY <2>3, <3>1
    <3> QED BY <2>2, <3>2
  <2>5. n - 1 \in 0 .. Len(s) /\ (n - 1) + 1 = n
    BY <2>3
  <2>6. StringEnds(s, n - 1)
    BY <2>3, <2>4, <2>5 DEF StringEnds
  <2> QED BY <2>5, <2>6
<1> QED BY <1>1, <1>2

(* What strlen() leaves of a buffer.                                       *)
LEMMA CStringText ==
  ASSUME NEW S, NEW s \in Seq(S)
  PROVE  /\ CString(s) \in Seq(S \ {"NUL"}) /\ Len(CString(s)) <= Len(s)
         /\ \A i \in 1 .. Len(CString(s)) : CString(s)[i] = s[i]
<1>1. PICK n : n = CHOOSE k \in 0 .. Len(s) : StringEnds(s, k)
  OBVIOUS
<1>2. n \in 0 .. Len(s) /\ StringEnds(s, n)
  BY <1>1, StringEnd
<1>3. CString(s) = SubSeq(s, 1, n)
  BY <1>1 DEF CString, StringEnds
<1>4. /\ SubSeq(s, 1, n) \in Seq(S) /\ Len(SubSeq(s, 1, n)) = n
      /\ \A i \in 1 .. n : SubSeq(s, 1, n)[i] = s[i]
  BY <1>2
<1>5. SubSeq(s, 1, n) \in Seq(S \ {"NUL"})
  <2>1. PICK t : t = SubSeq(s, 1, n)
    OBVIOUS
  <2>2. t \in Seq(S) /\ Len(t) = n /\ \A i \in 1 .. Len(t) : t[i] \in S \ {"NUL"}
    BY <1>2, <1>4, <2>1 DEF StringEnds
  <2>3. t \in Seq(S \ {"NUL"})
    BY <2>2
  <2> QED BY <2>1, <2>3
<1> QED BY <1>2, <1>3, <1>4, <1>5

(* on_path_cb() leaves a string as long as the longer of the two.          *)
LEMMA PathCopied ==
  ASSUME NEW S, NEW path \in Seq(S), NEW piece \in Seq(S), NEW l \in Nat,
         Len(path) < l, Len(piece) < l
  PROVE  on_path_cb(path, piece) \in Seq(S) /\ Len(on_path_cb(path, piece)) < l
<1>1. PICK t : t = SubSeq(path, Len(piece) + 1, Len(path))
  OBVIOUS
<1>2. t \in Seq(S) /\ Len(piece) + Len(t) < l
  <2>1. CASE Len(piece) + 1 <= Len(path)
    BY <1>1, <2>1
  <2>2. CASE ~(Len(piece) + 1 <= Len(path))
    <3>1. t = <<>>
      BY <1>1, <2>2
    <3> QED BY <3>1
  <2> QED BY <2>1, <2>2
<1>3. on_path_cb(path, piece) = piece \o t
  BY <1>1 DEF on_path_cb
<1> QED BY <1>2, <1>3

-----------------------------------------------------------------------------
(* What HttpParserProofs shows of one more byte, in terms of P.            *)
LEMMA ParserAssumed == PP!HttpParserAssumption
BY ReceiveMessageAssumption, ParserAssumption, SameTables DEF PP!HttpParserAssumption

(* A turn keeps the parser fit for the next one.                           *)
LEMMA TurnFits ==
  ASSUME NEW m, NEW ch, PP!Fit(m), PP!Alive(m)
  PROVE  PP!Continues(m, ch, Parsed(m, ch))
BY PP!ParsedFits, ParserAssumed, SameParsed

(* A turn keeps two parsers of one string alike.                           *)
LEMMA TurnSame ==
  ASSUME NEW m, NEW w, NEW ch, PP!Fit(m), PP!Fit(w), PP!SameRun(m, w), PP!Alive(m)
  PROVE  PP!SameRun(Parsed(m, ch), Parsed(w, ch))
BY PP!ParsedSame, ParserAssumed, SameParsed

(* A parser that may not go on is dead after its turn.                     *)
LEMMA TurnError ==
  ASSUME NEW m, PP!Fit(m)
  PROVE  /\ PP!Fit(P!Error(m)) /\ P!Error(m).state = "s_dead" /\ P!Error(m).marks = m.marks
         /\ ~PP!Alive(P!Error(m))
BY PP!ErrorFits, ParserAssumed, SameError

(* http_parser_init() makes any two parsers alike.                         *)
LEMMA RequestBegins ==
  ASSUME NEW m \in PP!Parsers, NEW w \in PP!Parsers
  PROVE  LET n == P!http_parser_init(m, "REQUEST")
             v == P!http_parser_init(w, "REQUEST")
         IN  /\ PP!Fit(n) /\ PP!Fit(v) /\ PP!SameRun(n, v)
             /\ n.state \in PP!StartStates /\ PP!Alive(n) /\ n.marks = {}
<1>1. "REQUEST" \in {"REQUEST", "RESPONSE", "BOTH"}
  OBVIOUS
<1> QED BY <1>1, PP!InitSame, ParserAssumed, SameEnds

(* The global parser starts as zeroed memory.                              *)
LEMMA ZeroedIsParser == P!Zeroed \in PP!Parsers
BY PP!ZeroedParser, ParserAssumed, SameEnds

(* What a call leaves of the parser can be set up again.                   *)
LEMMA SavedIsParser ==
  ASSUME NEW m \in PP!Parsers
  PROVE  [P!Save(m) EXCEPT !.marks = {}, !.calls = <<"none">>] \in PP!Parsers
BY PP!SavedParser, ParserAssumed, SameEnds

-----------------------------------------------------------------------------
(* The piece of a URL that a turn has marked holds only bytes since the    *)
(* first one of the text and since its last line end.                      *)
Marked(r, text, i) ==
  /\ "url" \notin r.parser.marks => r.piece = <<>>
  /\ Len(r.piece) <= IF i = 0 THEN 0 ELSE i - 1
  /\ \A j \in 1 .. i : text[j] \in {"CR", "LF"} => Len(r.piece) <= i - j

Fields(r) == r = [parser |-> r.parser, piece |-> r.piece, path |-> r.path]
Sound(r, text, i) ==
  /\ Fields(r) /\ PP!Fit(r.parser)
  /\ r.piece \in Seq(Chars)
  /\ r.path \in Seq(Chars) /\ Len(r.path) < BufSize
  /\ i = 0 => r.parser.state \in PP!StartStates
  /\ r.parser.state # "s_dead" => Marked(r, text, i)

(* A text that fits: past the size of recv_buffer it has a line end in the *)
(* last bytes of it, and less than a buffer after that.                    *)
FitsBuffer(text) ==
  /\ text \in Seq(Chars)
  /\ Len(text) > BufSize =>
       \E j \in 1 .. BufSize : text[j] \in {"CR", "LF"} /\ Len(text) - j < BufSize

(* The piece marked is shorter than recv_buffer.                           *)
LEMMA PieceFits ==
  ASSUME NEW r, NEW text, NEW i \in 0 .. Len(text), FitsBuffer(text), Sound(r, text, i),
         r.parser.state # "s_dead"
  PROVE  Len(r.piece) < BufSize
<1>1. BufSize \in Nat /\ BufSize > 0
  BY ReceiveMessageAssumption
<1>2. PICK l \in Nat : l = Len(text)
  BY DEF FitsBuffer
<1>3. PICK n \in Nat : n = Len(r.piece)
  BY DEF Sound
<1>4. /\ n <= IF i = 0 THEN 0 ELSE i - 1
      /\ \A j \in 1 .. i : text[j] \in {"CR", "LF"} => n <= i - j
  BY <1>3 DEF Sound, Marked
<1>5. CASE i <= BufSize
  BY <1>1, <1>2, <1>3, <1>4, <1>5
<1>6. CASE i > BufSize
  <2>1. l > BufSize /\ i <= l
    BY <1>1, <1>2, <1>6
  <2>2. PICK j \in 1 .. BufSize : text[j] \in {"CR", "LF"} /\ l - j < BufSize
    BY <1>2, <2>1 DEF FitsBuffer
  <2>3. j \in 1 .. i
    BY <1>1, <1>2, <1>6
  <2>4. n <= i - j
    BY <1>4, <2>2, <2>3
  <2> QED BY <1>1, <1>2, <1>3, <2>1, <2>2, <2>4
<1> QED BY <1>1, <1>2, <1>5, <1>6

(* A turn keeps what request_path and the piece are bounded by.            *)
LEMMA TurnSound ==
  ASSUME NEW r, NEW text, NEW i \in 0 .. Len(text) - 1, FitsBuffer(text), Sound(r, text, i)
  PROVE  Sound(Turn(r, text[i + 1]), text, i + 1)
<1>1. PICK ch \in Chars : ch = text[i + 1]
  BY DEF FitsBuffer
<1>2. PICK n : n = Turn(r, ch)
  OBVIOUS
<1>3. /\ Fields(r) /\ PP!Fit(r.parser) /\ r.piece \in Seq(Chars)
      /\ r.path \in Seq(Chars) /\ Len(r.path) < BufSize /\ i \in Nat /\ i + 1 # 0
      /\ BufSize \in Nat
  BY ReceiveMessageAssumption DEF Sound
<1>4. CASE r.parser.upgrade \/ r.parser.state = "s_dead"
  <2>1. PICK e : e = P!Error(r.parser)
    OBVIOUS
  <2>2. n = [parser |-> e, piece |-> r.piece, path |-> r.path]
    BY <1>2, <1>3, <1>4, <2>1 DEF Turn, Fields
  <2>3. PP!Fit(e) /\ e.state = "s_dead"
    BY <1>3, <2>1, TurnError
  <2> QED BY <1>1, <1>2, <1>3, <2>2, <2>3 DEF Sound, Fields
<1>5. CASE ~(r.parser.upgrade \/ r.parser.state = "s_dead")
  <2>1. PICK m : m = Parsed(r.parser, ch)
    OBVIOUS
  <2>2. PP!Alive(r.parser)
    BY <1>5 DEF PP!Alive
  <2>3. PP!Continues(r.parser, ch, m)
    BY <1>3, <2>1, <2>2, TurnFits
  <2>4. PICK a, b : /\ a = IF "url" \in m.marks THEN Append(r.piece, ch) ELSE <<>>
                    /\ b = IF "url" \in r.parser.marks \ m.marks
                           THEN on_path_cb(r.path, r.piece) ELSE r.path
    OBVIOUS
  <2>5. n = [parser |-> m, piece |-> a, path |-> b]
    BY <1>2, <1>5, <2>1, <2>4, HandedIsUrl DEF Turn
  <2>6. Len(r.piece) < BufSize
    <3>1. i \in 0 .. Len(text)
      BY <1>3 DEF FitsBuffer
    <3> QED BY <1>5, <3>1, PieceFits
  <2>7. b \in Seq(Chars) /\ Len(b) < BufSize
    BY <1>3, <2>4, <2>6, PathCopied
  <2>8. a \in Seq(Chars)
    BY <1>3, <2>4
  <2>9. ASSUME m.state # "s_dead"
        PROVE  Marked(n, text, i + 1)
    <3>1. "url" \in m.marks <=> m.state \in PP!UrlStates
      BY <2>3, <2>9 DEF PP!Continues, PP!Fit
    <3>2. CASE "url" \notin m.marks
      <4>1. a = <<>> /\ Len(a) = 0
        BY <2>4, <3>2
      <4>2. Len(a) <= i /\ \A j \in 1 .. i + 1 : Len(a) <= i + 1 - j
        BY <1>3, <4>1
      <4> QED BY <1>3, <2>5, <4>1, <4>2 DEF Marked
    <3>3. CASE "url" \in m.marks
      <4>1. r.parser.state \notin PP!StartStates /\ ch \notin {"CR", "LF"}
        BY <2>3, <3>1, <3>3 DEF PP!Continues
      <4>2. i # 0 /\ ch \notin {"CR", "LF"}
        BY <4>1 DEF Sound
      <4>3. PICK k \in Nat : k = Len(r.piece)
        BY <1>3
      <4>4. k <= i - 1 /\ \A j \in 1 .. i : text[j] \in {"CR", "LF"} => k <= i - j
        BY <1>3, <1>5, <4>2, <4>3 DEF Sound, Marked
      <4>5. a = Append(r.piece, ch) /\ Len(a) = k + 1
        BY <1>3, <2>4, <3>3, <4>3
      <4>6. k + 1 <= (i + 1) - 1
        BY <1>3, <4>4
      <4>7. ASSUME NEW j \in 1 .. i + 1, text[j] \in {"CR", "LF"}
            PROVE  k + 1 <= (i + 1) - j
        <5>1. j # i + 1
          BY <1>1, <4>2, <4>7
        <5>2. j \in 1 .. i
          BY <1>3, <5>1
        <5>3. k <= i - j
          BY <4>4, <4>7, <5>2
        <5> QED BY <1>3, <5>2, <5>3
      <4> QED BY <1>3, <2>5, <3>3, <4>5, <4>6, <4>7 DEF Marked
    <3> QED BY <3>2, <3>3
  <2> QED BY <1>1, <1>2, <1>3, <2>3, <2>5, <2>7, <2>8, <2>9 DEF Sound, Fields, PP!Continues
<1> QED BY <1>4, <1>5

(* By induction over the turns: the URLs of a text that fits the buffer    *)
(* fit request_path, and what the call leaves in the parser is a parser.   *)
LEMMA RunSound ==
  ASSUME NEW m \in PP!Parsers, NEW text, FitsBuffer(text)
  PROVE  Sound(Run(P!http_parser_init(m, "REQUEST"), <<>>, text)[Len(text)], text, Len(text))
<1>1. PICK p : p = P!http_parser_init(m, "REQUEST")
  OBVIOUS
<1>2. PICK run : run = Run(p, <<>>, text)
  OBVIOUS
<1>3. PICK l \in Nat : l = Len(text)
  BY DEF FitsBuffer
<1>4. /\ run[0] = [parser |-> p, piece |-> <<>>, path |-> <<>>]
      /\ \A i \in 1 .. l : run[i] = Turn(run[i - 1], text[i])
  BY <1>2, <1>3, RunTurns DEF Begin
<1> DEFINE T == {i \in Nat : i <= l => Sound(run[i], text, i)}
<1>5. 0 \in T
  <2>1. PP!Fit(p) /\ p.state \in PP!StartStates /\ p.marks = {}
    BY <1>1, RequestBegins
  <2>2. Len(<<>>) = 0 /\ <<>> \in Seq(Chars) /\ 0 < BufSize
    BY ReceiveMessageAssumption
  <2>3. Marked(run[0], text, 0)
    BY <1>4, <2>1, <2>2 DEF Marked
  <2>4. Sound(run[0], text, 0)
    BY <1>4, <2>1, <2>2, <2>3 DEF Sound, Fields
  <2> QED BY <2>4
<1>6. ASSUME NEW i \in Nat, i \in T
      PROVE  i + 1 \in T
  <2>1. SUFFICES ASSUME i + 1 <= l PROVE Sound(run[i + 1], text, i + 1)
    OBVIOUS
  <2>2. Sound(run[i], text, i) /\ i \in 0 .. l - 1 /\ i + 1 \in 1 .. l
    BY <1>3, <1>6, <2>1
  <2>3. run[i + 1] = Turn(run[i], text[i + 1])
    <3>1. run[i + 1] = Turn(run[(i + 1) - 1], text[i + 1])
      BY <1>4, <2>2
    <3>2. (i + 1) - 1 = i
      OBVIOUS
    <3> QED BY <3>1, <3>2
  <2>4. Sound(Turn(run[i], text[i + 1]), text, i + 1)
    BY <1>3, <2>2, TurnSound
  <2> QED BY <2>3, <2>4
<1> HIDE DEF T
<1>7. \A i \in Nat : i \in T
  BY <1>5, <1>6, SetInduction
<1>8. l \in T
  BY <1>7
<1> QED BY <1>1, <1>2, <1>3, <1>8 DEF T

(* A parse leaves a parser, and a string that fits request_path.           *)
LEMMA ParseSound ==
  ASSUME NEW m \in PP!Parsers, NEW buffer, FitsBuffer(CString(buffer))
  PROVE  LET r == Parse(m, <<>>, buffer)
         IN  /\ r.parser \in PP!Parsers
             /\ r.path \in Seq(Chars) /\ Len(r.path) < BufSize
<1>1. PICK text : text = CString(buffer)
  OBVIOUS
<1>2. PICK p : p = P!http_parser_init(m, "REQUEST")
  OBVIOUS
<1>3. PICK r : r = Run(p, <<>>, text)[Len(text)]
  OBVIOUS
<1>4. PICK l \in Nat : l = Len(text)
  BY <1>1 DEF FitsBuffer
<1>5. Sound(r, text, l)
  BY <1>1, <1>2, <1>3, <1>4, RunSound
<1>6. PICK e : e = http_parser_execute(p, <<>>, text)
  OBVIOUS
<1>7. /\ e.parser = [P!Save(r.parser) EXCEPT !.marks = {}, !.calls = <<"none">>]
      /\ e.path = IF "url" \in r.parser.marks /\ r.parser.state # "s_dead"
                  THEN on_path_cb(r.path, r.piece) ELSE r.path
  BY <1>3, <1>6, ExecuteRun
<1>8. Parse(m, <<>>, buffer) = e
  BY <1>1, <1>2, <1>6 DEF Parse
<1>9. e.parser \in PP!Parsers
  BY <1>5, <1>7, SavedIsParser DEF Sound, PP!Fit
<1>10. e.path \in Seq(Chars) /\ Len(e.path) < BufSize
  <2>1. r.path \in Seq(Chars) /\ r.piece \in Seq(Chars) /\ Len(r.path) < BufSize /\ BufSize \in Nat
    BY <1>5, ReceiveMessageAssumption DEF Sound
  <2>2. CASE r.parser.state # "s_dead"
    <3>1. l \in 0 .. Len(text)
      BY <1>4
    <3>2. Len(r.piece) < BufSize
      BY <1>1, <1>5, <2>2, <3>1, PieceFits
    <3> QED BY <1>7, <2>1, <3>2, PathCopied
  <2>3. CASE r.parser.state = "s_dead"
    BY <1>7, <2>1, <2>3
  <2> QED BY <2>2, <2>3
<1> QED BY <1>8, <1>9, <1>10

-----------------------------------------------------------------------------
(* Two runs over one text, of parsers that only an earlier request tells   *)
(* apart.                                                                  *)
Alike(r, s) ==
  /\ Fields(r) /\ Fields(s) /\ PP!Fit(r.parser) /\ PP!Fit(s.parser)
  /\ r.piece = s.piece /\ r.path = s.path
  /\ r.parser.state = s.parser.state /\ r.parser.marks = s.parser.marks
  /\ r.parser.upgrade = s.parser.upgrade
  /\ PP!Alive(r.parser) => PP!SameRun(r.parser, s.parser)

(* A turn over the same byte keeps two runs alike.                         *)
LEMMA TurnAlike ==
  ASSUME NEW r, NEW s, NEW ch, Alike(r, s)
  PROVE  Alike(Turn(r, ch), Turn(s, ch))
<1>1. /\ Fields(r) /\ Fields(s) /\ PP!Fit(r.parser) /\ PP!Fit(s.parser)
      /\ r.piece = s.piece /\ r.path = s.path
      /\ r.parser.state = s.parser.state /\ r.parser.marks = s.parser.marks
      /\ r.parser.upgrade = s.parser.upgrade
  BY DEF Alike
<1>2. CASE r.parser.upgrade \/ r.parser.state = "s_dead"
  <2>1. PICK d, e : d = P!Error(r.parser) /\ e = P!Error(s.parser)
    OBVIOUS
  <2>2. /\ Turn(r, ch) = [parser |-> d, piece |-> r.piece, path |-> r.path]
        /\ Turn(s, ch) = [parser |-> e, piece |-> s.piece, path |-> s.path]
    BY <1>1, <1>2, <2>1 DEF Turn, Fields
  <2>3. /\ PP!Fit(d) /\ d.state = "s_dead" /\ d.marks = r.parser.marks
        /\ PP!Fit(e) /\ e.state = "s_dead" /\ e.marks = s.parser.marks
        /\ ~PP!Alive(d)
    BY <1>1, <2>1, TurnError
  <2>4. d.upgrade = e.upgrade
    BY <1>1, <2>1 DEF P!Error, PP!Fit, PP!Parsers
  <2> QED BY <1>1, <2>2, <2>3, <2>4 DEF Alike, Fields
<1>3. CASE ~(r.parser.upgrade \/ r.parser.state = "s_dead")
  <2>1. PICK m, w : m = Parsed(r.parser, ch) /\ w = Parsed(s.parser, ch)
    OBVIOUS
  <2>2. PP!Alive(r.parser) /\ PP!Alive(s.parser) /\ PP!SameRun(r.parser, s.parser)
    BY <1>1, <1>3 DEF PP!Alive, Alike
  <2>3. PP!Fit(m) /\ PP!Fit(w)
    BY <1>1, <2>1, <2>2, TurnFits DEF PP!Continues
  <2>4. PP!SameRun(m, w)
    BY <1>1, <2>1, <2>2, TurnSame
  <2>5. m.state = w.state /\ m.marks = w.marks /\ m.upgrade = w.upgrade
    BY <2>4 DEF PP!SameRun
  <2>6. PICK a, b : /\ a = IF "url" \in m.marks THEN Append(r.piece, ch) ELSE <<>>
                    /\ b = IF "url" \in r.parser.marks \ m.marks
                           THEN on_path_cb(r.path, r.piece) ELSE r.path
    OBVIOUS
  <2>7. /\ Turn(r, ch) = [parser |-> m, piece |-> a, path |-> b]
        /\ Turn(s, ch) = [parser |-> w, piece |-> a, path |-> b]
    BY <1>1, <1>3, <2>1, <2>5, <2>6, HandedIsUrl DEF Turn
  <2> QED BY <2>3, <2>4, <2>5, <2>7 DEF Alike, Fields
<1> QED BY <1>2, <1>3

(* By induction over the turns: http_parser_init() hides what is left in   *)
(* the parser from the request.                                            *)
LEMMA ParseAlike ==
  ASSUME NEW m \in PP!Parsers, NEW w \in PP!Parsers, NEW buffer, Len(CString(buffer)) \in Nat
  PROVE  Parse(m, <<>>, buffer).path = Parse(w, <<>>, buffer).path
<1>1. PICK text : text = CString(buffer)
  OBVIOUS
<1>2. PICK p, q : p = P!http_parser_init(m, "REQUEST") /\ q = P!http_parser_init(w, "REQUEST")
  OBVIOUS
<1>3. PICK run, other : run = Run(p, <<>>, text) /\ other = Run(q, <<>>, text)
  OBVIOUS
<1>4. PICK l \in Nat : l = Len(text)
  BY <1>1
<1>5. /\ run[0] = [parser |-> p, piece |-> <<>>, path |-> <<>>]
      /\ other[0] = [parser |-> q, piece |-> <<>>, path |-> <<>>]
      /\ \A i \in 1 .. l : run[i] = Turn(run[i - 1], text[i])
      /\ \A i \in 1 .. l : other[i] = Turn(other[i - 1], text[i])
  <2>1. run[0] = Begin(p, <<>>) /\ \A i \in 1 .. Len(text) : run[i] = Turn(run[i - 1], text[i])
    BY <1>3, <1>4, RunTurns
  <2>2. other[0] = Begin(q, <<>>)
          /\ \A i \in 1 .. Len(text) : other[i] = Turn(other[i - 1], text[i])
    BY <1>3, <1>4, RunTurns
  <2> QED BY <1>4, <2>1, <2>2 DEF Begin
<1> DEFINE T == {i \in Nat : i <= l => Alike(run[i], other[i])}
<1>6. 0 \in T
  <2>1. PP!Fit(p) /\ PP!Fit(q) /\ PP!SameRun(p, q)
    BY <1>2, RequestBegins
  <2>2. p.state = q.state /\ p.marks = q.marks /\ p.upgrade = q.upgrade
    BY <2>1 DEF PP!SameRun
  <2>3. Alike(run[0], other[0])
    BY <1>5, <2>1, <2>2 DEF Alike, Fields
  <2> QED BY <2>3
<1>7. ASSUME NEW i \in Nat, i \in T
      PROVE  i + 1 \in T
  <2>1. SUFFICES ASSUME i + 1 <= l PROVE Alike(run[i + 1], other[i + 1])
    OBVIOUS
  <2>2. Alike(run[i], other[i]) /\ i + 1 \in 1 .. l /\ (i + 1) - 1 = i
    BY <1>4, <1>7, <2>1
  <2>3. run[i + 1] = Turn(run[i], text[i + 1]) /\ other[i + 1] = Turn(other[i], text[i + 1])
    BY <1>5, <2>2
  <2> QED BY <2>2, <2>3, TurnAlike
<1> HIDE DEF T
<1>8. \A i \in Nat : i \in T
  BY <1>6, <1>7, SetInduction
<1>9. Alike(run[l], other[l])
  BY <1>8 DEF T
<1>10. PICK d, e : d = http_parser_execute(p, <<>>, text) /\ e = http_parser_execute(q, <<>>, text)
  OBVIOUS
<1>11. PICK r, s : r = run[l] /\ s = other[l]
  OBVIOUS
<1>12. /\ d.path = IF "url" \in r.parser.marks /\ r.parser.state # "s_dead"
                   THEN on_path_cb(r.path, r.piece) ELSE r.path
       /\ e.path = IF "url" \in s.parser.marks /\ s.parser.state # "s_dead"
                   THEN on_path_cb(s.path, s.piece) ELSE s.path
  BY <1>3, <1>4, <1>10, <1>11, ExecuteRun
<1>13. d.path = e.path
  BY <1>9, <1>11, <1>12 DEF Alike
<1> QED BY <1>1, <1>2, <1>10, <1>13 DEF Parse

-----------------------------------------------------------------------------
(* The text of a request: the buffer, and what lies behind a full one.     *)
LEMMA TextFits ==
  ASSUME NEW b \in Seq(Bytes), Len(b) <= BufSize, ~is_req_finished(b),
         NEW rest \in Seq(Chars), Len(b) # BufSize => rest = <<>>,
         Len(b) = BufSize => Len(rest) + 3 < BufSize
  PROVE  FitsBuffer(CString(b \o rest))
<1>1. PICK s : s = b \o rest
  OBVIOUS
<1>2. PICK text : text = CString(s)
  OBVIOUS
<1>3. PICK n \in Nat, k \in Nat : n = Len(b) /\ k = Len(rest)
  OBVIOUS
<1>4. /\ s \in Seq(Bytes) /\ Len(s) = n + k /\ \A i \in 1 .. n : s[i] = b[i]
  <2>1. rest \in Seq(Bytes)
    BY DEF Bytes
  <2> QED BY <1>1, <1>3, <2>1
<1>5. /\ text \in Seq(Bytes \ {"NUL"}) /\ Len(text) <= n + k
      /\ \A i \in 1 .. Len(text) : text[i] = s[i]
  BY <1>2, <1>4, CStringText
<1>6. text \in Seq(Chars)
  <2>1. Bytes \ {"NUL"} \subseteq Chars
    BY DEF Bytes
  <2> QED BY <1>5, <2>1
<1>7. PICK l \in Nat : l = Len(text)
  BY <1>6
<1>8. BufSize \in Nat /\ BufSize > 0
  BY ReceiveMessageAssumption
<1>9. ASSUME l > BufSize
      PROVE  \E j \in 1 .. BufSize : text[j] \in {"CR", "LF"} /\ l - j < BufSize
  <2>1. n = BufSize
    <3>1. n # BufSize => k = 0
      BY <1>3
    <3> QED BY <1>3, <1>5, <1>7, <1>8, <1>9, <3>1
  <2>2. PICK j \in n - 3 .. n : At(b, j) \in {"CR", "LF"}
    <3>1. \/ At(b, n) = "LF" \/ At(b, n - 1) = "CR" \/ At(b, n - 2) = "LF" \/ At(b, n - 3) = "CR"
      BY <1>3 DEF is_req_finished
    <3>2. n \in n - 3 .. n /\ n - 1 \in n - 3 .. n /\ n - 2 \in n - 3 .. n /\ n - 3 \in n - 3 .. n
      OBVIOUS
    <3> QED BY <3>1, <3>2
  <2>3. j > 0 /\ b[j] \in {"CR", "LF"}
    BY <2>2 DEF At
  <2>4. j \in 1 .. BufSize /\ j \in 1 .. l /\ j \in 1 .. n
    BY <1>7, <1>8, <1>9, <2>1, <2>2, <2>3
  <2>5. text[j] = b[j]
    BY <1>4, <1>5, <1>7, <2>4
  <2>6. l - j < BufSize
    BY <1>3, <1>5, <1>7, <1>8, <2>1, <2>2
  <2> QED BY <2>3, <2>4, <2>5, <2>6
<1> QED BY <1>1, <1>2, <1>6, <1>7, <1>9 DEF FitsBuffer

(* What a request leaves behind.                                           *)
LEMMA WholeParsed ==
  ASSUME ReceiveInv, request_parser \in PP!Parsers, ReceiveWhole
  PROVE  /\ request_parser' \in PP!Parsers
         /\ conn'.state = "DATA_RECEIVED" /\ conn'.recv_buffer = Collected
         /\ conn'.request_path \in Seq(Chars) /\ Len(conn'.request_path) < BufSize
         /\ Len(Collected) < BufSize =>
              conn'.request_path = Parse(P!Zeroed, <<>>, Collected).path
<1>1. /\ Queued > 0 /\ Room > 0 /\ ~is_req_finished(Collected)
  BY DEF ReceiveWhole
<1>2. Collected \in Seq(Bytes) /\ Len(Collected) <= BufSize
  BY <1>1, CollectedPrefix DEF ReceiveInv
<1>3. PICK rest \in IF Len(Collected) = BufSize THEN Behind ELSE {<<>>} :
        LET r == Parse(request_parser, <<>>, Collected \o rest)
        IN  /\ request_parser' = r.parser
            /\ conn' = [state |-> "DATA_RECEIVED", recv_buffer |-> Collected,
                        request_path |-> r.path]
  BY DEF ReceiveWhole
<1>4. PICK r : r = Parse(request_parser, <<>>, Collected \o rest)
  OBVIOUS
<1>5. /\ request_parser' = r.parser
      /\ conn' = [state |-> "DATA_RECEIVED", recv_buffer |-> Collected, request_path |-> r.path]
  BY <1>3, <1>4
<1>6. /\ rest \in Seq(Chars)
      /\ Len(Collected) # BufSize => rest = <<>>
      /\ Len(Collected) = BufSize => Len(rest) + 3 < BufSize
  <2>1. CASE Len(Collected) = BufSize
    BY <1>3, <2>1, ReceiveMessageAssumption
  <2>2. CASE Len(Collected) # BufSize
    <3>1. rest = <<>>
      BY <1>3, <2>2
    <3> QED BY <2>2, <3>1
  <2> QED BY <2>1, <2>2
<1>7. ASSUME Len(Collected) # BufSize
      PROVE  Collected \o rest = Collected
  BY <1>2, <1>6, <1>7
<1>8. request_parser' \in PP!Parsers /\ r.path \in Seq(Chars) /\ Len(r.path) < BufSize
  <2>1. FitsBuffer(CString(Collected \o rest))
    BY <1>1, <1>2, <1>6, TextFits
  <2> QED BY <1>4, <1>5, <2>1, ParseSound
<1>9. ASSUME Len(Collected) < BufSize
      PROVE  r.path = Parse(P!Zeroed, <<>>, Collected).path
  <2>1. Collected \o rest = Collected
    BY <1>2, <1>7, <1>9, ReceiveMessageAssumption
  <2>2. Len(CString(Collected)) \in Nat
    BY <1>2, CStringText
  <2> QED BY <1>4, <2>1, <2>2, ParseAlike, ZeroedIsParser
<1> QED BY <1>5, <1>8, <1>9

(* The inductive invariant of request_path: the global parser is one that  *)
(* http_parser_init() can set up again, and the string has been parsed by  *)
(* a run like that of a parser nobody has used.                            *)
PathType ==
  /\ conn.state \in {"NEW_CONN", "RECEIVING", "DATA_RECEIVED", "CLOSED", "REMOVED"}
  /\ conn.request_path \in Seq(Chars) /\ Len(conn.request_path) < BufSize
Ended == conn.state = "DATA_RECEIVED" => ~is_req_finished(conn.recv_buffer)
PathInv ==
  ReceiveInv /\ request_parser \in PP!Parsers /\ PathType /\ OwnPath /\ Ended

(* Every step that parses nothing leaves request_path alone or empties it. *)
LEMMA NoPathParsed ==
  ASSUME PathType, OwnPath, Ended,
         \/ conn' = conn
         \/ conn' = connection_create
         \/ \E s \in {"RECEIVING", "CLOSED", "REMOVED"} : \E b :
              conn' = [state |-> s, recv_buffer |-> b, request_path |-> conn.request_path]
  PROVE  PathType' /\ OwnPath' /\ Ended'
<1>1. CASE conn' = conn
  BY <1>1 DEF PathType, OwnPath, Ended
<1>2. CASE conn' = connection_create
  <2>1. conn'.state = "NEW_CONN" /\ conn'.request_path = <<>>
    BY <1>2 DEF connection_create
  <2>2. <<>> \in Seq(Chars) /\ Len(<<>>) < BufSize
    BY ReceiveMessageAssumption
  <2> QED BY <2>1, <2>2 DEF PathType, OwnPath, Ended
<1>3. CASE \E s \in {"RECEIVING", "CLOSED", "REMOVED"} : \E b :
             conn' = [state |-> s, recv_buffer |-> b, request_path |-> conn.request_path]
  BY <1>3 DEF PathType, OwnPath, Ended
<1> QED BY <1>1, <1>2, <1>3

(* The first connection has no request, and the parser's memory is zero.   *)
LEMMA PathInit == Init => PathInv
<1> SUFFICES ASSUME Init PROVE PathInv
  OBVIOUS
<1>1. ReceiveInv
  BY ReceiveInit
<1>2. request_parser \in PP!Parsers
  BY ZeroedIsParser DEF Init
<1>3. conn.state = "NEW_CONN" /\ conn.request_path = <<>>
  BY DEF Init, connection_create
<1>4. PathType
  BY <1>3, ReceiveMessageAssumption DEF PathType
<1>5. OwnPath /\ Ended
  BY <1>3 DEF OwnPath, Ended
<1> QED BY <1>1, <1>2, <1>4, <1>5 DEF PathInv

(* Only ReceiveWhole parses, and then all that the buffer holds.           *)
LEMMA PathStep == PathInv /\ [Next]_vars => PathInv'
<1> SUFFICES ASSUME PathInv, [Next]_vars
             PROVE  PathInv'
  OBVIOUS
<1>1. ReceiveInv /\ request_parser \in PP!Parsers /\ PathType /\ OwnPath /\ Ended
  BY DEF PathInv
<1>2. ReceiveInv'
  BY <1>1, ReceiveStep
<1>3. conn = [state |-> conn.state, recv_buffer |-> conn.recv_buffer,
              request_path |-> conn.request_path]
  BY <1>1 DEF ReceiveInv, BufferType
<1>4. ASSUME request_parser' = request_parser,
             \/ conn' = conn
             \/ conn' = connection_create
             \/ \E s \in {"RECEIVING", "CLOSED", "REMOVED"} : \E b :
                  conn' = [state |-> s, recv_buffer |-> b, request_path |-> conn.request_path]
      PROVE  PathInv'
  <2>1. PathType' /\ OwnPath' /\ Ended'
    BY <1>1, <1>4, NoPathParsed
  <2>2. (request_parser \in PP!Parsers)'
    BY <1>1, <1>4
  <2> QED BY <1>2, <2>1, <2>2 DEF PathInv
<1>5. CASE Arrive
  BY <1>4, <1>5 DEF Arrive
<1>6. ASSUME NEW e \in {"fin", "reset"}, Stop(e)
      PROVE  PathInv'
  BY <1>4, <1>6 DEF Stop
<1>7. CASE ReceiveFails
  <2>1. /\ request_parser' = request_parser
        /\ conn' = [state |-> "REMOVED", recv_buffer |-> conn.recv_buffer,
                    request_path |-> conn.request_path]
    BY <1>3, <1>7 DEF ReceiveFails
  <2> QED BY <1>4, <2>1
<1>8. CASE ReceiveEof
  <2>1. /\ request_parser' = request_parser
        /\ conn' = [state |-> "CLOSED", recv_buffer |-> conn.recv_buffer,
                    request_path |-> conn.request_path]
    BY <1>3, <1>8 DEF ReceiveEof
  <2> QED BY <1>4, <2>1
<1>9. CASE ReceivePart
  <2>1. /\ request_parser' = request_parser
        /\ conn' = [state |-> "RECEIVING", recv_buffer |-> Collected,
                    request_path |-> conn.request_path]
    BY <1>3, <1>9 DEF ReceivePart
  <2> QED BY <1>4, <2>1
<1>10. CASE ReceiveWhole
  <2>1. /\ request_parser' \in PP!Parsers
        /\ conn'.state = "DATA_RECEIVED" /\ conn'.recv_buffer = Collected
        /\ conn'.request_path \in Seq(Chars) /\ Len(conn'.request_path) < BufSize
        /\ Len(Collected) < BufSize =>
             conn'.request_path = Parse(P!Zeroed, <<>>, Collected).path
    BY <1>1, <1>10, WholeParsed
  <2>2. PathType'
    BY <2>1 DEF PathType
  <2>3. OwnPath'
    BY <2>1 DEF OwnPath
  <2>4. (request_parser \in PP!Parsers)'
    BY <2>1
  <2>5. Ended'
    BY <1>10, <2>1 DEF ReceiveWhole, Ended
  <2> QED BY <1>2, <2>2, <2>3, <2>4, <2>5 DEF PathInv
<1>11. ASSUME NEW r \in Requests, NextConnection(r)
       PROVE  PathInv'
  BY <1>4, <1>11 DEF NextConnection
<1>12. CASE UNCHANGED vars
  BY <1>4, <1>12 DEF vars
<1> QED BY <1>5, <1>6, <1>7, <1>8, <1>9, <1>10, <1>11, <1>12 DEF Next

(* The inductive invariant holds: the parser can be set up again,          *)
(* request_path is one parse's of the connection's own buffer, and         *)
(* recv_buffer ended a line or the like when it was parsed.                *)
THEOREM PathCorrect == Spec => []PathInv
BY PathInit, PathStep, PTL DEF Spec

(* recv_buffer holds no more than BUFSIZ bytes and a URL leaves room for   *)
(* its NUL in request_path, into which on_path_cb(), being the callback    *)
(* of on_url, copies the whole of it without looking, whatever peers send  *)
(* and whatever lies behind a full recv_buffer.                            *)
THEOREM BuffersNeverOverrun == Spec => []TypeOK
<1>1. PathInv => TypeOK
  <2> SUFFICES ASSUME PathInv PROVE TypeOK
    OBVIOUS
  <2>1. BufferType /\ PathType
    BY DEF PathInv, ReceiveInv
  <2>2. peer.request \in Requests /\ peer.arrived \in Nat /\ peer.end \in {"open", "fin", "reset"}
    BY <2>1 DEF BufferType
  <2>3. PICK l \in Nat : l = Len(Stream(peer.request))
    BY <2>2, StreamType
  <2>4. peer.arrived \in 0 .. Len(Stream(peer.request))
    BY <2>1, <2>2, <2>3 DEF BufferType
  <2> QED BY <2>1, <2>2, <2>4 DEF BufferType, PathType, TypeOK
<1> QED BY <1>1, PathCorrect, PTL

(* What other connections have left in the parser and in request_path,     *)
(* which are global, has no part in the URL that a connection keeps as its *)
(* path, if its request has not filled recv_buffer.                        *)
THEOREM PathIsOwn == Spec => []OwnPath
<1>1. PathInv => OwnPath
  BY DEF PathInv
<1> QED BY <1>1, PathCorrect, PTL

-----------------------------------------------------------------------------
(* Runs over texts that begin alike go alike so far.                       *)
LEMMA RunPrefix ==
  ASSUME NEW m, NEW path, NEW s, NEW t, Len(s) \in Nat, Len(t) \in Nat,
         Len(s) <= Len(t), \A i \in 1 .. Len(s) : s[i] = t[i]
  PROVE  \A i \in 0 .. Len(s) : Run(m, path, s)[i] = Run(m, path, t)[i]
<1>1. PICK run, other : run = Run(m, path, s) /\ other = Run(m, path, t)
  OBVIOUS
<1>2. PICK k \in Nat, l \in Nat : k = Len(s) /\ l = Len(t)
  OBVIOUS
<1>3. /\ run[0] = Begin(m, path) /\ other[0] = Begin(m, path)
      /\ \A i \in 1 .. k : run[i] = Turn(run[i - 1], s[i])
      /\ \A i \in 1 .. l : other[i] = Turn(other[i - 1], t[i])
  BY <1>1, <1>2, RunTurns
<1> DEFINE T == {i \in Nat : i <= k => run[i] = other[i]}
<1>4. 0 \in T
  BY <1>3
<1>5. ASSUME NEW i \in Nat, i \in T
      PROVE  i + 1 \in T
  <2>1. SUFFICES ASSUME i + 1 <= k PROVE run[i + 1] = other[i + 1]
    OBVIOUS
  <2>2. run[i] = other[i] /\ i + 1 \in 1 .. k /\ i + 1 \in 1 .. l /\ (i + 1) - 1 = i
    BY <1>2, <1>5, <2>1
  <2>3. s[i + 1] = t[i + 1]
    BY <1>2, <2>2
  <2> QED BY <1>3, <2>2, <2>3
<1> HIDE DEF T
<1>6. \A i \in Nat : i \in T
  BY <1>4, <1>5, SetInduction
<1> QED BY <1>1, <1>2, <1>6 DEF T

(* strlen() stops at a NUL, or at the end.                                 *)
LEMMA CStringEnds ==
  ASSUME NEW S, NEW s \in Seq(S), Len(CString(s)) # Len(s)
  PROVE  Len(CString(s)) + 1 \in 1 .. Len(s) /\ s[Len(CString(s)) + 1] = "NUL"
<1>1. PICK t : t = CString(s)
  OBVIOUS
<1>2. PICK n : n = CHOOSE k \in 0 .. Len(s) : StringEnds(s, k)
  OBVIOUS
<1>3. n \in 0 .. Len(s) /\ StringEnds(s, n)
  BY <1>2, StringEnd
<1>4. t = SubSeq(s, 1, n)
  BY <1>1, <1>2 DEF CString, StringEnds
<1>5. Len(t) = n
  BY <1>3, <1>4
<1> QED BY <1>1, <1>3, <1>5 DEF StringEnds

(* The string in a part of a buffer is the part of the string in it.       *)
LEMMA CStringPrefix ==
  ASSUME NEW S, NEW s \in Seq(S), NEW n \in 0 .. Len(s)
  PROVE  LET c == CString(SubSeq(s, 1, n))
             d == CString(s)
         IN  /\ Len(c) \in Nat /\ Len(d) \in Nat /\ Len(c) <= Len(d) /\ Len(c) <= n
             /\ Len(c) = n \/ Len(c) = Len(d)
             /\ \A i \in 1 .. Len(c) : c[i] = d[i]
<1>1. PICK p : p = SubSeq(s, 1, n)
  OBVIOUS
<1>2. p \in Seq(S) /\ Len(p) = n /\ \A i \in 1 .. n : p[i] = s[i]
  BY <1>1
<1>3. PICK c, d : c = CString(p) /\ d = CString(s)
  OBVIOUS
<1>4. /\ c \in Seq(S \ {"NUL"}) /\ Len(c) <= n
      /\ \A i \in 1 .. Len(c) : c[i] = p[i]
  BY <1>2, <1>3, CStringText
<1>5. /\ d \in Seq(S \ {"NUL"}) /\ Len(d) <= Len(s)
      /\ \A i \in 1 .. Len(d) : d[i] = s[i]
  BY <1>3, CStringText
<1>6. PICK k \in Nat, l \in Nat, z \in Nat : k = Len(c) /\ l = Len(d) /\ z = Len(s)
  BY <1>4, <1>5
<1>7. k <= n /\ l <= z /\ n <= z
  BY <1>4, <1>5, <1>6
<1>8. k # n => k + 1 \in 1 .. n /\ p[k + 1] = "NUL"
  BY <1>2, <1>3, <1>6, CStringEnds
<1>9. l # z => l + 1 \in 1 .. z /\ s[l + 1] = "NUL"
  BY <1>3, <1>6, CStringEnds
<1>10. \A i \in 1 .. k : c[i] = s[i] /\ s[i] # "NUL"
  <2>1. \A i \in 1 .. k : c[i] \in S \ {"NUL"}
    BY <1>4, <1>6
  <2>2. \A i \in 1 .. k : c[i] = s[i]
    BY <1>2, <1>4, <1>6, <1>7
  <2> QED BY <2>1, <2>2
<1>11. \A i \in 1 .. l : d[i] = s[i] /\ s[i] # "NUL"
  <2>1. \A i \in 1 .. l : d[i] \in S \ {"NUL"}
    BY <1>5, <1>6
  <2> QED BY <1>5, <1>6, <2>1
<1>12. k <= l
  <2>1. SUFFICES ASSUME l < k PROVE FALSE
    OBVIOUS
  <2>2. l + 1 \in 1 .. k /\ l # z
    BY <1>7, <2>1
  <2> QED BY <1>9, <1>10, <2>2
<1>13. k = n \/ k = l
  <2>1. SUFFICES ASSUME k # n, k < l PROVE FALSE
    BY <1>12
  <2>2. k + 1 \in 1 .. l /\ k + 1 \in 1 .. n
    BY <1>8, <2>1
  <2> QED BY <1>2, <1>8, <1>11, <2>1, <2>2
<1>14. \A i \in 1 .. k : c[i] = d[i]
  BY <1>10, <1>11, <1>12
<1> QED BY <1>1, <1>3, <1>6, <1>7, <1>12, <1>13, <1>14

-----------------------------------------------------------------------------
(* A run before, in and behind the URL, which is text from first to end:   *)
(* nothing is handed over, the URL is being marked, it has been copied.    *)
Stage(r, i, text, first, end) ==
  /\ Fields(r) /\ PP!Fit(r.parser)
  /\ r.piece = IF i \in first .. end THEN SubSeq(text, first, i) ELSE <<>>
  /\ r.path = IF i > end THEN SubSeq(text, first, end) ELSE <<>>

(* A part of a text, one byte longer.                                      *)
LEMMA Longer ==
  ASSUME NEW S, NEW s \in Seq(S), NEW first \in Nat \ {0}, NEW i \in Nat,
         first <= i + 1, i + 1 <= Len(s)
  PROVE  SubSeq(s, first, i + 1) = Append(SubSeq(s, first, i), s[i + 1])
<1>1. PICK a, b : a = SubSeq(s, first, i + 1) /\ b = SubSeq(s, first, i)
  OBVIOUS
<1>2. a \in Seq(S) /\ Len(a) = i + 2 - first /\ \A k \in 1 .. Len(a) : a[k] = s[first + k - 1]
  BY <1>1
<1>3. b \in Seq(S) /\ Len(b) = i + 1 - first /\ \A k \in 1 .. Len(b) : b[k] = s[first + k - 1]
  BY <1>1
<1>4. PICK x \in S : x = s[i + 1]
  OBVIOUS
<1>5. PICK c : c = Append(b, x)
  OBVIOUS
<1>6. c \in Seq(S) /\ Len(c) = Len(a) /\ \A k \in 1 .. Len(b) : c[k] = b[k]
  BY <1>4, <1>2, <1>3, <1>5
<1>7. c[Len(a)] = a[Len(a)]
  <2>1. Len(a) = Len(b) + 1
    BY <1>2, <1>3
  <2>2. c[Len(b) + 1] = x
    BY <1>4, <1>3, <1>5
  <2>3. Len(a) \in 1 .. Len(a) /\ first + Len(a) - 1 = i + 1
    BY <1>2
  <2>4. a[Len(a)] = x
    BY <1>4, <1>2, <2>3
  <2> QED BY <2>1, <2>2, <2>4
<1>8. \A k \in 1 .. Len(a) : c[k] = a[k]
  <2> TAKE k \in 1 .. Len(a)
  <2>1. CASE k = Len(a)
    BY <1>2, <1>7, <2>1
  <2>2. CASE k # Len(a)
    <3>1. k \in 1 .. Len(b)
      BY <1>2, <1>3, <2>2
    <3> QED BY <1>2, <1>3, <1>6, <3>1
  <2> QED BY <2>1, <2>2
<1>9. a = c
  BY <1>2, <1>6, <1>8
<1> QED BY <1>4, <1>1, <1>5, <1>9

(* on_path_cb() on an empty request_path copies the piece.                 *)
LEMMA CopiedWhole ==
  ASSUME NEW S, NEW piece \in Seq(S)
  PROVE  on_path_cb(<<>>, piece) = piece
<1>1. SubSeq(<<>>, Len(piece) + 1, Len(<<>>)) = <<>>
  OBVIOUS
<1> QED BY <1>1 DEF on_path_cb

(* Each byte takes the run to the stage of its place in the text.          *)
LEMMA StageTurn ==
  ASSUME NEW S, NEW text \in Seq(S), NEW i \in Nat, i + 1 <= Len(text),
         NEW first \in Nat \ {0}, NEW end \in Nat, first <= end + 1, end <= Len(text),
         NEW r, Stage(r, i, text, first, end),
         "url" \in r.parser.marks <=> i \in first .. end,
         "url" \in Turn(r, text[i + 1]).parser.marks <=> i + 1 \in first .. end,
         i + 1 \in first .. end => Turn(r, text[i + 1]).parser.state # "s_dead"
  PROVE  Stage(Turn(r, text[i + 1]), i + 1, text, first, end)
<1>1. PICK ch : ch = text[i + 1]
  OBVIOUS
<1>2. PICK t : t = Turn(r, ch)
  OBVIOUS
<1>3. /\ Fields(r) /\ PP!Fit(r.parser)
      /\ i \in first .. end => r.piece = SubSeq(text, first, i)
      /\ i \notin first .. end => r.piece = <<>>
      /\ i > end => r.path = SubSeq(text, first, end)
      /\ ~(i > end) => r.path = <<>>
  BY DEF Stage
<1>4. /\ "url" \in r.parser.marks <=> i \in first .. end
      /\ "url" \in t.parser.marks <=> i + 1 \in first .. end
      /\ i + 1 \in first .. end => t.parser.state # "s_dead"
  BY <1>1, <1>2
<1>5. CASE r.parser.upgrade \/ r.parser.state = "s_dead"
  <2>1. PICK d : d = P!Error(r.parser)
    OBVIOUS
  <2>2. t = [parser |-> d, piece |-> r.piece, path |-> r.path]
    BY <1>2, <1>3, <1>5, <2>1 DEF Turn, Fields
  <2>3. PP!Fit(d) /\ d.state = "s_dead" /\ d.marks = r.parser.marks
    BY <1>3, <2>1, TurnError
  <2>4. i \notin first .. end /\ i + 1 \notin first .. end
    BY <1>4, <2>2, <2>3
  <2>5. i + 1 > end => i > end \/ first > end
    BY <2>4
  <2>6. Fields(t) /\ PP!Fit(t.parser) /\ t.piece = <<>>
    BY <1>3, <2>2, <2>3, <2>4 DEF Fields
  <2>7. t.path = IF i + 1 > end THEN SubSeq(text, first, end) ELSE <<>>
    <3>1. first > end => SubSeq(text, first, end) = <<>>
      OBVIOUS
    <3>2. t.path = r.path /\ (i > end => i + 1 > end)
      BY <2>2
    <3> QED BY <1>3, <2>5, <3>1, <3>2
  <2> QED BY <1>1, <1>2, <2>4, <2>6, <2>7 DEF Stage
<1>6. CASE ~(r.parser.upgrade \/ r.parser.state = "s_dead")
  <2>1. PICK m : m = Parsed(r.parser, ch)
    OBVIOUS
  <2>2. PICK a, b : /\ a = IF "url" \in m.marks THEN Append(r.piece, ch) ELSE <<>>
                    /\ b = IF "url" \in r.parser.marks \ m.marks
                           THEN on_path_cb(r.path, r.piece) ELSE r.path
    OBVIOUS
  <2>3. t = [parser |-> m, piece |-> a, path |-> b]
    BY <1>2, <1>6, <2>1, <2>2, HandedIsUrl DEF Turn
  <2>4. PP!Fit(m)
    BY <1>3, <1>6, <2>1, TurnFits DEF PP!Continues, PP!Alive
  <2>5. "url" \in m.marks <=> i + 1 \in first .. end
    BY <1>4, <2>3
  <2>6. a = IF i + 1 \in first .. end THEN SubSeq(text, first, i + 1) ELSE <<>>
    <3>1. CASE i + 1 \notin first .. end
      BY <2>2, <2>5, <3>1
    <3>2. CASE i + 1 \in first .. end
      <4>1. r.piece = SubSeq(text, first, i)
        <5>1. CASE i \in first .. end
          BY <1>3, <5>1
        <5>2. CASE i \notin first .. end
          <6>1. i = first - 1
            BY <3>2, <5>2
          <6>2. SubSeq(text, first, i) = <<>>
            BY <6>1
          <6> QED BY <1>3, <5>2, <6>2
        <5> QED BY <5>1, <5>2
      <4>2. a = Append(r.piece, ch)
        BY <2>2, <2>5, <3>2
      <4>3. first <= i + 1
        BY <3>2
      <4> QED BY <1>1, <3>2, <4>1, <4>2, <4>3, Longer
    <3> QED BY <3>1, <3>2
  <2>7. b = IF i + 1 > end THEN SubSeq(text, first, end) ELSE <<>>
    <3>1. CASE i \in first .. end /\ i + 1 \notin first .. end
      <4>1. i = end
        BY <3>1
      <4>2. r.path = <<>> /\ r.piece = SubSeq(text, first, end)
        <5>1. ~(i > end)
          BY <4>1
        <5> QED BY <1>3, <3>1, <4>1, <5>1
      <4>3. "url" \in r.parser.marks \ m.marks
        BY <1>4, <2>5, <3>1
      <4>4. b = on_path_cb(<<>>, SubSeq(text, first, end))
        BY <2>2, <4>2, <4>3
      <4>5. SubSeq(text, first, end) \in Seq(S)
        BY <3>1, <4>1
      <4>6. b = SubSeq(text, first, end)
        BY <4>5, <4>4, CopiedWhole
      <4>7. i + 1 > end
        BY <4>1
      <4> QED BY <4>6, <4>7
    <3>2. CASE ~(i \in first .. end /\ i + 1 \notin first .. end)
      <4>1. b = r.path
        BY <1>4, <2>2, <2>5, <3>2
      <4>2. i + 1 > end => i > end \/ first > end
        BY <3>2
      <4>3. first > end => SubSeq(text, first, end) = <<>>
        OBVIOUS
      <4>4. CASE i > end
        <5>1. i + 1 > end
          BY <4>4
        <5> QED BY <1>3, <4>1, <4>4, <5>1
      <4>5. CASE ~(i > end)
        <5>1. b = <<>>
          BY <1>3, <4>1, <4>5
        <5> QED BY <4>2, <4>3, <4>5, <5>1
      <4> QED BY <4>4, <4>5
    <3> QED BY <3>1, <3>2
  <2>8. Fields(t) /\ PP!Fit(t.parser)
    BY <2>3, <2>4 DEF Fields
  <2> QED BY <1>1, <1>2, <2>3, <2>6, <2>7, <2>8 DEF Stage
<1> QED BY <1>5, <1>6

(* By induction over the text of a header: what is called URL in it is     *)
(* what the run hands over.                                                *)
LEMMA StageRun ==
  ASSUME NEW S, NEW text \in Seq(S), NEW first \in Nat \ {0}, NEW end \in Nat,
         first <= end + 1, end <= Len(text),
         NEW run, run = Run(P!http_parser_init(P!Zeroed, "REQUEST"), <<>>, text),
         \A i \in 0 .. Len(text) : "url" \in run[i].parser.marks <=> i \in first .. end,
         \A i \in first .. end : run[i].parser.state # "s_dead"
  PROVE  \A i \in 0 .. Len(text) : Stage(run[i], i, text, first, end)
<1>1. PICK l \in Nat : l = Len(text)
  OBVIOUS
<1>2. /\ end <= l
      /\ \A i \in 0 .. l : "url" \in run[i].parser.marks <=> i \in first .. end
      /\ \A i \in first .. end : run[i].parser.state # "s_dead"
  BY <1>1
<1>3. PICK p : p = P!http_parser_init(P!Zeroed, "REQUEST")
  OBVIOUS
<1>4. run[0] = Begin(p, <<>>) /\ \A i \in 1 .. l : run[i] = Turn(run[i - 1], text[i])
  BY <1>1, <1>3, RunTurns
<1> DEFINE T == {i \in Nat : i <= l => Stage(run[i], i, text, first, end)}
<1>5. 0 \in T
  <2>1. run[0] = [parser |-> p, piece |-> <<>>, path |-> <<>>]
    BY <1>4 DEF Begin
  <2>2. PP!Fit(p)
    BY <1>3, RequestBegins, ZeroedIsParser
  <2>3. 0 \notin first .. end /\ ~(0 > end)
    OBVIOUS
  <2>4. Stage(run[0], 0, text, first, end)
    BY <2>1, <2>2, <2>3 DEF Stage, Fields
  <2> QED BY <2>4
<1>6. ASSUME NEW i \in Nat, i \in T
      PROVE  i + 1 \in T
  <2>1. SUFFICES ASSUME i + 1 <= l PROVE Stage(run[i + 1], i + 1, text, first, end)
    OBVIOUS
  <2>2. Stage(run[i], i, text, first, end) /\ i \in 0 .. l /\ i + 1 \in 1 .. l /\ i + 1 \in 0 .. l
    BY <1>6, <2>1
  <2>3. run[i + 1] = Turn(run[i], text[i + 1])
    <3>1. (i + 1) - 1 = i
      OBVIOUS
    <3> QED BY <1>4, <2>2, <3>1
  <2>4. /\ "url" \in run[i].parser.marks <=> i \in first .. end
        /\ "url" \in run[i + 1].parser.marks <=> i + 1 \in first .. end
        /\ i + 1 \in first .. end => run[i + 1].parser.state # "s_dead"
    BY <1>2, <2>2
  <2> QED BY <1>1, <1>2, <2>1, <2>2, <2>3, <2>4, StageTurn
<1> HIDE DEF T
<1>7. \A i \in Nat : i \in T
  BY <1>5, <1>6, SetInduction
<1> QED BY <1>1, <1>7 DEF T

(* No line end is taken for a character of a URL.                          *)
LEMMA StageNoLineEnd ==
  ASSUME NEW r, NEW ch, Fields(r), PP!Fit(r.parser),
         "url" \in Turn(r, ch).parser.marks, Turn(r, ch).parser.state # "s_dead"
  PROVE  ch \notin {"CR", "LF"}
<1>1. ~(r.parser.upgrade \/ r.parser.state = "s_dead")
  <2>1. SUFFICES ASSUME r.parser.upgrade \/ r.parser.state = "s_dead" PROVE FALSE
    OBVIOUS
  <2>2. PICK d : d = P!Error(r.parser)
    OBVIOUS
  <2>3. Turn(r, ch) = [parser |-> d, piece |-> r.piece, path |-> r.path]
    BY <2>1, <2>2 DEF Turn, Fields
  <2> QED BY <2>2, <2>3, TurnError
<1>2. PICK m : m = Parsed(r.parser, ch)
  OBVIOUS
<1>3. Turn(r, ch).parser = m
  BY <1>1, <1>2 DEF Turn
<1>4. PP!Fit(m) /\ (m.state \in PP!UrlStates => ch \notin {"CR", "LF"})
  BY <1>1, <1>2, TurnFits DEF PP!Continues, PP!Alive
<1>5. m.state \in PP!UrlStates
  BY <1>3, <1>4 DEF PP!Fit
<1> QED BY <1>4, <1>5

(* The text of the URL in the text of the header.                          *)
LEMMA UrlText ==
  ASSUME NEW q \in Requests, NEW text,
         text = CString(Header(q))
  PROVE  SubSeq(text, Len(q.before) + 1, Len(q.before \o q.url)) = q.url
<1>1. /\ q.before \in Seq(Bytes) /\ q.url \in Seq(Bytes) /\ q.after \in Seq(Bytes)
  BY ReceiveMessageAssumption
<1>2. PICK b \in Nat, p \in Nat : b = Len(q.before) /\ p = Len(q.url)
  BY <1>1
<1>3. PICK h : h = Header(q)
  OBVIOUS
<1>4. h \in Seq(Bytes) /\ \A i \in 1 .. p : h[b + i] = q.url[i]
  <2>1. PICK u : u = q.before \o q.url
    OBVIOUS
  <2>2. u \in Seq(Bytes) /\ Len(u) = b + p /\ \A i \in 1 .. p : u[b + i] = q.url[i]
    <3>1. PICK x \in Seq(Bytes), y \in Seq(Bytes) : x = q.before /\ y = q.url
      BY <1>1
    <3>2. u = x \o y /\ b = Len(x) /\ p = Len(y)
      BY <1>2, <2>1, <3>1
    <3>3. u \in Seq(Bytes) /\ Len(u) = b + p /\ \A i \in 1 .. p : u[b + i] = y[i]
      <4>1. /\ x \o y \in Seq(Bytes) /\ Len(x \o y) = Len(x) + Len(y)
            /\ \A i \in 1 .. Len(y) : (x \o y)[Len(x) + i] = y[i]
        OBVIOUS
      <4> QED BY <3>2, <4>1, Zenon
    <3> QED BY <3>1, <3>3
  <2>3. h = u \o q.after
    BY <1>3, <2>1 DEF Header
  <2>4. h \in Seq(Bytes) /\ \A i \in 1 .. Len(u) : h[i] = u[i]
    BY <1>1, <2>2, <2>3
  <2>5. \A i \in 1 .. p : b + i \in 1 .. Len(u)
    BY <2>2
  <2> QED BY <2>2, <2>4, <2>5
<1>5. text \in Seq(Bytes \ {"NUL"}) /\ \A i \in 1 .. Len(text) : text[i] = h[i]
  BY <1>3, <1>4, CStringText
<1>6. Len(q.before \o q.url) = b + p
  BY <1>1, <1>2
<1>7. b + p <= Len(text)
  BY <1>6, UrlAssumption DEF UrlMarked
<1>8. PICK s : s = SubSeq(text, b + 1, b + p)
  OBVIOUS
<1>9. s \in Seq(Bytes \ {"NUL"}) /\ Len(s) = p /\ \A i \in 1 .. p : s[i] = text[b + i]
  BY <1>5, <1>7, <1>8
<1>10. \A i \in 1 .. p : s[i] = q.url[i]
  <2>1. \A i \in 1 .. p : b + i \in 1 .. Len(text)
    BY <1>5, <1>7
  <2> QED BY <1>4, <1>5, <1>9, <2>1
<1>11. s = q.url
  <2>1. PICK y \in Seq(Bytes) : y = q.url /\ Len(y) = p
    BY <1>1, <1>2
  <2>2. s \in Seq(Bytes)
    BY <1>9
  <2>3. \A i \in 1 .. p : s[i] = y[i]
    BY <1>10, <2>1
  <2>4. s = y
    BY <1>9, <2>1, <2>2, <2>3
  <2> QED BY <2>1, <2>4
<1> QED BY <1>2, <1>6, <1>8, <1>11

-----------------------------------------------------------------------------
(* The parts of a request are sequences of bytes.                          *)
LEMMA RequestType ==
  ASSUME NEW q \in Requests
  PROVE  /\ q.before \in Seq(Bytes) /\ q.url \in Seq(Bytes) /\ q.more \in Seq(Bytes)
         /\ Header(q) \in Seq(Bytes)
         /\ Len(q.before) \in Nat /\ Len(q.before \o q.url) \in Nat
         /\ Len(q.before) <= Len(q.before \o q.url)
<1>1. /\ q.before \in Seq(Bytes) /\ q.url \in Seq(Bytes) /\ q.more \in Seq(Bytes)
      /\ q.after \in Seq(Bytes)
  BY ReceiveMessageAssumption
<1>2. Header(q) \in Seq(Bytes)
  BY <1>1 DEF Header
<1>3. PICK x \in Seq(Bytes), y \in Seq(Bytes) : x = q.before /\ y = q.url
  BY <1>1
<1>4. Len(x) \in Nat /\ Len(x \o y) \in Nat /\ Len(x) <= Len(x \o y)
  OBVIOUS
<1> QED BY <1>1, <1>2, <1>3, <1>4

(* A part of the header is that part of the stream.                        *)
LEMMA SamePart ==
  ASSUME NEW S, NEW s \in Seq(S), NEW t \in Seq(S), NEW n \in Nat, n <= Len(s)
  PROVE  SubSeq(s \o t, 1, n) = SubSeq(s, 1, n)
<1>1. PICK a, b : a = SubSeq(s \o t, 1, n) /\ b = SubSeq(s, 1, n)
  OBVIOUS
<1>2. /\ a \in Seq(S) /\ Len(a) = n /\ b \in Seq(S) /\ Len(b) = n
      /\ \A i \in 1 .. n : a[i] = s[i] /\ b[i] = s[i]
  BY <1>1
<1>3. a = b
  BY <1>2
<1> QED BY <1>1, <1>3

(* Wherever is_req_finished() lets a header be cut, its URL has arrived    *)
(* as a whole, or nothing of it has.                                       *)
LEMMA CutUrl ==
  ASSUME NEW q \in Requests, NEW n \in Nat, n <= Len(Header(q)),
         NEW buffer, buffer = SubSeq(Header(q), 1, n), ~is_req_finished(buffer)
  PROVE  Parse(P!Zeroed, <<>>, buffer).path =
           IF n > Len(q.before \o q.url) THEN q.url ELSE <<>>
<1>1. PICK h \in Seq(Bytes) : h = Header(q)
  BY RequestType
<1>2. PICK text : text = CString(h)
  OBVIOUS
<1>3. text \in Seq(Bytes \ {"NUL"}) /\ Len(text) <= Len(h) /\ \A i \in 1 .. Len(text) : text[i] = h[i]
  BY <1>1, <1>2, CStringText
<1>4. PICK c : c = CString(buffer)
  OBVIOUS
<1>5. PICK k \in Nat, l \in Nat : k = Len(c) /\ l = Len(text)
  BY <1>1, <1>2, <1>3, <1>4, CStringPrefix
<1>6. /\ k <= l /\ k <= n /\ (k = n \/ k = l)
      /\ \A i \in 1 .. k : c[i] = text[i]
  <2>1. n \in 0 .. Len(h)
    BY <1>1
  <2> QED BY <1>1, <1>2, <1>4, <1>5, <2>1, CStringPrefix
<1>7. PICK run, other : /\ run = Run(P!http_parser_init(P!Zeroed, "REQUEST"), <<>>, text)
                        /\ other = Run(P!http_parser_init(P!Zeroed, "REQUEST"), <<>>, c)
  OBVIOUS
<1>8. PICK first \in Nat \ {0}, end \in Nat :
        first = Len(q.before) + 1 /\ end = Len(q.before \o q.url) /\ first <= end + 1
  <2>1. PICK b \in Nat, e \in Nat : b = Len(q.before) /\ e = Len(q.before \o q.url) /\ b <= e
    BY RequestType
  <2>2. b <= e
    BY <2>1
  <2>3. PICK x \in Nat \ {0} : x = b + 1
    OBVIOUS
  <2>4. x <= e + 1
    BY <2>2, <2>3
  <2> QED BY <2>1, <2>3, <2>4
<1>9. /\ end <= l
      /\ \A i \in 0 .. l : "url" \in run[i].parser.marks <=> i \in first .. end
      /\ \A i \in first .. end : run[i].parser.state # "s_dead"
      /\ \A i \in 1 .. first - 1 : first - i <= 3 => text[i] \notin {"CR", "LF"}
  <2>1. Len(q.before) = first - 1
    <3>1. PICK b \in Nat : b = Len(q.before)
      BY RequestType
    <3> QED BY <1>8, <3>1
  <2> QED BY <1>1, <1>2, <1>5, <1>7, <1>8, <2>1, UrlAssumption DEF UrlMarked
<1>10. \A i \in 0 .. l : Stage(run[i], i, text, first, end)
  <2>1. \A i \in 0 .. Len(text) : "url" \in run[i].parser.marks <=> i \in first .. end
    BY <1>5, <1>9
  <2>2. \A i \in first .. end : run[i].parser.state # "s_dead"
    BY <1>9
  <2> QED BY <1>3, <1>5, <1>7, <1>8, <1>9, <2>1, <2>2, StageRun
<1>11. Stage(run[k], k, text, first, end)
  BY <1>6, <1>10
<1>12. other[k] = run[k]
  BY <1>5, <1>6, <1>7, RunPrefix
<1>13. SubSeq(text, first, end) = q.url
  BY <1>1, <1>2, <1>8, UrlText
<1>14. n \notin first .. end
  <2>1. SUFFICES ASSUME n \in first .. end PROVE FALSE
    OBVIOUS
  <2>2. buffer \in Seq(Bytes) /\ Len(buffer) = n /\ \A i \in 1 .. n : buffer[i] = h[i]
    BY <1>1
  <2>3. PICK j \in n - 3 .. n : At(buffer, j) \in {"CR", "LF"}
    <3>1. \/ At(buffer, n) = "LF" \/ At(buffer, n - 1) = "CR"
          \/ At(buffer, n - 2) = "LF" \/ At(buffer, n - 3) = "CR"
      BY <2>2 DEF is_req_finished
    <3>2. n \in n - 3 .. n /\ n - 1 \in n - 3 .. n /\ n - 2 \in n - 3 .. n /\ n - 3 \in n - 3 .. n
      OBVIOUS
    <3> QED BY <3>1, <3>2
  <2>4. j > 0 /\ buffer[j] \in {"CR", "LF"}
    BY <2>3 DEF At
  <2>5. j \in 1 .. n /\ j \in 1 .. Len(text)
    BY <1>5, <1>9, <2>1, <2>3, <2>4
  <2>6. text[j] \in {"CR", "LF"}
    BY <1>3, <2>2, <2>4, <2>5
  <2>7. j \in first .. end
    <3>1. SUFFICES ASSUME j < first PROVE FALSE
      BY <2>1, <2>3
    <3>2. j \in 1 .. first - 1 /\ first - j <= 3
      BY <2>1, <2>3, <2>4, <3>1
    <3> QED BY <1>9, <2>6, <3>2
  <2>8. j - 1 \in 0 .. l /\ j \in 1 .. l /\ j \in 0 .. l
    BY <1>5, <2>5
  <2>9. run[j] = Turn(run[j - 1], text[j])
    BY <1>5, <1>7, <2>8, RunTurns
  <2>10. Fields(run[j - 1]) /\ PP!Fit(run[j - 1].parser)
    BY <1>10, <2>8 DEF Stage
  <2> QED BY <1>9, <2>6, <2>7, <2>8, <2>9, <2>10, StageNoLineEnd
<1>15. PICK e : e = http_parser_execute(P!http_parser_init(P!Zeroed, "REQUEST"), <<>>, c)
  OBVIOUS
<1>16. PICK r : r = run[k]
  OBVIOUS
<1>17. e.path = IF "url" \in r.parser.marks /\ r.parser.state # "s_dead"
                THEN on_path_cb(r.path, r.piece) ELSE r.path
  BY <1>5, <1>7, <1>12, <1>15, <1>16, ExecuteRun
<1>18. /\ "url" \in r.parser.marks <=> k \in first .. end
       /\ k \in first .. end => r.parser.state # "s_dead"
       /\ k \in first .. end => r.piece = SubSeq(text, first, k) /\ r.path = <<>>
       /\ k > end => r.path = q.url
       /\ k <= end => r.path = <<>>
  <2>1. /\ r.piece = IF k \in first .. end THEN SubSeq(text, first, k) ELSE <<>>
        /\ r.path = IF k > end THEN q.url ELSE <<>>
    BY <1>11, <1>13, <1>16 DEF Stage
  <2>2. k \in 0 .. l /\ (k \in first .. end => ~(k > end))
    BY <1>6
  <2> QED BY <1>9, <1>16, <2>1, <2>2
<1>19. CASE k \in first .. end
  <2>1. k = end /\ n > end
    BY <1>6, <1>9, <1>14, <1>19
  <2>2. e.path = on_path_cb(<<>>, SubSeq(text, first, end))
    BY <1>17, <1>18, <1>19, <2>1
  <2>3. q.url \in Seq(Bytes)
    BY ReceiveMessageAssumption
  <2>4. e.path = q.url
    BY <1>13, <2>2, <2>3, CopiedWhole
  <2> QED BY <1>4, <1>8, <1>15, <2>1, <2>4 DEF Parse
<1>20. CASE k \notin first .. end
  <2>1. e.path = r.path
    BY <1>17, <1>18, <1>20
  <2>2. e.path = IF n > end THEN q.url ELSE <<>>
    <3>1. CASE k > end
      <4>1. n > end
        BY <1>6, <3>1
      <4> QED BY <1>18, <2>1, <3>1, <4>1
    <3>2. CASE k <= end /\ n > end
      <4>1. k = end /\ first > end
        BY <1>6, <1>9, <1>20, <3>2
      <4>2. SubSeq(text, first, end) = <<>>
        BY <1>3, <4>1
      <4> QED BY <1>13, <1>18, <2>1, <3>2, <4>2
    <3>3. CASE k <= end /\ ~(n > end)
      BY <1>18, <2>1, <3>3
    <3> QED BY <3>1, <3>2, <3>3
  <2> QED BY <1>4, <1>8, <1>15, <2>2 DEF Parse
<1> QED BY <1>19, <1>20

(* Wherever is_req_finished() ends the loop of receive_message() within a  *)
(* header, request_path is the whole URL, as settings_on_path has on_url   *)
(* call on_path_cb(), or empty because none of the URL has arrived, if the *)
(* header is one in which the parser sees that URL (UrlAssumption).        *)
THEOREM UrlNeverCut == Spec => []AskedPath
<1>1. PathInv => AskedPath
  <2> SUFFICES ASSUME PathInv, conn.state = "DATA_RECEIVED",
                      NEW q, q = peer.request,
                      NEW n, n = Len(conn.recv_buffer),
                      n <= Len(Header(q)), n < BufSize
               PROVE  conn.request_path = IF n > Len(q.before \o q.url) THEN q.url ELSE <<>>
    BY DEF AskedPath
  <2>1. BufferType /\ BufferAsSent /\ OwnPath /\ Ended
    BY DEF PathInv, ReceiveInv
  <2>2. q \in Requests /\ n \in Nat
    BY <2>1 DEF BufferType
  <2>3. PICK h \in Seq(Bytes), m \in Seq(Bytes) : h = Header(q) /\ m = q.more
    BY <2>2, RequestType
  <2>4. conn.recv_buffer = SubSeq(h \o m, 1, n)
    BY <2>1, <2>3 DEF BufferAsSent, Stream
  <2>5. SubSeq(h \o m, 1, n) = SubSeq(h, 1, n)
    <3>1. n <= Len(h)
      BY <2>3
    <3>2. h \in Seq(Bytes) /\ m \in Seq(Bytes) /\ n \in Nat
      BY <2>2, <2>3
    <3>3. \A s, t \in Seq(Bytes), i \in Nat :
            i <= Len(s) => SubSeq(s \o t, 1, i) = SubSeq(s, 1, i)
      BY SamePart
    <3> QED BY <3>1, <3>2, <3>3
  <2>6. ~is_req_finished(conn.recv_buffer)
    BY <2>1 DEF Ended
  <2>7. Parse(P!Zeroed, <<>>, conn.recv_buffer).path =
          IF n > Len(q.before \o q.url) THEN q.url ELSE <<>>
    BY <2>2, <2>3, <2>4, <2>5, <2>6, CutUrl
  <2> QED BY <2>1, <2>7 DEF OwnPath
<1> QED BY <1>1, PathCorrect, PTL
=============================================================================
