---------------------------- MODULE ReceiveMessage ----------------------------
(***************************************************************************)
(* receive_message() of imonitor.c byte by byte: how the bytes of a        *)
(* request, which arrive in any pieces, are collected in recv_buffer, when *)
(* is_req_finished() lets the loop end, and which string the parser then   *)
(* hands to on_path_cb() and so leaves in the two globals that all         *)
(* connections share: not the path, but the URL.  Imonitor has one step    *)
(* for what takes several here; the characters are those of HttpParser,    *)
(* and NUL.                                                                *)
(***************************************************************************)
EXTENDS Integers, Sequences

CONSTANTS
  Requests,  \* what peers send: the bytes before the URL, the URL, the rest
             \* of the header, and what follows it (a body, another request)
  BufSize,   \* BUFSIZ
  Behind,    \* what the padding behind recv_buffer and recv_len, uninitialised,
             \* may hold up to the first NUL (send_buffer, next, starts with one):
             \* strlen() gets there when recv_buffer is full
  Chars, Limit, Byte, Size, MaxDigits   \* of HttpParser

Bytes == Chars \cup {"NUL"}

(* recv_buffer is shorter than HTTP_MAX_HEADER_SIZE: one call of the       *)
(* parser never meets that limit.  Behind it there are 12 bytes at most,   *)
(* and BUFSIZ is 8192.                                                     *)
ASSUME ReceiveMessageAssumption ==
  /\ Requests \subseteq
       [before : Seq(Bytes), url : Seq(Bytes), after : Seq(Bytes), more : Seq(Bytes)]
  /\ BufSize \in Nat \ {0} /\ Limit \in Nat /\ BufSize < Limit
  /\ Behind \subseteq Seq(Chars)
  /\ \A rest \in Behind : Len(rest) + 3 < BufSize

VARIABLES
  peer,            \* the peer of the connection: request, bytes arrived, end
  conn,            \* struct connection, in what receive_message() uses of it
  request_parser,  \* global, reused by every connection
  request_path     \* global: the string in it, up to its NUL

vars == <<peer, conn, request_parser, request_path>>

P == INSTANCE HttpParser
       WITH Types <- {"REQUEST"}, HeaderResults <- {0},
            call <- conn, parser <- request_parser, whole <- request_parser,
            due <- 0

(* The parser is used as HttpParser says.                                  *)
ASSUME ParserAssumption ==
  /\ Chars \subseteq P!Alphabet
  /\ Byte \in Nat \ 0 .. 3 /\ Size \in Nat \ {0, 1}
  /\ MaxDigits \in Nat \ {0}

Header(r) == r.before \o r.url \o r.after
Stream(r) == Header(r) \o r.more

-----------------------------------------------------------------------------
(* utils.c: TRUE means that the loop reads on.  Before recv_buffer lies    *)
(* sockfd, whose upper bytes are zero for any number below 256.  First a   *)
(* mutant that never reads on, and one with the two characters swapped.    *)

At(buffer, i) == IF i > 0 THEN buffer[i] ELSE "NUL"

is_req_finished_Once(buffer) == FALSE

is_req_finished_Swapped(buffer) ==
  LET n == Len(buffer)
  IN  /\ At(buffer, n) # "CR"     /\ At(buffer, n - 1) # "LF"
      /\ At(buffer, n - 2) # "CR" /\ At(buffer, n - 3) # "LF"

is_req_finished(buffer) ==
  LET n == Len(buffer)
  IN  /\ At(buffer, n) # "LF"     /\ At(buffer, n - 1) # "CR"
      /\ At(buffer, n - 2) # "LF" /\ At(buffer, n - 3) # "CR"

-----------------------------------------------------------------------------
(* One call of http_parser_execute() with on_path_cb() as only callback:   *)
(* the struct, as much as is marked so far of the string that is handed    *)
(* over, and the global request_path.  Bound: Requests lead neither past   *)
(* the end of CONNECT's string nor to a chunk of 2^63 bytes (MethodBound   *)
(* and ChunkBound of HttpParser).                                          *)

(* struct http_parser_settings in the order of its members, and which of   *)
(* them is on_path_cb(): settings_on_path has no designators, so that what *)
(* counts is the place of a value and not the comment beside it.           *)
http_parser_settings ==
  <<"message_begin", "path", "query_string", "url", "fragment", "header_field",
    "header_value", "headers_complete", "body", "message_complete">>

settings_on_path == 4

Handed == http_parser_settings[settings_on_path]

on_path_cb(path, piece) ==
  piece \o SubSeq(path, Len(piece) + 1, Len(path))

Parsed(m, ch) ==
  IF m.state \in P!BodyStates THEN P!Body([m EXCEPT !.calls = P!LastOf(@)], 1)
                              ELSE P!Step(m, ch, 0)

Turn(r, ch) ==
  LET m == Parsed(r.parser, ch)
  IN  IF r.parser.upgrade \/ r.parser.state = "s_dead"
      THEN [r EXCEPT !.parser = P!Error(@)]
      ELSE [parser |-> m,
            piece  |-> IF Handed \in m.marks THEN Append(r.piece, ch) ELSE <<>>,
            path   |-> IF Handed \in r.parser.marks \ m.marks
                       THEN on_path_cb(r.path, r.piece) ELSE r.path]

Run(m, path, text) ==
  LET run[i \in 0 .. Len(text)] ==
        IF i = 0 THEN [parser |-> m, piece |-> <<>>, path |-> path]
                 ELSE Turn(run[i - 1], text[i])
  IN  run

(* A call that ends with its buffer hands over the string it is in.  What  *)
(* it saves of its locals no later request reads.                          *)
http_parser_execute(m, path, text) ==
  LET r == Run(m, path, text)[Len(text)]
  IN  [parser |-> [P!Save(r.parser) EXCEPT !.marks = {}, !.calls = <<"none">>],
       path   |-> IF Handed \in r.parser.marks /\ r.parser.state # "s_dead"
                  THEN on_path_cb(r.path, r.piece) ELSE r.path]

(* strlen(recv_buffer): what stands before the first NUL.                  *)
CString(buffer) ==
  SubSeq(buffer, 1, CHOOSE n \in 0 .. Len(buffer) :
                      /\ \A i \in 1 .. n : buffer[i] # "NUL"
                      /\ n < Len(buffer) => buffer[n + 1] = "NUL")

Parse(m, path, buffer) ==
  http_parser_execute(P!http_parser_init(m, "REQUEST"), path, CString(buffer))

(* What is called URL in a request is what the parser marks as such in the *)
(* whole header, and three bytes of a method and of spaces lie between it  *)
(* and a line end before it.  (Of CONNECT the parser does not read the     *)
(* letters: it would take a line end for one.)                             *)
UrlMarked(r) ==
  LET text == CString(Header(r))
      run  == Run(P!http_parser_init(P!Zeroed, "REQUEST"), <<>>, text)
      first == Len(r.before) + 1
      url  == first .. Len(r.before \o r.url)
  IN  /\ Len(r.before \o r.url) <= Len(text)
      /\ \A i \in 0 .. Len(text) : "url" \in run[i].parser.marks <=> i \in url
      /\ \A i \in url : run[i].parser.state # "s_dead"
      /\ \A i \in 1 .. Len(r.before) : first - i <= 3 => text[i] \notin {"CR", "LF"}

ASSUME UrlAssumption == \A r \in Requests : UrlMarked(r)

-----------------------------------------------------------------------------
NewPeer(r) == [request |-> r, arrived |-> 0, end |-> "open"]
connection_create == [state |-> "NEW_CONN", recv_buffer |-> <<>>, request_path |-> <<>>]

Init ==
  /\ peer \in {NewPeer(r) : r \in Requests}
  /\ conn = connection_create
  /\ request_parser = P!Zeroed
  /\ request_path = <<>>

(* The peer and the network: bytes arrive one by one, and the peer stops   *)
(* or resets the connection where it likes.  (What happens after           *)
(* receive_message() has returned it does not see any more.)               *)
Arrive ==
  /\ conn.state \in {"NEW_CONN", "RECEIVING"}
  /\ peer.end = "open" /\ peer.arrived < Len(Stream(peer.request))
  /\ peer' = [peer EXCEPT !.arrived = @ + 1]
  /\ UNCHANGED <<conn, request_parser, request_path>>

Stop(e) ==
  /\ conn.state \in {"NEW_CONN", "RECEIVING"}
  /\ peer.end = "open"
  /\ peer' = [peer EXCEPT !.end = e]
  /\ UNCHANGED <<conn, request_parser, request_path>>

(* recv(): what is queued, as far as there is room for it.  The mutants    *)
(* forget the offset in one argument or the other.                         *)
Queued == peer.arrived - Len(conn.recv_buffer)
Room_Whole == BufSize
Room == BufSize - Len(conn.recv_buffer)

Received ==
  LET n == IF Queued < Room THEN Queued ELSE Room
  IN  SubSeq(Stream(peer.request), Len(conn.recv_buffer) + 1, Len(conn.recv_buffer) + n)

Collected_AtStart == Received
Collected == conn.recv_buffer \o Received

(* handle_epollin() calls the handler once the socket is readable; from    *)
(* then on the loop has the process to itself.                             *)
InLoop ==
  \/ conn.state = "RECEIVING"
  \/ conn.state = "NEW_CONN" /\ (Queued > 0 \/ peer.end # "open")

(* getpeername() fails on a connection that was reset before the loop, and *)
(* recv() when nothing is queued, as EAGAIN is an error like others.       *)
get_peer_address == ~(conn.state = "NEW_CONN" /\ peer.end = "reset")

ReceiveFails ==
  /\ InLoop
  /\ get_peer_address => Queued = 0 /\ peer.end # "fin"
  /\ conn' = [conn EXCEPT !.state = "REMOVED"]
  /\ UNCHANGED <<peer, request_parser, request_path>>

(* recv() returns 0 at the end of the stream, and when it has no room.  A  *)
(* mutant takes an error for the end.                                      *)
ReceiveEof_OnError ==
  /\ InLoop /\ get_peer_address
  /\ Queued = 0 \/ Room = 0
  /\ conn' = [conn EXCEPT !.state = "CLOSED"]
  /\ UNCHANGED <<peer, request_parser, request_path>>

ReceiveEof ==
  /\ InLoop /\ get_peer_address
  /\ \/ Queued = 0 /\ peer.end = "fin"
     \/ Queued > 0 /\ Room = 0
  /\ conn' = [conn EXCEPT !.state = "CLOSED"]
  /\ UNCHANGED <<peer, request_parser, request_path>>

ReceivePart ==
  /\ InLoop /\ get_peer_address
  /\ Queued > 0 /\ Room > 0
  /\ is_req_finished(Collected)
  /\ conn' = [conn EXCEPT !.state = "RECEIVING", !.recv_buffer = Collected]
  /\ UNCHANGED <<peer, request_parser, request_path>>

(* The loop ends and the URL is parsed.  First a mutant without the       *)
(* memset() of the global request_path.                                    *)
ReceiveWhole_NoMemset ==
  /\ InLoop /\ get_peer_address
  /\ Queued > 0 /\ Room > 0
  /\ ~is_req_finished(Collected)
  /\ LET r == Parse(request_parser, request_path, Collected)
     IN  /\ request_parser' = r.parser
         /\ request_path' = r.path
         /\ conn' = [state |-> "DATA_RECEIVED", recv_buffer |-> Collected,
                     request_path |-> r.path]
  /\ UNCHANGED peer

ReceiveWhole ==
  /\ InLoop /\ get_peer_address
  /\ Queued > 0 /\ Room > 0
  /\ ~is_req_finished(Collected)
  /\ \E rest \in IF Len(Collected) = BufSize THEN Behind ELSE {<<>>} :
       LET r == Parse(request_parser, <<>>, Collected \o rest)
       IN  /\ request_parser' = r.parser
           /\ request_path' = r.path
           /\ conn' = [state |-> "DATA_RECEIVED", recv_buffer |-> Collected,
                       request_path |-> r.path]
  /\ UNCHANGED peer

(* The next connection whose request is received.                          *)
NextConnection(r) ==
  /\ conn.state \in {"DATA_RECEIVED", "CLOSED", "REMOVED"}
  /\ peer' = NewPeer(r)
  /\ conn' = connection_create
  /\ UNCHANGED <<request_parser, request_path>>

Next ==
  \/ Arrive
  \/ \E e \in {"fin", "reset"} : Stop(e)
  \/ ReceiveFails \/ ReceiveEof \/ ReceivePart \/ ReceiveWhole
  \/ \E r \in Requests : NextConnection(r)

Spec == Init /\ [][Next]_vars

-----------------------------------------------------------------------------
(* Properties.                                                             *)

(* recv_buffer is never filled past its end, and the URL that is copied to *)
(* request_path leaves room for the NUL that strcpy() needs.               *)
TypeOK ==
  /\ peer.request \in Requests
  /\ peer.arrived \in 0 .. Len(Stream(peer.request))
  /\ peer.end \in {"open", "fin", "reset"}
  /\ conn.state \in {"NEW_CONN", "RECEIVING", "DATA_RECEIVED", "CLOSED", "REMOVED"}
  /\ conn.recv_buffer \in Seq(Bytes) /\ Len(conn.recv_buffer) <= BufSize
  /\ conn.request_path \in Seq(Chars) /\ Len(conn.request_path) < BufSize

(* Whatever pieces the request comes in, recv_buffer holds what the peer   *)
(* has sent, from its first byte on, without a gap.                        *)
BufferAsSent ==
  /\ Len(conn.recv_buffer) <= peer.arrived
  /\ conn.recv_buffer = SubSeq(Stream(peer.request), 1, Len(conn.recv_buffer))

(* A connection is taken for closed only when its peer has finished, or    *)
(* when the request does not fit the buffer.                               *)
ClosedOnlyWhenFinished ==
  conn.state = "CLOSED" => peer.end = "fin" \/ Len(conn.recv_buffer) = BufSize

(* A request that has arrived up to the line end of its header, and no     *)
(* further, is answered, in however many pieces it was received.           *)
AnsweredWhenWhole ==
  LET h == Header(peer.request)
  IN  At(h, Len(h)) = "LF" /\ conn.recv_buffer = h => conn.state = "DATA_RECEIVED"

(* A URL is never cut: a request that is parsed before all of it has       *)
(* arrived leaves nothing in request_path yet or the whole URL, unless it  *)
(* has filled recv_buffer: that is then no string, and the bytes of Behind *)
(* belong to what is parsed.                                               *)
AskedPath ==
  LET r == peer.request
      n == Len(conn.recv_buffer)
  IN  conn.state = "DATA_RECEIVED" /\ n <= Len(Header(r)) /\ n < BufSize =>
        conn.request_path = IF n > Len(r.before \o r.url) THEN r.url ELSE <<>>

(* request_path of a connection comes from its own bytes alone, whatever   *)
(* earlier connections have left in the globals, as long as recv_buffer    *)
(* has not been filled.  (The second URL of two requests that fill it may  *)
(* end in what lies behind.)                                               *)
OwnPath ==
  conn.state = "DATA_RECEIVED" /\ Len(conn.recv_buffer) < BufSize =>
    conn.request_path = Parse(P!Zeroed, <<>>, conn.recv_buffer).path

(* imonitor.c:60: "Request path is stored in global request_path           *)
(* variable": of a single request, what the parser marks as its path.      *)
PathStored ==
  LET text == CString(conn.recv_buffer)
      run  == Run(P!http_parser_init(P!Zeroed, "REQUEST"), <<>>, text)
      path[i \in 0 .. Len(text)] ==
        IF i = 0 THEN <<>>
        ELSE IF "path" \in run[i].parser.marks THEN Append(path[i - 1], text[i])
        ELSE path[i - 1]
      n == Len(conn.recv_buffer)
  IN  conn.state = "DATA_RECEIVED" /\ n <= Len(Header(peer.request)) /\ n < BufSize =>
        conn.request_path = path[Len(text)]

=============================================================================
