---------------------------- MODULE HttpParserProofs ----------------------------
(***************************************************************************)
(* What HttpParser promises, proved for every alphabet, limit and width of *)
(* its constants.                                                          *)
(*                                                                         *)
(* The invariant is ParserInv.  A step of http_parser_execute() is one     *)
(* case of a long switch, and each of the three things the invariant says  *)
(* is shown case by case and put together for Dispatch: two parsers that   *)
(* agree on what the rest of the parse depends on still agree after a      *)
(* character (the lemmas ...Same); a parser that fits its state still      *)
(* does, and its callbacks keep their order (...Goes); the length and the  *)
(* history variable due move together (...Effect, ...Announced).  One      *)
(* lemma per action then carries ParserInv over it, and the properties of  *)
(* HttpParser follow from ParserInv.                                       *)
(***************************************************************************)
EXTENDS HttpParser, TLAPS

-----------------------------------------------------------------------------
(* Tables.                                                                 *)

(* A row leads to a row's state or to the headers; it enters the URL only  *)
(* at its beginning; and it leads to a state that knows a number only from *)
(* one that knows it, or with a digit, or out of a line without a version. *)
LEMMA RowFacts ==
  ASSUME NEW r \in StatusRows \cup HostRows \cup PathRows \cup VersionRows
  PROVE  /\ r[3] \in TableStates \cup {"s_header_field_start"}
         /\ r[3] \in UrlStates /\ r[1] \notin UrlStates =>
              r[1] = "s_req_spaces_before_url" /\ r[3] \in {"s_req_path", "s_req_schema"}
         /\ r[3] \in MajorKnown =>
              \/ r[1] \in MajorKnown
              \/ r[1] \in {"s_res_first_http_major", "s_req_first_http_major"} /\ r[2] = {"2"}
              \/ r[1] \in PathStates /\ r[2] \subseteq {"CR", "LF"}
         /\ r[3] \in MinorKnown =>
              \/ r[1] \in MinorKnown
              \/ r[1] \in {"s_res_first_http_minor", "s_req_first_http_minor"} /\ r[2] = Digits
              \/ r[1] \in PathStates /\ r[2] \subseteq {"CR", "LF"}
         /\ r[3] = "s_res_status_code" =>
              r[1] = "s_res_status_code" \/ (r[1] = "s_res_first_status_code" /\ r[2] = Digits)
<1> USE DEF TableStates, UrlStates, ResponseStates, VersionStates, MajorKnown, MinorKnown,
            HeaderStates, ChunkStates, BodyStates
<1>1. CASE r \in StatusRows
  BY <1>1 DEF StatusRows
<1>2. CASE r \in HostRows
  BY <1>2 DEF HostRows
<1>3. CASE r \in PathRows
  BY <1>3 DEF PathRows
<1>4. CASE r \in VersionRows
  BY <1>4 DEF VersionRows
<1> QED BY <1>1, <1>2, <1>3, <1>4

(* The numbers that the digits of a state belong to.                       *)
LEMMA DigitTables ==
  /\ DOMAIN First = {"s_res_first_http_major", "s_req_first_http_major",
       "s_res_first_http_minor", "s_req_first_http_minor", "s_res_first_status_code"}
  /\ First["s_res_first_http_major"] = "major" /\ First["s_req_first_http_major"] = "major"
  /\ First["s_res_first_http_minor"] = "minor" /\ First["s_req_first_http_minor"] = "minor"
  /\ First["s_res_first_status_code"] = "status"
  /\ DOMAIN Further = {"s_res_http_major", "s_req_http_major",
       "s_res_http_minor", "s_req_http_minor", "s_res_status_code"}
  /\ Further["s_res_http_major"] = "major" /\ Further["s_req_http_major"] = "major"
  /\ Further["s_res_http_minor"] = "minor" /\ Further["s_req_http_minor"] = "minor"
  /\ Further["s_res_status_code"] = "status"
BY DEF First, Further

(* What a state's rows make of a character, once its row r is known.       *)
RowOf(s, ch) == CHOOSE r \in {x \in Rows[s] : ch \in x[2]} : TRUE
Taken(s, ch) == {x \in Rows[s] : ch \in x[2]} # {}
Moved(m, ch) ==
  LET t == RowOf(m.state, ch)[3]
  IN  [m EXCEPT !.state = t,
                !.marks = (@ \cup Mark(m.state, t)) \ CallBack(m.state, t)]
RowTo(m, t, k, a, b, c) ==
  [m EXCEPT !.state = t, !.marks = k, !.major = a, !.minor = b, !.status = c]
MarksTo(m, t) == (m.marks \cup Mark(m.state, t)) \ CallBack(m.state, t)

(* The parser after a row, with every field that may differ named.         *)
LEMMA MovedMajor ==
  ASSUME NEW m \in Parsers, NEW ch, NEW d
  PROVE  LET t == RowOf(m.state, ch)[3]
         IN  [Moved(m, ch) EXCEPT !.major = d] = RowTo(m, t, MarksTo(m, t), d, m.minor, m.status)
<1>1. PICK t, k : t = RowOf(m.state, ch)[3] /\ k = MarksTo(m, t)
  OBVIOUS
<1>2. Moved(m, ch) = [m EXCEPT !.state = t, !.marks = k]
  BY <1>1 DEF Moved, MarksTo
<1>3. [Moved(m, ch) EXCEPT !.major = d] = RowTo(m, t, k, d, m.minor, m.status)
  BY <1>2 DEF RowTo, Parsers
<1> QED BY <1>1, <1>3

LEMMA MovedMinor ==
  ASSUME NEW m \in Parsers, NEW ch, NEW d
  PROVE  LET t == RowOf(m.state, ch)[3]
         IN  [Moved(m, ch) EXCEPT !.minor = d] = RowTo(m, t, MarksTo(m, t), m.major, d, m.status)
<1>1. PICK t, k : t = RowOf(m.state, ch)[3] /\ k = MarksTo(m, t)
  OBVIOUS
<1>2. Moved(m, ch) = [m EXCEPT !.state = t, !.marks = k]
  BY <1>1 DEF Moved, MarksTo
<1>3. [Moved(m, ch) EXCEPT !.minor = d] = RowTo(m, t, k, m.major, d, m.status)
  BY <1>2 DEF RowTo, Parsers
<1> QED BY <1>1, <1>3

LEMMA MovedStatus ==
  ASSUME NEW m \in Parsers, NEW ch, NEW d
  PROVE  LET t == RowOf(m.state, ch)[3]
         IN  [Moved(m, ch) EXCEPT !.status = d] = RowTo(m, t, MarksTo(m, t), m.major, m.minor, d)
<1>1. PICK t, k : t = RowOf(m.state, ch)[3] /\ k = MarksTo(m, t)
  OBVIOUS
<1>2. Moved(m, ch) = [m EXCEPT !.state = t, !.marks = k]
  BY <1>1 DEF Moved, MarksTo
<1>3. [Moved(m, ch) EXCEPT !.status = d] = RowTo(m, t, k, m.major, m.minor, d)
  BY <1>2 DEF RowTo, Parsers
<1> QED BY <1>1, <1>3

LEMMA MovedOnly ==
  ASSUME NEW m \in Parsers, NEW ch
  PROVE  LET t == RowOf(m.state, ch)[3]
         IN  Moved(m, ch) = RowTo(m, t, MarksTo(m, t), m.major, m.minor, m.status)
<1>1. PICK t, k : t = RowOf(m.state, ch)[3] /\ k = MarksTo(m, t)
  OBVIOUS
<1>2. Moved(m, ch) = [m EXCEPT !.state = t, !.marks = k]
  BY <1>1 DEF Moved, MarksTo
<1>3. Moved(m, ch) = RowTo(m, t, k, m.major, m.minor, m.status)
  BY <1>2 DEF RowTo, Parsers
<1> QED BY <1>1, <1>3

LEMMA MovedNoVersion ==
  ASSUME NEW m \in Parsers, NEW ch
  PROVE  LET t == RowOf(m.state, ch)[3]
         IN  [Moved(m, ch) EXCEPT !.major = 0, !.minor = 1] = RowTo(m, t, MarksTo(m, t), 0, 1, m.status)
<1>1. PICK t, k : t = RowOf(m.state, ch)[3] /\ k = MarksTo(m, t)
  OBVIOUS
<1>2. Moved(m, ch) = [m EXCEPT !.state = t, !.marks = k]
  BY <1>1 DEF Moved, MarksTo
<1>3. [Moved(m, ch) EXCEPT !.major = 0, !.minor = 1] = RowTo(m, t, k, 0, 1, m.status)
  BY <1>2 DEF RowTo, Parsers
<1> QED BY <1>1, <1>3

(* What Row does: it refuses the character, reads a first digit or a       *)
(* further one, or only follows the row.                                   *)
LEMMA RowRefused ==
  ASSUME NEW m, NEW ch, ~Taken(m.state, ch)
  PROVE  Row(m, ch) = Error(m)
BY DEF Row, Taken

LEMMA RowFirst ==
  ASSUME NEW m \in Parsers, NEW ch \in Digits, Taken(m.state, ch), m.state \in DOMAIN First
  PROVE  LET t == RowOf(m.state, ch)[3]
             k == MarksTo(m, t)
             d == Lengthen(0, ch)
         IN  /\ First[m.state] = "major" => Row(m, ch) = RowTo(m, t, k, d, m.minor, m.status)
             /\ First[m.state] = "minor" => Row(m, ch) = RowTo(m, t, k, m.major, d, m.status)
             /\ First[m.state] = "status" => Row(m, ch) = RowTo(m, t, k, m.major, m.minor, d)
<1>1. PICK n : n = Moved(m, ch)
  OBVIOUS
<1>2. PICK f : f = First[m.state]
  OBVIOUS
<1>3. PICK d : d = Lengthen(0, ch)
  OBVIOUS
<1>4. Row(m, ch) = [n EXCEPT ![f] = d]
  BY <1>1, <1>2, <1>3 DEF Row, Taken, Moved, RowOf
<1>5. CASE f = "major"
  <2>1. Row(m, ch) = [n EXCEPT !.major = d]
    BY <1>4, <1>5
  <2> QED BY <1>1, <1>2, <1>3, <1>5, <2>1, MovedMajor
<1>6. CASE f = "minor"
  <2>1. Row(m, ch) = [n EXCEPT !.minor = d]
    BY <1>4, <1>6
  <2> QED BY <1>1, <1>2, <1>3, <1>6, <2>1, MovedMinor
<1>7. CASE f = "status"
  <2>1. Row(m, ch) = [n EXCEPT !.status = d]
    BY <1>4, <1>7
  <2> QED BY <1>1, <1>2, <1>3, <1>7, <2>1, MovedStatus
<1> QED BY <1>2, <1>5, <1>6, <1>7

LEMMA RowFurther ==
  ASSUME NEW m \in Parsers, NEW ch \in Digits, Taken(m.state, ch), m.state \in DOMAIN Further
  PROVE  LET t == RowOf(m.state, ch)[3]
             k == MarksTo(m, t)
             d(x) == Lengthen(x, ch)
         IN  /\ Further[m.state] = "major" =>
                  Row(m, ch) = IF d(m.major) > MaxDigits THEN Error(m)
                               ELSE RowTo(m, t, k, d(m.major), m.minor, m.status)
             /\ Further[m.state] = "minor" =>
                  Row(m, ch) = IF d(m.minor) > MaxDigits THEN Error(m)
                               ELSE RowTo(m, t, k, m.major, d(m.minor), m.status)
             /\ Further[m.state] = "status" =>
                  Row(m, ch) = IF d(m.status) > MaxDigits THEN Error(m)
                               ELSE RowTo(m, t, k, m.major, m.minor, d(m.status))
<1>1. PICK n : n = Moved(m, ch)
  OBVIOUS
<1>2. PICK f : f = Further[m.state]
  OBVIOUS
<1>3. m.state \notin DOMAIN First
  BY DigitTables
<1>4. Row(m, ch) = IF Lengthen(m[f], ch) > MaxDigits THEN Error(m)
                   ELSE [n EXCEPT ![f] = Lengthen(m[f], ch)]
  BY <1>1, <1>2, <1>3 DEF Row, Taken, Moved, RowOf
<1>5. CASE f = "major"
  <2>1. PICK d : d = Lengthen(m.major, ch)
    OBVIOUS
  <2>2. Row(m, ch) = IF d > MaxDigits THEN Error(m) ELSE [n EXCEPT !.major = d]
    BY <1>4, <1>5, <2>1
  <2>3. [n EXCEPT !.major = d] = LET t == RowOf(m.state, ch)[3]
        IN RowTo(m, t, MarksTo(m, t), d, m.minor, m.status)
    BY <1>1, MovedMajor
  <2> QED BY <1>2, <1>5, <2>1, <2>2, <2>3
<1>6. CASE f = "minor"
  <2>1. PICK d : d = Lengthen(m.minor, ch)
    OBVIOUS
  <2>2. Row(m, ch) = IF d > MaxDigits THEN Error(m) ELSE [n EXCEPT !.minor = d]
    BY <1>4, <1>6, <2>1
  <2>3. [n EXCEPT !.minor = d] = LET t == RowOf(m.state, ch)[3]
        IN RowTo(m, t, MarksTo(m, t), m.major, d, m.status)
    BY <1>1, MovedMinor
  <2> QED BY <1>2, <1>6, <2>1, <2>2, <2>3
<1>7. CASE f = "status"
  <2>1. PICK d : d = Lengthen(m.status, ch)
    OBVIOUS
  <2>2. Row(m, ch) = IF d > MaxDigits THEN Error(m) ELSE [n EXCEPT !.status = d]
    BY <1>4, <1>7, <2>1
  <2>3. [n EXCEPT !.status = d] = LET t == RowOf(m.state, ch)[3]
        IN RowTo(m, t, MarksTo(m, t), m.major, m.minor, d)
    BY <1>1, MovedStatus
  <2> QED BY <1>2, <1>7, <2>1, <2>2, <2>3
<1> QED BY <1>2, <1>5, <1>6, <1>7

LEMMA RowElse ==
  ASSUME NEW m \in Parsers, NEW ch, Taken(m.state, ch),
         ch \notin Digits \/ m.state \notin DOMAIN First \cup DOMAIN Further
  PROVE  LET t == RowOf(m.state, ch)[3]
             k == MarksTo(m, t)
         IN  Row(m, ch) = IF m.state \in PathStates /\ ch \in {"CR", "LF"}
                          THEN RowTo(m, t, k, 0, 1, m.status)
                          ELSE RowTo(m, t, k, m.major, m.minor, m.status)
<1>1. Row(m, ch) = IF m.state \in PathStates /\ ch \in {"CR", "LF"}
                   THEN [Moved(m, ch) EXCEPT !.major = 0, !.minor = 1] ELSE Moved(m, ch)
  BY DEF Row, Taken, Moved, RowOf
<1> QED BY <1>1, MovedOnly, MovedNoVersion

(* Where a row leads.                                                      *)
LEMMA RowStates ==
  ASSUME NEW s \in TableStates, NEW ch, Taken(s, ch)
  PROVE  LET t == RowOf(s, ch)[3]
         IN  /\ t \in TableStates \cup {"s_header_field_start"}
             /\ t \in UrlStates /\ s \notin UrlStates =>
                  s = "s_req_spaces_before_url" /\ t \in {"s_req_path", "s_req_schema"}
             /\ t \in MajorKnown =>
                  \/ s \in MajorKnown
                  \/ s \in {"s_res_first_http_major", "s_req_first_http_major"} /\ ch = "2"
                  \/ s \in PathStates /\ ch \in {"CR", "LF"}
             /\ t \in MinorKnown =>
                  \/ s \in MinorKnown
                  \/ s \in {"s_res_first_http_minor", "s_req_first_http_minor"} /\ ch \in Digits
                  \/ s \in PathStates /\ ch \in {"CR", "LF"}
             /\ t = "s_res_status_code" =>
                  s = "s_res_status_code" \/ (s = "s_res_first_status_code" /\ ch \in Digits)
<1>1. PICK r : r = RowOf(s, ch)
  OBVIOUS
<1>2. r \in {x \in Rows[s] : ch \in x[2]}
  BY <1>1 DEF RowOf, Taken
<1>3. r \in StatusRows \cup HostRows \cup PathRows \cup VersionRows /\ r[1] = s /\ ch \in r[2]
  BY <1>2 DEF Rows
<1> QED BY <1>1, <1>3, RowFacts

-----------------------------------------------------------------------------
(* Two parsers that agree on what the rest of the parse depends on agree   *)
(* on it after the next character, too.  One lemma per part of the switch. *)

LEMMA ErrorSame ==
  ASSUME NEW m \in Parsers, NEW w \in Parsers, SameRun(m, w), m.state \notin StartStates
  PROVE  SameRun(Error(m), Error(w))
BY DEF SameRun, Error, Counted, StartStates, Parsers, MajorKnown, MinorKnown,
       ResponseStates, HeaderStates, ChunkStates, BodyStates

LEMMA StartSame ==
  ASSUME NEW m \in Parsers, NEW w \in Parsers, NEW ch, SameRun(m, w), m.state \in StartStates
  PROVE  SameRun(Start(m, ch), Start(w, ch))
BY DEF SameRun, Start, start_req_method_assign, message_begin, Error, Counted, StartStates,
       Parsers, MajorKnown, MinorKnown, ResponseStates, HeaderStates, ChunkStates, BodyStates

LEMMA ReqOrResSame ==
  ASSUME NEW m \in Parsers, NEW w \in Parsers, NEW ch, SameRun(m, w),
         m.state = "s_res_or_resp_H"
  PROVE  SameRun(ReqOrRes(m, ch), ReqOrRes(w, ch))
BY DEF SameRun, ReqOrRes, Error, Counted, StartStates, Parsers, MajorKnown, MinorKnown,
       ResponseStates, HeaderStates, ChunkStates, BodyStates

LEMMA MethodSame ==
  ASSUME NEW m \in Parsers, NEW w \in Parsers, NEW ch, SameRun(m, w), m.state = "s_req_method"
  PROVE  SameRun(Method(m, ch), Method(w, ch))
<1>1. m.state \notin StartStates /\ m.index = w.index /\ m.method = w.method
  BY DEF SameRun, Counted, StartStates
<1>2. PICK i : i = m.index + 1
  OBVIOUS
<1>3. PICK n, v : n = [m EXCEPT !.index = i] /\ v = [w EXCEPT !.index = i]
  OBVIOUS
<1>4. n = [m EXCEPT !.index = @ + 1] /\ v = [w EXCEPT !.index = @ + 1]
  BY <1>1, <1>2, <1>3
<1>5. \/ /\ Method(m, ch) = [n EXCEPT !.state = "s_req_spaces_before_url"]
         /\ Method(w, ch) = [v EXCEPT !.state = "s_req_spaces_before_url"]
      \/ Method(m, ch) = n /\ Method(w, ch) = v
      \/ Method(m, ch) = Error(m) /\ Method(w, ch) = Error(w)
      \/ Method(m, ch) = [n EXCEPT !.method = "COPY"] /\ Method(w, ch) = [v EXCEPT !.method = "COPY"]
  BY <1>1, <1>4 DEF Method
<1>6. SameRun(n, v)
  BY <1>3 DEF SameRun, Counted, StartStates, Parsers
<1>7. SameRun([n EXCEPT !.method = "COPY"], [v EXCEPT !.method = "COPY"])
  BY <1>3 DEF SameRun, Counted, StartStates, Parsers
<1>8. SameRun([n EXCEPT !.state = "s_req_spaces_before_url"],
              [v EXCEPT !.state = "s_req_spaces_before_url"])
  <2>1. "s_req_spaces_before_url" \notin MajorKnown \cup MinorKnown
    BY DEF MajorKnown, MinorKnown, ResponseStates, HeaderStates, ChunkStates, BodyStates
  <2> QED BY <1>3, <2>1 DEF SameRun, Counted, StartStates, Parsers
<1>9. SameRun(Error(m), Error(w))
  BY <1>1, ErrorSame
<1> QED BY <1>5, <1>6, <1>7, <1>8, <1>9

(* Two parsers that a row takes to the same state, and that agree on what  *)
(* that state knows.                                                       *)
LEMMA RowToSame ==
  ASSUME NEW m \in Parsers, NEW w \in Parsers, SameRun(m, w), NEW t, NEW k,
         t \in TableStates \cup {"s_header_field_start"},
         m.state \notin StartStates,
         NEW a, NEW b, NEW c, NEW aa, NEW bb, NEW cc,
         t \in MajorKnown => a = aa, t \in MinorKnown => b = bb,
         t = "s_res_status_code" => c = cc
  PROVE  SameRun(RowTo(m, t, k, a, b, c), RowTo(w, t, k, aa, bb, cc))
<1>1. t \notin StartStates
        \cup {"s_req_method", "s_header_field", "s_header_value", "s_header_value_start",
              "s_header_almost_done"}
  BY DEF TableStates, StartStates, ResponseStates, UrlStates, VersionStates
<1> QED BY <1>1 DEF RowTo, SameRun, Counted, Parsers

(* The table-driven states.                                                *)
LEMMA RowSame ==
  ASSUME NEW m \in Parsers, NEW w \in Parsers, NEW ch, SameRun(m, w), m.state \in TableStates
  PROVE  SameRun(Row(m, ch), Row(w, ch))
<1>1. m.state = w.state /\ m.state \notin StartStates /\ m.marks = w.marks
  BY DEF SameRun, TableStates, StartStates, ResponseStates, UrlStates, VersionStates
<1>2. CASE ~Taken(m.state, ch)
  BY <1>1, <1>2, RowRefused, ErrorSame
<1>3. CASE Taken(m.state, ch)
  <2>1. PICK t : t = RowOf(m.state, ch)[3]
    OBVIOUS
  <2>2. PICK k : k = MarksTo(m, t) /\ k = MarksTo(w, t)
    BY <1>1 DEF MarksTo
  <2>3. /\ t \in TableStates \cup {"s_header_field_start"}
        /\ t \in MajorKnown =>
             \/ m.state \in MajorKnown
             \/ m.state \in {"s_res_first_http_major", "s_req_first_http_major"} /\ ch = "2"
             \/ m.state \in PathStates /\ ch \in {"CR", "LF"}
        /\ t \in MinorKnown =>
             \/ m.state \in MinorKnown
             \/ m.state \in {"s_res_first_http_minor", "s_req_first_http_minor"} /\ ch \in Digits
             \/ m.state \in PathStates /\ ch \in {"CR", "LF"}
        /\ t = "s_res_status_code" =>
             m.state = "s_res_status_code" \/ (m.state = "s_res_first_status_code" /\ ch \in Digits)
    BY <1>3, <2>1, RowStates
  <2>4. /\ m.state \in MajorKnown => m.major = w.major
        /\ m.state \in MinorKnown => m.minor = w.minor
        /\ m.state = "s_res_status_code" => m.status = w.status
    BY DEF SameRun
  <2>5. ASSUME NEW a, NEW b, NEW c, NEW aa, NEW bb, NEW cc,
               t \in MajorKnown => a = aa, t \in MinorKnown => b = bb,
               t = "s_res_status_code" => c = cc
        PROVE  SameRun(RowTo(m, t, k, a, b, c), RowTo(w, t, k, aa, bb, cc))
    BY <1>1, <2>3, <2>5, RowToSame
  <2>6. CASE ch \in Digits /\ m.state \in DOMAIN First
    <3>1. PICK d : d = Lengthen(0, ch)
      OBVIOUS
    <3>2. CASE First[m.state] = "major"
      <4>1. /\ Row(m, ch) = RowTo(m, t, k, d, m.minor, m.status)
            /\ Row(w, ch) = RowTo(w, t, k, d, w.minor, w.status)
        BY <1>1, <1>3, <2>1, <2>2, <2>6, <3>1, <3>2, RowFirst
      <4>2. t \in MinorKnown => m.minor = w.minor
        BY <2>3, <2>4, <2>6, <3>2, DigitTables DEF PathStates, Digits
      <4>3. t # "s_res_status_code"
        BY <2>3, <2>6, <3>2, DigitTables
      <4> QED BY <2>5, <4>1, <4>2, <4>3
    <3>3. CASE First[m.state] = "minor"
      <4>1. /\ Row(m, ch) = RowTo(m, t, k, m.major, d, m.status)
            /\ Row(w, ch) = RowTo(w, t, k, w.major, d, w.status)
        BY <1>1, <1>3, <2>1, <2>2, <2>6, <3>1, <3>3, RowFirst
      <4>2. t \in MajorKnown => m.major = w.major
        BY <2>3, <2>4, <2>6, <3>3, DigitTables DEF PathStates, Digits
      <4>3. t # "s_res_status_code"
        BY <2>3, <2>6, <3>3, DigitTables
      <4> QED BY <2>5, <4>1, <4>2, <4>3
    <3>4. CASE First[m.state] = "status"
      <4>1. /\ Row(m, ch) = RowTo(m, t, k, m.major, m.minor, d)
            /\ Row(w, ch) = RowTo(w, t, k, w.major, w.minor, d)
        BY <1>1, <1>3, <2>1, <2>2, <2>6, <3>1, <3>4, RowFirst
      <4>2. t \in MajorKnown => m.major = w.major
        BY <2>3, <2>4, <2>6, <3>4, DigitTables DEF PathStates, Digits
      <4>3. t \in MinorKnown => m.minor = w.minor
        BY <2>3, <2>4, <2>6, <3>4, DigitTables DEF PathStates, Digits
      <4> QED BY <2>5, <4>1, <4>2, <4>3
    <3> QED BY <2>6, <3>2, <3>3, <3>4, DigitTables
  <2>7. CASE ch \in Digits /\ m.state \in DOMAIN Further
    <3>1. /\ t \in MajorKnown => m.major = w.major
          /\ t \in MinorKnown => m.minor = w.minor
          /\ t = "s_res_status_code" => m.status = w.status
      BY <2>3, <2>4, <2>7, DigitTables DEF PathStates, Digits
    <3>2. CASE Further[m.state] = "major"
      <4>1. m.major = w.major
        BY <2>4, <2>7, <3>2, DigitTables DEF MajorKnown, ResponseStates
      <4>2. PICK d : d = Lengthen(m.major, ch)
        OBVIOUS
      <4>3. /\ Row(m, ch) = IF d > MaxDigits THEN Error(m) ELSE RowTo(m, t, k, d, m.minor, m.status)
            /\ Row(w, ch) = IF d > MaxDigits THEN Error(w) ELSE RowTo(w, t, k, d, w.minor, w.status)
        BY <1>1, <1>3, <2>1, <2>2, <2>7, <3>2, <4>1, <4>2, RowFurther
      <4>4. SameRun(RowTo(m, t, k, d, m.minor, m.status), RowTo(w, t, k, d, w.minor, w.status))
        BY <2>5, <3>1
      <4> QED BY <1>1, <4>3, <4>4, ErrorSame
    <3>3. CASE Further[m.state] = "minor"
      <4>1. m.minor = w.minor
        BY <2>4, <2>7, <3>3, DigitTables DEF MinorKnown, MajorKnown, ResponseStates
      <4>2. PICK d : d = Lengthen(m.minor, ch)
        OBVIOUS
      <4>3. /\ Row(m, ch) = IF d > MaxDigits THEN Error(m) ELSE RowTo(m, t, k, m.major, d, m.status)
            /\ Row(w, ch) = IF d > MaxDigits THEN Error(w) ELSE RowTo(w, t, k, w.major, d, w.status)
        BY <1>1, <1>3, <2>1, <2>2, <2>7, <3>3, <4>1, <4>2, RowFurther
      <4>4. SameRun(RowTo(m, t, k, m.major, d, m.status), RowTo(w, t, k, w.major, d, w.status))
        BY <2>5, <3>1
      <4> QED BY <1>1, <4>3, <4>4, ErrorSame
    <3>4. CASE Further[m.state] = "status"
      <4>1. m.status = w.status
        BY <2>4, <2>7, <3>4, DigitTables
      <4>2. PICK d : d = Lengthen(m.status, ch)
        OBVIOUS
      <4>3. /\ Row(m, ch) = IF d > MaxDigits THEN Error(m) ELSE RowTo(m, t, k, m.major, m.minor, d)
            /\ Row(w, ch) = IF d > MaxDigits THEN Error(w) ELSE RowTo(w, t, k, w.major, w.minor, d)
        BY <1>1, <1>3, <2>1, <2>2, <2>7, <3>4, <4>1, <4>2, RowFurther
      <4>4. SameRun(RowTo(m, t, k, m.major, m.minor, d), RowTo(w, t, k, w.major, w.minor, d))
        BY <2>5, <3>1
      <4> QED BY <1>1, <4>3, <4>4, ErrorSame
    <3> QED BY <2>7, <3>2, <3>3, <3>4, DigitTables
  <2>8. CASE (ch \notin Digits \/ m.state \notin DOMAIN First \cup DOMAIN Further)
             /\ m.state \in PathStates /\ ch \in {"CR", "LF"}
    <3>1. /\ Row(m, ch) = RowTo(m, t, k, 0, 1, m.status)
          /\ Row(w, ch) = RowTo(w, t, k, 0, 1, w.status)
      BY <1>1, <1>3, <2>1, <2>2, <2>8, RowElse
    <3>2. t # "s_res_status_code"
      BY <2>3, <2>8 DEF PathStates
    <3> QED BY <2>5, <3>1, <3>2
  <2>9. CASE (ch \notin Digits \/ m.state \notin DOMAIN First \cup DOMAIN Further)
             /\ ~(m.state \in PathStates /\ ch \in {"CR", "LF"})
    <3>1. /\ Row(m, ch) = RowTo(m, t, k, m.major, m.minor, m.status)
          /\ Row(w, ch) = RowTo(w, t, k, w.major, w.minor, w.status)
      BY <1>1, <1>3, <2>1, <2>2, <2>9, RowElse
    <3>2. /\ t \in MajorKnown => m.major = w.major
          /\ t \in MinorKnown => m.minor = w.minor
          /\ t = "s_res_status_code" => m.status = w.status
      BY <2>3, <2>4, <2>9, DigitTables DEF Digits
    <3> QED BY <2>5, <3>1, <3>2
  <2> QED BY <2>6, <2>7, <2>8, <2>9
<1> QED BY <1>2, <1>3

(* A size_t holds at least two values.                                     *)
LEMMA SizeFacts == Size \in Nat /\ Size > 1 /\ MaxDigits \in Nat /\ MaxDigits > 0
BY HttpParserAssumption

(* Header fields and values.                                               *)
LEMMA MatchSame ==
  ASSUME NEW m \in Parsers, NEW w \in Parsers, NEW ch, SameRun(m, w),
         m.state \in {"s_header_field", "s_header_value"}, m.header_state \in DOMAIN Keyword
  PROVE  SameRun(Match(m, ch), Match(w, ch))
<1>1. m.index = w.index /\ m.header_state = w.header_state
  BY DEF SameRun, Counted
<1>2. PICK h : h = Match(m, ch).header_state
  OBVIOUS
<1>3. PICK i : i = m.index + 1
  OBVIOUS
<1>4. /\ Match(m, ch) = [m EXCEPT !.index = i, !.header_state = h]
      /\ Match(w, ch) = [w EXCEPT !.index = i, !.header_state = h]
  BY <1>1, <1>2, <1>3 DEF Match, Parsers
<1> QED BY <1>4 DEF SameRun, Counted, StartStates, Parsers

LEMMA HeaderDoneSame ==
  ASSUME NEW m \in Parsers, NEW w \in Parsers, NEW ch, SameRun(m, w),
         m.state \in {"s_header_value", "s_header_almost_done"}
  PROVE  SameRun(HeaderDone(m, ch), HeaderDone(w, ch))
<1>1. CASE ch # "LF"
  BY <1>1, ErrorSame DEF HeaderDone, StartStates
<1>2. CASE ch = "LF"
  <2>1. PICK f : f = m.flags \cup {FlagOf[h] : h \in {m.header_state} \cap DOMAIN FlagOf}
    OBVIOUS
  <2>2. m.header_state = w.header_state /\ m.flags = w.flags
    BY DEF SameRun
  <2>3. /\ HeaderDone(m, ch) = [m EXCEPT !.state = "s_header_field_start", !.flags = f]
        /\ HeaderDone(w, ch) = [w EXCEPT !.state = "s_header_field_start", !.flags = f]
    BY <1>2, <2>1, <2>2 DEF HeaderDone
  <2> QED BY <2>3 DEF SameRun, Counted, StartStates, Parsers, MajorKnown, MinorKnown, HeaderStates
<1> QED BY <1>1, <1>2
LEMMA HeaderValueSame ==
  ASSUME NEW m \in Parsers, NEW w \in Parsers, NEW ch, SameRun(m, w), m.state = "s_header_value"
  PROVE  SameRun(HeaderValue(m, ch), HeaderValue(w, ch))
<1>1. PICK n, v : /\ n = [m EXCEPT !.marks = @ \ {"header_value"}]
                  /\ v = [w EXCEPT !.marks = @ \ {"header_value"}]
  OBVIOUS
<1>2. n \in Parsers /\ v \in Parsers /\ SameRun(n, v) /\ n.state = "s_header_value"
  BY <1>1 DEF SameRun, Counted, Parsers
<1>3. CASE ch = "CR"
  <2>1. /\ HeaderValue(m, ch) = [n EXCEPT !.state = "s_header_almost_done"]
        /\ HeaderValue(w, ch) = [v EXCEPT !.state = "s_header_almost_done"]
    BY <1>1, <1>3 DEF HeaderValue
  <2> QED BY <1>2, <2>1 DEF SameRun, Counted, Parsers, StartStates, MajorKnown, MinorKnown,
                            HeaderStates
<1>4. CASE ch = "LF"
  <2>1. HeaderValue(m, ch) = HeaderDone(n, ch) /\ HeaderValue(w, ch) = HeaderDone(v, ch)
    BY <1>1, <1>4 DEF HeaderValue
  <2> QED BY <1>2, <2>1, HeaderDoneSame
<1>5. m.header_state = w.header_state /\ m.content_length = w.content_length
  BY DEF SameRun, StartStates
<1>6. CASE ch \notin {"CR", "LF"} /\ m.header_state \in DOMAIN Keyword
  <2>1. HeaderValue(m, ch) = Match(m, ch) /\ HeaderValue(w, ch) = Match(w, ch)
    BY <1>5, <1>6 DEF HeaderValue, Keyword
  <2> QED BY <1>6, <2>1, MatchSame
<1>7. CASE ch \notin {"CR", "LF"} /\ m.header_state = "h_content_length"
  BY <1>7 DEF HeaderValue, Error, Decimal, SameRun, Counted, StartStates, Parsers, MajorKnown,
              MinorKnown, HeaderStates, ChunkStates, BodyStates
<1>8. CASE ch \notin {"CR", "LF"} /\ m.header_state \notin {"h_content_length"} \cup DOMAIN Keyword
  <2>1. \/ HeaderValue(m, ch) = m /\ HeaderValue(w, ch) = w
        \/ /\ HeaderValue(m, ch) = [m EXCEPT !.header_state = "h_general"]
           /\ HeaderValue(w, ch) = [w EXCEPT !.header_state = "h_general"]
    BY <1>5, <1>8 DEF HeaderValue
  <2>2. "h_general" \notin DOMAIN Keyword
    BY DEF Keyword
  <2>3. CASE HeaderValue(m, ch) = m /\ HeaderValue(w, ch) = w
    BY <2>3
  <2>4. CASE /\ HeaderValue(m, ch) = [m EXCEPT !.header_state = "h_general"]
             /\ HeaderValue(w, ch) = [w EXCEPT !.header_state = "h_general"]
    <3>1. PICK p, q : /\ p = [m EXCEPT !.header_state = "h_general"]
                      /\ q = [w EXCEPT !.header_state = "h_general"]
      OBVIOUS
    <3>2. p.header_state = q.header_state /\ p.state = m.state /\ ~Counted(p)
      BY <2>2, <3>1 DEF Counted, Parsers
    <3>3. SameRun(p, q)
      BY <3>1, <3>2 DEF SameRun, Parsers
    <3> QED BY <2>4, <3>1, <3>3
  <2> QED BY <2>1, <2>3, <2>4
<1> QED BY <1>3, <1>4, <1>6, <1>7, <1>8

LEMMA NextInSame ==
  ASSUME NEW m \in Parsers, NEW w \in Parsers, NEW h, SameRun(m, w), m.state = "s_header_field",
         m.header_state \in {"h_C", "h_CON"}
  PROVE  SameRun(NextIn(m, h), NextIn(w, h))
BY DEF NextIn, SameRun, Counted, StartStates, Parsers

LEMMA FieldSame ==
  ASSUME NEW m \in Parsers, NEW w \in Parsers, NEW ch, SameRun(m, w), m.state = "s_header_field"
  PROVE  SameRun(Field(m, ch), Field(w, ch))
<1>0. m.header_state = w.header_state
  BY DEF SameRun
<1>1. CASE ch \in Token /\ m.header_state \in {"h_C", "h_CON"}
  BY <1>0, <1>1, NextInSame DEF Field, FieldToken
<1>2. CASE ch \in Token /\ m.header_state \in DOMAIN Keyword
  BY <1>0, <1>2, MatchSame DEF Field, FieldToken, Keyword
<1>3. CASE ch \in Token /\ m.header_state \notin {"h_C", "h_CON"} \cup DOMAIN Keyword
  <2>1. \/ Field(m, ch) = m /\ Field(w, ch) = w
        \/ /\ Field(m, ch) = [m EXCEPT !.header_state = "h_general"]
           /\ Field(w, ch) = [w EXCEPT !.header_state = "h_general"]
    BY <1>0, <1>3 DEF Field, FieldToken
  <2>2. PICK n, v : /\ n = [m EXCEPT !.header_state = "h_general"]
                    /\ v = [w EXCEPT !.header_state = "h_general"]
    OBVIOUS
  <2>3. n.header_state = v.header_state /\ n.state = m.state /\ ~Counted(n)
    BY <2>2 DEF Counted, Parsers, Keyword
  <2>4. SameRun(n, v)
    BY <2>2, <2>3 DEF SameRun, Parsers
  <2> QED BY <2>1, <2>2, <2>4
<1>4. CASE ch \notin Token
  BY <1>4 DEF Field, Error, SameRun, Counted, StartStates, Parsers, MajorKnown, MinorKnown,
              HeaderStates, ChunkStates, BodyStates, ResponseStates
<1> QED BY <1>1, <1>2, <1>3, <1>4
LEMMA ValueStartSame ==
  ASSUME NEW m \in Parsers, NEW w \in Parsers, NEW ch, SameRun(m, w), m.state = "s_header_value_start"
  PROVE  SameRun(ValueStart(m, ch), ValueStart(w, ch))
<1> USE DEF SameRun, Counted, StartStates, Parsers, MajorKnown, MinorKnown, HeaderStates
<1>1. CASE ch \in {"SP", "CR", "LF"}
  BY <1>1 DEF ValueStart
<1>2. CASE ch \notin {"SP", "CR", "LF"} /\ m.header_state \in {"h_upgrade", "h_content_length"}
  <2>1. m.header_state = w.header_state /\ m.marks = w.marks /\ m.flags = w.flags
    OBVIOUS
  <2>2. PICK k, f : k = m.marks \cup {"header_value"} /\ f = m.flags \cup {"UPGRADE"}
    OBVIOUS
  <2>3. PICK n, v : /\ n = [m EXCEPT !.state = "s_header_value", !.index = 0, !.marks = k]
                    /\ v = [w EXCEPT !.state = "s_header_value", !.index = 0, !.marks = k]
    OBVIOUS
  <2>4. /\ n = [m EXCEPT !.state = "s_header_value", !.index = 0, !.marks = @ \cup {"header_value"}]
        /\ v = [w EXCEPT !.state = "s_header_value", !.index = 0, !.marks = @ \cup {"header_value"}]
    BY <2>1, <2>2, <2>3
  <2>5. n.flags = m.flags /\ v.flags = w.flags
    BY <2>3
  <2>6. \/ /\ ValueStart(m, ch) = [n EXCEPT !.flags = f, !.header_state = "h_general"]
           /\ ValueStart(w, ch) = [v EXCEPT !.flags = f, !.header_state = "h_general"]
        \/ \E l : /\ ValueStart(m, ch) = [n EXCEPT !.content_length = l]
                  /\ ValueStart(w, ch) = [v EXCEPT !.content_length = l]
        \/ ValueStart(m, ch) = Error(n) /\ ValueStart(w, ch) = Error(v)
    <3> HIDE DEF SameRun, Counted, StartStates, Parsers, MajorKnown, MinorKnown, HeaderStates
    <3> QED BY <1>2, <2>1, <2>2, <2>4, <2>5 DEF ValueStart
  <2>7. SameRun([n EXCEPT !.flags = f, !.header_state = "h_general"],
                [v EXCEPT !.flags = f, !.header_state = "h_general"])
    BY <2>3
  <2>8. ASSUME NEW l
        PROVE  SameRun([n EXCEPT !.content_length = l], [v EXCEPT !.content_length = l])
    BY <2>3
  <2>9. SameRun(Error(n), Error(v))
    BY <2>3 DEF Error, ResponseStates, ChunkStates, BodyStates
  <2> HIDE DEF SameRun, Counted, StartStates, Parsers, MajorKnown, MinorKnown, HeaderStates
  <2>10. CASE \E l : /\ ValueStart(m, ch) = [n EXCEPT !.content_length = l]
                    /\ ValueStart(w, ch) = [v EXCEPT !.content_length = l]
    <3>1. PICK l : /\ ValueStart(m, ch) = [n EXCEPT !.content_length = l]
                   /\ ValueStart(w, ch) = [v EXCEPT !.content_length = l]
      BY <2>10
    <3>2. SameRun([n EXCEPT !.content_length = l], [v EXCEPT !.content_length = l])
      BY <2>8
    <3> QED BY <3>1, <3>2
  <2>11. CASE /\ ValueStart(m, ch) = [n EXCEPT !.flags = f, !.header_state = "h_general"]
              /\ ValueStart(w, ch) = [v EXCEPT !.flags = f, !.header_state = "h_general"]
    BY <2>7, <2>11
  <2>12. CASE ValueStart(m, ch) = Error(n) /\ ValueStart(w, ch) = Error(v)
    BY <2>9, <2>12
  <2> QED BY <2>6, <2>10, <2>11, <2>12
<1>3. CASE ch \notin {"SP", "CR", "LF"} /\ m.header_state \notin {"h_upgrade", "h_content_length"}
  BY <1>3 DEF ValueStart
<1> QED BY <1>1, <1>2, <1>3
LEMMA FieldBeginsSame ==
  ASSUME NEW m \in Parsers, NEW w \in Parsers, NEW ch, NEW r, SameRun(m, w), m.state = "s_header_field_start",
    ch # "LF"
  PROVE  SameRun(FieldStart(m, ch, r), FieldStart(w, ch, r))
BY DEF FieldStart, Error, SameRun, Counted, StartStates, Parsers, MajorKnown, MinorKnown,
              HeaderStates, ChunkStates, BodyStates, ResponseStates
(* The end of a message and of its headers.                                *)
LEMMA CompleteSame ==
  ASSUME NEW m \in Parsers, NEW w \in Parsers, SameRun(m, w), m.state \in HeaderStates \cup BodyStates
  PROVE  SameRun(Complete(m), Complete(w))
<1>1. http_should_keep_alive(m) = http_should_keep_alive(w)
  BY DEF http_should_keep_alive, SameRun, MajorKnown, MinorKnown, HeaderStates, BodyStates, ChunkStates
<1> QED BY <1>1 DEF Complete, start_state, SameRun, Counted, StartStates, Parsers, MajorKnown, MinorKnown,
              HeaderStates, ChunkStates, BodyStates, ResponseStates

LEMMA HeadersDoneSame ==
  ASSUME NEW m \in Parsers, NEW w \in Parsers, NEW ch, NEW r, SameRun(m, w),
         m.state = "s_headers_almost_done"
  PROVE  SameRun(HeadersDone(m, ch, r), HeadersDone(w, ch, r))
<1>1. /\ m.type = w.type /\ m.flags = w.flags /\ m.upgrade = w.upgrade /\ m.method = w.method
      /\ m.calls = w.calls /\ m.content_length = w.content_length
      /\ http_should_keep_alive(m) = http_should_keep_alive(w)
  BY DEF http_should_keep_alive, SameRun, StartStates, MajorKnown, MinorKnown, HeaderStates
<1>2. PICK up : up = (m.upgrade \/ "UPGRADE" \in m.flags \/ m.method = "CONNECT")
  OBVIOUS
<1>3. PICK c : c = Append(m.calls, "headers_complete")
  OBVIOUS
<1>4. PICK n, v : /\ n = [m EXCEPT !.nread = 0, !.upgrade = up, !.calls = c]
                  /\ v = [w EXCEPT !.nread = 0, !.upgrade = up, !.calls = c]
  OBVIOUS
<1>5. n \in Parsers /\ v \in Parsers /\ SameRun(n, v) /\ n.state = "s_headers_almost_done"
        /\ n.flags = v.flags
  <2>1. c \in Seq(Callbacks) /\ up \in BOOLEAN
    BY <1>2, <1>3 DEF Parsers, Callbacks
  <2>2. n \in Parsers /\ v \in Parsers
    BY <1>4, <2>1 DEF Parsers
  <2>3. SameRun(n, v) /\ n.state = "s_headers_almost_done" /\ n.flags = v.flags
    BY <1>1, <1>4 DEF SameRun, Counted, Parsers, StartStates
  <2> QED BY <2>2, <2>3
<1>6. CASE ch # "LF"
  BY <1>6, ErrorSame DEF HeadersDone, StartStates
<1>7. CASE ch = "LF" /\ "TRAILING" \in m.flags
  <2>1. HeadersDone(m, ch, r) = Complete(m) /\ HeadersDone(w, ch, r) = Complete(w)
    BY <1>1, <1>7 DEF HeadersDone
  <2> QED BY <2>1, CompleteSame DEF HeaderStates
<1>8. CASE ch = "LF" /\ "TRAILING" \notin m.flags /\ up
  <2>1. PICK d : d = Append(c, "message_complete")
    OBVIOUS
  <2>2. /\ HeadersDone(m, ch, r) = [n EXCEPT !.calls = d]
        /\ HeadersDone(w, ch, r) = [v EXCEPT !.calls = d]
    BY <1>1, <1>2, <1>3, <1>4, <1>8, <2>1 DEF HeadersDone, Parsers
  <2>3. SameRun([n EXCEPT !.calls = d], [v EXCEPT !.calls = d])
    <3>1. PICK p, q : p = [n EXCEPT !.calls = d] /\ q = [v EXCEPT !.calls = d]
      OBVIOUS
    <3>2. Counted(p) = Counted(n)
      BY <1>5, <3>1 DEF Counted, Parsers
    <3>3. SameRun(p, q)
      BY <1>5, <3>1, <3>2 DEF SameRun, Parsers
    <3> QED BY <3>1, <3>3
  <2> QED BY <2>2, <2>3
<1>9. CASE ch = "LF" /\ "TRAILING" \notin m.flags /\ ~up /\ r = 1
  <2>1. PICK p, q : /\ p = [n EXCEPT !.flags = @ \cup {"SKIPBODY"}]
                    /\ q = [v EXCEPT !.flags = @ \cup {"SKIPBODY"}]
    OBVIOUS
  <2>2. HeadersDone(m, ch, r) = Complete(p) /\ HeadersDone(w, ch, r) = Complete(q)
    BY <1>1, <1>2, <1>3, <1>4, <1>9, <2>1 DEF HeadersDone
  <2>3. p \in Parsers /\ q \in Parsers /\ SameRun(p, q) /\ p.state = "s_headers_almost_done"
    BY <1>5, <2>1 DEF SameRun, Counted, Parsers, StartStates, Flags
  <2> QED BY <2>2, <2>3, CompleteSame DEF HeaderStates
<1>10. CASE ch = "LF" /\ "TRAILING" \notin m.flags /\ ~up /\ r # 1
  <2>1. ASSUME NEW s \in {"s_chunk_size_start", "s_body_identity", "s_body_identity_eof"}
        PROVE  SameRun([n EXCEPT !.state = s], [v EXCEPT !.state = s])
    BY <1>5, <2>1 DEF SameRun, Counted, Parsers, StartStates, MajorKnown, MinorKnown,
                      HeaderStates, ChunkStates, BodyStates, ResponseStates
  <2>2. \/ HeadersDone(m, ch, r) = Complete(n) /\ HeadersDone(w, ch, r) = Complete(v)
        \/ \E s \in {"s_chunk_size_start", "s_body_identity", "s_body_identity_eof"} :
             /\ HeadersDone(m, ch, r) = [n EXCEPT !.state = s]
             /\ HeadersDone(w, ch, r) = [v EXCEPT !.state = s]
    BY <1>1, <1>2, <1>3, <1>4, <1>10 DEF HeadersDone
  <2>3. SameRun(Complete(n), Complete(v))
    BY <1>5, CompleteSame DEF HeaderStates
  <2> QED BY <2>1, <2>2, <2>3
<1> QED BY <1>6, <1>7, <1>8, <1>9, <1>10

LEMMA FieldStartSame ==
  ASSUME NEW m \in Parsers, NEW w \in Parsers, NEW ch, NEW r, SameRun(m, w),
         m.state = "s_header_field_start"
  PROVE  SameRun(FieldStart(m, ch, r), FieldStart(w, ch, r))
<1>1. CASE ch # "LF"
  BY <1>1, FieldBeginsSame
<1>2. CASE ch = "LF"
  <2>1. PICK n, v : /\ n = [m EXCEPT !.state = "s_headers_almost_done"]
                    /\ v = [w EXCEPT !.state = "s_headers_almost_done"]
    OBVIOUS
  <2>2. FieldStart(m, ch, r) = HeadersDone(n, ch, r) /\ FieldStart(w, ch, r) = HeadersDone(v, ch, r)
    BY <1>2, <2>1 DEF FieldStart
  <2>3. n \in Parsers /\ v \in Parsers /\ SameRun(n, v) /\ n.state = "s_headers_almost_done"
    BY <2>1 DEF SameRun, Counted, Parsers, States, HeaderStates, StartStates, MajorKnown, MinorKnown
  <2> QED BY <2>2, <2>3, HeadersDoneSame
<1> QED BY <1>1, <1>2

(* Chunks.                                                                 *)
LEMMA ChunkSame ==
  ASSUME NEW m \in Parsers, NEW w \in Parsers, NEW ch, SameRun(m, w),
         m.state \in ChunkStates \ BodyStates
  PROVE  SameRun(Chunk(m, ch), Chunk(w, ch))
<1>1. /\ m.state = w.state /\ m.content_length = w.content_length /\ m.flags = w.flags
      /\ m.state \notin StartStates
  BY DEF SameRun, StartStates, ChunkStates
<1>2. ASSUME NEW l, NEW s \in ChunkStates
      PROVE  SameRun([m EXCEPT !.content_length = l, !.state = s],
                     [w EXCEPT !.content_length = l, !.state = s])
  BY <1>2 DEF SameRun, Counted, Parsers, StartStates, MajorKnown, MinorKnown, ChunkStates
<1>3. SameRun(Error(m), Error(w))
  BY <1>1, ErrorSame
<1>4. ASSUME NEW s \in ChunkStates
      PROVE  SameRun([m EXCEPT !.state = s], [w EXCEPT !.state = s])
  BY <1>4 DEF SameRun, Counted, Parsers, StartStates, MajorKnown, MinorKnown, ChunkStates
<1>5. ASSUME NEW l
      PROVE  SameRun([m EXCEPT !.content_length = l], [w EXCEPT !.content_length = l])
  BY <1>1, <1>5 DEF SameRun, Counted, Parsers
<1>6. CASE m.state = "s_chunk_size_start"
  BY <1>1, <1>2, <1>3, <1>6 DEF Chunk, ChunkStates
<1>7. CASE m.state = "s_chunk_size"
  BY <1>1, <1>3, <1>4, <1>5, <1>7 DEF Chunk, ChunkStates, Hex
<1>8. CASE m.state = "s_chunk_parameters"
  BY <1>1, <1>4, <1>8 DEF Chunk, ChunkStates
<1>9. CASE m.state = "s_chunk_size_almost_done"
  <2>1. Chunk(m, ch) = ChunkSizeDone(m, ch) /\ Chunk(w, ch) = ChunkSizeDone(w, ch)
    BY <1>1, <1>9 DEF Chunk
  <2>2. ASSUME NEW s \in {"s_chunk_data", "s_header_field_start"}, NEW f
        PROVE  SameRun([m EXCEPT !.nread = 0, !.flags = f, !.state = s],
                       [w EXCEPT !.nread = 0, !.flags = f, !.state = s])
    BY <1>1, <1>9, <2>2 DEF SameRun, Counted, Parsers, StartStates, MajorKnown, MinorKnown,
                            ChunkStates, HeaderStates, BodyStates
  <2>3. SameRun([m EXCEPT !.nread = 0, !.state = "s_chunk_data"],
                [w EXCEPT !.nread = 0, !.state = "s_chunk_data"])
    BY <1>1, <1>9 DEF SameRun, Counted, Parsers, StartStates, MajorKnown, MinorKnown,
                      ChunkStates, HeaderStates, BodyStates
  <2>4. \/ ChunkSizeDone(m, ch) = Error(m) /\ ChunkSizeDone(w, ch) = Error(w)
        \/ \E f :
             /\ ChunkSizeDone(m, ch) = [m EXCEPT !.nread = 0, !.flags = f, !.state = "s_header_field_start"]
             /\ ChunkSizeDone(w, ch) = [w EXCEPT !.nread = 0, !.flags = f, !.state = "s_header_field_start"]
        \/ /\ ChunkSizeDone(m, ch) = [m EXCEPT !.nread = 0, !.state = "s_chunk_data"]
           /\ ChunkSizeDone(w, ch) = [w EXCEPT !.nread = 0, !.state = "s_chunk_data"]
    BY <1>1 DEF ChunkSizeDone
  <2>5. CASE ChunkSizeDone(m, ch) = Error(m) /\ ChunkSizeDone(w, ch) = Error(w)
    BY <1>3, <2>1, <2>5
  <2>6. CASE \E f :
             /\ ChunkSizeDone(m, ch) = [m EXCEPT !.nread = 0, !.flags = f, !.state = "s_header_field_start"]
             /\ ChunkSizeDone(w, ch) = [w EXCEPT !.nread = 0, !.flags = f, !.state = "s_header_field_start"]
    <3>1. PICK f :
             /\ ChunkSizeDone(m, ch) = [m EXCEPT !.nread = 0, !.flags = f, !.state = "s_header_field_start"]
             /\ ChunkSizeDone(w, ch) = [w EXCEPT !.nread = 0, !.flags = f, !.state = "s_header_field_start"]
      BY <2>6
    <3>2. SameRun([m EXCEPT !.nread = 0, !.flags = f, !.state = "s_header_field_start"],
                  [w EXCEPT !.nread = 0, !.flags = f, !.state = "s_header_field_start"])
      BY <2>2
    <3> QED BY <2>1, <3>1, <3>2, Zenon
  <2>7. CASE /\ ChunkSizeDone(m, ch) = [m EXCEPT !.nread = 0, !.state = "s_chunk_data"]
             /\ ChunkSizeDone(w, ch) = [w EXCEPT !.nread = 0, !.state = "s_chunk_data"]
    BY <2>1, <2>3, <2>7, Zenon
  <2> QED BY <2>4, <2>5, <2>6, <2>7
<1>10. CASE m.state \in {"s_chunk_data_almost_done", "s_chunk_data_done"}
  BY <1>1, <1>3, <1>4, <1>10 DEF Chunk, ChunkStates
<1> QED BY <1>6, <1>7, <1>8, <1>9, <1>10 DEF ChunkStates, BodyStates

(* The bytes of a body, however many are taken at once.                    *)
LEMMA BodySame ==
  ASSUME NEW m \in Parsers, NEW w \in Parsers, SameRun(m, w), m.state \in BodyStates,
         NEW k \in 1 .. m.content_length
  PROVE  SameRun(Body(m, k), Body(w, k))
<1>1. /\ m.state = w.state /\ m.content_length = w.content_length /\ m.calls = w.calls
  BY DEF SameRun, StartStates, BodyStates
<1>2. PICK l, c : l = m.content_length - k /\ c = Append(m.calls, "body")
  OBVIOUS
<1>3. PICK n, v : /\ n = [m EXCEPT !.content_length = l, !.calls = c]
                  /\ v = [w EXCEPT !.content_length = l, !.calls = c]
  OBVIOUS
<1>4. n \in Parsers /\ v \in Parsers
  <2>1. c \in Seq(Callbacks)
    BY <1>2 DEF Parsers, Callbacks
  <2>2. m.content_length \in 0 .. Size - 1
    BY DEF Parsers
  <2>3. l \in 0 .. Size - 1
    BY <1>2, <2>2, SizeFacts
  <2> QED BY <1>3, <2>1, <2>3 DEF Parsers
<1>5. SameRun(n, v) /\ n.state = m.state /\ v.state = w.state
  BY <1>1, <1>3 DEF SameRun, Counted, Parsers
<1>6. CASE k < m.content_length
  BY <1>1, <1>2, <1>3, <1>5, <1>6 DEF Body
<1>7. CASE ~(k < m.content_length) /\ m.state = "s_chunk_data"
  <2>1. /\ Body(m, k) = [n EXCEPT !.state = "s_chunk_data_almost_done"]
        /\ Body(w, k) = [v EXCEPT !.state = "s_chunk_data_almost_done"]
    BY <1>1, <1>2, <1>3, <1>7 DEF Body
  <2> QED BY <1>4, <1>5, <1>7, <2>1 DEF SameRun, Counted, Parsers, StartStates, MajorKnown,
                            MinorKnown, ChunkStates, HeaderStates, BodyStates
<1>8. CASE ~(k < m.content_length) /\ m.state # "s_chunk_data"
  <2>1. Body(m, k) = Complete(n) /\ Body(w, k) = Complete(v)
    BY <1>1, <1>2, <1>3, <1>8 DEF Body
  <2> QED BY <1>4, <1>5, <2>1, CompleteSame
<1> QED BY <1>6, <1>7, <1>8

(* Which part of the switch a state belongs to.                            *)
LEMMA DispatchParts ==
  ASSUME NEW m, NEW ch, NEW r
  PROVE  /\ m.state \in StartStates => Dispatch(m, ch, r) = Start(m, ch)
         /\ m.state = "s_res_or_resp_H" => Dispatch(m, ch, r) = ReqOrRes(m, ch)
         /\ m.state = "s_req_method" => Dispatch(m, ch, r) = Method(m, ch)
         /\ m.state = "s_header_field_start" => Dispatch(m, ch, r) = FieldStart(m, ch, r)
         /\ m.state = "s_header_field" => Dispatch(m, ch, r) = Field(m, ch)
         /\ m.state = "s_header_value_start" => Dispatch(m, ch, r) = ValueStart(m, ch)
         /\ m.state = "s_header_value" => Dispatch(m, ch, r) = HeaderValue(m, ch)
         /\ m.state = "s_header_almost_done" => Dispatch(m, ch, r) = HeaderDone(m, ch)
         /\ m.state = "s_headers_almost_done" => Dispatch(m, ch, r) = HeadersDone(m, ch, r)
         /\ m.state \in ChunkStates => Dispatch(m, ch, r) = Chunk(m, ch)
         /\ m.state \in TableStates => Dispatch(m, ch, r) = Row(m, ch)
         /\ m.state \in {"s_dead", "s_body_identity", "s_body_identity_eof"} =>
              Dispatch(m, ch, r) = Row(m, ch)
<1>1. m.state \in StartStates => Dispatch(m, ch, r) = Start(m, ch)
  BY DEF Dispatch, StartStates, ChunkStates
<1>2. m.state \in ChunkStates => Dispatch(m, ch, r) = Chunk(m, ch)
  BY DEF Dispatch, StartStates, ChunkStates
<1>3. m.state \in TableStates => Dispatch(m, ch, r) = Row(m, ch)
  BY DEF Dispatch, StartStates, ChunkStates, TableStates, UrlStates, ResponseStates, VersionStates
<1>4. m.state = "s_res_or_resp_H" => Dispatch(m, ch, r) = ReqOrRes(m, ch)
  BY DEF Dispatch, StartStates, ChunkStates
<1>5. m.state = "s_req_method" => Dispatch(m, ch, r) = Method(m, ch)
  BY DEF Dispatch, StartStates, ChunkStates
<1>6. /\ m.state = "s_header_field_start" => Dispatch(m, ch, r) = FieldStart(m, ch, r)
      /\ m.state = "s_header_field" => Dispatch(m, ch, r) = Field(m, ch)
  BY DEF Dispatch, StartStates, ChunkStates
<1>7. /\ m.state = "s_header_value_start" => Dispatch(m, ch, r) = ValueStart(m, ch)
      /\ m.state = "s_header_value" => Dispatch(m, ch, r) = HeaderValue(m, ch)
  BY DEF Dispatch, StartStates, ChunkStates
<1>8. /\ m.state = "s_header_almost_done" => Dispatch(m, ch, r) = HeaderDone(m, ch)
      /\ m.state = "s_headers_almost_done" => Dispatch(m, ch, r) = HeadersDone(m, ch, r)
  BY DEF Dispatch, StartStates, ChunkStates
<1>9. m.state \in {"s_dead", "s_body_identity", "s_body_identity_eof"} =>
        Dispatch(m, ch, r) = Row(m, ch)
  BY DEF Dispatch, StartStates, ChunkStates
<1> QED BY <1>1, <1>2, <1>3, <1>4, <1>5, <1>6, <1>7, <1>8, <1>9

LEMMA RowNone ==
  ASSUME NEW m, NEW ch, m.state \in {"s_dead", "s_body_identity_eof"}
  PROVE  Row(m, ch) = Error(m)
<1>1. \A r \in StatusRows \cup HostRows \cup PathRows \cup VersionRows : r[1] \in TableStates
  <2> USE DEF TableStates, UrlStates, ResponseStates, VersionStates
  <2>1. \A r \in StatusRows : r[1] \in TableStates
    BY DEF StatusRows
  <2>2. \A r \in HostRows : r[1] \in TableStates
    BY DEF HostRows
  <2>3. \A r \in PathRows : r[1] \in TableStates
    BY DEF PathRows, PathStates
  <2>4. \A r \in VersionRows : r[1] \in TableStates
    BY DEF VersionRows
  <2> QED BY <2>1, <2>2, <2>3, <2>4
<1>2. m.state \notin TableStates
  BY DEF TableStates, UrlStates, ResponseStates, VersionStates
<1>3. ~Taken(m.state, ch)
  BY <1>1, <1>2 DEF Taken, Rows
<1> QED BY <1>3, RowRefused

(* Every state is of one of the parts.                                     *)
LEMMA StateParts ==
  ASSUME NEW s \in States \ BodyStates
  PROVE  \/ s \in StartStates \/ s \in TableStates \/ s \in ChunkStates \ BodyStates
         \/ s \in {"s_res_or_resp_H", "s_req_method"} \/ s \in {"s_dead", "s_body_identity_eof"}
         \/ s \in {"s_header_field_start", "s_header_field", "s_header_value_start",
                   "s_header_value", "s_header_almost_done", "s_headers_almost_done"}
BY DEF States, HeaderStates

LEMMA DispatchSame ==
  ASSUME NEW m \in Parsers, NEW w \in Parsers, NEW ch, NEW r, SameRun(m, w),
         m.state \notin BodyStates
  PROVE  SameRun(Dispatch(m, ch, r), Dispatch(w, ch, r))
<1>1. m.state = w.state /\ m.state \in States \ BodyStates
  BY DEF SameRun, Parsers
<1>2. CASE m.state \in StartStates
  BY <1>1, <1>2, StartSame, DispatchParts
<1>3. CASE m.state \in TableStates
  BY <1>1, <1>3, RowSame, DispatchParts
<1>4. CASE m.state \in ChunkStates \ BodyStates
  BY <1>1, <1>4, ChunkSame, DispatchParts
<1>5. CASE m.state \in {"s_res_or_resp_H", "s_req_method"}
  BY <1>1, <1>5, ReqOrResSame, MethodSame, DispatchParts
<1>6. CASE m.state \in {"s_dead", "s_body_identity_eof"}
  BY <1>1, <1>6, ErrorSame, RowNone, DispatchParts DEF StartStates
<1>7. CASE m.state \in {"s_header_field_start", "s_header_field", "s_header_value_start"}
  BY <1>1, <1>7, FieldStartSame, FieldSame, ValueStartSame, DispatchParts
<1>8. CASE m.state \in {"s_header_value", "s_header_almost_done", "s_headers_almost_done"}
  BY <1>1, <1>8, HeaderValueSame, HeaderDoneSame, HeadersDoneSame, DispatchParts
<1> QED BY <1>1, <1>2, <1>3, <1>4, <1>5, <1>6, <1>7, <1>8, StateParts

(* nread is not compared, and both steps start from the last callback.     *)
LEMMA StepSame ==
  ASSUME NEW m \in Parsers, NEW w \in Parsers, NEW ch, NEW r, SameRun(m, w),
         m.state \notin BodyStates, Len(m.calls) >= 1
  PROVE  SameRun(Step(m, ch, r), Step(w, ch, r))
<1>1. PICK c : c = LastOf(m.calls) /\ c = LastOf(w.calls)
  BY DEF SameRun
<1>2. PICK n, v : /\ n = [m EXCEPT !.nread = Count(m), !.calls = c]
                  /\ v = [w EXCEPT !.nread = Count(w), !.calls = c]
  OBVIOUS
<1>3. n \in Parsers /\ v \in Parsers
  <2>1. m.calls \in Seq(Callbacks) /\ m.calls[Len(m.calls)] \in Callbacks
    BY DEF Parsers
  <2>2. c \in Seq(Callbacks)
    BY <1>1, <2>1 DEF LastOf
  <2>3. Count(m) \in Nat /\ Count(w) \in Nat
    BY DEF Count, Parsers
  <2> QED BY <1>2, <2>2, <2>3 DEF Parsers
<1>4. SameRun(n, v) /\ n.state = m.state
  BY <1>2 DEF SameRun, Counted, Parsers
<1>5. Step(m, ch, r) = Dispatch(n, ch, r) /\ Step(w, ch, r) = Dispatch(v, ch, r)
  BY <1>1, <1>2 DEF Step
<1> QED BY <1>3, <1>4, <1>5, DispatchSame

(* The callbacks of a step come in the order of InOrder.                   *)
Ordered(calls) ==
  /\ Len(calls) >= 1
  /\ \A i \in 1 .. Len(calls) - 1 : <<calls[i], calls[i + 1]>> \in InOrder

(* A parser at the head of the switch.                                     *)
Ready(m) == /\ m \in Parsers /\ Alive(m) /\ Consistent(m)
            /\ m.marks = Resumed(m.state) /\ Len(m.calls) = 1

(* What the parser n that the switch makes of m must satisfy: it is        *)
(* consistent again, unless it stops.                                      *)
Goes(m, n) ==
  /\ n \in Parsers
  /\ n.nread \in {0, m.nread}
  /\ n.state = "s_chunk_size_start" => n.nread = 0
  /\ Ordered(n.calls)
  /\ Alive(n) => Consistent(n) /\ n.marks = Resumed(n.state)

(* -1 is a length like another.                                            *)
LEMMA UnsetType == Unset \in 0 .. Size - 1
BY SizeFacts DEF Unset

(* A callback that may follow the last one keeps the order.                *)
LEMMA CallAdded ==
  ASSUME NEW s \in Seq(Callbacks), Len(s) >= 1, Ordered(s), NEW c \in Callbacks,
         <<s[Len(s)], c>> \in InOrder
  PROVE  LET t == Append(s, c)
         IN  /\ t \in Seq(Callbacks) /\ Len(t) = Len(s) + 1 /\ Len(t) >= 1
             /\ Ordered(t) /\ t[Len(t)] = c
<1> DEFINE t == Append(s, c)
<1>1. t \in Seq(Callbacks) /\ Len(t) = Len(s) + 1 /\ Len(t) >= 1 /\ t[Len(t)] = c
  OBVIOUS
<1>2. ASSUME NEW i \in 1 .. Len(t) - 1
      PROVE  <<t[i], t[i + 1]>> \in InOrder
  <2>1. CASE i = Len(s)
    <3>1. t[i] = s[Len(s)] /\ t[i + 1] = c
      BY <2>1
    <3> QED BY <3>1, Zenon
  <2>2. CASE i # Len(s)
    <3>1. i \in 1 .. Len(s) - 1
      BY <2>2
    <3>2. t[i] = s[i] /\ t[i + 1] = s[i + 1]
      BY <3>1
    <3> QED BY <3>1, <3>2, Zenon DEF Ordered
  <2> QED BY <2>1, <2>2
<1> QED BY <1>1, <1>2 DEF Ordered
LEMMA OneCall ==
  ASSUME NEW s, Len(s) = 1 PROVE Ordered(s)
BY DEF Ordered

(* The tables of the methods and the keywords, evaluated.                  *)
LEMMA MethodTable ==
  /\ DOMAIN method_strings = {"other", "HEAD", "CONNECT", "COPY"}
  /\ Len(method_strings["other"]) = 2 /\ Len(method_strings["HEAD"]) = 2
  /\ Len(method_strings["CONNECT"]) = 3 /\ Len(method_strings["COPY"]) = 3
  /\ DOMAIN MethodOf = {"C", "G", "H"}
  /\ MethodOf["C"] = "CONNECT" /\ MethodOf["G"] = "other" /\ MethodOf["H"] = "HEAD"
BY DEF method_strings, MethodOf

LEMMA MethodLengths ==
  ASSUME NEW k \in DOMAIN method_strings
  PROVE  Len(method_strings[k]) \in {2, 3}
<1>1. CASE k \in {"other", "HEAD"}
  BY <1>1, MethodTable
<1>2. CASE k \in {"CONNECT", "COPY"}
  BY <1>2, MethodTable
<1> QED BY <1>1, <1>2, MethodTable

LEMMA KeywordTable ==
  /\ FieldKeywords = {"h_matching_connection", "h_matching_proxy_connection",
       "h_matching_content_length", "h_matching_transfer_encoding", "h_matching_upgrade"}
  /\ ValueKeywords = {"h_matching_transfer_encoding_chunked", "h_matching_connection_keep_alive",
                      "h_matching_connection_close"}
  /\ DOMAIN Keyword = FieldKeywords \cup ValueKeywords
  /\ \A k \in FieldKeywords : Matched[k] \in MatchedFields
  /\ \A k \in ValueKeywords : Matched[k] \in MatchedValues
<1>1. DOMAIN Keyword = {"h_matching_connection", "h_matching_proxy_connection",
       "h_matching_content_length", "h_matching_transfer_encoding", "h_matching_upgrade",
       "h_matching_transfer_encoding_chunked", "h_matching_connection_keep_alive",
       "h_matching_connection_close"}
  BY DEF Keyword
<1>2. /\ Matched["h_matching_connection"] = "h_connection"
      /\ Matched["h_matching_proxy_connection"] = "h_connection"
      /\ Matched["h_matching_content_length"] = "h_content_length"
      /\ Matched["h_matching_transfer_encoding"] = "h_transfer_encoding"
      /\ Matched["h_matching_upgrade"] = "h_upgrade"
      /\ Matched["h_matching_transfer_encoding_chunked"] = "h_transfer_encoding_chunked"
      /\ Matched["h_matching_connection_keep_alive"] = "h_connection_keep_alive"
      /\ Matched["h_matching_connection_close"] = "h_connection_close"
  BY DEF Matched
<1> QED BY <1>1, <1>2 DEF FieldKeywords, ValueKeywords, MatchedFields, MatchedValues

LEMMA KeywordLengths ==
  /\ \A k \in DOMAIN Keyword : Len(Keyword[k]) \in 2 .. 4
  /\ Len(Keyword["h_matching_connection"]) = 4 /\ Len(Keyword["h_matching_content_length"]) = 4
<1>1. /\ Len(Keyword["h_matching_connection"]) = 4
      /\ Len(Keyword["h_matching_proxy_connection"]) = 2
      /\ Len(Keyword["h_matching_content_length"]) = 4
      /\ Len(Keyword["h_matching_transfer_encoding"]) = 2
      /\ Len(Keyword["h_matching_upgrade"]) = 2
      /\ Len(Keyword["h_matching_transfer_encoding_chunked"]) = 2
      /\ Len(Keyword["h_matching_connection_keep_alive"]) = 2
      /\ Len(Keyword["h_matching_connection_close"]) = 2
  BY DEF Keyword
<1>2. ASSUME NEW k \in DOMAIN Keyword
      PROVE  Len(Keyword[k]) \in 2 .. 4
  BY <1>1, <1>2, KeywordTable
<1> QED BY <1>1, <1>2

-----------------------------------------------------------------------------
(* The start of a message.                                                 *)
LEMMA Begun ==
  ASSUME NEW m, Ready(m), m.state \in StartStates
  PROVE  LET n == message_begin(m)
         IN  /\ n \in Parsers
             /\ Len(n.calls) = 2 /\ LastCall(n) = "message_begin" /\ Ordered(n.calls)
             /\ n.flags = {} /\ ~n.upgrade /\ n.marks = {} /\ n.nread = m.nread /\ n.state = m.state
<1> DEFINE s == Append(m.calls, "message_begin")
<1>0. m \in Parsers /\ m.calls \in Seq(Callbacks) /\ Len(m.calls) = 1 /\ "message_begin" \in Callbacks
  BY DEF Ready, Parsers, Callbacks
<1>1. <<LastCall(m), "message_begin">> \in InOrder
  BY DEF InOrder, Ready, Consistent, Called, StartStates
<1>2. s \in Seq(Callbacks) /\ Len(s) = 2 /\ s[Len(s)] = "message_begin" /\ Ordered(s)
  BY <1>0, <1>1, CallAdded, OneCall DEF LastCall
<1>3. Resumed(m.state) = {}
  BY DEF Resumed, StartStates, UrlStates
<1> HIDE DEF s
<1>4. message_begin(m) = [m EXCEPT !.flags = {}, !.content_length = Unset, !.calls = s]
  BY DEF s, message_begin
<1>5. message_begin(m) \in Parsers
  BY UnsetType, <1>0, <1>2, <1>4 DEF Parsers
<1> QED BY <1>0, <1>2, <1>3, <1>4, <1>5 DEF Ready, Alive, Parsers, LastCall

LEMMA StartGoes ==
  ASSUME NEW m, NEW ch, Ready(m), m.state \in StartStates
  PROVE  Goes(m, Start(m, ch))
<1>1. PICK b : b = message_begin(m)
  OBVIOUS
<1>2. /\ b \in Parsers
      /\ Len(b.calls) = 2 /\ LastCall(b) = "message_begin" /\ Ordered(b.calls)
      /\ b.flags = {} /\ ~b.upgrade /\ b.marks = {} /\ b.nread = m.nread /\ b.state = m.state
  BY <1>1, Begun
<1>3. {"s_res_H", "s_dead", "s_res_or_resp_H", "s_req_method"} \subseteq States
  BY DEF States, TableStates, ResponseStates
<1> USE DEF Alive, Consistent, Called, Matching, Framed, StartStates, ChunkStates,
          BodyStates, UrlStates, Resumed, LastCall
<1>4. ASSUME NEW k \in Parsers, k.calls = b.calls, k.flags = b.flags, k.marks = b.marks,
             k.upgrade = b.upgrade, k.nread = b.nread
      PROVE  Goes(m, start_req_method_assign(k, ch))
  <2>1. PICK n : n = start_req_method_assign(k, ch)
    OBVIOUS
  <2>2. /\ n \in Parsers /\ n.state \in {"s_req_method", "s_dead"} /\ n.index = 1
        /\ n.calls = k.calls /\ n.flags = k.flags /\ n.marks = k.marks /\ n.upgrade = k.upgrade
        /\ n.nread = k.nread /\ n.method \in DOMAIN method_strings
    BY <1>3, <2>1, MethodTable DEF Parsers, start_req_method_assign, Error
  <2>3. 1 <= Len(method_strings[n.method])
    <3>1. PICK l : l = Len(method_strings[n.method])
      OBVIOUS
    <3>2. l \in {2, 3}
      BY <2>2, <3>1, MethodLengths
    <3>3. 1 <= l
      BY <3>2
    <3> QED BY <3>1, <3>3
  <2>4. Goes(m, n)
    BY <2>2, <2>3, <1>2, <1>4 DEF Goes
  <2> QED BY <2>1, <2>4
<1>5. ASSUME NEW s \in {"s_res_H", "s_dead", "s_res_or_resp_H"}
      PROVE  Goes(m, [b EXCEPT !.state = s])
  <2>1. PICK n : n = [b EXCEPT !.state = s]
    OBVIOUS
  <2>2. /\ n \in Parsers /\ n.state = s /\ n.calls = b.calls /\ n.flags = b.flags
        /\ n.marks = b.marks /\ n.upgrade = b.upgrade /\ n.nread = b.nread
    BY <1>2, <1>3, <2>1 DEF Parsers
  <2>3. Goes(m, n)
    BY <2>2, <1>2 DEF Goes
  <2> QED BY <2>1, <2>3
<1>6. CASE ch \in {"CR", "LF"}
  <2>1. CASE m.state = "s_start_res"
    BY <1>1, <1>2, <1>6, <2>1 DEF Start, Goes
  <2>2. CASE m.state # "s_start_res"
    BY <1>6, <2>2, OneCall DEF Start, Ready, Goes
  <2> QED BY <2>1, <2>2
<1>7. CASE m.state \in {"s_start_req", "s_start_req_or_res"} /\ ch \notin {"CR", "LF"}
  <2>1. PICK k : k = [b EXCEPT !.type = "REQUEST"]
    OBVIOUS
  <2>2. /\ k \in Parsers /\ k.calls = b.calls /\ k.flags = b.flags
        /\ k.marks = b.marks /\ k.upgrade = b.upgrade /\ k.nread = b.nread
    BY <1>2, <2>1 DEF Parsers
  <2>3. Start(m, ch) \in {start_req_method_assign(b, ch), start_req_method_assign(k, ch),
                          [b EXCEPT !.state = "s_res_or_resp_H"]}
    BY <1>7, <1>1, <2>1 DEF Start
  <2>4. Goes(m, start_req_method_assign(b, ch)) /\ Goes(m, start_req_method_assign(k, ch))
    BY <1>2, <1>4, <2>2
  <2> QED BY <1>5, <2>3, <2>4
<1>8. CASE m.state = "s_start_res" /\ ch \notin {"CR", "LF"}
  BY <1>1, <1>5, <1>8 DEF Start, Error
<1> QED BY <1>6, <1>7, <1>8

-----------------------------------------------------------------------------
(* A parser that is refused a character.                                   *)
LEMMA ErrorGoes ==
  ASSUME NEW m, Ready(m), NEW k \in Parsers, k.nread \in {0, m.nread}, Ordered(k.calls)
  PROVE  Goes(m, Error(k))
<1>1. PICK n : n = Error(k)
  OBVIOUS
<1>2. n \in Parsers /\ n.state = "s_dead" /\ n.nread = k.nread /\ n.calls = k.calls
  BY <1>1 DEF Error, Parsers, States
<1>3. Goes(m, n)
  BY <1>2 DEF Goes, Alive
<1> QED BY <1>1, <1>3

(* The states between a message's first character and the end of its       *)
(* headers.                                                                *)
Plain == States \ (StartStates \cup ChunkStates \cup BodyStates)

LEMMA PlainGoes ==
  ASSUME NEW m, Ready(m), m.state \in Plain,
         NEW n \in Parsers, n.state \in Plain, n.calls = m.calls, n.upgrade = m.upgrade,
         n.nread = m.nread, "TRAILING" \in n.flags <=> "TRAILING" \in m.flags,
         n.state # "s_dead" => n.marks = Resumed(n.state) /\ Matching(n)
  PROVE  Goes(m, n)
<1>1. Called(n)
  <2>1. Called(m) /\ LastCall(n) = LastCall(m)
    BY DEF Ready, Consistent, LastCall
  <2> QED BY <2>1 DEF Called, Plain, StartStates
<1>2. Framed(n)
  BY DEF Framed, Plain, ChunkStates
<1>3. Ordered(n.calls)
  BY OneCall DEF Ready
<1>4. n.state # "s_chunk_size_start"
  BY DEF Plain, ChunkStates
<1> QED BY <1>1, <1>2, <1>3, <1>4 DEF Goes, Consistent, Alive

(* The states that match nothing, and count nothing.                       *)
LEMMA NothingMatched ==
  ASSUME NEW n, n.state \notin {"s_req_method", "s_header_field", "s_header_value"}
  PROVE  Matching(n)
BY DEF Matching

(* A row keeps a mark for each string that it leaves the parser in.        *)
LEMMA RowMarks ==
  ASSUME NEW s \in TableStates, NEW t \in TableStates \cup {"s_header_field_start"},
         t \in UrlStates /\ s \notin UrlStates =>
           s = "s_req_spaces_before_url" /\ t \in {"s_req_path", "s_req_schema"}
  PROVE  (Resumed(s) \cup Mark(s, t)) \ CallBack(s, t) = Resumed(t)
<1>1. s \notin {"s_header_field", "s_header_value"} /\ t \notin {"s_header_field", "s_header_value"}
  BY DEF TableStates, UrlStates, ResponseStates, VersionStates
<1> QED BY <1>1 DEF Resumed, Mark, CallBack, UrlStates

LEMMA RowToGoes ==
  ASSUME NEW m, Ready(m), m.state \in TableStates, NEW t \in TableStates \cup {"s_header_field_start"},
         t \in UrlStates /\ m.state \notin UrlStates =>
           m.state = "s_req_spaces_before_url" /\ t \in {"s_req_path", "s_req_schema"},
         NEW a \in 0 .. MaxDigits, NEW b \in 0 .. MaxDigits, NEW c \in 0 .. MaxDigits
  PROVE  Goes(m, RowTo(m, t, MarksTo(m, t), a, b, c))
<1>1. MarksTo(m, t) = Resumed(t)
  BY RowMarks DEF MarksTo, Ready
<1>2. PICK n : n = RowTo(m, t, Resumed(t), a, b, c)
  OBVIOUS
<1>3. m.state \in Plain /\ t \in Plain
        /\ t \notin {"s_req_method", "s_header_field", "s_header_value"}
  BY DEF Plain, States, TableStates, UrlStates, ResponseStates, VersionStates, HeaderStates,
         StartStates, ChunkStates, BodyStates
<1>4. Resumed(t) \subseteq Strings
  BY DEF Resumed, Strings
<1>5. /\ n \in Parsers /\ n.state = t /\ n.marks = Resumed(t) /\ n.calls = m.calls
      /\ n.upgrade = m.upgrade /\ n.nread = m.nread /\ n.flags = m.flags
  BY <1>2, <1>3, <1>4 DEF RowTo, Parsers, Ready, Plain
<1>6. Goes(m, n)
  BY <1>3, <1>5, PlainGoes, NothingMatched
<1> QED BY <1>1, <1>2, <1>6

(* No number has more digits than the check after each of them admits.     *)
LEMMA LengthenType ==
  ASSUME NEW x \in Nat, NEW ch
  PROVE  Lengthen(x, ch) \in Nat /\ Lengthen(0, ch) \in 0 .. MaxDigits
BY SizeFacts DEF Lengthen

LEMMA RowGoes ==
  ASSUME NEW m, NEW ch, Ready(m), m.state \in TableStates
  PROVE  Goes(m, Row(m, ch))
<1>1. /\ m \in Parsers /\ Ordered(m.calls) /\ m.nread \in {0, m.nread}
      /\ m.major \in 0 .. MaxDigits /\ m.minor \in 0 .. MaxDigits /\ m.status \in 0 .. MaxDigits
  BY OneCall DEF Ready, Parsers
<1>2. Goes(m, Error(m))
  BY <1>1, ErrorGoes
<1>3. CASE ~Taken(m.state, ch)
  BY <1>2, <1>3, RowRefused
<1>4. CASE Taken(m.state, ch)
  <2>1. PICK t : t = RowOf(m.state, ch)[3]
    OBVIOUS
  <2>2. /\ t \in TableStates \cup {"s_header_field_start"}
        /\ t \in UrlStates /\ m.state \notin UrlStates =>
             m.state = "s_req_spaces_before_url" /\ t \in {"s_req_path", "s_req_schema"}
    BY <1>4, <2>1, RowStates
  <2>3. ASSUME NEW a \in 0 .. MaxDigits, NEW b \in 0 .. MaxDigits, NEW c \in 0 .. MaxDigits
        PROVE  Goes(m, RowTo(m, t, MarksTo(m, t), a, b, c))
    BY <2>2, RowToGoes
  <2>4. CASE ch \in Digits /\ m.state \in DOMAIN First
    <3>1. PICK d \in 0 .. MaxDigits : d = Lengthen(0, ch)
      BY LengthenType
    <3>2. First[m.state] \in {"major", "minor", "status"}
      BY <2>4, DigitTables
    <3>3. Row(m, ch) \in {RowTo(m, t, MarksTo(m, t), d, m.minor, m.status),
                          RowTo(m, t, MarksTo(m, t), m.major, d, m.status),
                          RowTo(m, t, MarksTo(m, t), m.major, m.minor, d)}
      BY <1>1, <1>4, <2>1, <2>4, <3>1, <3>2, RowFirst
    <3> QED BY <1>1, <2>3, <3>3
  <2>5. CASE ch \in Digits /\ m.state \in DOMAIN Further
    <3>1. Further[m.state] \in {"major", "minor", "status"}
      BY <2>5, DigitTables
    <3>2. PICK a, b, c : a = Lengthen(m.major, ch) /\ b = Lengthen(m.minor, ch) /\ c = Lengthen(m.status, ch)
      OBVIOUS
    <3>3. a \in Nat /\ b \in Nat /\ c \in Nat
      BY <1>1, <3>2, LengthenType
    <3>4. \/ Row(m, ch) = Error(m)
          \/ a <= MaxDigits /\ Row(m, ch) = RowTo(m, t, MarksTo(m, t), a, m.minor, m.status)
          \/ b <= MaxDigits /\ Row(m, ch) = RowTo(m, t, MarksTo(m, t), m.major, b, m.status)
          \/ c <= MaxDigits /\ Row(m, ch) = RowTo(m, t, MarksTo(m, t), m.major, m.minor, c)
      <4>1. CASE Further[m.state] = "major"
        <5>1. Row(m, ch) = IF a > MaxDigits THEN Error(m) ELSE RowTo(m, t, MarksTo(m, t), a, m.minor, m.status)
          BY <1>1, <1>4, <2>1, <2>5, <3>2, <4>1, RowFurther
        <5> QED BY <3>3, <5>1, SizeFacts
      <4>2. CASE Further[m.state] = "minor"
        <5>1. Row(m, ch) = IF b > MaxDigits THEN Error(m) ELSE RowTo(m, t, MarksTo(m, t), m.major, b, m.status)
          BY <1>1, <1>4, <2>1, <2>5, <3>2, <4>2, RowFurther
        <5> QED BY <3>3, <5>1, SizeFacts
      <4>3. CASE Further[m.state] = "status"
        <5>1. Row(m, ch) = IF c > MaxDigits THEN Error(m) ELSE RowTo(m, t, MarksTo(m, t), m.major, m.minor, c)
          BY <1>1, <1>4, <2>1, <2>5, <3>2, <4>3, RowFurther
        <5> QED BY <3>3, <5>1, SizeFacts
      <4> QED BY <3>1, <4>1, <4>2, <4>3
    <3>5. /\ a <= MaxDigits => a \in 0 .. MaxDigits
          /\ b <= MaxDigits => b \in 0 .. MaxDigits
          /\ c <= MaxDigits => c \in 0 .. MaxDigits
      BY <3>3, SizeFacts
    <3> QED BY <1>1, <1>2, <2>3, <3>4, <3>5
  <2>6. CASE ch \notin Digits \/ m.state \notin DOMAIN First \cup DOMAIN Further
    <3>1. Row(m, ch) \in {RowTo(m, t, MarksTo(m, t), 0, 1, m.status),
                          RowTo(m, t, MarksTo(m, t), m.major, m.minor, m.status)}
      BY <1>1, <1>4, <2>1, <2>6, RowElse
    <3>2. 0 \in 0 .. MaxDigits /\ 1 \in 0 .. MaxDigits
      BY SizeFacts
    <3> QED BY <1>1, <2>3, <3>1, <3>2
  <2> QED BY <2>4, <2>5, <2>6
<1> QED BY <1>3, <1>4

(* What each lemma on a part of the switch starts from.                    *)
LEMMA ReadyFacts ==
  ASSUME NEW m, Ready(m)
  PROVE  /\ m \in Parsers /\ Goes(m, Error(m)) /\ Ordered(m.calls)
         /\ m.calls \in Seq(Callbacks) /\ Len(m.calls) = 1
         /\ m.content_length \in 0 .. Size - 1 /\ m.nread \in Nat /\ m.index \in Nat
         /\ m.flags \subseteq Flags
         /\ m.header_state \in FieldMatches \cup ValueMatches
         /\ m.state # "s_dead" /\ ~m.upgrade
BY OneCall, ErrorGoes DEF Ready, Parsers, Alive

LEMMA PlainStates ==
  {"s_res_or_resp_H", "s_req_method", "s_dead", "s_body_identity_eof", "s_res_HT",
   "s_req_spaces_before_url"} \cup HeaderStates \subseteq Plain
BY DEF Plain, States, TableStates, ResponseStates, HeaderStates, StartStates, ChunkStates,
       BodyStates

LEMMA ReqOrResGoes ==
  ASSUME NEW m, NEW ch, Ready(m), m.state = "s_res_or_resp_H"
  PROVE  Goes(m, ReqOrRes(m, ch))
<1>1. CASE ch = "T"
  <2>1. PICK n : n = [m EXCEPT !.type = "RESPONSE", !.state = "s_res_HT"]
    OBVIOUS
  <2>2. n \in Parsers /\ n.state = "s_res_HT" /\ n.calls = m.calls /\ n.upgrade = m.upgrade
          /\ n.nread = m.nread /\ n.flags = m.flags /\ n.marks = m.marks
    BY <2>1, PlainStates DEF Parsers, Ready, Plain
  <2>3. n.marks = Resumed(n.state)
    BY <2>2 DEF Ready, Resumed, UrlStates
  <2>4. Goes(m, n)
    BY <2>2, <2>3, PlainGoes, PlainStates, NothingMatched
  <2> QED BY <1>1, <2>1, <2>4 DEF ReqOrRes
<1>2. CASE ch = "E"
  <2>1. PICK n : n = [m EXCEPT !.type = "REQUEST", !.method = "HEAD", !.index = 2,
                               !.state = "s_req_method"]
    OBVIOUS
  <2>2. n \in Parsers /\ n.state = "s_req_method" /\ n.calls = m.calls /\ n.upgrade = m.upgrade
          /\ n.nread = m.nread /\ n.flags = m.flags /\ n.marks = m.marks
          /\ n.method = "HEAD" /\ n.index = 2
    BY <2>1, PlainStates, MethodTable DEF Parsers, Ready, Plain
  <2>3. n.marks = Resumed(n.state)
    BY <2>2 DEF Ready, Resumed, UrlStates
  <2>4. Matching(n)
    BY <2>2, MethodTable DEF Matching
  <2>5. Goes(m, n)
    BY <2>2, <2>3, <2>4, PlainGoes, PlainStates
  <2> QED BY <1>2, <2>1, <2>5 DEF ReqOrRes
<1>3. CASE ch \notin {"T", "E"}
  BY <1>3, ReadyFacts DEF ReqOrRes
<1> QED BY <1>1, <1>2, <1>3

(* The index of a method stays within its string, but for what may follow  *)
(* CONNECT.                                                                *)
LEMMA MethodGoes ==
  ASSUME NEW m, NEW ch, Ready(m), m.state = "s_req_method",
         m.method = "CONNECT" => m.index < Len(method_strings.CONNECT) \/ ch = "SP"
  PROVE  Goes(m, Method(m, ch))
<1>1. PICK l : l = Len(method_strings[m.method])
  OBVIOUS
<1>2. /\ m \in Parsers /\ m.index \in Nat /\ m.method \in DOMAIN method_strings
      /\ m.marks = Resumed("s_req_method") /\ m.marks = {}
  BY DEF Ready, Parsers, Resumed, UrlStates
<1>3. m.index <= l
  BY <1>1 DEF Ready, Consistent, Matching
<1>4. l \in {2, 3} /\ (m.method = "CONNECT" => l = 3)
  BY <1>1, <1>2, MethodLengths, MethodTable
<1>5. "s_req_spaces_before_url" \in States /\ m.index + 1 \in Nat
        /\ "COPY" \in DOMAIN method_strings /\ Len(method_strings["COPY"]) = 3
  BY <1>2, PlainStates, MethodTable DEF Plain
<1>6. CASE ch = "SP" /\ m.index = l
  <2>1. PICK n : n = [m EXCEPT !.index = @ + 1, !.state = "s_req_spaces_before_url"]
    OBVIOUS
  <2>2. n \in Parsers /\ n.state = "s_req_spaces_before_url" /\ n.calls = m.calls
          /\ n.upgrade = m.upgrade /\ n.nread = m.nread /\ n.flags = m.flags /\ n.marks = m.marks
    BY <1>2, <1>5, <2>1 DEF Parsers
  <2>3. n.marks = Resumed(n.state)
    BY <1>2, <2>2 DEF Resumed, UrlStates
  <2>4. Goes(m, n)
    BY <2>2, <2>3, PlainGoes, PlainStates, NothingMatched
  <2> QED BY <1>1, <1>6, <2>1, <2>4 DEF Method
<1>7. ASSUME m.index + 1 <= l
      PROVE  Goes(m, [m EXCEPT !.index = @ + 1])
  <2>1. PICK n : n = [m EXCEPT !.index = @ + 1]
    OBVIOUS
  <2>2. n \in Parsers /\ n.state = m.state /\ n.calls = m.calls
          /\ n.upgrade = m.upgrade /\ n.nread = m.nread /\ n.flags = m.flags /\ n.marks = m.marks
          /\ n.index = m.index + 1 /\ n.method = m.method
    BY <1>2, <1>5, <2>1 DEF Parsers
  <2>3. n.marks = Resumed(n.state)
    BY <1>2, <2>2
  <2>4. Matching(n)
    BY <1>1, <1>7, <2>2 DEF Matching
  <2>5. Goes(m, n)
    BY <2>2, <2>3, <2>4, PlainGoes, PlainStates
  <2> QED BY <2>1, <2>5
<1>8. ASSUME m.index = 2
      PROVE  Goes(m, [m EXCEPT !.index = @ + 1, !.method = "COPY"])
  <2>1. PICK n : n = [m EXCEPT !.index = @ + 1, !.method = "COPY"]
    OBVIOUS
  <2>2. n \in Parsers /\ n.state = m.state /\ n.calls = m.calls
          /\ n.upgrade = m.upgrade /\ n.nread = m.nread /\ n.flags = m.flags /\ n.marks = m.marks
          /\ n.index = m.index + 1 /\ n.method = "COPY"
    BY <1>2, <1>5, <2>1 DEF Parsers
  <2>3. n.marks = Resumed(n.state)
    BY <1>2, <2>2
  <2>4. Matching(n)
    <3>1. n.index = 3 /\ Len(method_strings[n.method]) = 3 /\ n.state = "s_req_method"
      BY <1>5, <1>8, <2>2
    <3>2. n.index <= Len(method_strings[n.method])
      BY <3>1
    <3> QED BY <3>1, <3>2 DEF Matching
  <2>5. Goes(m, n)
    BY <2>2, <2>3, <2>4, PlainGoes, PlainStates
  <2> QED BY <2>1, <2>5
<1>9. CASE ~(ch = "SP" /\ m.index = l)
  <2>1. ASSUME m.method = "CONNECT"
        PROVE  m.index + 1 <= l
    <3>1. l = 3 /\ Len(method_strings.CONNECT) = 3
      BY <1>4, <2>1, MethodTable
    <3>2. m.index < 3 \/ ch = "SP"
      BY <2>1, <3>1
    <3> QED BY <1>2, <1>3, <1>9, <3>1, <3>2
  <2>2. CASE m.index < l /\ ch = method_strings[m.method][m.index + 1]
    <3>1. Method(m, ch) = [m EXCEPT !.index = @ + 1]
      BY <1>1, <1>9, <2>2 DEF Method
    <3>2. m.index + 1 <= l
      BY <1>2, <1>4, <2>2
    <3> QED BY <1>7, <3>1, <3>2
  <2>3. CASE ~(m.index < l /\ ch = method_strings[m.method][m.index + 1]) /\ m.method # "CONNECT"
    BY <1>1, <1>9, <2>3, ReadyFacts DEF Method
  <2>4. CASE ~(m.index < l /\ ch = method_strings[m.method][m.index + 1]) /\ m.method = "CONNECT"
    <3>1. Method(m, ch) = IF m.index = 2 /\ ch = "P"
                          THEN [m EXCEPT !.index = @ + 1, !.method = "COPY"]
                          ELSE [m EXCEPT !.index = @ + 1]
      BY <1>1, <1>9, <2>4 DEF Method
    <3> QED BY <1>7, <1>8, <2>1, <2>4, <3>1
  <2> QED BY <2>2, <2>3, <2>4
<1> QED BY <1>6, <1>9

(* The headers.                                                            *)

LEMMA MatchResult ==
  ASSUME NEW m \in Parsers, NEW ch, m.header_state \in DOMAIN Keyword
  PROVE  LET n == Match(m, ch)
             i == m.index + 1
         IN  /\ n = [m EXCEPT !.index = i, !.header_state = n.header_state]
             /\ \/ n.header_state = "h_general"
                \/ n.header_state = Matched[m.header_state]
                \/ n.header_state = m.header_state /\ i < Len(Keyword[m.header_state])
<1>1. PICK h, w, i : h = m.header_state /\ w = Keyword[h] /\ i = m.index + 1
  OBVIOUS
<1>2. i \in Nat /\ Len(w) \in 2 .. 4
  BY <1>1, KeywordLengths DEF Parsers
<1>3. PICK g : g = IF i >= Len(w) \/ ch # w[i + 1] THEN "h_general"
                   ELSE IF i = Len(w) - 1 THEN Matched[h] ELSE h
  OBVIOUS
<1>4. Match(m, ch) = [m EXCEPT !.index = i, !.header_state = g]
  BY <1>1, <1>3 DEF Match
<1>5. Match(m, ch).header_state = g
  BY <1>4 DEF Parsers
<1>6. g = "h_general" \/ g = Matched[h] \/ (g = h /\ i < Len(w))
  <2>1. PICK l : l = Len(w)
    OBVIOUS
  <2>2. i < l \/ i >= l
    BY <1>2, <2>1
  <2>3. g = IF i >= l \/ ch # w[i + 1] THEN "h_general" ELSE IF i = l - 1 THEN Matched[h] ELSE h
    BY <1>3, <2>1
  <2>4. g = "h_general" \/ g = Matched[h] \/ (g = h /\ i < l)
    BY <2>2, <2>3
  <2> QED BY <2>1, <2>4
<1> QED BY <1>1, <1>4, <1>5, <1>6

(* A header field or value that goes on, or is over.                       *)
LEMMA HeaderGoes ==
  ASSUME NEW m, Ready(m), m.state \in Plain, NEW n \in Parsers,
         n.state \in HeaderStates, n.calls = m.calls, n.upgrade = m.upgrade,
         n.nread = m.nread, "TRAILING" \in n.flags <=> "TRAILING" \in m.flags,
         n.marks = {k \in {"header_field"} : n.state = "s_header_field"}
                     \cup {k \in {"header_value"} : n.state = "s_header_value"},
         Matching(n)
  PROVE  Goes(m, n)
<1>1. n.marks = Resumed(n.state)
  BY DEF Resumed, UrlStates, HeaderStates
<1> QED BY <1>1, PlainGoes, PlainStates

LEMMA FieldBeginsGoes ==
  ASSUME NEW m, NEW ch, NEW r, Ready(m), m.state = "s_header_field_start", ch # "LF"
  PROVE  Goes(m, FieldStart(m, ch, r))
<1>1. m \in Parsers /\ m.marks = {}
  BY DEF Ready, Resumed, UrlStates
<1>2. CASE ch = "CR"
  <2>1. PICK n : n = [m EXCEPT !.state = "s_headers_almost_done"]
    OBVIOUS
  <2>2. n \in Parsers /\ n.state = "s_headers_almost_done" /\ n.calls = m.calls
          /\ n.upgrade = m.upgrade /\ n.nread = m.nread /\ n.flags = m.flags /\ n.marks = {}
    BY <1>1, <2>1 DEF Parsers, States, HeaderStates
  <2>3. Goes(m, n)
    BY <2>2, HeaderGoes, NothingMatched, PlainStates DEF HeaderStates
  <2> QED BY <1>2, <2>1, <2>3 DEF FieldStart
<1>3. CASE ch # "CR" /\ ch \in Token
  <2>1. PICK h : h = IF ch \in DOMAIN FieldOf THEN FieldOf[ch] ELSE "h_general"
    OBVIOUS
  <2>2. h \in {"h_C", "h_general"} \cup FieldKeywords
    BY <2>1, KeywordTable DEF FieldOf
  <2>3. PICK n : n = [m EXCEPT !.state = "s_header_field", !.index = 0,
                               !.marks = {"header_field"}, !.header_state = h]
    OBVIOUS
  <2>4. n \in Parsers /\ n.state = "s_header_field" /\ n.calls = m.calls
          /\ n.upgrade = m.upgrade /\ n.nread = m.nread /\ n.flags = m.flags
          /\ n.marks = {"header_field"} /\ n.index = 0 /\ n.header_state = h
    BY <1>1, <2>2, <2>3 DEF Parsers, States, HeaderStates, Strings, FieldMatches
  <2>5. Matching(n)
    <3>1. ASSUME h \in DOMAIN Keyword
          PROVE  0 < Len(Keyword[h])
      <4>1. PICK l : l = Len(Keyword[h])
        OBVIOUS
      <4>2. l \in 2 .. 4
        BY <3>1, <4>1, KeywordLengths
      <4> QED BY <4>1, <4>2
    <3>2. h \in FieldMatches /\ h # "h_CON"
      BY <2>2, KeywordTable DEF FieldMatches
    <3> QED BY <2>4, <3>1, <3>2 DEF Matching
  <2>6. Goes(m, n)
    BY <2>4, <2>5, HeaderGoes, PlainStates DEF HeaderStates
  <2>7. FieldStart(m, ch, r) = n
    BY <1>1, <1>3, <2>1, <2>3 DEF FieldStart
  <2> QED BY <2>6, <2>7
<1>4. CASE ch # "CR" /\ ch \notin Token
  BY <1>4, ReadyFacts DEF FieldStart
<1> QED BY <1>2, <1>3, <1>4

LEMMA FieldGoes ==
  ASSUME NEW m, NEW ch, Ready(m), m.state = "s_header_field"
  PROVE  Goes(m, Field(m, ch))
<1>1. m \in Parsers /\ m.marks = {"header_field"} /\ m.index \in Nat
  BY DEF Ready, Resumed, UrlStates, Parsers
<1>2. /\ m.header_state \in FieldMatches
      /\ m.header_state = "h_C" => m.index = 0
      /\ m.header_state = "h_CON" => m.index <= 1
  BY DEF Ready, Consistent, Matching
<1>3. ASSUME NEW h \in FieldMatches, NEW i \in Nat,
             h = "h_C" => i = 0, h = "h_CON" => i <= 1,
             h \in DOMAIN Keyword => i < Len(Keyword[h])
      PROVE  Goes(m, [m EXCEPT !.index = i, !.header_state = h])
  <2>1. PICK n : n = [m EXCEPT !.index = i, !.header_state = h]
    OBVIOUS
  <2>2. n \in Parsers /\ n.state = "s_header_field" /\ n.calls = m.calls
          /\ n.upgrade = m.upgrade /\ n.nread = m.nread /\ n.flags = m.flags
          /\ n.marks = {"header_field"} /\ n.index = i /\ n.header_state = h
    BY <1>1, <2>1 DEF Parsers
  <2>3. Matching(n)
    BY <1>3, <2>2 DEF Matching
  <2>4. Goes(m, n)
    BY <2>2, <2>3, HeaderGoes, PlainStates DEF HeaderStates
  <2> QED BY <2>1, <2>4
<1>4. CASE ch \in Token /\ m.header_state \in {"h_C", "h_CON"}
  <2>1. PICK h : /\ Field(m, ch) = [m EXCEPT !.index = m.index + 1, !.header_state = h]
                 /\ \/ h = "h_general"
                    \/ h = "h_CON" /\ m.header_state = "h_C"
                    \/ h \in {"h_matching_connection", "h_matching_content_length"}
                         /\ m.header_state = "h_CON"
    BY <1>4 DEF Field, FieldToken, NextIn
  <2>2. h \in FieldMatches /\ m.index + 1 \in Nat /\ h # "h_C"
    BY <1>1, <2>1, KeywordTable DEF FieldMatches
  <2>3. h = "h_CON" => m.index + 1 <= 1
    BY <1>1, <1>2, <2>1
  <2>4. h \in DOMAIN Keyword => m.index + 1 < Len(Keyword[h])
    <3>1. h \in DOMAIN Keyword => Len(Keyword[h]) = 4 /\ m.index <= 1
      BY <1>2, <2>1, KeywordTable, KeywordLengths
    <3>2. m.index <= 1 => m.index + 1 < 4
      BY <1>1
    <3> QED BY <3>1, <3>2
  <2> QED BY <1>3, <2>1, <2>2, <2>3, <2>4
<1>5. CASE ch \in Token /\ m.header_state \in DOMAIN Keyword
  <2>1. m.header_state \in FieldKeywords
    BY <1>2, <1>5, KeywordTable DEF FieldMatches, MatchedFields
  <2>2. Field(m, ch) = Match(m, ch)
    BY <1>5, KeywordTable DEF Field, FieldToken
  <2>3. PICK h : h = Match(m, ch).header_state
    OBVIOUS
  <2>4. Field(m, ch) = [m EXCEPT !.index = m.index + 1, !.header_state = h]
    BY <1>1, <1>5, <2>2, <2>3, MatchResult
  <2>5. \/ h = "h_general" \/ h \in MatchedFields
        \/ h = m.header_state /\ m.index + 1 < Len(Keyword[h])
    BY <1>1, <1>5, <2>1, <2>3, MatchResult, KeywordTable
  <2>6. h \in FieldMatches /\ h \notin {"h_C", "h_CON"} /\ m.index + 1 \in Nat
    BY <1>1, <2>1, <2>5, KeywordTable DEF FieldMatches, MatchedFields
  <2>7. h \in DOMAIN Keyword => m.index + 1 < Len(Keyword[h])
    BY <2>5, KeywordTable DEF MatchedFields
  <2> QED BY <1>3, <2>4, <2>6, <2>7
<1>6. CASE ch \in Token /\ m.header_state \notin {"h_C", "h_CON"} \cup DOMAIN Keyword
  <2>1. PICK h \in FieldMatches : /\ Field(m, ch) = [m EXCEPT !.header_state = h]
                                 /\ h \notin {"h_C", "h_CON"} \cup DOMAIN Keyword
    <3>1. \/ Field(m, ch) = [m EXCEPT !.header_state = "h_general"]
          \/ Field(m, ch) = m
      BY <1>6 DEF Field, FieldToken
    <3>2. m = [m EXCEPT !.header_state = m.header_state]
      BY <1>1 DEF Parsers
    <3>3. "h_general" \in FieldMatches /\ "h_general" \notin {"h_C", "h_CON"} \cup DOMAIN Keyword
      BY KeywordTable DEF FieldMatches
    <3> QED BY <1>2, <1>6, <3>1, <3>2, <3>3
  <2>2. [m EXCEPT !.header_state = h] = [m EXCEPT !.index = m.index, !.header_state = h]
    BY <1>1 DEF Parsers
  <2>3. h # "h_C" /\ h # "h_CON" /\ h \notin DOMAIN Keyword
    BY <2>1
  <2>4. Goes(m, [m EXCEPT !.index = m.index, !.header_state = h])
    BY <1>1, <1>3, <2>3
  <2> QED BY <2>1, <2>2, <2>4
<1>7. CASE ch \notin Token
  <2>1. ASSUME NEW s \in {"s_header_value_start", "s_header_almost_done", "s_header_field_start"}
        PROVE  Goes(m, [m EXCEPT !.marks = @ \ {"header_field"}, !.state = s])
    <3>1. PICK n : n = [m EXCEPT !.marks = @ \ {"header_field"}, !.state = s]
      OBVIOUS
    <3>2. n \in Parsers /\ n.state = s /\ n.calls = m.calls
            /\ n.upgrade = m.upgrade /\ n.nread = m.nread /\ n.flags = m.flags
            /\ n.marks = {}
      BY <1>1, <3>1 DEF Parsers, States, HeaderStates
    <3>3. Goes(m, n)
      BY <3>2, HeaderGoes, NothingMatched, PlainStates DEF HeaderStates
    <3> QED BY <3>1, <3>3
  <2>2. \/ Field(m, ch) = Error(m)
        \/ \E s \in {"s_header_value_start", "s_header_almost_done", "s_header_field_start"} :
             Field(m, ch) = [m EXCEPT !.marks = @ \ {"header_field"}, !.state = s]
    BY <1>7 DEF Field
  <2> QED BY <2>1, <2>2, ReadyFacts
<1> QED BY <1>4, <1>5, <1>6, <1>7

(* A length stays in the width of a size_t.                                *)
LEMMA DigitValues ==
  ASSUME NEW x \in Nat
  PROVE  /\ \A ch \in Digits : Value[ch] % Size \in 0 .. Size - 1 /\ Decimal(x, ch) \in 0 .. Size - 1
         /\ \A ch \in DOMAIN unhex : unhex[ch] % Size \in 0 .. Size - 1 /\ Hex(x, ch) \in 0 .. Size - 1
<1>1. \A ch \in Digits : Value[ch] \in Nat
  BY DEF Value
<1>2. \A ch \in DOMAIN unhex : unhex[ch] \in Nat
  BY DEF unhex
<1>3. \A y \in Nat : y % Size \in 0 .. Size - 1
  BY SizeFacts
<1>4. ASSUME NEW ch \in Digits
      PROVE  Value[ch] % Size \in 0 .. Size - 1 /\ Decimal(x, ch) \in 0 .. Size - 1
  BY <1>1, <1>3 DEF Decimal
<1>5. ASSUME NEW ch \in DOMAIN unhex
      PROVE  unhex[ch] % Size \in 0 .. Size - 1 /\ Hex(x, ch) \in 0 .. Size - 1
  BY <1>2, <1>3 DEF Hex
<1> QED BY <1>4, <1>5

(* A keyword has at least one letter.                                      *)
LEMMA KeywordPositive ==
  ASSUME NEW h \in DOMAIN Keyword
  PROVE  0 < Len(Keyword[h])
<1>1. PICK k : k = Len(Keyword[h])
  OBVIOUS
<1>2. k \in 2 .. 4
  BY <1>1, KeywordLengths
<1> QED BY <1>1, <1>2

(* A header value, at its first character and at a further one.            *)
InValue(m, h, f, l) ==
  [m EXCEPT !.state = "s_header_value", !.index = 0, !.marks = {"header_value"},
            !.flags = f, !.content_length = l, !.header_state = h]
AtValue(m, h, i, l) ==
  [m EXCEPT !.index = i, !.header_state = h, !.content_length = l]

LEMMA ValueStartGoes ==
  ASSUME NEW m, NEW ch, Ready(m), m.state = "s_header_value_start"
  PROVE  Goes(m, ValueStart(m, ch))
<1>1. m \in Parsers /\ m.marks = {} /\ m.flags \subseteq Flags /\ m.header_state \in FieldMatches \cup ValueMatches
  BY DEF Ready, Resumed, UrlStates, Parsers
<1>2. CASE ch = "SP"
  <2>1. Goes(m, m)
    BY <1>1, HeaderGoes, NothingMatched, PlainStates DEF HeaderStates
  <2> QED BY <1>2, <2>1 DEF ValueStart
<1>3. CASE ch \in {"CR", "LF"}
  <2>1. PICK n : n = ValueStart(m, ch)
    OBVIOUS
  <2>2. n \in Parsers /\ n.state \in {"s_header_almost_done", "s_header_field_start"}
          /\ n.calls = m.calls /\ n.upgrade = m.upgrade /\ n.nread = m.nread
          /\ n.flags = m.flags /\ n.marks = {}
    BY <1>1, <1>3, <2>1 DEF ValueStart, Parsers, States, HeaderStates, FieldMatches
  <2>3. Goes(m, n)
    BY <2>2, HeaderGoes, NothingMatched, PlainStates DEF HeaderStates
  <2> QED BY <2>1, <2>3
<1>4. ASSUME NEW h \in ValueMatches, NEW f \in SUBSET Flags, NEW l \in 0 .. Size - 1,
             "TRAILING" \in f <=> "TRAILING" \in m.flags
      PROVE  Goes(m, InValue(m, h, f, l))
  <2>1. PICK n : n = [m EXCEPT !.state = "s_header_value", !.index = 0, !.marks = {"header_value"},
                               !.flags = f, !.content_length = l, !.header_state = h]
    OBVIOUS
  <2>2. n \in Parsers /\ n.state = "s_header_value" /\ n.calls = m.calls /\ n.upgrade = m.upgrade
          /\ n.nread = m.nread /\ n.flags = f /\ n.marks = {"header_value"} /\ n.index = 0
          /\ n.header_state = h
    BY <1>1, <2>1 DEF Parsers, States, HeaderStates, Strings
  <2>3. ASSUME h \in DOMAIN Keyword
        PROVE  0 < Len(Keyword[h])
    BY <2>3, KeywordPositive
  <2>4. Matching(n)
    BY <2>2, <2>3 DEF Matching
  <2>5. Goes(m, n)
    BY <1>4, <2>2, <2>4, HeaderGoes, PlainStates DEF HeaderStates
  <2> QED BY <2>1, <2>5 DEF InValue
<1>5. PICK in : in = [m EXCEPT !.state = "s_header_value", !.index = 0,
                               !.marks = @ \cup {"header_value"}]
  OBVIOUS
<1>6. m.content_length \in 0 .. Size - 1
  BY <1>1 DEF Parsers
<1>7. CASE ch \notin {"SP", "CR", "LF"} /\ m.header_state = "h_upgrade"
  <2>1. ValueStart(m, ch) =
          InValue(m, "h_general", m.flags \cup {"UPGRADE"}, m.content_length)
    <3>1. PICK f : f = m.flags \cup {"UPGRADE"}
      OBVIOUS
    <3>2. in = [m EXCEPT !.state = "s_header_value", !.index = 0, !.marks = {"header_value"}]
      BY <1>1, <1>5
    <3>3. in.flags = m.flags
      BY <1>1, <3>2 DEF Parsers
    <3>4. ValueStart(m, ch) = [in EXCEPT !.flags = f, !.header_state = "h_general"]
      BY <1>5, <1>7, <3>1, <3>3 DEF ValueStart
    <3>5. InValue(m, "h_general", f, m.content_length)
            = [in EXCEPT !.flags = f, !.header_state = "h_general"]
      BY <1>1, <3>2 DEF InValue, Parsers
    <3> QED BY <3>1, <3>4, <3>5
  <2>2. m.flags \cup {"UPGRADE"} \in SUBSET Flags
          /\ ("TRAILING" \in m.flags \cup {"UPGRADE"} <=> "TRAILING" \in m.flags)
    BY <1>1 DEF Flags
  <2>3. "h_general" \in ValueMatches
    BY DEF ValueMatches
  <2> QED BY <1>4, <1>6, <2>1, <2>2, <2>3
<1>8. CASE ch \notin {"SP", "CR", "LF"} /\ m.header_state = "h_content_length"
  <2>1. CASE ch \in Digits
    <3>1. PICK l : l = Value[ch] % Size
      OBVIOUS
    <3>2. l \in 0 .. Size - 1
      BY <2>1, <3>1, DigitValues
    <3>3. ValueStart(m, ch) =
            InValue(m, "h_content_length", m.flags, l)
      BY <1>1, <1>8, <2>1, <3>1 DEF ValueStart, Parsers, InValue
    <3>4. "h_content_length" \in ValueMatches
      BY DEF ValueMatches
    <3> QED BY <1>1, <1>4, <3>2, <3>3, <3>4
  <2>2. CASE ch \notin Digits
    <3>1. ValueStart(m, ch) = Error(in)
      BY <1>5, <1>8, <2>2 DEF ValueStart
    <3>2. in \in Parsers /\ in.nread = m.nread /\ in.calls = m.calls
      BY <1>1, <1>5 DEF Parsers, States, HeaderStates, Strings
    <3>3. Goes(m, Error(in))
      BY <3>2, ErrorGoes, ReadyFacts
    <3> QED BY <3>1, <3>3
  <2> QED BY <2>1, <2>2
<1>9. CASE ch \notin {"SP", "CR", "LF"} /\ m.header_state \notin {"h_upgrade", "h_content_length"}
  <2>1. PICK h : h = IF m.header_state = "h_transfer_encoding" /\ ch = "C" THEN "h_matching_transfer_encoding_chunked"
              ELSE IF m.header_state = "h_connection" /\ ch = "K" THEN "h_matching_connection_keep_alive"
              ELSE IF m.header_state = "h_connection" /\ ch = "C" THEN "h_matching_connection_close"
              ELSE "h_general"
    OBVIOUS
  <2>2. h \in ValueMatches
    BY <2>1, KeywordTable DEF ValueMatches
  <2>3. ValueStart(m, ch) = [in EXCEPT !.header_state = h]
    BY <1>5, <1>9, <2>1 DEF ValueStart
  <2>4. [in EXCEPT !.header_state = h] =
          InValue(m, h, m.flags, m.content_length)
    BY <1>1, <1>5 DEF Parsers, InValue
  <2> QED BY <1>1, <1>4, <1>6, <2>2, <2>3, <2>4
<1> QED BY <1>2, <1>3, <1>7, <1>8, <1>9

(* The flags that header values set.                                       *)
LEMMA FlagTable ==
  DOMAIN FlagOf = MatchedValues /\ \A h \in DOMAIN FlagOf : FlagOf[h] \in Flags \ {"TRAILING"}
BY DEF FlagOf, MatchedValues, Flags

LEMMA HeaderDoneGoes ==
  ASSUME NEW m, NEW ch, NEW e, Ready(m), m.state \in {"s_header_value", "s_header_almost_done"},
         e = [m EXCEPT !.marks = {}]
  PROVE  Goes(m, HeaderDone(e, ch))
<1>1. m \in Parsers /\ m.flags \subseteq Flags
  BY DEF Ready, Parsers
<1>2. e \in Parsers /\ e.nread = m.nread /\ e.calls = m.calls /\ e.flags = m.flags
  BY <1>1 DEF Parsers
<1>3. CASE ch # "LF"
  <2>1. Goes(m, Error(e))
    BY <1>2, ErrorGoes, ReadyFacts
  <2> QED BY <1>3, <2>1 DEF HeaderDone
<1>4. CASE ch = "LF"
  <2>1. PICK f : f = {FlagOf[h] : h \in {e.header_state} \cap DOMAIN FlagOf}
    OBVIOUS
  <2>2. f \subseteq Flags \ {"TRAILING"}
    BY <2>1, FlagTable
  <2>3. PICK n : n = [e EXCEPT !.state = "s_header_field_start", !.flags = e.flags \cup f]
    OBVIOUS
  <2>4. n \in Parsers /\ n.state = "s_header_field_start" /\ n.calls = m.calls
          /\ n.upgrade = m.upgrade /\ n.nread = m.nread /\ n.flags = m.flags \cup f /\ n.marks = {}
    BY <1>1, <1>2, <2>2, <2>3 DEF Parsers, States, HeaderStates
  <2>5. Goes(m, n)
    BY <2>2, <2>4, HeaderGoes, NothingMatched, PlainStates DEF HeaderStates
  <2>6. HeaderDone(e, ch) = n
    BY <1>4, <2>1, <2>3 DEF HeaderDone
  <2> QED BY <2>5, <2>6
<1> QED BY <1>3, <1>4

LEMMA HeaderValueGoes ==
  ASSUME NEW m, NEW ch, Ready(m), m.state = "s_header_value"
  PROVE  Goes(m, HeaderValue(m, ch))
<1>1. m \in Parsers /\ m.marks = {"header_value"} /\ m.index \in Nat /\ m.content_length \in 0 .. Size - 1
  BY DEF Ready, Resumed, UrlStates, Parsers
<1>2. m.header_state \in ValueMatches
  BY DEF Ready, Consistent, Matching
<1>3. PICK e : e = [m EXCEPT !.marks = @ \ {"header_value"}]
  OBVIOUS
<1>4. e = [m EXCEPT !.marks = {}]
  BY <1>1, <1>3
<1>5. CASE ch = "CR"
  <2>1. PICK n : n = [e EXCEPT !.state = "s_header_almost_done"]
    OBVIOUS
  <2>2. n \in Parsers /\ n.state = "s_header_almost_done" /\ n.calls = m.calls
          /\ n.upgrade = m.upgrade /\ n.nread = m.nread /\ n.flags = m.flags /\ n.marks = {}
    BY <1>1, <1>4, <2>1 DEF Parsers, States, HeaderStates
  <2>3. Goes(m, n)
    BY <2>2, HeaderGoes, NothingMatched, PlainStates DEF HeaderStates
  <2> QED BY <1>3, <1>5, <2>1, <2>3 DEF HeaderValue
<1>6. CASE ch = "LF"
  BY <1>3, <1>4, <1>6, HeaderDoneGoes DEF HeaderValue
<1>7. ASSUME NEW h \in ValueMatches, NEW i \in Nat, NEW l \in 0 .. Size - 1,
             h \in DOMAIN Keyword => i < Len(Keyword[h])
      PROVE  Goes(m, AtValue(m, h, i, l))
  <2>1. PICK n : n = [m EXCEPT !.index = i, !.header_state = h, !.content_length = l]
    OBVIOUS
  <2>2. n \in Parsers /\ n.state = "s_header_value" /\ n.calls = m.calls /\ n.upgrade = m.upgrade
          /\ n.nread = m.nread /\ n.flags = m.flags /\ n.marks = {"header_value"} /\ n.index = i
          /\ n.header_state = h
    BY <1>1, <2>1 DEF Parsers
  <2>3. Matching(n)
    BY <1>7, <2>2 DEF Matching
  <2>4. Goes(m, n)
    BY <2>2, <2>3, HeaderGoes, PlainStates DEF HeaderStates
  <2> QED BY <2>1, <2>4 DEF AtValue
<1>8. m = AtValue(m, m.header_state, m.index, m.content_length)
  BY <1>1 DEF Parsers, AtValue
<1>9. CASE ch \notin {"CR", "LF"} /\ m.header_state = "h_content_length"
  <2>1. "h_content_length" \notin DOMAIN Keyword
    BY KeywordTable
  <2>2. PICK l : l = Decimal(m.content_length, ch)
    OBVIOUS
  <2>3. ch \in Digits => l \in 0 .. Size - 1
    BY <1>1, <2>2, DigitValues, SizeFacts
  <2>4. [m EXCEPT !.content_length = l] =
          AtValue(m, m.header_state, m.index, l)
    BY <1>1 DEF Parsers, AtValue
  <2>5. HeaderValue(m, ch) = IF ch = "SP" THEN m
                             ELSE IF ch \in Digits THEN [m EXCEPT !.content_length = l] ELSE Error(m)
    BY <1>9, <2>2 DEF HeaderValue
  <2>6. Goes(m, m)
    BY <1>1, <1>2, <1>7, <1>8, <1>9, <2>1
  <2>7. ch \in Digits => Goes(m, [m EXCEPT !.content_length = l])
    BY <1>1, <1>2, <1>7, <1>9, <2>1, <2>3, <2>4
  <2> QED BY <2>5, <2>6, <2>7, ReadyFacts
<1>10. CASE ch \notin {"CR", "LF"} /\ m.header_state \in DOMAIN Keyword
  <2>1. m.header_state \in ValueKeywords
    BY <1>2, <1>10, KeywordTable DEF ValueMatches, MatchedValues
  <2>2. HeaderValue(m, ch) = Match(m, ch)
    BY <1>10, KeywordTable DEF HeaderValue
  <2>3. PICK h : h = Match(m, ch).header_state
    OBVIOUS
  <2>4. HeaderValue(m, ch) = [m EXCEPT !.index = m.index + 1, !.header_state = h]
    BY <1>1, <1>10, <2>2, <2>3, MatchResult
  <2>5. \/ h = "h_general" \/ h \in MatchedValues
        \/ h = m.header_state /\ m.index + 1 < Len(Keyword[h])
    BY <1>1, <1>10, <2>1, <2>3, MatchResult, KeywordTable
  <2>6. h \in ValueMatches /\ m.index + 1 \in Nat
    BY <1>1, <2>1, <2>5, KeywordTable DEF ValueMatches, MatchedValues
  <2>7. h \in DOMAIN Keyword => m.index + 1 < Len(Keyword[h])
    BY <2>5, KeywordTable DEF MatchedValues
  <2>8. [m EXCEPT !.index = m.index + 1, !.header_state = h] =
          AtValue(m, h, m.index + 1, m.content_length)
    BY <1>1 DEF Parsers, AtValue
  <2> QED BY <1>1, <1>7, <2>4, <2>6, <2>7, <2>8
<1>11. CASE ch \notin {"CR", "LF"} /\ m.header_state \notin {"h_content_length"} \cup DOMAIN Keyword
  <2>1. HeaderValue(m, ch) \in {m, [m EXCEPT !.header_state = "h_general"]}
    BY <1>11 DEF HeaderValue
  <2>2. "h_general" \in ValueMatches /\ "h_general" \notin DOMAIN Keyword
    BY KeywordTable DEF ValueMatches
  <2>3. [m EXCEPT !.header_state = "h_general"] =
          AtValue(m, "h_general", m.index, m.content_length)
    BY <1>1 DEF Parsers, AtValue
  <2>4. Goes(m, [m EXCEPT !.header_state = "h_general"])
    BY <1>1, <1>7, <2>2, <2>3
  <2>5. Goes(m, m)
    BY <1>1, <1>2, <1>7, <1>8, <1>11
  <2> QED BY <2>1, <2>4, <2>5
<1> QED BY <1>5, <1>6, <1>9, <1>10, <1>11

(* The end of a message, and of its headers.                               *)
LEMMA CompleteGoes ==
  ASSUME NEW m, Ready(m), NEW k \in Parsers, k.nread \in {0, m.nread}, k.marks = {},
         Len(k.calls) >= 1, Ordered(k.calls), LastCall(k) \in {"headers_complete", "body"}
  PROVE  Goes(m, Complete(k))
<1>1. PICK c : c = Append(k.calls, "message_complete")
  OBVIOUS
<1>2. c \in Seq(Callbacks) /\ Ordered(c) /\ c[Len(c)] = "message_complete"
  <2>1. k.calls \in Seq(Callbacks) /\ "message_complete" \in Callbacks
    BY DEF Parsers, Callbacks
  <2>2. <<k.calls[Len(k.calls)], "message_complete">> \in InOrder
    BY DEF InOrder, LastCall
  <2> QED BY <1>1, <2>1, <2>2, CallAdded
<1>3. PICK s \in {"s_start_req", "s_start_res", "s_dead"} :
        s = IF http_should_keep_alive(k) THEN start_state(k.type) ELSE "s_dead"
  BY DEF start_state
<1>4. PICK n : n = [k EXCEPT !.calls = c, !.state = s]
  OBVIOUS
<1>5. n \in Parsers /\ n.state = s /\ n.calls = c /\ n.nread = k.nread /\ n.marks = {}
  <2>1. s \in States
    BY <1>3 DEF States, StartStates
  <2>2. n.state = s /\ n.calls = c /\ n.nread = k.nread /\ n.marks = k.marks
    BY <1>4 DEF Parsers
  <2>3. n \in Parsers
    BY <1>2, <1>4, <2>1 DEF Parsers
  <2> QED BY <2>2, <2>3
<1>6. LastCall(n) = "message_complete"
  BY <1>2, <1>5 DEF LastCall
<1>7. ASSUME n.state # "s_dead"
      PROVE  Consistent(n) /\ n.marks = Resumed(n.state)
  <2>1. n.state \in {"s_start_req", "s_start_res"}
    BY <1>3, <1>5, <1>7
  <2>2. Framed(n) /\ n.marks = Resumed(n.state)
    BY <1>5, <2>1 DEF Framed, Resumed, UrlStates, ChunkStates, BodyStates
  <2>3. Called(n)
    BY <1>6, <2>1 DEF Called, StartStates
  <2> QED BY <2>1, <2>2, <2>3, NothingMatched DEF Consistent
<1>8. Goes(m, n)
  BY <1>2, <1>3, <1>5, <1>7 DEF Goes, Alive
<1>9. Complete(k) = n
  BY <1>1, <1>3, <1>4 DEF Complete
<1> QED BY <1>8, <1>9

LEMMA HeadersDoneGoes ==
  ASSUME NEW m, NEW ch, NEW r, Ready(m), m.state = "s_headers_almost_done"
  PROVE  Goes(m, HeadersDone(m, ch, r))
<1>1. /\ m \in Parsers /\ m.marks = {} /\ m.flags \subseteq Flags
      /\ m.calls \in Seq(Callbacks) /\ Len(m.calls) = 1 /\ Ordered(m.calls)
      /\ m.content_length \in 0 .. Size - 1
  BY OneCall DEF Ready, Resumed, UrlStates, Parsers
<1>2. PICK up \in BOOLEAN : up = (m.upgrade \/ "UPGRADE" \in m.flags \/ m.method = "CONNECT")
  OBVIOUS
<1>3. PICK c : c = Append(m.calls, "headers_complete")
  OBVIOUS
<1>4. PICK n : n = [m EXCEPT !.nread = 0, !.upgrade = up, !.calls = c]
  OBVIOUS
<1>5. CASE ch # "LF"
  BY <1>5, ReadyFacts DEF HeadersDone
<1>6. CASE ch = "LF" /\ "TRAILING" \in m.flags
  <2>1. LastCall(m) \in {"headers_complete", "body"}
    BY <1>6 DEF Ready, Consistent, Called, StartStates
  <2>2. Goes(m, Complete(m))
    BY <1>1, <2>1, CompleteGoes
  <2> QED BY <1>6, <2>2 DEF HeadersDone
<1>7. CASE ch = "LF" /\ "TRAILING" \notin m.flags
  <2>1. LastCall(m) = "message_begin"
    BY <1>7 DEF Ready, Consistent, Called, StartStates, ChunkStates, BodyStates
  <2>2. c \in Seq(Callbacks) /\ Len(c) = 2 /\ Len(c) >= 1 /\ Ordered(c) /\ c[Len(c)] = "headers_complete"
    <3>1. "headers_complete" \in Callbacks /\ <<m.calls[Len(m.calls)], "headers_complete">> \in InOrder
      BY <2>1 DEF Callbacks, InOrder, LastCall
    <3> QED BY <1>1, <1>3, <3>1, CallAdded
  <2>3. n \in Parsers /\ n.nread = 0 /\ n.upgrade = up /\ n.calls = c /\ n.marks = {}
          /\ n.flags = m.flags /\ n.state = m.state
    BY <1>1, <1>4, <2>2 DEF Parsers
  <2>4. LastCall(n) = "headers_complete"
    BY <2>2, <2>3 DEF LastCall
  <2>5. CASE up
    <3>1. PICK d : d = Append(c, "message_complete")
      OBVIOUS
    <3>2. d \in Seq(Callbacks) /\ Ordered(d)
      <4>1. "message_complete" \in Callbacks /\ <<c[Len(c)], "message_complete">> \in InOrder
        BY <2>2 DEF Callbacks, InOrder
      <4> QED BY <2>2, <3>1, <4>1, CallAdded
    <3>3. PICK o : o = [n EXCEPT !.calls = d]
      OBVIOUS
    <3>4. o \in Parsers /\ o.nread = 0 /\ o.upgrade = TRUE /\ o.calls = d /\ o.state = m.state
      BY <2>3, <2>5, <3>2, <3>3 DEF Parsers
    <3>5. Goes(m, o)
      BY <3>2, <3>4 DEF Goes, Alive
    <3>6. HeadersDone(m, ch, r) = [n EXCEPT !.calls = Append(@, "message_complete")]
      BY <1>2, <1>3, <1>4, <1>7, <2>5 DEF HeadersDone
    <3> QED BY <2>3, <3>1, <3>3, <3>5, <3>6
  <2>6. CASE ~up /\ r = 1
    <3>1. PICK o : o = [n EXCEPT !.flags = @ \cup {"SKIPBODY"}]
      OBVIOUS
    <3>2. o \in Parsers /\ o.nread = 0 /\ o.calls = c /\ o.marks = {} /\ LastCall(o) = LastCall(n)
      <4>1. "SKIPBODY" \in Flags
        BY DEF Flags
      <4>2. o.nread = n.nread /\ o.calls = n.calls /\ o.marks = n.marks
        BY <2>3, <3>1 DEF Parsers
      <4>3. o \in Parsers
        BY <2>3, <3>1, <4>1 DEF Parsers
      <4> QED BY <2>3, <4>2, <4>3 DEF LastCall
    <3>3. Goes(m, Complete(o))
      BY <2>2, <2>4, <3>2, CompleteGoes
    <3> QED BY <1>2, <1>3, <1>4, <1>7, <2>6, <3>1, <3>3 DEF HeadersDone
  <2>7. CASE ~up /\ r # 1
    <3>1. Goes(m, Complete(n))
      <4>1. Len(n.calls) >= 1 /\ Ordered(n.calls)
        BY <2>2, <2>3
      <4> QED BY <2>3, <2>4, <4>1, CompleteGoes
    <3>2. ASSUME NEW s \in {"s_chunk_size_start", "s_body_identity"},
                 s = "s_chunk_size_start" => "CHUNKED" \in m.flags
          PROVE  Goes(m, [n EXCEPT !.state = s])
      <4>1. PICK o : o = [n EXCEPT !.state = s]
        OBVIOUS
      <4>2. o \in Parsers /\ o.nread = 0 /\ o.calls = c /\ o.marks = {} /\ o.state = s
              /\ o.flags = m.flags
        <5>1. s \in States
          BY DEF States, ChunkStates, BodyStates
        <5>2. o.nread = n.nread /\ o.calls = n.calls /\ o.marks = n.marks /\ o.state = s
                /\ o.flags = n.flags
          BY <2>3, <4>1 DEF Parsers
        <5>3. o \in Parsers
          BY <2>3, <4>1, <5>1 DEF Parsers
        <5> QED BY <2>3, <5>2, <5>3
      <4>3. Called(o)
        BY <2>2, <4>2 DEF Called, LastCall, StartStates, ChunkStates, BodyStates
      <4>4. Framed(o) /\ o.marks = Resumed(o.state)
        BY <1>7, <3>2, <4>2 DEF Framed, Resumed, UrlStates, ChunkStates, BodyStates
      <4>5. Matching(o)
        BY <4>2, NothingMatched
      <4>6. Goes(m, o)
        BY <2>2, <4>2, <4>3, <4>4, <4>5 DEF Goes, Consistent
      <4> QED BY <4>1, <4>6
    <3>3. m.content_length = 0 \/ m.content_length > 0
      BY <1>1, SizeFacts
    <3>4. \/ HeadersDone(m, ch, r) = Complete(n)
          \/ "CHUNKED" \in m.flags /\ HeadersDone(m, ch, r) = [n EXCEPT !.state = "s_chunk_size_start"]
          \/ HeadersDone(m, ch, r) = [n EXCEPT !.state = "s_body_identity"]
      BY <1>2, <1>3, <1>4, <1>7, <2>7, <3>3 DEF HeadersDone
    <3> QED BY <3>1, <3>2, <3>4
  <2> QED BY <2>5, <2>6, <2>7
<1> QED BY <1>5, <1>6, <1>7

LEMMA FieldStartGoes ==
  ASSUME NEW m, NEW ch, NEW r, Ready(m), m.state = "s_header_field_start"
  PROVE  Goes(m, FieldStart(m, ch, r))
<1>1. CASE ch # "LF"
  BY <1>1, FieldBeginsGoes
<1>2. CASE ch = "LF"
  <2>1. PICK k : k = [m EXCEPT !.state = "s_headers_almost_done"]
    OBVIOUS
  <2>2. k \in Parsers /\ k.state = "s_headers_almost_done" /\ k.calls = m.calls /\ k.nread = m.nread
          /\ k.upgrade = m.upgrade /\ k.flags = m.flags /\ k.marks = m.marks
    BY <2>1 DEF Ready, Parsers, States, HeaderStates
  <2>3. Goes(m, k)
    <3>1. k.marks = {}
      BY <2>2 DEF Ready, Resumed, UrlStates
    <3> QED BY <2>2, <3>1, HeaderGoes, NothingMatched, PlainStates DEF HeaderStates
  <2>4. Ready(k)
    BY <2>2, <2>3 DEF Goes, Ready, Alive
  <2>5. Goes(k, HeadersDone(k, ch, r))
    BY <2>2, <2>4, HeadersDoneGoes
  <2>6. Goes(m, HeadersDone(k, ch, r))
    BY <2>2, <2>5 DEF Goes
  <2> QED BY <1>2, <2>1, <2>6 DEF FieldStart
<1> QED BY <1>1, <1>2

(* The states of a chunk, each with a count that starts at zero.           *)
LEMMA ChunkStateGoes ==
  ASSUME NEW m, Ready(m), m.state \in ChunkStates, NEW n \in Parsers, n.state \in ChunkStates,
         n.calls = m.calls, n.flags = m.flags, n.marks = {}, n.nread \in {0, m.nread},
         n.state \in {"s_chunk_size_start", "s_chunk_data", "s_chunk_data_almost_done",
                      "s_chunk_data_done"} => n.nread = 0
  PROVE  Goes(m, n)
<1>1. Called(n)
  BY DEF Ready, Consistent, Called, LastCall, StartStates, ChunkStates
<1>2. Framed(n)
  BY DEF Ready, Consistent, Framed
<1>3. Matching(n)
  BY NothingMatched DEF ChunkStates
<1>4. Resumed(n.state) = {}
  BY DEF Resumed, UrlStates, ChunkStates
<1>5. Ordered(n.calls)
  BY ReadyFacts
<1> QED BY <1>1, <1>2, <1>3, <1>4, <1>5 DEF Goes, Consistent

LEMMA ChunkGoes ==
  ASSUME NEW m, NEW ch, Ready(m), m.state \in ChunkStates \ BodyStates
  PROVE  Goes(m, Chunk(m, ch))
<1>1. /\ m \in Parsers /\ m.marks = {} /\ m.flags \subseteq Flags /\ m.nread \in Nat
      /\ m.content_length \in Nat /\ m.calls \in Seq(Callbacks)
      /\ ChunkStates \subseteq States
  BY SizeFacts DEF Ready, Resumed, UrlStates, Parsers, ChunkStates, States
<1>2. "s_chunk_data" \in ChunkStates /\ m.state # "s_chunk_data"
  BY DEF ChunkStates, BodyStates
<1>3. ASSUME NEW s \in {"s_chunk_size", "s_chunk_parameters", "s_chunk_size_almost_done"},
             NEW l \in 0 .. Size - 1
      PROVE  Goes(m, [m EXCEPT !.content_length = l, !.state = s])
  <2>1. PICK n : n = [m EXCEPT !.content_length = l, !.state = s]
    OBVIOUS
  <2>2. s \in ChunkStates
    BY DEF ChunkStates
  <2>3. n \in Parsers /\ n.state = s /\ n.calls = m.calls /\ n.flags = m.flags /\ n.marks = {}
          /\ n.nread = m.nread
    BY <1>1, <2>1, <2>2 DEF Parsers
  <2>4. Goes(m, n)
    BY <2>2, <2>3, ChunkStateGoes
  <2> QED BY <2>1, <2>4
<1>4. CASE m.state = "s_chunk_size_start"
  <2>1. PICK l : l = unhex[ch] % Size
    OBVIOUS
  <2>2. ch \in DOMAIN unhex => l \in 0 .. Size - 1
    BY <2>1, DigitValues
  <2>3. Chunk(m, ch) = IF ch \in DOMAIN unhex THEN [m EXCEPT !.content_length = l, !.state = "s_chunk_size"]
                       ELSE Error(m)
    BY <1>4, <2>1 DEF Chunk
  <2> QED BY <1>3, <2>2, <2>3, ReadyFacts
<1>5. ASSUME NEW s \in {"s_chunk_size", "s_chunk_parameters", "s_chunk_size_almost_done"}
      PROVE  Goes(m, [m EXCEPT !.state = s])
  <2>1. PICK n : n = [m EXCEPT !.state = s]
    OBVIOUS
  <2>2. s \in ChunkStates
    BY DEF ChunkStates
  <2>3. n \in Parsers /\ n.state = s /\ n.calls = m.calls /\ n.flags = m.flags /\ n.marks = {}
          /\ n.nread = m.nread
    BY <1>1, <2>1, <2>2 DEF Parsers
  <2>4. Goes(m, n)
    BY <2>2, <2>3, ChunkStateGoes
  <2> QED BY <2>1, <2>4
<1>6. CASE m.state = "s_chunk_size"
  <2>1. PICK l : l = Hex(m.content_length, ch)
    OBVIOUS
  <2>2. ch \in DOMAIN unhex => l \in 0 .. Size - 1
    BY <1>1, <2>1, DigitValues
  <2>3. Chunk(m, ch) =
          IF ch = "CR" THEN [m EXCEPT !.state = "s_chunk_size_almost_done"]
          ELSE IF ch \in DOMAIN unhex THEN [m EXCEPT !.content_length = l]
          ELSE IF ch \in {";", "SP"} THEN [m EXCEPT !.state = "s_chunk_parameters"]
          ELSE Error(m)
    BY <1>6, <2>1 DEF Chunk
  <2>4. [m EXCEPT !.content_length = l] = [m EXCEPT !.content_length = l, !.state = "s_chunk_size"]
    BY <1>1, <1>6 DEF Parsers
  <2>5. ch \in DOMAIN unhex => Goes(m, [m EXCEPT !.content_length = l])
    BY <1>3, <2>2, <2>4
  <2> QED BY <1>5, <2>3, <2>5, ReadyFacts
<1>7. CASE m.state = "s_chunk_parameters"
  <2>1. Chunk(m, ch) = IF ch = "CR" THEN [m EXCEPT !.state = "s_chunk_size_almost_done"] ELSE m
    BY <1>7 DEF Chunk
  <2>2. m = [m EXCEPT !.state = "s_chunk_parameters"]
    BY <1>1, <1>7 DEF Parsers
  <2> QED BY <1>5, <2>1, <2>2
<1>8. CASE m.state = "s_chunk_size_almost_done"
  <2>1. Chunk(m, ch) = ChunkSizeDone(m, ch)
    BY <1>8 DEF Chunk
  <2>2. CASE ch # "LF"
    BY <2>1, <2>2, ReadyFacts DEF ChunkSizeDone
  <2>3. CASE ch = "LF" /\ m.content_length = 0
    <3>1. PICK n : n = [m EXCEPT !.nread = 0, !.flags = @ \cup {"TRAILING"}, !.state = "s_header_field_start"]
      OBVIOUS
    <3>2. n \in Parsers /\ n.state = "s_header_field_start" /\ n.calls = m.calls
            /\ n.flags = m.flags \cup {"TRAILING"} /\ n.marks = {} /\ n.nread = 0
      BY <1>1, <3>1 DEF Parsers, States, HeaderStates, Flags
    <3>3. Called(n)
      BY <1>8, <3>2 DEF Ready, Consistent, Called, LastCall, StartStates, ChunkStates
    <3>4. Framed(n) /\ n.marks = Resumed(n.state)
      BY <3>2 DEF Framed, ChunkStates, BodyStates, Resumed, UrlStates
    <3>5. Matching(n)
      BY <3>2, NothingMatched
    <3>6. Ordered(n.calls)
      BY <3>2, ReadyFacts
    <3>7. Goes(m, n)
      BY <3>2, <3>3, <3>4, <3>5, <3>6 DEF Goes, Consistent
    <3> QED BY <2>1, <2>3, <3>1, <3>7 DEF ChunkSizeDone
  <2>4. CASE ch = "LF" /\ m.content_length # 0
    <3>1. PICK n : n = [m EXCEPT !.nread = 0, !.state = "s_chunk_data"]
      OBVIOUS
    <3>2. n \in Parsers /\ n.state = "s_chunk_data" /\ n.calls = m.calls /\ n.flags = m.flags
            /\ n.marks = {} /\ n.nread = 0
      BY <1>1, <1>2, <3>1 DEF Parsers
    <3>3. Goes(m, n)
      BY <1>2, <3>2, ChunkStateGoes
    <3> QED BY <2>1, <2>4, <3>1, <3>3 DEF ChunkSizeDone
  <2> QED BY <2>2, <2>3, <2>4
<1>9. CASE m.state \in {"s_chunk_data_almost_done", "s_chunk_data_done"}
  <2>1. m.nread = 0
    BY <1>9 DEF Ready, Consistent, Framed
  <2>2. ASSUME NEW s \in {"s_chunk_data_done", "s_chunk_size_start"}
        PROVE  Goes(m, [m EXCEPT !.state = s])
    <3>1. PICK n : n = [m EXCEPT !.state = s]
      OBVIOUS
    <3>2. s \in ChunkStates
      BY DEF ChunkStates
    <3>3. n \in Parsers /\ n.state = s /\ n.calls = m.calls /\ n.flags = m.flags /\ n.marks = {}
            /\ n.nread = 0
      BY <1>1, <2>1, <3>1, <3>2 DEF Parsers
    <3>4. Goes(m, n)
      BY <3>2, <3>3, ChunkStateGoes
    <3> QED BY <3>1, <3>4
  <2>3. \/ Chunk(m, ch) = Error(m)
        \/ \E s \in {"s_chunk_data_done", "s_chunk_size_start"} : Chunk(m, ch) = [m EXCEPT !.state = s]
    BY <1>9 DEF Chunk
  <2> QED BY <2>2, <2>3, ReadyFacts
<1> QED BY <1>2, <1>4, <1>6, <1>7, <1>8, <1>9 DEF ChunkStates

(* Some bytes of a body.                                                   *)
LEMMA BodyGoes ==
  ASSUME NEW m, Ready(m), m.state \in BodyStates, NEW k \in 1 .. m.content_length
  PROVE  Goes(m, Body(m, k))
<1>1. /\ m \in Parsers /\ m.marks = {} /\ m.calls \in Seq(Callbacks) /\ Len(m.calls) = 1
      /\ m.content_length \in 0 .. Size - 1
  BY DEF Ready, Resumed, UrlStates, Parsers, BodyStates
<1>2. LastCall(m) \in {"headers_complete", "body"}
  BY DEF Ready, Consistent, Called, StartStates, BodyStates
<1>3. PICK c : c = Append(m.calls, "body")
  OBVIOUS
<1>4. c \in Seq(Callbacks) /\ Len(c) = 2 /\ Len(c) >= 1 /\ Ordered(c) /\ c[Len(c)] = "body"
  <2>1. "body" \in Callbacks /\ <<m.calls[Len(m.calls)], "body">> \in InOrder
    BY <1>2 DEF Callbacks, InOrder, LastCall
  <2> QED BY <1>1, <1>3, <2>1, CallAdded, ReadyFacts
<1>5. PICK l : l = m.content_length - k
  OBVIOUS
<1>6. l \in 0 .. Size - 1
  BY <1>1, <1>5, SizeFacts
<1>7. PICK n : n = [m EXCEPT !.content_length = l, !.calls = c]
  OBVIOUS
<1>8. n \in Parsers /\ n.state = m.state /\ n.calls = c /\ n.marks = {} /\ n.nread = m.nread
        /\ n.flags = m.flags /\ n.content_length = l
  BY <1>1, <1>4, <1>6, <1>7 DEF Parsers
<1>9. LastCall(n) = "body"
  BY <1>4, <1>8 DEF LastCall
<1>10. ASSUME NEW s \in BodyStates \cup {"s_chunk_data_almost_done"}, s = "s_chunk_data_almost_done" => m.state = "s_chunk_data",
              s # "s_chunk_data_almost_done" => s = m.state
       PROVE  Goes(m, [n EXCEPT !.state = s])
  <2>1. PICK o : o = [n EXCEPT !.state = s]
    OBVIOUS
  <2>2. o \in Parsers /\ o.state = s /\ o.calls = c /\ o.marks = {} /\ o.nread = m.nread
          /\ o.flags = m.flags
    BY <1>8, <2>1 DEF Parsers, States, ChunkStates, BodyStates
  <2>3. Called(o)
    BY <1>4, <2>2 DEF Called, LastCall, StartStates, ChunkStates, BodyStates
  <2>4. Framed(o)
    BY <1>10, <2>2 DEF Ready, Consistent, Framed, ChunkStates, BodyStates
  <2>5. o.marks = Resumed(o.state)
    BY <2>2 DEF Resumed, UrlStates, BodyStates
  <2>6. Matching(o)
    BY <2>2, NothingMatched DEF BodyStates
  <2>7. o.state # "s_chunk_size_start"
    BY <2>2 DEF BodyStates
  <2>8. Goes(m, o)
    BY <1>4, <2>2, <2>3, <2>4, <2>5, <2>6, <2>7 DEF Goes, Consistent
  <2> QED BY <2>1, <2>8
<1>11. CASE k < m.content_length
  <2>1. Body(m, k) = n
    BY <1>3, <1>5, <1>7, <1>11 DEF Body
  <2>2. n = [n EXCEPT !.state = m.state]
    BY <1>8 DEF Parsers
  <2>3. m.state # "s_chunk_data_almost_done"
    BY DEF BodyStates
  <2>4. Goes(m, [n EXCEPT !.state = m.state])
    BY <1>10, <2>3
  <2> QED BY <2>1, <2>2, <2>4
<1>12. CASE ~(k < m.content_length) /\ m.state = "s_chunk_data"
  BY <1>3, <1>5, <1>7, <1>10, <1>12 DEF Body
<1>13. CASE ~(k < m.content_length) /\ m.state # "s_chunk_data"
  <2>1. Goes(m, Complete(n))
    <3>1. Len(n.calls) >= 1 /\ Ordered(n.calls)
      BY <1>4, <1>8
    <3> QED BY <1>8, <1>9, <3>1, CompleteGoes
  <2> QED BY <1>3, <1>5, <1>7, <1>13, <2>1 DEF Body
<1> QED BY <1>11, <1>12, <1>13
(* The cases of the switch together.  The length of the method's string    *)
(* bounds what CONNECT is followed by.                                     *)
LEMMA DispatchGoes ==
  ASSUME NEW m, NEW ch, NEW r, Ready(m), m.state \notin BodyStates,
         m.state = "s_req_method" /\ m.method = "CONNECT" =>
           m.index < Len(method_strings.CONNECT) \/ ch = "SP"
  PROVE  Goes(m, Dispatch(m, ch, r))
<1>1. m.state \in States \ BodyStates
  BY DEF Ready, Parsers
<1>2. CASE m.state \in StartStates
  BY <1>2, StartGoes, DispatchParts
<1>3. CASE m.state \in TableStates
  BY <1>3, RowGoes, DispatchParts
<1>4. CASE m.state \in ChunkStates \ BodyStates
  BY <1>4, ChunkGoes, DispatchParts
<1>5. CASE m.state = "s_res_or_resp_H"
  BY <1>5, ReqOrResGoes, DispatchParts
<1>6. CASE m.state = "s_req_method"
  BY <1>6, MethodGoes, DispatchParts
<1>7. CASE m.state \in {"s_dead", "s_body_identity_eof"}
  BY <1>7, ReadyFacts, RowNone, DispatchParts
<1>8. CASE m.state \in {"s_header_field_start", "s_header_field"}
  BY <1>8, FieldStartGoes, FieldGoes, DispatchParts
<1>9. CASE m.state \in {"s_header_value_start", "s_header_value"}
  BY <1>9, ValueStartGoes, HeaderValueGoes, DispatchParts
<1>10. CASE m.state = "s_header_almost_done"
  <2>1. m = [m EXCEPT !.marks = {}]
    BY <1>10 DEF Ready, Resumed, UrlStates, Parsers
  <2>2. Goes(m, HeaderDone(m, ch))
    BY <1>10, <2>1, HeaderDoneGoes
  <2> QED BY <1>10, <2>2, DispatchParts
<1>11. CASE m.state = "s_headers_almost_done"
  BY <1>11, HeadersDoneGoes, DispatchParts
<1> QED BY <1>1, <1>2, <1>3, <1>4, <1>5, <1>6, <1>7, <1>8, <1>9, <1>10, <1>11, StateParts

(* Between two steps there is at least one callback to remember.           *)
Waiting(m) == /\ m \in Parsers /\ Alive(m) /\ Consistent(m)
              /\ m.marks = Resumed(m.state) /\ Len(m.calls) >= 1

LEMMA WaitingReady ==
  ASSUME NEW m, Waiting(m), NEW x \in Nat,
         m.state \in {"s_chunk_data", "s_chunk_data_almost_done", "s_chunk_data_done"} => x = 0
  PROVE  Ready([m EXCEPT !.nread = x, !.calls = LastOf(@)])
<1>1. PICK c : c = LastOf(m.calls)
  OBVIOUS
<1>2. c \in Seq(Callbacks) /\ Len(c) = 1 /\ c[Len(c)] = LastCall(m)
  <2>1. m.calls \in Seq(Callbacks) /\ m.calls[Len(m.calls)] \in Callbacks
    BY DEF Parsers, Waiting
  <2> QED BY <1>1, <2>1 DEF LastOf, LastCall
<1>3. PICK n : n = [m EXCEPT !.nread = x, !.calls = c]
  OBVIOUS
<1>4. n \in Parsers /\ n.type = m.type /\ n.state = m.state /\ n.header_state = m.header_state
        /\ n.index = m.index /\ n.nread = x /\ n.flags = m.flags /\ n.method = m.method
        /\ n.upgrade = m.upgrade /\ n.marks = m.marks /\ n.calls = c
  BY <1>2, <1>3 DEF Parsers, Waiting
<1>5. LastCall(n) = LastCall(m)
  BY <1>2, <1>4 DEF LastCall
<1>6. Called(n)
  BY <1>4, <1>5 DEF Called, Waiting, Consistent
<1>7. Matching(n)
  BY <1>4 DEF Matching, Waiting, Consistent
<1>8. Framed(n)
  BY <1>4 DEF Framed, Waiting, Consistent
<1>9. Ready(n)
  BY <1>2, <1>4, <1>6, <1>7, <1>8 DEF Ready, Consistent, Waiting, Alive
<1> QED BY <1>1, <1>3, <1>9

(* A step of a parser that goes on.                                        *)
LEMMA StepGoes ==
  ASSUME NEW m, NEW ch, NEW r, Waiting(m), m.state \notin BodyStates,
         m.state = "s_req_method" /\ m.method = "CONNECT" =>
           m.index < Len(method_strings.CONNECT) \/ ch = "SP"
  PROVE  Goes([m EXCEPT !.nread = Count(m), !.calls = LastOf(@)], Step(m, ch, r))
<1>1. PICK n : n = [m EXCEPT !.nread = Count(m), !.calls = LastOf(@)]
  OBVIOUS
<1>2. Count(m) \in Nat
  BY DEF Count, Waiting, Parsers
<1>3. m.state \in {"s_chunk_data", "s_chunk_data_almost_done", "s_chunk_data_done"} => Count(m) = 0
  BY DEF Waiting, Consistent, Framed, Count, PARSING_HEADER, BodyStates
<1>4. Ready(n)
  BY <1>1, <1>2, <1>3, WaitingReady
<1>5. n.state = m.state /\ n.method = m.method /\ n.index = m.index
  BY <1>1 DEF Waiting, Parsers
<1>6. Goes(n, Dispatch(n, ch, r))
  BY <1>4, <1>5, DispatchGoes
<1> QED BY <1>1, <1>6 DEF Step

(* What a digit makes of the length that is being read.                    *)
LengthAfter(m, ch) ==
  IF m.state = "s_header_value_start" /\ m.header_state = "h_content_length" /\ ch \in Digits
  THEN Value[ch] % Size
  ELSE IF m.state = "s_header_value" /\ m.header_state = "h_content_length" /\ ch \in Digits
  THEN Decimal(m.content_length, ch)
  ELSE IF m.state = "s_chunk_size_start" /\ ch \in DOMAIN unhex THEN unhex[ch] % Size
  ELSE IF m.state = "s_chunk_size" /\ ch \in DOMAIN unhex THEN Hex(m.content_length, ch)
  ELSE m.content_length

(* What a step within a message leaves for the history variable due: the   *)
(* length changes with a digit of it; a trailer follows a chunk of length  *)
(* zero; and nothing but a chunked body ends with its last header.         *)
Effect(m, ch, n) ==
  /\ BodyEnds(n.calls) => "TRAILING" \in m.flags
  /\ ~(Len(n.calls) = 2 /\ n.calls[2] = "message_begin")
  /\ n.state \notin StartStates \cup {"s_dead"} /\ ~n.upgrade =>
       /\ n.content_length = LengthAfter(m, ch)
       /\ \/ "TRAILING" \in n.flags <=> "TRAILING" \in m.flags
          \/ /\ "TRAILING" \in n.flags /\ m.content_length = 0
             /\ m.state = "s_chunk_size_almost_done"
       /\ n.state = "s_chunk_size" =>
            \/ m.state = "s_chunk_size"
            \/ m.state = "s_chunk_size_start" /\ ch \in DOMAIN unhex
       /\ n.state = "s_header_value" /\ n.header_state = "h_content_length" =>
            /\ m.header_state = "h_content_length"
            /\ \/ m.state = "s_header_value"
               \/ m.state = "s_header_value_start" /\ ch \in Digits

(* The steps that do not end a body, by their callbacks.                   *)
LEMMA NoBodyEnds ==
  ASSUME NEW c,
         \/ Len(c) = 1
         \/ Len(c) = 2 /\ ("message_begin" \in {c[1], c[2]} \/ c[2] = "body")
         \/ Len(c) = 3 /\ c[2] = "headers_complete"
  PROVE  ~BodyEnds(c)
<1> SUFFICES ASSUME NEW i \in 1 .. Len(c) - 1, c[i] = "body", c[i + 1] = "message_complete"
             PROVE  FALSE
  BY DEF BodyEnds
<1>1. CASE Len(c) = 1
  BY <1>1
<1>2. CASE Len(c) = 2
  <2>1. i = 1 /\ i + 1 = 2
    BY <1>2
  <2> QED BY <1>2, <2>1
<1>3. CASE Len(c) = 3
  <2>1. (i = 1 /\ i + 1 = 2) \/ i = 2
    BY <1>3
  <2> QED BY <1>3, <2>1
<1> QED BY <1>1, <1>2, <1>3

(* The effect of each part of the switch on the length.                    *)
LEMMA QuietEffect ==
  ASSUME NEW m, Ready(m), NEW ch, NEW n, n.calls = m.calls,
         n.state # "s_dead" =>
           /\ n.content_length = LengthAfter(m, ch)
           /\ "TRAILING" \in n.flags <=> "TRAILING" \in m.flags
           /\ n.state \notin {"s_chunk_size", "s_header_value"}
  PROVE  Effect(m, ch, n)
<1>1. Len(n.calls) = 1
  BY DEF Ready
<1> QED BY <1>1, NoBodyEnds DEF Effect

LEMMA ErrorEffect ==
  ASSUME NEW m, Ready(m), NEW ch, NEW k \in Parsers, k.calls = m.calls
  PROVE  Effect(m, ch, Error(k))
<1>1. PICK n : n = Error(k)
  OBVIOUS
<1>2. n.state = "s_dead" /\ n.calls = m.calls
  BY <1>1 DEF Error, Parsers
<1>3. Effect(m, ch, n)
  BY <1>2, QuietEffect
<1> QED BY <1>1, <1>3

LEMMA RowToEffect ==
  ASSUME NEW m, NEW ch, Ready(m), m.state \in TableStates, NEW t \in TableStates \cup {"s_header_field_start"},
         NEW k, NEW a, NEW b, NEW c
  PROVE  Effect(m, ch, RowTo(m, t, k, a, b, c))
<1>1. PICK n : n = RowTo(m, t, k, a, b, c)
  OBVIOUS
<1>2. n.state = t /\ n.calls = m.calls /\ n.content_length = m.content_length /\ n.flags = m.flags
  BY <1>1 DEF RowTo, Ready, Parsers
<1>3. t \notin {"s_chunk_size", "s_header_value"} /\ LengthAfter(m, ch) = m.content_length
  BY DEF LengthAfter, TableStates, UrlStates, ResponseStates, VersionStates
<1>4. Effect(m, ch, n)
  BY <1>2, <1>3, QuietEffect
<1> QED BY <1>1, <1>4

LEMMA RowEffect ==
  ASSUME NEW m, NEW ch, Ready(m), m.state \in TableStates
  PROVE  Effect(m, ch, Row(m, ch))
<1>1. m \in Parsers
  BY ReadyFacts
<1>2. Effect(m, ch, Error(m))
  BY <1>1, ErrorEffect
<1>3. CASE ~Taken(m.state, ch)
  BY <1>2, <1>3, RowRefused
<1>4. CASE Taken(m.state, ch)
  <2>1. PICK t \in TableStates \cup {"s_header_field_start"} : t = RowOf(m.state, ch)[3]
    BY <1>4, RowStates
  <2>2. PICK k : k = MarksTo(m, t)
    OBVIOUS
  <2>3. \/ Row(m, ch) = Error(m)
        \/ \E a, b, c : Row(m, ch) = RowTo(m, t, k, a, b, c)
    <3>1. CASE ch \in Digits /\ m.state \in DOMAIN First
      BY <1>1, <1>4, <2>1, <2>2, <3>1, RowFirst, DigitTables
    <3>2. CASE ch \in Digits /\ m.state \in DOMAIN Further
      BY <1>1, <1>4, <2>1, <2>2, <3>2, RowFurther, DigitTables
    <3>3. CASE ch \notin Digits \/ m.state \notin DOMAIN First \cup DOMAIN Further
      BY <1>1, <1>4, <2>1, <2>2, <3>3, RowElse
    <3> QED BY <3>1, <3>2, <3>3
  <2>4. \A a, b, c : Effect(m, ch, RowTo(m, t, k, a, b, c))
    BY RowToEffect
  <2> QED BY <1>2, <2>3, <2>4, Zenon
<1> QED BY <1>3, <1>4

LEMMA LineEffect ==
  ASSUME NEW m, NEW ch, Ready(m)
  PROVE  /\ m.state = "s_res_or_resp_H" => Effect(m, ch, ReqOrRes(m, ch))
         /\ m.state = "s_req_method" => Effect(m, ch, Method(m, ch))
<1>1. m \in Parsers
  BY ReadyFacts
<1>2. ASSUME m.state = "s_res_or_resp_H"
      PROVE  Effect(m, ch, ReqOrRes(m, ch))
  <2>1. PICK n : n = ReqOrRes(m, ch)
    OBVIOUS
  <2>2. n.state \in {"s_res_HT", "s_req_method", "s_dead"} /\ n.calls = m.calls
          /\ n.content_length = m.content_length /\ n.flags = m.flags
    BY <1>1, <2>1 DEF ReqOrRes, Error, Parsers
  <2>3. LengthAfter(m, ch) = m.content_length
    BY <1>2 DEF LengthAfter
  <2> QED BY <2>1, <2>2, <2>3, QuietEffect
<1>3. ASSUME m.state = "s_req_method"
      PROVE  Effect(m, ch, Method(m, ch))
  <2>1. PICK n : n = Method(m, ch)
    OBVIOUS
  <2>2. n.state \in {"s_req_spaces_before_url", "s_req_method", "s_dead"} /\ n.calls = m.calls
          /\ n.content_length = m.content_length /\ n.flags = m.flags
    BY <1>1, <1>3, <2>1 DEF Method, Error, Parsers
  <2>3. LengthAfter(m, ch) = m.content_length
    BY <1>3 DEF LengthAfter
  <2> QED BY <2>1, <2>2, <2>3, QuietEffect
<1> QED BY <1>2, <1>3

LEMMA FieldEffect ==
  ASSUME NEW m, NEW ch, Ready(m), m.state = "s_header_field"
  PROVE  Effect(m, ch, Field(m, ch))
<1>1. m \in Parsers /\ LengthAfter(m, ch) = m.content_length
  BY ReadyFacts DEF LengthAfter
<1>2. PICK n : n = Field(m, ch)
  OBVIOUS
<1>3. n.state \in {"s_header_value_start", "s_header_almost_done", "s_header_field_start",
                   "s_header_field", "s_dead"} /\ n.calls = m.calls
        /\ n.content_length = m.content_length /\ n.flags = m.flags
  BY <1>1, <1>2 DEF Field, FieldToken, NextIn, Match, Error, Parsers
<1> QED BY <1>1, <1>2, <1>3, QuietEffect

LEMMA HeaderDoneEffect ==
  ASSUME NEW m, NEW ch, NEW e \in Parsers, Ready(m),
         m.state = "s_header_almost_done" \/ (m.state = "s_header_value" /\ ch = "LF"),
         e.calls = m.calls, e.content_length = m.content_length, e.flags = m.flags
  PROVE  Effect(m, ch, HeaderDone(e, ch))
<1>1. LengthAfter(m, ch) = m.content_length
  BY DEF LengthAfter, Digits
<1>2. CASE ch # "LF"
  BY <1>2, ErrorEffect DEF HeaderDone
<1>3. CASE ch = "LF"
  <2>1. PICK f : f = {FlagOf[h] : h \in {e.header_state} \cap DOMAIN FlagOf}
    OBVIOUS
  <2>2. "TRAILING" \notin f
    BY <2>1, FlagTable
  <2>3. PICK n : n = [e EXCEPT !.state = "s_header_field_start", !.flags = e.flags \cup f]
    OBVIOUS
  <2>4. n.state = "s_header_field_start" /\ n.calls = m.calls
          /\ n.content_length = m.content_length /\ n.flags = m.flags \cup f
    BY <2>3 DEF Parsers
  <2>5. Effect(m, ch, n)
    BY <1>1, <2>2, <2>4, QuietEffect
  <2> QED BY <1>3, <2>1, <2>3, <2>5 DEF HeaderDone
<1> QED BY <1>2, <1>3

LEMMA ValueStartEffect ==
  ASSUME NEW m, NEW ch, Ready(m), m.state = "s_header_value_start"
  PROVE  Effect(m, ch, ValueStart(m, ch))
<1>1. m \in Parsers
  BY ReadyFacts
<1>2. PICK n : n = ValueStart(m, ch)
  OBVIOUS
<1>3. n.calls = m.calls
  BY <1>1, <1>2 DEF ValueStart, Error, Parsers
<1>4. "TRAILING" \in n.flags <=> "TRAILING" \in m.flags
  BY <1>1, <1>2 DEF ValueStart, Error, Parsers
<1>5. n.state \in {"s_header_value_start", "s_header_almost_done", "s_header_field_start",
                   "s_header_value", "s_dead"}
  BY <1>1, <1>2 DEF ValueStart, Error, Parsers
<1>6. n.state # "s_dead" => n.content_length = LengthAfter(m, ch)
  BY <1>1, <1>2 DEF ValueStart, Error, Parsers, LengthAfter, Digits
<1>7. n.state = "s_header_value" /\ n.header_state = "h_content_length" =>
        m.header_state = "h_content_length" /\ ch \in Digits
  BY <1>1, <1>2 DEF ValueStart, Error, Parsers
<1>8. Len(n.calls) = 1
  BY <1>3 DEF Ready
<1>9. Effect(m, ch, n)
  BY <1>3, <1>4, <1>5, <1>6, <1>7, <1>8, NoBodyEnds DEF Effect
<1> QED BY <1>2, <1>9

LEMMA HeaderValueEffect ==
  ASSUME NEW m, NEW ch, Ready(m), m.state = "s_header_value"
  PROVE  Effect(m, ch, HeaderValue(m, ch))
<1>1. m \in Parsers
  BY ReadyFacts
<1>2. m.header_state \in ValueMatches
  BY DEF Ready, Consistent, Matching
<1>3. PICK e : e = [m EXCEPT !.marks = @ \ {"header_value"}]
  OBVIOUS
<1>4. e \in Parsers /\ e.calls = m.calls /\ e.content_length = m.content_length /\ e.flags = m.flags
  BY <1>1, <1>3 DEF Parsers
<1>5. CASE ch = "LF"
  BY <1>3, <1>4, <1>5, HeaderDoneEffect DEF HeaderValue
<1>6. CASE ch # "LF"
  <2>1. PICK n : n = HeaderValue(m, ch)
    OBVIOUS
  <2>2. n.calls = m.calls /\ n.flags = m.flags
    BY <1>1, <1>6, <2>1 DEF HeaderValue, Match, Error, Parsers
  <2>3. n.state \in {"s_header_almost_done", "s_header_value", "s_dead"}
    BY <1>1, <1>6, <2>1 DEF HeaderValue, Match, Error, Parsers
  <2>4. n.state # "s_dead" => n.content_length = LengthAfter(m, ch)
    <3>1. "h_content_length" \notin DOMAIN Keyword
      BY KeywordTable
    <3> QED BY <1>1, <1>6, <2>1, <3>1 DEF HeaderValue, Match, Error, Parsers, LengthAfter, Digits
  <2>5. n.state = "s_header_value" /\ n.header_state = "h_content_length" =>
          m.header_state = "h_content_length"
    <3>1. CASE ch # "CR" /\ m.header_state \in DOMAIN Keyword
      <4>1. m.header_state \in ValueKeywords
        BY <1>2, <3>1, KeywordTable DEF ValueMatches, MatchedValues
      <4>2. HeaderValue(m, ch) = Match(m, ch)
        BY <1>6, <3>1, KeywordTable DEF HeaderValue
      <4>3. PICK h : h = Match(m, ch).header_state
        OBVIOUS
      <4>4. h = "h_general" \/ h = m.header_state \/ h = Matched[m.header_state]
        BY <1>1, <3>1, <4>3, MatchResult
      <4>5. n.header_state \in {"h_general", m.header_state} \cup MatchedValues
        BY <2>1, <4>1, <4>2, <4>3, <4>4, KeywordTable
      <4> QED BY <4>5 DEF MatchedValues
    <3>2. CASE ch = "CR" \/ m.header_state \notin DOMAIN Keyword
      BY <1>1, <1>6, <2>1, <3>2 DEF HeaderValue, Error, Parsers
    <3> QED BY <3>1, <3>2
  <2>6. Len(n.calls) = 1
    BY <2>2 DEF Ready
  <2>7. Effect(m, ch, n)
    BY <2>2, <2>3, <2>4, <2>5, <2>6, NoBodyEnds DEF Effect
  <2> QED BY <2>1, <2>7
<1> QED BY <1>5, <1>6

LEMMA ChunkEffect ==
  ASSUME NEW m, NEW ch, Ready(m), m.state \in ChunkStates \ BodyStates
  PROVE  Effect(m, ch, Chunk(m, ch))
<1>1. m \in Parsers /\ Len(m.calls) = 1
  BY ReadyFacts
<1>2. PICK n : n = Chunk(m, ch)
  OBVIOUS
<1>3. CASE m.state \in {"s_chunk_size_start", "s_chunk_size"}
  <2>1. n.calls = m.calls /\ n.flags = m.flags
          /\ n.state \in {"s_chunk_size", "s_chunk_size_almost_done", "s_chunk_parameters", "s_dead"}
    BY <1>1, <1>2, <1>3 DEF Chunk, Error, Parsers
  <2>2. n.state # "s_dead" => n.content_length = LengthAfter(m, ch)
    BY <1>1, <1>2, <1>3 DEF Chunk, Error, Parsers, LengthAfter, unhex
  <2>3. n.state = "s_chunk_size" /\ m.state # "s_chunk_size" => ch \in DOMAIN unhex
    BY <1>1, <1>2, <1>3 DEF Chunk, Error, Parsers
  <2>4. Effect(m, ch, n)
    BY <1>1, <1>3, <2>1, <2>2, <2>3, NoBodyEnds DEF Effect
  <2> QED BY <1>2, <2>4
<1>4. CASE m.state \in {"s_chunk_parameters", "s_chunk_data_almost_done", "s_chunk_data_done"}
  <2>1. n.calls = m.calls /\ n.flags = m.flags /\ n.content_length = m.content_length
          /\ n.state \notin {"s_chunk_size", "s_header_value"}
    BY <1>1, <1>2, <1>4 DEF Chunk, Error, Parsers
  <2>2. LengthAfter(m, ch) = m.content_length
    BY <1>4 DEF LengthAfter
  <2> QED BY <1>2, <2>1, <2>2, QuietEffect
<1>5. CASE m.state = "s_chunk_size_almost_done"
  <2>1. n = ChunkSizeDone(m, ch)
    BY <1>2, <1>5 DEF Chunk
  <2>2. n.calls = m.calls /\ n.content_length = m.content_length
          /\ n.state \in {"s_dead", "s_header_field_start", "s_chunk_data"}
          /\ (n.flags = m.flags \/ (n.flags = m.flags \cup {"TRAILING"} /\ m.content_length = 0))
    BY <1>1, <2>1 DEF ChunkSizeDone, Error, Parsers
  <2>3. LengthAfter(m, ch) = m.content_length
    BY <1>5 DEF LengthAfter
  <2>4. Effect(m, ch, n)
    BY <1>1, <1>5, <2>2, <2>3, NoBodyEnds DEF Effect
  <2> QED BY <1>2, <2>4
<1> QED BY <1>3, <1>4, <1>5 DEF ChunkStates, BodyStates

LEMMA HeadersDoneEffect ==
  ASSUME NEW m, NEW ch, NEW r, NEW p, Ready(m), m.state = "s_headers_almost_done",
         p.state \in {"s_header_field_start", "s_headers_almost_done"}, ch = "LF",
         p.flags = m.flags, p.content_length = m.content_length
  PROVE  Effect(p, ch, HeadersDone(m, ch, r))
<1>1. /\ m \in Parsers /\ Len(m.calls) = 1 /\ m.calls \in Seq(Callbacks)
      /\ LengthAfter(p, ch) = m.content_length
  BY ReadyFacts DEF LengthAfter
<1>2. PICK n : n = HeadersDone(m, ch, r)
  OBVIOUS
<1>3. CASE "TRAILING" \in m.flags
  <2>1. n = Complete(m)
    BY <1>2, <1>3 DEF HeadersDone
  <2>2. n.state \in StartStates \cup {"s_dead"} /\ n.calls = Append(m.calls, "message_complete")
    BY <1>1, <2>1 DEF Complete, start_state, StartStates, Parsers
  <2>3. n.calls[2] = "message_complete"
    BY <1>1, <2>2
  <2>4. Effect(p, ch, n)
    BY <1>3, <2>2, <2>3 DEF Effect
  <2> QED BY <1>2, <2>4
<1>4. CASE "TRAILING" \notin m.flags
  <2>1. m.calls[1] = "message_begin"
    BY <1>1, <1>4 DEF Ready, Consistent, Called, LastCall, StartStates, ChunkStates, BodyStates
  <2>2. PICK up : up = (m.upgrade \/ "UPGRADE" \in m.flags \/ m.method = "CONNECT")
    OBVIOUS
  <2>3. PICK c, d : c = Append(m.calls, "headers_complete") /\ d = Append(c, "message_complete")
    OBVIOUS
  <2>4. PICK k : k = [m EXCEPT !.nread = 0, !.upgrade = up, !.calls = c]
    OBVIOUS
  <2>5. k.calls = c /\ k.flags = m.flags /\ k.content_length = m.content_length
          /\ k.state = m.state
    BY <1>1, <2>4 DEF Parsers
  <2>6. \/ /\ n.calls = d
           /\ n.state \in StartStates \cup {"s_dead"} \/ n.upgrade
        \/ /\ n.calls = c /\ n.flags = m.flags /\ n.content_length = m.content_length
           /\ n.state \in {"s_chunk_size_start", "s_body_identity", "s_body_identity_eof"}
    <3>1. CASE up
      <4>1. n = [k EXCEPT !.calls = Append(@, "message_complete")]
        BY <1>2, <1>4, <2>2, <2>3, <2>4, <3>1 DEF HeadersDone
      <4> QED BY <1>1, <2>2, <2>3, <2>4, <2>5, <3>1, <4>1 DEF Parsers
    <3>2. CASE ~up /\ r = 1
      <4>1. PICK o : o = [k EXCEPT !.flags = @ \cup {"SKIPBODY"}]
        OBVIOUS
      <4>2. n = Complete(o)
        BY <1>2, <1>4, <2>2, <2>3, <2>4, <3>2, <4>1 DEF HeadersDone
      <4>3. n.calls = d /\ n.state \in StartStates \cup {"s_dead"}
        BY <1>1, <2>3, <2>4, <4>1, <4>2 DEF Complete, start_state, StartStates, Parsers
      <4> QED BY <4>3
    <3>3. CASE ~up /\ r # 1
      <4>1. \/ n = Complete(k)
            \/ \E s \in {"s_chunk_size_start", "s_body_identity", "s_body_identity_eof"} :
                 n = [k EXCEPT !.state = s]
        BY <1>2, <1>4, <2>2, <2>3, <2>4, <3>3 DEF HeadersDone
      <4>2. CASE n = Complete(k)
        <5>1. n.calls = d /\ n.state \in StartStates \cup {"s_dead"}
          BY <1>1, <2>3, <2>4, <4>2 DEF Complete, start_state, StartStates, Parsers
        <5> QED BY <5>1
      <4>3. CASE \E s \in {"s_chunk_size_start", "s_body_identity", "s_body_identity_eof"} :
                   n = [k EXCEPT !.state = s]
        BY <1>1, <2>4, <2>5, <4>3 DEF Parsers
      <4> QED BY <4>1, <4>2, <4>3
    <3> QED BY <3>1, <3>2, <3>3
  <2>7. /\ Len(c) = 2 /\ c[1] = "message_begin" /\ c[2] = "headers_complete"
        /\ Len(d) = 3 /\ d[2] = "headers_complete"
    BY <1>1, <2>1, <2>3 DEF Callbacks
  <2>8. Effect(p, ch, n)
    BY <1>1, <2>6, <2>7, NoBodyEnds DEF Effect
  <2> QED BY <1>2, <2>8
<1> QED BY <1>3, <1>4

LEMMA FieldStartEffect ==
  ASSUME NEW m, NEW ch, NEW r, Ready(m), m.state = "s_header_field_start"
  PROVE  Effect(m, ch, FieldStart(m, ch, r))
<1>1. m \in Parsers /\ LengthAfter(m, ch) = m.content_length
  BY ReadyFacts DEF LengthAfter
<1>2. CASE ch = "LF"
  <2>1. PICK k : k = [m EXCEPT !.state = "s_headers_almost_done"]
    OBVIOUS
  <2>2. k \in Parsers /\ k.state = "s_headers_almost_done" /\ k.calls = m.calls /\ k.nread = m.nread
          /\ k.upgrade = m.upgrade /\ k.flags = m.flags /\ k.marks = m.marks
          /\ k.content_length = m.content_length
    BY <1>1, <2>1 DEF Parsers, States, HeaderStates
  <2>3. Goes(m, k)
    <3>1. k.marks = {}
      BY <2>2 DEF Ready, Resumed, UrlStates
    <3> QED BY <2>2, <3>1, HeaderGoes, NothingMatched, PlainStates DEF HeaderStates
  <2>4. Ready(k)
    BY <2>2, <2>3 DEF Goes, Ready, Alive
  <2>5. Effect(m, ch, HeadersDone(k, ch, r))
    BY <1>2, <2>2, <2>4, HeadersDoneEffect
  <2> QED BY <1>2, <2>1, <2>5 DEF FieldStart
<1>3. CASE ch # "LF"
  <2>1. PICK n : n = FieldStart(m, ch, r)
    OBVIOUS
  <2>2. n.state \in {"s_headers_almost_done", "s_header_field", "s_dead"} /\ n.calls = m.calls
          /\ n.content_length = m.content_length /\ n.flags = m.flags
    BY <1>1, <1>3, <2>1 DEF FieldStart, Error, Parsers
  <2> QED BY <1>1, <2>1, <2>2, QuietEffect
<1> QED BY <1>2, <1>3

LEMMA DispatchEffect ==
  ASSUME NEW m, NEW ch, NEW r, Ready(m), m.state \notin BodyStates \cup StartStates
  PROVE  Effect(m, ch, Dispatch(m, ch, r))
<1>1. m.state \in States \ BodyStates /\ m \in Parsers
  BY DEF Ready, Parsers
<1>2. CASE m.state \in TableStates
  BY <1>2, RowEffect, DispatchParts
<1>3. CASE m.state \in ChunkStates \ BodyStates
  BY <1>3, ChunkEffect, DispatchParts
<1>4. CASE m.state \in {"s_res_or_resp_H", "s_req_method"}
  BY <1>4, LineEffect, DispatchParts
<1>5. CASE m.state \in {"s_dead", "s_body_identity_eof"}
  BY <1>1, <1>5, ErrorEffect, RowNone, DispatchParts
<1>6. CASE m.state \in {"s_header_field_start", "s_header_field"}
  BY <1>6, FieldStartEffect, FieldEffect, DispatchParts
<1>7. CASE m.state \in {"s_header_value_start", "s_header_value"}
  BY <1>7, ValueStartEffect, HeaderValueEffect, DispatchParts
<1>8. CASE m.state = "s_header_almost_done"
  BY <1>1, <1>8, HeaderDoneEffect, DispatchParts
<1>9. CASE m.state = "s_headers_almost_done" /\ ch = "LF"
  BY <1>9, HeadersDoneEffect, DispatchParts
<1>10. CASE m.state = "s_headers_almost_done" /\ ch # "LF"
  <2>1. HeadersDone(m, ch, r) = Error(m)
    BY <1>10 DEF HeadersDone
  <2> QED BY <1>1, <1>10, <2>1, ErrorEffect, DispatchParts
<1> QED BY <1>1, <1>2, <1>3, <1>4, <1>5, <1>6, <1>7, <1>8, <1>9, <1>10, StateParts

(* The start of a message forgets what was announced for the last one.     *)
LEMMA StartEffect ==
  ASSUME NEW m, NEW ch, Ready(m), m.state \in StartStates
  PROVE  LET n == Start(m, ch)
         IN  \/ n = m
             \/ /\ Len(n.calls) = 2 /\ n.calls[2] = "message_begin"
                /\ n.state \notin {"s_chunk_size", "s_header_value"}
<1>1. m \in Parsers /\ m.calls \in Seq(Callbacks) /\ Len(m.calls) = 1
  BY ReadyFacts
<1>2. PICK c : c = Append(m.calls, "message_begin")
  OBVIOUS
<1>3. Len(c) = 2 /\ c[2] = "message_begin"
  BY <1>1, <1>2
<1>4. PICK n : n = Start(m, ch)
  OBVIOUS
<1>5. PICK b : b = [m EXCEPT !.flags = {}, !.content_length = Unset, !.calls = c]
  OBVIOUS
<1>6. message_begin(m) = b
  BY <1>2, <1>5 DEF message_begin
<1>7. b.calls = c /\ b.state = m.state
  BY <1>1, <1>5 DEF Parsers
<1>8. \/ n = m
      \/ n.calls = c /\ n.state \in StartStates \cup {"s_res_H", "s_dead", "s_req_method", "s_res_or_resp_H"}
  BY <1>1, <1>4, <1>5, <1>6, <1>7 DEF Start, start_req_method_assign, Error, Parsers
<1>9. \/ n = m
      \/ /\ Len(n.calls) = 2 /\ n.calls[2] = "message_begin"
         /\ n.state \notin {"s_chunk_size", "s_header_value"}
  BY <1>3, <1>8 DEF StartStates
<1> QED BY <1>4, <1>9

(* The length and the history variable that does not wrap with it.         *)
LEMMA SmallMod ==
  ASSUME NEW x \in Nat, x < Size
  PROVE  x % Size = x
BY SizeFacts

LEMMA SaturatedLength ==
  ASSUME NEW x \in Nat
  PROVE  Saturated(x) \in {Size, x % Size} /\ Saturated(x) \in 0 .. Size
<1>1. CASE x >= Size
  BY <1>1, SizeFacts DEF Saturated
<1>2. CASE ~(x >= Size)
  <2>1. x < Size
    BY <1>2, SizeFacts
  <2>2. x % Size = x
    BY <2>1, SmallMod
  <2> QED BY <1>2, <2>1, <2>2, SizeFacts DEF Saturated
<1> QED BY <1>1, <1>2

LEMMA LengthRead ==
  /\ \A ch \in Digits : Value[ch] \in 0 .. 2
  /\ \A ch \in DOMAIN unhex : unhex[ch] \in 0 .. 14
BY DEF Value, unhex, Digits

(* The length and the history variable read the same digits.               *)
LEMMA DueRead ==
  ASSUME NEW m, Ready(m), m.state \notin StartStates \cup BodyStates, NEW ch, NEW n,
         due \in Unknown .. Size,
         due \in {Unknown, Size, IF "TRAILING" \in m.flags THEN 0 ELSE m.content_length},
         m.state = "s_chunk_size" => due # Unknown,
         m.state = "s_header_value" /\ m.header_state = "h_content_length"
            /\ "TRAILING" \notin m.flags => due # Unknown,
         ~(Len(n.calls) = 2 /\ n.calls[2] = "message_begin")
  PROVE  LET d == DueAfter(m, ch, n)
         IN  /\ d \in {Unknown, Size, IF "TRAILING" \in m.flags THEN 0 ELSE LengthAfter(m, ch)}
             /\ d \in Unknown .. Size
             /\ "TRAILING" \in m.flags => d = due
             /\ "TRAILING" \notin m.flags => 
                  /\ m.state = "s_chunk_size" => d # Unknown
                  /\ m.state = "s_chunk_size_start" /\ ch \in DOMAIN unhex => d # Unknown
                  /\ m.state = "s_header_value" /\ m.header_state = "h_content_length" => d # Unknown
                  /\ m.state = "s_header_value_start" /\ m.header_state = "h_content_length"
                       /\ ch \in Digits => d # Unknown
                  /\ m.state \notin {"s_chunk_size", "s_chunk_size_start", "s_header_value",
                                     "s_header_value_start"} => d = due
<1>1. PICK d : d = DueAfter(m, ch, n)
  OBVIOUS
<1>2. m.content_length \in Nat /\ Size \in Nat
  BY ReadyFacts, SizeFacts
<1>3. \A x \in 0 .. Size : x # Unknown /\ x \in Unknown .. Size
  BY SizeFacts DEF Unknown
<1>4. CASE "TRAILING" \in m.flags
  BY <1>1, <1>4 DEF DueAfter
<1>5. CASE "TRAILING" \notin m.flags
  <2>1. CASE m.state = "s_header_value_start" /\ m.header_state = "h_content_length" /\ ch \in Digits
    <3>1. PICK x \in Nat : x = Value[ch]
      BY <2>1, LengthRead
    <3>2. d = Saturated(x) /\ LengthAfter(m, ch) = x % Size
      BY <1>1, <1>5, <2>1, <3>1 DEF DueAfter, LengthAfter
    <3>3. d \in {Size, LengthAfter(m, ch)} /\ d \in 0 .. Size
      BY <3>1, <3>2, SaturatedLength
    <3> QED BY <1>1, <1>3, <1>5, <2>1, <3>3
  <2>2. CASE m.state = "s_chunk_size_start" /\ ch \in DOMAIN unhex
    <3>1. PICK x \in Nat : x = unhex[ch]
      BY <2>2, LengthRead
    <3>2. d = Saturated(x) /\ LengthAfter(m, ch) = x % Size
      BY <1>1, <1>5, <2>2, <3>1 DEF DueAfter, LengthAfter
    <3>3. d \in {Size, LengthAfter(m, ch)} /\ d \in 0 .. Size
      BY <3>1, <3>2, SaturatedLength
    <3> QED BY <1>1, <1>3, <1>5, <2>2, <3>3
  <2>3. CASE m.state = "s_header_value" /\ m.header_state = "h_content_length" /\ ch \in Digits
    <3>1. PICK v \in 0 .. 2 : v = Value[ch]
      BY <2>3, LengthRead
    <3>2. PICK x : x = due * 10 + v
      OBVIOUS
    <3>3. d = Saturated(x) /\ LengthAfter(m, ch) = (m.content_length * 10 + v) % Size
      BY <1>1, <1>5, <2>3, <3>1, <3>2 DEF DueAfter, LengthAfter, Decimal
    <3>4. due \in {Size, m.content_length}
      BY <1>5, <2>3
    <3>5. CASE due = m.content_length
      <4>1. x \in Nat
        BY <1>2, <3>2, <3>5
      <4>2. d \in {Size, LengthAfter(m, ch)} /\ d \in 0 .. Size
        BY <3>2, <3>3, <3>5, <4>1, SaturatedLength
      <4> QED BY <1>1, <1>3, <1>5, <2>3, <4>2
    <3>6. CASE due = Size
      <4>1. d = Size
        BY <1>2, <3>2, <3>3, <3>6 DEF Saturated
      <4>2. d \in 0 .. Size
        BY <1>2, <4>1
      <4> QED BY <1>1, <1>3, <1>5, <2>3, <4>1, <4>2
    <3> QED BY <3>4, <3>5, <3>6
  <2>4. CASE m.state = "s_chunk_size" /\ ch \in DOMAIN unhex
    <3>1. PICK v \in 0 .. 14 : v = unhex[ch]
      BY <2>4, LengthRead
    <3>2. PICK x : x = due * 16 + v
      OBVIOUS
    <3>3. d = Saturated(x) /\ LengthAfter(m, ch) = (m.content_length * 16 + v) % Size
      BY <1>1, <1>5, <2>4, <3>1, <3>2 DEF DueAfter, LengthAfter, Hex
    <3>4. due \in {Size, m.content_length}
      BY <1>5, <2>4
    <3>5. CASE due = m.content_length
      <4>1. x \in Nat
        BY <1>2, <3>2, <3>5
      <4>2. d \in {Size, LengthAfter(m, ch)} /\ d \in 0 .. Size
        BY <3>2, <3>3, <3>5, <4>1, SaturatedLength
      <4> QED BY <1>1, <1>3, <1>5, <2>4, <4>2
    <3>6. CASE due = Size
      <4>1. d = Size
        BY <1>2, <3>2, <3>3, <3>6 DEF Saturated
      <4>2. d \in 0 .. Size
        BY <1>2, <4>1
      <4> QED BY <1>1, <1>3, <1>5, <2>4, <4>1, <4>2
    <3> QED BY <3>4, <3>5, <3>6
  <2>5. CASE /\ ~(m.state = "s_header_value_start" /\ m.header_state = "h_content_length" /\ ch \in Digits)
             /\ ~(m.state = "s_chunk_size_start" /\ ch \in DOMAIN unhex)
             /\ ~(m.state = "s_header_value" /\ m.header_state = "h_content_length" /\ ch \in Digits)
             /\ ~(m.state = "s_chunk_size" /\ ch \in DOMAIN unhex)
    <3>1. d = due /\ LengthAfter(m, ch) = m.content_length
      BY <1>1, <1>5, <2>5 DEF DueAfter, LengthAfter
    <3> QED BY <1>1, <1>5, <2>5, <3>1
  <2> QED BY <2>1, <2>2, <2>3, <2>4, <2>5
<1> QED BY <1>4, <1>5

(* The history variable still fits after each character.                   *)
LEMMA DispatchAnnounced ==
  ASSUME NEW m, NEW ch, NEW r, Ready(m), m.state \notin BodyStates, Announced(m, due)
  PROVE  Announced(Dispatch(m, ch, r), DueAfter(m, ch, Dispatch(m, ch, r)))
<1>1. PICK n : n = Dispatch(m, ch, r)
  OBVIOUS
<1>2. PICK d : d = DueAfter(m, ch, n)
  OBVIOUS
<1>3. due \in Unknown .. Size /\ Unknown \in Unknown .. Size
  BY SizeFacts DEF Announced, Unknown
<1>4. Alive(m) /\ Len(m.calls) = 1
  BY DEF Ready
<1>5. CASE m.state \in StartStates
  <2>1. n = Start(m, ch)
    BY <1>1, <1>5, DispatchParts
  <2>2. CASE n = m
    <3>1. d = due \/ d = Unknown
      <4>1. ch \notin {} /\ m.state \notin {"s_header_value_start", "s_header_value", "s_chunk_size_start", "s_chunk_size"}
        BY <1>5 DEF StartStates
      <4> QED BY <1>2, <4>1 DEF DueAfter
    <3>2. ~BodyEnds(m.calls)
      BY <1>4, NoBodyEnds
    <3>3. Announced(n, d)
      BY <1>3, <1>5, <2>2, <3>1, <3>2 DEF Announced
    <3> QED BY <1>1, <1>2, <3>3
  <2>3. CASE /\ Len(n.calls) = 2 /\ n.calls[2] = "message_begin"
             /\ n.state \notin {"s_chunk_size", "s_header_value"}
    <3>1. d = Unknown
      BY <1>2, <2>3 DEF DueAfter
    <3>2. ~BodyEnds(n.calls)
      BY <2>3, NoBodyEnds
    <3>3. Announced(n, d)
      BY <1>3, <2>3, <3>1, <3>2 DEF Announced
    <3> QED BY <1>1, <1>2, <3>3
  <2> QED BY <1>5, <2>1, <2>2, <2>3, StartEffect
<1>6. CASE m.state \notin StartStates
  <2>1. Effect(m, ch, n)
    BY <1>1, <1>6, DispatchEffect
  <2>2. /\ due \in {Unknown, Size, IF "TRAILING" \in m.flags THEN 0 ELSE m.content_length}
        /\ m.state = "s_chunk_size" => due # Unknown
        /\ m.state = "s_header_value" /\ m.header_state = "h_content_length"
            /\ "TRAILING" \notin m.flags => due # Unknown
    BY <1>4, <1>6 DEF Announced
  <2>3. ~(Len(n.calls) = 2 /\ n.calls[2] = "message_begin")
    BY <2>1 DEF Effect
  <2>4. /\ d \in {Unknown, Size, IF "TRAILING" \in m.flags THEN 0 ELSE LengthAfter(m, ch)}
        /\ d \in Unknown .. Size
        /\ "TRAILING" \in m.flags => d = due
        /\ "TRAILING" \notin m.flags => 
             /\ m.state = "s_chunk_size" => d # Unknown
             /\ m.state = "s_chunk_size_start" /\ ch \in DOMAIN unhex => d # Unknown
             /\ m.state = "s_header_value" /\ m.header_state = "h_content_length" => d # Unknown
             /\ m.state = "s_header_value_start" /\ m.header_state = "h_content_length"
                  /\ ch \in Digits => d # Unknown
             /\ m.state \notin {"s_chunk_size", "s_chunk_size_start", "s_header_value",
                                "s_header_value_start"} => d = due
    BY <1>2, <1>3, <1>6, <2>2, <2>3, DueRead
  <2>5. BodyEnds(n.calls) => d \in {Unknown, Size, 0}
    BY <2>1, <2>4 DEF Effect
  <2>6. ASSUME Alive(n), n.state \notin StartStates
        PROVE  /\ d \in {Unknown, Size, IF "TRAILING" \in n.flags THEN 0 ELSE n.content_length}
               /\ n.state = "s_chunk_size" => d # Unknown
               /\ n.state = "s_header_value" /\ n.header_state = "h_content_length"
                    /\ "TRAILING" \notin n.flags => d # Unknown
    <3>1. /\ n.content_length = LengthAfter(m, ch)
          /\ \/ "TRAILING" \in n.flags <=> "TRAILING" \in m.flags
             \/ /\ "TRAILING" \in n.flags /\ m.content_length = 0
                /\ m.state = "s_chunk_size_almost_done"
          /\ n.state = "s_chunk_size" =>
               \/ m.state = "s_chunk_size"
               \/ m.state = "s_chunk_size_start" /\ ch \in DOMAIN unhex
          /\ n.state = "s_header_value" /\ n.header_state = "h_content_length" =>
               /\ m.header_state = "h_content_length"
               /\ \/ m.state = "s_header_value"
                  \/ m.state = "s_header_value_start" /\ ch \in Digits
      BY <2>1, <2>6 DEF Effect, Alive
    <3>2. m.state \in ChunkStates => "TRAILING" \notin m.flags
      BY DEF Ready, Consistent, Framed
    <3>3. n.state = "s_chunk_size" => d # Unknown
      BY <2>4, <3>1, <3>2 DEF ChunkStates
    <3>4. d \in {Unknown, Size, IF "TRAILING" \in n.flags THEN 0 ELSE n.content_length}
      <4>1. CASE "TRAILING" \in n.flags <=> "TRAILING" \in m.flags
        BY <2>4, <3>1, <4>1
      <4>2. CASE "TRAILING" \in n.flags /\ m.content_length = 0 /\ m.state = "s_chunk_size_almost_done"
        <5>1. LengthAfter(m, ch) = 0
          BY <4>2 DEF LengthAfter
        <5> QED BY <2>4, <4>2, <5>1
      <4> QED BY <3>1, <4>1, <4>2
    <3>5. n.state = "s_header_value" /\ n.header_state = "h_content_length"
            /\ "TRAILING" \notin n.flags => d # Unknown
      BY <2>4, <3>1
    <3> QED BY <3>3, <3>4, <3>5
  <2>7. Announced(n, d)
    BY <2>4, <2>5, <2>6 DEF Announced
  <2> QED BY <1>1, <1>2, <2>7
<1> QED BY <1>5, <1>6

(* The invariant as a predicate of the values of the variables.            *)
Entering(c, p) == IF c = "idle" THEN [p EXCEPT !.marks = Resumed(p.state)] ELSE p
Inv(c, p, w, d) ==
  /\ c \in {"idle", "running", "dead", "upgraded", "overflow", "halted"}
  /\ p \in Parsers /\ w \in Parsers /\ w.nread = 0
  /\ p.nread <= Limit /\ (c = "idle" => p.nread < Byte /\ p.index < Byte)
  /\ c \in {"idle", "running"} => Alive(p)
  /\ Alive(p) => Consistent(p)
  /\ p.upgrade => p.state \in {"s_headers_almost_done", "s_dead"}
  /\ c = "running" => p.marks = Resumed(p.state)
  /\ p.state = "s_chunk_size_start" => p.nread = 0
  /\ Ordered(p.calls)
  /\ Announced(p, d)
  /\ c \notin {"overflow", "halted"} => SameRun(Entering(c, p), w)

(* ParserInv is Inv of the variables.                                      *)
LEMMA InvOf ==
  /\ ParserInv <=> Inv(call, parser, whole, due)
  /\ ParserInv' <=> Inv(call', parser', whole', due')
BY DEF ParserInv, Inv, Ordered, CallbacksInOrder, Entered, Entering

(* Entering a call sets the marks and nothing else.                        *)
LEMMA EnteringFacts ==
  ASSUME NEW c, NEW p \in Parsers
  PROVE  LET m == Entering(c, p)
         IN  /\ m \in Parsers /\ m.type = p.type /\ m.state = p.state
             /\ m.header_state = p.header_state /\ m.index = p.index /\ m.nread = p.nread
             /\ m.flags = p.flags /\ m.content_length = p.content_length
             /\ m.method = p.method /\ m.upgrade = p.upgrade /\ m.calls = p.calls
             /\ m.major = p.major /\ m.minor = p.minor
             /\ c = "idle" => m.marks = Resumed(p.state)
             /\ c # "idle" => m = p
<1>1. PICK k : k = Resumed(p.state)
  OBVIOUS
<1>2. k \in SUBSET Strings
  BY <1>1 DEF Resumed, Strings
<1>3. PICK m : m = [p EXCEPT !.marks = k]
  OBVIOUS
<1>4. /\ m \in Parsers /\ m.type = p.type /\ m.state = p.state
      /\ m.header_state = p.header_state /\ m.index = p.index /\ m.nread = p.nread
      /\ m.flags = p.flags /\ m.content_length = p.content_length
      /\ m.method = p.method /\ m.upgrade = p.upgrade /\ m.calls = p.calls /\ m.marks = k
      /\ m.major = p.major /\ m.minor = p.minor
  BY <1>2, <1>3 DEF Parsers
<1>5. CASE c = "idle"
  <2>1. Entering(c, p) = m
    BY <1>1, <1>3, <1>5 DEF Entering
  <2> QED BY <1>1, <1>4, <1>5, <2>1
<1>6. CASE c # "idle"
  BY <1>6 DEF Entering
<1> QED BY <1>5, <1>6

(* Consistency is a matter of a few fields.                                *)
LEMMA ConsistentSame ==
  ASSUME NEW p \in Parsers, NEW m \in Parsers, Consistent(p),
         m.state = p.state, m.header_state = p.header_state, m.index = p.index,
         m.nread = p.nread, m.flags = p.flags, m.method = p.method, m.calls = p.calls
  PROVE  Consistent(m)
<1>1. Matching(m)
  BY DEF Consistent, Matching
<1>2. Called(m)
  BY DEF Consistent, Called, LastCall
<1>3. Framed(m)
  BY DEF Consistent, Framed
<1> QED BY <1>1, <1>2, <1>3 DEF Consistent

(* The parser at the first character of a call, or at the next one.        *)
LEMMA EnteredWaits ==
  ASSUME NEW c \in {"idle", "running"}, NEW p, NEW w, NEW d, Inv(c, p, w, d)
  PROVE  Waiting(Entering(c, p)) /\ Announced(Entering(c, p), d)
<1>1. PICK m : m = Entering(c, p)
  OBVIOUS
<1>2. /\ m \in Parsers /\ m.type = p.type /\ m.state = p.state
      /\ m.header_state = p.header_state /\ m.index = p.index /\ m.nread = p.nread
      /\ m.flags = p.flags /\ m.content_length = p.content_length
      /\ m.method = p.method /\ m.upgrade = p.upgrade /\ m.calls = p.calls
      /\ m.marks = Resumed(m.state)
  BY <1>1, EnteringFacts DEF Inv
<1>3. Alive(m) /\ Consistent(m)
  BY <1>2, ConsistentSame DEF Inv, Alive
<1>4. Announced(m, d)
  BY <1>2 DEF Inv, Announced, Alive
<1>5. Waiting(m)
  BY <1>2, <1>3 DEF Waiting, Inv, Ordered
<1> QED BY <1>1, <1>4, <1>5

(* The parser of the whole stream goes on where the other one does.        *)
LEMMA WaitingSame ==
  ASSUME NEW m, NEW w \in Parsers, Waiting(m), SameRun(m, w), w.nread = 0
  PROVE  Waiting(w)
<1>1. /\ m \in Parsers /\ Alive(m) /\ Consistent(m) /\ m.marks = Resumed(m.state)
      /\ Len(m.calls) >= 1
  BY DEF Waiting
<1>2. /\ w.state = m.state /\ w.flags = m.flags /\ w.upgrade = m.upgrade
      /\ w.method = m.method /\ w.marks = m.marks /\ w.calls = m.calls
      /\ m.state \in {"s_header_field", "s_header_value"} => m.header_state = w.header_state
      /\ Counted(m) => m.index = w.index
  BY DEF SameRun
<1>3. Matching(w)
  BY <1>1, <1>2 DEF Consistent, Matching, Counted
<1>4. Called(w)
  BY <1>1, <1>2 DEF Consistent, Called, LastCall
<1>5. Framed(w)
  BY <1>1, <1>2 DEF Consistent, Framed
<1> QED BY <1>1, <1>2, <1>3, <1>4, <1>5 DEF Waiting, Consistent, Alive

(* What ends a call writes back changes nothing of a keyword's index and   *)
(* lets nread only shrink.                                                 *)
LEMMA SavedNumbers ==
  ASSUME NEW x \in Nat
  PROVE  x % Byte \in 0 .. Byte - 1 /\ x % Byte <= x /\ (x <= 3 => x % Byte = x)
<1>1. Byte \in Nat /\ Byte > 3
  BY HttpParserAssumption
<1> QED BY <1>1

(* Only the end of the headers upgrades a parser.                          *)
Upgrades(m, n) == n.upgrade => m.upgrade \/ n.state \in {"s_headers_almost_done", "s_dead"}

(* No part of the switch but the end of the headers touches upgrade.       *)
LEMMA RowUpgrade ==
  ASSUME NEW m \in Parsers, NEW ch, m.state \in TableStates
  PROVE  Upgrades(m, Row(m, ch))
<1>1. Upgrades(m, Error(m))
  BY DEF Upgrades, Error, Parsers
<1>2. CASE ~Taken(m.state, ch)
  BY <1>1, <1>2, RowRefused
<1>3. CASE Taken(m.state, ch)
  <2>1. PICK t : t = RowOf(m.state, ch)[3]
    OBVIOUS
  <2>2. PICK k : k = MarksTo(m, t)
    OBVIOUS
  <2>3. \/ Row(m, ch) = Error(m)
        \/ \E a, b, c : Row(m, ch) = RowTo(m, t, k, a, b, c)
    <3>1. CASE ch \in Digits /\ m.state \in DOMAIN First
      BY <1>3, <2>1, <2>2, <3>1, RowFirst, DigitTables
    <3>2. CASE ch \in Digits /\ m.state \in DOMAIN Further
      BY <1>3, <2>1, <2>2, <3>2, RowFurther, DigitTables
    <3>3. CASE ch \notin Digits \/ m.state \notin DOMAIN First \cup DOMAIN Further
      BY <1>3, <2>1, <2>2, <3>3, RowElse
    <3> QED BY <3>1, <3>2, <3>3
  <2>4. ASSUME NEW a, NEW b, NEW c
        PROVE  Upgrades(m, RowTo(m, t, k, a, b, c))
    <3>1. PICK n : n = RowTo(m, t, k, a, b, c)
      OBVIOUS
    <3>2. n.upgrade = m.upgrade
      BY <3>1 DEF RowTo, Parsers
    <3>3. Upgrades(m, n)
      BY <3>2 DEF Upgrades
    <3> QED BY <3>1, <3>3
  <2> QED BY <1>1, <2>3, <2>4, Zenon
<1> QED BY <1>2, <1>3

LEMMA LineUpgrade ==
  ASSUME NEW m \in Parsers, NEW ch
  PROVE  Upgrades(m, Start(m, ch)) /\ Upgrades(m, ReqOrRes(m, ch)) /\ Upgrades(m, Method(m, ch))
<1>1. Upgrades(m, Start(m, ch))
  <2>1. PICK c : c = Append(m.calls, "message_begin")
    OBVIOUS
  <2>2. PICK b : b = [m EXCEPT !.flags = {}, !.content_length = Unset, !.calls = c]
    OBVIOUS
  <2>3. message_begin(m) = b
    BY <2>1, <2>2 DEF message_begin
  <2>4. Start(m, ch).upgrade = m.upgrade
    BY <2>2, <2>3 DEF Start, start_req_method_assign, Error, Parsers
  <2> QED BY <2>4 DEF Upgrades
<1>2. Upgrades(m, ReqOrRes(m, ch))
  <2>1. ReqOrRes(m, ch).upgrade = m.upgrade
    BY DEF ReqOrRes, Error, Parsers
  <2> QED BY <2>1 DEF Upgrades
<1>3. Upgrades(m, Method(m, ch))
  <2>1. PICK w : w = method_strings[m.method]
    OBVIOUS
  <2>2. PICK on : on = [m EXCEPT !.index = @ + 1]
    OBVIOUS
  <2>3. on.upgrade = m.upgrade /\ on.state = m.state
    BY <2>2 DEF Parsers
  <2>4. Method(m, ch) \in {[on EXCEPT !.state = "s_req_spaces_before_url"], on, Error(m),
                           [on EXCEPT !.method = "COPY"]}
    BY <2>1, <2>2 DEF Method
  <2>5. Method(m, ch).upgrade = m.upgrade
    BY <2>2, <2>3, <2>4 DEF Error, Parsers
  <2> QED BY <2>5 DEF Upgrades
<1> QED BY <1>1, <1>2, <1>3

LEMMA MatchUpgrade ==
  ASSUME NEW m \in Parsers, NEW ch PROVE Match(m, ch).upgrade = m.upgrade
BY DEF Match, Parsers

LEMMA HeaderUpgrade ==
  ASSUME NEW m \in Parsers, NEW ch
  PROVE  /\ Upgrades(m, Field(m, ch)) /\ Upgrades(m, ValueStart(m, ch))
         /\ Upgrades(m, HeaderValue(m, ch)) /\ Upgrades(m, HeaderDone(m, ch))
<1>1. Upgrades(m, Field(m, ch))
  <2>1. FieldToken(m, ch).upgrade = m.upgrade
    BY MatchUpgrade DEF FieldToken, NextIn, Parsers
  <2>2. Field(m, ch).upgrade = m.upgrade
    BY <2>1 DEF Field, Error, Parsers
  <2> QED BY <2>2 DEF Upgrades
<1>2. Upgrades(m, ValueStart(m, ch))
  <2>1. ValueStart(m, ch).upgrade = m.upgrade
    BY DEF ValueStart, Error, Parsers
  <2> QED BY <2>1 DEF Upgrades
<1>3. ASSUME NEW n \in Parsers
      PROVE  HeaderDone(n, ch).upgrade = n.upgrade
  BY DEF HeaderDone, Error, Parsers
<1>4. Upgrades(m, HeaderValue(m, ch))
  <2>1. PICK e : e = [m EXCEPT !.marks = @ \ {"header_value"}]
    OBVIOUS
  <2>2. e \in Parsers /\ e.upgrade = m.upgrade
    BY <2>1 DEF Parsers
  <2>3. HeaderDone(e, ch).upgrade = m.upgrade
    BY <1>3, <2>2
  <2>4. \/ HeaderValue(m, ch) \in {[e EXCEPT !.state = "s_header_almost_done"], m, Error(m),
                                  [m EXCEPT !.header_state = "h_general"]}
        \/ HeaderValue(m, ch) = HeaderDone(e, ch) \/ HeaderValue(m, ch) = Match(m, ch)
        \/ \E l : HeaderValue(m, ch) = [m EXCEPT !.content_length = l]
    BY <2>1 DEF HeaderValue
  <2>5. HeaderValue(m, ch).upgrade = m.upgrade
    <3>1. [e EXCEPT !.state = "s_header_almost_done"].upgrade = m.upgrade
      BY <2>2 DEF Parsers
    <3>2. Error(m).upgrade = m.upgrade
      BY DEF Error, Parsers
    <3>3. [m EXCEPT !.header_state = "h_general"].upgrade = m.upgrade
      BY DEF Parsers
    <3>4. \A l : [m EXCEPT !.content_length = l].upgrade = m.upgrade
      BY DEF Parsers
    <3>5. Match(m, ch).upgrade = m.upgrade
      BY MatchUpgrade
    <3>6. CASE HeaderValue(m, ch) = HeaderDone(e, ch)
      BY <2>2, <2>3, <3>6
    <3>7. CASE HeaderValue(m, ch) = Match(m, ch)
      BY <3>5, <3>7
    <3>8. CASE HeaderValue(m, ch) \in {[e EXCEPT !.state = "s_header_almost_done"], m, Error(m),
                                      [m EXCEPT !.header_state = "h_general"]}
      BY <3>1, <3>2, <3>3, <3>8
    <3>9. CASE \E l : HeaderValue(m, ch) = [m EXCEPT !.content_length = l]
      BY <3>4, <3>9
    <3> QED BY <2>4, <3>6, <3>7, <3>8, <3>9
  <2> QED BY <2>5 DEF Upgrades
<1>5. Upgrades(m, HeaderDone(m, ch))
  BY <1>3 DEF Upgrades
<1> QED BY <1>1, <1>2, <1>4, <1>5

LEMMA ChunkUpgrade ==
  ASSUME NEW m \in Parsers, NEW ch, m.state \in ChunkStates \ BodyStates
  PROVE  Upgrades(m, Chunk(m, ch))
<1>1. Chunk(m, ch).upgrade = m.upgrade
  BY DEF Chunk, ChunkSizeDone, ChunkStates, BodyStates, Error, Parsers
<1> QED BY <1>1 DEF Upgrades

LEMMA HeadersUpgrade ==
  ASSUME NEW m \in Parsers, NEW ch, NEW r, m.state = "s_headers_almost_done", ~m.upgrade
  PROVE  Upgrades(m, HeadersDone(m, ch, r))
<1>1. ASSUME NEW k, k.upgrade = FALSE, DOMAIN k = DOMAIN m
      PROVE  Complete(k).upgrade = FALSE
  BY <1>1 DEF Complete, Parsers
<1>2. PICK up : up = (m.upgrade \/ "UPGRADE" \in m.flags \/ m.method = "CONNECT")
  OBVIOUS
<1>3. PICK c : c = Append(m.calls, "headers_complete")
  OBVIOUS
<1>4. PICK k : k = [m EXCEPT !.nread = 0, !.upgrade = up, !.calls = c]
  OBVIOUS
<1>5. k.upgrade = up /\ k.state = m.state /\ DOMAIN k = DOMAIN m
  BY <1>4 DEF Parsers
<1>6. PICK n : n = HeadersDone(m, ch, r)
  OBVIOUS
<1>7. CASE ch # "LF" \/ "TRAILING" \in m.flags
  <2>1. n = Error(m) \/ n = Complete(m)
    BY <1>6, <1>7 DEF HeadersDone
  <2>2. Complete(m).upgrade = m.upgrade /\ Error(m).upgrade = m.upgrade
    BY DEF Complete, Error, Parsers
  <2>3. Upgrades(m, n)
    BY <2>1, <2>2 DEF Upgrades
  <2> QED BY <1>6, <2>3
<1>8. CASE ~(ch # "LF" \/ "TRAILING" \in m.flags) /\ up
  <2>1. n = [k EXCEPT !.calls = Append(@, "message_complete")]
    BY <1>2, <1>3, <1>4, <1>6, <1>8 DEF HeadersDone
  <2>2. n.state = "s_headers_almost_done"
    BY <1>4, <1>5, <2>1 DEF Parsers
  <2>3. Upgrades(m, n)
    BY <2>2 DEF Upgrades
  <2> QED BY <1>6, <2>3
<1>9. CASE ~(ch # "LF" \/ "TRAILING" \in m.flags) /\ ~up
  <2>1. PICK o : o = [k EXCEPT !.flags = @ \cup {"SKIPBODY"}]
    OBVIOUS
  <2>2. \/ n = Complete(o) \/ n = Complete(k)
        \/ \E s : n = [k EXCEPT !.state = s]
    BY <1>2, <1>3, <1>4, <1>6, <1>9, <2>1 DEF HeadersDone
  <2>3. ~n.upgrade
    BY <1>4, <1>5, <1>9, <2>1, <2>2 DEF Complete, Parsers
  <2>4. Upgrades(m, n)
    BY <2>3 DEF Upgrades
  <2> QED BY <1>6, <2>4
<1> QED BY <1>7, <1>8, <1>9

LEMMA FieldStartUpgrade ==
  ASSUME NEW m \in Parsers, NEW ch, NEW r, ~m.upgrade
  PROVE  Upgrades(m, FieldStart(m, ch, r))
<1>1. CASE ch = "LF"
  <2>1. PICK k : k = [m EXCEPT !.state = "s_headers_almost_done"]
    OBVIOUS
  <2>2. k \in Parsers /\ k.state = "s_headers_almost_done" /\ ~k.upgrade
    BY <2>1 DEF Parsers, States, HeaderStates
  <2>3. Upgrades(k, HeadersDone(k, ch, r))
    BY <2>2, HeadersUpgrade
  <2>4. FieldStart(m, ch, r) = HeadersDone(k, ch, r)
    BY <1>1, <2>1 DEF FieldStart
  <2> QED BY <2>2, <2>3, <2>4 DEF Upgrades
<1>2. CASE ch # "LF"
  <2>1. FieldStart(m, ch, r).upgrade = m.upgrade
    BY <1>2 DEF FieldStart, Error, Parsers
  <2> QED BY <2>1 DEF Upgrades
<1> QED BY <1>1, <1>2

(* A parser that has just upgraded stands at the end of its headers.       *)
LEMMA DispatchUpgrade ==
  ASSUME NEW m \in Parsers, NEW ch, NEW r, m.state \notin BodyStates, ~m.upgrade
  PROVE  Upgrades(m, Dispatch(m, ch, r))
<1>1. m.state \in States \ BodyStates
  BY DEF Parsers
<1>2. CASE m.state \in StartStates
  BY <1>2, LineUpgrade, DispatchParts
<1>3. CASE m.state \in TableStates
  BY <1>3, RowUpgrade, DispatchParts
<1>4. CASE m.state \in ChunkStates \ BodyStates
  BY <1>4, ChunkUpgrade, DispatchParts
<1>5. CASE m.state \in {"s_res_or_resp_H", "s_req_method"}
  BY <1>5, LineUpgrade, DispatchParts
<1>6. CASE m.state \in {"s_dead", "s_body_identity_eof"}
  <2>1. Error(m).upgrade = m.upgrade
    BY DEF Error, Parsers
  <2> QED BY <1>6, <2>1, RowNone, DispatchParts DEF Upgrades
<1>7. CASE m.state \in {"s_header_field_start", "s_header_field", "s_header_value_start",
                        "s_header_value", "s_header_almost_done", "s_headers_almost_done"}
  BY <1>7, FieldStartUpgrade, HeaderUpgrade, HeadersUpgrade, DispatchParts
<1> QED BY <1>1, <1>2, <1>3, <1>4, <1>5, <1>6, <1>7, StateParts

LEMMA StepUpgrade ==
  ASSUME NEW m, NEW ch, NEW r, Waiting(m), m.state \notin BodyStates
  PROVE  LET n == Step(m, ch, r)
         IN  n.upgrade => n.state \in {"s_headers_almost_done", "s_dead"}
<1>1. PICK x, c : x = Count(m) /\ c = LastOf(m.calls)
  OBVIOUS
<1>2. PICK k : k = [m EXCEPT !.nread = x, !.calls = c]
  OBVIOUS
<1>3. x \in Nat /\ c \in Seq(Callbacks)
  <2>1. m.calls \in Seq(Callbacks) /\ Len(m.calls) >= 1 /\ m.nread \in Nat
    BY DEF Waiting, Parsers
  <2>2. m.calls[Len(m.calls)] \in Callbacks
    BY <2>1
  <2> QED BY <1>1, <2>1, <2>2 DEF Count, LastOf
<1>4. k \in Parsers /\ ~k.upgrade /\ k.state = m.state
  BY <1>2, <1>3 DEF Waiting, Parsers, Alive
<1>5. Upgrades(k, Dispatch(k, ch, r))
  BY <1>4, DispatchUpgrade
<1> QED BY <1>1, <1>2, <1>4, <1>5 DEF Upgrades, Step

(* Where the index matters it is smaller than any value of a byte it could *)
(* be cut to.                                                              *)
LEMMA SmallIndex ==
  ASSUME NEW p \in Parsers, Matching(p), Counted(p)
  PROVE  p.index <= 3
<1>1. p.index \in Nat /\ p.method \in DOMAIN method_strings
  BY DEF Parsers
<1>2. CASE p.state = "s_req_method"
  <2>1. PICK l : l = Len(method_strings[p.method])
    OBVIOUS
  <2>2. l \in {2, 3} /\ p.index <= l
    BY <1>1, <1>2, <2>1, MethodLengths DEF Matching
  <2> QED BY <1>1, <2>2
<1>3. CASE p.state = "s_header_field" /\ p.header_state \in {"h_C", "h_CON"}
  BY <1>1, <1>3 DEF Matching
<1>4. CASE p.state \in {"s_header_field", "s_header_value"} /\ p.header_state \in DOMAIN Keyword
  <2>1. PICK l : l = Len(Keyword[p.header_state])
    OBVIOUS
  <2>2. l \in 2 .. 4 /\ p.index < l
    BY <1>4, <2>1, KeywordLengths DEF Matching
  <2> QED BY <1>1, <2>2
<1> QED BY <1>2, <1>3, <1>4 DEF Counted

LEMMA NumbersTyped ==
  ASSUME NEW p \in Parsers, NEW x \in Nat, NEW y \in Nat
  PROVE  [p EXCEPT !.index = x, !.nread = y] \in Parsers
BY DEF Parsers

LEMMA MarksTyped ==
  ASSUME NEW p \in Parsers, NEW k \in SUBSET Strings
  PROVE  [p EXCEPT !.marks = k] \in Parsers
BY DEF Parsers

(* What a call writes back at the end of its buffer is enough to go on     *)
(* from in the next call.                                                  *)
LEMMA SavedGoesOn ==
  ASSUME NEW p \in Parsers, NEW w \in Parsers, NEW d, NEW q,
         Alive(p), Consistent(p), p.marks = Resumed(p.state), p.nread <= Limit,
         p.state = "s_chunk_size_start" => p.nread = 0,
         Ordered(p.calls), Announced(p, d), SameRun(p, w), w.nread = 0,
         NEW k \in SUBSET Strings, q = [Save(p) EXCEPT !.marks = k]
  PROVE  Inv("idle", q, w, d)
<1>1. PICK x, y : x = p.index % Byte /\ y = p.nread % Byte
  OBVIOUS
<1>2. /\ x \in 0 .. Byte - 1 /\ y \in 0 .. Byte - 1 /\ y <= p.nread
      /\ p.index <= 3 => x = p.index
      /\ Byte \in Nat /\ p.nread \in Nat /\ p.index \in Nat /\ Limit \in Nat
  <2>1. p.nread \in Nat /\ p.index \in Nat
    BY DEF Parsers
  <2> QED BY <1>1, <2>1, SavedNumbers, HttpParserAssumption
<1>3. q = [p EXCEPT !.index = x, !.nread = y, !.marks = k]
  <2>1. PICK j : j = [p EXCEPT !.index = x, !.nread = y]
    OBVIOUS
  <2>2. Save(p) = j
    BY <1>1, <2>1 DEF Save
  <2>3. [j EXCEPT !.marks = k] = [p EXCEPT !.index = x, !.nread = y, !.marks = k]
    BY <2>1
  <2> QED BY <2>2, <2>3
<1>4. /\ q \in Parsers /\ q.type = p.type /\ q.state = p.state
      /\ q.header_state = p.header_state /\ q.index = x /\ q.nread = y
      /\ q.flags = p.flags /\ q.content_length = p.content_length /\ q.major = p.major
      /\ q.minor = p.minor /\ q.status = p.status
      /\ q.method = p.method /\ q.upgrade = p.upgrade /\ q.calls = p.calls
  <2>1. x \in Nat /\ y \in Nat /\ k \subseteq Strings
    BY <1>2
  <2>2. PICK j : j = [p EXCEPT !.index = x, !.nread = y]
    OBVIOUS
  <2>3. j \in Parsers
    BY <2>1, <2>2, NumbersTyped
  <2>4. q = [j EXCEPT !.marks = k]
    BY <1>3, <2>2
  <2>5. q \in Parsers
    BY <2>3, <2>4, MarksTyped
  <2>6. /\ q.type = p.type /\ q.state = p.state /\ q.header_state = p.header_state
        /\ q.index = x /\ q.nread = y /\ q.flags = p.flags
        /\ q.content_length = p.content_length /\ q.major = p.major /\ q.minor = p.minor
        /\ q.status = p.status /\ q.method = p.method /\ q.upgrade = p.upgrade
        /\ q.calls = p.calls
    BY <1>3 DEF Parsers
  <2> QED BY <2>5, <2>6
<1>5. PICK m : m = Entering("idle", q)
  OBVIOUS
<1>6. /\ m \in Parsers /\ m.type = p.type /\ m.state = p.state
      /\ m.header_state = p.header_state /\ m.index = x /\ m.nread = y
      /\ m.flags = p.flags /\ m.content_length = p.content_length /\ m.major = p.major
      /\ m.minor = p.minor /\ m.status = p.status
      /\ m.method = p.method /\ m.upgrade = p.upgrade /\ m.calls = p.calls
      /\ m.marks = p.marks
  <2>1. PICK j : j = Resumed(q.state)
    OBVIOUS
  <2>2. j = p.marks /\ j \in SUBSET Strings
    BY <1>4, <2>1 DEF Parsers
  <2>3. m = [q EXCEPT !.marks = j]
    BY <1>5, <2>1 DEF Entering
  <2>4. m \in Parsers
    BY <1>4, <2>2, <2>3 DEF Parsers
  <2>5. /\ m.type = q.type /\ m.state = q.state /\ m.header_state = q.header_state
        /\ m.index = q.index /\ m.nread = q.nread /\ m.flags = q.flags
        /\ m.content_length = q.content_length /\ m.major = q.major /\ m.minor = q.minor
        /\ m.status = q.status /\ m.method = q.method /\ m.upgrade = q.upgrade
        /\ m.calls = q.calls /\ m.marks = j
    BY <1>4, <2>3 DEF Parsers
  <2> QED BY <1>4, <2>2, <2>4, <2>5
<1>7. Counted(p) => x = p.index
  BY <1>2, SmallIndex DEF Consistent
<1>8. SameRun(m, w)
  <2>1. /\ p.type = w.type /\ p.state = w.state /\ p.flags = w.flags
        /\ p.upgrade = w.upgrade /\ p.method = w.method
        /\ p.marks = w.marks /\ p.calls = w.calls
        /\ p.state \notin StartStates => p.content_length = w.content_length
        /\ p.state \in {"s_header_field", "s_header_value_start", "s_header_value",
                        "s_header_almost_done"} => p.header_state = w.header_state
        /\ Counted(p) => p.index = w.index
        /\ p.state \in MajorKnown => p.major = w.major
        /\ p.state \in MinorKnown => p.minor = w.minor
        /\ p.state = "s_res_status_code" => p.status = w.status
    BY DEF SameRun
  <2>2. Counted(m) <=> Counted(p)
    BY <1>6 DEF Counted
  <2> QED BY <1>6, <1>7, <2>1, <2>2 DEF SameRun
<1>9. Alive(q)
  BY <1>4 DEF Alive
<1>10. Consistent(q)
  <2>1. Matching(p) /\ Called(p) /\ Framed(p)
    BY DEF Consistent
  <2>2. Matching(q)
    <3>1. Counted(p) => q.index = p.index
      BY <1>4, <1>7
    <3> QED BY <1>4, <2>1, <3>1 DEF Matching, Counted
  <2>3. Called(q)
    BY <1>4, <2>1 DEF Called, LastCall
  <2>4. p.nread = 0 => y = 0
    BY <1>2
  <2>5. Framed(q)
    BY <1>4, <2>1, <2>4 DEF Framed
  <2> QED BY <2>2, <2>3, <2>5 DEF Consistent
<1>11. y <= Limit /\ y < Byte /\ x < Byte /\ (p.nread = 0 => y = 0)
  BY <1>2
<1>12. Announced(q, d)
  BY <1>4 DEF Announced, Alive
<1> QED BY <1>4, <1>5, <1>8, <1>9, <1>10, <1>11, <1>12 DEF Inv, Alive

(* One lemma per action: it preserves the invariant.                       *)
LEMMA ReturnKeepsInv ==
  ASSUME ParserInv, Return
  PROVE  ParserInv'
<1>1. Inv("running", parser, whole, due)
  BY InvOf DEF Return
<1>2. Entering("running", parser) = parser
  BY DEF Entering
<1>3. {} \in SUBSET Strings
  OBVIOUS
<1>4. Inv("idle", [Save(parser) EXCEPT !.marks = {}], whole, due)
  BY <1>1, <1>2, <1>3, SavedGoesOn DEF Inv
<1> QED BY <1>4, InvOf DEF Return

LEMMA HaltKeepsInv ==
  ASSUME ParserInv, NEW ch, Halt(ch)
  PROVE  ParserInv'
<1>1. Inv(call, parser, whole, due)
  BY InvOf
<1>2. Inv("halted", parser, whole, due)
  BY <1>1 DEF Inv
<1> QED BY <1>2, InvOf DEF Halt

LEMMA RefuseKeepsInv ==
  ASSUME ParserInv, Refuse
  PROVE  ParserInv'
<1>1. Inv(call, parser, whole, due) /\ call \in {"idle", "running"}
  BY InvOf DEF Refuse
<1>2. PICK m : m = Entered
  OBVIOUS
<1>3. m = Entering(call, parser)
  BY <1>2 DEF Entered, Entering
<1>4. Waiting(m) /\ Announced(m, due)
  BY <1>1, <1>3, EnteredWaits
<1>5. m \in Parsers /\ m.nread = parser.nread /\ m.calls = parser.calls
  BY <1>1, <1>3, EnteringFacts DEF Inv
<1>6. PICK n : n = Error(m)
  OBVIOUS
<1>7. n \in Parsers /\ n.state = "s_dead" /\ n.nread = m.nread /\ n.calls = m.calls
  BY <1>5, <1>6, PlainStates DEF Error, Parsers, Plain
<1>8. Announced(n, due) /\ ~Alive(n)
  BY <1>4, <1>7 DEF Announced, Alive
<1>9. Inv("overflow", n, whole, due)
  BY <1>1, <1>5, <1>7, <1>8 DEF Inv
<1> QED BY <1>2, <1>6, <1>9, InvOf DEF Refuse

(* The history variable after a step of the loop.                          *)
LEMMA StepAnnounced ==
  ASSUME NEW m, NEW ch, NEW r, Waiting(m), m.state \notin BodyStates, Announced(m, due)
  PROVE  Announced(Step(m, ch, r), DueAfter(m, ch, Step(m, ch, r)))
<1>1. PICK n : n = [m EXCEPT !.nread = Count(m), !.calls = LastOf(@)]
  OBVIOUS
<1>2. Ready(n)
  <2>1. Count(m) \in Nat
    BY DEF Count, Waiting, Parsers
  <2>2. m.state \in {"s_chunk_data", "s_chunk_data_almost_done", "s_chunk_data_done"} => Count(m) = 0
    BY DEF Waiting, Consistent, Framed, Count, PARSING_HEADER, BodyStates
  <2> QED BY <1>1, <2>1, <2>2, WaitingReady
<1>3. /\ n.state = m.state /\ n.header_state = m.header_state /\ n.flags = m.flags
      /\ n.upgrade = m.upgrade /\ n.content_length = m.content_length
  BY <1>1 DEF Waiting, Parsers
<1>4. Len(n.calls) = 1
  BY <1>2 DEF Ready
<1>5. ~BodyEnds(n.calls)
  BY <1>4, NoBodyEnds
<1>6. Announced(n, due)
  BY <1>3, <1>5 DEF Announced, Alive
<1>7. PICK x : x = Dispatch(n, ch, r) /\ x = Step(m, ch, r)
  BY <1>1 DEF Step
<1>8. Announced(x, DueAfter(n, ch, x))
  BY <1>2, <1>3, <1>6, <1>7, DispatchAnnounced
<1>9. DueAfter(n, ch, x) = DueAfter(m, ch, x)
  BY <1>3 DEF DueAfter
<1> QED BY <1>7, <1>8, <1>9

(* What two parsers of one stream have in common, where MethodBound and    *)
(* BodyStates look at it; nread is not part of it.                         *)
LEMMA SameRunParts ==
  ASSUME NEW m, NEW w, SameRun(m, w)
  PROVE  /\ m.state = w.state /\ m.method = w.method /\ m.calls = w.calls
         /\ m.state = "s_req_method" => m.index = w.index
BY DEF SameRun, Counted

LEMMA SameRunCounts ==
  ASSUME NEW m, NEW w \in Parsers, SameRun(m, w), NEW v, v = [w EXCEPT !.nread = 0]
  PROVE  SameRun(m, v) /\ v \in Parsers /\ v.nread = 0
<1>1. /\ v \in Parsers /\ v.nread = 0 /\ v.type = w.type /\ v.state = w.state
      /\ v.header_state = w.header_state /\ v.index = w.index /\ v.flags = w.flags
      /\ v.content_length = w.content_length /\ v.major = w.major /\ v.minor = w.minor
      /\ v.status = w.status /\ v.method = w.method /\ v.upgrade = w.upgrade
      /\ v.marks = w.marks /\ v.calls = w.calls
  BY DEF Parsers
<1> QED BY <1>1 DEF SameRun

(* One character: the parser goes on as Goes says, the parser of the whole *)
(* stream does the same, and they still agree.                             *)
LEMMA CharacterKeepsInv ==
  ASSUME ParserInv, NEW ch, NEW r, Character(ch, r)
  PROVE  ParserInv'
<1>1. Inv(call, parser, whole, due) /\ call \in {"idle", "running"}
  BY InvOf DEF Character
<1>2. PICK m : m = Entered
  OBVIOUS
<1>3. m = Entering(call, parser)
  BY <1>2 DEF Entered, Entering
<1>4. Waiting(m) /\ Announced(m, due) /\ SameRun(m, whole) /\ whole \in Parsers /\ whole.nread = 0
  BY <1>1, <1>3, EnteredWaits DEF Inv
<1>5. Waiting(whole) /\ m \in Parsers /\ Len(m.calls) >= 1
  BY <1>4, WaitingSame DEF Waiting
<1>6. m.state \notin BodyStates /\ m.state = parser.state /\ m.index = parser.index
        /\ m.method = parser.method
  BY <1>1, <1>3, EnteringFacts DEF Inv, Character
<1>7. /\ m.state = "s_req_method" /\ m.method = "CONNECT" =>
           m.index < Len(method_strings.CONNECT) \/ ch = "SP"
      /\ whole.state = "s_req_method" /\ whole.method = "CONNECT" =>
           whole.index < Len(method_strings.CONNECT) \/ ch = "SP"
      /\ whole.state \notin BodyStates
  BY <1>4, <1>6, SameRunParts DEF Character, MethodBound
<1>8. PICK p, v, w : p = Step(m, ch, r) /\ v = Step(whole, ch, r) /\ w = [v EXCEPT !.nread = 0]
  OBVIOUS
<1>9. PICK n : n = [m EXCEPT !.nread = Count(m), !.calls = LastOf(@)]
  OBVIOUS
<1>10. Goes(n, p) /\ n.nread = Count(m)
  BY <1>4, <1>5, <1>6, <1>7, <1>8, <1>9, StepGoes DEF Parsers
<1>11. v \in Parsers
  BY <1>5, <1>7, <1>8, StepGoes DEF Goes
<1>12. SameRun(p, v)
  BY <1>4, <1>5, <1>6, <1>8, StepSame
<1>13. SameRun(p, w) /\ w \in Parsers /\ w.nread = 0
  BY <1>8, <1>11, <1>12, SameRunCounts
<1>14. PICK c : c = IF p.state = "s_dead" THEN "dead" ELSE IF p.upgrade THEN "upgraded" ELSE "running"
  OBVIOUS
<1>15. PICK d : d = DueAfter(m, ch, p)
  OBVIOUS
<1>16. parser' = p /\ whole' = w /\ call' = c /\ due' = d
  BY <1>2, <1>8, <1>14, <1>15 DEF Character, Whole
<1>17. Announced(p, d)
  BY <1>4, <1>6, <1>8, <1>15, StepAnnounced
<1>18. p.nread <= Limit
  <2>1. Count(m) <= Limit
    BY <1>2 DEF Character
  <2> QED BY <1>10, <2>1, HttpParserAssumption DEF Goes
<1>19. c \in {"dead", "upgraded", "running"} /\ (c = "running" => Alive(p))
  <2>1. CASE p.state = "s_dead" \/ p.upgrade
    BY <1>14, <2>1
  <2>2. CASE ~(p.state = "s_dead" \/ p.upgrade)
    BY <1>14, <2>2 DEF Alive
  <2> QED BY <2>1, <2>2
<1>20. Entering(c, p) = p
  BY <1>19 DEF Entering
<1>21. p.upgrade => p.state \in {"s_headers_almost_done", "s_dead"}
  BY <1>4, <1>6, <1>8, StepUpgrade
<1>22. Inv(c, p, w, d)
  BY <1>10, <1>13, <1>17, <1>18, <1>19, <1>20, <1>21 DEF Inv, Goes
<1> QED BY <1>16, <1>22, InvOf

(* The bytes of a body are taken off what is due.                          *)
LEMMA BodyAnnounced ==
  ASSUME NEW m, Ready(m), m.state \in BodyStates, NEW d, Announced(m, d),
         NEW k \in 1 .. m.content_length
  PROVE  Announced(Body(m, k), IF d \in {Unknown, Size} THEN d ELSE d - k)
<1>1. /\ m \in Parsers /\ Len(m.calls) = 1 /\ m.calls \in Seq(Callbacks)
      /\ m.content_length \in 0 .. Size - 1 /\ Size \in Nat /\ ~m.upgrade
  BY ReadyFacts, SizeFacts
<1>2. "TRAILING" \notin m.flags /\ Alive(m)
  BY DEF Ready, Consistent, Framed
<1>3. d \in {Unknown, Size, m.content_length} /\ d \in Unknown .. Size
  BY <1>2 DEF Announced, BodyStates, StartStates
<1>4. PICK e : e = IF d \in {Unknown, Size} THEN d ELSE d - k
  OBVIOUS
<1>5. PICK l : l = m.content_length - k
  OBVIOUS
<1>6. /\ l \in 0 .. Size - 1 /\ e \in {Unknown, Size, l} /\ e \in Unknown .. Size
      /\ ~(k < m.content_length) => l = 0
  BY <1>1, <1>3, <1>4, <1>5 DEF Unknown
<1>7. PICK c : c = Append(m.calls, "body")
  OBVIOUS
<1>8. ~BodyEnds(c)
  <2>1. Len(c) = 2 /\ c[2] = "body"
    BY <1>1, <1>7
  <2> QED BY <2>1, NoBodyEnds
<1>9. PICK on : on = [m EXCEPT !.content_length = l, !.calls = c]
  OBVIOUS
<1>10. /\ on.state = m.state /\ on.flags = m.flags /\ on.content_length = l /\ on.calls = c
       /\ on.upgrade = m.upgrade
  BY <1>1, <1>9 DEF Parsers
<1>11. PICK n : n = Body(m, k)
  OBVIOUS
<1>12. CASE k < m.content_length
  <2>1. n = on
    BY <1>1, <1>5, <1>7, <1>9, <1>11, <1>12 DEF Body, Parsers
  <2>2. Announced(n, e)
    BY <1>2, <1>6, <1>8, <1>10, <2>1 DEF Announced, BodyStates
  <2> QED BY <1>4, <1>11, <2>2
<1>13. CASE ~(k < m.content_length) /\ m.state = "s_chunk_data"
  <2>1. n = [on EXCEPT !.state = "s_chunk_data_almost_done"]
    BY <1>1, <1>5, <1>7, <1>9, <1>11, <1>13 DEF Body, Parsers
  <2>2. /\ n.state = "s_chunk_data_almost_done" /\ n.flags = m.flags
        /\ n.content_length = l /\ n.calls = c
    BY <1>1, <1>9, <2>1 DEF Parsers
  <2>3. Announced(n, e)
    BY <1>2, <1>6, <1>8, <2>2 DEF Announced
  <2> QED BY <1>4, <1>11, <2>3
<1>14. CASE ~(k < m.content_length) /\ m.state # "s_chunk_data"
  <2>1. n = Complete(on)
    BY <1>1, <1>5, <1>7, <1>9, <1>11, <1>14 DEF Body, Parsers
  <2>2. n.state \in StartStates \cup {"s_dead"}
    BY <1>1, <1>9, <2>1 DEF Complete, start_state, StartStates, Parsers
  <2>3. Announced(n, e)
    BY <1>6, <1>14, <2>2 DEF Announced, Alive
  <2> QED BY <1>4, <1>11, <2>3
<1> QED BY <1>12, <1>13, <1>14

(* A step begins by forgetting all callbacks but the last one.             *)
LEMMA LastReady ==
  ASSUME NEW m, Waiting(m), m.state \in BodyStates, NEW n, n = [m EXCEPT !.calls = LastOf(@)]
  PROVE  /\ Ready(n) /\ n.content_length = m.content_length /\ n.state = m.state
         /\ n.flags = m.flags /\ n.nread = m.nread /\ n.header_state = m.header_state
         /\ n.upgrade = m.upgrade
<1>1. m \in Parsers /\ m.nread \in Nat
  BY DEF Waiting, Parsers
<1>2. m.state \in {"s_chunk_data", "s_chunk_data_almost_done", "s_chunk_data_done"} => m.nread = 0
  BY DEF Waiting, Consistent, Framed
<1>3. n = [m EXCEPT !.nread = m.nread, !.calls = LastOf(@)]
  BY <1>1 DEF Parsers
<1>4. Ready(n)
  BY <1>1, <1>2, <1>3, WaitingReady
<1> QED BY <1>1, <1>4 DEF Parsers

LEMMA LastSame ==
  ASSUME NEW m \in Parsers, NEW w \in Parsers, SameRun(m, w)
  PROVE  SameRun([m EXCEPT !.calls = LastOf(@)], [w EXCEPT !.calls = LastOf(@)])
<1>1. PICK c : c = LastOf(m.calls) /\ c = LastOf(w.calls)
  BY DEF SameRun
<1>2. PICK n, v : n = [m EXCEPT !.calls = c] /\ v = [w EXCEPT !.calls = c]
  OBVIOUS
<1>3. /\ n.type = m.type /\ n.state = m.state /\ n.header_state = m.header_state
      /\ n.index = m.index /\ n.flags = m.flags /\ n.content_length = m.content_length
      /\ n.major = m.major /\ n.minor = m.minor /\ n.status = m.status /\ n.method = m.method
      /\ n.upgrade = m.upgrade /\ n.marks = m.marks /\ n.calls = c
  BY <1>2 DEF Parsers
<1>4. /\ v.type = w.type /\ v.state = w.state /\ v.header_state = w.header_state
      /\ v.index = w.index /\ v.flags = w.flags /\ v.content_length = w.content_length
      /\ v.major = w.major /\ v.minor = w.minor /\ v.status = w.status /\ v.method = w.method
      /\ v.upgrade = w.upgrade /\ v.marks = w.marks /\ v.calls = c
  BY <1>2 DEF Parsers
<1>5. SameRun(n, v)
  BY <1>3, <1>4 DEF SameRun, Counted
<1> QED BY <1>1, <1>2, <1>5

(* A piece of a body, whether it ends the buffer or the body.              *)
LEMMA BodyKeepsInv ==
  ASSUME ParserInv, NEW n, BodyBytes(n)
  PROVE  ParserInv'
<1>1. Inv(call, parser, whole, due) /\ call \in {"idle", "running"}
  BY InvOf DEF BodyBytes
<1>2. PICK m : m = Entered
  OBVIOUS
<1>3. m = Entering(call, parser)
  BY <1>2 DEF Entered, Entering
<1>4. Waiting(m) /\ Announced(m, due) /\ SameRun(m, whole) /\ whole \in Parsers /\ whole.nread = 0
  BY <1>1, <1>3, EnteredWaits DEF Inv
<1>5. Waiting(whole) /\ m \in Parsers /\ Len(m.calls) >= 1
  BY <1>4, WaitingSame DEF Waiting
<1>6. /\ m.state \in BodyStates /\ m.content_length = parser.content_length
      /\ m.nread = parser.nread
  BY <1>1, <1>3, EnteringFacts DEF Inv, BodyBytes
<1>7. PICK k, v : k = [m EXCEPT !.calls = LastOf(@)] /\ v = [whole EXCEPT !.calls = LastOf(@)]
  OBVIOUS
<1>8. /\ Ready(k) /\ k.state \in BodyStates /\ k.content_length = m.content_length
      /\ k.nread = parser.nread /\ k.flags = m.flags /\ k.upgrade = m.upgrade /\ k.state = m.state
      /\ k.header_state = m.header_state
  BY <1>4, <1>6, <1>7, LastReady
<1>9. whole.state \in BodyStates /\ SameRun(k, v)
  BY <1>4, <1>5, <1>6, <1>7, LastSame, SameRunParts
<1>10. Ready(v) /\ v.state \in BodyStates /\ v.nread = 0
  BY <1>4, <1>5, <1>7, <1>9, LastReady
<1>11. v.content_length = k.content_length
  BY <1>8, <1>9 DEF SameRun, BodyStates, StartStates
<1>12. n \in 1 .. k.content_length /\ n \in 1 .. v.content_length
  BY <1>6, <1>8, <1>11 DEF BodyBytes
<1>13. PICK a, w : a = Body(k, n) /\ w = Body(v, n)
  OBVIOUS
<1>14. Goes(k, a) /\ Goes(v, w)
  BY <1>8, <1>10, <1>12, <1>13, BodyGoes
<1>15. w \in Parsers /\ w.nread = 0 /\ a \in Parsers
  BY <1>10, <1>14 DEF Goes
<1>16. SameRun(a, w)
  BY <1>8, <1>9, <1>10, <1>12, <1>13, BodySame DEF Ready
<1>17. PICK d : d = IF due \in {Unknown, Size} THEN due ELSE due - n
  OBVIOUS
<1>18. Announced(a, d)
  <2>1. ~BodyEnds(k.calls)
    BY <1>8, NoBodyEnds DEF Ready
  <2>2. Announced(k, due)
    BY <1>4, <1>8, <2>1 DEF Announced, Alive
  <2> QED BY <1>8, <1>12, <1>13, <1>17, <2>2, BodyAnnounced
<1>19. a.nread <= Limit
  BY <1>1, <1>8, <1>14, HttpParserAssumption DEF Goes, Inv
<1>20. whole' = w /\ due' = d
  BY <1>7, <1>13, <1>17 DEF BodyBytes
<1>21. CASE n < parser.content_length
  <2>1. parser' = Save(a) /\ call' = "idle"
    BY <1>2, <1>7, <1>13, <1>21 DEF BodyBytes
  <2>2. Alive(a)
    <3>1. a.state = k.state /\ a.upgrade = k.upgrade
      BY <1>6, <1>8, <1>13, <1>21 DEF Body, Ready, Parsers
    <3> QED BY <1>8, <3>1 DEF Ready, Alive
  <2>3. Save(a) = [Save(a) EXCEPT !.marks = a.marks] /\ a.marks \in SUBSET Strings
    BY <1>15 DEF Save, Parsers
  <2>4. Inv("idle", Save(a), w, d)
    BY <1>14, <1>15, <1>16, <1>18, <1>19, <2>2, <2>3, SavedGoesOn DEF Goes
  <2> QED BY <1>20, <2>1, <2>4, InvOf
<1>22. CASE ~(n < parser.content_length)
  <2>1. PICK c : c = IF a.state = "s_dead" THEN "dead" ELSE "running"
    OBVIOUS
  <2>2. parser' = a /\ call' = c
    BY <1>2, <1>7, <1>13, <1>22, <2>1 DEF BodyBytes
  <2>3. ~a.upgrade /\ (c = "running" => Alive(a))
    <3>1. a.upgrade = k.upgrade
      BY <1>8, <1>13 DEF Body, Complete, Ready, Parsers
    <3>2. ~a.upgrade
      BY <1>8, <3>1 DEF Ready, Alive
    <3> QED BY <2>1, <3>2 DEF Alive
  <2>4. c \in {"dead", "running"} /\ Entering(c, a) = a
    BY <2>1 DEF Entering
  <2>5. Inv(c, a, w, d)
    BY <1>14, <1>15, <1>16, <1>18, <1>19, <2>3, <2>4 DEF Inv, Goes
  <2> QED BY <1>20, <2>2, <2>5, InvOf
<1> QED BY <1>21, <1>22

(* The callback before the first one.                                      *)
LEMMA NoneCalled ==
  LET c == <<"none">>
  IN  c \in Seq(Callbacks) /\ Len(c) = 1 /\ c[Len(c)] = "none"
<1>1. "none" \in Callbacks
  BY DEF Callbacks
<1> QED BY <1>1

(* http_parser_init() on any struct gives a parser that satisfies the      *)
(* invariant, together with the one it gives on a struct of zeros.         *)
LEMMA Begins ==
  ASSUME NEW m \in Parsers, NEW w \in Parsers, NEW t \in Types, m.index < Byte, w.index < Byte
  PROVE  Inv("idle", http_parser_init(m, t), [http_parser_init(w, t) EXCEPT !.nread = 0], Unknown)
<1>1. t \in {"REQUEST", "RESPONSE", "BOTH"} /\ Limit \in Nat /\ Byte \in Nat /\ Byte > 3
  BY HttpParserAssumption
<1>2. PICK c : c = <<"none">>
  OBVIOUS
<1>3. c \in Seq(Callbacks) /\ Len(c) = 1 /\ c[Len(c)] = "none"
  BY <1>2, NoneCalled
<1>4. PICK s : s = IF t = "BOTH" THEN "s_start_req_or_res" ELSE start_state(t)
  OBVIOUS
<1>5. s \in StartStates
  BY <1>4 DEF start_state, StartStates
<1>6. s \in States /\ "other" \in DOMAIN method_strings
  BY <1>5, MethodTable DEF States
<1>7. ASSUME NEW p \in Parsers, NEW n,
             n = [p EXCEPT !.type = t, !.nread = 0, !.upgrade = FALSE, !.flags = {},
                           !.method = "other", !.marks = {}, !.calls = c, !.state = s]
      PROVE  /\ n \in Parsers /\ n.type = t /\ n.nread = 0 /\ n.upgrade = FALSE
             /\ n.flags = {} /\ n.method = "other" /\ n.marks = {} /\ n.calls = c
             /\ n.state = s /\ n.index = p.index
  BY <1>1, <1>3, <1>6, <1>7 DEF Parsers
<1>8. PICK n, v : n = http_parser_init(m, t) /\ v = [http_parser_init(w, t) EXCEPT !.nread = 0]
  OBVIOUS
<1>9. /\ n = [m EXCEPT !.type = t, !.nread = 0, !.upgrade = FALSE, !.flags = {},
                       !.method = "other", !.marks = {}, !.calls = c, !.state = s]
      /\ v = [w EXCEPT !.type = t, !.nread = 0, !.upgrade = FALSE, !.flags = {},
                       !.method = "other", !.marks = {}, !.calls = c, !.state = s]
  <2>1. n = [m EXCEPT !.type = t, !.nread = 0, !.upgrade = FALSE, !.flags = {},
                      !.method = "other", !.marks = {}, !.calls = c, !.state = s]
    BY <1>2, <1>4, <1>8 DEF http_parser_init
  <2>2. http_parser_init(w, t)
          = [w EXCEPT !.type = t, !.nread = 0, !.upgrade = FALSE, !.flags = {},
                      !.method = "other", !.marks = {}, !.calls = c, !.state = s]
    BY <1>2, <1>4 DEF http_parser_init
  <2> QED BY <1>8, <2>1, <2>2 DEF Parsers
<1>10. /\ n \in Parsers /\ n.type = t /\ n.nread = 0 /\ n.upgrade = FALSE
       /\ n.flags = {} /\ n.method = "other" /\ n.marks = {} /\ n.calls = c
       /\ n.state = s /\ n.index = m.index
  BY <1>7, <1>9
<1>11. /\ v \in Parsers /\ v.type = t /\ v.nread = 0 /\ v.upgrade = FALSE
       /\ v.flags = {} /\ v.method = "other" /\ v.marks = {} /\ v.calls = c /\ v.state = s
  BY <1>7, <1>9
<1>12. PICK e : e = Entering("idle", n)
  OBVIOUS
<1>13. /\ e \in Parsers /\ e.type = t /\ e.state = s /\ e.flags = {} /\ e.method = "other"
       /\ e.upgrade = FALSE /\ e.calls = c /\ e.marks = Resumed(s)
  BY <1>10, <1>12, EnteringFacts
<1>14. Resumed(s) = {}
  BY <1>5 DEF Resumed, StartStates, UrlStates
<1>15. SameRun(e, v)
  <2>1. s \notin MajorKnown \cup MinorKnown \cup {"s_header_field", "s_header_value_start",
              "s_header_value", "s_header_almost_done", "s_res_status_code", "s_req_method"}
    BY <1>5 DEF MajorKnown, MinorKnown, StartStates, ResponseStates, HeaderStates, ChunkStates,
                BodyStates
  <2> QED BY <1>5, <1>11, <1>13, <1>14, <2>1 DEF SameRun, Counted
<1>16. Consistent(n)
  <2>1. Matching(n)
    BY <1>5, <1>10 DEF Matching, StartStates
  <2>2. Called(n)
    BY <1>3, <1>5, <1>10 DEF Called, LastCall, StartStates
  <2>3. Framed(n)
    BY <1>5, <1>10 DEF Framed, StartStates, ChunkStates, BodyStates
  <2> QED BY <2>1, <2>2, <2>3 DEF Consistent
<1>17. Announced(n, Unknown)
  <2>1. ~BodyEnds(c)
    BY <1>3, NoBodyEnds
  <2>2. Unknown \in Unknown .. Size
    BY SizeFacts DEF Unknown
  <2> QED BY <1>5, <1>10, <2>1, <2>2 DEF Announced
<1>18. Ordered(c)
  BY <1>3, OneCall
<1>19. Alive(n)
  BY <1>5, <1>10 DEF Alive, StartStates
<1>20. n.nread <= Limit /\ n.nread < Byte /\ n.index < Byte
  BY <1>1, <1>10
<1>21. Inv("idle", n, v, Unknown)
  BY <1>10, <1>11, <1>12, <1>15, <1>16, <1>17, <1>18, <1>19, <1>20 DEF Inv
<1> QED BY <1>8, <1>21

(* The struct the first connection of a slot starts with.                  *)
LEMMA ZeroedParser ==
  Zeroed \in Parsers /\ Zeroed.index < Byte
<1>1. PICK c : c = <<"none">>
  OBVIOUS
<1>2. c \in Seq(Callbacks)
  BY <1>1, NoneCalled
<1>3. "other" \in DOMAIN method_strings /\ "s_start_req" \in States
        /\ "h_general" \in FieldMatches \cup ValueMatches
  BY MethodTable DEF States, StartStates, FieldMatches
<1>4. 0 \in 0 .. Size - 1 /\ 0 \in 0 .. MaxDigits /\ 0 < Byte /\ {} \in SUBSET Flags
        /\ {} \in SUBSET Strings
  BY SizeFacts, HttpParserAssumption
<1> QED BY <1>1, <1>2, <1>3, <1>4 DEF Zeroed, Parsers

LEMMA Reset ==
  ASSUME NEW t \in Types
  PROVE  http_parser_init(Zeroed, t) = [http_parser_init(Zeroed, t) EXCEPT !.nread = 0]
<1>1. PICK z, c, s : /\ z = Zeroed /\ c = <<"none">>
                     /\ s = IF t = "BOTH" THEN "s_start_req_or_res" ELSE start_state(t)
  OBVIOUS
<1>2. PICK n : n = [z EXCEPT !.type = t, !.nread = 0, !.upgrade = FALSE, !.flags = {},
                            !.method = "other", !.marks = {}, !.calls = c, !.state = s]
  OBVIOUS
<1>3. http_parser_init(Zeroed, t) = n
  BY <1>1, <1>2 DEF http_parser_init
<1>4. n = [n EXCEPT !.nread = 0]
  BY <1>2
<1> QED BY <1>3, <1>4

(* The initial states, the struct set up again, and no step at all.        *)
LEMMA InitEstablishesInv == ASSUME Init PROVE ParserInv
<1>1. PICK t \in Types : parser = http_parser_init(Zeroed, t)
  BY DEF Init
<1>2. Inv("idle", parser, parser, Unknown)
  BY <1>1, Begins, ZeroedParser, Reset
<1> QED BY <1>2, InvOf DEF Init

LEMMA InitializeKeepsInv ==
  ASSUME ParserInv, NEW t \in Types, Initialize(t)
  PROVE  ParserInv'
<1>1. parser \in Parsers
  BY DEF ParserInv
<1>2. PICK x, y : x = parser.index % Byte /\ y = parser.nread % Byte
  OBVIOUS
<1>3. x \in 0 .. Byte - 1 /\ y \in 0 .. Byte - 1
  BY <1>1, <1>2, SavedNumbers DEF Parsers
<1>4. PICK s : s = Save(parser)
  OBVIOUS
<1>5. s = [parser EXCEPT !.index = x, !.nread = y]
  BY <1>1, <1>2, <1>4 DEF Save, Parsers
<1>6. s \in Parsers /\ s.index < Byte
  <2>1. x \in Nat /\ y \in Nat /\ x < Byte
    BY <1>3, HttpParserAssumption
  <2> QED BY <1>1, <1>5, <2>1 DEF Parsers
<1>7. Inv("idle", http_parser_init(s, t), http_parser_init(Zeroed, t), Unknown)
  BY <1>6, Begins, ZeroedParser, Reset
<1> QED BY <1>4, <1>7, InvOf DEF Initialize

LEMMA StutterKeepsInv ==
  ASSUME ParserInv, UNCHANGED vars
  PROVE  ParserInv'
BY InvOf DEF vars

(* The inductive invariant: at every step of the loop of                   *)
(* http_parser_execute() the fields of struct http_parser fit its state,   *)
(* it stands where one call on the whole stream would stand, and the       *)
(* history variable knows the length still due.                            *)
THEOREM ParserInvariant == Spec => []ParserInv
<1>1. Init => ParserInv
  BY InitEstablishesInv
<1>2. ASSUME ParserInv, [Next]_vars
      PROVE  ParserInv'
  <2>1. CASE \E t \in Types : Initialize(t)
    BY <1>2, <2>1, InitializeKeepsInv
  <2>2. CASE Refuse
    BY <1>2, <2>2, RefuseKeepsInv
  <2>3. CASE \E ch \in Chars : \E r \in HeaderResults : Character(ch, r)
    BY <1>2, <2>3, CharacterKeepsInv
  <2>4. CASE \E ch \in Chars : Halt(ch)
    BY <1>2, <2>4, HaltKeepsInv
  <2>5. CASE Return
    BY <1>2, <2>5, ReturnKeepsInv
  <2>6. CASE \E n \in 1 .. Size : BodyBytes(n)
    BY <1>2, <2>6, BodyKeepsInv
  <2>7. CASE UNCHANGED vars
    BY <1>2, <2>7, StutterKeepsInv
  <2> QED BY <1>2, <2>1, <2>2, <2>3, <2>4, <2>5, <2>6, <2>7 DEF Next
<1> QED BY <1>1, <1>2, PTL DEF Spec

(* However the stream is cut into calls, and whatever struct               *)
(* http_parser_init() was given, http_parser_execute() reaches the state   *)
(* of one call on the whole stream and makes the same callbacks on the     *)
(* way: for every size of the limits, every alphabet and every stream.     *)
THEOREM AnyCutSameParse == Spec => []CutsDoNotMatter
<1>1. ASSUME ParserInv PROVE CutsDoNotMatter
  <2>1. CASE call \in {"overflow", "halted"}
    BY <2>1 DEF CutsDoNotMatter
  <2>2. CASE call \notin {"overflow", "halted"}
    <3>1. PICK m : m = Entering(call, parser)
      OBVIOUS
    <3>2. SameRun(m, whole) /\ parser \in Parsers
      BY <1>1, <2>2, <3>1, InvOf DEF Inv
    <3>3. /\ m.type = parser.type /\ m.state = parser.state
          /\ m.header_state = parser.header_state /\ m.index = parser.index
          /\ m.flags = parser.flags /\ m.content_length = parser.content_length
          /\ m.method = parser.method /\ m.upgrade = parser.upgrade /\ m.calls = parser.calls
          /\ m.major = parser.major /\ m.minor = parser.minor
      BY <3>1, <3>2, EnteringFacts
    <3>4. m.state \in HeaderStates \cup ChunkStates \cup BodyStates =>
            m.state \in MajorKnown /\ m.state \in MinorKnown
      BY DEF MajorKnown, MinorKnown, HeaderStates, ChunkStates, BodyStates
    <3>5. SameState(parser, whole)
      BY <3>2, <3>3, <3>4 DEF SameRun, SameState, Counted
    <3> QED BY <3>5 DEF CutsDoNotMatter
  <2> QED BY <2>1, <2>2
<1> QED BY <1>1, ParserInvariant, PTL

(* http_parser_execute() has a mark for a URL, path, query, fragment,      *)
(* header field or value in exactly the calls and states that are inside   *)
(* that string, so that its data callback gets each byte once.             *)
THEOREM PiecesCover == Spec => []PiecesCoverStrings
<1>1. ASSUME ParserInv PROVE PiecesCoverStrings
  BY <1>1 DEF ParserInv, PiecesCoverStrings, Entered, SameRun
<1> QED BY <1>1, ParserInvariant, PTL

(* on_body hands over as many bytes as Content-Length or the chunk sizes   *)
(* announce, for lengths of any number of digits and bodies cut anywhere,  *)
(* and a message with a body ends when nothing is due any more.            *)
THEOREM BodyExact == Spec => []BodyAsAnnounced
<1>1. ASSUME ParserInv PROVE BodyAsAnnounced
  <2>1. ASSUME call \in {"idle", "running"}, parser.state \in BodyStates
        PROVE  due \in {Unknown, Size, parser.content_length}
    <3>1. Alive(parser) /\ Framed(parser) /\ Announced(parser, due)
      BY <1>1, <2>1 DEF ParserInv, Consistent
    <3> QED BY <2>1, <3>1 DEF Announced, Framed, BodyStates, StartStates
  <2>2. BodyEnds(parser.calls) => due \in {Unknown, Size, 0}
    BY <1>1 DEF ParserInv, Announced
  <2> QED BY <2>1, <2>2 DEF BodyAsAnnounced
<1> QED BY <1>1, ParserInvariant, PTL

(* The notification callbacks and on_body come in the order a consumer     *)
(* relies on, over all messages of a connection and over the reuse of the  *)
(* struct.                                                                 *)
THEOREM CallbackOrder == Spec => []CallbacksInOrder
<1>1. ParserInv => CallbacksInOrder
  BY DEF ParserInv
<1> QED BY <1>1, ParserInvariant, PTL

(* No assert() of http_parser_execute() fails: the header_state fits the   *)
(* state wherever the switch asserts it, nread is zero where a chunk       *)
(* begins, and chunks are parsed only in a chunked message.                *)
THEOREM NoAssertionFails == Spec => []AssertionsHold
<1>1. ASSUME ParserInv PROVE AssertionsHold
  <2>1. CASE call \in {"idle", "running"}
    <3>1. /\ Matching(parser) /\ Framed(parser)
          /\ parser.state = "s_chunk_size_start" => parser.nread = 0
      BY <1>1, <2>1 DEF ParserInv, Consistent
    <3>2. parser.state = "s_header_field" => parser.header_state \in FieldMatches
      BY <3>1 DEF Matching
    <3>3. parser.state = "s_header_value" => parser.header_state \in ValueMatches
      BY <3>1 DEF Matching
    <3>4. "h_connection" \notin ValueMatches /\ "h_transfer_encoding" \notin ValueMatches
      BY KeywordTable DEF ValueMatches, MatchedValues
    <3> QED BY <3>1, <3>2, <3>3, <3>4 DEF AssertionsHold, FieldMatches, FieldKeywords, Framed
  <2>2. CASE call \notin {"idle", "running"}
    BY <2>2 DEF AssertionsHold
  <2> QED BY <2>1, <2>2
<1> QED BY <1>1, ParserInvariant, PTL

(* The fields stay in the width of their C types, the keyword index stays  *)
(* inside its keyword (so that no comparison reads past a string literal)  *)
(* and nread within HTTP_MAX_HEADER_SIZE.                                  *)
THEOREM ParserTypes == Spec => []TypeOK
<1>1. ASSUME ParserInv PROVE TypeOK
  <2>1. parser \in Parsers /\ parser.nread <= Limit
    BY <1>1 DEF ParserInv
  <2>2. parser.nread \in 0 .. Limit + 1
    BY <2>1, HttpParserAssumption DEF Parsers
  <2>3. parser.header_state \in DOMAIN Keyword /\ parser.state = "s_header_field" =>
          parser.index < Len(Keyword[parser.header_state])
    <3>1. CASE Alive(parser)
      BY <1>1, <3>1 DEF ParserInv, Consistent, Matching
    <3>2. CASE ~Alive(parser)
      BY <1>1, <3>2 DEF ParserInv, Alive
    <3> QED BY <3>1, <3>2
  <2>4. due \in Unknown .. Size
    BY <1>1 DEF ParserInv, Announced
  <2> QED BY <1>1, <2>1, <2>2, <2>3, <2>4 DEF TypeOK, ParserInv, Parsers
<1> QED BY <1>1, ParserInvariant, PTL

-----------------------------------------------------------------------------
(* How a parser gets into a URL and into a body.                           *)

(* Outside the request line no character leads into a URL, none sets its   *)
(* mark, and a body is entered only when there is something left of it.    *)
Elsewhere(m, n) ==
  /\ n.state \notin UrlStates /\ ("url" \in n.marks => "url" \in m.marks)
  /\ n.state \in BodyStates => n.content_length > 0

(* The parser n that a character ch makes of m: it is in a URL only after  *)
(* a character that ends no line, and its mark for the URL says so.        *)
Enters(m, ch, n) ==
  /\ n.state \in UrlStates => m.state \in TableStates /\ ch \notin {"CR", "LF"}
  /\ n.state # "s_dead" => ("url" \in n.marks => n.state \in UrlStates)
  /\ n.state \in BodyStates => n.content_length > 0

(* No row takes a line end into the URL.                                   *)
LEMMA RowsToUrl ==
  ASSUME NEW r \in StatusRows \cup HostRows \cup PathRows \cup VersionRows,
         r[3] \in UrlStates
  PROVE  r[2] \cap {"CR", "LF"} = {}
<1>1. CASE r \in StatusRows
  BY <1>1 DEF StatusRows, UrlStates
<1>2. CASE r \in HostRows
  BY <1>2 DEF HostRows, Letters, Digits
<1>3. CASE r \in PathRows
  <2>1. r[2] \in {Url, {"?"}, {"#"}, Url \cup {"?"}, Url \cup {"?", "#"}}
    BY <1>3 DEF PathRows, UrlStates
  <2>2. "CR" \notin Url /\ "LF" \notin Url
    BY DEF Url, Letters, Digits
  <2> QED BY <2>1, <2>2
<1>4. CASE r \in VersionRows
  BY <1>4 DEF VersionRows, UrlStates
<1> QED BY <1>1, <1>2, <1>3, <1>4

LEMMA RowEnters ==
  ASSUME NEW m, NEW ch, Ready(m), m.state \in TableStates
  PROVE  Enters(m, ch, Row(m, ch))
<1>1. PICK n : n = Row(m, ch)
  OBVIOUS
<1>2. m \in Parsers
  BY DEF Ready
<1>3. CASE n.state = "s_dead"
  <2>1. "s_dead" \notin UrlStates /\ "s_dead" \notin BodyStates
    BY DEF BodyStates, UrlStates
  <2> QED BY <1>1, <1>3, <2>1 DEF Enters
<1>4. CASE n.state # "s_dead"
  <2>1. n # Error(m)
    BY <1>2, <1>4 DEF Error, Parsers
  <2>2. Taken(m.state, ch)
    BY <1>1, <2>1, RowRefused
  <2>3. PICK t : t = RowOf(m.state, ch)[3]
    OBVIOUS
  <2>4. \E a, b, c : n = RowTo(m, t, MarksTo(m, t), a, b, c)
    <3>1. CASE ch \in Digits /\ m.state \in DOMAIN First
      BY <1>1, <1>2, <2>2, <2>3, <3>1, RowFirst, DigitTables
    <3>2. CASE ch \in Digits /\ m.state \in DOMAIN Further
      BY <1>1, <1>2, <2>1, <2>2, <2>3, <3>2, RowFurther, DigitTables
    <3>3. CASE ch \notin Digits \/ m.state \notin DOMAIN First \cup DOMAIN Further
      BY <1>1, <1>2, <2>2, <2>3, <3>3, RowElse
    <3> QED BY <3>1, <3>2, <3>3
  <2>5. n.state = t /\ n.marks = MarksTo(m, t)
    BY <1>2, <2>4 DEF RowTo, Parsers
  <2>6. /\ t \in TableStates \cup {"s_header_field_start"}
        /\ t \in UrlStates /\ m.state \notin UrlStates =>
             m.state = "s_req_spaces_before_url" /\ t \in {"s_req_path", "s_req_schema"}
    BY <2>2, <2>3, RowStates
  <2>7. n.marks = Resumed(t)
    BY <2>5, <2>6, RowMarks DEF MarksTo, Ready
  <2>8. t \in UrlStates => ch \notin {"CR", "LF"}
    <3>1. PICK r : r = RowOf(m.state, ch)
      OBVIOUS
    <3>2. r \in {x \in Rows[m.state] : ch \in x[2]}
      BY <2>2, <3>1 DEF RowOf, Taken
    <3>3. r \in StatusRows \cup HostRows \cup PathRows \cup VersionRows /\ ch \in r[2]
      BY <3>2 DEF Rows
    <3> QED BY <2>3, <3>1, <3>3, RowsToUrl
  <2>9. t \notin BodyStates
    BY <2>6 DEF BodyStates, TableStates, UrlStates, ResponseStates, VersionStates
  <2>10. "url" \in Resumed(t) => t \in UrlStates
    BY DEF Resumed
  <2> QED BY <1>1, <2>5, <2>7, <2>8, <2>9, <2>10 DEF Enters
<1> QED BY <1>3, <1>4

LEMMA LineElsewhere ==
  ASSUME NEW m \in Parsers, NEW ch
  PROVE  /\ m.state \in StartStates => Elsewhere(m, Start(m, ch))
         /\ m.state = "s_res_or_resp_H" => Elsewhere(m, ReqOrRes(m, ch))
         /\ m.state = "s_req_method" => Elsewhere(m, Method(m, ch))
<1>1. ASSUME m.state \in StartStates
      PROVE  Elsewhere(m, Start(m, ch))
  <2>1. PICK c : c = Append(m.calls, "message_begin")
    OBVIOUS
  <2>2. PICK b : b = [m EXCEPT !.flags = {}, !.content_length = Unset, !.calls = c]
    OBVIOUS
  <2>3. message_begin(m) = b
    BY <2>1, <2>2 DEF message_begin
  <2>4. PICK n : n = Start(m, ch)
    OBVIOUS
  <2>5. n.marks = m.marks /\ n.state \in StartStates \cup {"s_res_H", "s_dead", "s_req_method", "s_res_or_resp_H"}
    BY <1>1, <2>2, <2>3, <2>4 DEF Start, start_req_method_assign, Error, Parsers
  <2> QED BY <2>4, <2>5 DEF Elsewhere, StartStates, BodyStates, UrlStates
<1>2. ASSUME m.state = "s_res_or_resp_H"
      PROVE  Elsewhere(m, ReqOrRes(m, ch))
  <2>1. PICK n : n = ReqOrRes(m, ch)
    OBVIOUS
  <2>2. n.marks = m.marks /\ n.state \in {"s_res_HT", "s_dead", "s_req_method"}
    BY <2>1 DEF ReqOrRes, Error, Parsers
  <2> QED BY <2>1, <2>2 DEF Elsewhere, BodyStates, UrlStates
<1>3. ASSUME m.state = "s_req_method"
      PROVE  Elsewhere(m, Method(m, ch))
  <2>1. PICK w : w = method_strings[m.method]
    OBVIOUS
  <2>2. PICK on : on = [m EXCEPT !.index = @ + 1]
    OBVIOUS
  <2>3. on.marks = m.marks /\ on.state = m.state
    BY <2>2 DEF Parsers
  <2>4. PICK n : n = Method(m, ch)
    OBVIOUS
  <2>5. n \in {[on EXCEPT !.state = "s_req_spaces_before_url"], on, Error(m),
               [on EXCEPT !.method = "COPY"]}
    BY <2>1, <2>2, <2>4 DEF Method
  <2>6. n.marks = m.marks /\ n.state \in {"s_req_spaces_before_url", "s_req_method", "s_dead"}
    BY <1>3, <2>2, <2>3, <2>5 DEF Error, Parsers
  <2> QED BY <2>4, <2>6 DEF Elsewhere, BodyStates, UrlStates
<1> QED BY <1>1, <1>2, <1>3

LEMMA MatchElsewhere ==
  ASSUME NEW m \in Parsers, NEW ch
  PROVE  Match(m, ch).marks = m.marks /\ Match(m, ch).state = m.state
BY DEF Match, Parsers

LEMMA HeaderElsewhere ==
  ASSUME NEW m \in Parsers, NEW ch
  PROVE  /\ m.state = "s_header_field" => Elsewhere(m, Field(m, ch))
         /\ m.state = "s_header_value_start" => Elsewhere(m, ValueStart(m, ch))
         /\ m.state = "s_header_value" => Elsewhere(m, HeaderValue(m, ch))
         /\ m.state = "s_header_almost_done" => Elsewhere(m, HeaderDone(m, ch))
<1>1. ASSUME NEW n, n.state \in HeaderStates \cup {"s_dead"}, 
             n.marks \subseteq m.marks \cup {"header_field", "header_value"}
      PROVE  Elsewhere(m, n)
  BY <1>1 DEF Elsewhere, HeaderStates, BodyStates, UrlStates
<1>2. ASSUME m.state = "s_header_field"
      PROVE  Elsewhere(m, Field(m, ch))
  <2>1. FieldToken(m, ch).marks = m.marks /\ FieldToken(m, ch).state = m.state
    BY MatchElsewhere DEF FieldToken, NextIn, Parsers
  <2>2. PICK n : n = Field(m, ch)
    OBVIOUS
  <2>3. /\ n.state \in HeaderStates \cup {"s_dead"}
        /\ n.marks \subseteq m.marks \cup {"header_field", "header_value"}
    BY <1>2, <2>1, <2>2 DEF Field, Error, Parsers, HeaderStates
  <2> QED BY <1>1, <2>2, <2>3
<1>3. ASSUME m.state = "s_header_value_start"
      PROVE  Elsewhere(m, ValueStart(m, ch))
  <2>1. PICK n : n = ValueStart(m, ch)
    OBVIOUS
  <2>2. /\ n.state \in HeaderStates \cup {"s_dead"}
        /\ n.marks \subseteq m.marks \cup {"header_field", "header_value"}
    BY <1>3, <2>1 DEF ValueStart, Error, Parsers, HeaderStates
  <2> QED BY <1>1, <2>1, <2>2
<1>4. ASSUME NEW k \in Parsers
      PROVE  /\ HeaderDone(k, ch).marks = k.marks
             /\ HeaderDone(k, ch).state \in HeaderStates \cup {"s_dead"}
  BY DEF HeaderDone, Error, Parsers, HeaderStates
<1>5. ASSUME m.state = "s_header_value"
      PROVE  Elsewhere(m, HeaderValue(m, ch))
  <2>1. PICK e : e = [m EXCEPT !.marks = @ \ {"header_value"}]
    OBVIOUS
  <2>2. e \in Parsers /\ e.marks = m.marks \ {"header_value"} /\ e.state = m.state
    BY <2>1 DEF Parsers
  <2>3. PICK n : n = HeaderValue(m, ch)
    OBVIOUS
  <2>4. \/ n \in {[e EXCEPT !.state = "s_header_almost_done"], m, Error(m),
                  [m EXCEPT !.header_state = "h_general"]}
        \/ n = HeaderDone(e, ch) \/ n = Match(m, ch)
        \/ \E l : n = [m EXCEPT !.content_length = l]
    BY <2>1, <2>3 DEF HeaderValue
  <2>5. /\ n.state \in HeaderStates \cup {"s_dead"}
        /\ n.marks \subseteq m.marks \cup {"header_field", "header_value"}
    <3>1. CASE n = HeaderDone(e, ch)
      BY <1>4, <2>2, <3>1
    <3>2. CASE n = Match(m, ch)
      BY <1>5, <3>2, MatchElsewhere DEF HeaderStates
    <3>3. CASE n = [e EXCEPT !.state = "s_header_almost_done"]
      BY <2>2, <3>3 DEF Parsers, HeaderStates
    <3>4. CASE n \in {m, Error(m), [m EXCEPT !.header_state = "h_general"]}
      BY <1>5, <3>4 DEF Error, Parsers, HeaderStates
    <3>5. CASE \E l : n = [m EXCEPT !.content_length = l]
      BY <1>5, <3>5 DEF Parsers, HeaderStates
    <3> QED BY <2>4, <3>1, <3>2, <3>3, <3>4, <3>5
  <2> QED BY <1>1, <2>3, <2>5
<1>6. Elsewhere(m, HeaderDone(m, ch))
  BY <1>1, <1>4
<1> QED BY <1>2, <1>3, <1>5, <1>6

LEMMA ChunkElsewhere ==
  ASSUME NEW m \in Parsers, NEW ch, m.state \in ChunkStates \ BodyStates
  PROVE  Elsewhere(m, Chunk(m, ch))
<1>1. PICK n : n = Chunk(m, ch)
  OBVIOUS
<1>2. m.content_length \in Nat
  BY SizeFacts DEF Parsers
<1>3. n.marks = m.marks /\ n.state \notin UrlStates
  <2>1. n.marks = m.marks /\ n.state \in ChunkStates \cup {"s_header_field_start", "s_dead"}
    BY <1>1 DEF Chunk, ChunkSizeDone, ChunkStates, BodyStates, Error, Parsers
  <2> QED BY <2>1 DEF ChunkStates, UrlStates
<1>4. n.state \in BodyStates =>
        m.state = "s_chunk_size_almost_done" /\ n.content_length = m.content_length
          /\ m.content_length # 0
  BY <1>1 DEF Chunk, ChunkSizeDone, ChunkStates, BodyStates, Error, Parsers
<1> QED BY <1>1, <1>2, <1>3, <1>4 DEF Elsewhere

(* The end of a message leads to the start of the next one, or nowhere.    *)
LEMMA CompleteElsewhere ==
  ASSUME NEW k, DOMAIN k = DOMAIN Zeroed
  PROVE  Complete(k).state \in StartStates \cup {"s_dead"} /\ Complete(k).marks = k.marks
BY DEF Complete, start_state, StartStates, Zeroed

LEMMA HeadersElsewhere ==
  ASSUME NEW m \in Parsers, NEW ch, NEW r, m.state = "s_headers_almost_done"
  PROVE  Elsewhere(m, HeadersDone(m, ch, r))
<1>1. PICK up : up = (m.upgrade \/ "UPGRADE" \in m.flags \/ m.method = "CONNECT")
  OBVIOUS
<1>2. PICK c : c = Append(m.calls, "headers_complete")
  OBVIOUS
<1>3. PICK k : k = [m EXCEPT !.nread = 0, !.upgrade = up, !.calls = c]
  OBVIOUS
<1>4. k.state = m.state /\ k.marks = m.marks /\ DOMAIN k = DOMAIN m
        /\ k.content_length = m.content_length /\ DOMAIN m = DOMAIN Zeroed
  BY <1>3 DEF Parsers, Zeroed
<1>5. PICK n : n = HeadersDone(m, ch, r)
  OBVIOUS
<1>6. PICK o : o = [k EXCEPT !.flags = @ \cup {"SKIPBODY"}]
  OBVIOUS
<1>7. o.marks = m.marks /\ DOMAIN o = DOMAIN Zeroed
  BY <1>4, <1>6 DEF Zeroed
<1>8. \/ n \in {Error(m), Complete(m), Complete(o), Complete(k)}
      \/ n = [k EXCEPT !.calls = Append(@, "message_complete")]
      \/ n = [k EXCEPT !.state = "s_chunk_size_start"]
      \/ n = [k EXCEPT !.state = "s_body_identity_eof"]
      \/ n = [k EXCEPT !.state = "s_body_identity"] /\ m.content_length > 0
  BY <1>1, <1>2, <1>3, <1>5, <1>6 DEF HeadersDone
<1>9. /\ n.marks = m.marks
      /\ \/ n.state \in StartStates \cup {"s_dead", "s_headers_almost_done",
                                          "s_chunk_size_start", "s_body_identity_eof"}
         \/ n.content_length > 0 /\ n.state = "s_body_identity"
  <2>1. CASE n \in {Error(m), Complete(m), Complete(o), Complete(k)}
    BY <1>4, <1>7, <2>1, CompleteElsewhere DEF Error, Parsers
  <2>2. CASE n = [k EXCEPT !.calls = Append(@, "message_complete")]
    BY <1>3, <1>4, <2>2 DEF Parsers
  <2>3. CASE n = [k EXCEPT !.state = "s_chunk_size_start"]
    BY <1>3, <1>4, <2>3 DEF Parsers
  <2>4. CASE n = [k EXCEPT !.state = "s_body_identity_eof"]
    BY <1>3, <1>4, <2>4 DEF Parsers
  <2>5. CASE n = [k EXCEPT !.state = "s_body_identity"] /\ m.content_length > 0
    BY <1>3, <1>4, <2>5 DEF Parsers
  <2> QED BY <1>8, <2>1, <2>2, <2>3, <2>4, <2>5
<1> QED BY <1>5, <1>9 DEF Elsewhere, StartStates, BodyStates, UrlStates

LEMMA FieldStartElsewhere ==
  ASSUME NEW m \in Parsers, NEW ch, NEW r, m.state = "s_header_field_start"
  PROVE  Elsewhere(m, FieldStart(m, ch, r))
<1>1. CASE ch = "LF"
  <2>1. PICK k : k = [m EXCEPT !.state = "s_headers_almost_done"]
    OBVIOUS
  <2>2. k \in Parsers /\ k.state = "s_headers_almost_done" /\ k.marks = m.marks
    BY <2>1 DEF Parsers, States, HeaderStates
  <2>3. Elsewhere(k, HeadersDone(k, ch, r))
    BY <2>2, HeadersElsewhere
  <2>4. FieldStart(m, ch, r) = HeadersDone(k, ch, r)
    BY <1>1, <2>1 DEF FieldStart
  <2> QED BY <2>2, <2>3, <2>4 DEF Elsewhere
<1>2. CASE ch # "LF"
  <2>1. PICK n : n = FieldStart(m, ch, r)
    OBVIOUS
  <2>2. /\ n.state \in {"s_headers_almost_done", "s_header_field", "s_dead"}
        /\ n.marks \subseteq m.marks \cup {"header_field"}
    BY <1>2, <2>1 DEF FieldStart, Error, Parsers
  <2> QED BY <2>1, <2>2 DEF Elsewhere, BodyStates, UrlStates
<1> QED BY <1>1, <1>2

(* Each part of the switch but the table of the URL is elsewhere.          *)
LEMMA DispatchEnters ==
  ASSUME NEW m, NEW ch, NEW r, Ready(m), m.state \notin BodyStates
  PROVE  Enters(m, ch, Dispatch(m, ch, r))
<1>1. m \in Parsers /\ m.state \in States \ BodyStates /\ m.marks = Resumed(m.state)
  BY DEF Ready, Parsers
<1>2. CASE m.state \in TableStates
  BY <1>2, RowEnters, DispatchParts
<1>3. CASE m.state \notin TableStates
  <2>1. PICK n : n = Dispatch(m, ch, r)
    OBVIOUS
  <2>2. ASSUME m.state \in {"s_dead", "s_body_identity_eof"}
        PROVE  Elsewhere(m, n)
    <3>1. n = Error(m)
      BY <2>1, <2>2, RowNone, DispatchParts
    <3>2. Elsewhere(m, n)
      BY <1>1, <3>1 DEF Elsewhere, Error, Parsers, BodyStates, UrlStates
    <3> QED BY <3>2
  <2>3. ASSUME m.state \in StartStates \cup {"s_res_or_resp_H", "s_req_method"}
        PROVE  Elsewhere(m, n)
    BY <1>1, <2>1, <2>3, LineElsewhere, DispatchParts
  <2>4. ASSUME m.state \in {"s_header_field", "s_header_value_start", "s_header_value",
                            "s_header_almost_done"}
        PROVE  Elsewhere(m, n)
    BY <1>1, <2>1, <2>4, HeaderElsewhere, DispatchParts
  <2>5. ASSUME m.state \in {"s_header_field_start", "s_headers_almost_done"}
        PROVE  Elsewhere(m, n)
    BY <1>1, <2>1, <2>5, FieldStartElsewhere, HeadersElsewhere, DispatchParts
  <2>6. ASSUME m.state \in ChunkStates \ BodyStates
        PROVE  Elsewhere(m, n)
    BY <1>1, <2>1, <2>6, ChunkElsewhere, DispatchParts
  <2>7. Elsewhere(m, n)
    BY <1>1, <1>3, <2>2, <2>3, <2>4, <2>5, <2>6, StateParts
  <2>8. "url" \notin m.marks
    <3>1. m.state \notin UrlStates
      BY <1>3 DEF TableStates, UrlStates
    <3> QED BY <1>1, <3>1 DEF Resumed
  <2> QED BY <2>1, <2>7, <2>8 DEF Elsewhere, Enters
<1> QED BY <1>2, <1>3

-----------------------------------------------------------------------------
(* One byte after the other, as a caller sees it whose buffer holds        *)
(* anything: the bounds of HttpParser are not assumed here.                *)

Parsed(m, ch) ==
  IF m.state \in BodyStates THEN Body([m EXCEPT !.calls = LastOf(@)], 1) ELSE Step(m, ch, 0)

(* Past the end of CONNECT's string there is no way on.                    *)
Lost(m) == m.state = "s_req_method" /\ m.method = "CONNECT" /\ m.index > 3 /\ m.marks = {}

Fit(m) ==
  /\ m \in Parsers /\ Len(m.calls) >= 1
  /\ m.state \in BodyStates => m.content_length > 0
  /\ m.state # "s_dead" => ("url" \in m.marks <=> m.state \in UrlStates)
  /\ Alive(m) => Waiting(m) \/ Lost(m)

(* The parser n that ch makes of m begins a URL only after its first       *)
(* character, and is in a URL only after one that ends no line.            *)
Continues(m, ch, n) ==
  Fit(n) /\ (n.state \in UrlStates => m.state \notin StartStates /\ ch \notin {"CR", "LF"})

LEMMA LostGoesOn ==
  ASSUME NEW m, NEW ch, Fit(m), Alive(m), m.state = "s_req_method",
         (m.method = "CONNECT" /\ ~(m.index < 3 \/ ch = "SP")) \/ Lost(m)
  PROVE  Continues(m, ch, Parsed(m, ch))
<1>1. /\ m \in Parsers /\ m.index \in Nat /\ m.calls \in Seq(Callbacks) /\ Len(m.calls) >= 1
      /\ m.nread \in Nat
  BY DEF Fit, Parsers
<1>2. /\ m.method = "CONNECT" /\ m.index >= 3 /\ m.marks = {} /\ (m.index > 3 \/ ch # "SP")
  <2>1. CASE Lost(m)
    BY <1>1, <2>1 DEF Lost
  <2>2. CASE ~Lost(m)
    <3>1. Waiting(m) /\ m.method = "CONNECT" /\ ~(m.index < 3 \/ ch = "SP")
      BY <2>2 DEF Fit
    <3>2. m.marks = {}
      BY <3>1 DEF Waiting, Resumed, UrlStates
    <3> QED BY <1>1, <3>1, <3>2
  <2> QED BY <2>1, <2>2
<1>3. PICK x, c : x = Count(m) /\ c = LastOf(m.calls)
  OBVIOUS
<1>4. x \in Nat /\ c \in Seq(Callbacks) /\ Len(c) = 1
  <2>1. m.calls[Len(m.calls)] \in Callbacks
    BY <1>1
  <2> QED BY <1>1, <1>3, <2>1 DEF Count, LastOf
<1>5. PICK k : k = [m EXCEPT !.nread = x, !.calls = c]
  OBVIOUS
<1>6. /\ k \in Parsers /\ k.state = "s_req_method" /\ k.method = "CONNECT" /\ k.index = m.index
      /\ k.marks = {} /\ k.calls = c /\ k.upgrade = FALSE
  BY <1>1, <1>2, <1>4, <1>5 DEF Parsers, Alive
<1>7. PICK n : n = [k EXCEPT !.index = @ + 1]
  OBVIOUS
<1>8. Method(k, ch) = n
  <2>1. PICK w : w = method_strings["CONNECT"]
    OBVIOUS
  <2>2. Len(w) = 3
    BY <2>1, MethodTable
  <2>3. ~(ch = "SP" /\ k.index = Len(w)) /\ ~(k.index < Len(w)) /\ k.index # 2
    BY <1>1, <1>2, <1>6, <2>2
  <2> QED BY <1>6, <1>7, <2>1, <2>3 DEF Method
<1>9. Parsed(m, ch) = n
  <2>1. Step(m, ch, 0) = Dispatch(k, ch, 0)
    BY <1>3, <1>5 DEF Step
  <2>2. Dispatch(k, ch, 0) = Method(k, ch)
    BY <1>6, DispatchParts
  <2> QED BY <1>8, <2>1, <2>2 DEF Parsed, BodyStates
<1>10. n \in Parsers /\ n.state = "s_req_method" /\ n.method = "CONNECT" /\ n.index = m.index + 1
        /\ n.marks = {} /\ n.calls = c
  <2>1. PICK i : i = k.index + 1
    OBVIOUS
  <2>2. i \in Nat /\ n = [k EXCEPT !.index = i] /\ i = m.index + 1
    BY <1>1, <1>6, <1>7, <2>1
  <2> QED BY <1>6, <2>2 DEF Parsers
<1>11. Lost(n)
  BY <1>1, <1>2, <1>10 DEF Lost
<1>12. n.state \notin UrlStates /\ n.state \notin BodyStates
  BY <1>10 DEF UrlStates, BodyStates
<1>13. Len(n.calls) >= 1 /\ "url" \notin n.marks
  <2>1. Len(c) >= 1
    BY <1>4
  <2>2. n.calls = c /\ n.marks = {}
    BY <1>10
  <2> QED BY <2>1, <2>2, Zenon
<1>14. Fit(n)
  BY <1>10, <1>11, <1>12, <1>13 DEF Fit
<1> QED BY <1>9, <1>12, <1>14 DEF Continues

(* One more byte of what the switch reads character by character.          *)
LEMMA StepFits ==
  ASSUME NEW m, NEW ch, Fit(m), Alive(m), Waiting(m), m.state \notin BodyStates,
         m.state = "s_req_method" /\ m.method = "CONNECT" => m.index < 3 \/ ch = "SP"
  PROVE  Continues(m, ch, Parsed(m, ch))
<1>1. PICK n : n = Step(m, ch, 0)
  OBVIOUS
<1>2. PICK k : k = [m EXCEPT !.nread = Count(m), !.calls = LastOf(@)]
  OBVIOUS
<1>3. Parsed(m, ch) = n /\ n = Dispatch(k, ch, 0)
  BY <1>1, <1>2 DEF Parsed, Step
<1>4. Goes(k, n)
  <2>1. Len(method_strings.CONNECT) = 3
    BY MethodTable
  <2> QED BY <1>1, <1>2, <2>1, StepGoes
<1>5. Ready(k) /\ k.state = m.state
  <2>1. Count(m) \in Nat
    BY DEF Count, Waiting, Parsers
  <2>2. m.state \in {"s_chunk_data", "s_chunk_data_almost_done", "s_chunk_data_done"} => Count(m) = 0
    BY DEF Waiting, Consistent, Framed, Count, PARSING_HEADER, BodyStates
  <2> QED BY <1>2, <2>1, <2>2, WaitingReady DEF Waiting, Parsers
<1>6. Enters(k, ch, n)
  BY <1>3, <1>5, DispatchEnters
<1>7. n.upgrade => n.state \in {"s_headers_almost_done", "s_dead"}
  BY <1>1, StepUpgrade
<1>8. n \in Parsers /\ Len(n.calls) >= 1
  BY <1>4 DEF Goes, Ordered
<1>9. Alive(n) => Waiting(n)
  BY <1>4, <1>8 DEF Goes, Waiting
<1>10. n.state \in UrlStates => "url" \in n.marks
  <2>1. n.state \in UrlStates => Alive(n)
    BY <1>7, <1>8 DEF Alive, Parsers, UrlStates
  <2>2. n.state \in UrlStates => "url" \in Resumed(n.state)
    BY DEF Resumed
  <2> QED BY <1>9, <2>1, <2>2 DEF Waiting
<1>11. n.state \in UrlStates => m.state \notin StartStates /\ ch \notin {"CR", "LF"}
  BY <1>5, <1>6 DEF Enters, TableStates, StartStates, UrlStates, ResponseStates, VersionStates
<1> QED BY <1>3, <1>6, <1>8, <1>9, <1>10, <1>11 DEF Continues, Fit, Enters

(* One more byte of a body.                                                *)
LEMMA BodyFits ==
  ASSUME NEW m, NEW ch, Fit(m), Alive(m), m.state \in BodyStates
  PROVE  Continues(m, ch, Parsed(m, ch))
<1>1. Waiting(m) /\ m.content_length > 0 /\ m.content_length \in Nat
  BY SizeFacts DEF Fit, Lost, BodyStates, Parsers
<1>2. PICK k : k = [m EXCEPT !.calls = LastOf(@)]
  OBVIOUS
<1>3. Ready(k) /\ k.content_length = m.content_length /\ k.state = m.state /\ k.upgrade = m.upgrade
  BY <1>1, <1>2, LastReady
<1>4. PICK n : n = Body(k, 1)
  OBVIOUS
<1>5. Parsed(m, ch) = n
  BY <1>2, <1>4 DEF Parsed
<1>6. Goes(k, n)
  BY <1>1, <1>3, <1>4, BodyGoes
<1>7. k \in Parsers /\ k.marks = {}
  BY <1>3 DEF Ready, Resumed, UrlStates, BodyStates
<1>8. /\ n.marks = {} /\ n.state \notin UrlStates
      /\ n.state \in BodyStates => n.content_length > 0
  <2>1. PICK l, c : l = k.content_length - 1 /\ c = Append(k.calls, "body")
    OBVIOUS
  <2>2. PICK o : o = [k EXCEPT !.content_length = l, !.calls = c]
    OBVIOUS
  <2>3. /\ o.marks = {} /\ o.state = k.state /\ o.content_length = l /\ DOMAIN o = DOMAIN Zeroed
    BY <1>7, <2>2 DEF Parsers, Zeroed
  <2>4. CASE 1 < k.content_length
    <3>1. n = o
      BY <1>4, <2>1, <2>2, <2>4 DEF Body
    <3>2. l > 0
      BY <1>1, <1>3, <2>1, <2>4
    <3> QED BY <1>3, <2>3, <3>1, <3>2 DEF BodyStates, UrlStates
  <2>5. CASE ~(1 < k.content_length) /\ k.state = "s_chunk_data"
    <3>1. n = [o EXCEPT !.state = "s_chunk_data_almost_done"]
      BY <1>4, <2>1, <2>2, <2>5 DEF Body
    <3> QED BY <2>3, <3>1 DEF BodyStates, UrlStates, Zeroed
  <2>6. CASE ~(1 < k.content_length) /\ k.state # "s_chunk_data"
    <3>1. n = Complete(o)
      BY <1>4, <2>1, <2>2, <2>6 DEF Body
    <3> QED BY <2>3, <3>1, CompleteElsewhere DEF BodyStates, StartStates, UrlStates
  <2> QED BY <2>4, <2>5, <2>6
<1>9. n \in Parsers /\ Len(n.calls) >= 1 /\ (Alive(n) => Waiting(n))
  BY <1>6 DEF Goes, Ordered, Waiting
<1> QED BY <1>5, <1>8, <1>9 DEF Continues, Fit

LEMMA ParsedFits ==
  ASSUME NEW m, NEW ch, Fit(m), Alive(m)
  PROVE  Continues(m, ch, Parsed(m, ch))
<1>1. Waiting(m) \/ Lost(m)
  BY DEF Fit
<1>2. CASE m.state \in BodyStates
  BY <1>2, BodyFits
<1>3. CASE /\ m.state = "s_req_method"
           /\ (m.method = "CONNECT" /\ ~(m.index < 3 \/ ch = "SP")) \/ Lost(m)
  BY <1>3, LostGoesOn
<1>4. CASE ~Lost(m) /\ m.state \notin BodyStates
             /\ (m.state = "s_req_method" /\ m.method = "CONNECT" => m.index < 3 \/ ch = "SP")
  BY <1>1, <1>4, StepFits
<1>5. Lost(m) => m.state = "s_req_method"
  BY DEF Lost
<1> QED BY <1>2, <1>3, <1>4, <1>5

(* Two parsers of one string stay alike.                                   *)
LEMMA ParsedSame ==
  ASSUME NEW m, NEW w, NEW ch, Fit(m), Fit(w), SameRun(m, w), Alive(m)
  PROVE  SameRun(Parsed(m, ch), Parsed(w, ch))
<1>1. m \in Parsers /\ w \in Parsers /\ m.state = w.state /\ Len(m.calls) >= 1
  BY DEF Fit, SameRun
<1>2. CASE m.state \notin BodyStates
  BY <1>1, <1>2, StepSame DEF Parsed
<1>3. CASE m.state \in BodyStates
  <2>1. PICK k, v : k = [m EXCEPT !.calls = LastOf(@)] /\ v = [w EXCEPT !.calls = LastOf(@)]
    OBVIOUS
  <2>2. SameRun(k, v)
    BY <1>1, <2>1, LastSame
  <2>3. Waiting(m) /\ Waiting(w) /\ m.content_length > 0 /\ m.content_length \in Nat
    <3>1. Alive(w)
      BY DEF SameRun, Alive
    <3> QED BY <1>1, <1>3, <3>1, SizeFacts DEF Fit, Lost, BodyStates, Parsers
  <2>4. Ready(k) /\ Ready(v) /\ k.state = m.state /\ k.content_length = m.content_length
    BY <1>1, <1>3, <2>1, <2>3, LastReady
  <2>5. 1 \in 1 .. k.content_length
    BY <2>3, <2>4
  <2>6. SameRun(Body(k, 1), Body(v, 1))
    BY <1>3, <2>2, <2>4, <2>5, BodySame DEF Ready
  <2> QED BY <1>1, <1>3, <2>1, <2>6 DEF Parsed
<1> QED BY <1>2, <1>3

(* http_parser_init() on any two structs gives two that are alike.         *)
LEMMA InitSame ==
  ASSUME NEW m \in Parsers, NEW w \in Parsers, NEW t \in {"REQUEST", "RESPONSE", "BOTH"}
  PROVE  LET n == http_parser_init(m, t)
             v == http_parser_init(w, t)
         IN  Fit(n) /\ Fit(v) /\ SameRun(n, v) /\ n.state \in StartStates /\ Alive(n)
               /\ n.marks = {}
<1>1. PICK c : c = <<"none">>
  OBVIOUS
<1>2. c \in Seq(Callbacks) /\ Len(c) = 1 /\ c[Len(c)] = "none"
  BY <1>1, NoneCalled
<1>3. PICK s : s = IF t = "BOTH" THEN "s_start_req_or_res" ELSE start_state(t)
  OBVIOUS
<1>4. s \in StartStates
  BY <1>3 DEF start_state, StartStates
<1>5. s \in States /\ "other" \in DOMAIN method_strings
  BY <1>4, MethodTable DEF States
<1>6. Resumed(s) = {} /\ s # "s_dead" /\ s \notin UrlStates /\ s \notin BodyStates
  BY <1>4 DEF Resumed, StartStates, UrlStates, BodyStates
<1>7. ASSUME NEW p \in Parsers, NEW n, n = http_parser_init(p, t)
      PROVE  /\ n \in Parsers /\ n.type = t /\ n.upgrade = FALSE
             /\ n.flags = {} /\ n.method = "other" /\ n.marks = {} /\ n.calls = c
             /\ n.state = s /\ Fit(n) /\ Alive(n)
  <2>1. n = [p EXCEPT !.type = t, !.nread = 0, !.upgrade = FALSE, !.flags = {},
                      !.method = "other", !.marks = {}, !.calls = c, !.state = s]
    BY <1>1, <1>3, <1>7 DEF http_parser_init
  <2>2. /\ n \in Parsers /\ n.type = t /\ n.upgrade = FALSE
        /\ n.flags = {} /\ n.method = "other" /\ n.marks = {} /\ n.calls = c /\ n.state = s
    BY <1>2, <1>5, <2>1 DEF Parsers
  <2>3. Matching(n)
    BY <1>4, <2>2 DEF Matching, StartStates
  <2>4. Called(n)
    BY <1>2, <1>4, <2>2 DEF Called, LastCall, StartStates
  <2>5. Framed(n)
    BY <1>4, <2>2 DEF Framed, StartStates, ChunkStates, BodyStates
  <2>6. Alive(n)
    BY <1>6, <2>2 DEF Alive
  <2>7. Len(n.calls) >= 1 /\ n.marks = Resumed(n.state) /\ n.state \notin BodyStates
          /\ n.state \notin UrlStates
    <3>1. Len(c) >= 1
      BY <1>2
    <3> QED BY <1>6, <2>2, <3>1, Zenon
  <2>8. Waiting(n)
    BY <2>2, <2>3, <2>4, <2>5, <2>6, <2>7 DEF Waiting, Consistent
  <2>9. Fit(n)
    BY <2>2, <2>6, <2>7, <2>8 DEF Fit
  <2> QED BY <2>2, <2>6, <2>9
<1>8. PICK n, v : n = http_parser_init(m, t) /\ v = http_parser_init(w, t)
  OBVIOUS
<1>9. SameRun(n, v)
  <2>1. s \notin MajorKnown \cup MinorKnown \cup {"s_header_field", "s_header_value_start",
              "s_header_value", "s_header_almost_done", "s_res_status_code", "s_req_method"}
    BY <1>4 DEF MajorKnown, MinorKnown, StartStates, ResponseStates, HeaderStates, ChunkStates,
                BodyStates
  <2>2. n.type = v.type /\ n.state = s /\ v.state = s /\ n.flags = v.flags
          /\ n.upgrade = v.upgrade /\ n.method = v.method /\ n.marks = v.marks /\ n.calls = v.calls
    <3>1. n.type = t /\ n.upgrade = FALSE /\ n.flags = {} /\ n.method = "other" /\ n.marks = {}
            /\ n.calls = c /\ n.state = s
      BY <1>7, <1>8
    <3>2. v.type = t /\ v.upgrade = FALSE /\ v.flags = {} /\ v.method = "other" /\ v.marks = {}
            /\ v.calls = c /\ v.state = s
      BY <1>7, <1>8
    <3> QED BY <3>1, <3>2
  <2> QED BY <1>4, <2>1, <2>2 DEF SameRun, Counted
<1> QED BY <1>4, <1>7, <1>8, <1>9

(* What a call leaves behind can be set up again.                          *)
LEMMA SavedParser ==
  ASSUME NEW m \in Parsers
  PROVE  [Save(m) EXCEPT !.marks = {}, !.calls = <<"none">>] \in Parsers
<1>1. PICK x, y : x = m.index % Byte /\ y = m.nread % Byte
  OBVIOUS
<1>2. x \in Nat /\ y \in Nat
  <2>1. m.index \in Nat /\ m.nread \in Nat
    BY DEF Parsers
  <2>2. x \in 0 .. Byte - 1 /\ y \in 0 .. Byte - 1 /\ Byte \in Nat
    BY <1>1, <2>1, SavedNumbers, HttpParserAssumption
  <2> QED BY <2>2
<1>3. PICK c : c = <<"none">>
  OBVIOUS
<1>4. c \in Seq(Callbacks) /\ {} \in SUBSET Strings
  BY <1>3, NoneCalled
<1>5. [Save(m) EXCEPT !.marks = {}, !.calls = c]
        = [m EXCEPT !.index = x, !.nread = y, !.marks = {}, !.calls = c]
  BY <1>1 DEF Save, Parsers
<1> QED BY <1>2, <1>3, <1>4, <1>5 DEF Parsers

(* An error sets the state and nothing else.                               *)
LEMMA ErrorFits ==
  ASSUME NEW m, Fit(m)
  PROVE  Fit(Error(m)) /\ Error(m).state = "s_dead" /\ Error(m).marks = m.marks
           /\ ~Alive(Error(m))
<1>1. "s_dead" \in States /\ "s_dead" \notin BodyStates /\ m \in Parsers /\ Len(m.calls) >= 1
  BY DEF States, BodyStates, Fit
<1>2. PICK n : n = Error(m)
  OBVIOUS
<1>3. n \in Parsers /\ n.state = "s_dead" /\ n.marks = m.marks /\ n.calls = m.calls
  BY <1>1, <1>2 DEF Error, Parsers
<1>4. Fit(n) /\ ~Alive(n)
  BY <1>1, <1>3 DEF Fit, Alive
<1> QED BY <1>2, <1>3, <1>4
=============================================================================
