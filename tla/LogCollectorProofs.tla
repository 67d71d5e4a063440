-------------------------- MODULE LogCollectorProofs --------------------------
(***************************************************************************)
(* Proofs about LogCollector, for a wtmp of any length, any number of      *)
(* restarts and rotations and either answer about /auth.log.               *)
(***************************************************************************)
EXTENDS LogCollector, TLAPS

-----------------------------------------------------------------------------
(* What Put does to a file of cells.                                       *)
LEMMA PutFacts ==
  ASSUME NEW cells \in Seq(Nat), NEW n \in Nat, n <= Len(cells), NEW x \in Nat
  PROVE  /\ Put(cells, n + 1, x) \in Seq(Nat)
         /\ Len(Put(cells, n + 1, x)) \in Nat
         /\ Len(Put(cells, n + 1, x)) >= Len(cells)
         /\ Len(Put(cells, n + 1, x)) >= n + 1
         /\ Put(cells, n + 1, x)[n + 1] = x
         /\ \A i \in 1 .. n : Put(cells, n + 1, x)[i] = cells[i]
<1>1. CASE n + 1 <= Len(cells)
  BY <1>1 DEF Put
<1>2. CASE ~(n + 1 <= Len(cells))
  <2>1. Len(cells) = n
    BY <1>2
  <2> QED  BY <1>2, <2>1 DEF Put
<1> QED  BY <1>1, <1>2

(* Appending to wtmp changes no earlier record.                            *)
LEMMA AppendFacts ==
  ASSUME TypeOK, NEW kind \in Kinds, wtmp' = Append(wtmp, kind)
  PROVE  /\ wtmp' \in Seq(Kinds)
         /\ Len(wtmp') = Len(wtmp) + 1
         /\ \A r \in 1 .. Len(wtmp) : wtmp'[r] = wtmp[r]
BY DEF TypeOK

-----------------------------------------------------------------------------
(* Type correctness, with the part of PhaseInv it leans on.                *)

LEMMA InitInv == Init => TypeOK /\ CollectorInv
<1> SUFFICES ASSUME Init PROVE TypeOK /\ CollectorInv  OBVIOUS
<1>1. /\ wtmp \in Seq(Kinds) /\ Len(wtmp) = 0
      /\ logfile \in [exists : BOOLEAN, cells : Seq(Nat)]
      /\ Len(logfile.cells) = 0
  BY DEF Init
<1>2. entry \in [ut : 0 .. Len(wtmp), begun : BOOLEAN]
  BY <1>1 DEF Init, NoEntry, NoRecord
<1>3. TypeOK
  <2>1. first \in 0 .. Len(wtmp) /\ cursor \in 0 .. Len(wtmp)
    BY <1>1 DEF Init
  <2>2. history \in [from : Nat, upto : Nat \cup {Growing}]
    BY DEF Init
  <2>3. rotated \in 0 .. MaxRotations /\ crashes \in 0 .. MaxCrashes
    BY LogCollectorAssumption DEF Init
  <2> QED  BY <1>1, <1>2, <2>1, <2>2, <2>3 DEF Init, TypeOK
<1>4. /\ pc = "down" /\ offset = NotOpen /\ 1 .. offset = {}
      /\ entry.ut = NoRecord /\ ~entry.begun
  BY DEF Init, NoEntry, NotOpen
<1>5. PhaseInv
  BY <1>1, <1>4 DEF Init, PhaseInv, NotOpen
<1> QED
  BY <1>3, <1>4, <1>5
     DEF CollectorInv, EntryInv, BackfillInv, EntriesInOrder, BackfillExact

LEMMA EntryType ==
  ASSUME TypeOK
  PROVE  /\ NoEntry \in [ut : 0 .. Len(wtmp), begun : BOOLEAN]
         /\ \A r \in 0 .. Len(wtmp) :
              Entry(r) \in [ut : 0 .. Len(wtmp), begun : BOOLEAN]
<1>1. 0 \in 0 .. Len(wtmp)
  BY DEF TypeOK
<1> QED  BY <1>1 DEF NoEntry, NoRecord, Entry

LEMMA HistoryType ==
  ASSUME TypeOK
  PROVE  HistoryEnd \in Nat
BY DEF TypeOK, HistoryEnd

LEMMA DownType ==
  ASSUME TypeOK, Down, UNCHANGED <<wtmpVars, history>>,
         logfile' = logfile, crashes' \in 0 .. MaxCrashes
  PROVE  TypeOK'
<1>1. 0 \in 0 .. Len(wtmp)
  BY DEF TypeOK
<1>2. entry' \in [ut : 0 .. Len(wtmp), begun : BOOLEAN]
  BY EntryType DEF Down
<1> QED  BY <1>1, <1>2 DEF TypeOK, Down, wtmpVars

LEMMA StepType ==
  ASSUME TypeOK, PhaseInv, EntryInv, [Next]_vars
  PROVE  TypeOK'
<1> USE LogCollectorAssumption DEF wtmpVars, watchVars
<1>1. ASSUME NEW kind \in Kinds, AppendRecord(kind) PROVE TypeOK'
  <2>1. wtmp' \in Seq(Kinds) /\ Len(wtmp') = Len(wtmp) + 1 /\ Len(wtmp) \in Nat
    BY <1>1, AppendFacts DEF AppendRecord, TypeOK
  <2>2. /\ cursor \in 0 .. Len(wtmp')
        /\ entry \in [ut : 0 .. Len(wtmp'), begun : BOOLEAN]
    BY <2>1 DEF TypeOK
  <2>3. watch' \in {"none", "quiet", "modified"} /\ first \in 0 .. Len(wtmp')
    BY <1>1, <2>1 DEF AppendRecord, TypeOK
  <2> QED  BY <1>1, <2>1, <2>2, <2>3 DEF AppendRecord, TypeOK
<1>2. CASE create_logfile
  <2>1. logfile' \in [exists : BOOLEAN, cells : Seq(Nat)]
    BY <1>2 DEF create_logfile, TypeOK
  <2>2. history' \in [from : Nat, upto : Nat \cup {Growing}]
    BY <1>2 DEF create_logfile, TypeOK
  <2> QED  BY <1>2, <2>1, <2>2 DEF create_logfile, TypeOK
<1>3. CASE OpenLog
  BY <1>3 DEF OpenLog, TypeOK
<1>4. CASE getutxent
  <2>1. CASE cursor = HistoryEnd
    BY <1>4, <2>1 DEF getutxent, TypeOK
  <2>2. CASE cursor # HistoryEnd
    <3>1. cursor + 1 \in 0 .. Len(wtmp) /\ NoRecord \in 0 .. Len(wtmp)
      <4>1. cursor <= HistoryEnd /\ HistoryEnd <= Len(wtmp) /\ HistoryEnd \in Int
        BY <1>4, HistoryType DEF getutxent, PhaseInv
      <4>2. cursor \in Nat /\ Len(wtmp) \in Nat
        BY DEF TypeOK
      <4> QED  BY <2>2, <4>1, <4>2 DEF NoRecord
    <3>2. entry' \in [ut : 0 .. Len(wtmp), begun : BOOLEAN]
      BY <1>4, <2>2, <3>1, EntryType DEF getutxent
    <3>3. /\ cursor' = cursor + 1
          /\ UNCHANGED <<pc, wtmp, first, rotated, watch, watching, history,
                         logfile, offset, crashes>>
      BY <1>4, <2>2 DEF getutxent
    <3> QED  BY <3>1, <3>2, <3>3 DEF TypeOK
  <2> QED  BY <2>1, <2>2
<1>5. CASE inotify_add_watch
  BY <1>5 DEF inotify_add_watch, TypeOK
<1>6. CASE ReadEvent
  BY <1>6 DEF ReadEvent, TypeOK
<1>7. CASE ReadLast
  <2>1. Len(wtmp) \in 0 .. Len(wtmp)
    BY DEF TypeOK
  <2>2. entry' \in [ut : 0 .. Len(wtmp), begun : BOOLEAN]
    <3>1. CASE entry' = entry
      BY <3>1 DEF TypeOK
    <3>2. CASE entry' = Entry(Len(wtmp))
      BY <2>1, <3>2, EntryType
    <3> QED  BY <1>7, <3>1, <3>2 DEF ReadLast
  <2> QED  BY <1>7, <2>2 DEF ReadLast, TypeOK
<1>8. CASE BeginEntry
  <2>1. CASE offset = NotOpen
    BY <1>8, <2>1, DownType DEF BeginEntry, TypeOK
  <2>2. CASE offset # NotOpen
    <3>1. Put(logfile.cells, offset + 1, Torn) \in Seq(Nat)
      BY <2>2, PutFacts DEF TypeOK, PhaseInv, Torn
    <3>2. logfile' \in [exists : BOOLEAN, cells : Seq(Nat)]
      BY <1>8, <2>2, <3>1 DEF BeginEntry, TypeOK
    <3> QED  BY <1>8, <2>2, <3>2 DEF BeginEntry, TypeOK
  <2> QED  BY <2>1, <2>2
<1>9. CASE EndEntry
  <2>1. offset \in Nat /\ entry.ut \in Nat
    BY <1>9 DEF EndEntry, EntryInv, TypeOK
  <2>2. Put(logfile.cells, offset + 1, entry.ut) \in Seq(Nat)
    BY <2>1, PutFacts DEF TypeOK, PhaseInv
  <2>3. logfile' \in [exists : BOOLEAN, cells : Seq(Nat)]
    BY <1>9, <2>2 DEF EndEntry, TypeOK
  <2>4. pc' \in {"down", "create", "start", "loop", "notified"}
    BY <1>9 DEF EndEntry, TypeOK
  <2>5. entry' \in [ut : 0 .. Len(wtmp), begun : BOOLEAN]
    BY <1>9 DEF EndEntry, TypeOK, NoEntry, NoRecord
  <2> QED  BY <1>9, <2>1, <2>3, <2>4, <2>5 DEF EndEntry, TypeOK
<1>10. CASE Crash
  BY <1>10, DownType DEF Crash, TypeOK
<1>11. CASE Rotate
  <2>1. Len(wtmp) \in 0 .. Len(wtmp)
    BY DEF TypeOK
  <2>2. history' \in [from : Nat, upto : Nat \cup {Growing}]
    BY <1>11, HistoryType DEF Rotate, TypeOK
  <2>3. rotated' \in 0 .. MaxRotations
    BY <1>11 DEF Rotate, TypeOK
  <2> QED  BY <1>11, <2>1, <2>2, <2>3 DEF Rotate, TypeOK
<1>12. CASE UNCHANGED vars
  BY <1>12 DEF vars, TypeOK
<1> QED
  BY <1>1, <1>2, <1>3, <1>4, <1>5, <1>6, <1>7, <1>8, <1>9, <1>10, <1>11, <1>12
     DEF Next, Collector

-----------------------------------------------------------------------------
(* The invariant, action by action.                                        *)

(* Actions that write nothing and append nothing to wtmp keep what has     *)
(* been written in order.                                                  *)
LEMMA SameEntries ==
  ASSUME CollectorInv, UNCHANGED <<wtmp, offset>>, logfile'.cells = logfile.cells
  PROVE  EntriesInOrder'
BY DEF CollectorInv, EntriesInOrder, Loggable

LEMMA AppendRecordInv ==
  ASSUME TypeOK, CollectorInv, NEW kind \in Kinds, AppendRecord(kind)
  PROVE  CollectorInv'
<1>1. /\ Len(wtmp) \in Nat
      /\ Len(wtmp') = Len(wtmp) + 1
      /\ \A r \in 1 .. Len(wtmp) : Loggable(r)' <=> Loggable(r)
      /\ UNCHANGED <<pc, history, logfile, offset, cursor, entry>>
  BY AppendFacts DEF AppendRecord, Loggable, TypeOK
<1>2. PhaseInv'
  <2>1. cursor \in Nat /\ cursor <= Len(wtmp)
    BY DEF TypeOK
  <2>2. pc = "create" => cursor <= HistoryEnd' /\ HistoryEnd' <= Len(wtmp')
    BY <1>1, <2>1 DEF CollectorInv, PhaseInv, HistoryEnd, TypeOK
  <2> QED  BY <1>1, <2>2 DEF CollectorInv, PhaseInv
<1>3. EntryInv'
  <2>1. entry.ut # NoRecord => entry.ut \in 1 .. Len(wtmp)
    BY DEF TypeOK, NoRecord
  <2> QED  BY <1>1, <2>1 DEF CollectorInv, EntryInv
<1>4. BackfillInv'
  BY <1>1 DEF CollectorInv, BackfillInv
<1>5. EntriesInOrder'
  BY <1>1 DEF CollectorInv, EntriesInOrder
<1>6. BackfillExact'
  <2>1. \A r \in history.from + 1 .. cursor : r \in 1 .. Len(wtmp)
    BY DEF TypeOK
  <2> QED  BY <1>1, <2>1 DEF CollectorInv, BackfillExact
<1> QED  BY <1>2, <1>3, <1>4, <1>5, <1>6 DEF CollectorInv

LEMMA RotateInv ==
  ASSUME TypeOK, CollectorInv, Rotate
  PROVE  CollectorInv'
<1>1. /\ UNCHANGED <<pc, wtmp, logfile, offset, cursor, entry>>
      /\ history' = [history EXCEPT !.upto = HistoryEnd]
  BY DEF Rotate
<1>2. history'.from = history.from /\ history'.upto = HistoryEnd
  BY <1>1 DEF TypeOK
<1>3. HistoryEnd' = HistoryEnd
  BY <1>1, <1>2, HistoryType DEF HistoryEnd, Growing
<1>4. PhaseInv'
  BY <1>1, <1>2, <1>3 DEF CollectorInv, PhaseInv
<1>5. EntryInv' /\ BackfillInv' /\ EntriesInOrder' /\ BackfillExact'
  BY <1>1, <1>2
     DEF CollectorInv, EntryInv, BackfillInv, EntriesInOrder, BackfillExact, Loggable
<1> QED  BY <1>4, <1>5 DEF CollectorInv

(* create_logfile() and OpenLog start a run with nothing written.          *)
LEMMA StartInv ==
  ASSUME TypeOK, CollectorInv, create_logfile \/ OpenLog
  PROVE  CollectorInv'
<1>1. /\ pc' \in {"create", "start"}
      /\ offset' \in {0, NotOpen}
      /\ pc' = "create" => /\ offset' = 0 /\ cursor' = first
                           /\ history' = [from |-> first, upto |-> Growing]
      /\ logfile'.cells = logfile.cells
      /\ UNCHANGED <<wtmp, entry>>
      /\ pc = "down"
  BY DEF create_logfile, OpenLog, TypeOK, wtmpVars
<1>2. entry = NoEntry /\ entry.ut = NoRecord /\ ~entry.begun
  BY <1>1 DEF CollectorInv, PhaseInv, NoEntry
<1>3. 1 .. offset' = {} /\ Len(logfile.cells) \in Nat
  BY <1>1 DEF NotOpen, TypeOK
<1>4. PhaseInv'
  <2>1. first \in Nat /\ first <= Len(wtmp)
    BY DEF TypeOK
  <2>2. pc' = "create" => /\ history'.from <= cursor' /\ cursor' <= HistoryEnd'
                          /\ HistoryEnd' <= Len(wtmp')
    BY <1>1, <2>1 DEF HistoryEnd
  <2> QED  BY <1>1, <1>2, <1>3, <2>2 DEF PhaseInv, NotOpen
<1>5. EntryInv' /\ BackfillInv' /\ EntriesInOrder' /\ BackfillExact'
  <2>1. pc' = "create" => history'.from + 1 .. cursor' = {}
    <3>1. first \in Nat
      BY DEF TypeOK
    <3> QED  BY <1>1, <3>1
  <2> QED
    BY <1>1, <1>2, <1>3, <2>1
     DEF EntryInv, BackfillInv, EntriesInOrder, BackfillExact, NoRecord
<1> QED  BY <1>4, <1>5 DEF CollectorInv

LEMMA GetutxentInv ==
  ASSUME TypeOK, CollectorInv, getutxent
  PROVE  CollectorInv'
<1>1. /\ pc = "create" /\ entry = NoEntry /\ entry.ut = NoRecord
      /\ UNCHANGED <<wtmp, history, logfile, offset>>
  BY DEF getutxent, NoEntry, wtmpVars
<1>2. EntriesInOrder'
  BY <1>1, SameEntries
<1>3. CASE cursor = HistoryEnd
  <2>1. pc' = "start" /\ UNCHANGED <<cursor, entry>>
    BY <1>3 DEF getutxent
  <2> QED
    BY <1>1, <1>2, <2>1
       DEF CollectorInv, PhaseInv, EntryInv, BackfillInv, BackfillExact, Loggable
<1>4. CASE cursor # HistoryEnd
  <2>1. /\ cursor' = cursor + 1
        /\ entry' = IF Loggable(cursor + 1) THEN Entry(cursor + 1) ELSE NoEntry
        /\ UNCHANGED pc
    BY <1>4 DEF getutxent
  <2>2. cursor \in Nat /\ \A i \in 1 .. offset : logfile.cells[i] \in Nat
    BY DEF TypeOK, CollectorInv, EntriesInOrder
  <2>3. \A i \in 1 .. offset : logfile.cells[i] <= cursor
    BY <1>1 DEF CollectorInv, BackfillInv
  <2>4. /\ entry'.ut = IF Loggable(cursor + 1) THEN cursor + 1 ELSE NoRecord
        /\ ~entry'.begun
    BY <2>1 DEF Entry, NoEntry
  <2>5. PhaseInv'
    <3>1. HistoryEnd' = HistoryEnd /\ HistoryEnd \in Nat /\ history.from \in Nat
      BY <1>1, HistoryType DEF HistoryEnd, TypeOK
    <3>2. /\ history.from <= cursor + 1 /\ cursor + 1 <= HistoryEnd
          /\ HistoryEnd <= Len(wtmp)
      BY <1>1, <1>4, <2>2, <3>1 DEF CollectorInv, PhaseInv
    <3> QED  BY <1>1, <2>1, <3>1, <3>2 DEF CollectorInv, PhaseInv
  <2>6. EntryInv'
    <3>1. entry'.ut # NoRecord => entry'.ut = cursor + 1 /\ Loggable(cursor + 1)
      BY <2>4
    <3>2. \A i \in 1 .. offset : logfile.cells[i] <= cursor + 1
      BY <2>2, <2>3
    <3>3. ~entry'.begun
      BY <2>4
    <3>4. CASE entry'.ut = NoRecord
      BY <3>3, <3>4 DEF EntryInv
    <3>5. CASE entry'.ut # NoRecord
      <4>1. entry'.ut = cursor + 1 /\ wtmp[cursor + 1] = "user_process"
        BY <3>1, <3>5 DEF Loggable
      <4>2. \A i \in 1 .. offset' : logfile'.cells[i] <= entry'.ut
        BY <1>1, <3>2, <4>1
      <4>3. Loggable(entry.ut)'
        BY <1>1, <4>1 DEF Loggable
      <4> QED  BY <3>3, <4>2, <4>3 DEF EntryInv
    <3> QED  BY <3>4, <3>5
  <2>7. BackfillInv'
    <3>1. history.from < cursor + 1
      BY <1>1, <2>2 DEF CollectorInv, PhaseInv, TypeOK
    <3>2. \A i \in 1 .. offset : /\ logfile.cells[i] <= cursor + 1
                                 /\ logfile.cells[i] < cursor + 1
      BY <2>2, <2>3
    <3> QED  BY <1>1, <2>1, <2>4, <3>1, <3>2 DEF BackfillInv
  <2>8. BackfillExact'
    <3>1. /\ \A i, j \in 1 .. offset : i < j => logfile.cells[i] < logfile.cells[j]
          /\ \A i \in 1 .. offset : history.from < logfile.cells[i]
      BY <1>1 DEF CollectorInv, BackfillExact
    <3>2. ASSUME NEW r \in history.from + 1 .. cursor + 1, Loggable(r), r # entry'.ut
          PROVE  \E i \in 1 .. offset : logfile.cells[i] = r
      <4>1. r # cursor + 1
        BY <2>4, <3>2
      <4>2. r \in history.from + 1 .. cursor /\ r # NoRecord
        BY <2>2, <4>1 DEF NoRecord, TypeOK
      <4> QED  BY <1>1, <3>2, <4>2 DEF CollectorInv, BackfillExact
    <3> QED  BY <1>1, <2>1, <3>1, <3>2 DEF BackfillExact, Loggable
  <2> QED  BY <1>2, <2>5, <2>6, <2>7, <2>8 DEF CollectorInv
<1> QED  BY <1>3, <1>4

(* The watch, the event and the last record: pc is past create_logfile().  *)
LEMMA WatchInv ==
  ASSUME TypeOK, CollectorInv, inotify_add_watch \/ ReadEvent
  PROVE  CollectorInv'
<1>1. /\ pc \in {"start", "loop"} /\ pc' \in {"loop", "notified"}
      /\ UNCHANGED <<wtmp, history, logfile, offset, cursor, entry>>
  BY DEF inotify_add_watch, ReadEvent, wtmpVars
<1>2. EntriesInOrder'
  BY <1>1, SameEntries
<1> QED
  BY <1>1, <1>2
     DEF CollectorInv, PhaseInv, EntryInv, BackfillInv, BackfillExact, Loggable

LEMMA ReadLastInv ==
  ASSUME TypeOK, CollectorInv, ReadLast
  PROVE  CollectorInv'
<1>1. /\ pc = "notified" /\ entry = NoEntry
      /\ UNCHANGED <<wtmp, first, history, logfile, offset, cursor>>
  BY DEF ReadLast, wtmpVars
<1>2. EntriesInOrder'
  BY <1>1, SameEntries
<1>3. CASE ~(first < Len(wtmp) /\ Loggable(Len(wtmp)))
  <2>1. pc' = "loop" /\ UNCHANGED entry
    BY <1>3 DEF ReadLast
  <2> QED
    BY <1>1, <1>2, <2>1
       DEF CollectorInv, PhaseInv, EntryInv, BackfillInv, BackfillExact, Loggable
<1>4. CASE first < Len(wtmp) /\ Loggable(Len(wtmp))
  <2>1. entry' = Entry(Len(wtmp)) /\ pc' = "notified"
    BY <1>1, <1>4 DEF ReadLast
  <2>2. entry'.ut = Len(wtmp) /\ ~entry'.begun
    BY <2>1 DEF Entry
  <2>3. \A i \in 1 .. offset : logfile.cells[i] <= Len(wtmp)
    BY DEF CollectorInv, EntriesInOrder, TypeOK
  <2>4. EntryInv'
    BY <1>1, <1>4, <2>2, <2>3 DEF EntryInv, Loggable
  <2> QED
    BY <1>1, <1>2, <2>1, <2>4
       DEF CollectorInv, PhaseInv, BackfillInv, BackfillExact
<1> QED  BY <1>3, <1>4

LEMMA DownInv ==
  ASSUME TypeOK, CollectorInv, Down, UNCHANGED <<wtmp, history, logfile>>
  PROVE  CollectorInv'
<1>1. entry'.ut = NoRecord /\ ~entry'.begun /\ offset' = NotOpen /\ 1 .. offset' = {}
  BY DEF Down, NoEntry, NotOpen
<1>2. PhaseInv'
  BY <1>1 DEF Down, PhaseInv, NotOpen, TypeOK
<1>3. EntryInv' /\ BackfillInv' /\ EntriesInOrder' /\ BackfillExact'
  BY <1>1 DEF Down, EntryInv, BackfillInv, EntriesInOrder, BackfillExact
<1> QED  BY <1>2, <1>3 DEF CollectorInv

LEMMA CellsFacts ==
  ASSUME TypeOK, CollectorInv
  PROVE  /\ logfile.cells \in Seq(Nat)
         /\ Len(logfile.cells) \in Nat
         /\ offset <= Len(logfile.cells)
         /\ \A r \in 1 .. Len(wtmp) : r \in Nat
BY DEF TypeOK, CollectorInv, PhaseInv

LEMMA BeginEntryInv ==
  ASSUME TypeOK, CollectorInv, BeginEntry
  PROVE  CollectorInv'
<1>1. CASE offset = NotOpen
  BY <1>1, DownInv DEF BeginEntry, wtmpVars
<1>2. CASE offset # NotOpen
  <2> DEFINE new == Put(logfile.cells, offset + 1, Torn)
  <2>1. /\ logfile'.cells = new
        /\ entry'.ut = entry.ut
        /\ entry # NoEntry /\ ~entry.begun
        /\ UNCHANGED <<pc, wtmp, history, offset, cursor>>
    BY <1>2 DEF BeginEntry, TypeOK, wtmpVars
  <2>2. offset \in Nat /\ entry.ut # NoRecord
    BY <1>2, <2>1 DEF TypeOK, NoEntry
  <2>3. /\ Len(new) >= Len(logfile.cells) /\ Len(new) >= offset + 1
        /\ Len(new) \in Nat
        /\ \A i \in 1 .. offset : new[i] = logfile.cells[i]
    <3> HIDE DEF new
    <3>1. Torn \in Nat
      BY DEF Torn
    <3> QED
      BY <2>2, <3>1, CellsFacts, PutFacts DEF new
  <2> HIDE DEF new
  <2>4. PhaseInv'
    <3>1. /\ offset <= Len(new)
          /\ HistoryEnd' = HistoryEnd
      BY <2>1, <2>2, <2>3 DEF HistoryEnd
    <3> QED  BY <2>1, <2>2, <3>1 DEF CollectorInv, PhaseInv, NoEntry
  <2>5. EntryInv'
    BY <1>2, <2>1, <2>2, <2>3 DEF CollectorInv, EntryInv, Loggable
  <2>6. BackfillInv'
    BY <2>1, <2>3 DEF CollectorInv, BackfillInv
  <2>7. EntriesInOrder'
    BY <2>1, <2>2, <2>3, PutFacts DEF CollectorInv, EntriesInOrder, Loggable
  <2>8. BackfillExact'
    BY <2>1, <2>3 DEF CollectorInv, BackfillExact, Loggable
  <2> QED  BY <2>4, <2>5, <2>6, <2>7, <2>8 DEF CollectorInv
<1> QED  BY <1>1, <1>2

LEMMA EndEntryInv ==
  ASSUME TypeOK, CollectorInv, EndEntry
  PROVE  CollectorInv'
<1> DEFINE new == Put(logfile.cells, offset + 1, entry.ut)
<1>1. /\ entry.begun
      /\ logfile'.cells = new
      /\ offset' = offset + 1
      /\ entry' = NoEntry /\ entry'.ut = NoRecord /\ ~entry'.begun
      /\ pc' = IF pc = "notified" THEN "loop" ELSE pc
      /\ UNCHANGED <<wtmp, history, cursor>>
  BY DEF EndEntry, TypeOK, NoEntry, wtmpVars
<1>2. offset \in Nat /\ entry.ut \in 1 .. Len(wtmp) /\ Loggable(entry.ut)
  BY <1>1 DEF CollectorInv, EntryInv, TypeOK, NoRecord
<1>3. /\ Len(new) \in Nat /\ Len(new) >= offset + 1
      /\ new[offset + 1] = entry.ut
      /\ \A i \in 1 .. offset : new[i] = logfile.cells[i]
  <2>1. entry.ut \in Nat
    BY <1>2, CellsFacts
  <2> HIDE DEF new
  <2>2. offset \in Nat /\ offset <= Len(logfile.cells)
    BY <1>2, CellsFacts
  <2> QED  BY <2>1, <2>2, CellsFacts, PutFacts DEF new
<1>4. \A i \in 1 .. offset : new[i] \in Nat /\ new[i] <= entry.ut
  BY <1>1, <1>2, <1>3 DEF CollectorInv, EntryInv, EntriesInOrder
<1>5. \A i \in 1 .. offset + 1 : i \in 1 .. offset \/ i = offset + 1
  BY <1>2
<1> HIDE DEF new
<1>6. PhaseInv'
  <2>1. HistoryEnd' = HistoryEnd
    BY <1>1 DEF HistoryEnd
  <2> QED  BY <1>1, <1>2, <1>3, <2>1 DEF CollectorInv, PhaseInv, NotOpen
<1>7. EntryInv'
  BY <1>1 DEF EntryInv
<1>8. EntriesInOrder'
  <2> SUFFICES ASSUME NEW i \in 1 .. offset + 1
               PROVE  /\ i <= Len(new)
                      /\ new[i] \in 1 .. Len(wtmp) /\ Loggable(new[i])
                      /\ \A j \in 1 .. i : new[j] <= new[i]
    BY <1>1 DEF EntriesInOrder, Loggable
  <2>1. CASE i \in 1 .. offset
    <3>1. \A j \in 1 .. i : j \in 1 .. offset
      BY <1>2, <2>1
    <3> QED
      BY <1>2, <1>3, <2>1, <3>1 DEF CollectorInv, EntriesInOrder
  <2>2. CASE i = offset + 1
    BY <1>2, <1>3, <1>4, <1>5, <2>2
  <2> QED  BY <1>5, <2>1, <2>2
<1>9. BackfillInv' /\ BackfillExact'
  <2> SUFFICES ASSUME pc = "create" PROVE BackfillInv' /\ BackfillExact'
    BY <1>1 DEF BackfillInv, BackfillExact
  <2>1. /\ entry.ut = cursor /\ history.from < cursor
        /\ \A i \in 1 .. offset : new[i] < cursor
    BY <1>2, <1>3 DEF CollectorInv, BackfillInv, NoRecord
  <2>2. BackfillInv'
    BY <1>1, <1>2, <1>3, <1>4, <1>5, <2>1 DEF BackfillInv
  <2>3. /\ \A i, j \in 1 .. offset + 1 : i < j => new[i] < new[j]
        /\ \A i \in 1 .. offset + 1 : history.from < new[i]
    <3>1. /\ \A i, j \in 1 .. offset : i < j => new[i] < new[j]
          /\ \A i \in 1 .. offset : history.from < new[i]
      BY <1>3 DEF CollectorInv, BackfillExact
    <3> QED  BY <1>2, <1>3, <1>5, <2>1, <3>1
  <2>4. ASSUME NEW r \in history.from + 1 .. cursor, Loggable(r)
        PROVE  \E i \in 1 .. offset + 1 : new[i] = r
    <3>1. CASE r = entry.ut
      <4>1. offset + 1 \in 1 .. offset + 1
        BY <1>2
      <4> QED  BY <1>3, <3>1, <4>1
    <3>2. CASE r # entry.ut
      <4>1. PICK i \in 1 .. offset : logfile.cells[i] = r
        BY <2>4, <3>2 DEF CollectorInv, BackfillExact
      <4>2. i \in 1 .. offset + 1
        BY <1>2
      <4> QED  BY <1>3, <4>1, <4>2
    <3> QED  BY <3>1, <3>2
  <2>5. BackfillExact'
    BY <1>1, <2>3, <2>4 DEF BackfillExact, Loggable
  <2> QED  BY <2>2, <2>5
<1> QED  BY <1>6, <1>7, <1>8, <1>9 DEF CollectorInv

(* Type correctness and the invariant, together.                           *)
THEOREM CollectorCorrect == Spec => [](TypeOK /\ CollectorInv)
<1>1. Init => TypeOK /\ CollectorInv  BY InitInv
<1>2. TypeOK /\ CollectorInv /\ [Next]_vars => (TypeOK /\ CollectorInv)'
  <2> SUFFICES ASSUME TypeOK, CollectorInv, [Next]_vars
               PROVE  TypeOK' /\ CollectorInv'
    OBVIOUS
  <2>1. TypeOK'  BY StepType DEF CollectorInv
  <2>2. ASSUME NEW kind \in Kinds, AppendRecord(kind) PROVE CollectorInv'
    BY <2>2, AppendRecordInv
  <2>3. CASE Rotate
    BY <2>1, <2>3, RotateInv
  <2>4. CASE Collector
    BY <2>1, <2>4, StartInv, GetutxentInv, WatchInv, ReadLastInv, BeginEntryInv,
       EndEntryInv DEF Collector
  <2>5. CASE Crash
    BY <2>1, <2>5, DownInv DEF Crash, wtmpVars
  <2>6. CASE UNCHANGED vars
    BY <2>1, <2>6 DEF vars, wtmpVars, CollectorInv, PhaseInv, EntryInv, BackfillInv,
                EntriesInOrder, BackfillExact, Loggable, HistoryEnd
  <2> QED  BY <2>1, <2>2, <2>3, <2>4, <2>5, <2>6 DEF Next
<1> QED  BY <1>1, <1>2, PTL DEF Spec

(* A run of the program writes whole, loggable records in wtmp's order,    *)
(* wherever logins, kills and restarts fall.                               *)
THEOREM LogIsOrdered == Spec => []EntriesInOrder
<1>1. TypeOK /\ CollectorInv => EntriesInOrder  BY DEF CollectorInv
<1> QED  BY <1>1, CollectorCorrect, PTL

(* create_logfile() logs each loggable record of the history exactly once. *)
THEOREM BackfillIsExact == Spec => []BackfillExact
<1>1. TypeOK /\ CollectorInv => BackfillExact  BY DEF CollectorInv
<1> QED  BY <1>1, CollectorCorrect, PTL

=============================================================================
