----------------------------- MODULE LogCollector -----------------------------
(***************************************************************************)
(* The data-collection half of imonitor.c: create_logfile() copies the     *)
(* wtmp history into ./auth.log at start-up, then main() appends the last  *)
(* wtmp record each time inotify reports a modification.  login(1) and its *)
(* kin append to wtmp at any moment, between any two system calls of the   *)
(* program; logrotate(8) renames the file and creates an empty one in its  *)
(* place; and the process may be killed and started again.                 *)
(*                                                                         *)
(* Records are numbered through all the files wtmp has been.  A log entry  *)
(* is one cell, as wide as any other; it holds the number of its record,   *)
(* or Torn while only some of the four write() calls of write_log() have   *)
(* been made.                                                              *)
(***************************************************************************)
EXTENDS Integers, Sequences

CONSTANTS
  RootLog,       \* whether /auth.log may exist: a set of booleans
  MaxRecords,    \* bound: records written
  MaxRotations,  \* bound: how often wtmp is rotated
  MaxCrashes     \* bound: how often the process is killed

ASSUME LogCollectorAssumption ==
  /\ RootLog \subseteq BOOLEAN
  /\ MaxRecords \in Nat
  /\ MaxRotations \in Nat
  /\ MaxCrashes \in Nat

VARIABLES
  pc,       \* where main() is
  wtmp,     \* the records, by ut_type
  first,    \* how many of them are in files rotated away
  rotated,  \* how often that happened
  watch,    \* the inotify watch: "none", "quiet" or "modified"
  watching, \* whether the file it is on is still called wtmp
  history,  \* the file getutxent() reads: it begins after record from and
            \* ends with record upto, or is the current one (Growing)
  logfile,  \* ./auth.log: whether it exists, and its cells
  offset,   \* cells before the file offset of logfd, or NotOpen
  cursor,   \* the record getutxent() has returned last
  entry,    \* what write_log() works on: record ut (NoRecord if none), and
            \* whether some of its parts are written
  crashes   \* how often the process has been killed

wtmpVars == <<wtmp, first, rotated>>
watchVars == <<watch, watching>>
vars == <<pc, wtmpVars, watchVars, history, logfile, offset, cursor, entry, crashes>>

Torn     == 0
NoRecord == 0
NotOpen  == -1
Growing  == -1
NoEntry  == [ut |-> NoRecord, begun |-> FALSE]
Entry(r) == [ut |-> r, begun |-> FALSE]

(* The ut_type values write_log() lets through, and the others.            *)
Kinds == {"user_process", "other"}
Loggable(r) == wtmp[r] = "user_process"

(* The last record of the file getutxent() reads.                          *)
HistoryEnd == IF history.upto = Growing THEN Len(wtmp) ELSE history.upto

(* Overwrite cell i of the file, or extend it by one.                      *)
Put(cells, i, x) ==
  IF i <= Len(cells) THEN [cells EXCEPT ![i] = x] ELSE Append(cells, x)

-----------------------------------------------------------------------------
Init ==
  /\ pc = "down"
  /\ wtmp = <<>>
  /\ first = 0
  /\ rotated = 0
  /\ watch = "none"
  /\ watching = FALSE
  /\ history = [from |-> 0, upto |-> 0]
  /\ logfile = [exists |-> FALSE, cells |-> <<>>]
  /\ offset = NotOpen
  /\ cursor = 0
  /\ entry = NoEntry
  /\ crashes = 0

(* A login, a logout or a boot appends a record to the file of that name;  *)
(* inotify, which watches a file and not a name, merges the modification   *)
(* with the one it has not delivered yet.                                  *)
AppendRecord(kind) ==
  /\ Len(wtmp) < MaxRecords
  /\ wtmp' = Append(wtmp, kind)
  /\ watch' = IF watching THEN "modified" ELSE watch
  /\ UNCHANGED <<pc, first, rotated, watching, history, logfile, offset, cursor,
                 entry, crashes>>

(* logrotate: what is open or watched goes on under another name.          *)
Rotate ==
  /\ rotated < MaxRotations
  /\ rotated' = rotated + 1
  /\ first' = Len(wtmp)
  /\ watching' = FALSE
  /\ history' = [history EXCEPT !.upto = HistoryEnd]
  /\ UNCHANGED <<pc, wtmp, watch, logfile, offset, cursor, entry, crashes>>

(* A mutant that opens the log with O_APPEND.                              *)
create_logfile_Appends ==
  /\ pc = "down"
  /\ FALSE \in RootLog
  /\ pc' = "create"
  /\ logfile' = [logfile EXCEPT !.exists = TRUE]
  /\ offset' = Len(logfile.cells)
  /\ history' = [from |-> first, upto |-> Growing]
  /\ cursor' = first
  /\ UNCHANGED <<wtmpVars, watchVars, entry, crashes>>

(* main(): file_exists(AUTH_LOG_PATH) skips the first character of         *)
(* "./auth.log" and so asks for /auth.log.  Without it create_logfile()    *)
(* opens the log, creating it if need be and never truncating it.          *)
create_logfile ==
  /\ pc = "down"
  /\ FALSE \in RootLog
  /\ pc' = "create"
  /\ logfile' = [logfile EXCEPT !.exists = TRUE]
  /\ offset' = 0
  /\ history' = [from |-> first, upto |-> Growing]
  /\ cursor' = first
  /\ UNCHANGED <<wtmpVars, watchVars, entry, crashes>>

(* With it, main() opens the log as it is, at offset 0, and does not look  *)
(* at the result.                                                          *)
OpenLog ==
  /\ pc = "down"
  /\ TRUE \in RootLog
  /\ pc' = "start"
  /\ offset' = IF logfile.exists THEN 0 ELSE NotOpen
  /\ UNCHANGED <<wtmpVars, watchVars, history, logfile, cursor, entry, crashes>>

(* One turn of the loop in create_logfile(): the next record, or the end.  *)
getutxent ==
  /\ pc = "create" /\ entry = NoEntry
  /\ IF cursor = HistoryEnd
     THEN pc' = "start" /\ UNCHANGED <<cursor, entry>>
     ELSE /\ cursor' = cursor + 1
          /\ entry' = IF Loggable(cursor + 1) THEN Entry(cursor + 1) ELSE NoEntry
          /\ UNCHANGED pc
  /\ UNCHANGED <<wtmpVars, watchVars, history, logfile, offset, crashes>>

inotify_add_watch ==
  /\ pc = "start"
  /\ pc' = "loop"
  /\ watch' = "quiet"
  /\ watching' = TRUE
  /\ UNCHANGED <<wtmpVars, history, logfile, offset, cursor, entry, crashes>>

(* The inotify branch of the main loop: read() takes everything reported   *)
(* so far ...                                                              *)
ReadEvent ==
  /\ pc = "loop" /\ watch = "modified"
  /\ pc' = "notified"
  /\ watch' = "quiet"
  /\ UNCHANGED <<wtmpVars, watching, history, logfile, offset, cursor, entry, crashes>>

(* ... and open(), lseek() and read() take the record that is last by then *)
(* in the file of that name; if that is empty, lseek() fails, read() gets  *)
(* nothing and ut stays zeroed, which is not a type write_log() logs.  And *)
(* mutants that seek from the start, or that forget the memset(), so that  *)
(* an empty file logs what is on the stack, which is no record of wtmp.    *)
ReadLast_SeekSet ==
  /\ pc = "notified" /\ entry = NoEntry
  /\ IF first < Len(wtmp) /\ Loggable(first + 1)
     THEN entry' = Entry(first + 1) /\ UNCHANGED pc
     ELSE pc' = "loop" /\ UNCHANGED entry
  /\ UNCHANGED <<wtmpVars, watchVars, history, logfile, offset, cursor, crashes>>

ReadLast_NoMemset ==
  /\ pc = "notified" /\ entry = NoEntry
  /\ IF first = Len(wtmp) THEN entry' = Entry(Len(wtmp) + 1) /\ UNCHANGED pc
     ELSE IF Loggable(Len(wtmp)) THEN entry' = Entry(Len(wtmp)) /\ UNCHANGED pc
     ELSE pc' = "loop" /\ UNCHANGED entry
  /\ UNCHANGED <<wtmpVars, watchVars, history, logfile, offset, cursor, crashes>>

ReadLast ==
  /\ pc = "notified" /\ entry = NoEntry
  /\ IF first < Len(wtmp) /\ Loggable(Len(wtmp))
     THEN entry' = Entry(Len(wtmp)) /\ UNCHANGED pc
     ELSE pc' = "loop" /\ UNCHANGED entry
  /\ UNCHANGED <<wtmpVars, watchVars, history, logfile, offset, cursor, crashes>>

-----------------------------------------------------------------------------
(* write_log(), by its four write() calls: the first ones, and the last.   *)

Down ==
  /\ pc' = "down"
  /\ watch' = "none"
  /\ watching' = FALSE
  /\ offset' = NotOpen
  /\ cursor' = 0
  /\ entry' = NoEntry

(* DIE("write failed") when logfd is not open.                             *)
BeginEntry ==
  /\ entry # NoEntry /\ ~entry.begun
  /\ IF offset = NotOpen
     THEN Down /\ UNCHANGED logfile
     ELSE /\ logfile' = [logfile EXCEPT !.cells = Put(@, offset + 1, Torn)]
          /\ entry' = [entry EXCEPT !.begun = TRUE]
          /\ UNCHANGED <<pc, watchVars, offset, cursor>>
  /\ UNCHANGED <<wtmpVars, history, crashes>>

EndEntry ==
  /\ entry.begun
  /\ logfile' = [logfile EXCEPT !.cells = Put(@, offset + 1, entry.ut)]
  /\ offset' = offset + 1
  /\ entry' = NoEntry
  /\ pc' = IF pc = "notified" THEN "loop" ELSE pc
  /\ UNCHANGED <<wtmpVars, watchVars, history, cursor, crashes>>

Crash ==
  /\ pc # "down"
  /\ crashes < MaxCrashes
  /\ crashes' = crashes + 1
  /\ Down
  /\ UNCHANGED <<wtmpVars, history, logfile>>

-----------------------------------------------------------------------------
Collector ==
  \/ create_logfile
  \/ OpenLog
  \/ getutxent
  \/ inotify_add_watch
  \/ ReadEvent
  \/ ReadLast
  \/ BeginEntry
  \/ EndEntry

Next ==
  \/ \E kind \in Kinds : AppendRecord(kind)
  \/ Rotate
  \/ Collector
  \/ Crash

Spec == Init /\ [][Next]_vars

(* The process is started whenever it is down, and it runs.                *)
FairSpec == Spec /\ WF_vars(Collector)

-----------------------------------------------------------------------------
(* Properties.                                                             *)

TypeOK ==
  /\ pc \in {"down", "create", "start", "loop", "notified"}
  /\ wtmp \in Seq(Kinds)
  /\ first \in 0 .. Len(wtmp)
  /\ rotated \in 0 .. MaxRotations
  /\ watch \in {"none", "quiet", "modified"}
  /\ watching \in BOOLEAN
  /\ history \in [from : Nat, upto : Nat \cup {Growing}]
  /\ logfile \in [exists : BOOLEAN, cells : Seq(Nat)]
  /\ offset \in Nat \cup {NotOpen}
  /\ cursor \in 0 .. Len(wtmp)
  /\ entry \in [ut : 0 .. Len(wtmp), begun : BOOLEAN]
  /\ crashes \in 0 .. MaxCrashes

(* What this run of the program has written is whole records of wtmp, of   *)
(* the types write_log() lets through and in the order of wtmp, whatever   *)
(* an earlier, interrupted run has left in the file.                       *)
EntriesInOrder ==
  \A i \in 1 .. offset :
    /\ i <= Len(logfile.cells)
    /\ logfile.cells[i] \in 1 .. Len(wtmp) /\ Loggable(logfile.cells[i])
    /\ \A j \in 1 .. i : logfile.cells[j] <= logfile.cells[i]

(* create_logfile() copies each record of the history once: until the      *)
(* watch is set, the log holds exactly the loggable records read so far of *)
(* the file setutxent() opened, even if it is rotated away meanwhile.      *)
BackfillExact ==
  pc = "create" =>
    /\ \A i, j \in 1 .. offset : i < j => logfile.cells[i] < logfile.cells[j]
    /\ \A i \in 1 .. offset : history.from < logfile.cells[i]
    /\ \A r \in history.from + 1 .. cursor :
         Loggable(r) /\ r # entry.ut => \E i \in 1 .. offset : logfile.cells[i] = r

(* What the two properties above rest on: the record in hand is loggable   *)
(* and not older than what has been written, nor, in create_logfile(),     *)
(* already written; and each phase of main() has the state it works on.    *)
PhaseInv ==
  /\ pc \in {"down", "start", "loop"} => entry = NoEntry
  /\ pc = "down" => offset = NotOpen
  /\ pc = "create" => offset # NotOpen
  /\ pc = "create" => /\ history.from <= cursor /\ cursor <= HistoryEnd
                      /\ HistoryEnd <= Len(wtmp)
  /\ offset <= Len(logfile.cells)

EntryInv ==
  /\ entry.ut # NoRecord =>
       /\ Loggable(entry.ut)
       /\ \A i \in 1 .. offset : logfile.cells[i] <= entry.ut
  /\ entry.begun => /\ entry.ut # NoRecord /\ offset # NotOpen
                    /\ offset + 1 <= Len(logfile.cells)

BackfillInv ==
  pc = "create" =>
    /\ \A i \in 1 .. offset : logfile.cells[i] <= cursor
    /\ entry.ut # NoRecord =>
         /\ entry.ut = cursor /\ history.from < cursor
         /\ \A i \in 1 .. offset : logfile.cells[i] < cursor

CollectorInv ==
  /\ PhaseInv
  /\ EntryInv
  /\ BackfillInv
  /\ EntriesInOrder
  /\ BackfillExact

(* A record appended while the watch is set reaches the log, unless a      *)
(* later one overtakes it, its file is rotated away or the process ends.   *)
LastLoginLogged ==
  \A r \in 1 .. MaxRecords :
    (watch = "modified" /\ r = Len(wtmp) /\ Loggable(r)) ~>
      \/ \E i \in 1 .. Len(logfile.cells) : logfile.cells[i] = r
      \/ Len(wtmp) > r \/ first >= r
      \/ pc = "down"

=============================================================================
