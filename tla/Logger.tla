------------------------------- MODULE Logger -------------------------------
(***************************************************************************)
(* AsyncLogger and its handlers, of mtaio/logging/logger.py.  A handler    *)
(* queues records for a processor task, which writes them to a file and    *)
(* rotates it; an AsyncFileHandler is one that never rotates.              *)
(*                                                                         *)
(* A record is its number, its level and its size.  Writing may fail (the  *)
(* formatter raises, the disk is full); then the record is reported to     *)
(* stderr and dropped.  The formatter is given a dict: logging.Formatter,  *)
(* the default, raises on every one, so a handler outside DictFormatters   *)
(* writes no record at all.  The queues are unbounded, so handle() and     *)
(* with it the whole of _log() runs without a suspension.                  *)
(***************************************************************************)
EXTENDS Naturals, Sequences, SequencesExt, FiniteSets

CONSTANTS
  Handlers, HandlerLevel,
  DictFormatters,          \* the handlers with a formatter of their own that takes a dict
  MaxBytes, BackupCount,
  Closers,                 \* tasks that call remove_handler() or close()
  Levels, Sizes,
  Nothing,
  MaxRecords, MaxCloses, MaxLogFaults     \* bounds

End == [id |-> 0, level |-> 0, size |-> 0]     \* None in the code
Record == [id : 1..MaxRecords, level : Levels, size : Sizes]

ASSUME LogAssumption ==
  /\ Sizes \subseteq Nat /\ {MaxBytes, BackupCount, MaxRecords} \subseteq Nat
  /\ Nothing \notin Seq(Record)

VARIABLES
  handlers,     \* AsyncLogger._handlers
  queue,        \* per handler its queue of records and end markers
  processor,    \* its task: none, running, ended or cancelled
  shut,         \* its flag _closed
  file, size,   \* the records in its file, and _current_size
  backups,      \* the records in each backup, .1 first
  closer,       \* the call of each closer
  logged, closes,   \* the records logged, the calls of closers
  due, dealt, \* per handler the records it took before the first end marker,
                \* and those its processor has dealt with
  written,      \* those it wrote to its file
  failures, restarts

logVars == <<handlers, queue, processor, shut, file, size, backups, closer, logged,
             closes, due, dealt, written, failures, restarts>>
diskVars == <<file, size, backups, written, failures>>

Ended == {"ended", "cancelled"}

-----------------------------------------------------------------------------
(* AsyncLogger *)

\* _log(): every handler that is open and takes the level queues the record.
Log(level, bytes) ==
  LET r == [id |-> logged + 1, level |-> level, size |-> bytes]
      Takes(h) == h \in Range(handlers) /\ ~shut[h] /\ level >= HandlerLevel[h]
  IN /\ logged < MaxRecords
     /\ logged' = logged + 1
     /\ queue' = [h \in Handlers |-> IF Takes(h) THEN Append(queue[h], r) ELSE queue[h]]
     /\ due' = [h \in Handlers |->
          IF Takes(h) /\ End \notin Range(queue[h]) /\ processor[h] = "running"
            THEN due[h] \cup {r} ELSE due[h]]
     /\ UNCHANGED <<handlers, processor, shut, diskVars, closer, closes, dealt, restarts>>

\* add_handler(): start() makes a task unless the handler has one.
AddHandler(h) ==
  /\ h \notin Range(handlers)
  /\ handlers' = Append(handlers, h)
  /\ processor' = [processor EXCEPT ![h] = IF @ = "none" THEN "running" ELSE @]
  /\ UNCHANGED <<queue, shut, diskVars, closer, logged, closes, due, dealt, restarts>>

\* The closer t stops the handler h, up to stop()'s await.  A handler without a
\* task is not stopped at all.
Stopping(t, h, next) ==
  /\ queue' = IF processor[h] = "none" THEN queue ELSE [queue EXCEPT ![h] = Append(@, End)]
  /\ closer' = [closer EXCEPT ![t] = [handler |-> h, next |-> next]]

Calls == closes < MaxCloses /\ closes' = closes + 1

\* close() goes through the list by position.
Close(t) ==
  /\ closer[t] = Nothing /\ handlers # <<>> /\ Calls
  /\ Stopping(t, handlers[1], 2)
  /\ UNCHANGED <<handlers, processor, shut, diskVars, logged, due, dealt, restarts>>

RemoveHandler(t, h) ==
  /\ closer[t] = Nothing /\ h \in Range(handlers) /\ Calls
  /\ Stopping(t, h, 0)
  /\ UNCHANGED <<handlers, processor, shut, diskVars, logged, due, dealt, restarts>>

\* stop() awaits the task; setting _closed without that would lose records.
StoppedAtOnce(h) == processor[h] # "cancelled"
Stopped(h) == processor[h] \in {"none", "ended"}

\* stop() returns: the task has ended, the handler is closed.  remove_handler()
\* takes it off the list; close() stops the next one or clears the list.
StopReturns(t) ==
  /\ closer[t] # Nothing
  /\ LET h == closer[t].handler
         i == closer[t].next
     IN /\ Stopped(h)
        /\ processor' = [processor EXCEPT ![h] = "none"]
        /\ shut' = [shut EXCEPT ![h] = @ \/ processor[h] # "none"]
        /\ IF i = 0
           THEN /\ handlers' = RemoveFirst(handlers, h)
                /\ closer' = [closer EXCEPT ![t] = Nothing] /\ UNCHANGED queue
           ELSE IF i <= Len(handlers)
           THEN Stopping(t, handlers[i], i + 1) /\ UNCHANGED handlers
           ELSE /\ handlers' = <<>>
                /\ closer' = [closer EXCEPT ![t] = Nothing] /\ UNCHANGED queue
  /\ UNCHANGED <<diskVars, logged, closes, due, dealt, restarts>>

\* stop() is cancelled while it awaits the processor, which is cancelled with it,
\* or awaits one that was: the call ends there and the handler stays as it is.
StopCancelled(t) ==
  /\ closer[t] # Nothing
  /\ LET h == closer[t].handler IN
       /\ processor[h] \in {"running", "cancelled"}
       /\ processor' = [processor EXCEPT ![h] = "cancelled"]
  /\ closer' = [closer EXCEPT ![t] = Nothing]
  /\ UNCHANGED <<handlers, queue, shut, diskVars, logged, closes, due, dealt, restarts>>

-----------------------------------------------------------------------------
(* The handlers *)

\* _rotate(): the backups move up by one and the oldest is overwritten.  The file
\* becomes a backup even if none are wanted.
Backups == IF BackupCount = 0 THEN 1 ELSE BackupCount
Rotated(h) ==
  LET moved == <<file[h]>> \o backups[h]
  IN SubSeq(moved, 1, IF Backups < Len(moved) THEN Backups ELSE Len(moved))

\* AsyncRotatingFileHandler._handle(): formatting fails before the file is touched
\* (where nothing rotates it may be open by then), printing when it is opened or
\* rotated already.
WriteRecord(h, r) ==
  LET full == MaxBytes > 0 /\ size[h] + r.size > MaxBytes
      base == IF full \/ file[h] = Nothing THEN <<>> ELSE file[h]
      counted == IF full THEN 0 ELSE size[h]
      Formats == h \in DictFormatters
      Fails == IF Formats THEN failures + restarts < MaxLogFaults /\ failures' = failures + 1
                          ELSE UNCHANGED failures
      Opens == backups' = [backups EXCEPT ![h] =
                             IF full /\ file[h] # Nothing THEN Rotated(h) ELSE @]
  IN \/ Fails /\ UNCHANGED <<file, size, backups, written>>
     \/ /\ Formats \/ MaxBytes = 0
        /\ Fails /\ Opens
        /\ file' = [file EXCEPT ![h] = base] /\ size' = [size EXCEPT ![h] = counted]
        /\ UNCHANGED written
     \/ /\ Formats
        /\ Opens
        /\ file' = [file EXCEPT ![h] = Append(base, r)]
        /\ size' = [size EXCEPT ![h] = counted + r.size]
        /\ written' = [written EXCEPT ![h] = Append(@, r)]
        /\ UNCHANGED failures

\* _processor(): a turn of the loop.
ProcessRecord(h) ==
  /\ processor[h] = "running" /\ queue[h] # <<>>
  /\ queue' = [queue EXCEPT ![h] = Tail(@)]
  /\ LET r == Head(queue[h]) IN
       IF r = End
       THEN /\ processor' = [processor EXCEPT ![h] = "ended"]
            /\ UNCHANGED <<diskVars, dealt>>
       ELSE /\ WriteRecord(h, r)
            /\ dealt' = [dealt EXCEPT ![h] = @ \cup {r}]
            /\ UNCHANGED processor
  /\ UNCHANGED <<handlers, shut, closer, logged, closes, due, restarts>>

\* The program ends and starts again: the files stay, and the new handlers
\* count their sizes from zero.
Restart ==
  /\ failures + restarts < MaxLogFaults
  /\ restarts' = restarts + 1
  /\ handlers' = <<>>
  /\ queue' = [h \in Handlers |-> <<>>] /\ processor' = [h \in Handlers |-> "none"]
  /\ shut' = [h \in Handlers |-> FALSE] /\ size' = [h \in Handlers |-> 0]
  /\ closer' = [t \in Closers |-> Nothing]
  /\ due' = [h \in Handlers |-> {}] /\ dealt' = [h \in Handlers |-> {}]
  /\ UNCHANGED <<file, backups, logged, closes, written, failures>>

-----------------------------------------------------------------------------
LogInit ==
  /\ handlers = <<>> /\ logged = 0 /\ closes = 0 /\ failures = 0 /\ restarts = 0
  /\ queue = [h \in Handlers |-> <<>>] /\ processor = [h \in Handlers |-> "none"]
  /\ shut = [h \in Handlers |-> FALSE] /\ file = [h \in Handlers |-> Nothing]
  /\ size = [h \in Handlers |-> 0] /\ backups = [h \in Handlers |-> <<>>]
  /\ closer = [t \in Closers |-> Nothing]
  /\ due = [h \in Handlers |-> {}] /\ dealt = [h \in Handlers |-> {}]
  /\ written = [h \in Handlers |-> <<>>]

LogNext ==
  \/ \E level \in Levels, bytes \in Sizes : Log(level, bytes)
  \/ \E h \in Handlers : AddHandler(h) \/ ProcessRecord(h)
  \/ \E t \in Closers : Close(t) \/ StopReturns(t) \/ StopCancelled(t)
  \/ \E t \in Closers, h \in Handlers : RemoveHandler(t, h)
  \/ Restart

LogSpec == LogInit /\ [][LogNext]_logVars

-----------------------------------------------------------------------------
LogTypeOK ==
  /\ handlers \in Seq(Handlers) /\ IsInjective(handlers)
  /\ \A h \in Handlers :
       /\ queue[h] \in Seq(Record \cup {End}) /\ processor[h] \in {"none", "running"} \cup Ended
       /\ size[h] \in Nat /\ shut[h] \in BOOLEAN
       /\ Len(backups[h]) <= Backups
       /\ dealt[h] \subseteq Record

\* The records of s are numbered in their order.
Rising(s) == \A i, j \in 1..Len(s) : i < j => s[i].id < s[j].id

\* When a handler is closed, what it took before it was told to stop has been dealt
\* with, whoever else stops it meanwhile; and its backups and its file hold, in the
\* order in which they were logged, the last of the records it wrote.
LogKept ==
  \A h \in Handlers :
    LET files == <<IF file[h] = Nothing THEN <<>> ELSE file[h]>> \o backups[h]
        kept == UNION {Range(files[i]) : i \in 1..Len(files)}
    IN /\ shut[h] => due[h] \subseteq dealt[h]
       /\ Rising(written[h]) /\ \A i \in 1..Len(files) : Rising(files[i])
       /\ \A i, j \in 1..Len(files) : i < j =>
            \A r \in Range(files[i]), q \in Range(files[j]) : q.id < r.id
       /\ kept \subseteq Range(written[h])
       /\ \A r \in Range(written[h]), q \in kept : q.id < r.id => r \in kept
=============================================================================
