--------------------------- MODULE BulkOperations ---------------------------
(***************************************************************************)
(* mtaio.decorators.control.with_bulk_operations: calls that add an item   *)
(* each to one batch, and flushes of it.  (Batches of different batch_id   *)
(* share nothing; flush_all() flushes one after the other.)                *)
(*                                                                         *)
(* A call takes the batch's lock three times: to append, to see whether a  *)
(* flush is due, and to flush.  Only a flush suspends while it holds the   *)
(* lock, in func.  The lock is fair, so a section finds it free and runs   *)
(* on, or waits in line.                                                   *)
(***************************************************************************)
EXTENDS Integers, Sequences, FiniteSets, SequencesExt

CONSTANTS BatchSize,
          FlushInterval,
          MaxItems,       \* bound: calls, each with an item of its own
          Timer           \* a task that calls flush() or flush_all()

ASSUME BulkAssumption ==
  /\ BatchSize \in Nat \ {0} /\ FlushInterval \in Nat /\ MaxItems \in Nat
  /\ Timer \notin 1..MaxItems

VARIABLES batch,        \* batches[batch_id]
          sinceFlush,   \* now - last_flush_time[batch_id]
          given,        \* the items that func is awaited with, under the lock
          bulkLine,     \* who waits for the lock, and to do what
          calls,        \* calls so far; the call and its item have one number
          added,        \* history: the items appended
          flushed       \* history: how often func was given each item and returned

bulkVars == <<batch, sinceFlush, given, bulkLine, calls, added, flushed>>

ItemNumbers == 1..MaxItems
Sections == {"append", "check", "flush"}
Waiter == [who : ItemNumbers \cup {Timer}, section : Sections]

BulkInit ==
  /\ batch = <<>> /\ sinceFlush = 0
  /\ given = <<>> /\ bulkLine = <<>>
  /\ calls = 0 /\ added = {} /\ flushed = [i \in ItemNumbers |-> 0]

-----------------------------------------------------------------------------
\* The sections of a call from the one it has the lock for up to its next wait,
\* with `rest' in line behind it and the batch b: after each section the call
\* goes on if nobody is in line, or joins the line.
FlushSection(b, rest) ==
  /\ batch' = b
  /\ given' = b
  /\ bulkLine' = rest

CheckSection(who, b, rest) ==
  IF Len(b) >= BatchSize \/ sinceFlush >= FlushInterval
  THEN IF rest = <<>>
       THEN FlushSection(b, rest)
       ELSE /\ bulkLine' = Append(rest, [who |-> who, section |-> "flush"])
            /\ batch' = b /\ UNCHANGED given
  ELSE batch' = b /\ bulkLine' = rest /\ UNCHANGED given

AppendSection(who, rest) ==
  IF rest = <<>>
  THEN CheckSection(who, Append(batch, who), rest)
  ELSE /\ batch' = Append(batch, who)
       /\ bulkLine' = Append(rest, [who |-> who, section |-> "check"])
       /\ UNCHANGED given

\* Mutant of Enter: a call appends without the lock.
EnterUnlocked(w) ==
  IF w.section = "append"
  THEN /\ AppendSection(w.who, bulkLine)
       /\ added' = added \cup {w.who}
  ELSE /\ UNCHANGED added
       /\ IF given = <<>> /\ bulkLine = <<>>
          THEN FlushSection(batch, bulkLine)
          ELSE bulkLine' = Append(bulkLine, w) /\ UNCHANGED <<batch, given>>

\* async with locks[batch_id]
Enter(w) ==
  IF given = <<>> /\ bulkLine = <<>>
  THEN IF w.section = "append"
       THEN AppendSection(w.who, <<>>) /\ added' = added \cup {w.who}
       ELSE FlushSection(batch, <<>>) /\ UNCHANGED added
  ELSE bulkLine' = Append(bulkLine, w) /\ UNCHANGED <<batch, given, added>>

\* The decorated function is called with an item.  The first call makes the batch.
Wrapper ==
  /\ calls < MaxItems
  /\ calls' = calls + 1
  /\ Enter([who |-> calls + 1, section |-> "append"])
  /\ UNCHANGED <<sinceFlush, flushed>>

Flush ==
  /\ calls > 0
  /\ \A i \in 1..Len(bulkLine) : bulkLine[i].who # Timer
  /\ Enter([who |-> Timer, section |-> "flush"])
  /\ UNCHANGED <<sinceFlush, calls, flushed>>

LockGranted ==
  /\ given = <<>> /\ bulkLine # <<>>
  /\ LET w == Head(bulkLine) IN
       CASE w.section = "append" -> /\ AppendSection(w.who, Tail(bulkLine))
                                    /\ added' = added \cup {w.who}
         [] w.section = "check" -> /\ CheckSection(w.who, batch, Tail(bulkLine))
                                   /\ UNCHANGED added
         [] w.section = "flush" -> /\ FlushSection(batch, Tail(bulkLine))
                                   /\ UNCHANGED added
  /\ UNCHANGED <<sinceFlush, calls, flushed>>

\* func returns: the batch is emptied.
FlushReturns ==
  /\ given # <<>>
  /\ flushed' = [i \in ItemNumbers |->
                   flushed[i] + Cardinality({j \in 1..Len(given) : given[j] = i})]
  /\ batch' = <<>>
  /\ sinceFlush' = 0
  /\ given' = <<>>
  /\ UNCHANGED <<bulkLine, calls, added>>

\* func raises, or its caller is cancelled: the batch stays as it is.
FlushFails ==
  /\ given # <<>>
  /\ given' = <<>>
  /\ UNCHANGED <<batch, sinceFlush, bulkLine, calls, added, flushed>>

\* A call is cancelled while it waits in line.
CancelInLine(w) ==
  /\ bulkLine' = RemoveFirst(bulkLine, w)
  /\ UNCHANGED <<batch, sinceFlush, given, calls, added, flushed>>

BulkTick ==
  /\ sinceFlush < FlushInterval
  /\ sinceFlush' = sinceFlush + 1
  /\ UNCHANGED <<batch, given, bulkLine, calls, added, flushed>>

BulkNext ==
  \/ Wrapper \/ Flush \/ LockGranted \/ FlushReturns \/ FlushFails \/ BulkTick
  \/ \E w \in Range(bulkLine) : CancelInLine(w)

BulkSpec == BulkInit /\ [][BulkNext]_bulkVars

-----------------------------------------------------------------------------
BulkTypeOK ==
  /\ batch \in Seq(ItemNumbers) /\ sinceFlush \in 0..FlushInterval
  /\ given \in Seq(ItemNumbers) /\ bulkLine \in Seq(Waiter)
  /\ calls \in 0..MaxItems /\ added \subseteq ItemNumbers
  /\ flushed \in [ItemNumbers -> Nat]

\* An item that was added is in the batch until a func that was given it has
\* returned, and never afterwards: items added while func awaits are not
\* cleared with the others, and a flush that fails or is cancelled keeps what it
\* had for the next one.
ItemsKept ==
  \A i \in added :
    Cardinality({j \in 1..Len(batch) : batch[j] = i}) + flushed[i] = 1
=============================================================================
