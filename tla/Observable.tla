----------------------------- MODULE Observable -----------------------------
(***************************************************************************)
(* ObservableValue and ObservableDict of mtaio/data/observable.py, and the *)
(* notification of Observable they share.  Tasks change cells (the value,  *)
(* or the keys of the dictionary) and then notify under the lock, which    *)
(* asyncio gives to its waiters in order.                                  *)
(*                                                                         *)
(* One observer is asynchronous and its on_change() takes time; another is *)
(* synchronous, and may raise or be gone.  on_change callbacks registered  *)
(* with the decorator are not among them: nothing but a weak reference is  *)
(* left of them.  _in_batch stays False, for batch_operations() cannot be  *)
(* entered: it is a contextmanager around an asynchronous generator.       *)
(***************************************************************************)
EXTENDS Naturals, Sequences, SequencesExt, FiniteSets

CONSTANTS Setters, Cells, CellValues, Absent, Observer,
          MaxChanges, MaxLost     \* bounds

Announcement ==
  [path : Cells, old : CellValues \cup {Absent}, value : CellValues \cup {Absent}]

ASSUME ObsAssumption ==
  /\ Observer \notin Setters /\ Absent \notin Setters \cup {Observer}
  /\ Absent \notin Announcement

VARIABLES
  cells,       \* _value, or the entries of the dictionary
  started,     \* their values at the beginning
  isDict,      \* the object is an ObservableDict
  pending,     \* the change each task is to announce
  turn,        \* the tasks in the queue of the lock, the holder first
  reacting,    \* the asynchronous observer's calls, and who awaits them
  observed,    \* it is registered
  seen,        \* the changes it has dealt with
  changes,     \* how many were made
  lost         \* cells with a change that was not announced

obsVars == <<cells, started, isDict, pending, turn, reacting, observed, seen, changes, lost>>

Change(c, old, new) == [path |-> c, old |-> old, value |-> new]

\* async with self._lock, when the lock is free or not.
Enqueue(t, change) ==
  /\ pending' = [pending EXCEPT ![t] = change]
  /\ turn' = Append(turn, t)

\* set(), aset() and adelete() up to their first suspension: the cell changes
\* at once, whoever is still announcing an earlier change.
Alter(t, c, new) ==
  /\ pending[t] = Absent /\ changes < MaxChanges
  /\ isDict \/ (new # Absent /\ new # cells[c])
  /\ new = Absent => cells[c] # Absent
  /\ cells' = [cells EXCEPT ![c] = new]
  /\ changes' = changes + 1
  /\ Enqueue(t, Change(c, cells[c], new))
  /\ UNCHANGED <<started, isDict, reacting, observed, seen, lost>>

\* The task at the head holds the lock, and has the observers to call as long as
\* it awaits none of them.
Awaits(t) == \E r \in reacting : r.by = t
HasLockAnyway(t) == t \in Range(turn)
HasLock(t) == turn # <<>> /\ Head(turn) = t /\ ~Awaits(t)

Leave(t) ==
  /\ turn' = RemoveFirst(turn, t)
  /\ pending' = [pending EXCEPT ![t] = Absent]

\* notify() with the lock: the observers are called, in any order.  If the
\* synchronous one raises, those after it are not, and the task made for the one
\* before it runs unattended.
Notify(t) ==
  /\ HasLock(t)
  /\ \/ /\ observed
        /\ reacting' = reacting \cup {[change |-> pending[t], by |-> t]}
        /\ UNCHANGED <<pending, turn, lost>>
     \/ /\ ~observed \/ Cardinality(lost) < MaxLost
        /\ lost' = lost \cup {pending[t].path}
        /\ Leave(t)
        /\ \/ UNCHANGED reacting
           \/ observed /\ reacting' = reacting \cup {[change |-> pending[t], by |-> Absent]}
  /\ UNCHANGED <<cells, started, isDict, observed, seen, changes>>

\* The asynchronous observer returns or raises, which gather() ignores; notify()
\* gives the lock to the next task.
Reacted(r) ==
  /\ r \in reacting /\ (r.by = Absent \/ Observer \notin Range(turn))
  /\ seen' = Append(seen, r.change)
  /\ reacting' = reacting \ {r}
  /\ IF r.by = Absent THEN UNCHANGED <<turn, pending>> ELSE Leave(r.by)
  /\ UNCHANGED <<cells, started, isDict, observed, changes, lost>>

\* It changes a cell itself and so waits for the lock that its caller holds: the
\* object never notifies again.
ObserverSets(c, new) ==
  /\ turn # <<>> /\ Awaits(Head(turn))
  /\ Alter(Observer, c, new)

\* A task is cancelled: in the queue, and its change is not announced; or while
\* the observer runs, which is cancelled with it.
CancelSetter(t) ==
  /\ pending[t] # Absent /\ Cardinality(lost) < MaxLost
  /\ IF Awaits(t) /\ pending[Observer] # Absent
     THEN /\ lost' = lost \cup {pending[t].path, pending[Observer].path}
          /\ turn' = RemoveFirst(RemoveFirst(turn, t), Observer)
          /\ pending' = [pending EXCEPT ![t] = Absent, ![Observer] = Absent]
     ELSE lost' = lost \cup {pending[t].path} /\ Leave(t)
  /\ reacting' = {r \in reacting : r.by # t}
  /\ UNCHANGED <<cells, started, isDict, observed, seen, changes>>

\* add_observer(), remove_observer(); or the observer is collected.
AddObserver ==
  /\ ~observed /\ observed' = TRUE
  /\ UNCHANGED <<cells, started, isDict, pending, turn, reacting, seen, changes, lost>>
RemoveObserver ==
  /\ observed /\ observed' = FALSE
  /\ UNCHANGED <<cells, started, isDict, pending, turn, reacting, seen, changes, lost>>

-----------------------------------------------------------------------------
ObsInit ==
  /\ isDict \in BOOLEAN
  /\ cells \in [Cells -> CellValues \cup {Absent}] /\ started = cells
  /\ ~isDict => Cardinality(Cells) = 1 /\ Absent \notin Range(cells)
  /\ pending = [t \in Setters \cup {Observer} |-> Absent] /\ turn = <<>>
  /\ reacting = {} /\ observed = TRUE /\ seen = <<>> /\ changes = 0 /\ lost = {}

ObsNext ==
  \/ \E t \in Setters, c \in Cells, new \in CellValues \cup {Absent} : Alter(t, c, new)
  \/ \E t \in Setters : Notify(t) \/ CancelSetter(t)
  \/ \E c \in Cells, new \in CellValues \cup {Absent} : ObserverSets(c, new)
  \/ \E r \in reacting : Reacted(r)
  \/ AddObserver \/ RemoveObserver

ObsSpec == ObsInit /\ [][ObsNext]_obsVars
-----------------------------------------------------------------------------
ObsTypeOK ==
  /\ cells \in [Cells -> CellValues \cup {Absent}]
  /\ turn \in Seq(Setters \cup {Observer}) /\ IsInjective(turn)
  /\ \A t \in Setters \cup {Observer} : t \in Range(turn) <=> pending[t] # Absent
  /\ lost \subseteq Cells
  /\ \A r, q \in reacting : r.by = q.by /\ r.by # Absent => r = q

\* In s each change of c starts from the value that the one before it left, the
\* first one from v, and the last one leaves w.
Chain(s, c, v, w) ==
  LET mine == {i \in 1..Len(s) : s[i].path = c}
  IN /\ \A i \in mine : (\A j \in mine : i <= j) => s[i].old = v
     /\ \A i, j \in mine :
          i < j /\ (\A k \in mine : k <= i \/ j <= k) => s[j].old = s[i].value
     /\ \A i \in mine : (\A j \in mine : j <= i) => s[i].value = w
     /\ mine = {} => v = w

\* The changes of a cell that an observer has dealt with form a chain: each starts
\* from the value the one before it left, and once nothing is left to announce the
\* chain ends at the cell's value.  Cells with a change that was never announced,
\* to a cancelled task or a raising observer, are excepted.
ChangesChain ==
  \A c \in Cells \ lost :
    /\ \E w \in CellValues \cup {Absent} : Chain(seen, c, started[c], w)
    /\ turn = <<>> => Chain(seen, c, started[c], cells[c])
=============================================================================
