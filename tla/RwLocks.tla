------------------------------- MODULE RwLocks -------------------------------
(***************************************************************************)
(* tokio's read-write lock, as the reference API uses it: fair, in the     *)
(* order of arrival.  A task that cannot have the lock at once queues      *)
(* behind whoever waits, a reader behind a waiting writer too, even when   *)
(* that reader's own task already holds a read guard.  Waiting readers at  *)
(* the head of the queue already own their guards and come in in any order.*)
(***************************************************************************)
EXTENDS Naturals, Sequences, SequencesExt

CONSTANTS Tasks, Locks

VARIABLES
  readers, \* lock -> how many read guards each task holds
  writers, \* lock -> the tasks that hold the write guard: one at most
  queue    \* lock -> the tasks that wait for it, in order of arrival

lockVars == <<readers, writers, queue>>

Modes == {"read", "write"}

LocksInit ==
  /\ readers = [l \in Locks |-> [t \in Tasks |-> 0]]
  /\ writers = [l \in Locks |-> {}]
  /\ queue = [l \in Locks |-> <<>>]

\* The guards already given out leave room for another in this mode.
Free(l, mode) ==
  /\ writers[l] = {}
  /\ mode = "write" => \A t \in Tasks : readers[l][t] = 0

OnlyReaders(waiting) ==
  \A i \in DOMAIN waiting : waiting[i].mode = "read"

\* Whether a task in this mode comes in past those that wait.
PastThe(waiting, mode) ==
  waiting = <<>> \/ (mode = "read" /\ OnlyReaders(waiting))

Guard(t, l, mode) ==
  IF mode = "read"
    THEN readers' = [readers EXCEPT ![l][t] = @ + 1] /\ UNCHANGED writers
    ELSE writers' = [writers EXCEPT ![l] = {t}] /\ UNCHANGED readers

\* read().await and write().await that are ready at once.
Lock(t, l, mode) ==
  /\ Free(l, mode)
  /\ PastThe(queue[l], mode)
  /\ Guard(t, l, mode)
  /\ UNCHANGED queue

\* The same, when they have to wait.
Enqueue(t, l, mode) ==
  /\ ~(Free(l, mode) /\ PastThe(queue[l], mode))
  /\ queue' = [queue EXCEPT ![l] = Append(@, [task |-> t, mode |-> mode])]
  /\ UNCHANGED <<readers, writers>>

\* A waiting task gets its turn.
Granted(t, l) ==
  \E i \in DOMAIN queue[l] :
    LET mode == queue[l][i].mode
    IN  /\ queue[l][i].task = t
        /\ PastThe(SubSeq(queue[l], 1, i - 1), mode)
        /\ Free(l, mode)
        /\ Guard(t, l, mode)
        /\ queue' = [queue EXCEPT ![l] = RemoveAt(@, i)]

\* One of the task's read guards goes out of scope.
DropGuard(t, l) ==
  /\ readers' = [readers EXCEPT ![l][t] = @ - 1]
  /\ UNCHANGED <<writers, queue>>

NoReader(t) == [l \in Locks |-> [readers[l] EXCEPT ![t] = 0]]
NoWriter(t) == [l \in Locks |-> writers[l] \ {t}]

\* Every guard of the task goes out of scope.
DropGuards(t) ==
  /\ readers' = NoReader(t)
  /\ writers' = NoWriter(t)
  /\ UNCHANGED queue

\* The task's future is dropped while it waits: its guards and its place go.
Abandon(t, l) ==
  /\ readers' = NoReader(t)
  /\ writers' = NoWriter(t)
  /\ \E i \in DOMAIN queue[l] :
       /\ queue[l][i].task = t
       /\ queue' = [queue EXCEPT ![l] = RemoveAt(@, i)]
=============================================================================
