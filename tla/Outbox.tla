------------------------------- MODULE Outbox -------------------------------
(***************************************************************************)
(* The outbox table: the durable buffer between emit and sync.  A row is   *)
(* known by its event, as event_id is unique; row ids are positions in     *)
(* queue.  Of next_retry_at the model keeps whether it lies in the future; *)
(* the clock is the action BackoffElapses.                                 *)
(***************************************************************************)
EXTENDS Integers, Sequences, FiniteSets

CONSTANTS
  Event,      \* event ids
  BatchSize,  \* LIMIT of fetch_unsynced (50 in the code)
  MaxRetry    \* bound: retry_count is kept up to here

ASSUME OutboxAssumption ==
  /\ BatchSize \in Nat \ {0}
  /\ MaxRetry \in Nat \ {0}

VARIABLES
  queue,      \* the rows, by id
  synced,     \* rows whose synced_at is set
  retry,      \* retry_count
  waiting     \* rows whose next_retry_at lies in the future

outboxVars == <<queue, synced, retry, waiting>>

Queued == {queue[i] : i \in 1 .. Len(queue)}

OutboxInit ==
  /\ queue = <<>>
  /\ synced = {}
  /\ retry = [e \in Event |-> 0]
  /\ waiting = {}

\* What fetch_unsynced hands out of a row, with the retry_count it read.
Item == [row : Nat \ {0}, event : Event, retry : 0 .. MaxRetry]

\* A faulty Insert, a plain INSERT into a table without the UNIQUE column.
InsertAlways(e) ==
  /\ queue' = Append(queue, e)
  /\ UNCHANGED <<synced, retry, waiting>>

\* INSERT OR IGNORE.
Insert(e) ==
  /\ queue' = IF e \in Queued THEN queue ELSE Append(queue, e)
  /\ UNCHANGED <<synced, retry, waiting>>

\* A faulty Due, for which synced rows are due again.
DueUnlessWaiting(e) == e \notin waiting

\* synced_at IS NULL and next_retry_at NULL or past.
Due(e) == e \notin synced /\ e \notin waiting

DueRows == {i \in 1 .. Len(queue) : Due(queue[i])}

\* fetch_unsynced: the BatchSize oldest rows that are due.
Batch ==
  {[row |-> i, event |-> queue[i], retry |-> retry[queue[i]]] :
     i \in {j \in DueRows : Cardinality({k \in DueRows : k < j}) < BatchSize}}

\* A faulty Oldest, for an ORDER BY id DESC.
Newest(batch) == {item \in batch : \A other \in batch : other.row <= item.row}

\* The next item of a batch: rows are handed out by id.
Oldest(batch) == {item \in batch : \A other \in batch : item.row <= other.row}

\* Two faulty forms of MarkSynced: an UPDATE without its WHERE clause, and one
\* that is never committed.
MarkAllSynced(item) ==
  /\ synced' = Queued
  /\ UNCHANGED <<queue, retry, waiting>>
MarkSyncedUncommitted(item) == UNCHANGED outboxVars

MarkSynced(item) ==
  /\ synced' = synced \cup {item.event}
  /\ UNCHANGED <<queue, retry, waiting>>

\* A faulty MarkRetry, which sets no next_retry_at.
MarkRetryAtOnce(item) ==
  /\ retry' = [retry EXCEPT ![item.event] =
                 IF item.retry < MaxRetry THEN item.retry + 1 ELSE MaxRetry]
  /\ UNCHANGED <<queue, synced, waiting>>

\* mark_retry stores what the caller read when it fetched the row, plus one.
MarkRetry(item) ==
  /\ retry' = [retry EXCEPT ![item.event] =
                 IF item.retry < MaxRetry THEN item.retry + 1 ELSE MaxRetry]
  /\ waiting' = waiting \cup {item.event}
  /\ UNCHANGED <<queue, synced>>

\* The clock passes next_retry_at.
BackoffElapses(e) ==
  /\ e \in waiting
  /\ waiting' = waiting \ {e}
  /\ UNCHANGED <<queue, synced, retry>>
=============================================================================
