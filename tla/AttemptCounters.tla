-------------------------- MODULE AttemptCounters --------------------------
(* Durable attempt counters (app/security/rate_limits.py): one row per scope    *)
(* and principal counts failures or granted requests in a time window. Other    *)
(* modules take consume_durable_rate_limit and record_failure as atomic; this   *)
(* one shows how far they may: the time a request reads before it waits for the *)
(* row lock, the race to insert the first row, and the deletions by id of rows  *)
(* seen late (app/security/state_cleanup.py) are spelled out for one row.       *)
EXTENDS Naturals, Workers

CONSTANTS Limit,    \* requests granted, or failures tolerated, per window
          Windows,  \* lengths of a window: the callers', five and fifteen minutes
          MaxRows,  \* bound on the rows ever inserted
          MaxCount, \* bound on the count in one window
          MaxClock  \* bound on the clock

ASSUME CountersAssumption ==
  /\ Limit \in Nat \ {0} /\ Windows \subseteq Nat
  /\ MaxRows \in Nat /\ MaxCount \in Nat /\ MaxClock \in Nat

VARIABLES counter,   \* the committed row: id, count and the end of its window
          holder,    \* the handler whose transaction locks the row or its unique key
          ids,       \* ids given to rows so far
          clock,     \* the time
          counted,   \* history: requests granted or failures recorded in the window
          revived    \* history: ids of rows renewed after their window was over

counterVars == <<counter, holder, ids, clock, counted, revived, job>>

CounterRow == [status : {"row"}, id : 1..MaxRows, n : 0..MaxCount, until : Nat]

CountersInit ==
  /\ counter = NoRow /\ holder = None /\ ids = 0 /\ clock = 0
  /\ counted = 0 /\ revived = {}
  /\ job = [h \in Handlers |-> Idle]

Uses == {"consume", "fail"}

Late(row, at) == row.until <= at

\* The time is read once for the row to be written and once, at the same moment, to
\* judge the row to be loaded; a lock may be waited for after that.
BeginCount(h, use) ==
  /\ Begin(h, [op |-> "load", use |-> use, at |-> clock, look |-> clock])
  /\ UNCHANGED <<counter, holder, ids, clock, counted, revived>>

\* The row, or the key of a row to be inserted, is the handler's until it commits.
HoldCounter(h, n, fresh) ==
  /\ holder = None /\ holder' = h
  /\ Continue(h, [op |-> "count", use |-> job[h].use, at |-> job[h].at, n |-> n, fresh |-> fresh])

\* _load_counter under a row lock: a live row is locked and read; a late one is deleted
\* and replaced in the same transaction; no row, or one not committed yet, leaves nothing
\* to lock. The reload after a lost insert must find a live row, or the request fails.
LoadCounter(h) ==
  /\ \/ /\ job[h].op = "load" /\ counter = NoRow
        /\ Continue(h, [job[h] EXCEPT !.op = "create"]) /\ UNCHANGED holder
     \/ /\ job[h].op = "load" /\ counter # NoRow /\ Late(counter, job[h].look)
        /\ HoldCounter(h, 0, TRUE)
     \/ /\ job[h].op \in {"load", "reload"} /\ counter # NoRow /\ ~Late(counter, job[h].look)
        /\ HoldCounter(h, counter.n, FALSE)
     \/ /\ job[h].op = "reload"
        /\ counter # NoRow => holder = None /\ Late(counter, job[h].look)
        /\ Done(h) /\ UNCHANGED holder
  /\ UNCHANGED <<counter, ids, clock, counted, revived>>

\* Mutant: the worker that loses the race to insert goes on from zero.
CreateUnlucky(h) ==
  /\ job[h].op = "create"
  /\ HoldCounter(h, 0, counter = NoRow)
  /\ UNCHANGED <<counter, ids, clock, counted, revived>>

\* _load_or_create_counter: the insert waits for another transaction's insert of the
\* same key; if that one committed, the row is loaded again, by a new reading of the clock.
CreateCounter(h) ==
  /\ job[h].op = "create"
  /\ \/ counter = NoRow /\ HoldCounter(h, 0, TRUE)
     \/ /\ counter # NoRow /\ holder = None
        /\ Continue(h, [job[h] EXCEPT !.op = "reload", !.look = clock]) /\ UNCHANGED holder
  /\ UNCHANGED <<counter, ids, clock, counted, revived>>

Counting(h, use) == job[h].op = "count" /\ job[h].use = use

\* The row as committed: a new id when it was inserted. The window of the history ends
\* when the window in the row has really run out.
Commit(h, until) ==
  /\ job[h].fresh => ids < MaxRows
  /\ ids' = IF job[h].fresh THEN ids + 1 ELSE ids
  /\ counter' = [status |-> "row", id |-> IF job[h].fresh THEN ids + 1 ELSE counter.id,
                 n |-> job[h].n + 1, until |-> until]
  /\ counted' = IF job[h].fresh /\ counter # NoRow /\ Late(counter, clock) THEN 1 ELSE counted + 1
  /\ revived' = IF ~job[h].fresh /\ Late(counter, clock) /\ until # counter.until
                  THEN revived \cup {counter.id} ELSE revived
  /\ holder' = None
  /\ Done(h)
  /\ UNCHANGED clock

Rollback(h) == holder' = None /\ Done(h) /\ UNCHANGED <<counter, ids, clock, counted, revived>>

\* consume_durable_rate_limit
ConsumeRateLimit(h) ==
  /\ Counting(h, "consume")
  /\ IF job[h].n >= Limit
       THEN Rollback(h)
       ELSE \E w \in Windows : Commit(h, IF job[h].fresh THEN job[h].at + w ELSE counter.until)

\* record_failure also starts the window again, from the time it read.
RecordCounted(h) ==
  /\ Counting(h, "fail") /\ job[h].n < MaxCount
  /\ \E w \in Windows : Commit(h, job[h].at + w)

\* clear_failures, after a success
ClearFailures(h) ==
  /\ Free(h) /\ holder = None /\ counter # NoRow
  /\ counter' = NoRow /\ counted' = 0
  /\ UNCHANGED <<holder, ids, clock, revived, job>>

CounterHandlerFails(h) ==
  /\ ~Free(h)
  /\ holder' = IF holder = h THEN None ELSE holder
  /\ Done(h)
  /\ UNCHANGED <<counter, ids, clock, counted, revived>>

ClockTicks ==
  /\ clock < MaxClock /\ clock' = clock + 1
  /\ UNCHANGED <<counter, holder, ids, counted, revived, job>>

\* cleanup_expired_security_state selects the ids of late rows ...
CleanupSelect(h) ==
  /\ counter # NoRow /\ Late(counter, clock)
  /\ Begin(h, [op |-> "cleanup", id |-> counter.id])
  /\ UNCHANGED <<counter, holder, ids, clock, counted, revived>>

\* ... and so do the checks that look at a counter without locking it.
PeekCounter(h) == CleanupSelect(h)

\* Mutant: the row is deleted by its key.
DeleteByKey(h) == counter # NoRow

\* The deletion by id does not look at the window again.
Deletes(h) == counter # NoRow /\ counter.id = job[h].id

CleanupDelete(h) ==
  /\ job[h].op = "cleanup" /\ holder = None
  /\ counter' = IF Deletes(h) THEN NoRow ELSE counter
  /\ counted' = IF Deletes(h) /\ (Late(counter, clock) \/ counter.id \in revived) THEN 0 ELSE counted
  /\ Done(h)
  /\ UNCHANGED <<holder, ids, clock, revived>>

CountersNext ==
  \/ \E h \in Handlers :
       \/ \E use \in Uses : BeginCount(h, use)
       \/ LoadCounter(h) \/ CreateCounter(h) \/ ConsumeRateLimit(h) \/ RecordCounted(h)
       \/ ClearFailures(h) \/ CounterHandlerFails(h)
       \/ CleanupSelect(h) \/ PeekCounter(h) \/ CleanupDelete(h)
  \/ ClockTicks

CountersSpec == CountersInit /\ [][CountersNext]_counterVars

-----------------------------------------------------------------------------

\* The types of the counter row, its row lock and the ids rows are deleted by.
CountersTypeOK ==
  /\ counter \in CounterRow \cup {NoRow}
  /\ holder \in Handlers \cup {None}
  /\ ids \in 0..MaxRows /\ clock \in 0..MaxClock

\* However requests, the race for the first row, the clock and the deletions by id
\* interleave, no count of a running window is lost but in one way: what the row holds is
\* what was granted or recorded since its window began. The one way: a request that read the
\* time before the end of a window, and waited, renews the row after it; a deletion that had
\* picked the row as late then takes the renewed window with it
\* (_load_or_create_counter, record_failure, _delete_rows).
NothingUncounted == counted = IF counter = NoRow THEN 0 ELSE counter.n

\* No more than Limit requests are granted in a window, failures counted in the same
\* row included: the count is read under the lock that is held to the commit.
GrantsWithinLimit ==
  [][\A h \in Handlers : Counting(h, "consume") /\ counter' # counter => counted' <= Limit]_counterVars
=============================================================================
