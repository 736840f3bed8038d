---------------------------- MODULE HibpBreaker ----------------------------
(* The circuit breaker around the breached-password service                    *)
(* (security/passwords.py validate_password_policy).  A password check reads   *)
(* the breaker row without a lock, calls the service with the transaction      *)
(* open, reads the clock, and then loads the row under its lock to record how  *)
(* the call went.  A reading that finds an opening run out closes the circuit  *)
(* without a lock.  While the circuit is open checks fall back to the local    *)
(* blocklist.                                                                  *)
EXTENDS Naturals, Workers
CONSTANTS Threshold, OpenTime,    \* HIBP_CIRCUIT_FAILURE_THRESHOLD, ..._OPEN_SECONDS
          MaxFailures, MaxHour    \* bounds: failed calls, hours of the run
VARIABLES breaker,                \* the SecurityCircuitBreaker row
          hour,                   \* the clock
          failures,               \* live calls that failed so far
          lastFailure,            \* when the last of them failed
          streak                  \* failures recorded since the last answer recorded or closing

breakerVars == <<breaker, hour, failures, lastFailure, streak, job>>

ASSUME BreakerAssumption ==
  Threshold \in Nat \ {0} /\ OpenTime \in Nat \ {0} /\ MaxFailures \in Nat /\ MaxHour \in Nat

ClosedRow == [status |-> "closed", count |-> 0, until |-> 0]

BreakerInit ==
  /\ breaker = NoRow /\ hour = 0 /\ failures = 0 /\ lastFailure = 0 /\ streak = 0
  /\ job = [h \in Handlers |-> Idle]

\* An open circuit that has not run out answers with the fallback at once.
CircuitIsOpen(row) == row # NoRow /\ row.status = "open" /\ row.until > hour
RunOut(row) == row # NoRow /\ row.status = "open" /\ row.until <= hour

\* The row that was read is dropped when the reading returns.
ValidatePasswordPolicy(h) ==
  /\ ~CircuitIsOpen(breaker)
  /\ Begin(h, [op |-> IF RunOut(breaker) THEN "reopen" ELSE "call"])
  /\ UNCHANGED <<breaker, hour, failures, lastFailure, streak>>

\* The reading that found the circuit run out closes it, whatever was written since:
\* all three columns of the row it read differ from the ones it writes.
CloseRunOut(h) ==
  /\ job[h].op = "reopen"
  /\ breaker' = ClosedRow /\ streak' = 0
  /\ Continue(h, [op |-> "call"])
  /\ UNCHANGED <<hour, failures, lastFailure>>

\* The call fails by a timeout, a refused connection or an answer that cannot be read;
\* the time is read before the row lock is asked for.
CallFails(h) ==
  /\ job[h].op = "call" /\ failures < MaxFailures
  /\ failures' = failures + 1 /\ lastFailure' = hour
  /\ Continue(h, [op |-> "failed", at |-> hour])
  /\ UNCHANGED <<breaker, hour, streak>>

CallAnswers(h) ==
  /\ job[h].op = "call"
  /\ Continue(h, [op |-> "answered"])
  /\ UNCHANGED <<breaker, hour, failures, lastFailure, streak>>

HibpBreaker == IF breaker = NoRow THEN ClosedRow ELSE breaker

\* Mutant: the circuit opens one failure early.
EarlyThreshold(count) == count + 1 >= Threshold

Reached(count) == count >= Threshold

CountFailure(row, at) ==
  LET count == row.count + 1
  IN  IF Reached(count)
        THEN [status |-> "open", count |-> count, until |-> at + OpenTime]
        ELSE [row EXCEPT !.count = count]

RecordHibpFailure(h) ==
  /\ job[h].op = "failed"
  /\ breaker' = CountFailure(HibpBreaker, job[h].at) /\ streak' = streak + 1
  /\ Done(h)
  /\ UNCHANGED <<hour, failures, lastFailure>>

ClearHibpFailures(h) ==
  /\ job[h].op = "answered"
  /\ breaker' = IF breaker = NoRow THEN NoRow ELSE ClosedRow
  /\ streak' = 0
  /\ Done(h)
  /\ UNCHANGED <<hour, failures, lastFailure>>

\* A database error, or losing the race to insert the row, is logged and forgotten, and a
\* handler may die during its call: nothing is written.
BreakerUnavailable(h) ==
  /\ job[h] # Idle
  /\ Done(h)
  /\ UNCHANGED <<breaker, hour, failures, lastFailure, streak>>

BreakerTimePasses ==
  /\ hour < MaxHour
  /\ hour' = hour + 1
  /\ UNCHANGED <<breaker, failures, lastFailure, streak, job>>

BreakerNext ==
  \/ \E h \in Handlers :
       \/ ValidatePasswordPolicy(h) \/ CloseRunOut(h)
       \/ CallFails(h) \/ CallAnswers(h)
       \/ RecordHibpFailure(h) \/ ClearHibpFailures(h) \/ BreakerUnavailable(h)
  \/ BreakerTimePasses

BreakerSpec == BreakerInit /\ [][BreakerNext]_breakerVars

-----------------------------------------------------------------------------
BreakerRow == [status : {"closed", "open"}, count : Nat, until : Nat]
BreakerJob ==
  {Idle} \cup [op : {"reopen", "call", "answered"}] \cup [op : {"failed"}, at : Nat]

\* Types of the breaker row, the clock and the checks under way.
BreakerTypeOK ==
  /\ breaker \in BreakerRow \cup {NoRow}
  /\ hour \in Nat /\ failures \in Nat /\ lastFailure \in Nat /\ streak \in Nat
  /\ job \in [Handlers -> BreakerJob]

\* Whatever overlaps, the row counts every failure recorded since the last recorded answer
\* or closing, once each and none that did not happen; the circuit is open exactly when they
\* reach the threshold, and never for longer than its period after the last failed call.
\* So screening against the live service is given up only for an outage, and an outage is
\* not missed (_record_hibp_failure, _clear_hibp_failures, _hibp_circuit_is_open).
OpensOnlyOnOutage ==
  /\ streak <= failures
  /\ breaker = NoRow => streak = 0
  /\ breaker # NoRow =>
       /\ breaker.count = streak
       /\ breaker.status = "open" <=> streak >= Threshold
       /\ breaker.until <= lastFailure + OpenTime
=============================================================================
