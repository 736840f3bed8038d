------------------------------- MODULE Alerts -------------------------------
(* Security alerts (app/security/alerts.py): a report evaluates the recent      *)
(* audit events against the alert rules, drops what was delivered a short time  *)
(* ago, and posts the rest to a webhook. It also compares the size of the       *)
(* protected tables with a baseline kept outside the database. The timer runs a *)
(* report every Period; an admin may run one from the browser at any time.      *)
(* Reports run to their end here: one that dies after its dedupe records were   *)
(* committed and before the post keeps its alerts silent for DedupeTtl.         *)
EXTENDS Naturals, FiniteSets, Workers

CONSTANTS Period,      \* sitbank-security-alerts.timer, in ticks
          DedupeTtl,   \* SECURITY_ALERT_DEDUPE_TTL_SECONDS, in ticks
          BurstLimit,  \* events of a kind from one source that make a burst, by alert
          Sources,     \* principals, sessions, addresses
          MaxTime, MaxEvents, MaxRowsSeen

VARIABLES trail,      \* audit events an alert rule is about
          marks,      \* security_alert_dedupe: when the record of a key expires
          time,       \* the clock
          reported,   \* when the timer's latest report began; out of range before the first
          rows,       \* count and largest id of a protected table
          baseline,   \* the state file
          attempts,   \* history: delivery attempts, by key and time
          floor       \* history: the baseline when the checks now running, or the last, began

alertVars == <<trail, marks, time, reported, rows, baseline, attempts, floor, job>>

NoBaseline == [count |-> 0, top |-> 0]
Global == "global"
EventKinds == {"account_lock", "login", "auth_backoff", "password_reset_requested", "password_reset_failed",
               "banking_outbound_transfer"}

\* An alert's window, in periods of five minutes.
Window == [account_lock |-> 3 * Period, login_failure_burst |-> Period, auth_backoff_burst |-> 2 * Period,
           password_reset_request_burst |-> 2 * Period, password_reset_failure_burst |-> 2 * Period,
           transaction_failure_burst |-> 3 * Period, transaction_failure_global_burst |-> 3 * Period]
AlertTypes == DOMAIN Window

ASSUME AlertsAssumption ==
  /\ {Period, DedupeTtl, MaxTime, MaxEvents, MaxRowsSeen} \subseteq Nat /\ Period > 0
  /\ BurstLimit \in [AlertTypes -> Nat]

AlertsInit ==
  /\ trail = {} /\ time = 0 /\ reported = MaxTime + 1 /\ attempts = {}
  /\ marks = [k \in AlertTypes \X (Sources \cup {Global}) |-> 0]
  /\ rows = [count |-> 1, top |-> 1]
  /\ baseline = NoBaseline /\ floor = NoBaseline
  /\ job = [h \in Handlers |-> Idle]

-----------------------------------------------------------------------------
(* The rules, over the events of the longest window.                          *)

Recent(alert) == {e \in trail : e.at + Window[alert] >= time}
OfKind(alert, kind) == {e \in Recent(alert) : e.kind = kind}

\* Mutant: a burst must exceed the limit.
BurstOver(alert, kind) ==
  {<<alert, s>> : s \in {s \in Sources : Cardinality({e \in OfKind(alert, kind) : e.source = s}) > BurstLimit[alert]}}

Burst(alert, kind) ==
  {<<alert, s>> : s \in {s \in Sources : Cardinality({e \in OfKind(alert, kind) : e.source = s}) >= BurstLimit[alert]}}

\* _add_immediate_alerts
ImmediateAlerts == {<<"account_lock", e.source>> : e \in OfKind("account_lock", "account_lock")}

\* _add_login_failure_alerts
LoginFailureAlerts == Burst("login_failure_burst", "login")

\* _add_auth_backoff_alerts
AuthBackoffAlerts == Burst("auth_backoff_burst", "auth_backoff")

\* _add_password_reset_alerts
PasswordResetAlerts ==
  Burst("password_reset_request_burst", "password_reset_requested")
    \cup Burst("password_reset_failure_burst", "password_reset_failed")

\* _add_transaction_failure_alerts
TransactionFailureAlerts ==
  LET alert == "transaction_failure_global_burst"
  IN Burst("transaction_failure_burst", "banking_outbound_transfer")
       \cup {k \in {<<alert, Global>>} : Cardinality(OfKind(alert, "banking_outbound_transfer")) >= BurstLimit[alert]}

\* evaluate_security_alerts
EvaluateSecurityAlerts ==
  ImmediateAlerts \cup LoginFailureAlerts \cup AuthBackoffAlerts \cup PasswordResetAlerts \cup TransactionFailureAlerts

-----------------------------------------------------------------------------
(* A report: build_security_alert_report(deliver=True).                       *)

\* _database_integrity_regression_alerts
Regressed(before, now) == before # NoBaseline /\ (now.count < before.count \/ now.top < before.top)

By(whom) == {h \in Handlers : job[h] # Idle /\ job[h].by = whom}

\* Nobody is between counting the tables and writing the baseline.
Unwatched == \A h \in Handlers : job[h].op \notin {"count", "compare", "rebaseline", "write"}

\* The tables are counted.
ReportBegins(h, by) ==
  /\ by = "timer" => time % Period = 0 /\ reported # time /\ By("timer") = {}
  /\ reported' = IF by = "timer" THEN time ELSE reported
  /\ Begin(h, [op |-> "count", by |-> by, now |-> rows])
  /\ floor' = IF Unwatched THEN baseline ELSE floor
  /\ UNCHANGED <<trail, marks, time, rows, baseline, attempts>>

\* _load_database_integrity_state, without a lock on the file
LoadState(h) ==
  /\ job[h].op = "count"
  /\ Continue(h, [op |-> "compare", by |-> job[h].by, now |-> job[h].now, before |-> baseline])
  /\ UNCHANGED <<trail, marks, time, reported, rows, baseline, attempts, floor>>

\* Mutant: the baseline follows the tables even when they shrank.
CompareAndFollow(h) ==
  /\ job[h].op = "compare"
  /\ baseline' = job[h].now
  /\ Continue(h, [op |-> "evaluate", by |-> job[h].by])
  /\ UNCHANGED <<trail, marks, time, reported, rows, attempts, floor>>

\* _database_integrity_alerts: the baseline is written only when nothing regressed.
DatabaseIntegrityAlerts(h) ==
  /\ job[h].op = "compare"
  /\ baseline' = IF Regressed(job[h].before, job[h].now) THEN baseline ELSE job[h].now
  /\ Continue(h, [op |-> "evaluate", by |-> job[h].by])
  /\ UNCHANGED <<trail, marks, time, reported, rows, attempts, floor>>

\* The events are evaluated and the dedupe records of their alerts are read.
ReadMarks(h) ==
  /\ job[h].op = "evaluate"
  /\ LET alerts == EvaluateSecurityAlerts
     IN job' = [job EXCEPT ![h] = IF alerts = {} THEN Idle
                                    ELSE [op |-> "dedupe", by |-> job[h].by, alerts |-> alerts, seen |-> marks]]
  /\ UNCHANGED <<trail, marks, time, reported, rows, baseline, attempts, floor>>

\* _dedupe_alerts: an alert is due when its record has expired. All records are
\* committed together; when another report has inserted one of them meanwhile, the
\* commit fails and this report delivers nothing.
DedupeAlerts(h) ==
  /\ job[h].op = "dedupe"
  /\ LET due == {k \in job[h].alerts : job[h].seen[k] <= time}
     IN IF \E k \in due : job[h].seen[k] = 0 /\ marks[k] # 0
          THEN Done(h) /\ UNCHANGED marks
          ELSE /\ marks' = [k \in DOMAIN marks |-> IF k \in due THEN time + DedupeTtl ELSE marks[k]]
               /\ job' = [job EXCEPT ![h] = IF due = {} THEN Idle ELSE [op |-> "deliver", by |-> job[h].by, alerts |-> due]]
  /\ UNCHANGED <<trail, time, reported, rows, baseline, attempts, floor>>

\* deliver_security_alerts: one post, whose failure is only reported.
DeliverSecurityAlerts(h) ==
  /\ job[h].op = "deliver"
  /\ attempts' = attempts \cup {[key |-> k, at |-> time] : k \in job[h].alerts}
  /\ Done(h)
  /\ UNCHANGED <<trail, marks, time, reported, rows, baseline, floor>>

-----------------------------------------------------------------------------
(* rebaseline_database_integrity_state, after a verified audit chain.          *)

\* The tables are counted: their figures will do, whatever they were.
RebaselineBegins(h) ==
  /\ Begin(h, [op |-> "rebaseline", by |-> "operator", now |-> rows])
  /\ floor' = NoBaseline
  /\ UNCHANGED <<trail, marks, time, reported, rows, baseline, attempts>>

\* The old state is moved away as a backup.
RebaselineBackup(h) ==
  /\ job[h].op = "rebaseline"
  /\ baseline' = NoBaseline
  /\ Continue(h, [op |-> "write", by |-> "operator", now |-> job[h].now, backup |-> baseline])
  /\ UNCHANGED <<trail, marks, time, reported, rows, attempts, floor>>

\* The new state is written, or the backup restored when that fails.
RebaselineWrite(h, written) ==
  /\ job[h].op = "write"
  /\ baseline' = IF written THEN job[h].now ELSE IF baseline = NoBaseline THEN job[h].backup ELSE baseline
  /\ Done(h)
  /\ UNCHANGED <<trail, marks, time, reported, rows, attempts, floor>>

-----------------------------------------------------------------------------

AuditEventRecorded(kind, source) ==
  /\ Cardinality(trail) < MaxEvents
  /\ trail' = trail \cup {[n |-> Cardinality(trail), kind |-> kind, source |-> source, at |-> time]}
  /\ UNCHANGED <<marks, time, reported, rows, baseline, attempts, floor, job>>

\* Rows are inserted, or lost with a restored database.
TableChanges ==
  /\ \/ rows.top < MaxRowsSeen /\ rows' = [count |-> rows.count + 1, top |-> rows.top + 1]
     \/ rows.count > 1 /\ \E t \in {rows.top, rows.top - 1} : rows' = [count |-> rows.count - 1, top |-> t]
  /\ UNCHANGED <<trail, marks, time, reported, baseline, attempts, floor, job>>

\* The timer's report is begun when due and over before the next.
AlertTimePasses ==
  /\ time < MaxTime
  /\ time % Period = 0 => reported = time
  /\ \A h \in Handlers : Free(h)
  /\ time' = time + 1
  /\ UNCHANGED <<trail, marks, reported, rows, baseline, attempts, floor, job>>

AlertsNext ==
  \/ \E h \in Handlers :
       \/ \E by \in {"timer", "browser"} : ReportBegins(h, by)
       \/ LoadState(h) \/ DatabaseIntegrityAlerts(h) \/ ReadMarks(h) \/ DedupeAlerts(h) \/ DeliverSecurityAlerts(h)
       \/ RebaselineBegins(h) \/ RebaselineBackup(h) \/ \E written \in BOOLEAN : RebaselineWrite(h, written)
  \/ \E kind \in EventKinds, source \in Sources : AuditEventRecorded(kind, source)
  \/ TableChanges \/ AlertTimePasses

AlertsSpec == AlertsInit /\ [][AlertsNext]_alertVars

-----------------------------------------------------------------------------

\* The types of the audit events alerts are made from, the dedupe records and the
\* row counts of the integrity baseline.
AlertsTypeOK ==
  /\ trail \subseteq [n : 0..MaxEvents, kind : EventKinds, source : Sources, at : 0..MaxTime]
  /\ marks \in [AlertTypes \X (Sources \cup {Global}) -> 0..(MaxTime + DedupeTtl)]
  /\ \A b \in {rows, baseline, floor} : b \in [count : 0..MaxRowsSeen, top : 0..MaxRowsSeen]

\* "Alert on any account_lock; 5 or more password reset events from the same source":
\* dedupe records, colliding reports and failing posts notwithstanding, a delivery of an
\* alert is attempted close to what it is about, when the events lie at least two
\* periods closer together than the window is long.
Warrants(alert, kind, source, last) ==
  \E events \in SUBSET {e \in trail : e.kind = kind /\ e.source = source /\ e.at <= last
                                        /\ last - e.at <= Window[alert] - 2 * Period} :
    Cardinality(events) >= BurstLimit[alert] /\ \E e \in events : e.at = last

AlertsAttempted ==
  \A source \in Sources, rule \in {<<"account_lock", "account_lock">>,
                                   <<"password_reset_failure_burst", "password_reset_failed">>,
                                   <<"transaction_failure_burst", "banking_outbound_transfer">>} :
    \A last \in {e.at : e \in trail} :
      last + 2 * Period < time /\ Warrants(rule[1], rule[2], source, last) =>
        \E a \in attempts : a.key = <<rule[1], source>> /\ last - a.at <= DedupeTtl

\* "critical database_table_regression alerts when users or security_audit_events rewind
\* or shrink": nothing but a rebaseline lowers the figures below those the reports now
\* running set out from. Of two overlapping reports the later write stands, though it
\* may carry the older figures; a burst of them still never sinks below its start.
BaselineNeverRewinds == ~Regressed(floor, baseline)
=============================================================================
