---------------------------- MODULE Reservations ----------------------------
(* The idempotency record that a public transaction request reserves before it *)
(* may move money: validate_public_transaction_payload and its helpers in       *)
(* app/banking/services.py, for one customer and one idempotency key.           *)
(*                                                                              *)
(* The record is read FOR UPDATE. Where there is none, two requests may both    *)
(* insert one: the unique constraint makes the second wait for the first        *)
(* transaction and, if that commits, start over on the committed record.  The   *)
(* retention job (app/security/state_cleanup.py) selects the ids of expired     *)
(* records without a lock and later deletes by id.                              *)
(*                                                                              *)
(* No production route calls the function yet: its docstring keeps it for a     *)
(* caller to come, whose requests are what is modelled here.                    *)
EXTENDS Naturals, Sequences, Workers

CONSTANTS Ttl,      \* PUBLIC_TRANSACTION_IDEMPOTENCY_TTL_SECONDS
          RequestTime,  \* the worker timeout, 30 seconds in the Dockerfile
          MaxNow    \* bound on the clock

\* A worker timeout is shorter than a lifetime (a day by default; the least that can be
\* configured is a minute).
ASSUME ReservationsAssumption ==
  Ttl \in Nat /\ RequestTime \in Nat /\ RequestTime <= Ttl /\ MaxNow \in Nat

VARIABLES record,    \* the committed public_transaction_idempotency row
          holder,    \* the handler with the row lock or the uncommitted insert
          now,       \* the clock
          granted,   \* current_time of every request that was let through
          purged,    \* how many of them preceded the last deletion of a record
          swept      \* how many of them preceded the last deletion of a live record

reservationVars == <<record, holder, now, granted, purged, swept, job>>

\* A record's id is the number of requests let through before it was inserted.
ReservationRow == [status : {"reserved"}, id : Nat, expires : Nat]

ReservationsInit ==
  /\ record = NoRow
  /\ holder = None
  /\ now = 0
  /\ granted = <<>> /\ purged = 0 /\ swept = 0
  /\ job = [h \in Handlers |-> Idle]

\* The request fixes its time ...
Reserve(h) ==
  /\ Begin(h, [op |-> "look", now |-> now])
  /\ UNCHANGED <<record, holder, now, granted, purged, swept>>

\* ... then looks for the record and waits for another request's lock on it. An
\* uncommitted insert is not seen. The look after a lost insert must find a record.
LookForReservation(h) ==
  /\ job[h].op \in {"look", "again"}
  /\ IF record = NoRow
       THEN /\ holder' = holder
            /\ IF job[h].op = "look" THEN Continue(h, [job[h] EXCEPT !.op = "insert"]) ELSE Done(h)
       ELSE /\ holder = None /\ holder' = h
            /\ Continue(h, [job[h] EXCEPT !.op = "decide"])
  /\ UNCHANGED <<record, now, granted, purged, swept>>

\* The insert is flushed. It fails on a record committed by now, which rolls back.
InsertReservation(h) ==
  /\ job[h].op = "insert" /\ holder = None
  /\ holder' = IF record = NoRow THEN h ELSE None
  /\ Continue(h, [job[h] EXCEPT !.op = IF record = NoRow THEN "audit" ELSE "again"])
  /\ UNCHANGED <<record, now, granted, purged, swept>>

\* Mutant: the age of the record is not looked at under its lock.
ExpiredBlind(row, at) == TRUE

Expired(row, at) == row.expires <= at

\* _reuse_or_reject_public_transaction_reservation: an expired record is taken over ...
TakeOver(h) ==
  /\ job[h].op = "decide" /\ Expired(record, job[h].now)
  /\ Continue(h, [job[h] EXCEPT !.op = "audit"])
  /\ UNCHANGED <<record, holder, now, granted, purged, swept>>

\* ... and a live one refuses: as a replay of the same payload, as a conflict with
\* another payload, or because its HMAC key has left the ring.
Refuse(h) ==
  /\ job[h].op = "decide" /\ ~Expired(record, job[h].now)
  /\ holder' = None
  /\ Done(h)
  /\ UNCHANGED <<record, now, granted, purged, swept>>

\* The required audit row commits the reservation.
GrantReservation(h) ==
  /\ job[h].op = "audit"
  /\ record' = [status |-> "reserved",
                 id |-> IF record = NoRow THEN Len(granted) ELSE record.id,
                 expires |-> job[h].now + Ttl]
  /\ granted' = Append(granted, job[h].now)
  /\ holder' = None
  /\ Done(h)
  /\ UNCHANGED <<now, purged, swept>>

\* cleanup_expired_security_state lists the expired records ...
SweepBegin(h) ==
  /\ record # NoRow /\ Expired(record, now)
  /\ Begin(h, [op |-> "sweep", id |-> record.id])
  /\ UNCHANGED <<record, holder, now, granted, purged, swept>>

\* ... and deletes by their ids, waiting for a row lock but not looking at the
\* expiry again; the deletion and its audit row commit together.
SweepCommit(h) ==
  /\ job[h].op = "sweep" /\ holder = None
  /\ LET hit == record # NoRow /\ record.id = job[h].id
     IN  /\ record' = IF hit THEN NoRow ELSE record
         /\ purged' = IF hit THEN Len(granted) ELSE purged
         /\ swept' = IF hit /\ ~Expired(record, now) THEN Len(granted) ELSE swept
  /\ Done(h)
  /\ UNCHANGED <<holder, now, granted>>

\* A failed audit row, a database error, a dry run or a dying worker rolls back.
ReservationFails(h) ==
  /\ ~Free(h)
  /\ holder' = IF holder = h THEN None ELSE holder
  /\ Done(h)
  /\ UNCHANGED <<record, now, granted, purged, swept>>

\* The worker timeout ends a request; the retention job may take longer.
ReservationTimePasses ==
  /\ \A h \in Handlers : job[h].op \notin {"idle", "sweep"} => now < job[h].now + RequestTime
  /\ now < MaxNow /\ now' = now + 1
  /\ UNCHANGED <<record, holder, granted, purged, swept, job>>

ReservationsNext ==
  \/ \E h \in Handlers :
       \/ Reserve(h) \/ LookForReservation(h) \/ InsertReservation(h)
       \/ TakeOver(h) \/ Refuse(h) \/ GrantReservation(h) \/ ReservationFails(h)
       \/ SweepBegin(h) \/ SweepCommit(h)
  \/ ReservationTimePasses

ReservationsSpec == ReservationsInit /\ [][ReservationsNext]_reservationVars

-----------------------------------------------------------------------------

ReservationJob ==
  {Idle} \cup [op : {"look", "insert", "again", "decide", "audit"}, now : Nat]
         \cup [op : {"sweep"}, id : Nat]

\* Types of the record, its lock, the clock, the history and the requests.
ReservationsTypeOK ==
  /\ record \in ReservationRow \cup {NoRow}
  /\ holder \in Handlers \cup {None}
  /\ now \in Nat
  /\ granted \in Seq(Nat) /\ purged \in Nat /\ swept \in Nat
  /\ job \in [Handlers -> ReservationJob]

\* Whatever requests overlap, fail or wait for each other, two that are let through are a
\* whole lifetime apart as long as the retention job deletes nothing between them. The
\* deletion of an expired record costs at most a worker timeout of that: a repeat that fixed
\* its time while the record was alive may find it gone. Only the deletion of a record that
\* a request had just taken over lets a repeat through at once
\* (_reserve_public_transaction_idempotency).
FirstUseUnlessSwept ==
  \A i, j \in DOMAIN granted : i < j =>
    /\ purged < i => granted[i] + Ttl <= granted[j]
    /\ swept < i => granted[i] + Ttl <= granted[j] + RequestTime
=============================================================================
