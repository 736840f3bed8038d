----------------------------- MODULE AuditChain -----------------------------
(***************************************************************************)
(* The security audit log (app/security/audit.py): rows chained by hash,   *)
(* inserted by concurrent transactions under one advisory lock, and an     *)
(* anchor file outside the database that vouches for the head of the chain.*)
(*                                                                         *)
(* A writer is a transaction that records events: required events are      *)
(* flushed and committed with the caller's work, a best-effort event       *)
(* commits by itself.  A keeper is an operator command that writes the     *)
(* anchor: export-audit-log-anchor or refresh-audit-log-anchor.            *)
(***************************************************************************)
EXTENDS Integers, Sequences, FiniteSets

CONSTANTS
    Writers,    \* transactions that record events, one after another
    Keepers,    \* processes that run anchor commands, one after another
    Data,       \* what an event says
    Legacy,     \* number of rows from before the chain was introduced
    MaxId,      \* bound on the ids drawn from the sequence
    MaxDamage,  \* bound on rows lost or altered behind the application's back
    MaxCrashes, \* bound on anchor commands that are killed
    None,       \* SQL NULL, JSON null
    Free        \* the holder of the lock when nobody holds it

\* A row of security_audit_events and an anchor.  The ghost field rows of an
\* anchor is what it vouches for.
Hashes == Seq(Data)
Rows == [id : Nat, data : Data, prev : Hashes \cup {None}, hash : Hashes \cup {None}]
Anchors == [count : Nat, hashed : Nat, id : Nat \cup {None}, hash : Hashes \cup {None},
            valid : BOOLEAN, rows : SUBSET Rows]

ASSUME ActorSets == /\ Writers \cap Keepers = {}
                    /\ Free \notin Writers \cup Keepers
ASSUME Numbers == Legacy \in Nat /\ MaxId \in Nat /\ MaxDamage \in Nat
                  /\ MaxCrashes \in Nat
ASSUME NoneIsNoValue == None \notin Int /\ None \notin Hashes /\ None \notin Anchors

VARIABLES
    log,        \* committed rows of security_audit_events
    draft,      \* rows each writer has flushed and not committed
    lastId,     \* the id sequence; a rollback does not give ids back
    lock,       \* holder of the advisory transaction lock
    anchor,     \* the anchor file, or None
    pc,         \* where each keeper is
    held,       \* the anchor each keeper has in memory
    damage,     \* how many rows were lost or altered
    crashes     \* how many anchor commands were killed

vars == <<log, draft, lastId, lock, anchor, pc, held, damage, crashes>>

\* An ideal keyed hash: it determines the content and everything before it.
Hash(prev, data) == Append(prev, data)
ChainStart == << >>

\* The oldest rows have neither hash.
LegacyRow(i, d) == [id |-> i, data |-> d, prev |-> None, hash |-> None]

----------------------------------------------------------------------------
(* Verification.                                                            *)

Hashed(S) == {e \in S : e.hash # None}

\* The hashed row of S with the greatest id, as a set.
Latest(S) == {e \in Hashed(S) : \A f \in Hashed(S) : f.id <= e.id}

\* _latest_audit_event_hash over the rows S, as a set of one hash.
Tip(S) == IF Hashed(S) = {} THEN {ChainStart} ELSE {e.hash : e \in Latest(S)}

Before(S, e) == {f \in S : f.id < e.id}

\* _record_missing_event_hash, _verify_hashed_audit_event
Verified(S, e) ==
    IF e.hash = None
    THEN Hashed(Before(S, e)) = {}
    ELSE e.prev \in Tip(Before(S, e)) /\ e.hash = Hash(e.prev, e.data)

\* verify_audit_hash_chain without an anchor: one query over all rows by id.
Valid(S) == \A e \in S : Verified(S, e)

\* The id and hash of the newest event, as a set of one record.
Tops(S) == IF Hashed(S) = {} THEN {[id |-> None, hash |-> None]}
           ELSE {[id |-> e.id, hash |-> e.hash] : e \in Latest(S)}

\* audit_log_anchor: what an anchor says of the rows S.
HeadOf(S, t, vouched) ==
    [count |-> Cardinality(S), hashed |-> Cardinality(Hashed(S)),
     id |-> t.id, hash |-> t.hash, valid |-> Valid(S), rows |-> vouched]

\* _anchor_latest_event_id, _anchor_latest_event_hash: null is accepted only
\* while the chain is empty.
WellFormed(S, A) == A.valid /\ (A.id = None => Hashed(S) = {})

\* _validate_anchor_position: the chain is not behind the anchor.  The number of
\* legacy rows is the difference of the two counts.
NotBehind(S, A) ==
    /\ A.id # None => \A e \in Latest(S) : A.id <= e.id
    /\ A.count <= Cardinality(S)
    /\ A.hashed <= Cardinality(Hashed(S))
    /\ A.count - A.hashed <= Cardinality(S) - Cardinality(Hashed(S))

\* _validate_anchor_event_hash: the anchored event is still there.
Anchored(S, A) == A.id # None => \E e \in Hashed(S) : e.id = A.id /\ e.hash = A.hash

\* _anchor_matches_current_head
Matches(S, A) == /\ [id |-> A.id, hash |-> A.hash] \in Tops(S)
                 /\ A.count = Cardinality(S)
                 /\ A.hashed = Cardinality(Hashed(S))

\* _anchor_is_append_only_stale
Stale(S, A) == /\ A.id # None
               /\ \E e \in Latest(S) : A.id < e.id
               /\ A.count < Cardinality(S)

\* Mutants: the anchored event is not looked up; only the head is accepted.
AcceptsByPosition(S, A) ==
    /\ WellFormed(S, A) /\ NotBehind(S, A)
    /\ Valid(S)
    /\ Matches(S, A) \/ Stale(S, A)
AcceptsHeadOnly(S, A) ==
    /\ WellFormed(S, A) /\ NotBehind(S, A) /\ Anchored(S, A)
    /\ Valid(S)
    /\ Matches(S, A)

\* _compare_audit_anchor ends with "validated" or "stale", and the chain is valid.
Accepts(S, A) ==
    /\ WellFormed(S, A) /\ NotBehind(S, A) /\ Anchored(S, A)
    /\ Valid(S)
    /\ Matches(S, A) \/ Stale(S, A)

----------------------------------------------------------------------------
Init ==
    /\ \E d \in Data : log = {LegacyRow(i, d) : i \in 1 .. Legacy}
    /\ draft = [w \in Writers |-> {}]
    /\ lastId = Legacy
    /\ lock = Free
    /\ anchor = None
    /\ pc = [k \in Keepers |-> "idle"]
    /\ held = [k \in Keepers |-> None]
    /\ damage = 0
    /\ crashes = 0

\* _lock_audit_chain_for_insert: pg_advisory_xact_lock, held to the end of the
\* transaction.
TakeLock(w) ==
    /\ lock = Free
    /\ lock' = w
    /\ UNCHANGED <<log, draft, lastId, anchor, pc, held, damage, crashes>>

\* Mutant: the lock is not needed.
InsertUnlocked(w, d) ==
    /\ lastId < MaxId
    /\ \E p \in Tip(log \cup draft[w]) :
          draft' = [draft EXCEPT ![w] = @ \cup
                       {[id |-> lastId + 1, data |-> d, prev |-> p, hash |-> Hash(p, d)]}]
    /\ lastId' = lastId + 1
    /\ UNCHANGED <<log, lock, anchor, pc, held, damage, crashes>>

\* _audit_event, _write_system_audit_event: read the newest hash the transaction
\* sees, hash the event, flush it.  A transaction may record several events.
Insert(w, d) ==
    /\ lock = w
    /\ lastId < MaxId
    /\ \E p \in Tip(log \cup draft[w]) :
          draft' = [draft EXCEPT ![w] = @ \cup
                       {[id |-> lastId + 1, data |-> d, prev |-> p, hash |-> Hash(p, d)]}]
    /\ lastId' = lastId + 1
    /\ UNCHANGED <<log, lock, anchor, pc, held, damage, crashes>>

Commit(w) ==
    /\ lock = w \/ draft[w] # {}
    /\ log' = log \cup draft[w]
    /\ draft' = [draft EXCEPT ![w] = {}]
    /\ lock' = IF lock = w THEN Free ELSE lock
    /\ UNCHANGED <<lastId, anchor, pc, held, damage, crashes>>

\* A best-effort event that failed, the caller's answer to AuditWriteError, or a
\* worker that dies.
Rollback(w) ==
    /\ lock = w \/ draft[w] # {}
    /\ draft' = [draft EXCEPT ![w] = {}]
    /\ lock' = IF lock = w THEN Free ELSE lock
    /\ UNCHANGED <<log, lastId, anchor, pc, held, damage, crashes>>

----------------------------------------------------------------------------
(* The anchor commands.                                                     *)

GoTo(k, stage) == pc' = [pc EXCEPT ![k] = stage]

\* export-audit-log-anchor: verify without the lock, later replace the file.
ExportRead(k) ==
    /\ pc[k] = "idle"
    /\ \E t \in Tops(log) : held' = [held EXCEPT ![k] = HeadOf(log, t, Hashed(log))]
    /\ GoTo(k, "export")
    /\ UNCHANGED <<log, draft, lastId, lock, anchor, damage, crashes>>

ExportWrite(k) ==
    /\ pc[k] = "export"
    /\ anchor' = held[k]
    /\ held' = [held EXCEPT ![k] = None]
    /\ GoTo(k, "idle")
    /\ UNCHANGED <<log, draft, lastId, lock, damage, crashes>>

\* refresh_audit_log_anchor reads the file before it waits for the lock.
RefreshRead(k) ==
    /\ pc[k] = "idle"
    /\ anchor # None
    /\ held' = [held EXCEPT ![k] = anchor]
    /\ GoTo(k, "read")
    /\ UNCHANGED <<log, draft, lastId, lock, anchor, damage, crashes>>

RefreshLock(k) ==
    /\ pc[k] = "read"
    /\ lock = Free
    /\ lock' = k
    /\ GoTo(k, "locked")
    /\ UNCHANGED <<log, draft, lastId, anchor, held, damage, crashes>>

\* Mutant: a stale anchor is accepted and stays as it is.
RefreshReports(k) ==
    /\ pc[k] = "locked"
    /\ Accepts(log, held[k])
    /\ GoTo(k, "written")
    /\ UNCHANGED <<log, draft, lastId, lock, anchor, held, damage, crashes>>

\* verify_audit_hash_chain against the anchor, then write_audit_log_anchor, which
\* replaces the file in one rename.
RefreshWrite(k) ==
    /\ pc[k] = "locked"
    /\ Accepts(log, held[k])
    /\ \E t \in Tops(log) : anchor' = HeadOf(log, t, anchor.rows \cup Hashed(log))
    /\ GoTo(k, "written")
    /\ UNCHANGED <<log, draft, lastId, lock, held, damage, crashes>>

\* The commit after the write, or the rollback of a refused refresh.
RefreshEnd(k) ==
    /\ \/ pc[k] = "written"
       \/ pc[k] = "locked" /\ ~Accepts(log, held[k])
    /\ lock' = Free
    /\ held' = [held EXCEPT ![k] = None]
    /\ GoTo(k, "idle")
    /\ UNCHANGED <<log, draft, lastId, anchor, damage, crashes>>

\* The process is killed: its transaction is rolled back, the file stays.
Crash(k) ==
    /\ pc[k] # "idle" /\ crashes < MaxCrashes
    /\ crashes' = crashes + 1
    /\ lock' = IF lock = k THEN Free ELSE lock
    /\ held' = [held EXCEPT ![k] = None]
    /\ GoTo(k, "idle")
    /\ UNCHANGED <<log, draft, lastId, anchor, damage>>

----------------------------------------------------------------------------
(* Rows that are lost (a backup is restored) or altered by hand, while no   *)
(* transaction is open.  The application's own role can do neither.         *)

Quiet == damage < MaxDamage /\ lock = Free /\ \A w \in Writers : draft[w] = {}

Lose(e) ==
    /\ Quiet
    /\ log' = log \ {e}
    /\ damage' = damage + 1
    /\ UNCHANGED <<draft, lastId, lock, anchor, pc, held, crashes>>

Alter(e, d) ==
    /\ Quiet
    /\ d # e.data
    /\ log' = (log \ {e}) \cup {[e EXCEPT !.data = d]}
    /\ damage' = damage + 1
    /\ UNCHANGED <<draft, lastId, lock, anchor, pc, held, crashes>>

----------------------------------------------------------------------------
Write(w) == TakeLock(w) \/ Commit(w) \/ Rollback(w) \/ \E d \in Data : Insert(w, d)

Refresh(k) == RefreshRead(k) \/ RefreshLock(k) \/ RefreshWrite(k) \/ RefreshEnd(k)

Keep(k) == ExportRead(k) \/ ExportWrite(k) \/ Refresh(k) \/ Crash(k)

Next ==
    \/ \E w \in Writers : Write(w)
    \/ \E k \in Keepers : Keep(k)
    \/ \E e \in log : Lose(e) \/ \E d \in Data : Alter(e, d)

Spec == Init /\ [][Next]_vars

\* Transactions and commands that can go on do, the refresh timer fires again and
\* again, and the lock queue is fair.
Fairness ==
    /\ \A w \in Writers : WF_vars(Commit(w) \/ Rollback(w))
    /\ \A k \in Keepers : /\ SF_vars(RefreshRead(k)) /\ SF_vars(RefreshLock(k))
                          /\ WF_vars(RefreshWrite(k)) /\ WF_vars(RefreshEnd(k))
                          /\ WF_vars(ExportWrite(k))

FairSpec == Spec /\ Fairness

----------------------------------------------------------------------------
(* Properties.                                                              *)

\* The anchors there are: the file, and what the commands have read of it.
Copies == ({anchor} \cup {held[k] : k \in Keepers}) \ {None}

\* Every variable has its type.
TypeOK ==
    /\ log \subseteq Rows
    /\ draft \in [Writers -> SUBSET Rows]
    /\ lastId \in Nat
    /\ lock \in Writers \cup Keepers \cup {Free}
    /\ anchor \in Anchors \cup {None}
    /\ pc \in [Keepers -> {"idle", "export", "read", "locked", "written"}]
    /\ held \in [Keepers -> Anchors \cup {None}]
    /\ damage \in Nat /\ crashes \in Nat

\* As long as nobody touches the table, the committed rows verify after every
\* interleaving of transactions, with several events in one of them, rollbacks
\* and gaps in the ids.
ChainVerifies == damage = 0 => Valid(log)

\* As long as nobody touches the table, an anchor that names an event is accepted
\* by whoever compares it with the chain, however long ago it read the file: no
\* false alarm, no refused refresh.
NoFalseAlarm ==
    damage = 0 =>
        \A A \in Copies : A.id # None => Accepts(log, A)

\* When the anchor in force is accepted, every hashed row that it, or an anchor
\* it was refreshed from, vouched for is in the table, unaltered.
AcceptedVouches ==
    anchor # None /\ Accepts(log, anchor) => anchor.rows \subseteq log

Names == anchor # None /\ anchor.id # None
Covers(i) == Names /\ anchor.id >= i

\* Once an anchor names an event, every committed event comes to be covered by
\* the anchor, whatever commands run, fail or are killed meanwhile, unless rows
\* are lost or an export that read the chain while it was empty replaces the
\* anchor.
AnchorCatchesUp ==
    \A i \in 1 .. MaxId :
        Names /\ damage = 0 /\ (\E e \in Hashed(log) : e.id = i)
            ~> Covers(i) \/ ~Names \/ damage > 0
=============================================================================
