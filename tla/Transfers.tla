----------------------------- MODULE Transfers -----------------------------
(***************************************************************************)
(* Money movement between customer accounts: Local Transfer and PayUp      *)
(* confirmations (execute_local_transfer, execute_payup_transfer), the     *)
(* crediting half of a top-up approval (credit_account_topup), and the     *)
(* requests that change what they read: transfer limits, account freeze.   *)
(*                                                                         *)
(* Each request is a process that owns one database transaction.  An       *)
(* action is one statement of it that can wait for a lock, together with   *)
(* the Python up to the next such statement.  Locks last until the commit  *)
(* or the rollback.  Three facts of the libraries shape the model:         *)
(*                                                                         *)
(*  - an ORM session keeps the attributes of an object it has loaded until *)
(*    the next commit or rollback.  A later SELECT ... FOR UPDATE of the   *)
(*    same row locks the row and leaves those attributes alone (no query   *)
(*    asks for populate_existing).  seen[r] is what request r has loaded;  *)
(*  - a flush writes the columns that were assigned, as absolute values;   *)
(*  - inserting a row with a foreign key to users takes a key-share lock   *)
(*    on that user, which waits for a FOR UPDATE lock of another request.  *)
(***************************************************************************)
EXTENDS Integers, FiniteSets, FiniteSetsExt

CONSTANTS
    Accounts,       \* ids of customer accounts
    Requests,       \* HTTP requests, each handled at most once
    Tokens,         \* rows of the two pending-transfer tables, and approved top-ups
    Order,          \* what each token stands for: [chan, from, to, amount]
    Opening,        \* the balance of each account at the start
    Limits,         \* daily limits a customer may choose, one per channel
    DefaultLimit,   \* the limits every account starts with
    QuickCap,       \* PAYUP_QUICK_TRANSFER_CAP
    QuickDailyCap,  \* PAYUP_QUICK_DAILY_CAP
    MaxDay,         \* bound on midnights
    Free            \* the holder of a lock that nobody holds

Channels == {"local", "payup"}

\* A top-up is a transaction from the account to itself.
Orders == [chan : Channels, from : Accounts, to : Accounts, amount : Nat \ {0}]
          \cup [chan : {"topup"}, from : Accounts, to : Accounts, amount : Nat \ {0}]

ASSUME AccountIds == Accounts \subseteq Nat
ASSUME OrderTypes == /\ Tokens # {}
                     /\ Order \in [Tokens -> Orders]
                     /\ \A t \in Tokens : (Order[t].from = Order[t].to)
                                              <=> (Order[t].chan = "topup")
ASSUME OpeningType == Opening \in [Accounts -> Nat]
ASSUME LimitTypes == Limits \subseteq [Channels -> Nat] /\ DefaultLimit \in Limits
ASSUME CapTypes == QuickCap \in Nat /\ QuickDailyCap \in Nat /\ MaxDay \in Nat
ASSUME FreeIsNobody == Free \notin Requests

VARIABLES
    users,      \* committed rows of users
    pending,    \* state of each pending row; "expired": expires_at has passed
    ledger,     \* committed rows of transactions
    rowLock,    \* FOR UPDATE locks on users
    tokLock,    \* FOR UPDATE locks on the pending-transfer tables
    auditLock,  \* the audit chain's transaction-level advisory lock
    pc,         \* where each request is
    work,       \* the request's token and locals
    seen,       \* the request's loaded copies of users rows
    day         \* the current day in Singapore

locks == <<rowLock, tokLock, auditLock>>
vars == <<users, pending, ledger, locks, pc, work, seen, day>>

UserRows == [balance : Int, limit : Limits, frozen : BOOLEAN]

TokenStates == {"absent", "open", "expired", "consumed"}

\* late: the row had expired at the request's "now".  consumed: the request has
\* set consumed_at.  authorized: an authenticator code was verified for this
\* payment.  created: the day of the transaction's created_at.
Works == [tok : Tokens, late : BOOLEAN, consumed : BOOLEAN,
          authorized : BOOLEAN, created : 0 .. MaxDay]

LedgerRows == [req : Requests, tok : Tokens, authorized : BOOLEAN,
               limit : Nat, day : 0 .. MaxDay]

Finished == {"ok", "rejected", "failed"}

Stages == {"idle", "load", "recipient", "pending", "payup_recipient", "first",
           "second", "check", "sign", "commit", "reject", "reject_insert",
           "topup_audit", "topup_credit"} \cup Finished

OrderOf(r) == Order[work[r].tok]

Sum(rows) == MapThenSumSet(LAMBDA row : Order[row.tok].amount, rows)

\* local_transfer_amount_used_today, payup_amount_used_today: a fresh query.
UsedOn(d, a, c) ==
    Sum({row \in ledger : /\ Order[row.tok].from = a
                          /\ Order[row.tok].chan = c
                          /\ row.day = d})

\* The caps above which a PayUp payment needs an authenticator code.
RequiresStepUp(amount, used) == amount > QuickCap \/ used + amount > QuickDailyCap

----------------------------------------------------------------------------
OpeningRows == [a \in Accounts |-> [balance |-> Opening[a],
                                    limit |-> DefaultLimit,
                                    frozen |-> FALSE]]

Init ==
    /\ users = OpeningRows
    /\ pending = [t \in Tokens |-> "absent"]
    /\ ledger = {}
    /\ rowLock = [a \in Accounts |-> Free]
    /\ tokLock = [t \in Tokens |-> Free]
    /\ auditLock = Free
    /\ pc = [r \in Requests |-> "idle"]
    /\ work = [r \in Requests |-> [tok |-> CHOOSE t \in Tokens : TRUE,
                                   late |-> FALSE, consumed |-> FALSE,
                                   authorized |-> FALSE, created |-> 0]]
    /\ seen = [r \in Requests |-> OpeningRows]
    /\ day = 0

GoTo(r, stage) == pc' = [pc EXCEPT ![r] = stage]

\* Read one users row into the session of r.
Load(r, a) == seen' = [seen EXCEPT ![r][a] = users[a]]

\* Commit and rollback release every lock of r; the session is removed.
EndSession(r) ==
    /\ seen' = [seen EXCEPT ![r] = OpeningRows]
    /\ rowLock' = [a \in Accounts |-> IF rowLock[a] = r THEN Free ELSE rowLock[a]]
    /\ tokLock' = [t \in Tokens |-> IF tokLock[t] = r THEN Free ELSE tokLock[t]]
    /\ auditLock' = IF auditLock = r THEN Free ELSE auditLock

\* A pending row is inserted; its foreign keys wait for locks on the users rows.
Offer(t, rows) ==
    /\ pending[t] = "absent"
    /\ ~users[Order[t].from].frozen
    /\ \A a \in rows : rowLock[a] = Free
    /\ pending' = [pending EXCEPT ![t] = "open"]
    /\ UNCHANGED <<users, ledger, locks, pc, work, seen, day>>

\* The amount is within what remains of the daily limit.
Remains(t) ==
    LET o == Order[t] IN
    UsedOn(day, o.from, o.chan) + o.amount <= users[o.from].limit[o.chan]

\* transfer_submit
SubmitLocal(t) ==
    /\ Order[t].chan = "local" /\ Remains(t)
    /\ Offer(t, {Order[t].from})

\* payup_amount_submit also looks at the balance and at the recipient.
SubmitPayup(t) ==
    LET o == Order[t] IN
    /\ o.chan = "payup" /\ Remains(t)
    /\ o.amount <= users[o.from].balance
    /\ ~users[o.to].frozen
    /\ Offer(t, {o.from, o.to})

\* topup_submit and generate_topup_token
SubmitTopUp(t) ==
    /\ Order[t].chan = "topup"
    /\ Offer(t, {Order[t].from})

\* transfer_confirm_submit: load_current_user has read the sender, and the
\* session has committed nothing since.
StartLocal(r, t) ==
    /\ pc[r] = "idle"
    /\ Order[t].chan = "local" /\ pending[t] # "absent"
    /\ ~users[Order[t].from].frozen
    /\ Load(r, Order[t].from)
    /\ work' = [work EXCEPT ![r].tok = t]
    /\ GoTo(r, "recipient")
    /\ UNCHANGED <<users, pending, ledger, locks, day>>

\* _local_transfer_recipient reads the recipient; the request's "now" is taken.
\* A missing or unavailable recipient and a payee in cooldown are refused.
LoadLocalRecipient(r) ==
    /\ pc[r] = "recipient"
    /\ Load(r, OrderOf(r).to)
    /\ work' = [work EXCEPT ![r].late = pending[work[r].tok] = "expired"]
    /\ GoTo(r, "pending") \/ GoTo(r, "reject")
    /\ UNCHANGED <<users, pending, ledger, locks, day>>

\* payup_confirm_submit decides whether a code is needed, verifies it, and
\* commits its own audit events: everything it loaded is expired by then.
\* A decision to block lets the request go on without a code: execute_payup_transfer
\* decides again.
StartPayup(r, t) ==
    LET o == Order[t] IN
    /\ pc[r] = "idle"
    /\ o.chan = "payup" /\ pending[t] \in {"open", "expired"}
    /\ ~users[o.from].frozen /\ ~users[o.to].frozen
    /\ \E asked \in {FALSE, /\ Remains(t)
                           /\ RequiresStepUp(o.amount, UsedOn(day, o.from, "payup"))} :
          work' = [work EXCEPT ![r].tok = t, ![r].authorized = asked]
    /\ GoTo(r, "load")
    /\ UNCHANGED <<users, pending, ledger, locks, seen, day>>

\* The first attribute access of execute_payup_transfer reads the sender again.
\* A frozen account or a missing nickname is refused.
LoadPayupSender(r) ==
    /\ pc[r] = "load"
    /\ Load(r, OrderOf(r).from)
    /\ IF users[OrderOf(r).from].frozen
       THEN GoTo(r, "reject")
       ELSE GoTo(r, "pending") \/ GoTo(r, "reject")
    /\ UNCHANGED <<users, pending, ledger, locks, work, day>>

\* _load_pending_local_transfer, _load_and_lock_payup_pending_transfer: lock the
\* unconsumed row and set consumed_at.  A local transfer compares expires_at with
\* the "now" it took before waiting for the lock, PayUp with the time after it.
\* An amount of the wrong precision or range is refused after that.
LockPending(r) ==
    LET t == work[r].tok
        late == IF Order[t].chan = "local" THEN work[r].late ELSE pending[t] = "expired" IN
    /\ pc[r] = "pending"
    /\ tokLock[t] = Free
    /\ IF pending[t] = "consumed"
       THEN /\ GoTo(r, "reject")
            /\ UNCHANGED <<tokLock, work>>
       ELSE /\ tokLock' = [tokLock EXCEPT ![t] = r]
            /\ work' = [work EXCEPT ![r].consumed = ~late]
            /\ \/ ~late /\ GoTo(r, IF Order[t].chan = "local" THEN "first"
                                                               ELSE "payup_recipient")
               \/ GoTo(r, "reject")
    /\ UNCHANGED <<users, pending, ledger, rowLock, auditLock, seen, day>>

\* _validate_payup_recipient
LoadPayupRecipient(r) ==
    /\ pc[r] = "payup_recipient"
    /\ Load(r, OrderOf(r).to)
    /\ GoTo(r, IF users[OrderOf(r).to].frozen THEN "reject" ELSE "first")
    /\ UNCHANGED <<users, pending, ledger, locks, work, day>>

\* Mutant: the sender is locked first, whatever the ids.
SenderFirst(o) == o.from

\* _lock_transfer_participants: one SELECT ... ORDER BY id FOR UPDATE, which
\* locks row after row.  Both users are loaded already: seen does not change.
Lower(o) == IF o.from < o.to THEN o.from ELSE o.to
Upper(o) == IF Lower(o) = o.from THEN o.to ELSE o.from

LockParticipant(r, stage, a, next) ==
    /\ pc[r] = stage
    /\ rowLock[a] = Free
    /\ rowLock' = [rowLock EXCEPT ![a] = r]
    /\ GoTo(r, next)
    /\ UNCHANGED <<users, pending, ledger, tokLock, auditLock, work, seen, day>>

LockFirst(r) == LockParticipant(r, "first", Lower(OrderOf(r)), "second")
LockSecond(r) == LockParticipant(r, "second", Upper(OrderOf(r)), "check")

\* Mutants: a check that forgets the amount, or is missing.
LimitWithoutAmount(r) ==
    UsedOn(day, OrderOf(r).from, OrderOf(r).chan)
        <= seen[r][OrderOf(r).from].limit[OrderOf(r).chan]
AlwaysCovered(r) == TRUE

\* The balance and the limit come from the loaded sender, the usage from a query.
WithinLimit(r) ==
    LET o == OrderOf(r) IN
    UsedOn(day, o.from, o.chan) + o.amount <= seen[r][o.from].limit[o.chan]

Covered(r) == OrderOf(r).amount <= seen[r][OrderOf(r).from].balance

StepUpDone(r) ==
    LET o == OrderOf(r) IN
    RequiresStepUp(o.amount, UsedOn(day, o.from, o.chan)) => work[r].authorized

\* _ensure_local_transfer_balance, _ensure_local_transfer_daily_limit
CheckLocal(r) ==
    /\ pc[r] = "check" /\ OrderOf(r).chan = "local"
    /\ GoTo(r, IF Covered(r) /\ WithinLimit(r) THEN "sign" ELSE "reject")
    /\ UNCHANGED <<users, pending, ledger, locks, work, seen, day>>

\* evaluate_payup_risk under the row lock, then the step-up and the balance.
\* The session's age and recent sensitive events may also block the payment.
CheckPayup(r) ==
    /\ pc[r] = "check" /\ OrderOf(r).chan = "payup"
    /\ \/ WithinLimit(r) /\ StepUpDone(r) /\ Covered(r) /\ GoTo(r, "sign")
       \/ GoTo(r, "reject")
    /\ UNCHANGED <<users, pending, ledger, locks, work, seen, day>>

\* created_at is taken after the checks, and signed with the transaction.
Sign(r) ==
    /\ pc[r] = "sign"
    /\ work' = [work EXCEPT ![r].created = day]
    /\ GoTo(r, "commit")
    /\ UNCHANGED <<users, pending, ledger, locks, seen, day>>

LedgerRow(r, created) ==
    [req |-> r, tok |-> work[r].tok, authorized |-> work[r].authorized,
     limit |-> IF OrderOf(r).chan = "topup" THEN 0
               ELSE seen[r][OrderOf(r).from].limit[OrderOf(r).chan],
     day |-> created]

\* Mutant: the recipient is not credited.
MovedDebitOnly(r) ==
    LET o == OrderOf(r) IN
    [users EXCEPT ![o.from].balance = seen[r][o.from].balance - o.amount]

\* Balances are computed from the loaded rows and written as absolute values.
Moved(r) ==
    LET o == OrderOf(r) IN
    [users EXCEPT ![o.from].balance = seen[r][o.from].balance - o.amount,
                  ![o.to].balance = seen[r][o.to].balance + o.amount]

\* Mutant: the consumption is left out of the commit.
CommitUnconsumed(r) ==
    /\ pc[r] = "commit"
    /\ auditLock = Free
    /\ users' = Moved(r)
    /\ ledger' = ledger \cup {LedgerRow(r, work[r].created)}
    /\ EndSession(r)
    /\ GoTo(r, "ok")
    /\ UNCHANGED <<pending, work, day>>

\* The required success audit (its lock is the last wait), then one commit of
\* balances, transaction, consumption and audit row.
CommitTransfer(r) ==
    /\ pc[r] = "commit"
    /\ auditLock = Free
    /\ users' = Moved(r)
    /\ ledger' = ledger \cup {LedgerRow(r, work[r].created)}
    /\ pending' = [pending EXCEPT ![work[r].tok] = "consumed"]
    /\ EndSession(r)
    /\ GoTo(r, "ok")
    /\ UNCHANGED <<work, day>>

----------------------------------------------------------------------------
(* Refusals: a best-effort audit event of the sender, whose commit also     *)
(* commits the consumption.                                                 *)

RejectTakeAuditLock(r) ==
    /\ pc[r] = "reject"
    /\ auditLock = Free
    /\ auditLock' = r
    /\ GoTo(r, "reject_insert")
    /\ UNCHANGED <<users, pending, ledger, rowLock, tokLock, work, seen, day>>

RejectCommit(r) ==
    /\ pc[r] = "reject_insert"
    /\ rowLock[OrderOf(r).from] \in {Free, r}
    /\ pending' = IF work[r].consumed
                  THEN [pending EXCEPT ![work[r].tok] = "consumed"] ELSE pending
    /\ EndSession(r)
    /\ GoTo(r, "rejected")
    /\ UNCHANGED <<users, ledger, work, day>>

\* A failed best-effort audit rolls the session back and is swallowed: the
\* refusal is reported, the consumption is gone.
RejectAuditFails(r) ==
    /\ pc[r] \in {"reject", "reject_insert"}
    /\ EndSession(r)
    /\ GoTo(r, "rejected")
    /\ UNCHANGED <<users, pending, ledger, work, day>>

----------------------------------------------------------------------------
(* The crediting half of topup_approve_submit.  The approval row, which the *)
(* request holds locked, is the subject of module TopUpApproval: here each  *)
(* approval is carried out by one request.                                  *)

StartTopUp(r, t) ==
    /\ pc[r] = "idle"
    /\ Order[t].chan = "topup" /\ pending[t] = "open" /\ tokLock[t] = Free
    /\ tokLock' = [tokLock EXCEPT ![t] = r]
    /\ Load(r, Order[t].to)
    /\ work' = [work EXCEPT ![r].tok = t]
    /\ GoTo(r, "topup_audit")
    /\ UNCHANGED <<users, pending, ledger, rowLock, auditLock, day>>

\* audit_event_required("account_topup_approval", "mfa_success") takes the audit
\* lock before the users row is locked.
TopUpTakeAuditLock(r) ==
    /\ pc[r] = "topup_audit"
    /\ auditLock = Free
    /\ auditLock' = r
    /\ GoTo(r, "topup_credit")
    /\ UNCHANGED <<users, pending, ledger, rowLock, tokLock, work, seen, day>>

\* credit_account_topup and the commit after it.  An account frozen when it was
\* loaded is refused: rollback, then the request row is marked failed.
TopUpCredit(r) ==
    LET a == OrderOf(r).to IN
    /\ pc[r] = "topup_credit"
    /\ rowLock[a] = Free
    /\ IF seen[r][a].frozen
       THEN /\ UNCHANGED <<users, ledger>>
            /\ GoTo(r, "rejected")
       ELSE /\ users' = [users EXCEPT ![a].balance = seen[r][a].balance + OrderOf(r).amount]
            /\ ledger' = ledger \cup {LedgerRow(r, day)}
            /\ GoTo(r, "ok")
    /\ pending' = [pending EXCEPT ![work[r].tok] = "consumed"]
    /\ EndSession(r)
    /\ UNCHANGED <<work, day>>

----------------------------------------------------------------------------
(* What else changes the rows a transfer reads.                             *)

\* transfer_limits_submit: the UPDATE waits for a row lock.
ChangeLimits(a, l) ==
    /\ rowLock[a] = Free
    /\ ~users[a].frozen
    /\ users' = [users EXCEPT ![a].limit = l]
    /\ UNCHANGED <<pending, ledger, locks, pc, work, seen, day>>

\* freeze_own_account: is_frozen and its required audit in one commit.
Freeze(a) ==
    /\ rowLock[a] = Free /\ auditLock = Free
    /\ ~users[a].frozen
    /\ users' = [users EXCEPT ![a].frozen = TRUE]
    /\ UNCHANGED <<pending, ledger, locks, pc, work, seen, day>>

\* Mutant: a consumed row expires as well.
ExpireConsumed(t) ==
    /\ pending[t] \in {"open", "consumed"} /\ Order[t].chan \in Channels
    /\ pending' = [pending EXCEPT ![t] = "expired"]
    /\ UNCHANGED <<users, ledger, locks, pc, work, seen, day>>

\* expires_at passes.
Expire(t) ==
    /\ pending[t] = "open" /\ Order[t].chan \in Channels
    /\ pending' = [pending EXCEPT ![t] = "expired"]
    /\ UNCHANGED <<users, ledger, locks, pc, work, seen, day>>

Midnight ==
    /\ day < MaxDay
    /\ day' = day + 1
    /\ UNCHANGED <<users, pending, ledger, locks, pc, work, seen>>

----------------------------------------------------------------------------
(* Waiting, deadlock and failure.                                           *)

\* The request that holds the users or pending row r waits for, or Free.
RowBlocker(r) ==
    CASE pc[r] = "pending" -> tokLock[work[r].tok]
      [] pc[r] = "first" -> rowLock[Lower(OrderOf(r))]
      [] pc[r] = "second" -> rowLock[Upper(OrderOf(r))]
      [] pc[r] = "reject_insert" ->
            IF rowLock[OrderOf(r).from] = r THEN Free ELSE rowLock[OrderOf(r).from]
      [] pc[r] = "topup_credit" -> rowLock[OrderOf(r).to]
      [] OTHER -> Free

Blocker(r) == IF pc[r] \in {"commit", "reject", "topup_audit"} THEN auditLock
              ELSE RowBlocker(r)

\* A set of requests each of which waits for another of them.
WaitCycle(C, blocker(_)) == C # {} /\ \A r \in C : blocker(r) \in C

\* PostgreSQL aborts a request of a cycle.  The error is a rollback everywhere;
\* only a refusal's audit event swallows it.
DeadlockAbort(r) ==
    /\ \E C \in SUBSET Requests :
          /\ r \in C /\ WaitCycle(C, Blocker)
          /\ \A D \in SUBSET C : D # C => ~WaitCycle(D, Blocker)
    /\ EndSession(r)
    /\ GoTo(r, IF pc[r] \in {"reject", "reject_insert"} THEN "rejected" ELSE "failed")
    /\ UNCHANGED <<users, pending, ledger, work, day>>

\* Any other failure before the commit (a required audit event that cannot be
\* written, a lost connection, a killed worker) is a rollback.
Fail(r) ==
    /\ pc[r] \notin {"idle"} \cup Finished
    /\ EndSession(r)
    /\ GoTo(r, "failed")
    /\ UNCHANGED <<users, pending, ledger, work, day>>

----------------------------------------------------------------------------
Step(r) ==
    \/ LoadLocalRecipient(r) \/ LoadPayupSender(r) \/ LockPending(r)
    \/ LoadPayupRecipient(r) \/ LockFirst(r) \/ LockSecond(r)
    \/ CheckLocal(r) \/ CheckPayup(r) \/ Sign(r) \/ CommitTransfer(r)
    \/ RejectTakeAuditLock(r) \/ RejectCommit(r)
    \/ TopUpTakeAuditLock(r) \/ TopUpCredit(r)

Start(r) == \E t \in Tokens : StartLocal(r, t) \/ StartPayup(r, t) \/ StartTopUp(r, t)

Next ==
    \/ \E t \in Tokens : SubmitLocal(t) \/ SubmitPayup(t) \/ SubmitTopUp(t) \/ Expire(t)
    \/ \E r \in Requests : \/ Start(r) \/ Step(r)
                           \/ RejectAuditFails(r) \/ DeadlockAbort(r) \/ Fail(r)
    \/ \E a \in Accounts : \/ Freeze(a)
                           \/ \E l \in Limits : ChangeLimits(a, l)
    \/ Midnight

\* A request that can proceed does (a worker runs it), and PostgreSQL breaks
\* every deadlock after deadlock_timeout.
Fairness == \A r \in Requests : WF_vars(Step(r)) /\ WF_vars(DeadlockAbort(r))

Spec == Init /\ [][Next]_vars
FairSpec == Spec /\ Fairness

----------------------------------------------------------------------------
(* Properties.                                                              *)

\* Every variable has its type.
TypeOK ==
    /\ users \in [Accounts -> UserRows]
    /\ pending \in [Tokens -> TokenStates]
    /\ ledger \subseteq LedgerRows
    /\ rowLock \in [Accounts -> Requests \cup {Free}]
    /\ tokLock \in [Tokens -> Requests \cup {Free}]
    /\ auditLock \in Requests \cup {Free}
    /\ pc \in [Requests -> Stages]
    /\ work \in [Requests -> Works]
    /\ seen \in [Requests -> [Accounts -> UserRows]]
    /\ day \in 0 .. MaxDay

\* However many requests confirm the same token, at most one of them records a
\* transaction, and that transaction's token is consumed.
TokenSpentOnce ==
    \A row \in ledger :
        /\ pending[row.tok] = "consumed"
        /\ \A other \in ledger : other.tok = row.tok => other = row

\* No interleaving of debits overdraws an account: the check constraint
\* ck_users_balance_non_negative is never what stops a transfer.
NoOverdraft == \A a \in Accounts : users[a].balance >= 0

\* What a sender moves through one channel in one day never exceeds the largest of
\* the daily limits that those transfers were checked against (the limit may be
\* changed between them), whatever runs concurrently and whenever midnight falls
\* between check and commit.
DailyLimitHeld ==
    \A d \in 0 .. MaxDay, a \in Accounts, c \in Channels :
        LET rows == {row \in ledger : /\ Order[row.tok].from = a
                                      /\ Order[row.tok].chan = c
                                      /\ row.day = d}
        IN  rows # {} => Sum(rows) <= Max({row.limit : row \in rows})

\* The PayUp payments of one sender on one day that no authenticator code was
\* given for stay within the quick caps, although the request decided whether to
\* ask for a code before it held any lock.
StepUpHonoured ==
    \A d \in 0 .. MaxDay, a \in Accounts :
        LET quick == {row \in ledger : /\ Order[row.tok].from = a
                                       /\ Order[row.tok].chan = "payup"
                                       /\ row.day = d /\ ~row.authorized}
        IN  /\ Sum(quick) <= QuickDailyCap
            /\ \A row \in quick : Order[row.tok].amount <= QuickCap

\* Neither the daily limits nor the quick caps are passed: the checks made
\* under the sender's row lock (_ensure_local_transfer_daily_limit, evaluate_payup_risk)
\* hold to the commit.
CapsHeld == DailyLimitHeld /\ StepUpHonoured

\* Locking the two participants in ascending id order leaves no cycle of requests
\* waiting for users rows or pending rows alone (_lock_transfer_participants).
RowLocksAcyclic == \A C \in SUBSET Requests : ~WaitCycle(C, RowBlocker)

\* The change a transaction stands for.
Delta(a, o) == (IF o.to = a THEN o.amount ELSE 0)
               - (IF o.from = a /\ o.chan # "topup" THEN o.amount ELSE 0)

Records ==
    \/ ledger' = ledger /\ \A a \in Accounts : users'[a].balance = users[a].balance
    \/ \E row \in ledger' \ ledger :
          /\ ledger' = ledger \cup {row}
          /\ \A a \in Accounts :
                \/ users'[a].balance = users[a].balance + Delta(a, Order[row.tok])
                \/ seen[row.req][a].balance # users[a].balance

\* A step changes balances only by recording one transaction, and it changes
\* every balance by what the transaction says, except where the request computed
\* the new balance from a copy that another commit had outdated.
MovesWhatItRecords == [][Records]_vars

TokenOf(t) == IF \E row \in ledger : row.tok = t THEN "spent"
              ELSE CASE pending[t] = "absent" -> "absent"
                     [] pending[t] = "consumed" -> "void"
                     [] OTHER -> "open"
Abstract == INSTANCE PendingTokens WITH token <- [t \in Tokens |-> TokenOf(t)]

\* A pending transfer is offered once and ends once: the requests implement the
\* abstract life of a token.
ImplementsPendingTokens == Abstract!TokenSpec

\* Every request that starts is answered: no wait for a lock is forever, since
\* each deadlock is broken.
EveryRequestFinishes ==
    \A r \in Requests : pc[r] # "idle" ~> pc[r] \in Finished

----------------------------------------------------------------------------
(* What the documentation says, and the code does not keep.                 *)

\* docs/OPERATIONS.md: the sender is debited, the recipient credited and the
\* transaction created in a single atomic commit.  So the balances are what the
\* opening balances and the recorded transactions add up to.
BalancesReconcile ==
    \A a \in Accounts :
        users[a].balance = Opening[a] +
            MapThenSumSet(LAMBDA row : Delta(a, Order[row.tok]), ledger)

\* docs/OPERATIONS.md: row locks are acquired in ascending id order to prevent
\* deadlocks.  So no requests wait for each other in a cycle.
NoDeadlock == \A C \in SUBSET Requests : ~WaitCycle(C, Blocker)
=============================================================================
