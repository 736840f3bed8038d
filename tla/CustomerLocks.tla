--------------------------- MODULE CustomerLocks ---------------------------
(* The lock and freeze state of customer accounts: automatic locks after      *)
(* wrong passwords or codes (app/auth/services.py), the customer's own freeze, *)
(* and freeze and unfreeze by bank staff (app/admin/services.py).              *)
(*                                                                             *)
(* A handler first checks the customer's row and then verifies a TOTP code.    *)
(* The verification commits (it stores the spent code), which releases the row *)
(* lock the check took and forgets the row: every such handler is two steps,   *)
(* and other handlers run in between.                                          *)
EXTENDS Naturals, Workers

CONSTANTS Customers,      \* customer accounts
          Staff,          \* active plain-staff members
          Linked,         \* pairs <<employee, customer>> that are one person
          LockThreshold,  \* failures that lock, by scope
          MaxLocks        \* bound on the locks ever placed

ASSUME LocksAssumption ==
  /\ MaxLocks \in Nat
  /\ LockThreshold \in [{"password", "mfa", "password_change"} -> Nat \ {0}]

VARIABLES cust,      \* users.is_frozen, security_locked_at, security_lock_reason
          failures,  \* auth_attempt_counters of the scopes user_security:*
          live,      \* customers with an authenticated session
          clock      \* stamps given to security_locked_at so far

lockVars == <<cust, failures, live, clock, job>>

NoReason == "no reason"

Scopes == DOMAIN LockThreshold
LockReason(scope) == CASE scope = "password" -> "password_failed_attempts"
                       [] scope = "mfa" -> "mfa_failed_attempts"
                       [] OTHER -> "password_change_failed_attempts"
StaffFreeze == "staff_fraud_freeze"
LockReasons == {LockReason(s) : s \in Scopes} \cup {StaffFreeze}
RootReviewable == {LockReason("password"), LockReason("mfa"), StaffFreeze}

\* The columns of the user row the lock handlers read and write (0 is NULL).
LockRow == [frozen : BOOLEAN, at : 0..MaxLocks, reason : LockReasons \cup {NoReason}]

\* ensure_account_can_authenticate, ensure_account_not_frozen, _account_reset_blocked
Blocked(c) == cust[c].frozen \/ cust[c].at # 0

\* separation.assert_not_self_customer_action: nobody acts on an own account.
MayActOn(person, c) == <<person, c>> \notin Linked

LocksInit ==
  /\ cust = [c \in Customers |-> [frozen |-> FALSE, at |-> 0, reason |-> NoReason]]
  /\ failures = [c \in Customers |-> [s \in Scopes |-> 0]]
  /\ live = {}
  /\ clock = 0
  /\ job = [h \in Handlers |-> Idle]

-----------------------------------------------------------------------------
(* Sign-in. The account check precedes the code's verification; the session   *)
(* is opened after it without a second check.                                 *)

SignInCheck(h, c) ==
  /\ ~Blocked(c)
  /\ Begin(h, [op |-> "signin", cust |-> c])
  /\ UNCHANGED <<cust, failures, live, clock>>

\* Success clears the password and code counters and opens the session.
SignInFinish(h) ==
  /\ job[h].op = "signin"
  /\ LET c == job[h].cust IN
       /\ failures' = [failures EXCEPT ![c]["password"] = 0, ![c]["mfa"] = 0]
       /\ live' = live \cup {c}
  /\ Done(h)
  /\ UNCHANGED <<cust, clock>>

\* A wrong password at sign-in needs no account state; a wrong code or a wrong
\* current password is only looked at while the account is open.
WrongSecret(h, c, s) ==
  /\ s = "password" \/ ~Blocked(c)
  /\ Begin(h, [op |-> "failed", cust |-> c, scope |-> s])
  /\ UNCHANGED <<cust, failures, live, clock>>

\* _record_user_security_failure: count under the counter's row lock, commit, and
\* go on to lock at the threshold. Only the password scope reads the user again
\* (its threshold depends on the account type) before the columns are set.
\* Counts past the threshold behave alike and are not told apart.
RecordFailure(h) ==
  /\ job[h].op = "failed"
  /\ LET c == job[h].cust
         s == job[h].scope
         n == failures[c][s] + 1
     IN IF n >= LockThreshold[s]
          THEN /\ failures' = [failures EXCEPT ![c][s] = LockThreshold[s]]
               /\ job' = [job EXCEPT ![h] =
                    [op |-> "lock", cust |-> c, reason |-> LockReason(s),
                     seen |-> IF s = "password" THEN cust[c] ELSE Unloaded]]
          ELSE /\ failures' = [failures EXCEPT ![c][s] = n]
               /\ Done(h)
  /\ UNCHANGED <<cust, live, clock>>

\* _lock_user_account
LockUserAccount(h) ==
  /\ job[h].op = "lock" /\ clock < MaxLocks
  /\ LET c == job[h].cust IN
       /\ cust' = [cust EXCEPT ![c] =
            Flush(@, job[h].seen, [frozen |-> TRUE, at |-> clock + 1, reason |-> job[h].reason])]
       /\ clock' = clock + 1
       /\ live' = live \ {c}
  /\ Done(h)
  /\ UNCHANGED failures

\* The 15-minute window of a counter passes (or the cleanup removes the row).
FailureWindowEnds(c, s) ==
  /\ failures[c][s] > 0
  /\ failures' = [failures EXCEPT ![c][s] = 0]
  /\ UNCHANGED <<cust, live, clock, job>>

-----------------------------------------------------------------------------
(* Freezing and unfreezing without a lock reason review.                      *)

FreezeOwnCheck(h, c) ==
  /\ c \in live /\ ~Blocked(c)
  /\ Begin(h, [op |-> "freezeOwn", cust |-> c])
  /\ UNCHANGED <<cust, failures, live, clock>>

\* Only is_frozen is written; the customer keeps the session that asked.
FreezeOwnCommit(h) ==
  /\ job[h].op = "freezeOwn"
  /\ cust' = [cust EXCEPT ![job[h].cust].frozen = TRUE]
  /\ Done(h)
  /\ UNCHANGED <<failures, live, clock>>

\* _is_voluntary_customer_self_freeze
VoluntaryFreeze(c) == cust[c].frozen /\ cust[c].reason = NoReason

UnfreezeCheck(h, s, c) ==
  /\ VoluntaryFreeze(c) /\ MayActOn(s, c)
  /\ Begin(h, [op |-> "unfreeze", cust |-> c])
  /\ UNCHANGED <<cust, failures, live, clock>>

\* After the code's commit is_frozen is cleared without looking at the row again.
UnfreezeCommit(h) ==
  /\ job[h].op = "unfreeze"
  /\ cust' = [cust EXCEPT ![job[h].cust].frozen = FALSE]
  /\ live' = live \ {job[h].cust}
  /\ Done(h)
  /\ UNCHANGED <<failures, clock>>

\* _active_customer_for_freeze_update looks at is_frozen alone.
StaffFreezeCheck(h, s, c) ==
  /\ ~cust[c].frozen /\ MayActOn(s, c)
  /\ Begin(h, [op |-> "freeze", cust |-> c])
  /\ UNCHANGED <<cust, failures, live, clock>>

StaffFreezeCommit(h) ==
  /\ job[h].op = "freeze" /\ clock < MaxLocks
  /\ LET c == job[h].cust IN
       /\ cust' = [cust EXCEPT ![c] = [frozen |-> TRUE, at |-> clock + 1, reason |-> StaffFreeze]]
       /\ live' = live \ {c}
  /\ clock' = clock + 1
  /\ Done(h)
  /\ UNCHANGED failures

\* A failed required audit row, a database error or a dying worker: what the
\* handler has not committed is rolled back.
HandlerFails(h) ==
  /\ ~Free(h)
  /\ Done(h)
  /\ UNCHANGED <<cust, failures, live, clock>>

LocksNext ==
  \/ \E h \in Handlers, c \in Customers :
       \/ SignInCheck(h, c)
       \/ FreezeOwnCheck(h, c)
       \/ \E s \in Scopes : WrongSecret(h, c, s)
       \/ \E s \in Staff : UnfreezeCheck(h, s, c) \/ StaffFreezeCheck(h, s, c)
  \/ \E h \in Handlers :
       \/ SignInFinish(h) \/ RecordFailure(h) \/ LockUserAccount(h)
       \/ FreezeOwnCommit(h) \/ UnfreezeCommit(h) \/ StaffFreezeCommit(h)
       \/ HandlerFails(h)
  \/ \E c \in Customers, s \in Scopes : FailureWindowEnds(c, s)

-----------------------------------------------------------------------------

LockJobs ==
  {Idle}
  \cup [op : {"signin", "freezeOwn", "unfreeze", "freeze"}, cust : Customers]
  \cup [op : {"failed"}, cust : Customers, scope : Scopes]
  \cup [op : {"lock"}, cust : Customers, reason : LockReasons, seen : LockRow \cup {Unloaded}]

\* The types of the lock columns, the failure counters and the sessions.
LocksTypeOK ==
  /\ cust \in [Customers -> LockRow]
  /\ failures \in [Customers -> [Scopes -> Nat]]
  /\ live \subseteq Customers
  /\ clock \in 0..MaxLocks

\* Whoever places a security lock, the customer has no session in the state that
\* carries it: revoke_all_sessions is in the transaction that sets security_locked_at.
LocksEndSessions ==
  [][\A c \in Customers :
       cust'[c].at # cust[c].at /\ cust'[c].at # 0 => c \notin live']_lockVars
=============================================================================
