---------------------------- MODULE AdminActions ----------------------------
(* Maker-checker: one root admin asks for a high-risk change, another approves *)
(* it, and the approval carries it out (app/admin/services.py). The changes    *)
(* are staff account lifecycle steps, decisions on a customer's manual         *)
(* recovery (app/auth/password_reset.py) and the unlock of a customer account  *)
(* locked in CustomerLocks, whose handlers run beside the ones here.           *)
(*                                                                             *)
(* A decision reads the request row without a lock, verifies a TOTP code       *)
(* (which commits) and writes the row; nothing looks at its status again.      *)
EXTENDS CustomerLocks

CONSTANTS Roots,      \* root administrators
          Members,    \* staff and admin accounts that may be managed
          Requests,   \* ids of admin_action_requests
          Recoveries, \* ids of manual_recovery_requests
          Owner,      \* the customer each recovery is about
          Named       \* the identifier it is submitted under: identifier_ref

VARIABLES eligible,  \* root admins that are active and on the allowlist
          member,    \* account_status, mfa_enabled and workplace verification
          request,   \* admin_action_requests
          recovery,  \* manual_recovery_requests
          mfa,       \* customers with an enrolled authenticator
          granted    \* history: recoveries an approval has reached

adminVars == <<eligible, member, request, recovery, mfa, granted>>
makerVars == <<lockVars, adminVars>>

StaffOps == {"staff_deactivate", "staff_reactivate", "staff_reset_activation"}
RecoveryOps == {"manual_recovery_approve", "manual_recovery_deny", "manual_recovery_complete"}
UnlockOp == "customer_security_unlock"

\* MANUAL_RECOVERY_ALLOWED_TRANSITIONS
RecoveryMoves == [pending      |-> {"under_review", "denied", "expired", "cancelled"},
                  under_review |-> {"approved", "denied", "expired", "cancelled"},
                  approved     |-> {"completed", "expired", "cancelled"}]
ActiveRecovery == DOMAIN RecoveryMoves
MovesTo(status) == IF status \in ActiveRecovery THEN RecoveryMoves[status] ELSE {}

MemberRow == [status : {"active", "setup_pending", "revoked"}, mfa : BOOLEAN, verified : BOOLEAN]
RecoveryRow == [status : ActiveRecovery \cup {"denied", "expired", "cancelled", "completed"},
                due : BOOLEAN]
RequestRow ==
  [op : StaffOps \cup RecoveryOps \cup {UnlockOp},
   target : Members \cup Recoveries \cup Customers,
   lock : LockRow \cup {NoRow},
   requester : Roots, approver : Roots \cup {NoReason}, due : BOOLEAN,
   status : {"pending", "rejected", "cancelled", "expired", "executed", "execution_failed"}]

AdminInit ==
  /\ LocksInit
  /\ eligible = Roots
  /\ member = [m \in Members |-> [status |-> "active", mfa |-> TRUE, verified |-> TRUE]]
  /\ request = [q \in Requests |-> NoRow]
  /\ recovery = [i \in Recoveries |-> NoRow]
  /\ mfa = Customers
  /\ granted = {}

-----------------------------------------------------------------------------
(* Manual recovery: public submission, review, expiry.                        *)

\* request_manual_recovery: the due requests under this identifier are expired; an
\* active one absorbs the new submission, else a pending row is added. A customer has
\* several identifiers, and nothing keeps two submissions from both finding none.
SubmitRecovery(h, i) ==
  LET mine == {j \in Recoveries : Named[j] = Named[i] /\ recovery[j] # NoRow}
      stale == {j \in mine : recovery[j].status \in ActiveRecovery /\ recovery[j].due}
      active == {j \in mine \ stale : recovery[j].status \in ActiveRecovery}
  IN /\ job[h] = Idle
     /\ job' = IF active = {} THEN [job EXCEPT ![h] = [op |-> "submit", target |-> i]] ELSE job
     /\ recovery' = [j \in Recoveries |->
          IF j \in stale THEN [recovery[j] EXCEPT !.status = "expired"] ELSE recovery[j]]
     /\ UNCHANGED <<cust, failures, live, clock, eligible, member, request, mfa, granted>>

InsertRecovery(h) ==
  /\ job[h].op = "submit" /\ recovery[job[h].target] = NoRow
  /\ recovery' = [recovery EXCEPT ![job[h].target] = [status |-> "pending", due |-> FALSE]]
  /\ Done(h)
  /\ UNCHANGED <<cust, failures, live, clock, eligible, member, request, mfa, granted>>

RecoveryFallsDue(i) ==
  /\ recovery[i] # NoRow /\ ~recovery[i].due
  /\ recovery' = [recovery EXCEPT ![i].due = TRUE]
  /\ UNCHANGED <<lockVars, eligible, member, request, mfa, granted>>

\* expire_manual_recovery_requests: active and due rows.
ExpireManualRecoveryRequests ==
  /\ recovery' = [i \in Recoveries |->
       IF recovery[i].status \in ActiveRecovery /\ recovery[i].due
         THEN [recovery[i] EXCEPT !.status = "expired"] ELSE recovery[i]]
  /\ UNCHANGED <<lockVars, eligible, member, request, mfa, granted>>

\* What transition_manual_recovery_request makes of a row it has loaded: the status
\* to write, or the row's own status when the call fails or changes nothing.
RecoveryTransition(row, to) ==
  IF row.status \in ActiveRecovery /\ row.due THEN "expired"
  ELSE IF to \in MovesTo(row.status) THEN to ELSE row.status

\* One root admin takes a request into review (no second person needed); the row
\* is loaded without a lock.
ReviewLoad(h, a, i) ==
  /\ a \in eligible /\ MayActOn(a, Owner[i])
  /\ recovery[i] # NoRow
  /\ Begin(h, [op |-> "review", target |-> i, seen |-> recovery[i]])
  /\ UNCHANGED <<cust, failures, live, clock, adminVars>>

ReviewCommit(h) ==
  /\ job[h].op = "review"
  /\ LET i == job[h].target
         new == RecoveryTransition(job[h].seen, "under_review")
     IN recovery' = [recovery EXCEPT ![i].status = IF new = job[h].seen.status THEN @ ELSE new]
  /\ Done(h)
  /\ UNCHANGED <<cust, failures, live, clock, eligible, member, request, mfa, granted>>

-----------------------------------------------------------------------------
(* Asking. Each entry point ends in _create_admin_action_request.             *)

CreateAdminActionRequest(a, q, op, t, lock) ==
  /\ a \in eligible /\ request[q] = NoRow
  /\ request' = [request EXCEPT ![q] =
       [op |-> op, target |-> t, lock |-> lock, requester |-> a, approver |-> NoReason,
        due |-> FALSE, status |-> "pending"]]

RequestStaffTransition(a, q, m, op) ==
  /\ CreateAdminActionRequest(a, q, op, m, NoRow)
  /\ UNCHANGED <<lockVars, eligible, member, recovery, mfa, granted>>

\* _validate_manual_recovery_transition_request and _completion_request.
Decidable(op) == CASE op = "manual_recovery_approve" -> {"under_review"}
                   [] op = "manual_recovery_deny" -> {"pending", "under_review"}
                   [] op = "manual_recovery_complete" -> {"approved"}

RequestRecoveryDecision(a, q, i, op) ==
  /\ recovery[i] # NoRow /\ ~recovery[i].due
  /\ recovery[i].status \in Decidable(op)
  /\ MayActOn(a, Owner[i])
  /\ CreateAdminActionRequest(a, q, op, i, NoRow)
  /\ UNCHANGED <<lockVars, eligible, member, recovery, mfa, granted>>

\* Asking for a decision on a due request marks it expired, whatever its status.
ExpireOnRequest(a, i) ==
  /\ a \in eligible /\ MayActOn(a, Owner[i])
  /\ recovery[i] # NoRow /\ recovery[i].due
  /\ recovery' = [recovery EXCEPT ![i].status = "expired"]
  /\ UNCHANGED <<lockVars, eligible, member, request, mfa, granted>>

\* locked_customers_for_admin, _locked_customer_for_update
Reviewable(c) == cust[c].frozen /\ cust[c].at # 0 /\ cust[c].reason \in RootReviewable

\* request_customer_security_unlock: the check, then the TOTP commit, which lets go of
\* the customer's row.
UnlockRequestCheck(h, a, c) ==
  /\ a \in eligible /\ Reviewable(c) /\ MayActOn(a, c)
  /\ Begin(h, [op |-> "ask", actor |-> a, cust |-> c])
  /\ UNCHANGED <<cust, failures, live, clock, adminVars>>

\* The request names the lock as it is read after the commit: the one checked, a later
\* one or, when it has been lifted meanwhile, none.
RequestCustomerSecurityUnlock(h, q) ==
  /\ job[h].op = "ask"
  /\ CreateAdminActionRequest(job[h].actor, q, UnlockOp, job[h].cust, cust[job[h].cust])
  /\ Done(h)
  /\ UNCHANGED <<cust, failures, live, clock, eligible, member, recovery, mfa, granted>>

-----------------------------------------------------------------------------
(* Deciding.                                                                  *)

RequestFallsDue(q) ==
  /\ request[q].status = "pending" /\ ~request[q].due
  /\ request' = [request EXCEPT ![q].due = TRUE]
  /\ UNCHANGED <<lockVars, eligible, member, recovery, mfa, granted>>

\* Any look at a due request expires it. _expire_admin_action_request_if_stale
ExpireAdminActionRequest(a, q) ==
  /\ a \in eligible
  /\ request[q].status = "pending" /\ request[q].due
  /\ request' = [request EXCEPT ![q].status = "expired"]
  /\ UNCHANGED <<lockVars, eligible, member, recovery, mfa, granted>>

\* _pending_admin_action_request_or_error
Pending(q) == request[q].status = "pending" /\ ~request[q].due

\* Mutant: the requester may approve.
ApproveAlone(h, a, q) ==
  /\ a \in eligible /\ Pending(q) /\ request[q].requester \in eligible
  /\ Begin(h, [op |-> "approve", actor |-> a, req |-> q, seen |-> Unloaded])
  /\ UNCHANGED <<cust, failures, live, clock, adminVars>>

\* approve_admin_action_request_as_root_admin up to the code's commit.
ApproveCheck(h, a, q) ==
  /\ a \in eligible /\ Pending(q) /\ request[q].requester \in eligible
  /\ request[q].requester # a
  /\ Begin(h, [op |-> "approve", actor |-> a, req |-> q, seen |-> Unloaded])
  /\ UNCHANGED <<cust, failures, live, clock, adminVars>>

\* The execution loads a staff account or a recovery without a row lock.
ExecuteLoad(h) ==
  /\ job[h].op = "approve" /\ job[h].seen = Unloaded
  /\ LET r == request[job[h].req] IN
       /\ r.op # UnlockOp
       /\ job' = [job EXCEPT ![h].seen =
            IF r.op \in StaffOps THEN member[r.target] ELSE recovery[r.target]]
  /\ UNCHANGED <<cust, failures, live, clock, adminVars>>

\* Mutant: the decision does not record who took it.
DecideUnsigned(q, a, status) == request' = [request EXCEPT ![q].status = status]

\* approver_id and status, set together.
Decide(q, a, status) ==
  request' = [request EXCEPT ![q].approver = a, ![q].status = status]

\* The columns _execute_staff_account_lifecycle writes.
Lifecycle(op, row) ==
  CASE op = "staff_deactivate" -> [row EXCEPT !.status = "revoked"]
    [] op = "staff_reactivate" -> [row EXCEPT !.status = "active"]
    [] op = "staff_reset_activation" ->
         [row EXCEPT !.status = "setup_pending", !.mfa = FALSE, !.verified = FALSE]

\* A staff step, its audit row and the request's status are one transaction;
\* reactivating an account without MFA or a verified address fails.
ExecuteStaff(h) ==
  /\ job[h].op = "approve" /\ job[h].seen # Unloaded
  /\ LET q == job[h].req
         r == request[q]
         seen == job[h].seen
         ok == r.op = "staff_reactivate" => seen.mfa /\ seen.verified
     IN /\ r.op \in StaffOps
        /\ IF ok THEN member' = [member EXCEPT ![r.target] = Flush(@, seen, Lifecycle(r.op, seen))]
                 ELSE UNCHANGED member
        /\ Decide(q, job[h].actor, IF ok THEN "executed" ELSE "execution_failed")
  /\ Done(h)
  /\ UNCHANGED <<cust, failures, live, clock, eligible, recovery, mfa, granted>>

RecoveryTarget(op) == CASE op = "manual_recovery_approve" -> "approved"
                        [] op = "manual_recovery_deny" -> "denied"
                        [] op = "manual_recovery_complete" -> "completed"

\* Mutant: completing does not look at the request's status.
CompleteUnapproved(op, row, c) ==
  op = "manual_recovery_complete" \/ RecoveryTransition(row, RecoveryTarget(op)) = RecoveryTarget(op)

\* Whether the decision goes through: a transition of the table (or one already
\* made), and for completion an approved request of a customer who is not blocked.
RecoverySucceeds(op, row, c) ==
  /\ RecoveryTransition(row, RecoveryTarget(op)) = RecoveryTarget(op)
  /\ op = "manual_recovery_complete" => row.status = "approved" /\ ~Blocked(c)

\* The recovery's row is committed on its own; the approver's request row follows
\* in FinishDecision. Completion takes the customer's MFA and sessions away. An
\* active request that is due is expired instead.
ExecuteRecovery(h) ==
  /\ job[h].op = "approve" /\ job[h].seen # Unloaded
  /\ LET q == job[h].req
         op == request[q].op
         i == request[q].target
         seen == job[h].seen
         mine == MayActOn(job[h].actor, Owner[i])
         ok == mine /\ RecoverySucceeds(op, seen, Owner[i])
         new == IF ok THEN RecoveryTarget(op)
                ELSE IF mine /\ seen.due /\ seen.status \in ActiveRecovery THEN "expired"
                ELSE seen.status
         completes == ok /\ op = "manual_recovery_complete"
     IN /\ op \in RecoveryOps
        /\ recovery' = [recovery EXCEPT ![i].status = IF new = seen.status THEN @ ELSE new]
        /\ mfa' = IF completes THEN mfa \ {Owner[i]} ELSE mfa
        /\ live' = IF completes THEN live \ {Owner[i]} ELSE live
        /\ granted' = IF new = "approved" THEN granted \cup {i} ELSE granted
        /\ job' = [job EXCEPT ![h] =
             [op |-> "finish", actor |-> job[h].actor, req |-> q,
              status |-> IF ok THEN "executed" ELSE "execution_failed"]]
  /\ UNCHANGED <<cust, failures, clock, eligible, member, request>>

FinishDecision(h) ==
  /\ job[h].op = "finish"
  /\ Decide(job[h].req, job[h].actor, job[h].status)
  /\ Done(h)
  /\ UNCHANGED <<cust, failures, live, clock, eligible, member, recovery, mfa, granted>>

\* Mutant: the unlock does not compare the lock with the one that was reviewed.
SameLockUnread(c, r) == Reviewable(c)

\* The customer's row is locked and must still carry the lock under review.
SameLock(c, r) == Reviewable(c) /\ cust[c].at = r.lock.at /\ cust[c].reason = r.lock.reason

\* Unlocking clears the lock columns, the password and code counters and the
\* sessions in the transaction that marks the request executed.
ExecuteUnlock(h) ==
  /\ job[h].op = "approve"
  /\ LET q == job[h].req
         r == request[q]
         c == r.target
         ok == SameLock(c, r) /\ MayActOn(job[h].actor, c)
     IN /\ r.op = UnlockOp
        /\ IF ok
             THEN /\ cust' = [cust EXCEPT ![c] = [frozen |-> FALSE, at |-> 0, reason |-> NoReason]]
                  /\ failures' = [failures EXCEPT ![c]["password"] = 0, ![c]["mfa"] = 0]
                  /\ live' = live \ {c}
             ELSE UNCHANGED <<cust, failures, live>>
        /\ Decide(q, job[h].actor, IF ok THEN "executed" ELSE "execution_failed")
  /\ Done(h)
  /\ UNCHANGED <<clock, eligible, member, recovery, mfa, granted>>

\* Rejecting is for another root admin, cancelling for the requester.
RejectCheck(h, a, q) ==
  /\ a \in eligible /\ Pending(q) /\ request[q].requester # a
  /\ Begin(h, [op |-> "finish", actor |-> a, req |-> q, status |-> "rejected"])
  /\ UNCHANGED <<cust, failures, live, clock, adminVars>>

CancelCheck(h, a, q) ==
  /\ a \in eligible /\ Pending(q) /\ request[q].requester = a
  /\ Begin(h, [op |-> "cancel", req |-> q])
  /\ UNCHANGED <<cust, failures, live, clock, adminVars>>

CancelCommit(h) ==
  /\ job[h].op = "cancel"
  /\ request' = [request EXCEPT ![job[h].req].status = "cancelled"]
  /\ Done(h)
  /\ UNCHANGED <<cust, failures, live, clock, eligible, member, recovery, mfa, granted>>

\* A root admin leaves the allowlist (a configuration change).
RootWithdrawn(a) ==
  /\ a \in eligible
  /\ eligible' = eligible \ {a}
  /\ UNCHANGED <<lockVars, member, request, recovery, mfa, granted>>

RecoveryNext ==
  \/ \E h \in Handlers :
       \/ \E i \in Recoveries : SubmitRecovery(h, i) \/ \E a \in Roots : ReviewLoad(h, a, i)
       \/ InsertRecovery(h) \/ ReviewCommit(h) \/ ExecuteRecovery(h)
  \/ \E i \in Recoveries :
       \/ RecoveryFallsDue(i)
       \/ \E a \in Roots :
            \/ ExpireOnRequest(a, i)
            \/ \E q \in Requests, op \in RecoveryOps : RequestRecoveryDecision(a, q, i, op)
  \/ ExpireManualRecoveryRequests

AccountsNext ==
  \/ \E a \in Roots, q \in Requests, m \in Members, op \in StaffOps :
       RequestStaffTransition(a, q, m, op)
  \/ \E h \in Handlers : ExecuteStaff(h)

UnlockNext ==
  \E h \in Handlers :
    \/ \E a \in Roots, c \in Customers : UnlockRequestCheck(h, a, c)
    \/ \E q \in Requests : RequestCustomerSecurityUnlock(h, q)
    \/ ExecuteUnlock(h)

DecisionNext ==
  \/ \E a \in Roots, q \in Requests :
       \/ ExpireAdminActionRequest(a, q)
       \/ \E h \in Handlers : ApproveCheck(h, a, q) \/ RejectCheck(h, a, q) \/ CancelCheck(h, a, q)
  \/ \E q \in Requests : RequestFallsDue(q)
  \/ \E h \in Handlers : ExecuteLoad(h) \/ FinishDecision(h) \/ CancelCommit(h)
  \/ \E a \in Roots : RootWithdrawn(a)

AdminNext ==
  \/ LocksNext /\ UNCHANGED adminVars
  \/ RecoveryNext \/ AccountsNext \/ UnlockNext \/ DecisionNext

AdminSpec == AdminInit /\ [][AdminNext]_makerVars

-----------------------------------------------------------------------------

\* The types of the tables of admin/services.py, and that a decided request names the
\* root admin who decided it: no interleaving of decisions leaves one unsigned.
AdminTypeOK ==
  /\ LocksTypeOK
  /\ eligible \subseteq Roots
  /\ member \in [Members -> MemberRow]
  /\ request \in [Requests -> RequestRow \cup {NoRow}]
  /\ \A q \in Requests : request[q] # NoRow =>
       (request[q].status \in {"rejected", "executed", "execution_failed"}
          => request[q].approver \in Roots)
  /\ recovery \in [Recoveries -> RecoveryRow \cup {NoRow}]
  /\ mfa \subseteq Customers /\ granted \subseteq Recoveries

\* A handler carries out a request on t that a root admin other than its actor made.
SecondPersonActsOn(t) ==
  \E h \in Handlers :
    /\ job[h].op = "approve" /\ job'[h] # job[h]
    /\ request[job[h].req].target = t
    /\ request[job[h].req].requester # job[h].actor

\* Two-person rule: a staff account's lifecycle, the approval, denial or completion of
\* a recovery and the loss of a customer's MFA come only from the approval of a request
\* made by someone else, however the handlers interleave.
TwoPersonRule ==
  [][/\ \A m \in Members : member'[m] # member[m] => SecondPersonActsOn(m)
     /\ \A i \in Recoveries :
          /\ recovery'[i].status # recovery[i].status
          /\ recovery'[i].status \in {"approved", "denied", "completed"}
          => SecondPersonActsOn(i)
     /\ \A c \in mfa \ mfa' : \E i \in Recoveries : Owner[i] = c /\ SecondPersonActsOn(i)]_makerVars

\* A security lock is lifted only by the approval of a request that names this very
\* lock (its reason and its time), by a root admin who is neither the requester nor
\* the customer; no race with staff, failures or another unlock lifts a lock that
\* nobody has reviewed.
LockLiftedAsReviewed ==
  [][\A c \in Customers : cust[c].at # 0 /\ cust'[c].at = 0 =>
       \E h \in Handlers :
         /\ job[h].op = "approve" /\ MayActOn(job[h].actor, c)
         /\ LET r == request[job[h].req] IN
              /\ r.op = UnlockOp /\ r.target = c /\ r.requester # job[h].actor
              /\ r.lock.at = cust[c].at /\ r.lock.reason = cust[c].reason]_makerVars

\* A customer's MFA is reset only for a recovery that an earlier pair of decisions has
\* approved, and that was still approved when the completion read it: a completion asked
\* for in time but carried out after the recovery was denied or ran out resets nothing.
ResetWasGranted ==
  [][\A c \in mfa \ mfa' :
       \E h \in Handlers, i \in granted :
         /\ Owner[i] = c /\ job[h].op = "approve" /\ request[job[h].req].target = i
         /\ job[h].seen # Unloaded /\ job[h].seen.status = "approved"]_makerVars
=============================================================================
