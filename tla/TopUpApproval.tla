--------------------------- MODULE TopUpApproval ---------------------------
(***************************************************************************)
(* The life of a top-up approval request: created by a logged-in customer, *)
(* approved on a second device with an authenticator code                  *)
(* (topup_approve_submit), looked at by the device that waits              *)
(* (topup_status, topup_approve).  All requests are of one customer.       *)
(*                                                                         *)
(* A submission locks the row, but recording an accepted or a wrong code   *)
(* commits, which releases the lock and expires what was loaded.  After an *)
(* accepted code the next access to the customer reloads the customer and, *)
(* through the eagerly loaded backref, the row, without a lock; the SELECT *)
(* FOR UPDATE that follows leaves the reloaded attributes alone.           *)
(***************************************************************************)
EXTENDS Integers, FiniteSets

CONSTANTS
    Tokens,       \* approval requests
    HttpRequests, \* HTTP requests, each handled at most once
    Steps,        \* time steps whose code the authenticator accepts
    Wrong,        \* a code of no step
    MaxFailures,  \* _TOPUP_APPROVAL_MAX_FAILURES
    Nobody,       \* the holder of a lock that nobody holds
    NotLoaded     \* the attributes of an expired object

ASSUME SomeToken == Tokens # {}
ASSUME FailureBound == MaxFailures \in Nat \ {0}
ASSUME NobodyHolds == Nobody \notin HttpRequests
ASSUME WrongIsNoStep == Wrong \notin Steps

VARIABLES
    row,      \* committed rows of topup_approval_requests
    late,     \* the requests whose expires_at has passed
    lock,     \* FOR UPDATE locks on the rows
    frozen,   \* the customer is frozen or locked
    used,     \* time steps with a TotpReplayRecord
    credits,  \* committed top-up credits
    pc,       \* where each HTTP request is
    work,     \* its approval request and its code
    copy      \* what its session has loaded of the row and of the customer

vars == <<row, late, lock, frozen, used, credits, pc, work, copy>>

Statuses == {"absent", "pending", "completed", "expired", "failed"}
Settled == {"completed", "expired", "failed"}
RowValues == [status : Statuses, failures : Nat]
Works == [tok : Tokens, code : Steps \cup {Wrong}]
Loaded == [status : Statuses, failures : Nat, frozen : BOOLEAN]
Credits == [req : HttpRequests, tok : Tokens, code : Steps]

Init ==
    /\ row = [t \in Tokens |-> [status |-> "absent", failures |-> 0]]
    /\ late = {}
    /\ lock = [t \in Tokens |-> Nobody]
    /\ frozen = FALSE
    /\ used = {}
    /\ credits = {}
    /\ pc = [r \in HttpRequests |-> "idle"]
    /\ work = [r \in HttpRequests |-> [tok |-> CHOOSE t \in Tokens : TRUE, code |-> Wrong]]
    /\ copy = [r \in HttpRequests |-> NotLoaded]

Tok(r) == work[r].tok
GoTo(r, stage) == pc' = [pc EXCEPT ![r] = stage]
Available(r) == lock[Tok(r)] \in {Nobody, r}
Release(r) == lock' = [lock EXCEPT ![Tok(r)] = IF @ = r THEN Nobody ELSE @]
SetStatus(r, s) == row' = [row EXCEPT ![Tok(r)].status = s]
Current(t) == [status |-> row[t].status, failures |-> row[t].failures, frozen |-> frozen]

\* generate_topup_token
Submit(t) ==
    /\ row[t].status = "absent" /\ ~frozen
    /\ row' = [row EXCEPT ![t].status = "pending"]
    /\ UNCHANGED <<late, lock, frozen, used, credits, pc, work, copy>>

\* load_topup_request_for_approval(lock=True) with the attributes c: a request
\* that is not pending is refused, one whose time has passed is to be marked.
Triage(r, t, c, next) ==
    /\ lock' = [lock EXCEPT ![t] = IF c.status = "pending" THEN r ELSE Nobody]
    /\ copy' = [copy EXCEPT ![r] = c]
    /\ GoTo(r, IF c.status # "pending" THEN "done"
               ELSE IF t \in late THEN "expire" ELSE next)

\* topup_approve_submit begins.
Open(r, t, code) ==
    /\ pc[r] = "idle" /\ row[t].status # "absent"
    /\ lock[t] = Nobody
    /\ work' = [work EXCEPT ![r] = [tok |-> t, code |-> code]]
    /\ Triage(r, t, Current(t), "code")
    /\ UNCHANGED <<row, late, frozen, used, credits>>

\* An ineligible owner fails the request; the mark is lost when the best-effort
\* audit event, whose failure rolls back, cannot be written.
OwnerIneligible(r) ==
    /\ pc[r] = "code" /\ frozen
    /\ SetStatus(r, "failed") \/ UNCHANGED row
    /\ Release(r)
    /\ GoTo(r, "done")
    /\ UNCHANGED <<late, frozen, used, credits, work, copy>>

\* Mutant: the replay record is not unique.
CodeReplayed(r) ==
    /\ pc[r] = "code" /\ ~frozen
    /\ Release(r)
    /\ used' = used \cup ({work[r].code} \ {Wrong})
    /\ GoTo(r, IF work[r].code = Wrong THEN "failure" ELSE "reload")
    /\ copy' = [copy EXCEPT ![r] = NotLoaded]
    /\ UNCHANGED <<row, late, frozen, credits, work>>

\* verify_totp_code_for_user: the code's time step is recorded and committed, or
\* the failure is (a replayed code is a wrong one).
CheckCode(r) ==
    /\ pc[r] = "code" /\ ~frozen
    /\ Release(r)
    /\ IF work[r].code \in Steps \ used
       THEN used' = used \cup {work[r].code} /\ GoTo(r, "reload")
       ELSE UNCHANGED used /\ GoTo(r, "failure")
    /\ copy' = [copy EXCEPT ![r] = NotLoaded]
    /\ UNCHANGED <<row, late, frozen, credits, work>>

\* The failure backoff refuses to look at the code; the refusal is counted, and
\* may be the one that locks the customer.
Backoff(r) ==
    /\ pc[r] = "code" /\ ~frozen
    /\ Release(r)
    /\ frozen' \in BOOLEAN
    /\ GoTo(r, "done")
    /\ UNCHANGED <<row, late, used, credits, work, copy>>

\* Clearing the failure counters reads the customer; when it then deletes a
\* counter, its commit expires everything again.
Reload(r) ==
    /\ pc[r] = "reload"
    /\ \E c \in {Current(Tok(r)), NotLoaded} : copy' = [copy EXCEPT ![r] = c]
    /\ GoTo(r, "second")
    /\ UNCHANGED <<row, late, lock, frozen, used, credits, work>>

\* The row is locked again; only unloaded attributes are read.
Reopen(r) ==
    /\ pc[r] = "second"
    /\ lock[Tok(r)] = Nobody
    /\ Triage(r, Tok(r), IF copy[r] = NotLoaded THEN Current(Tok(r)) ELSE copy[r], "credit")
    /\ UNCHANGED <<row, late, frozen, used, credits, work>>

\* credit_account_topup and the commit.  A frozen account is refused: rollback.
Credit(r) ==
    /\ pc[r] = "credit"
    /\ Release(r)
    /\ IF copy[r].frozen
       THEN UNCHANGED <<row, credits>> /\ GoTo(r, "refuse")
       ELSE /\ SetStatus(r, "completed")
            /\ credits' = credits \cup {[req |-> r, tok |-> Tok(r), code |-> work[r].code]}
            /\ GoTo(r, "done")
    /\ UNCHANGED <<late, frozen, used, work, copy>>

\* After the rollback the request is marked failed, without a lock.
MarkRefused(r) ==
    /\ pc[r] = "refuse" /\ Available(r)
    /\ SetStatus(r, "failed")
    /\ GoTo(r, "done")
    /\ UNCHANGED <<late, lock, frozen, used, credits, work, copy>>

\* failure_count += 1 reloads the row without a lock.
ReadFailures(r) ==
    /\ pc[r] = "failure"
    /\ copy' = [copy EXCEPT ![r] = Current(Tok(r))]
    /\ GoTo(r, "count")
    /\ UNCHANGED <<row, late, lock, frozen, used, credits, work>>

\* Mutant: the whole row is written back.
CountFailureWhole(r) ==
    /\ pc[r] = "count" /\ Available(r)
    /\ row' = [row EXCEPT ![Tok(r)] =
                 [status |-> IF copy[r].failures + 1 >= MaxFailures THEN "failed"
                             ELSE copy[r].status,
                  failures |-> copy[r].failures + 1]]
    /\ GoTo(r, "done")
    /\ UNCHANGED <<late, lock, frozen, used, credits, work, copy>>

\* The new count, and the status when it is the last, are written and committed.
\* A status that the copy already has is no change, and not written.
CountFailure(r) ==
    /\ pc[r] = "count" /\ Available(r)
    /\ row' = [row EXCEPT ![Tok(r)] =
                 [status |-> IF copy[r].failures + 1 >= MaxFailures /\ copy[r].status # "failed"
                             THEN "failed" ELSE @.status,
                  failures |-> copy[r].failures + 1]]
    /\ GoTo(r, "done")
    /\ UNCHANGED <<late, lock, frozen, used, credits, work, copy>>

\* topup_status and topup_approve read the row without a lock.
Look(r, t) ==
    /\ pc[r] = "idle" /\ row[t].status # "absent"
    /\ work' = [work EXCEPT ![r].tok = t]
    /\ copy' = [copy EXCEPT ![r] = Current(t)]
    /\ GoTo(r, IF row[t].status = "pending" /\ t \in late THEN "expire" ELSE "done")
    /\ UNCHANGED <<row, late, lock, frozen, used, credits>>

\* Mutant: the mark is committed, the lock is kept.
MarkExpiredHolding(r) ==
    /\ pc[r] = "expire" /\ Available(r)
    /\ SetStatus(r, "expired")
    /\ GoTo(r, "done")
    /\ UNCHANGED <<late, lock, frozen, used, credits, work, copy>>

\* _lazily_expire, by whoever found the request pending and late.
MarkExpired(r) ==
    /\ pc[r] = "expire" /\ Available(r)
    /\ SetStatus(r, "expired")
    /\ Release(r)
    /\ GoTo(r, "done")
    /\ UNCHANGED <<late, frozen, used, credits, work, copy>>

\* A required audit event that fails, a lost connection: rollback.
Fail(r) ==
    /\ pc[r] \notin {"idle", "done"}
    /\ Release(r)
    /\ GoTo(r, "done")
    /\ UNCHANGED <<row, late, frozen, used, credits, work, copy>>

\* expires_at passes.
Expire(t) ==
    /\ row[t].status # "absent" /\ t \notin late
    /\ late' = late \cup {t}
    /\ UNCHANGED <<row, lock, frozen, used, credits, pc, work, copy>>

Freeze ==
    /\ ~frozen
    /\ frozen' = TRUE
    /\ UNCHANGED <<row, late, lock, used, credits, pc, work, copy>>

----------------------------------------------------------------------------
Step(r) ==
    \/ OwnerIneligible(r) \/ CheckCode(r) \/ Backoff(r) \/ Reload(r) \/ Reopen(r)
    \/ Credit(r) \/ MarkRefused(r) \/ ReadFailures(r) \/ CountFailure(r)
    \/ MarkExpired(r)

Next ==
    \/ \E t \in Tokens : Submit(t) \/ Expire(t)
    \/ \E r \in HttpRequests, t \in Tokens :
          Look(r, t) \/ \E code \in Steps \cup {Wrong} : Open(r, t, code)
    \/ \E r \in HttpRequests : Step(r) \/ Fail(r)
    \/ Freeze

Spec == Init /\ [][Next]_vars

\* A request that can proceed does: a worker runs it, row locks are granted.
FairSpec == Spec /\ \A r \in HttpRequests : SF_vars(Step(r))

----------------------------------------------------------------------------
Stages == {"idle", "code", "reload", "second", "credit", "refuse", "failure", "count",
           "expire", "done"}

\* Every variable has its type; the status is one the table allows.
TypeOK ==
    /\ row \in [Tokens -> RowValues]
    /\ late \subseteq Tokens
    /\ lock \in [Tokens -> HttpRequests \cup {Nobody}]
    /\ frozen \in BOOLEAN
    /\ used \subseteq Steps
    /\ credits \subseteq Credits
    /\ pc \in [HttpRequests -> Stages]
    /\ work \in [HttpRequests -> Works]
    /\ copy \in [HttpRequests -> Loaded \cup {NotLoaded}]

\* A code pays for at most one credit, however many devices send it and whichever
\* approval requests they send it for.
CodeBuysOneCredit == \A a, b \in credits : a.code = b.code => a = b

\* The waiting device is told "completed" only after the money was credited.
CompletedMeansCredited ==
    \A t \in Tokens : row[t].status = "completed" => \E c \in credits : c.tok = t

\* A request that is completed, expired or failed never becomes pending again,
\* although counts and marks are written from old copies.
NeverReopened ==
    [][\A t \in Tokens : row[t].status \in Settled => row'[t].status \in Settled]_vars

\* Every HTTP request is answered: nothing that is committed on the way leaves a
\* lock behind.
EveryRequestAnswered == \A r \in HttpRequests : pc[r] # "idle" ~> pc[r] = "done"

----------------------------------------------------------------------------
(* What a docstring says, and the code does not keep.                       *)

\* load_topup_request_for_approval: returns None for anything not currently
\* pending.  So the request that a submission goes on to credit is pending.
OnlyPendingApproved ==
    \A r \in HttpRequests : pc[r] = "credit" => row[Tok(r)].status = "pending"
=============================================================================
