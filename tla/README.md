# SITBank: TLA+ models, checks and proofs

SITBank is a Flask application over PostgreSQL. A customer holds one account,
pays by Local Transfer (to a registered payee) and PayUp (to a phone number), and
tops the account up after approving on a second device. Staff handle disputes,
tickets, freezes and recoveries in an admin console, where high-risk changes need
two root admins. Security-relevant steps are written to a hash-chained audit log.
Several workers serve requests concurrently; all shared state is in the database,
under READ COMMITTED, reached through SQLAlchemy sessions that live for one request.

The models are written from the code under `src/app/`. Rows, locks and session
payloads are the variables; an action is a statement that can wait for a lock, or a
commit, with the Python up to the next one. `PROJECT.json` maps every definition to
its lines, and lists the hazards with the properties that watch them.

Four facts of the libraries decide most of what is hard here:

- A session keeps the attributes of a loaded object until its next commit or
  rollback. A later `SELECT ... FOR UPDATE` locks the row and does not refresh them
  (no query uses `populate_existing`).
- A flush writes the changed columns, as absolute values (`Flush` in Workers).
- `audit_event` (best effort) commits the caller's whole session, or rolls it back
  and swallows the error. `audit_event_required` only flushes and raises. A commit
  in the middle of a handler releases its row locks and expires what it loaded.
- Every audit insert takes one advisory lock and holds it to the end of the
  transaction. Inserting a row with a foreign key to `users` takes a key-share lock
  that waits for a `FOR UPDATE` lock.

A browser session is different: a request works on the payload it opened and its
response stores the whole payload, so of two overlapping requests the last wins.

## Modules

Money:

| Module | Code | State and actions |
|---|---|---|
| Transfers | `banking/services.py`, `banking/routes.py` | `pc[r]` is the next statement of request `r` that may wait; `users`, `pending`, `ledger` are committed rows; `rowLock`, `tokLock`, `auditLock` the locks; `seen[r]` the session's copies, from which balances are computed. `RejectAuditFails` is the refusal whose audit event rolls everything back, `DeadlockAbort` PostgreSQL's choice of a victim. Freezes, limit changes and submissions are atomic |
| PendingTokens | the promise behind `_lock_pending_*` | a pending transfer is offered once, then spent by one transaction or void; Transfers implements it |
| TopUpApproval | `banking/topup_tokens.py`, `topup_approve_submit` | `row`, `lock` are approval rows and locks, `copy[r]` what the session has loaded, `used` the time steps with a replay record. After an accepted code the row is reloaded without a lock (`Reload`) |
| Payees | `banking/routes.py`, `banking/services.py` | payee rows, pending transfers and the web session of one customer: add in two steps, cancel, remove, transfer |
| QuickPay | `banking/routes.py`, `evaluate_payup_risk`, `update_profile_details` | PayUp from lookup to payment, its attempt limits and risk policy, and the change of email and phone |
| Reservations | `validate_public_transaction_payload` and helpers | the idempotency record of one key, its insert race and the retention job |

Access:

| Module | Code | State and actions |
|---|---|---|
| Sessions | `security/sessions.py` | open, save, sign-in stages, rotation, step-up, revocation, logout and sweep of one account's sessions |
| Registration | `auth/registration_otp.py`, `auth/services.py` | a code is requested, mailed, verified; an account is inserted |
| Authenticators | `auth/services.py`, `recovery_codes.py`, `password_history.py`, staff self-service | setup, confirmation and replacement, code checks with replay records, recovery codes, password changes with history |
| PasswordReset | `auth/password_reset.py` | link, exchange, method, factor, completion |
| Devices | `security/device_recognition.py` | known devices and the mandatory notice of a new one |
| HibpBreaker | `security/passwords.py` | the circuit breaker around the breach lookup |

Office and operations:

| Module | Code | State and actions |
|---|---|---|
| CustomerLocks | `auth/services.py`, `admin/services.py` | failure counts, automatic locks, freezes, sessions they end |
| AdminActions | `admin/services.py`, `auth/password_reset.py` | maker-checker over staff accounts, manual recoveries and unlocks; EXTENDS CustomerLocks, whose handlers run beside it |
| StaffInvites | `admin/services.py` | invite, delivery, start, verification, activation, revocation, reset, for one workplace address |
| Cases | `web/routes.py`, `admin/services.py` | disputes and tickets: filing under daily limits, decisions by staff |
| AttemptCounters | `security/rate_limits.py`, `state_cleanup.py` | one counter row with its locks, insert race, window and cleanup. Other modules use the operations as atomic |
| Alerts | `security/alerts.py` | windows, deduplication, delivery, integrity baseline |
| Keyrings | `security/crypto.py`, `transaction_integrity.py`, `ops/commands.py` | rotation of the two keyrings, rewrap and backfill commands |
| AuditChain | `security/audit.py`, `ops/commands.py` | `log` and `draft[w]` are committed and uncommitted rows, `lastId` the id sequence, `anchor` the anchor file, `held[k]` what a command has read. The hash is ideal: the sequence of what was hashed |

**Workers** has what the handlers share: `job[h]` is what handler `h` keeps between
two commits. A handler that dies, or whose required audit row fails, is an action of
its module (`HandlerFails`, `RequestDies` and their like): what it committed stays.
Alerts is the exception: its reports run to their end. One that dies after its dedupe
records are committed and before the post keeps those alerts silent for the lifetime
of the records, so `AlertsAttempted` holds only of reports that go through.

The parts meet in four ways. CustomerLocks and AdminActions share the customer's row
and run together. Transfers takes the audit lock of AuditChain as a lock only.
TopUpApproval and Authenticators use the same code check. Every module but
AttemptCounters takes a durable counter as atomic, which `NothingUncounted` and
`GrantsWithinLimit` justify up to one race: a request that read the time before the
end of a window and waited for the lock may renew the row after it, and a deletion that
had already picked the row as late takes the renewed count with it. Variables called
history record what happened; at most a bound of the instance looks at them.

`MC*` modules give the instances. Operators introduced by a comment "Mutant" are
deliberately wrong variants of the definition that follows; no specification uses
them.

## Runs that pass

Parts that share no row are not interleaved with each other: a run chooses a
`scene` in its initial state and plays the parts of that scene only. The bounds of
a scene are conjuncts on the next state, in the MC module.

| Run | Scenes | States | Shows |
|---|---|---|---|
| `transfers` | ledger: 2 requests, 3 tokens of both channels; caps: 2 PayUp payments, 2 limits, one midnight | 711,223 | `TokenSpentOnce`, `NoOverdraft`, `MovesWhatItRecords`, `CapsHeld` (the daily limit and the quick caps), `RowLocksAcyclic`, refinement of PendingTokens |
| `requests_answered` | approvals: 2 approval requests, 2 HTTP requests, 2 codes; moves: crossing transfers and a top-up | 195,240 | `CodeBuysOneCredit`, `NeverReopened`; every request is answered (`EveryRequestEnds`) |
| `audit` | damage: 1 keeper, 2 damages; crowd: 2 keepers; 2 writers, 1 legacy row, ids to 4, 1 kill | 368,578 | `ChainVerifies`, `NoFalseAlarm`, `AcceptedVouches`, `AnchorCatchesUp` |
| `staff_desk` | locks, accounts, recoveries: 3 root admins of whom one is the customer, 2 requests, 2 handlers | 1,580,215 | `TwoPersonRule`, `LockLiftedAsReviewed`, `ResetWasGranted` |
| `back_office` | invites, cases, counters, locks, bursts, integrity, keks, ledger | 1,724,331 | `ActivationEarned`; `OneOpenReport`, `DecisionStands`; `NothingUncounted`; `AlertsAttempted`, `BaselineNeverRewinds`; `SecretsReadable` |
| `customer_access` | hours, places, registration, logins, devices, passwords, staff, reset | 1,310,162 | `SettledStaysEnded`, `SessionsAgeOut` (the lifetime runs from the sign-in, polls are no activity), `StepUpFromKnownPlace`; `RegisteredEmailProved` (and one account per address); `CodeAcceptedOnce` (TOTP and recovery codes), `NoRecentReuse`; `ResetEarned` (a link is exchanged once, a reset had its factor) |
| `customer_banking` | payees, profile, pay, limits, reservations, devices, breaker | 1,434,481 | `LedgerAsConfirmed` (cooldown, signed rows, one transfer per token); `ContactProved` (proved, and one owner), `PayupPolicyHeld` (fresh recipient, quiet period, attempt limits); `FirstUseUnlessSwept`; `KnownMeansTold`; `OpensOnlyOnOutage` |

The last four runs also check one type invariant each, by scene; the types of the
other components, and four further properties
(`CompletedMeansCredited`, `LocksEndSessions`, `GrantsWithinLimit`, `SignedRowsStand`), are left to the proofs below.

Bounds. Each race in the code is between two parties, so two handlers (requests,
writers) meet all pairwise interleavings. Amounts are chosen at the boundary: the
opening balance covers one of two payments; a limit of 3 admits both PayUp payments
and a limit of 2 does not; each is within the quick cap and their sum is not. Limits
on failures, attempts and starts are 1 or 2 instead of the configured ones, so that
they are reached. Lifetimes are 0 to 3 ticks, and clocks (`MaxDay`, `MaxTime`, `MaxTick`,
`MaxNow`, `MaxClock`, `MaxStep`, `MaxHour`) run far enough, in some scene, to pass every one of them;
`MaxLocks`, `MaxRows`, `MaxCount`, `MaxEvents`, `MaxFailures`, `MaxResets` bound what
would grow for ever. Four ids allow an audit transaction with two events and another
after a gap. What a property exempts is said in its comment and in the hazard's note.

Handlers, ids and tokens that are alike are symmetric in the runs without liveness.
HTTP requests, and bounded clocks, come to an end, so those runs may stop
(`CHECK_DEADLOCK FALSE`); `audit` checks deadlock.

Fairness. Transfers: weak fairness of each request's steps (a worker runs it) and
of deadlock detection. TopUpApproval: strong fairness of each request's steps, since
PostgreSQL queues lock waiters. AuditChain: open transactions end (weak), the
refresh timer fires repeatedly and its lock request is eventually granted (strong),
and a command that has read goes on to write (weak). Kills are bounded. The other
modules state no fairness: their properties are safety.

`AcceptedVouches` meets lost and altered rows with one anchor command at a time: a
refresh compares the anchor it read before it waited, so an overlapping command may
replace an anchor nobody compared. `AnchorCatchesUp` excepts an anchor replaced by an
export that read an empty chain.

## Runs that find a disagreement

The quoted lines are in `PROJECT.json` under `findings`.

- `transfers_reconcile`: two crossing transfers are both recorded, but the second
  writes balances computed from copies loaded before it waited for the locks.
- `transfers_deadlock`: a transfer takes the users rows before the audit lock, a
  top-up the other way round; ascending ids do not prevent that cycle.
- `topup_stale_approval`: the second locked load passes a request settled since the
  unlocked reload. With codes of two time steps a request can be credited twice.
- `access_enrolled_without_secret`: submitting the setup form again after the setup
  was confirmed clears the enrolled secret and leaves MFA enabled.
- `office_rewrap_rewinds_secret`: the rewrap command writes back the ciphertext it
  read, undoing an authenticator replaced since.

These follow from the library semantics stated above, which are modelled as
external facts; they were not reproduced against a running database.

## What is proved

For every value of the constants that meets the named assumptions:

| Theorem | Statement | Inductive invariant |
|---|---|---|
| `TransfersProofs!TypeCorrect` | `TypeOK` | itself |
| `TransfersProofs!TokenSafety` | `TokenSpentOnce` | `TokenInv`: a request past the token check holds the token's lock and the token is live |
| `TransfersProofs!FundsSafety` | `NoOverdraft` | `FundsInv`: loaded copies are non-negative, and a checked debit is still covered by the copy it will be written from |
| `TransfersProofs!Refinement` | `ImplementsPendingTokens` | `TokenInv`; every step is an abstract step or a stutter |
| `TransfersProofs!RecordsHold` | `MovesWhatItRecords` | `TokenInv` and `TopUpStages` |
| `CapsProofs!CapsSafety` | `CapsHeld` | `CapsInv`: from the check to the commit the sender's row is locked, the transaction fits the limit on the day it is dated with (`Checked`), and no row is dated later than today |
| `TransfersProofs!RowsAcyclic` | `RowLocksAcyclic` | `RowInv`: a request that waits for its second row holds the lower one and nothing else; `TransferStages` |
| `ApprovalProofs!TopUpTypes` | `TypeOK` | `TopUpRows`: also that a count is written from a loaded copy |
| `ApprovalProofs!TopUpCodes` | `CodeBuysOneCredit` | `Inv`: an accepted code belongs to one request until it has paid (`CodesSpent`) |
| `ApprovalProofs!TopUpCompleted` | `CompletedMeansCredited` | `Inv` |
| `ApprovalProofs!TopUpSettled` | `NeverReopened` | `Inv`; every row moves as `StatusMoves` allows |
| `ApprovalProofs!AdminTwoPersons` | `TwoPersonRule` | `AdminInv`: an approval under way is about an existing request of somebody else, and (`RequestsStand`) a request keeps what it asks |
| `ApprovalProofs!AdminResets` | `ResetWasGranted` | `AdminInv`: approved recoveries, and those a completion is asked for, were granted |
| `ApprovalProofs!AdminUnlocks` | `LockLiftedAsReviewed` | `AdminInv` |
| `ApprovalProofs!AdminLocksEndSessions` | `LocksEndSessions` | `AdminInv` |
| `ApprovalProofs!AdminTyped` | `AdminTypeOK` | `AdminTypes`: also what each handler has loaded, and that the row it loaded is still there |
| `OfficeProofs!InvitesEarned` | `ActivationEarned` | `InvitesInv`: a code out in the mail is unspent, a start holds the row as it found it, a verification has its browser's binding or finds the invite spent, and the invite of the last start keeps its browser until it is spent (`SetupHeld`) |
| `OfficeProofs!CasesOneOpen` | `OneOpenReport` | `CasesInv`: two open reports of a transaction are one |
| `OfficeProofs!CasesStand` | `DecisionStands` | `CasesInv`: a decision under way is a step of the table from the status it read |
| `OfficeProofs!CountersCount` | `NothingUncounted` | `CountersInv`: a handler that counts holds the row or its key and has the row's count, or replaces a row that is late (`CounterHeld`); an id picked for deletion is that of no live row but a revived one, since ids are given out once (`CleanupKnows`) |
| `OfficeProofs!CountersGrant` | `GrantsWithinLimit` | `CountersInv` |
| `OfficeProofs!KeyringsReadable` | `SecretsReadable` | `KekInv`: the active key, and the target of a running rewrap, are in the ring |
| `OfficeProofs!KeyringsSigned` | `SignedRowsStand` | `LedgerInv`: a row a backfill is to sign has no key yet |
| `BankingProofs!QuickPayContact` | `ContactProved` | `QuickPayInv`: the code of a pending change, in the session or in any copy of it, was sent to the address of that change |
| `BankingProofs!QuickPayPolicy` | `PayupPolicyHeld` | `QuickPayInv`: payments made and attempts in hand are attempts counted (`AttemptsCover`), and a draft lives no longer than its lookup and confirmation (`DraftsTimely`) |
| `BankingProofs!PayeesLedger` | `LedgerAsConfirmed` | `PayeesInv`: the payee of a request about to execute is cool or was removed for good, and a ledger row's payee is pinned by its pending row |
| `BankingProofs!ReservationsFirstUse` | `FirstUseUnlessSwept` | `ReservationsInv`: the record is the last grant's and is missing only where it was deleted, and a request about to commit holds it and came a lifetime after that grant (`Spaced`) |
| `AccessProofs!CodesOnce` | `CodeAcceptedOnce` | `AuthInv`: the replay record of an accepted code outlasts the code, and a recovery code is in one handler's hands |
| `AccessProofs!PasswordsFresh` | `NoRecentReuse` | `AuthInv`: a change that no other overtook was checked against the history, and the history is what the passwords were |
| `AccessProofs!ResetsEarned` | `ResetEarned` | `ResetInv`: until a right code is entered every copy of the transaction, stored or in hand, asks for one; an exchanged link belongs to one handler until its transaction exists |
| `AccessProofs!RegistrationProved` | `RegisteredEmailProved` | `RegistrationInv`: what any copy of a browser's session calls verified, that browser's owner reads |
| `SecurityProofs!SessionsSettled` | `SettledStaysEnded` | `SessionsInv`: a settled session is ended and in nobody's hands |
| `SecurityProofs!SessionsAge` | `SessionsAgeOut` | `SessionsInv`: no copy of a session, stored or in hand, is younger than what happened to it (`CopiesFit`) |
| `SecurityProofs!SessionsPlace` | `StepUpFromKnownPlace` | `SessionsInv`: a signed-in copy names the place of the last proof |
| `SecurityProofs!AlertsBaseline` | `BaselineNeverRewinds` | `AlertsInv`: a report compares with figures that had not sunk below those at its beginning |
| `SecurityProofs!AlertsDelivered` | `AlertsAttempted` | `AttemptInv`: a report that has read the events holds every alert owed; a record left by an overlapping report means that one delivers |
| `SecurityProofs!DevicesKnown` | `KnownMeansTold` | `DevicesInv`: a token whose notice is still to be sent is carried by no browser and no response |
| `SecurityProofs!BreakerOpens` | `OpensOnlyOnOutage` | `BreakerInv`: the failures counted in the row and those not yet recorded are at most the failures there were, and none is later than the last |
| `AuditChainProofs!TypeCorrect` | `TypeOK` | `TypeInv`: also which commands hold an anchor |
| `AuditChainProofs!ChainSafety` | `ChainVerifies` | `ChainInv`: drafts belong to the lock holder, come after every committed row and extend a chain that verifies |
| `AuditChainProofs!AnchorSafety` | `NoFalseAlarm` | `AnchorInv`: each anchor is the head of a part of the log, and the rest came after it |
| `AuditChainProofs!AnchorVouches` | `AcceptedVouches`, if anchor commands do not overlap (`OneCommand`) | `VouchInv`: an id is one row's for good, drafts are newer than every anchor, and the hashed rows up to an anchored event are rows the anchor was computed over |

Hardly any of these is inductive as it stands, mostly for one reason: a property
speaks of committed rows, and the next commit is decided by what a handler has in
hand. The strengthening says what a handler may have in hand:
a lock and what it protects (`TokenInv`, `ChainInv`, `CounterHeld`), or a copy that
is old but still bounds what is true (`FundsInv`, `Spaced`, `DecisionsKnown`,
`CopiesFit`, `CopiesAsk`, `Spares`). Where a response writes back a whole row or
session, the invariant is about every copy, stored or in hand: the copy that is
written last may be any of them.

The theorems are about the components' specifications (`Spec`, `AdminSpec`,
`CasesSpec` and so on), for any number of handlers. A run's scenes are the steps of
these within bounds; its other variables stay as they are. CapsProofs goes on from
TransfersProofs; ApprovalProofs is about AdminActions and TopUpApproval; OfficeProofs
about StaffInvites, Cases, AttemptCounters and Keyrings; BankingProofs about QuickPay,
Payees and Reservations; AccessProofs about Authenticators, PasswordReset and
Registration; SecurityProofs about Sessions, Alerts, Devices and HibpBreaker.

Assumptions: account ids are naturals, amounts are positive, only a top-up is from
an account to itself, opening balances, limits, lifetimes and bounds are naturals,
limits on failures, attempts and requests that the code requires to be positive are,
and the markers are nobody and no value: `Free`, `Nobody`, `None` and `Wrong`, "absent" and
"legacy" for ledger rows, and "sender", the attempt counter of the payer, for
recipients. A mailbox that reads the account's opening email is assumed in QuickPay,
since registration proved it (`RegisteredEmailProved`). Reservations assumes
that a worker timeout is no longer than the lifetime of a record
(`ReservationsAssumption`): the Dockerfile gives a worker 30 seconds, and the
lifetime is a day by default. TLC evaluates the assumptions in every run that
extends their module.

The prover cannot apply an induction rule to a property. Three theorems need one
and take a least counterexample instead (`LeastNatural`, from the well-foundedness of
the naturals): `CapsSafety` for what a sum over a finite set of ledger rows is
(`SumFacts`, `SumAdds`, by the number of rows), and `RowsAcyclic` for a cycle of waits,
which has a greatest row that is waited for (its holder waits for a greater one), and
`AnchorVouches` for hashes that grow along a chain (`HashesGrow`).

`AnchorVouches` has a hypothesis, that one anchor command runs at a time. The
systemd timer runs refreshes so; an export by hand may overlap one. Without it
`AcceptedVouches` fails once rows are lost: a refresh compares the chain with the
file as it was before it waited for the lock, and may replace a newer file that an
export wrote meanwhile and that names lost rows. The run plays losses around one
command for the same reason.

Only model-checked: liveness, which the prover does not do, and the types of the
modules played by scenes (`OfficeTypeOK`, `AccessTypeOK`, `BankingTypeOK`), of which
the invariants above contain the part each proof needs.

`BaselineNeverRewinds` is relative to `floor`, the baseline when the reports under
way began: two overlapping reports both compare with it, and the one that writes last
may write the older figures. A loss of rows down to those figures is then not
reported. Consecutive baselines do not satisfy more than this.

What the properties leave out, where the code does:

- `ActivationEarned`: after a revoke and a resend an account has two invites, and a
  verification of the first that was under way activates what a start of the second set.
- `FirstUseUnlessSwept`: the retention job deletes the ids it selected without looking at
  the expiry again, so a record renewed in between goes while it is alive. No route of the
  application calls `validate_public_transaction_payload` yet.
- `NothingUncounted`: the race above.

## Not modelled, and why

- Statements and search: read-only queries.
- Configuration, the production guard, database roles, migrations, deployment and
  repository scripts: straight-line checks and statements, run at start-up, in the
  build or by an operator, with no concurrent state.
- The command that creates the first root admin: it runs before anyone is served.
- Pages, forms, templates, wording, the parsing of amounts and dates: what they
  change is changed by the services they call.
- Hashing, ciphers, signatures and cookie signing: ideal. Mail, webhook, Cloudflare
  and the breach service: their failure is an action of the module that calls them.
- QuickPay's counters per browser session and per network address, and the end of a
  counter's window: the counters per sender and recipient are of the same kind, and
  AttemptCounters has the windows.
- The root admin's reset or reissue of an invite after a start fails at the append-only
  trigger when it deletes the setup account (`SetupUserDeletable`), although
  `docs/security/architecture/cryptography-and-authentication.md` describes it as the way
  to unlock an invite. The model has the failure, not the success. A setup that is
  dropped also clears the pending authenticator secret; the next start sets a new one.
- Retention reports only count rows; of the cleanup jobs, those that race a modelled
  handler are modelled (counters, reservations, sessions, devices, replay records).
- Interleavings between parts of different scenes. They share no row in the models;
  where one part reads another's state (PayUp reads the audit events of sensitive
  changes, Transfers the freeze), the reader has an action for the change.
