--------------------------- MODULE PasswordReset ---------------------------
(* Resetting a forgotten password (app/auth/password_reset.py): a mailed link   *)
(* is exchanged for a transaction, which a second factor verifies and a new     *)
(* password completes. The transaction is read at the start of each request and *)
(* written back whole, without a lock.                                          *)
EXTENDS Naturals, FiniteSets, Workers

CONSTANTS Links,        \* reset tokens that may be created
          ResetBrowsers,
          FailureLimit, \* wrong codes after which the transaction is dropped
          MaxResets     \* bound on completed resets per transaction

ASSUME PasswordResetAssumption ==
  {FailureLimit, MaxResets} \subseteq Nat /\ FailureLimit > 0 /\ None \notin Links

VARIABLES link,      \* password_reset_tokens
          tx,        \* password_reset_transactions, by the token they came from
          holds,     \* the transaction named by each browser's session
          owner,     \* the account: MFA enabled, recovery codes left, frozen or locked
          factor,    \* history: transactions a right code was entered for
          guarded,   \* history: links exchanged while the account had MFA
          resets,    \* history: completed resets of each transaction
          ended      \* history: links that a completed reset has spent

resetVars == <<link, tx, holds, owner, factor, guarded, resets, ended, job>>

LinkRow == [status : {"mailed", "lost"}, exchanged : BOOLEAN, used : BOOLEAN, late : BOOLEAN]
TxRow == [status : {"open"}, required : {"none", "totp", "recovery_code"}, verified : BOOLEAN,
          fails : 0..(FailureLimit - 1), late : BOOLEAN]

ResetInit ==
  /\ link = [l \in Links |-> NoRow] /\ tx = [l \in Links |-> NoRow]
  /\ holds = [b \in ResetBrowsers |-> None]
  /\ owner \in [mfa : BOOLEAN, codes : BOOLEAN, blocked : {FALSE}] /\ owner.codes = owner.mfa
  /\ factor = {} /\ guarded = {} /\ resets = [l \in Links |-> 0] /\ ended = {}
  /\ job = [h \in Handlers |-> Idle]

-----------------------------------------------------------------------------

\* request_password_reset and _create_reset_token: the token is committed before the
\* mail goes out, and stays when it does not.
RequestReset(l, mailed) ==
  /\ ~owner.blocked /\ link[l] = NoRow
  /\ link' = [link EXCEPT ![l] = [status |-> IF mailed THEN "mailed" ELSE "lost", exchanged |-> FALSE,
                                  used |-> FALSE, late |-> FALSE]]
  /\ UNCHANGED <<tx, holds, owner, factor, guarded, resets, ended, job>>

\* exchange_reset_token up to its commit, under the lock on the token.
ExchangeResetToken(h, b, l) ==
  /\ link[l].status = "mailed" /\ ~link[l].exchanged /\ ~link[l].used /\ ~link[l].late /\ ~owner.blocked
  /\ link' = [link EXCEPT ![l].exchanged = TRUE]
  /\ Begin(h, [op |-> "exchanged", at |-> b, of |-> l])
  /\ UNCHANGED <<tx, holds, owner, factor, guarded, resets, ended>>

\* _create_reset_transaction: the policy goes by the account as it is now.
CreateResetTransaction(h) ==
  /\ job[h].op = "exchanged"
  /\ LET l == job[h].of
     IN /\ tx' = [tx EXCEPT ![l] = [status |-> "open", required |-> IF owner.mfa THEN "totp" ELSE "none",
                                    verified |-> ~owner.mfa, fails |-> 0, late |-> FALSE]]
        /\ guarded' = IF owner.mfa THEN guarded \cup {l} ELSE guarded
  /\ job' = [job EXCEPT ![h].op = "created"]
  /\ UNCHANGED <<link, holds, owner, factor, resets, ended>>

\* The response carries the session that names the transaction.
AnswerExchange(h) ==
  /\ job[h].op = "created"
  /\ holds' = [holds EXCEPT ![job[h].at] = job[h].of]
  /\ Done(h)
  /\ UNCHANGED <<link, tx, owner, factor, guarded, resets, ended>>

-----------------------------------------------------------------------------
(* Requests within a transaction.                                             *)

Without(l) == [tx EXCEPT ![l] = NoRow]
Forget(b) == [holds EXCEPT ![b] = None]

\* _load_current_transaction and _transaction_user, when they refuse: what is expired
\* or of a blocked account is deleted, and a session that names nothing forgets it.
RefuseTransaction(b) ==
  /\ holds[b] # None
  /\ LET l == holds[b]
     IN \/ tx[l] = NoRow /\ holds' = Forget(b) /\ UNCHANGED tx
        \/ tx[l] # NoRow /\ (tx[l].late \/ owner.blocked) /\ tx' = Without(l) /\ UNCHANGED holds
  /\ UNCHANGED <<link, owner, factor, guarded, resets, ended, job>>

LoadTransaction(h, b, op) ==
  /\ holds[b] # None
  /\ LET l == holds[b]
     IN /\ tx[l] # NoRow /\ ~tx[l].late /\ ~owner.blocked
        /\ Begin(h, [op |-> op, at |-> b, of |-> l, seen |-> tx[l]])
  /\ UNCHANGED <<link, tx, holds, owner, factor, guarded, resets, ended>>

\* _store_transaction writes every column of the row, which it creates when missing,
\* and renews its expiry.
Stored(l, new) == [tx EXCEPT ![l] = [new EXCEPT !.late = FALSE]]

\* _available_reset_mfa_methods_for_user
Available == IF owner.mfa THEN {"totp"} \cup (IF owner.codes THEN {"recovery_code"} ELSE {}) ELSE {}

\* select_reset_mfa_method
SelectResetMfaMethod(h, method) ==
  /\ job[h].op = "select"
  /\ LET seen == job[h].seen
     IN tx' = IF method \notin Available
                THEN Stored(job[h].of, seen)
                ELSE IF seen.verified /\ seen.required # method
                       THEN tx
                       ELSE Stored(job[h].of, [seen EXCEPT !.required = method,
                                                           !.verified = @ /\ seen.required = method])
  /\ Done(h)
  /\ UNCHANGED <<link, holds, owner, factor, guarded, resets, ended>>

Usable(h) == job[h].op \in Available /\ job[h].seen.required = job[h].op

\* _require_selected_reset_mfa_method refuses the factor, and stores what it has read.
WrongFactor(h) ==
  /\ job[h].op \in {"totp", "recovery_code"} /\ ~Usable(h)
  /\ tx' = Stored(job[h].of, job[h].seen)
  /\ Done(h)
  /\ UNCHANGED <<link, holds, owner, factor, guarded, resets, ended>>

\* Mutant: the limit is off by one.
WrongCodeLate(h) ==
  /\ job[h].op \in {"totp", "recovery_code"} /\ Usable(h)
  /\ LET fails == job[h].seen.fails + 1
     IN IF fails > FailureLimit
          THEN tx' = Without(job[h].of) /\ holds' = Forget(job[h].at)
          ELSE tx' = Stored(job[h].of, [job[h].seen EXCEPT !.fails = fails]) /\ UNCHANGED holds
  /\ Done(h)
  /\ UNCHANGED <<link, owner, factor, guarded, resets, ended>>

\* _record_transaction_failure
WrongCode(h) ==
  /\ job[h].op \in {"totp", "recovery_code"} /\ Usable(h)
  /\ LET fails == job[h].seen.fails + 1
     IN IF fails >= FailureLimit
          THEN tx' = Without(job[h].of) /\ holds' = Forget(job[h].at)
          ELSE tx' = Stored(job[h].of, [job[h].seen EXCEPT !.fails = fails]) /\ UNCHANGED holds
  /\ Done(h)
  /\ UNCHANGED <<link, owner, factor, guarded, resets, ended>>

\* The code is spent and audited in commits of their own. A recovery code may have
\* been the last.
RightCode(h, last) ==
  /\ job[h].op \in {"totp", "recovery_code"} /\ Usable(h)
  /\ last => job[h].op = "recovery_code"
  /\ factor' = factor \cup {job[h].of}
  /\ owner' = IF last THEN [owner EXCEPT !.codes = FALSE] ELSE owner
  /\ job' = [job EXCEPT ![h].op = "verified"]
  /\ UNCHANGED <<link, tx, holds, guarded, resets, ended>>

StoreVerified(h) ==
  /\ job[h].op = "verified"
  /\ tx' = Stored(job[h].of, [job[h].seen EXCEPT !.verified = TRUE])
  /\ Done(h)
  /\ UNCHANGED <<link, holds, owner, factor, guarded, resets, ended>>

\* Mutant: a transaction that was never verified may be completed.
CompleteUnverified(h) ==
  /\ job[h].op = "complete"
  /\ job' = [job EXCEPT ![h] = [op |-> "reset", at |-> job[h].at, of |-> job[h].of,
                                spends |-> {l \in Links : link[l] # NoRow /\ ~link[l].used}]]
  /\ UNCHANGED <<link, tx, holds, owner, factor, guarded, resets, ended>>

\* complete_password_reset: the checks, and the unused links of the account are read.
CompletePasswordReset(h) ==
  /\ job[h].op = "complete"
  /\ job[h].seen.required = "none" \/ job[h].seen.verified
  /\ job' = [job EXCEPT ![h] = [op |-> "reset", at |-> job[h].at, of |-> job[h].of,
                                spends |-> {l \in Links : link[l] # NoRow /\ ~link[l].used}]]
  /\ UNCHANGED <<link, tx, holds, owner, factor, guarded, resets, ended>>

\* The new password and the spent links are committed together.
CommitReset(h) ==
  /\ job[h].op = "reset" /\ resets[job[h].of] < MaxResets
  /\ resets' = [resets EXCEPT ![job[h].of] = @ + 1]
  /\ link' = [l \in Links |-> IF l \in job[h].spends THEN [link[l] EXCEPT !.used = TRUE] ELSE link[l]]
  /\ ended' = ended \cup job[h].spends
  /\ job' = [job EXCEPT ![h] = [op |-> "clear", at |-> job[h].at, of |-> job[h].of]]
  /\ UNCHANGED <<tx, holds, owner, factor, guarded>>

\* _clear_reset_transaction, and the session is cleared with the response.
ClearTransaction(h) ==
  /\ job[h].op = "clear"
  /\ tx' = Without(job[h].of) /\ holds' = Forget(job[h].at)
  /\ Done(h)
  /\ UNCHANGED <<link, owner, factor, guarded, resets, ended>>

ResetRequestDies(h) ==
  /\ ~Free(h)
  /\ Done(h)
  /\ UNCHANGED <<link, tx, holds, owner, factor, guarded, resets, ended>>

-----------------------------------------------------------------------------

ResetTimePasses(l) ==
  /\ \/ link[l] # NoRow /\ ~link[l].late /\ link' = [link EXCEPT ![l].late = TRUE] /\ UNCHANGED tx
     \/ tx[l] # NoRow /\ ~tx[l].late /\ tx' = [tx EXCEPT ![l].late = TRUE] /\ UNCHANGED link
  /\ UNCHANGED <<holds, owner, factor, guarded, resets, ended, job>>

\* cleanup_expired_security_state deletes expired transactions.
DeleteLateTransaction(l) ==
  /\ tx[l] # NoRow /\ tx[l].late
  /\ tx' = Without(l)
  /\ UNCHANGED <<link, holds, owner, factor, guarded, resets, ended, job>>

\* The owner sets MFA up, or the account is frozen or locked meanwhile.
OwnerChanges ==
  /\ \/ ~owner.mfa /\ owner' = [owner EXCEPT !.mfa = TRUE, !.codes = TRUE]
     \/ ~owner.blocked /\ owner' = [owner EXCEPT !.blocked = TRUE]
  /\ UNCHANGED <<link, tx, holds, factor, guarded, resets, ended, job>>

ResetNext ==
  \/ \E l \in Links : \/ \E mailed \in BOOLEAN : RequestReset(l, mailed)
                      \/ ResetTimePasses(l) \/ DeleteLateTransaction(l)
  \/ \E b \in ResetBrowsers : RefuseTransaction(b)
  \/ \E h \in Handlers, b \in ResetBrowsers :
       \/ \E l \in Links : ExchangeResetToken(h, b, l)
       \/ \E op \in {"select", "totp", "recovery_code", "complete"} : LoadTransaction(h, b, op)
  \/ \E h \in Handlers :
       \/ CreateResetTransaction(h) \/ AnswerExchange(h)
       \/ \E method \in {"totp", "recovery_code"} : SelectResetMfaMethod(h, method)
       \/ WrongFactor(h) \/ WrongCode(h) \/ \E last \in BOOLEAN : RightCode(h, last)
       \/ StoreVerified(h) \/ CompletePasswordReset(h) \/ CommitReset(h) \/ ClearTransaction(h) \/ ResetRequestDies(h)
  \/ OwnerChanges

ResetSpec == ResetInit /\ [][ResetNext]_resetVars

-----------------------------------------------------------------------------

\* The types of the reset tables; the attempts stored with a code stay below its limit.
\* (Wrong codes that overlap may be stored as one.)
ResetTypeOK ==
  /\ link \in [Links -> {NoRow} \cup LinkRow] /\ tx \in [Links -> {NoRow} \cup TxRow]
  /\ holds \in [ResetBrowsers -> Links \cup {None}]
  /\ owner \in [mfa : BOOLEAN, codes : BOOLEAN, blocked : BOOLEAN]

\* "MFA users must verify TOTP or a separately submitted recovery code before completing
\* reset": however requests of one transaction overwrite each other's rows, a reset of an
\* account that had MFA when its link was exchanged has had a right code. "A reset email
\* contains a short-lived one-time selector.verifier URL": a link creates one transaction,
\* and none after a reset that has found it unused.
ResetEarned ==
  [][/\ \A l \in guarded' : resets'[l] > 0 => l \in factor'
     /\ \A h \in Handlers, l \in Links :
          job'[h].op = "exchanged" /\ job[h].op # "exchanged" /\ job'[h].of = l =>
            ~link[l].exchanged /\ tx[l] = NoRow /\ l \notin ended]_resetVars
=============================================================================
