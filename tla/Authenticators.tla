-------------------------- MODULE Authenticators --------------------------
(* What an account proves itself with: TOTP codes and their replay records,    *)
(* recovery codes, setting up and replacing the authenticator, and changing    *)
(* the password (app/auth/services.py, recovery_codes.py, password_history.py, *)
(* and the self-service of staff in app/admin/services.py).                    *)
EXTENDS Integers, Sequences, FiniteSets, Workers

CONSTANTS Secrets,        \* authenticator secrets
          RecoveryCodes,  \* recovery codes that may ever be issued
          CodeCount,      \* RECOVERY_CODE_COUNT
          Passwords,
          Keep,           \* PASSWORD_HISTORY_RETENTION_COUNT
          LoginWindow,    \* TOTP_LOGIN_VALID_WINDOW, in time steps of 30 seconds
          RiskWindow,     \* TOTP_HIGH_RISK_VALID_WINDOW
          MaxStep         \* bound on the time steps

ASSUME AuthenticatorsAssumption ==
  /\ {CodeCount, Keep, LoginWindow, RiskWindow, MaxStep} \subseteq Nat
  /\ CodeCount > 0 /\ Keep > 0

VARIABLES person,    \* the user row
          staged,    \* the replacement secret in the session payload
          history,   \* password_history, newest first
          replays,   \* totp_replay_records
          codes,     \* recovery_codes: issued and unused, locked by a handler, or gone
          step,      \* the current time step
          spent,     \* history: TOTP codes that were accepted, and recovery codes that let someone in
          past       \* history: how often the password changed, and which there were since two
                     \* changes last overlapped, newest first

authVars == <<person, staged, history, replays, codes, step, spent, past, job>>

PersonRow == [staff : BOOLEAN, enabled : BOOLEAN, secret : Secrets \cup {None},
              pending : {"no", "live", "late"}, password : Passwords]

\* What a code may be asked for, and the replay scope and window it is checked in.
RiskActs == {"replace_start", "regenerate", "password"}
CustomerActs == {"login", "setup", "replace_confirm"} \cup RiskActs
StaffActs == {"admin_login", "own_mfa_start", "own_mfa_confirm", "own_password"}

\* _totp_replay_scope
ReplayScope(act) == IF act \in RiskActs THEN "customer_high_risk_action" ELSE act

\* _totp_valid_window
ValidWindow(act) == IF act = "login" THEN LoginWindow ELSE RiskWindow

AuthInit ==
  /\ \E staff \in BOOLEAN, p \in Passwords, s \in Secrets :
       person = [staff |-> staff, enabled |-> staff, secret |-> IF staff THEN s ELSE None,
                 pending |-> "no", password |-> p]
  /\ staged = None /\ history = << >> /\ replays = {} /\ spent = {} /\ step = 0
  /\ codes = [c \in RecoveryCodes |-> "unissued"]
  /\ past = [changes |-> 0, list |-> <<person.password>>]
  /\ job = [h \in Handlers |-> Idle]

\* A secret is random: no earlier one comes again.
NewSecret == {s \in Secrets : /\ s \notin {person.secret, staged} \cup {u.secret : u \in spent}
                              /\ \A h \in Handlers : job[h] = Idle \/ s \notin {job[h].secret, job[h].arg}}

-----------------------------------------------------------------------------
(* Setting up the first authenticator.                                        *)

\* generate_mfa_setup works on the user loaded for the request: the commit writes the
\* secret columns, and mfa_enabled, set to its loaded value, is not written.
GenerateSetup(h, s) ==
  /\ ~person.staff /\ ~person.enabled
  /\ Begin(h, [op |-> "generate", act |-> "setup", secret |-> s, arg |-> None])
  /\ UNCHANGED <<person, staged, history, replays, codes, step, spent, past>>

\* _require_active_pending_mfa_setup, when it finds no active setup but something to
\* clear: for the setup page of an account without MFA, and for any verification.
SetupNotActive(h, verifying) ==
  /\ ~person.staff /\ (verifying \/ ~person.enabled)
  /\ person.pending # "live" /\ person.secret # None
  /\ Begin(h, [op |-> "expire", act |-> "setup", secret |-> None, arg |-> None])
  /\ UNCHANGED <<person, staged, history, replays, codes, step, spent, past>>

SetupCommit(h) ==
  /\ job[h].op \in {"generate", "expire"}
  /\ person' = [person EXCEPT !.secret = job[h].secret,
                              !.pending = IF job[h].op = "generate" THEN "live" ELSE "no"]
  /\ Done(h)
  /\ UNCHANGED <<staged, history, replays, codes, step, spent, past>>

PendingGetsLate ==
  /\ person.pending = "live"
  /\ person' = [person EXCEPT !.pending = "late"]
  /\ UNCHANGED <<staged, history, replays, codes, step, spent, past, job>>

-----------------------------------------------------------------------------
(* Asking for a code. The handler checks what it may, takes the secret the     *)
(* code must be of, and waits for the code.                                    *)

Ask(h, act, secret, arg) ==
  /\ Begin(h, [op |-> "code", act |-> act, secret |-> secret, arg |-> arg, since |-> past.changes])
  /\ UNCHANGED <<person, staged, history, replays, codes, step, spent, past>>

\* complete_pending_mfa and complete_admin_mfa_login
AskLogin(h) ==
  /\ person.enabled /\ person.secret # None
  /\ Ask(h, IF person.staff THEN "admin_login" ELSE "login", person.secret, None)

\* verify_mfa_setup
AskSetup(h) ==
  /\ ~person.staff /\ person.pending = "live" /\ person.secret # None
  /\ Ask(h, "setup", person.secret, None)

\* generate_mfa_replacement and start_own_mfa_change
AskReplacement(h, s) ==
  /\ person.enabled /\ person.secret # None
  /\ Ask(h, IF person.staff THEN "own_mfa_start" ELSE "replace_start", person.secret, s)

\* verify_mfa_replacement and confirm_own_mfa_change take the staged secret.
AskConfirm(h) ==
  /\ person.enabled /\ staged # None
  /\ Ask(h, IF person.staff THEN "own_mfa_confirm" ELSE "replace_confirm", staged, staged)

\* regenerate_totp_recovery_codes
AskRegenerate(h) ==
  /\ ~person.staff /\ person.enabled /\ person.secret # None
  /\ Ask(h, "regenerate", person.secret, None)

\* assert_password_not_reused
Reused(p) == p = person.password \/ \E i \in DOMAIN history : i <= Keep /\ history[i] = p

\* change_password and change_own_password
AskPassword(h, p) ==
  /\ person.enabled /\ person.secret # None /\ ~Reused(p)
  /\ Ask(h, IF person.staff THEN "own_password" ELSE "password", person.secret, p)

-----------------------------------------------------------------------------
(* The code.                                                                  *)

\* Mutant: a record is kept only for the window after the code was taken.
ReplayTtlShort(act) == ValidWindow(act) + 1

\* replay_ttl, in time steps
ReplayTtl(act) == 2 * ValidWindow(act) + 2

\* _accepted_totp_step: the code of step n is right in the window around it.
Accepted(act, n) == n \in (step - ValidWindow(act))..(step + ValidWindow(act))

\* _verify_totp_secret_for_user_outcome: the replay record is inserted and committed
\* before anything else; the unique constraint refuses a code used in its scope. The
\* commit also makes the handler read the user again.
EnterCode(h, n) ==
  /\ job[h].op = "code" /\ Accepted(job[h].act, n)
  /\ LET act == job[h].act
         used == [secret |-> job[h].secret, step |-> n, scope |-> ReplayScope(act)]
     IN IF \E r \in replays : [secret |-> r.secret, step |-> r.step, scope |-> r.scope] = used
          THEN Done(h) /\ UNCHANGED <<replays, spent>>
          ELSE /\ replays' = replays \cup {[secret |-> used.secret, step |-> n, scope |-> used.scope,
                                             until |-> step + ReplayTtl(act)]}
               /\ spent' = spent \cup {used}
               /\ job' = [job EXCEPT ![h].op = "finish"]
  /\ UNCHANGED <<person, staged, history, codes, step, past>>

\* cleanup_expired_security_state
ForgetReplays ==
  /\ \E r \in replays : r.until <= step
  /\ replays' = {r \in replays : r.until > step}
  /\ UNCHANGED <<person, staged, history, codes, step, spent, past, job>>

-----------------------------------------------------------------------------
(* What the code was for.                                                     *)

Finishing(h, acts) == job[h].op = "finish" /\ job[h].act \in acts

FinishLogin(h) ==
  /\ Finishing(h, {"login", "admin_login"})
  /\ Done(h)
  /\ UNCHANGED <<person, staged, history, replays, codes, step, spent, past>>

FinishReplacement(h) ==
  /\ Finishing(h, {"replace_start", "own_mfa_start"})
  /\ staged' = job[h].arg
  /\ Done(h)
  /\ UNCHANGED <<person, history, replays, codes, step, spent, past>>

\* confirm_own_mfa_change
FinishOwnConfirm(h) ==
  /\ Finishing(h, {"own_mfa_confirm"})
  /\ person' = [person EXCEPT !.secret = job[h].arg, !.enabled = TRUE]
  /\ staged' = None
  /\ Done(h)
  /\ UNCHANGED <<history, replays, codes, step, spent, past>>

\* A customer gets new recovery codes. generate_recovery_codes_for_user first marks the
\* unused ones used; the statement sees what was committed when it began.
MarkOldCodes(h) ==
  /\ Finishing(h, {"setup", "replace_confirm", "regenerate"})
  /\ Continue(h, [op |-> "issue", act |-> job[h].act, secret |-> job[h].secret, arg |-> job[h].arg,
                  old |-> {c \in RecoveryCodes : codes[c] \in {"live", "held"}}])
  /\ UNCHANGED <<person, staged, history, replays, codes, step, spent, past>>

FreshCodes == {f \in SUBSET {c \in RecoveryCodes : codes[c] = "unissued"} : Cardinality(f) = CodeCount}

\* The commit of verify_mfa_setup, verify_mfa_replacement and
\* regenerate_totp_recovery_codes. A code that another handler holds is waited for. The
\* setup enables whatever secret the row has by now.
IssueCommit(h, fresh) ==
  /\ job[h].op = "issue" /\ \A c \in job[h].old : codes[c] # "held"
  /\ codes' = [c \in RecoveryCodes |->
                 IF c \in fresh THEN "live" ELSE IF c \in job[h].old THEN "used" ELSE codes[c]]
  /\ person' = CASE job[h].act = "setup"           -> [person EXCEPT !.enabled = TRUE, !.pending = "no"]
                 [] job[h].act = "replace_confirm" -> [person EXCEPT !.enabled = TRUE, !.secret = job[h].arg]
                 [] job[h].act = "regenerate"      -> person
  /\ staged' = IF job[h].act = "replace_confirm" THEN None ELSE staged
  /\ Done(h)
  /\ UNCHANGED <<history, replays, step, spent, past>>

\* Mutant: pruning comes before the old password is added, and one goes missing.
PrunedEarly(old) == <<old>> \o SubSeq(history, 1, Keep - 2)

\* replace_user_password: the old hash goes to the history, of which Keep entries stay.
Pruned(old) == SubSeq(<<old>> \o history, 1, IF Len(history) < Keep THEN Len(history) + 1 ELSE Keep)

\* The old hash is read again after the code was committed. Writing the new one locks the
\* user's row, and only then is the history read and pruned.
ReplacePassword(h) ==
  /\ Finishing(h, {"password", "own_password"})
  /\ Continue(h, [op |-> "replace", act |-> job[h].act, secret |-> None, arg |-> job[h].arg,
                  since |-> job[h].since, old |-> person.password])
  /\ UNCHANGED <<person, staged, history, replays, codes, step, spent, past>>

PasswordCommit(h) ==
  /\ job[h].op = "replace"
  /\ person' = [person EXCEPT !.password = job[h].arg]
  /\ history' = Pruned(job[h].old)
  /\ past' = [changes |-> past.changes + 1,
              list |-> IF job[h].since = past.changes THEN <<job[h].arg>> \o past.list ELSE <<job[h].arg>>]
  /\ Done(h)
  /\ UNCHANGED <<staged, replays, codes, step, spent>>

-----------------------------------------------------------------------------
(* Signing in with a recovery code instead.                                   *)

\* consume_recovery_code locks the unused row; it is committed later.
TakeRecoveryCode(h, c) ==
  /\ ~person.staff /\ person.enabled /\ codes[c] = "live"
  /\ codes' = [codes EXCEPT ![c] = "held"]
  /\ Begin(h, [op |-> "recover", act |-> "recover", secret |-> None, arg |-> None, code |-> c])
  /\ UNCHANGED <<person, staged, history, replays, step, spent, past>>

FinishRecovery(h) ==
  /\ job[h].op = "recover"
  /\ codes' = [codes EXCEPT ![job[h].code] = "used"]
  /\ spent' = spent \cup {[secret |-> job[h].code, step |-> 0, scope |-> "recovery"]}
  /\ Done(h)
  /\ UNCHANGED <<person, staged, history, replays, step, past>>

\* The required audit row fails: the code is free again, unless clearing the failure
\* counter has already committed it.
RecoveryAuditFails(h, committed) ==
  /\ job[h].op = "recover"
  /\ codes' = [codes EXCEPT ![job[h].code] = IF committed THEN "used" ELSE "live"]
  /\ Done(h)
  /\ UNCHANGED <<person, staged, history, replays, step, spent, past>>

AuthHandlerFails(h) ==
  /\ job[h].op \in {"generate", "expire", "code", "finish", "issue", "replace"}
  /\ Done(h)
  /\ UNCHANGED <<person, staged, history, replays, codes, step, spent, past>>

StepPasses ==
  /\ step < MaxStep
  /\ step' = step + 1
  /\ UNCHANGED <<person, staged, history, replays, codes, spent, past, job>>

AuthNext ==
  \/ \E h \in Handlers :
       \/ \E s \in NewSecret : GenerateSetup(h, s) \/ AskReplacement(h, s)
       \/ \E verifying \in BOOLEAN : SetupNotActive(h, verifying)
       \/ SetupCommit(h) \/ AskLogin(h) \/ AskSetup(h) \/ AskConfirm(h) \/ AskRegenerate(h)
       \/ \E p \in Passwords : AskPassword(h, p)
       \/ \E n \in 0..MaxStep : EnterCode(h, n)
       \/ FinishLogin(h) \/ FinishReplacement(h) \/ FinishOwnConfirm(h)
       \/ MarkOldCodes(h) \/ \E fresh \in FreshCodes : IssueCommit(h, fresh)
       \/ ReplacePassword(h) \/ PasswordCommit(h)
       \/ \E c \in RecoveryCodes : TakeRecoveryCode(h, c)
       \/ FinishRecovery(h) \/ \E committed \in BOOLEAN : RecoveryAuditFails(h, committed)
       \/ AuthHandlerFails(h)
  \/ PendingGetsLate \/ ForgetReplays \/ StepPasses

AuthSpec == AuthInit /\ [][AuthNext]_authVars

-----------------------------------------------------------------------------

\* The types of the account, the staged secret and the codes; the history never keeps
\* more old passwords than configured.
AuthTypeOK ==
  /\ person \in PersonRow
  /\ staged \in Secrets \cup {None}
  /\ history \in Seq(Passwords) /\ Len(history) <= Keep
  /\ codes \in [RecoveryCodes -> {"unissued", "live", "held", "used"}]

\* "the same accepted TOTP step and code cannot be replayed for the same scope": a
\* code is accepted once per scope, by however many handlers and although records are
\* deleted when their time is over. "Recovery codes must be one-time use": one that let
\* its owner in is in nobody else's hands.
CodeAcceptedOnce ==
  [][\A h \in Handlers :
       /\ job[h].op = "code" /\ job'[h].op = "finish" =>
            \A r \in replays' \ replays :
              [secret |-> r.secret, step |-> r.step, scope |-> r.scope] \notin spent
       /\ job'[h].op = "recover" =>
            [secret |-> job'[h].code, step |-> 0, scope |-> "recovery"] \notin spent']_authVars

\* "change/reset reject the current and retained recent passwords": while no two changes
\* overlap, a new password differs from the present one and the Keep before it.
NoRecentReuse ==
  [][\A h \in Handlers :
       job[h].op = "replace" /\ past' # past /\ job[h].since = past.changes =>
         \A i \in DOMAIN past.list : i <= Keep + 1 => past.list[i] # job[h].arg]_authVars

\* "Pending setup ... expires ...; expired material is cleared rather than redisplayed":
\* what _require_active_pending_mfa_setup clears is the secret of a setup under way, so an
\* account that has MFA enabled always has a secret to check codes against.
EnabledHasSecret == person.enabled => person.secret # None
=============================================================================
