---------------------------- MODULE StaffInvites ----------------------------
(* Staff invites: a root admin invites a workplace address, the invitee starts *)
(* setup from the e-mailed link and verifies an authenticator code and a code  *)
(* sent to that address, which activates the account (app/admin/services.py).  *)
(*                                                                             *)
(* The model follows the invites and the one account of one workplace address; *)
(* different addresses share nothing. Only a browser that holds the link of an *)
(* invite's current token reaches the public handlers.                         *)
EXTENDS Naturals, Workers

CONSTANTS Invites,    \* ids of staff_invites
          Browsers,   \* browser sessions that hold the link
          MaxStarts,  \* STAFF_INVITE_MAX_ACCEPTANCE_STARTS
          MaxVerify   \* STAFF_INVITE_MAX_VERIFY_ATTEMPTS

ASSUME InvitesAssumption == MaxStarts \in Nat \ {0} /\ MaxVerify \in Nat \ {0} /\ None \notin Browsers

VARIABLES invite,   \* staff_invites
          account   \* the users row with this workplace address

inviteVars == <<invite, account, job>>

ActiveInvite == {"pending", "totp_pending"}

InviteRow ==
  [status : ActiveInvite \cup {"accepted", "revoked", "expired"}, due : BOOLEAN,
   revoked : BOOLEAN, used : BOOLEAN,
   setup : BOOLEAN,                            \* setup_user_id is the account
   bound : Browsers \cup {None},               \* acceptance_session_hash
   starts : 0..MaxStarts, startLocked : BOOLEAN,
   verifies : Nat, verifyLocked : BOOLEAN,
   code : {"none", "sent", "late"}]            \* workplace verification code

\* binding is mfa_pending_session_hash, fresh that the pending setup is not too old,
\* setBy the browser whose start last set the password and the TOTP secret, and setFor
\* the invite of that start.
AccountRow == [status : {"setup_pending", "active"}, enrolled : BOOLEAN, fresh : BOOLEAN,
               binding : Invites \cup {None}, setBy : Browsers, setFor : Invites]

FreshInvite(setup) ==
  [status |-> "pending", due |-> FALSE, revoked |-> FALSE,
   used |-> FALSE, setup |-> setup, bound |-> None, starts |-> 0, startLocked |-> FALSE,
   verifies |-> 0, verifyLocked |-> FALSE, code |-> "none"]

\* _clear_invite_acceptance_state
ClearAcceptance(row) ==
  [row EXCEPT !.bound = None, !.starts = 0, !.startLocked = FALSE, !.verifies = 0,
              !.verifyLocked = FALSE, !.code = "none"]

InvitesInit ==
  /\ invite = [i \in Invites |-> NoRow]
  /\ account = NoRow
  /\ job = [h \in Handlers |-> Idle]

\* start_invite_acceptance keeps the invite's row lock while it sends the code.
RowFree(i) == \A h \in Handlers : job[h].op = "start" => job[h].inv # i

-----------------------------------------------------------------------------
(* Root admins.                                                               *)

\* _reject_active_invite finds nothing (several matches raise as well).
NoActiveInvite ==
  \A i \in Invites : ~(/\ invite[i].status \in ActiveInvite /\ ~invite[i].due
                       /\ ~invite[i].revoked /\ ~invite[i].used)

\* create_staff_invite needs an address without an account, resend_staff_setup_invite
\* one whose account waits for setup. Nothing locks the address until the insert.
InviteCheck(h) ==
  /\ account.status \in {"none", "setup_pending"}
  /\ NoActiveInvite
  /\ Begin(h, [op |-> "insert", setup |-> account # NoRow])
  /\ UNCHANGED <<invite, account>>

InsertInvite(h, i) ==
  /\ job[h].op = "insert" /\ invite[i] = NoRow
  /\ invite' = [invite EXCEPT ![i] = FreshInvite(job[h].setup)]
  /\ Continue(h, [op |-> "mail", inv |-> i])
  /\ UNCHANGED account

\* _deliver_fresh_invite_email: an invite that cannot be mailed is revoked. The
\* delivery status is shown to root admins and read by no handler.
DeliverInvite(h, sent) ==
  /\ job[h].op = "mail" /\ RowFree(job[h].inv)
  /\ invite' = IF sent THEN invite
               ELSE [invite EXCEPT ![job[h].inv].status = "revoked", ![job[h].inv].revoked = TRUE]
  /\ Done(h)
  /\ UNCHANGED account

\* Revoking, resetting and reissuing load the invite without a lock.
RootLoad(h, i, op) ==
  /\ invite[i].status \in ActiveInvite
  /\ op # "revoke" /\ invite[i].setup => account.status = "setup_pending"
  /\ Begin(h, [op |-> op, inv |-> i, seen |-> IF op = "revoke" THEN Unloaded ELSE invite[i]])
  /\ UNCHANGED <<invite, account>>

RevokeStaffInvite(h) ==
  /\ job[h].op = "revoke" /\ RowFree(job[h].inv)
  /\ invite' = [invite EXCEPT ![job[h].inv].status = "revoked", ![job[h].inv].revoked = TRUE]
  /\ Done(h)
  /\ UNCHANGED account

\* Deleting a users row makes the ORM detach its audit rows, and the append-only
\* trigger rejects that update. A setup account is inserted with its audit rows.
SetupUserDeletable(row) == ~row.setup

\* _reset_active_invite_acceptance_for_root_action, which drops the setup account, and
\* the two handlers that use it. A reissue whose mail fails is
\* rolled back (InviteHandlerFails).
ResetAcceptance(h) ==
  /\ job[h].op \in {"reset", "reissue"} /\ RowFree(job[h].inv)
  /\ LET seen == job[h].seen
         cleared == [ClearAcceptance(seen) EXCEPT !.setup = FALSE, !.status = "pending"]
         new == IF job[h].op = "reset" THEN cleared
                ELSE [cleared EXCEPT !.due = FALSE, !.revoked = FALSE]
     IN invite' = IF SetupUserDeletable(seen)
                    THEN [invite EXCEPT ![job[h].inv] = Flush(@, seen, new)] ELSE invite
  /\ Done(h)
  /\ UNCHANGED account

-----------------------------------------------------------------------------
(* The invitee.                                                               *)

\* _active_invite_by_token on a late invite: whatever its status, it is expired.
ExpireInvite(i) ==
  /\ invite[i] # NoRow /\ invite[i].due /\ RowFree(i)
  /\ invite' = [invite EXCEPT ![i].status = "expired"]
  /\ UNCHANGED <<account, job>>

\* What _active_invite_by_token lets through.
Usable(i) ==
  /\ invite[i].status \in ActiveInvite
  /\ ~invite[i].due /\ ~invite[i].revoked /\ ~invite[i].used

Locked(i) == invite[i].startLocked \/ invite[i].verifyLocked

\* Mutant: the restart limit is off by one.
StartLockedLate(h, b, i) ==
  /\ Usable(i) /\ RowFree(i) /\ ~Locked(i)
  /\ invite[i].bound \in {None, b}
  /\ IF invite[i].starts > MaxStarts
       THEN invite' = [invite EXCEPT ![i].startLocked = TRUE] /\ UNCHANGED job
       ELSE /\ Begin(h, [op |-> "start", inv |-> i, browser |-> b, acc |-> account])
            /\ UNCHANGED invite
  /\ UNCHANGED account

\* start_invite_acceptance up to the mail: the invite's row lock is held from here.
\* An existing account must wait for setup; a new one needs a free address.
StartInviteAcceptance(h, b, i) ==
  /\ Usable(i) /\ RowFree(i) /\ ~Locked(i)
  /\ invite[i].bound \in {None, b}
  /\ IF invite[i].starts >= MaxStarts
       THEN invite' = [invite EXCEPT ![i].startLocked = TRUE] /\ UNCHANGED job
       ELSE /\ account.status = IF invite[i].setup THEN "setup_pending" ELSE "none"
            /\ Begin(h, [op |-> "start", inv |-> i, browser |-> b, acc |-> account])
            /\ UNCHANGED invite
  /\ UNCHANGED account

\* The commit. A second insert for the address violates users.email.
StartCommit(h) ==
  /\ job[h].op = "start"
  /\ LET i == job[h].inv
         new == [status |-> "setup_pending", enrolled |-> FALSE, fresh |-> TRUE,
                 binding |-> i, setBy |-> job[h].browser, setFor |-> i]
     IN /\ job[h].acc = NoRow => account = NoRow
        /\ account' = IF job[h].acc = NoRow THEN new
                      ELSE [Flush(account, job[h].acc, new) EXCEPT !.fresh = TRUE, !.setBy = new.setBy,
                                                                   !.setFor = i]
        /\ invite' = [invite EXCEPT ![i] =
             [invite[i] EXCEPT !.status = "totp_pending", !.setup = TRUE, !.bound = job[h].browser,
                               !.starts = @ + 1, !.code = "sent"]]
  /\ Done(h)

\* The mail or the commit fails: all is rolled back, and a first start also forgets
\* the acceptance state. _clear_failed_invite_acceptance_start
StartFails(h) ==
  /\ job[h].op = "start"
  /\ invite' = IF job[h].acc = NoRow
                 THEN [invite EXCEPT ![job[h].inv] = [ClearAcceptance(@) EXCEPT !.status = "pending"]]
                 ELSE invite
  /\ Done(h)
  /\ UNCHANGED account

\* Mutant: verification from any browser that has the link.
VerifyUnbound(h, b, i, right) ==
  /\ Usable(i) /\ RowFree(i) /\ ~Locked(i)
  /\ invite[i].bound # None
  /\ invite[i].setup /\ account.status = "setup_pending"
  /\ Begin(h, [op |-> "verify", inv |-> i, browser |-> b, right |-> right, seen |-> Unloaded])
  /\ UNCHANGED <<invite, account>>

\* verify_invite_acceptance up to the commit that spends the authenticator code, which
\* releases the invite's row lock. A setup that is too old, or that another invite
\* of the account has taken over, is dropped instead.
VerifyInviteAcceptance(h, b, i, right) ==
  /\ Usable(i) /\ RowFree(i) /\ ~Locked(i)
  /\ invite[i].bound = b
  /\ invite[i].setup /\ account.status = "setup_pending"
  /\ IF account.fresh /\ account.binding = i
       THEN /\ Begin(h, [op |-> "verify", inv |-> i, browser |-> b, right |-> right, seen |-> Unloaded])
            /\ UNCHANGED <<invite, account>>
       ELSE /\ account' = [account EXCEPT !.binding = None, !.fresh = FALSE]
            /\ invite' = [invite EXCEPT ![i].status = "pending"]
            /\ UNCHANGED job

\* The row is read again, without a lock, for the workplace code or the count.
VerifyReload(h) ==
  /\ job[h].op = "verify" /\ job[h].seen = Unloaded
  /\ job' = [job EXCEPT ![h].seen = invite[job[h].inv]]
  /\ UNCHANGED <<invite, account>>

CodesMatch(j) == j.right /\ j.seen.code = "sent"

VerifyFailure(row, n) == [row EXCEPT !.verifies = n, !.verifyLocked = @ \/ n >= MaxVerify]

\* _record_invite_acceptance_verify_failure counts on from the row as it was read again;
\* of two failures that overlap one count may be lost.
RecordVerifyFailure(h) ==
  /\ job[h].op = "verify" /\ job[h].seen # Unloaded /\ ~CodesMatch(job[h])
  /\ RowFree(job[h].inv)
  /\ invite' = [invite EXCEPT ![job[h].inv] = VerifyFailure(@, job[h].seen.verifies + 1)]
  /\ Done(h)
  /\ UNCHANGED account

\* Account, invite and the three required audit rows are one transaction.
ActivateAccount(h) ==
  /\ job[h].op = "verify" /\ job[h].seen # Unloaded /\ CodesMatch(job[h])
  /\ RowFree(job[h].inv)
  /\ LET seen == job[h].seen
         new == [ClearAcceptance(seen) EXCEPT !.status = "accepted", !.used = TRUE]
     IN invite' = [invite EXCEPT ![job[h].inv] = Flush(@, seen, new)]
  /\ account' = [account EXCEPT !.status = "active", !.enrolled = TRUE, !.binding = None]
  /\ Done(h)

\* 24 hours pass, the workplace code or the pending setup gets too old.
InviteTimePasses(i) ==
  /\ invite[i] # NoRow
  /\ \/ ~invite[i].due /\ invite' = [invite EXCEPT ![i].due = TRUE] /\ UNCHANGED account
     \/ invite[i].code = "sent" /\ invite' = [invite EXCEPT ![i].code = "late"] /\ UNCHANGED account
     \/ account # NoRow /\ account.fresh /\ account' = [account EXCEPT !.fresh = FALSE] /\ UNCHANGED invite
  /\ UNCHANGED job

InviteHandlerFails(h) ==
  /\ job[h].op \in {"insert", "mail", "revoke", "reset", "reissue", "verify"}
  /\ Done(h)
  /\ UNCHANGED <<invite, account>>

InvitesNext ==
  \/ \E h \in Handlers, i \in Invites :
       \/ InsertInvite(h, i)
       \/ \E op \in {"revoke", "reset", "reissue"} : RootLoad(h, i, op)
       \/ \E b \in Browsers :
            \/ StartInviteAcceptance(h, b, i)
            \/ \E right \in BOOLEAN : VerifyInviteAcceptance(h, b, i, right)
  \/ \E h \in Handlers :
       \/ InviteCheck(h) \/ RevokeStaffInvite(h) \/ ResetAcceptance(h)
       \/ \E sent \in BOOLEAN : DeliverInvite(h, sent)
       \/ StartCommit(h) \/ StartFails(h)
       \/ VerifyReload(h) \/ RecordVerifyFailure(h) \/ ActivateAccount(h)
       \/ InviteHandlerFails(h)
  \/ \E i \in Invites : ExpireInvite(i) \/ InviteTimePasses(i)

InvitesSpec == InvitesInit /\ [][InvitesNext]_inviteVars

-----------------------------------------------------------------------------

\* The types of the invites, with the limit on their starts, and of the account.
InvitesTypeOK ==
  /\ invite \in [Invites -> InviteRow \cup {NoRow}]
  /\ account \in AccountRow \cup {NoRow}

\* An account becomes active only through a verification from the browser that is bound to
\* that invite, with the workplace code of its latest start; it spends the invite; and
\* the password and authenticator it activates, if a start of that invite set them, were set
\* by that browser: no interleaving of starts, restarts and root actions lets another
\* holder of the link finish somebody's setup. What it does not say: after a revoke and a
\* resend the account has two invites, and a verification of the first that was already
\* under way activates what a start of the second has set, because neither the status
\* nor the binding is looked at again (verify_invite_acceptance).
ActivationEarned ==
  [][account.status # "active" /\ account'.status = "active" =>
       \E h \in Handlers :
         /\ job[h].op = "verify" /\ job[h].right /\ job[h].seen # Unloaded
         /\ LET i == job[h].inv IN
              /\ invite'[i].used
              /\ job[h].seen.bound = job[h].browser /\ job[h].seen.code = "sent"
              /\ account.setFor = i => account.setBy = job[h].browser]_inviteVars
=============================================================================
