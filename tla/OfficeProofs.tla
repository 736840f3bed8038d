---------------------------- MODULE OfficeProofs ----------------------------
(* Proofs about the back office, for any number of handlers and any values of *)
(* the constants: staff invites, attempt counters, keyrings, cases.        *)
EXTENDS StaffInvites, Cases, AttemptCounters, Keyrings, FiniteSetTheorems, TLAPS

-----------------------------------------------------------------------------
(* Staff invites.                                                          *)

\* What a handler holds, by what it is about to do.
InviteJob ==
  {Idle} \cup [op : {"insert"}, setup : BOOLEAN]
    \cup [op : {"mail"}, inv : Invites]
    \cup [op : {"revoke"}, inv : Invites, seen : {Unloaded}]
    \cup [op : {"reset", "reissue"}, inv : Invites, seen : InviteRow]
    \cup [op : {"start"}, inv : Invites, browser : Browsers, acc : AccountRow \cup {NoRow}]
    \cup [op : {"verify"}, inv : Invites, browser : Browsers, right : BOOLEAN, seen : InviteRow \cup {Unloaded}]

\* Rows are never deleted, so what a handler once found is still there.
RowsStay ==
  \A h \in Handlers :
    /\ job[h].op \notin {"idle", "insert"} => invite[job[h].inv] # NoRow
    /\ job[h].op = "start" => job[h].acc = NoRow \/ account # NoRow
    /\ job[h].op = "verify" => account # NoRow

InviteTypes == InvitesTypeOK /\ job \in [Handlers -> InviteJob] /\ RowsStay

\* An invite without a setup account is bound to no browser and has no code.
Blank(row) == ~row.setup => row.bound = None /\ row.code = "none"

\* Nothing a root action holds could undo a start; a code out in the mail is unspent.
CodesUnspent ==
  /\ \A i \in Invites : invite[i] # NoRow => Blank(invite[i]) /\ (invite[i].code = "sent" => ~invite[i].used)
  /\ \A h \in Handlers : job[h].op \in {"reset", "reissue"} => Blank(job[h].seen)

\* The row lock of a start keeps the invite as the start found it.
StartsAlone ==
  \A h \in Handlers : job[h].op = "start" =>
    LET i == job[h].inv IN
      /\ ~invite[i].used /\ invite[i].bound \in {None, job[h].browser} /\ invite[i].starts < MaxStarts
      /\ job[h].acc = NoRow => ~invite[i].setup
      /\ \A g \in Handlers : job[g].op = "start" /\ job[g].inv = i => g = h

\* A verification that has yet to read the row again finds its browser's binding, or
\* the invite spent; one that has read it holds a code only with the binding.
VerifiesBound ==
  \A h \in Handlers : job[h].op = "verify" =>
    LET i == job[h].inv
        seen == job[h].seen
    IN /\ \/ invite[i].bound = job[h].browser
          \/ invite[i].bound = None /\ invite[i].used /\ invite[i].code # "sent"
       /\ seen # Unloaded /\ seen.code = "sent" => seen.bound = job[h].browser /\ ~seen.used

\* The invite of the start that last set the account up keeps its browser until it is
\* spent, and an invite is spent only by activating the account. A start that found the
\* account found it waiting for setup.
SetupHeld ==
  /\ account # NoRow =>
       LET i == account.setFor
       IN invite[i] # NoRow /\ invite[i].setup /\ (invite[i].used \/ invite[i].bound = account.setBy)
  /\ \A i \in Invites : invite[i] # NoRow /\ invite[i].used => account # NoRow /\ account.status = "active"
  /\ \A h \in Handlers : job[h].op = "start" => job[h].acc = NoRow \/ job[h].acc.status = "setup_pending"

InvitesInv == InviteTypes /\ CodesUnspent /\ StartsAlone /\ VerifiesBound /\ SetupHeld

LEMMA InvitesBegin == InvitesInit => InvitesInv
  BY DEF InvitesInit, InvitesInv, InviteTypes, InvitesTypeOK, InviteJob, RowsStay, CodesUnspent,
     StartsAlone, VerifiesBound, SetupHeld, Idle, NoRow

LEMMA RowsDiffer == NoRow \notin InviteRow /\ NoRow \notin AccountRow
  BY DEF NoRow, InviteRow, AccountRow

LEMMA InviteFlushed ==
  ASSUME NEW now \in InviteRow, NEW seen \in InviteRow, NEW new \in InviteRow
  PROVE  /\ Flush(now, seen, new) \in InviteRow
         /\ Flush(now, seen, new).used = IF new.used = seen.used THEN now.used ELSE new.used
         /\ Flush(now, seen, new).bound = IF new.bound = seen.bound THEN now.bound ELSE new.bound
         /\ Flush(now, seen, new).code = IF new.code = seen.code THEN now.code ELSE new.code
         /\ Flush(now, seen, new).setup = IF new.setup = seen.setup THEN now.setup ELSE new.setup
  <1>1. seen # Unloaded
    BY DEF InviteRow, Unloaded
  <1>2. Flush(now, seen, new) = [k \in DOMAIN now |-> IF new[k] = seen[k] THEN now[k] ELSE new[k]]
    BY <1>1 DEF Flush
  <1>3. Flush(now, seen, new) =
          [status |-> IF new.status = seen.status THEN now.status ELSE new.status,
           due |-> IF new.due = seen.due THEN now.due ELSE new.due,
           revoked |-> IF new.revoked = seen.revoked THEN now.revoked ELSE new.revoked,
           used |-> IF new.used = seen.used THEN now.used ELSE new.used,
           setup |-> IF new.setup = seen.setup THEN now.setup ELSE new.setup,
           bound |-> IF new.bound = seen.bound THEN now.bound ELSE new.bound,
           starts |-> IF new.starts = seen.starts THEN now.starts ELSE new.starts,
           startLocked |-> IF new.startLocked = seen.startLocked THEN now.startLocked ELSE new.startLocked,
           verifies |-> IF new.verifies = seen.verifies THEN now.verifies ELSE new.verifies,
           verifyLocked |-> IF new.verifyLocked = seen.verifyLocked THEN now.verifyLocked ELSE new.verifyLocked,
           code |-> IF new.code = seen.code THEN now.code ELSE new.code]
    BY <1>2 DEF InviteRow
  <1> QED BY <1>3 DEF InviteRow

LEMMA ClearedTyped ==
  ASSUME NEW row \in InviteRow
  PROVE  /\ ClearAcceptance(row) \in InviteRow
         /\ ClearAcceptance(row).bound = None /\ ClearAcceptance(row).code = "none"
         /\ ClearAcceptance(row).used = row.used /\ ClearAcceptance(row).setup = row.setup
  <1>1. 0 \in 0..MaxStarts /\ 0 \in Nat
    BY InvitesAssumption
  <1> QED BY Zenon, <1>1 DEF ClearAcceptance, InviteRow

LEMMA FailureTyped ==
  ASSUME NEW row \in InviteRow, NEW n \in Nat
  PROVE  LET e == VerifyFailure(row, n)
         IN /\ e \in InviteRow /\ e # NoRow /\ e.starts = row.starts /\ e.code = row.code
            /\ e.setup = row.setup /\ e.used = row.used /\ e.bound = row.bound
  <1>1. (row.verifyLocked \/ n >= MaxVerify) \in BOOLEAN
    OBVIOUS
  <1> QED BY ZenonT(30), <1>1 DEF VerifyFailure, InviteRow, NoRow

\* An invite's row is rewritten, or the account's, and the handler is done.
LEMMA RowWritten ==
  ASSUME InviteTypes, NEW i \in Invites, NEW row \in InviteRow,
         invite[i] # NoRow, invite' \in {invite, [invite EXCEPT ![i] = row]},
         account' = account \/ account' \in AccountRow,
         job' = job \/ \E h \in Handlers : job' = [job EXCEPT ![h] = Idle]
  PROVE  InviteTypes'
  <1>1. NoRow \notin InviteRow /\ NoRow \notin AccountRow
    BY DEF NoRow, InviteRow, AccountRow
  <1>2. \A g \in Handlers : job'[g] = job[g] \/ job'[g] = Idle
    BY DEF InviteTypes
  <1>3. \A k \in Invites : invite[k] # NoRow => invite'[k] # NoRow
    BY <1>1 DEF InviteTypes, InvitesTypeOK
  <1>4. RowsStay'
    <2>1. ASSUME NEW g \in Handlers, job'[g] # Idle
          PROVE  /\ job'[g] = job[g]
                 /\ job[g].op \notin {"idle", "insert"} => job[g].inv \in Invites
      BY <1>2, <2>1 DEF InviteTypes, InviteJob
    <2>2. account # NoRow => account' # NoRow
      BY <1>1
    <2>3. Idle.op = "idle"
      BY DEF Idle
    <2> QED BY <1>2, <1>3, <2>1, <2>2, <2>3 DEF InviteTypes, RowsStay
  <1>5. job' \in [Handlers -> InviteJob]
    BY DEF InviteTypes, InviteJob
  <1>6. InvitesTypeOK'
    BY DEF InviteTypes, InvitesTypeOK
  <1> QED BY <1>4, <1>5, <1>6 DEF InviteTypes

\* A root action writes none of the columns of an acceptance: it goes through only
\* when it had read an invite without one.
LEMMA ResetWrites ==
  ASSUME InviteTypes, CodesUnspent, NEW h \in Handlers, ResetAcceptance(h)
  PROVE  /\ job[h].inv \in Invites /\ invite[job[h].inv] \in InviteRow /\ RowFree(job[h].inv)
         /\ account' = account /\ job' = [job EXCEPT ![h] = Idle]
         /\ \E row \in InviteRow :
              /\ invite' \in {invite, [invite EXCEPT ![job[h].inv] = row]}
              /\ row.used = invite[job[h].inv].used /\ row.bound = invite[job[h].inv].bound
              /\ row.code = invite[job[h].inv].code /\ row.setup = invite[job[h].inv].setup
  <1> DEFINE i == job[h].inv
             seen == job[h].seen
             cleared == [ClearAcceptance(seen) EXCEPT !.setup = FALSE, !.status = "pending"]
             new == IF job[h].op = "reset" THEN cleared ELSE [cleared EXCEPT !.due = FALSE, !.revoked = FALSE]
  <1>1. i \in Invites /\ seen \in InviteRow /\ invite[i] \in InviteRow
    BY DEF ResetAcceptance, InviteTypes, InvitesTypeOK, InviteJob, RowsStay, Idle
  <1>2. RowFree(i) /\ account' = account /\ job' = [job EXCEPT ![h] = Idle]
    BY DEF ResetAcceptance, Done
  <1>3. \A row \in InviteRow :
          LET c == [row EXCEPT !.setup = FALSE, !.status = "pending"]
              n == [c EXCEPT !.due = FALSE, !.revoked = FALSE]
          IN /\ c \in InviteRow /\ c.bound = row.bound /\ c.code = row.code /\ c.used = row.used /\ c.setup = FALSE
             /\ n \in InviteRow /\ n.bound = row.bound /\ n.code = row.code /\ n.used = row.used /\ n.setup = FALSE
    BY Zenon DEF InviteRow, ActiveInvite
  <1>4. /\ new \in InviteRow /\ new.bound = None /\ new.code = "none" /\ new.used = seen.used /\ new.setup = FALSE
    BY ZenonT(30), <1>1, <1>3, ClearedTyped
  <1>5. invite' = IF ~seen.setup THEN [invite EXCEPT ![i] = Flush(@, seen, new)] ELSE invite
    BY DEF ResetAcceptance, SetupUserDeletable
  <1>6. CASE seen.setup
    BY <1>1, <1>2, <1>5, <1>6
  <1>7. CASE ~seen.setup
    <2>1. seen.bound = None /\ seen.code = "none"
      BY <1>7 DEF CodesUnspent, Blank, ResetAcceptance
    <2> HIDE DEF i, seen, new
    <2>2. PICK row : row = Flush(invite[i], seen, new)
      OBVIOUS
    <2>3. row \in InviteRow /\ row.used = invite[i].used /\ row.bound = invite[i].bound
          /\ row.code = invite[i].code /\ row.setup = invite[i].setup
      BY <1>1, <1>4, <1>7, <2>1, <2>2, InviteFlushed DEF InviteRow
    <2>4. invite' = [invite EXCEPT ![i] = row]
      BY <1>5, <1>7, <2>2
    <2> QED BY Zenon, <1>1, <1>2, <2>3, <2>4 DEF i
  <1> QED BY <1>6, <1>7

\* An activation spends the invite and clears its binding and its code.
LEMMA ActivationWrites ==
  ASSUME InviteTypes, VerifiesBound, NEW h \in Handlers, ActivateAccount(h)
  PROVE  /\ job[h].inv \in Invites /\ invite[job[h].inv] \in InviteRow /\ RowFree(job[h].inv)
         /\ account' \in AccountRow /\ job' = [job EXCEPT ![h] = Idle]
         /\ job[h].op = "verify" /\ job[h].right /\ job[h].seen # Unloaded /\ job[h].seen.code = "sent"
         /\ job[h].seen.bound = job[h].browser
         /\ \E row \in InviteRow :
              /\ invite' = [invite EXCEPT ![job[h].inv] = row]
              /\ row.used /\ row.bound = None /\ row.code = "none" /\ row.setup = invite[job[h].inv].setup
  <1> DEFINE i == job[h].inv
             seen == job[h].seen
             new == [ClearAcceptance(seen) EXCEPT !.status = "accepted", !.used = TRUE]
  <1>1. i \in Invites /\ seen \in InviteRow /\ invite[i] \in InviteRow /\ account \in AccountRow /\ job[h].browser \in Browsers
    BY DEF ActivateAccount, InviteTypes, InvitesTypeOK, InviteJob, RowsStay, Idle
  <1>2. /\ RowFree(i) /\ job' = [job EXCEPT ![h] = Idle] /\ job[h].op = "verify" /\ job[h].right
        /\ seen # Unloaded /\ seen.code = "sent"
        /\ invite' = [invite EXCEPT ![i] = Flush(@, seen, new)]
        /\ account' = [account EXCEPT !.status = "active", !.enrolled = TRUE, !.binding = None]
    BY DEF ActivateAccount, CodesMatch, Done
  <1>3. seen.bound = job[h].browser /\ ~seen.used
    BY <1>2 DEF VerifiesBound
  <1>4. account' \in AccountRow
    BY Zenon, <1>1, <1>2 DEF AccountRow
  <1>5. \A row \in InviteRow :
          LET n == [row EXCEPT !.status = "accepted", !.used = TRUE]
          IN n \in InviteRow /\ n.bound = row.bound /\ n.code = row.code /\ n.used = TRUE /\ n.setup = row.setup
    BY Zenon DEF InviteRow
  <1>6. new \in InviteRow /\ new.bound = None /\ new.code = "none" /\ new.used = TRUE /\ new.setup = seen.setup
    BY Zenon, <1>1, <1>5, ClearedTyped
  <1> HIDE DEF i, seen, new
  <1>7. PICK row : row = Flush(invite[i], seen, new)
    OBVIOUS
  <1>8. row \in InviteRow /\ row.used /\ row.bound = None /\ row.code = "none" /\ row.setup = invite[i].setup
    BY <1>1, <1>2, <1>3, <1>6, <1>7, InviteFlushed, InvitesAssumption DEF InviteRow
  <1>9. invite' = [invite EXCEPT ![i] = row]
    BY <1>2, <1>7
  <1> QED BY Zenon, <1>1, <1>2, <1>3, <1>4, <1>8, <1>9 DEF i, seen

\* A failed verification writes none of the columns of an acceptance but its count.
LEMMA FailureWrites ==
  ASSUME InviteTypes, NEW h \in Handlers, RecordVerifyFailure(h)
  PROVE  /\ job[h].inv \in Invites /\ invite[job[h].inv] \in InviteRow /\ RowFree(job[h].inv)
         /\ account' = account /\ job' = [job EXCEPT ![h] = Idle]
         /\ \E row \in InviteRow :
              /\ invite' = [invite EXCEPT ![job[h].inv] = row]
              /\ row.used = invite[job[h].inv].used /\ row.bound = invite[job[h].inv].bound
              /\ row.code = invite[job[h].inv].code /\ row.setup = invite[job[h].inv].setup
  <1> DEFINE i == job[h].inv
             row == VerifyFailure(invite[i], job[h].seen.verifies + 1)
  <1>1. /\ i \in Invites /\ invite[i] \in InviteRow /\ job[h].seen \in InviteRow
    BY DEF RecordVerifyFailure, InviteTypes, InvitesTypeOK, InviteJob, RowsStay, Idle
  <1>2. job[h].seen.verifies + 1 \in Nat
    BY <1>1 DEF InviteRow
  <1>3. /\ invite' = [invite EXCEPT ![i] = row] /\ RowFree(i)
        /\ account' = account /\ job' = [job EXCEPT ![h] = Idle]
    BY Zenon DEF RecordVerifyFailure, Done
  <1>4. /\ row \in InviteRow /\ row.used = invite[i].used /\ row.bound = invite[i].bound
        /\ row.code = invite[i].code /\ row.setup = invite[i].setup
    BY Zenon, <1>1, <1>2, FailureTyped
  <1> QED BY Zenon, <1>1, <1>3, <1>4

LEMMA InviteTypesStep ==
  ASSUME InvitesInv, [InvitesNext]_inviteVars
  PROVE  InviteTypes'
  <1> USE InvitesAssumption DEF InvitesInv, StartsAlone, InviteTypes, InvitesTypeOK, InviteJob,
          RowsStay, InviteRow, AccountRow, NoRow, Idle
  <1>1. ASSUME NEW h \in Handlers, NEW i \in Invites, InsertInvite(h, i)
        PROVE  InviteTypes'
    BY <1>1 DEF InsertInvite, Continue, FreshInvite, ActiveInvite
  <1>2. ASSUME NEW h \in Handlers, NEW i \in Invites, NEW op \in {"revoke", "reset", "reissue"}, RootLoad(h, i, op)
        PROVE  InviteTypes'
    BY <1>2 DEF RootLoad, Begin, Free, ActiveInvite
  <1>3. ASSUME NEW h \in Handlers, NEW i \in Invites, NEW b \in Browsers, StartInviteAcceptance(h, b, i)
        PROVE  InviteTypes'
    <2>1. invite[i] \in InviteRow
      BY <1>3 DEF StartInviteAcceptance, Usable, ActiveInvite
    <2>2. CASE invite[i].starts >= MaxStarts
      <3>1. [invite[i] EXCEPT !.startLocked = TRUE] \in InviteRow
        BY Zenon, <2>1
      <3>2. invite[i] # NoRow
        BY Zenon, <2>1, RowsDiffer
      <3> HIDE DEF InvitesInv, InviteTypes, InvitesTypeOK, InviteRow, AccountRow, NoRow, InviteJob,
               RowsStay, StartsAlone, Idle
      <3>3. invite' = [invite EXCEPT ![i] = [invite[i] EXCEPT !.startLocked = TRUE]] /\ UNCHANGED <<account, job>>
        BY <1>3, <2>2 DEF StartInviteAcceptance
      <3> QED BY Zenon, <3>1, <3>2, <3>3, RowWritten DEF InvitesInv
    <2>3. CASE ~(invite[i].starts >= MaxStarts)
      <3> DEFINE j == [op |-> "start", inv |-> i, browser |-> b, acc |-> account]
      <3>1. job' = [job EXCEPT ![h] = j] /\ UNCHANGED <<invite, account>>
        BY <1>3, <2>3 DEF StartInviteAcceptance, Begin
      <3>2. j \in InviteJob /\ j.op = "start" /\ j.inv = i /\ j.acc = account
        OBVIOUS
      <3> HIDE DEF j, InviteJob, InviteRow, AccountRow, NoRow
      <3> QED BY SMTT(30), <2>1, <3>1, <3>2 DEF InviteRow, NoRow
    <2> QED BY <2>2, <2>3
  <1>4. ASSUME NEW h \in Handlers, NEW i \in Invites, NEW b \in Browsers, NEW right \in BOOLEAN, VerifyInviteAcceptance(h, b, i, right)
        PROVE  InviteTypes'
    <2>1. invite[i] \in InviteRow /\ account \in AccountRow
      BY <1>4 DEF VerifyInviteAcceptance, Usable, ActiveInvite
    <2>2. CASE account.fresh /\ account.binding = i
      <3> DEFINE j == [op |-> "verify", inv |-> i, browser |-> b, right |-> right, seen |-> Unloaded]
      <3>1. job' = [job EXCEPT ![h] = j] /\ UNCHANGED <<invite, account>>
        BY <1>4, <2>2 DEF VerifyInviteAcceptance, Begin
      <3>2. j \in InviteJob /\ j.op = "verify" /\ j.inv = i
        OBVIOUS
      <3>3. invite[i] # NoRow /\ account # NoRow
        BY <2>1
      <3> HIDE DEF j, InviteJob, InviteRow, AccountRow, NoRow
      <3> QED BY <3>1, <3>2, <3>3
    <2>3. CASE ~(account.fresh /\ account.binding = i)
      <3>1. [invite[i] EXCEPT !.status = "pending"] \in InviteRow
            /\ [account EXCEPT !.binding = None, !.fresh = FALSE] \in AccountRow
        BY Zenon, <2>1 DEF ActiveInvite
      <3>2. invite[i] # NoRow
        BY Zenon, <2>1, RowsDiffer
      <3> HIDE DEF InvitesInv, InviteTypes, InvitesTypeOK, InviteRow, AccountRow, NoRow, InviteJob,
               RowsStay, StartsAlone, Idle
      <3>3. /\ invite' = [invite EXCEPT ![i] = [invite[i] EXCEPT !.status = "pending"]]
            /\ account' = [account EXCEPT !.binding = None, !.fresh = FALSE] /\ UNCHANGED job
        BY <1>4, <2>3 DEF VerifyInviteAcceptance
      <3> QED BY Zenon, <3>1, <3>2, <3>3, RowWritten DEF InvitesInv
    <2> QED BY <2>2, <2>3
  <1>5. ASSUME NEW h \in Handlers, InviteCheck(h)
        PROVE  InviteTypes'
    BY <1>5 DEF InviteCheck, Begin, Free
  <1>6. ASSUME NEW h \in Handlers, RevokeStaffInvite(h)
        PROVE  InviteTypes'
    BY <1>6 DEF RevokeStaffInvite, RowFree, Done
  <1>7. ASSUME NEW h \in Handlers, ResetAcceptance(h)
        PROVE  InviteTypes'
    <2>1. PICK row \in InviteRow : invite' \in {invite, [invite EXCEPT ![job[h].inv] = row]}
      BY <1>7, ResetWrites
    <2>2. /\ job[h].inv \in Invites /\ invite[job[h].inv] \in InviteRow
          /\ account' = account /\ job' = [job EXCEPT ![h] = Idle]
      BY <1>7, ResetWrites
    <2>3. invite[job[h].inv] # NoRow
      BY <2>2
    <2> HIDE DEF InviteTypes, InviteRow, NoRow, Idle, StartsAlone
    <2> QED BY Zenon, <2>1, <2>2, <2>3, RowWritten
  <1>8. ASSUME NEW h \in Handlers, NEW sent \in BOOLEAN, DeliverInvite(h, sent)
        PROVE  InviteTypes'
    BY <1>8 DEF DeliverInvite, RowFree, Done
  <1>9. ASSUME NEW h \in Handlers, StartCommit(h)
        PROVE  InviteTypes'
    <2> DEFINE i == job[h].inv
               acc == job[h].acc
               new == [status |-> "setup_pending", enrolled |-> FALSE, fresh |-> TRUE,
                       binding |-> i, setBy |-> job[h].browser, setFor |-> i]
               row == [invite[i] EXCEPT !.status = "totp_pending", !.setup = TRUE, !.bound = job[h].browser,
                                        !.starts = @ + 1, !.code = "sent"]
    <2>1. i \in Invites /\ invite[i] \in InviteRow /\ job[h].browser \in Browsers /\ acc \in AccountRow \cup {NoRow}
          /\ invite[i].starts < MaxStarts /\ (acc = NoRow \/ account \in AccountRow)
      BY <1>9 DEF StartCommit
    <2>2. row \in InviteRow
      <3>1. invite[i].starts + 1 \in 0..MaxStarts
        BY <2>1
      <3> QED BY Zenon, <2>1, <3>1 DEF ActiveInvite
    <2>3. new \in AccountRow
      BY <2>1
    <2>4. acc # NoRow => [Flush(account, acc, new) EXCEPT !.fresh = TRUE, !.setBy = new.setBy, !.setFor = job[h].inv] \in AccountRow
      <3>1. acc # Unloaded
        BY SMTT(30), <2>1 DEF Unloaded
      <3> QED BY ZenonT(30), <2>1, <2>3, <3>1 DEF Flush
    <2>5. invite' = [invite EXCEPT ![i] = row] /\ job' = [job EXCEPT ![h] = Idle]
          /\ account' = IF acc = NoRow THEN new
                         ELSE [Flush(account, acc, new) EXCEPT !.fresh = TRUE, !.setBy = new.setBy, !.setFor = job[h].inv]
      <3> HIDE DEF InvitesInv, InviteTypes, InvitesTypeOK, InviteRow, AccountRow, NoRow, InviteJob,
               RowsStay, StartsAlone, Idle
      <3>1. invite' = [invite EXCEPT ![i] = row]
        BY <1>9, Zenon DEF StartCommit
      <3>2. account' = IF acc = NoRow THEN new
                       ELSE [Flush(account, acc, new) EXCEPT !.fresh = TRUE, !.setBy = new.setBy, !.setFor = job[h].inv]
        BY <1>9, Zenon DEF StartCommit
      <3>3. job' = [job EXCEPT ![h] = Idle]
        BY <1>9 DEF StartCommit, Done
      <3> QED BY <3>1, <3>2, <3>3
    <2>6. invite[i] # NoRow
      BY <2>1
    <2> HIDE DEF i, acc, new, row, InvitesInv, InviteTypes, InviteRow, AccountRow, NoRow, Idle
    <2> QED BY Zenon, <2>1, <2>2, <2>3, <2>4, <2>5, <2>6, RowWritten DEF InvitesInv
  <1>10. ASSUME NEW h \in Handlers, StartFails(h)
         PROVE  InviteTypes'
    <2> DEFINE i == job[h].inv
               row == [ClearAcceptance(invite[i]) EXCEPT !.status = "pending"]
    <2>1. i \in Invites /\ invite[i] \in InviteRow
      BY <1>10 DEF StartFails
    <2>2. \A r \in InviteRow : [r EXCEPT !.status = "pending"] \in InviteRow
      BY DEF ActiveInvite
    <2>3. row \in InviteRow
      BY <2>1, <2>2, ClearedTyped
    <2>4. /\ invite' \in {invite, [invite EXCEPT ![i] = row]} /\ job' = [job EXCEPT ![h] = Idle] /\ account' = account
      BY <1>10 DEF StartFails, Done
    <2>5. invite[i] # NoRow
      BY Zenon, <2>1, RowsDiffer
    <2> HIDE DEF row, i, InvitesInv, InviteTypes, InviteRow, AccountRow, NoRow, Idle, StartsAlone
    <2> QED BY Zenon, <2>1, <2>3, <2>4, <2>5, RowWritten DEF InvitesInv
  <1>11. ASSUME NEW h \in Handlers, VerifyReload(h)
         PROVE  InviteTypes'
    BY <1>11 DEF VerifyReload
  <1>12. ASSUME NEW h \in Handlers, RecordVerifyFailure(h)
         PROVE  InviteTypes'
    <2> HIDE DEF InviteTypes, InviteRow, AccountRow, NoRow, Idle, StartsAlone
    <2>1. PICK row \in InviteRow : invite' = [invite EXCEPT ![job[h].inv] = row]
      BY Zenon, <1>12, FailureWrites
    <2>2. /\ job[h].inv \in Invites /\ invite[job[h].inv] \in InviteRow
          /\ account' = account /\ job' = [job EXCEPT ![h] = Idle]
      BY Zenon, <1>12, FailureWrites
    <2>3. invite[job[h].inv] # NoRow
      BY Zenon, <2>2, RowsDiffer
    <2> QED BY Zenon, <2>1, <2>2, <2>3, RowWritten
  <1>13. ASSUME NEW h \in Handlers, ActivateAccount(h)
         PROVE  InviteTypes'
    <2>1. PICK row \in InviteRow : invite' = [invite EXCEPT ![job[h].inv] = row]
      BY <1>13, ActivationWrites
    <2>2. /\ job[h].inv \in Invites /\ invite[job[h].inv] \in InviteRow
          /\ account' \in AccountRow /\ job' = [job EXCEPT ![h] = Idle]
      BY <1>13, ActivationWrites
    <2> QED BY SMTT(30), <2>1, <2>2, RowWritten
  <1>14. ASSUME NEW h \in Handlers, InviteHandlerFails(h)
         PROVE  InviteTypes'
    BY <1>14 DEF InviteHandlerFails, Done
  <1>15. ASSUME NEW i \in Invites, ExpireInvite(i)
         PROVE  InviteTypes'
    BY <1>15 DEF ExpireInvite, RowFree
  <1>16. ASSUME NEW i \in Invites, InviteTimePasses(i)
         PROVE  InviteTypes'
    <2>1. invite[i] \in InviteRow
      BY <1>16 DEF InviteTimePasses
    <2>2. [invite[i] EXCEPT !.due = TRUE] \in InviteRow /\ [invite[i] EXCEPT !.code = "late"] \in InviteRow
      BY Zenon, <2>1
    <2>3. account # NoRow => [account EXCEPT !.fresh = FALSE] \in AccountRow
      BY Zenon
    <2>4. /\ job' = job
          /\ \/ invite' = [invite EXCEPT ![i] = [invite[i] EXCEPT !.due = TRUE]] /\ account' = account
             \/ invite' = [invite EXCEPT ![i] = [invite[i] EXCEPT !.code = "late"]] /\ account' = account
             \/ account # NoRow /\ account' = [account EXCEPT !.fresh = FALSE] /\ invite' = invite
      BY <1>16 DEF InviteTimePasses
    <2>5. invite[i] # NoRow
      BY <2>1
    <2> HIDE DEF InvitesInv, InviteTypes, InviteRow, AccountRow, NoRow, Idle
    <2>6. PICK row \in InviteRow : invite' \in {invite, [invite EXCEPT ![i] = row]}
      BY Zenon, <2>1, <2>2, <2>4
    <2>7. account' = account \/ account' \in AccountRow
      BY ZenonT(30), <2>3, <2>4
    <2> QED BY <2>4, <2>5, <2>6, <2>7, RowWritten DEF InvitesInv
  <1>17. ASSUME UNCHANGED inviteVars
         PROVE  InviteTypes'
    BY <1>17 DEF inviteVars
  <1> HIDE DEF InvitesInv, StartsAlone, InviteTypes, InvitesTypeOK, InviteJob, RowsStay, InviteRow,
           AccountRow, NoRow, Idle
  <1> QED BY <1>1, <1>2, <1>3, <1>4, <1>5, <1>6, <1>7, <1>8, <1>9, <1>10, <1>11, <1>12, <1>13,
             <1>14, <1>15, <1>16, <1>17 DEF InvitesNext

LEMMA CodesUnspentStep ==
  ASSUME InvitesInv, [InvitesNext]_inviteVars
  PROVE  CodesUnspent'
  <1> USE InvitesAssumption DEF InvitesInv, CodesUnspent, Blank, StartsAlone, VerifiesBound,
          InviteTypes, InvitesTypeOK, InviteJob, RowsStay, InviteRow, AccountRow, NoRow, Idle
  <1>1. ASSUME NEW h \in Handlers, NEW i \in Invites, InsertInvite(h, i)
        PROVE  CodesUnspent'
    BY <1>1 DEF InsertInvite, Continue, FreshInvite, ActiveInvite
  <1>2. ASSUME NEW h \in Handlers, NEW i \in Invites, NEW op \in {"revoke", "reset", "reissue"}, RootLoad(h, i, op)
        PROVE  CodesUnspent'
    BY <1>2 DEF RootLoad, Begin, Free, ActiveInvite
  <1>3. ASSUME NEW h \in Handlers, NEW i \in Invites, NEW b \in Browsers, StartInviteAcceptance(h, b, i)
        PROVE  CodesUnspent'
    BY <1>3 DEF StartInviteAcceptance, Usable, RowFree, Locked, ActiveInvite, Begin, Free
  <1>4. ASSUME NEW h \in Handlers, NEW i \in Invites, NEW b \in Browsers, NEW right \in BOOLEAN, VerifyInviteAcceptance(h, b, i, right)
        PROVE  CodesUnspent'
    BY <1>4 DEF VerifyInviteAcceptance, Usable, RowFree, ActiveInvite, Begin, Free
  <1>5. ASSUME NEW h \in Handlers, InviteCheck(h)
        PROVE  CodesUnspent'
    BY <1>5 DEF InviteCheck, Begin, Free
  <1>6. ASSUME NEW h \in Handlers, RevokeStaffInvite(h)
        PROVE  CodesUnspent'
    BY <1>6 DEF RevokeStaffInvite, RowFree, Done
  <1>7. ASSUME NEW h \in Handlers, ResetAcceptance(h)
        PROVE  CodesUnspent'
    <2> HIDE DEF InviteRow, AccountRow
    <2>1. PICK row \in InviteRow :
            /\ invite' \in {invite, [invite EXCEPT ![job[h].inv] = row]}
            /\ row.used = invite[job[h].inv].used /\ row.bound = invite[job[h].inv].bound
            /\ row.code = invite[job[h].inv].code /\ row.setup = invite[job[h].inv].setup
      BY <1>7, ResetWrites
    <2>2. /\ job[h].inv \in Invites /\ invite[job[h].inv] \in InviteRow /\ RowFree(job[h].inv)
          /\ account' = account /\ job' = [job EXCEPT ![h] = Idle]
      BY <1>7, ResetWrites
    <2>3. \A k \in Invites :
            \/ invite'[k] = invite[k]
            \/ /\ k = job[h].inv /\ invite[k] # NoRow
               /\ invite'[k].used = invite[k].used /\ invite'[k].bound = invite[k].bound
               /\ invite'[k].code = invite[k].code /\ invite'[k].setup = invite[k].setup
      BY <2>1, <2>2 DEF InviteRow
    <2>4. \A g \in Handlers : job'[g] = job[g] \/ job'[g] = Idle
      BY <2>2
    <2>5. \A g \in Handlers : job[g].op \notin {"idle", "insert"} => job[g].inv \in Invites
      OBVIOUS
    <2>6. \A g \in Handlers : job[g].op = "start" => job[g].inv # job[h].inv
      BY <2>2 DEF RowFree
    <2> HIDE DEF NoRow, InviteJob, InviteTypes
    <2> QED BY <2>3, <2>4, <2>5, <2>6
  <1>8. ASSUME NEW h \in Handlers, NEW sent \in BOOLEAN, DeliverInvite(h, sent)
        PROVE  CodesUnspent'
    BY <1>8 DEF DeliverInvite, RowFree, Done
  <1>9. ASSUME NEW h \in Handlers, StartCommit(h)
        PROVE  CodesUnspent'
    BY <1>9 DEF StartCommit, Flush, Unloaded, Done
  <1>10. ASSUME NEW h \in Handlers, StartFails(h)
         PROVE  CodesUnspent'
    BY <1>10 DEF StartFails, ClearAcceptance, Done
  <1>11. ASSUME NEW h \in Handlers, VerifyReload(h)
         PROVE  CodesUnspent'
    BY <1>11 DEF VerifyReload
  <1>12. ASSUME NEW h \in Handlers, RecordVerifyFailure(h)
         PROVE  CodesUnspent'
    <2> HIDE DEF InviteRow, AccountRow
    <2>1. PICK row \in InviteRow :
            /\ invite' = [invite EXCEPT ![job[h].inv] = row]
            /\ row.used = invite[job[h].inv].used /\ row.bound = invite[job[h].inv].bound
            /\ row.code = invite[job[h].inv].code /\ row.setup = invite[job[h].inv].setup
      BY Zenon, <1>12, FailureWrites
    <2>2. /\ job[h].inv \in Invites /\ invite[job[h].inv] \in InviteRow /\ RowFree(job[h].inv)
          /\ job' = [job EXCEPT ![h] = Idle]
      BY Zenon, <1>12, FailureWrites
    <2>3. \A k \in Invites :
            \/ invite'[k] = invite[k]
            \/ /\ k = job[h].inv /\ invite[k] # NoRow
               /\ invite'[k].used = invite[k].used /\ invite'[k].bound = invite[k].bound
               /\ invite'[k].code = invite[k].code /\ invite'[k].setup = invite[k].setup
      BY <2>1, <2>2 DEF InviteRow
    <2>4. \A g \in Handlers : job'[g] = job[g] \/ job'[g] = Idle
      BY <2>2
    <2>5. \A g \in Handlers : job[g].op \notin {"idle", "insert"} => job[g].inv \in Invites
      OBVIOUS
    <2> HIDE DEF NoRow, InviteJob, InviteTypes
    <2> QED BY <2>3, <2>4, <2>5
  <1>13. ASSUME NEW h \in Handlers, ActivateAccount(h)
         PROVE  CodesUnspent'
    <2> HIDE DEF InviteRow, AccountRow
    <2>1. PICK row \in InviteRow :
            /\ invite' = [invite EXCEPT ![job[h].inv] = row]
            /\ row.used /\ row.bound = None /\ row.code = "none" /\ row.setup = invite[job[h].inv].setup
      BY <1>13, ActivationWrites
    <2>2. /\ job[h].inv \in Invites /\ invite[job[h].inv] \in InviteRow /\ RowFree(job[h].inv)
          /\ job' = [job EXCEPT ![h] = Idle]
      BY <1>13, ActivationWrites
    <2> QED BY <2>1, <2>2 DEF RowFree
  <1>14. ASSUME NEW h \in Handlers, InviteHandlerFails(h)
         PROVE  CodesUnspent'
    BY <1>14 DEF InviteHandlerFails, Done
  <1>15. ASSUME NEW i \in Invites, ExpireInvite(i)
         PROVE  CodesUnspent'
    BY <1>15 DEF ExpireInvite, RowFree
  <1>16. ASSUME NEW i \in Invites, InviteTimePasses(i)
         PROVE  CodesUnspent'
    BY <1>16 DEF InviteTimePasses
  <1>17. ASSUME UNCHANGED inviteVars
         PROVE  CodesUnspent'
    BY <1>17 DEF inviteVars
  <1> HIDE DEF InvitesInv, CodesUnspent, Blank, StartsAlone, VerifiesBound, InviteTypes,
           InvitesTypeOK, InviteJob, RowsStay, InviteRow, AccountRow, NoRow, Idle
  <1> QED BY ZenonT(30), <1>1, <1>2, <1>3, <1>4, <1>5, <1>6, <1>7, <1>8, <1>9, <1>10, <1>11, <1>12,
             <1>13, <1>14, <1>15, <1>16, <1>17 DEF InvitesNext

LEMMA StartsAloneStep ==
  ASSUME InvitesInv, [InvitesNext]_inviteVars
  PROVE  StartsAlone'
  <1> USE InvitesAssumption DEF InvitesInv, CodesUnspent, Blank, StartsAlone, InviteTypes,
          InvitesTypeOK, InviteJob, RowsStay, InviteRow, AccountRow, NoRow, Idle
  <1>1. ASSUME NEW h \in Handlers, NEW i \in Invites, InsertInvite(h, i)
        PROVE  StartsAlone'
    BY SMTT(30), <1>1 DEF InsertInvite, Continue, FreshInvite, ActiveInvite
  <1>2. ASSUME NEW h \in Handlers, NEW i \in Invites, NEW op \in {"revoke", "reset", "reissue"}, RootLoad(h, i, op)
        PROVE  StartsAlone'
    BY SMTT(30), <1>2 DEF RootLoad, Begin, Free, ActiveInvite
  <1>3. ASSUME NEW h \in Handlers, NEW i \in Invites, NEW b \in Browsers, StartInviteAcceptance(h, b, i)
        PROVE  StartsAlone'
    BY <1>3 DEF StartInviteAcceptance, Usable, RowFree, Locked, ActiveInvite, Begin, Free
  <1>4. ASSUME NEW h \in Handlers, NEW i \in Invites, NEW b \in Browsers, NEW right \in BOOLEAN, VerifyInviteAcceptance(h, b, i, right)
        PROVE  StartsAlone'
    BY <1>4 DEF VerifyInviteAcceptance, Usable, RowFree, ActiveInvite, Begin, Free
  <1>5. ASSUME NEW h \in Handlers, InviteCheck(h)
        PROVE  StartsAlone'
    BY <1>5 DEF InviteCheck, Begin, Free
  <1>6. ASSUME NEW h \in Handlers, RevokeStaffInvite(h)
        PROVE  StartsAlone'
    BY <1>6 DEF RevokeStaffInvite, RowFree, Done
  <1>7. ASSUME NEW h \in Handlers, ResetAcceptance(h)
        PROVE  StartsAlone'
    <2> HIDE DEF InviteRow, AccountRow
    <2>1. PICK row \in InviteRow :
            /\ invite' \in {invite, [invite EXCEPT ![job[h].inv] = row]}
            /\ row.used = invite[job[h].inv].used /\ row.bound = invite[job[h].inv].bound
            /\ row.code = invite[job[h].inv].code /\ row.setup = invite[job[h].inv].setup
      BY <1>7, ResetWrites
    <2>2. /\ job[h].inv \in Invites /\ invite[job[h].inv] \in InviteRow /\ RowFree(job[h].inv)
          /\ account' = account /\ job' = [job EXCEPT ![h] = Idle]
      BY <1>7, ResetWrites
    <2>3. \A k \in Invites :
            \/ invite'[k] = invite[k]
            \/ /\ k = job[h].inv /\ invite[k] # NoRow
               /\ invite'[k].used = invite[k].used /\ invite'[k].bound = invite[k].bound
               /\ invite'[k].code = invite[k].code /\ invite'[k].setup = invite[k].setup
      BY <2>1, <2>2 DEF InviteRow
    <2>4. \A g \in Handlers : job'[g] = job[g] \/ job'[g] = Idle
      BY <2>2
    <2>5. \A g \in Handlers : job[g].op \notin {"idle", "insert"} => job[g].inv \in Invites
      OBVIOUS
    <2>6. \A g \in Handlers : job[g].op = "start" => job[g].inv # job[h].inv
      BY ZenonT(30), <2>2 DEF RowFree
    <2> HIDE DEF NoRow, InviteJob, InviteTypes
    <2> QED BY SMTT(30), <2>3, <2>4, <2>5, <2>6
  <1>8. ASSUME NEW h \in Handlers, NEW sent \in BOOLEAN, DeliverInvite(h, sent)
        PROVE  StartsAlone'
    BY SMTT(30), <1>8 DEF DeliverInvite, RowFree, Done
  <1>9. ASSUME NEW h \in Handlers, StartCommit(h)
        PROVE  StartsAlone'
    BY <1>9 DEF StartCommit, Flush, Unloaded, Done
  <1>10. ASSUME NEW h \in Handlers, StartFails(h)
         PROVE  StartsAlone'
    BY <1>10 DEF StartFails, ClearAcceptance, Done
  <1>11. ASSUME NEW h \in Handlers, VerifyReload(h)
         PROVE  StartsAlone'
    BY <1>11 DEF VerifyReload
  <1>12. ASSUME NEW h \in Handlers, RecordVerifyFailure(h)
         PROVE  StartsAlone'
    BY <1>12 DEF RecordVerifyFailure, RowFree, Done
  <1>13. ASSUME NEW h \in Handlers, ActivateAccount(h)
         PROVE  StartsAlone'
    BY <1>13 DEF ActivateAccount, CodesMatch, RowFree, ClearAcceptance, Flush, Unloaded, Done
  <1>14. ASSUME NEW h \in Handlers, InviteHandlerFails(h)
         PROVE  StartsAlone'
    BY <1>14 DEF InviteHandlerFails, Done
  <1>15. ASSUME NEW i \in Invites, ExpireInvite(i)
         PROVE  StartsAlone'
    BY <1>15 DEF ExpireInvite, RowFree
  <1>16. ASSUME NEW i \in Invites, InviteTimePasses(i)
         PROVE  StartsAlone'
    BY <1>16 DEF InviteTimePasses
  <1>17. ASSUME UNCHANGED inviteVars
         PROVE  StartsAlone'
    BY <1>17 DEF inviteVars
  <1> HIDE DEF InvitesInv, CodesUnspent, Blank, StartsAlone, InviteTypes, InvitesTypeOK, InviteJob,
           RowsStay, InviteRow, AccountRow, NoRow, Idle
  <1> QED BY ZenonT(30), <1>1, <1>2, <1>3, <1>4, <1>5, <1>6, <1>7, <1>8, <1>9, <1>10, <1>11, <1>12,
             <1>13, <1>14, <1>15, <1>16, <1>17 DEF InvitesNext

LEMMA VerifiesBoundStep ==
  ASSUME InvitesInv, [InvitesNext]_inviteVars
  PROVE  VerifiesBound'
  <1> USE InvitesAssumption DEF InvitesInv, CodesUnspent, Blank, StartsAlone, VerifiesBound,
          InviteTypes, InvitesTypeOK, InviteJob, RowsStay, InviteRow, AccountRow, NoRow, Idle
  <1>1. ASSUME NEW h \in Handlers, NEW i \in Invites, InsertInvite(h, i)
        PROVE  VerifiesBound'
    BY SMTT(30), <1>1 DEF InsertInvite, Continue, FreshInvite, ActiveInvite
  <1>2. ASSUME NEW h \in Handlers, NEW i \in Invites, NEW op \in {"revoke", "reset", "reissue"}, RootLoad(h, i, op)
        PROVE  VerifiesBound'
    BY <1>2 DEF RootLoad, Begin, Free, ActiveInvite
  <1>3. ASSUME NEW h \in Handlers, NEW i \in Invites, NEW b \in Browsers, StartInviteAcceptance(h, b, i)
        PROVE  VerifiesBound'
    BY <1>3 DEF StartInviteAcceptance, Usable, RowFree, Locked, ActiveInvite, Begin, Free
  <1>4. ASSUME NEW h \in Handlers, NEW i \in Invites, NEW b \in Browsers, NEW right \in BOOLEAN, VerifyInviteAcceptance(h, b, i, right)
        PROVE  VerifiesBound'
    BY SMTT(30), <1>4 DEF VerifyInviteAcceptance, Usable, RowFree, ActiveInvite, Begin, Free
  <1>5. ASSUME NEW h \in Handlers, InviteCheck(h)
        PROVE  VerifiesBound'
    BY <1>5 DEF InviteCheck, Begin, Free
  <1>6. ASSUME NEW h \in Handlers, RevokeStaffInvite(h)
        PROVE  VerifiesBound'
    <2>1. job[h].op = "revoke" /\ job[h].inv \in Invites
      BY <1>6 DEF RevokeStaffInvite
    <2>2. \A g \in Handlers : job'[g].op = "verify" => job'[g] = job[g] /\ job[g].inv \in Invites
      BY <1>6 DEF RevokeStaffInvite, Done
    <2>3. \A i \in Invites : /\ invite'[i].bound = invite[i].bound /\ invite'[i].used = invite[i].used
                             /\ invite'[i].code = invite[i].code
      BY <1>6, <2>1 DEF RevokeStaffInvite
    <2> HIDE DEF InviteTypes, InvitesTypeOK, InviteJob, InviteRow, AccountRow, Idle, NoRow,
             CodesUnspent, StartsAlone
    <2> QED BY <2>2, <2>3
  <1>7. ASSUME NEW h \in Handlers, ResetAcceptance(h)
        PROVE  VerifiesBound'
    <2> HIDE DEF InviteRow, AccountRow
    <2>1. PICK row \in InviteRow :
            /\ invite' \in {invite, [invite EXCEPT ![job[h].inv] = row]}
            /\ row.used = invite[job[h].inv].used /\ row.bound = invite[job[h].inv].bound
            /\ row.code = invite[job[h].inv].code /\ row.setup = invite[job[h].inv].setup
      BY ZenonT(30), <1>7, ResetWrites
    <2>2. /\ job[h].inv \in Invites /\ invite[job[h].inv] \in InviteRow /\ RowFree(job[h].inv)
          /\ account' = account /\ job' = [job EXCEPT ![h] = Idle]
      BY ZenonT(30), <1>7, ResetWrites
    <2>3. \A k \in Invites :
            \/ invite'[k] = invite[k]
            \/ /\ k = job[h].inv /\ invite[k] # NoRow
               /\ invite'[k].used = invite[k].used /\ invite'[k].bound = invite[k].bound
               /\ invite'[k].code = invite[k].code /\ invite'[k].setup = invite[k].setup
      BY <2>1, <2>2 DEF InviteRow
    <2>4. \A g \in Handlers : job'[g] = job[g] \/ job'[g] = Idle
      BY <2>2
    <2>5. \A g \in Handlers : job[g].op \notin {"idle", "insert"} => job[g].inv \in Invites
      OBVIOUS
    <2>6. \A g \in Handlers : job[g].op = "start" => job[g].inv # job[h].inv
      BY ZenonT(30), <2>2 DEF RowFree
    <2> HIDE DEF NoRow, InviteJob, InviteTypes
    <2> QED BY SMTT(30), <2>3, <2>4, <2>5, <2>6
  <1>8. ASSUME NEW h \in Handlers, NEW sent \in BOOLEAN, DeliverInvite(h, sent)
        PROVE  VerifiesBound'
    BY SMTT(30), <1>8 DEF DeliverInvite, RowFree, Done
  <1>9. ASSUME NEW h \in Handlers, StartCommit(h)
        PROVE  VerifiesBound'
    BY <1>9 DEF StartCommit, Flush, Unloaded, Done
  <1>10. ASSUME NEW h \in Handlers, StartFails(h)
         PROVE  VerifiesBound'
    BY <1>10 DEF StartFails, ClearAcceptance, Done
  <1>11. ASSUME NEW h \in Handlers, VerifyReload(h)
         PROVE  VerifiesBound'
    BY <1>11 DEF VerifyReload
  <1>12. ASSUME NEW h \in Handlers, RecordVerifyFailure(h)
         PROVE  VerifiesBound'
    <2> HIDE DEF InviteRow, AccountRow
    <2>1. PICK row \in InviteRow :
            /\ invite' = [invite EXCEPT ![job[h].inv] = row]
            /\ row.used = invite[job[h].inv].used /\ row.bound = invite[job[h].inv].bound
            /\ row.code = invite[job[h].inv].code /\ row.setup = invite[job[h].inv].setup
      BY Zenon, <1>12, FailureWrites
    <2>2. /\ job[h].inv \in Invites /\ invite[job[h].inv] \in InviteRow /\ RowFree(job[h].inv)
          /\ job' = [job EXCEPT ![h] = Idle]
      BY Zenon, <1>12, FailureWrites
    <2>3. \A k \in Invites :
            \/ invite'[k] = invite[k]
            \/ /\ k = job[h].inv /\ invite[k] # NoRow
               /\ invite'[k].used = invite[k].used /\ invite'[k].bound = invite[k].bound
               /\ invite'[k].code = invite[k].code /\ invite'[k].setup = invite[k].setup
      BY <2>1, <2>2 DEF InviteRow
    <2>4. \A g \in Handlers : job'[g] = job[g] \/ job'[g] = Idle
      BY <2>2
    <2>5. \A g \in Handlers : job[g].op \notin {"idle", "insert"} => job[g].inv \in Invites
      OBVIOUS
    <2> HIDE DEF NoRow, InviteJob, InviteTypes
    <2> QED BY <2>3, <2>4, <2>5
  <1>13. ASSUME NEW h \in Handlers, ActivateAccount(h)
         PROVE  VerifiesBound'
    <2> HIDE DEF InviteRow, AccountRow
    <2>1. PICK row \in InviteRow :
            /\ invite' = [invite EXCEPT ![job[h].inv] = row]
            /\ row.used /\ row.bound = None /\ row.code = "none" /\ row.setup = invite[job[h].inv].setup
      BY ZenonT(30), <1>13, ActivationWrites
    <2>2. /\ job[h].inv \in Invites /\ invite[job[h].inv] \in InviteRow /\ RowFree(job[h].inv)
          /\ job' = [job EXCEPT ![h] = Idle]
      BY <1>13, ActivationWrites
    <2> QED BY SMTT(30), <2>1, <2>2 DEF RowFree
  <1>14. ASSUME NEW h \in Handlers, InviteHandlerFails(h)
         PROVE  VerifiesBound'
    BY <1>14 DEF InviteHandlerFails, Done
  <1>15. ASSUME NEW i \in Invites, ExpireInvite(i)
         PROVE  VerifiesBound'
    BY <1>15 DEF ExpireInvite, RowFree
  <1>16. ASSUME NEW i \in Invites, InviteTimePasses(i)
         PROVE  VerifiesBound'
    BY SMTT(30), <1>16 DEF InviteTimePasses
  <1>17. ASSUME UNCHANGED inviteVars
         PROVE  VerifiesBound'
    BY <1>17 DEF inviteVars
  <1> HIDE DEF InvitesInv, CodesUnspent, Blank, StartsAlone, VerifiesBound, InviteTypes,
           InvitesTypeOK, InviteJob, RowsStay, InviteRow, AccountRow, NoRow, Idle
  <1> QED BY ZenonT(30), <1>1, <1>2, <1>3, <1>4, <1>5, <1>6, <1>7, <1>8, <1>9, <1>10, <1>11, <1>12,
             <1>13, <1>14, <1>15, <1>16, <1>17 DEF InvitesNext

\* What a step may do to an invite without touching a setup that is under way.
SetupSame(k) ==
  \/ invite'[k] = invite[k]
  \/ invite[k] = NoRow /\ ~invite'[k].used
  \/ /\ invite[k] # NoRow /\ invite'[k] # NoRow
     /\ invite'[k].setup = invite[k].setup /\ invite'[k].used = invite[k].used
     /\ invite[k].setup => invite'[k].bound = invite[k].bound

AccountSame ==
  \/ account' = account
  \/ /\ account # NoRow /\ account' # NoRow /\ account'.status = account.status
     /\ account'.setFor = account.setFor /\ account'.setBy = account.setBy

LEMMA SetupKept ==
  ASSUME InvitesInv, AccountSame, \A k \in Invites : SetupSame(k),
         \A g \in Handlers : job'[g] = job[g] \/ job'[g].op # "start"
  PROVE  SetupHeld'
  <1>1. account # NoRow => account.setFor \in Invites
    BY DEF InvitesInv, InviteTypes, InvitesTypeOK, AccountRow
  <1>2. ASSUME account' # NoRow
        PROVE  /\ invite'[account'.setFor] # NoRow /\ invite'[account'.setFor].setup
               /\ invite'[account'.setFor].used \/ invite'[account'.setFor].bound = account'.setBy
    <2>1. account # NoRow /\ account'.setFor = account.setFor /\ account'.setBy = account.setBy
      BY Zenon, <1>2 DEF AccountSame
    <2>2. /\ invite[account.setFor] # NoRow /\ invite[account.setFor].setup
          /\ invite[account.setFor].used \/ invite[account.setFor].bound = account.setBy
      BY Zenon, <2>1 DEF InvitesInv, SetupHeld
    <2>3. SetupSame(account.setFor)
      BY Zenon, <1>1, <2>1
    <2> QED BY Zenon, <2>1, <2>2, <2>3 DEF SetupSame
  <1>3. ASSUME NEW k \in Invites, invite'[k] # NoRow, invite'[k].used
        PROVE  account' # NoRow /\ account'.status = "active"
    <2>1. SetupSame(k)
      OBVIOUS
    <2>2. invite[k] # NoRow /\ invite[k].used
      BY Zenon, <1>3, <2>1 DEF SetupSame
    <2>3. account # NoRow /\ account.status = "active"
      BY Zenon, <2>2 DEF InvitesInv, SetupHeld
    <2> QED BY Zenon, <2>3 DEF AccountSame
  <1>4. ASSUME NEW g \in Handlers, job'[g].op = "start"
        PROVE  job'[g].acc = NoRow \/ job'[g].acc.status = "setup_pending"
    BY Zenon, <1>4 DEF InvitesInv, SetupHeld
  <1> QED BY Zenon, <1>2, <1>3, <1>4 DEF SetupHeld

\* The columns of a setup are untouched by the other columns' updates.
LEMMA RowEdits ==
  ASSUME NEW row \in InviteRow
  PROVE  \A e \in {[row EXCEPT !.status = "revoked", !.revoked = TRUE], [row EXCEPT !.status = "expired"],
                   [row EXCEPT !.status = "pending"], [row EXCEPT !.startLocked = TRUE],
                   [row EXCEPT !.due = TRUE], [row EXCEPT !.code = "late"]} :
           e # NoRow /\ e.setup = row.setup /\ e.used = row.used /\ e.bound = row.bound
  BY ZenonT(30) DEF InviteRow, NoRow

LEMMA EditKeeps ==
  ASSUME InvitesInv, NEW i \in Invites, NEW row, invite' = [invite EXCEPT ![i] = row],
         invite[i] # NoRow, row # NoRow, row.setup = invite[i].setup, row.used = invite[i].used,
         invite[i].setup => row.bound = invite[i].bound, AccountSame,
         \A g \in Handlers : job'[g] = job[g] \/ job'[g].op # "start"
  PROVE  SetupHeld'
  <1>1. DOMAIN invite = Invites
    BY DEF InvitesInv, InviteTypes, InvitesTypeOK
  <1>2. \A k \in Invites : SetupSame(k)
    BY Zenon, <1>1 DEF SetupSame
  <1> QED BY Zenon, <1>2, SetupKept

LEMMA SetupHeldStep ==
  ASSUME InvitesInv, [InvitesNext]_inviteVars
  PROVE  SetupHeld'
  <1>a. /\ DOMAIN invite = Invites /\ DOMAIN job = Handlers /\ Idle.op # "start"
        /\ \A k \in Invites : invite[k] # NoRow => invite[k] \in InviteRow
        /\ account # NoRow => account \in AccountRow
    BY DEF InvitesInv, InviteTypes, InvitesTypeOK, Idle
  <1>b. \A h \in Handlers : job[h].op \notin {"idle", "insert"} => job[h].inv \in Invites /\ invite[job[h].inv] # NoRow
    BY DEF InvitesInv, InviteTypes, InviteJob, RowsStay, Idle
  <1>c. account' = account => AccountSame
    BY DEF AccountSame
  <1>d. \A h \in Handlers : Done(h) => \A g \in Handlers : job'[g] = job[g] \/ job'[g].op # "start"
    BY Zenon, <1>a DEF Done
  <1>e. ASSUME UNCHANGED <<invite, account>>,
               \A g \in Handlers : job'[g] = job[g] \/ job'[g].op # "start"
        PROVE  SetupHeld'
    <2>1. \A k \in Invites : SetupSame(k)
      BY Zenon, <1>e DEF SetupSame
    <2> QED BY Zenon, <1>c, <1>e, <2>1, SetupKept
  <1>1. ASSUME NEW h \in Handlers, NEW i \in Invites, InsertInvite(h, i)
        PROVE  SetupHeld'
    <2>1. /\ invite[i] = NoRow /\ invite' = [invite EXCEPT ![i] = FreshInvite(job[h].setup)]
          /\ account' = account /\ job' = [job EXCEPT ![h] = [op |-> "mail", inv |-> i]]
      BY Zenon, <1>1 DEF InsertInvite, Continue
    <2>2. ~FreshInvite(job[h].setup).used
      BY DEF FreshInvite
    <2>3. \A k \in Invites : SetupSame(k)
      BY Zenon, <1>a, <2>1, <2>2 DEF SetupSame
    <2>4. \A g \in Handlers : job'[g] = job[g] \/ job'[g].op # "start"
      BY <1>a, <2>1
    <2> QED BY Zenon, <1>c, <2>1, <2>3, <2>4, SetupKept
  <1>2. ASSUME NEW h \in Handlers, NEW i \in Invites, NEW op \in {"revoke", "reset", "reissue"}, RootLoad(h, i, op)
        PROVE  SetupHeld'
    <2>1. \A g \in Handlers : job'[g] = job[g] \/ job'[g].op # "start"
      BY <1>a, <1>2 DEF RootLoad, Begin
    <2> QED BY Zenon, <1>2, <1>e, <2>1 DEF RootLoad
  <1>3. ASSUME NEW h \in Handlers, NEW i \in Invites, NEW b \in Browsers, StartInviteAcceptance(h, b, i)
        PROVE  SetupHeld'
    <2>1. invite[i] # NoRow
      BY <1>3 DEF StartInviteAcceptance, Usable, ActiveInvite, NoRow
    <2>2. CASE invite[i].starts >= MaxStarts
      <3>1. invite' = [invite EXCEPT ![i] = [invite[i] EXCEPT !.startLocked = TRUE]] /\ UNCHANGED <<account, job>>
        BY <1>3, <2>2 DEF StartInviteAcceptance
      <3> QED BY ZenonT(30), <1>a, <1>c, <2>1, <3>1, RowEdits, EditKeeps
    <2>3. CASE ~(invite[i].starts >= MaxStarts)
      <3>1. /\ job' = [job EXCEPT ![h] = [op |-> "start", inv |-> i, browser |-> b, acc |-> account]]
            /\ UNCHANGED <<invite, account>> /\ account.status \in {"setup_pending", "none"}
        BY <1>3, <2>3 DEF StartInviteAcceptance, Begin
      <3>2. account = NoRow \/ account.status = "setup_pending"
        BY <1>a, <3>1 DEF AccountRow
      <3>3. \A g \in Handlers : \/ job'[g] = job[g]
                                \/ job'[g].acc = account
        BY <1>a, <3>1
      <3>4. \A g \in Handlers : job'[g].op = "start" => job'[g].acc = NoRow \/ job'[g].acc.status = "setup_pending"
        BY Zenon, <3>2, <3>3 DEF InvitesInv, SetupHeld
      <3> QED BY Zenon, <3>1, <3>4 DEF InvitesInv, SetupHeld
    <2> QED BY Zenon, <2>2, <2>3
  <1>4. ASSUME NEW h \in Handlers, NEW i \in Invites, NEW b \in Browsers, NEW right \in BOOLEAN, VerifyInviteAcceptance(h, b, i, right)
        PROVE  SetupHeld'
    <2>1. invite[i] # NoRow /\ account # NoRow
      BY <1>4 DEF VerifyInviteAcceptance, Usable, ActiveInvite, NoRow
    <2>2. CASE account.fresh /\ account.binding = i
      <3>1. UNCHANGED <<invite, account>> /\ \A g \in Handlers : job'[g] = job[g] \/ job'[g].op # "start"
        BY <1>4, <1>a, <2>2 DEF VerifyInviteAcceptance, Begin
      <3> QED BY Zenon, <1>e, <3>1
    <2>3. CASE ~(account.fresh /\ account.binding = i)
      <3>1. /\ invite' = [invite EXCEPT ![i] = [invite[i] EXCEPT !.status = "pending"]]
            /\ account' = [account EXCEPT !.binding = None, !.fresh = FALSE] /\ UNCHANGED job
        BY <1>4, <2>3 DEF VerifyInviteAcceptance
      <3>2. AccountSame
        BY Zenon, <1>a, <2>1, <3>1 DEF AccountSame, AccountRow, NoRow
      <3> QED BY ZenonT(30), <1>a, <2>1, <3>1, <3>2, RowEdits, EditKeeps
    <2> QED BY Zenon, <2>2, <2>3
  <1>5. ASSUME NEW h \in Handlers, InviteCheck(h)
        PROVE  SetupHeld'
    <2>1. \A g \in Handlers : job'[g] = job[g] \/ job'[g].op # "start"
      BY <1>a, <1>5 DEF InviteCheck, Begin
    <2> QED BY Zenon, <1>5, <1>e, <2>1 DEF InviteCheck
  <1>6. ASSUME NEW h \in Handlers, RevokeStaffInvite(h) \/ DeliverInvite(h, FALSE)
        PROVE  SetupHeld'
    <2>1. job[h].inv \in Invites /\ invite[job[h].inv] # NoRow
      BY <1>6, <1>b DEF RevokeStaffInvite, DeliverInvite
    <2>2. /\ invite' = [invite EXCEPT ![job[h].inv] = [invite[job[h].inv] EXCEPT !.status = "revoked", !.revoked = TRUE]]
          /\ account' = account /\ Done(h)
      BY Zenon, <1>6 DEF RevokeStaffInvite, DeliverInvite
    <2> QED BY ZenonT(30), <1>a, <1>c, <1>d, <2>1, <2>2, RowEdits, EditKeeps
  <1>7. ASSUME NEW h \in Handlers, ResetAcceptance(h)
        PROVE  SetupHeld'
    <2>1. PICK row \in InviteRow :
            /\ invite' \in {invite, [invite EXCEPT ![job[h].inv] = row]}
            /\ row.used = invite[job[h].inv].used /\ row.bound = invite[job[h].inv].bound
            /\ row.code = invite[job[h].inv].code /\ row.setup = invite[job[h].inv].setup
      BY Zenon, <1>7, ResetWrites DEF InvitesInv
    <2>2. job[h].inv \in Invites /\ invite[job[h].inv] # NoRow /\ account' = account /\ Done(h)
      BY <1>7, <1>b DEF ResetAcceptance
    <2>3. row # NoRow
      BY Zenon, RowsDiffer
    <2> QED BY Zenon, <1>c, <1>d, <1>e, <2>1, <2>2, <2>3, EditKeeps
  <1>8. ASSUME NEW h \in Handlers, DeliverInvite(h, TRUE) \/ InviteHandlerFails(h)
        PROVE  SetupHeld'
    BY Zenon, <1>8, <1>d, <1>e DEF DeliverInvite, InviteHandlerFails
  <1>9. ASSUME NEW h \in Handlers, StartCommit(h)
        PROVE  SetupHeld'
    <2> DEFINE i == job[h].inv
               acc == job[h].acc
               new == [status |-> "setup_pending", enrolled |-> FALSE, fresh |-> TRUE,
                       binding |-> i, setBy |-> job[h].browser, setFor |-> i]
               row == [invite[i] EXCEPT !.status = "totp_pending", !.setup = TRUE, !.bound = job[h].browser,
                                        !.starts = @ + 1, !.code = "sent"]
    <2>1. /\ job[h].op = "start" /\ i \in Invites /\ invite[i] \in InviteRow /\ acc \in AccountRow \cup {NoRow}
          /\ acc = NoRow \/ account \in AccountRow
      BY <1>9, <1>a, <1>b DEF StartCommit, InvitesInv, InviteTypes, InvitesTypeOK, InviteJob, RowsStay, Idle
    <2>2. /\ invite' = [invite EXCEPT ![i] = row] /\ Done(h) /\ (acc = NoRow => account = NoRow)
          /\ account' = IF acc = NoRow THEN new
                        ELSE [Flush(account, acc, new) EXCEPT !.fresh = TRUE, !.setBy = new.setBy, !.setFor = i]
      BY Zenon, <1>9 DEF StartCommit
    <2>3. row # NoRow /\ row.setup /\ row.bound = job[h].browser /\ row.used = invite[i].used
      BY Zenon, <2>1 DEF InviteRow, NoRow
    <2>4. /\ account' # NoRow /\ account'.setFor = i /\ account'.setBy = job[h].browser
          /\ account # NoRow => account'.status = account.status
      <3>1. CASE acc = NoRow
        BY <2>2, <3>1 DEF NoRow
      <3>2. CASE acc # NoRow
        <4>1. acc # Unloaded /\ acc.status = new.status
          BY <2>1, <3>2 DEF AccountRow, Unloaded, InvitesInv, SetupHeld
        <4>2. Flush(account, acc, new) = [k \in DOMAIN account |-> IF new[k] = acc[k] THEN account[k] ELSE new[k]]
          BY Zenon, <4>1 DEF Flush
        <4>3. DOMAIN account = {"status", "enrolled", "fresh", "binding", "setBy", "setFor"}
          BY <2>1, <3>2 DEF AccountRow
        <4>4. account' = [[k \in DOMAIN account |-> IF new[k] = acc[k] THEN account[k] ELSE new[k]]
                            EXCEPT !.fresh = TRUE, !.setBy = new.setBy, !.setFor = i]
          BY Zenon, <2>2, <3>2, <4>2
        <4> HIDE DEF acc, i
        <4>5. account'.setFor = i /\ account'.setBy = job[h].browser /\ account'.status = account.status
          BY <4>1, <4>3, <4>4
        <4>6. account' # NoRow
          BY Zenon, <4>3, <4>4 DEF NoRow
        <4> QED BY Zenon, <4>5, <4>6
      <3> QED BY Zenon, <3>1, <3>2
    <2>5. \A g \in Handlers : job'[g].op = "start" => job'[g].acc = NoRow \/ job'[g].acc.status = "setup_pending"
      BY Zenon, <1>d, <2>2 DEF InvitesInv, SetupHeld
    <2>6. invite'[i] = row /\ \A k \in Invites : k # i => invite'[k] = invite[k]
      BY Zenon, <1>a, <2>1, <2>2
    <2> HIDE DEF row, new, i, acc
    <2>7. invite[i] # NoRow
      BY Zenon, <2>1, RowsDiffer
    <2>8. ASSUME NEW k \in Invites, invite'[k] # NoRow, invite'[k].used
          PROVE  account' # NoRow /\ account'.status = "active"
      <3>1. invite[k] # NoRow /\ invite[k].used
        BY Zenon, <2>3, <2>6, <2>7, <2>8
      <3> QED BY Zenon, <2>4, <3>1 DEF InvitesInv, SetupHeld
    <2> QED BY Zenon, <2>1, <2>3, <2>4, <2>5, <2>6, <2>8 DEF SetupHeld
  <1>10. ASSUME NEW h \in Handlers, StartFails(h)
         PROVE  SetupHeld'
    <2> DEFINE i == job[h].inv
               row == [ClearAcceptance(invite[i]) EXCEPT !.status = "pending"]
    <2>1. /\ job[h].op = "start" /\ i \in Invites /\ invite[i] # NoRow /\ invite[i] \in InviteRow
          /\ account' = account /\ Done(h)
      BY Zenon, <1>10, <1>a, <1>b DEF StartFails
    <2>2. CASE job[h].acc # NoRow
      BY Zenon, <1>10, <1>d, <1>e, <2>1, <2>2 DEF StartFails
    <2>3. CASE job[h].acc = NoRow
      <3>1. ~invite[i].setup
        BY Zenon, <2>1, <2>3 DEF InvitesInv, StartsAlone
      <3>2. /\ ClearAcceptance(invite[i]) \in InviteRow /\ ClearAcceptance(invite[i]).used = invite[i].used
            /\ ClearAcceptance(invite[i]).setup = invite[i].setup
        BY Zenon, <2>1, ClearedTyped
      <3>3. row # NoRow /\ row.setup = invite[i].setup /\ row.used = invite[i].used
        BY Zenon, <3>2, RowEdits
      <3>4. invite' = [invite EXCEPT ![i] = row]
        BY Zenon, <1>10, <2>3 DEF StartFails
      <3> HIDE DEF row, i
      <3> QED BY Zenon, <1>c, <1>d, <2>1, <3>1, <3>3, <3>4, EditKeeps
    <2> QED BY Zenon, <2>2, <2>3
  <1>11. ASSUME NEW h \in Handlers, VerifyReload(h)
         PROVE  SetupHeld'
    <2>1. \A g \in Handlers : job'[g] = job[g] \/ job'[g].op # "start"
      BY <1>a, <1>11 DEF VerifyReload, InvitesInv, InviteTypes, InviteJob, Idle
    <2> QED BY Zenon, <1>11, <1>e, <2>1 DEF VerifyReload
  <1>12. ASSUME NEW h \in Handlers, RecordVerifyFailure(h)
         PROVE  SetupHeld'
    <2>1. PICK row \in InviteRow :
            /\ invite' = [invite EXCEPT ![job[h].inv] = row]
            /\ row.used = invite[job[h].inv].used /\ row.bound = invite[job[h].inv].bound
            /\ row.code = invite[job[h].inv].code /\ row.setup = invite[job[h].inv].setup
      BY Zenon, <1>12, FailureWrites DEF InvitesInv
    <2>2. job[h].inv \in Invites /\ invite[job[h].inv] # NoRow /\ account' = account /\ Done(h)
      BY <1>12, <1>b DEF RecordVerifyFailure
    <2>3. row # NoRow
      BY Zenon, RowsDiffer
    <2> QED BY Zenon, <1>c, <1>d, <2>1, <2>2, <2>3, EditKeeps
  <1>13. ASSUME NEW h \in Handlers, ActivateAccount(h)
         PROVE  SetupHeld'
    <2>1. PICK row \in InviteRow :
            /\ invite' = [invite EXCEPT ![job[h].inv] = row]
            /\ row.used /\ row.bound = None /\ row.code = "none" /\ row.setup = invite[job[h].inv].setup
      BY Zenon, <1>13, ActivationWrites DEF InvitesInv
    <2>2. /\ job[h].inv \in Invites /\ account' = [account EXCEPT !.status = "active", !.enrolled = TRUE, !.binding = None]
          /\ account \in AccountRow /\ Done(h) /\ account # NoRow
      BY <1>13, <1>a, <1>b DEF ActivateAccount, InvitesInv, InviteTypes, RowsStay
    <2>3. /\ account' # NoRow /\ account'.status = "active"
          /\ account'.setFor = account.setFor /\ account'.setBy = account.setBy /\ account.setFor \in Invites
      BY Zenon, <2>2 DEF AccountRow, NoRow
    <2>4. \A k \in Invites : invite'[k] = IF k = job[h].inv THEN row ELSE invite[k]
      BY Zenon, <1>a, <2>1, <2>2
    <2>5. /\ invite[account.setFor] # NoRow /\ invite[account.setFor].setup
          /\ invite[account.setFor].used \/ invite[account.setFor].bound = account.setBy
      BY Zenon, <2>2 DEF InvitesInv, SetupHeld
    <2>6. row # NoRow
      BY Zenon, RowsDiffer
    <2>7. \A g \in Handlers : job'[g].op = "start" => job'[g].acc = NoRow \/ job'[g].acc.status = "setup_pending"
      BY Zenon, <1>d, <2>2 DEF InvitesInv, SetupHeld
    <2> QED BY Zenon, <2>1, <2>3, <2>4, <2>5, <2>6, <2>7 DEF SetupHeld
  <1>14. ASSUME NEW i \in Invites, ExpireInvite(i)
         PROVE  SetupHeld'
    <2>1. invite[i] # NoRow /\ invite' = [invite EXCEPT ![i] = [invite[i] EXCEPT !.status = "expired"]]
          /\ UNCHANGED <<account, job>>
      BY Zenon, <1>14 DEF ExpireInvite
    <2> QED BY ZenonT(30), <1>a, <1>c, <2>1, RowEdits, EditKeeps
  <1>15. ASSUME NEW i \in Invites, InviteTimePasses(i)
         PROVE  SetupHeld'
    <2>1. /\ invite[i] # NoRow /\ UNCHANGED job
          /\ \/ invite' = [invite EXCEPT ![i] = [invite[i] EXCEPT !.due = TRUE]] /\ account' = account
             \/ invite' = [invite EXCEPT ![i] = [invite[i] EXCEPT !.code = "late"]] /\ account' = account
             \/ account # NoRow /\ account' = [account EXCEPT !.fresh = FALSE] /\ invite' = invite
      BY Zenon, <1>15 DEF InviteTimePasses
    <2>2. account # NoRow /\ account' = [account EXCEPT !.fresh = FALSE] => AccountSame
      BY <1>a DEF AccountSame, AccountRow, NoRow
    <2>3. CASE invite' = invite
      <3>1. \A k \in Invites : SetupSame(k)
        BY Zenon, <2>3 DEF SetupSame
      <3> QED BY Zenon, <1>c, <2>1, <2>2, <3>1, SetupKept
    <2>4. CASE invite' = [invite EXCEPT ![i] = [invite[i] EXCEPT !.due = TRUE]] /\ account' = account
      BY ZenonT(30), <1>a, <1>c, <2>1, <2>4, RowEdits, EditKeeps
    <2>5. CASE invite' = [invite EXCEPT ![i] = [invite[i] EXCEPT !.code = "late"]] /\ account' = account
      BY ZenonT(30), <1>a, <1>c, <2>1, <2>5, RowEdits, EditKeeps
    <2> QED BY Zenon, <2>1, <2>3, <2>4, <2>5
  <1>16. CASE UNCHANGED inviteVars
    BY Zenon, <1>16, <1>e DEF inviteVars
  <1>17. \A h \in Handlers, sent \in BOOLEAN : DeliverInvite(h, sent) => DeliverInvite(h, TRUE) \/ DeliverInvite(h, FALSE)
    BY Zenon
  <1> QED BY ZenonT(30), <1>1, <1>2, <1>3, <1>4, <1>5, <1>6, <1>7, <1>8, <1>9, <1>10, <1>11, <1>12,
             <1>13, <1>14, <1>15, <1>16, <1>17 DEF InvitesNext

\* Only a verification makes the account active.
LEMMA ActiveByVerification ==
  ASSUME InvitesInv, InvitesNext, account.status # "active", account'.status = "active"
  PROVE  \E h \in Handlers : ActivateAccount(h)
  <1>1. ASSUME NEW h \in Handlers, StartCommit(h)
        PROVE  FALSE
    <2> DEFINE acc == job[h].acc
               new == [status |-> "setup_pending", enrolled |-> FALSE, fresh |-> TRUE,
                       binding |-> job[h].inv, setBy |-> job[h].browser, setFor |-> job[h].inv]
    <2>1. acc \in AccountRow \cup {NoRow} /\ (acc = NoRow \/ account \in AccountRow)
      BY <1>1 DEF StartCommit, InvitesInv, InviteTypes, InvitesTypeOK, InviteJob, RowsStay, Idle
    <2>2. acc # Unloaded
      BY <2>1 DEF AccountRow, NoRow, Unloaded
    <2>3. account' = IF acc = NoRow THEN new
                      ELSE [Flush(account, acc, new) EXCEPT !.fresh = TRUE, !.setBy = new.setBy, !.setFor = job[h].inv]
      BY <1>1 DEF StartCommit
    <2>4. acc # NoRow => Flush(account, acc, new) = [k \in DOMAIN account |-> IF new[k] = acc[k] THEN account[k] ELSE new[k]]
      BY <2>2 DEF Flush
    <2>5. acc # NoRow => account'.status \in {account.status, "setup_pending"}
      BY <2>1, <2>3, <2>4 DEF AccountRow
    <2> QED BY <2>3, <2>5
  <1>2. ASSUME NEW h \in Handlers, NEW b \in Browsers, NEW i \in Invites, NEW right \in BOOLEAN,
               VerifyInviteAcceptance(h, b, i, right)
        PROVE  FALSE
    BY Zenon, <1>2 DEF VerifyInviteAcceptance, InvitesInv, InviteTypes, InvitesTypeOK, AccountRow,
       NoRow
  <1>3. ASSUME NEW i \in Invites, InviteTimePasses(i)
        PROVE  FALSE
    BY <1>3 DEF InviteTimePasses, InvitesInv, InviteTypes, InvitesTypeOK, AccountRow, NoRow
  <1> QED BY Zenon, <1>1, <1>2, <1>3 DEF InvitesNext, InsertInvite, RootLoad, StartInviteAcceptance,
             InviteCheck, RevokeStaffInvite, ResetAcceptance, DeliverInvite, StartFails,
             VerifyReload, RecordVerifyFailure, InviteHandlerFails, ExpireInvite

\* start_invite_acceptance and verify_invite_acceptance, for any invites, browsers and
\* handlers: a staff account becomes active only through a right verification from the browser
\* that started the invite's setup, that spends the invite, and what it activates was not
\* set by another browser's start of that invite.
THEOREM InvitesEarned == InvitesSpec => ActivationEarned
  <1> DEFINE Earned ==
        account.status # "active" /\ account'.status = "active" =>
          \E h \in Handlers :
            /\ job[h].op = "verify" /\ job[h].right /\ job[h].seen # Unloaded
            /\ LET i == job[h].inv IN
                 /\ invite'[i].used
                 /\ job[h].seen.bound = job[h].browser /\ job[h].seen.code = "sent"
                 /\ account.setFor = i => account.setBy = job[h].browser
  <1>1. InvitesInv /\ [InvitesNext]_inviteVars => InvitesInv'
    BY Zenon, InviteTypesStep, CodesUnspentStep, StartsAloneStep, VerifiesBoundStep, SetupHeldStep
       DEF InvitesInv
  <1>2. ASSUME InvitesInv, [InvitesNext]_inviteVars
        PROVE  [Earned]_inviteVars
    <2> SUFFICES ASSUME InvitesNext, account.status # "active", account'.status = "active"
                 PROVE  Earned
      BY <1>2
    <2>1. PICK h \in Handlers : ActivateAccount(h)
      BY <1>2, ActiveByVerification
    <2>2. PICK row \in InviteRow : invite' = [invite EXCEPT ![job[h].inv] = row] /\ row.used
      BY <1>2, <2>1, ActivationWrites DEF InvitesInv
    <2>3. invite'[job[h].inv].used
      BY <1>2, <2>1, <2>2, ActivationWrites DEF InvitesInv, InviteTypes, InvitesTypeOK
    <2>4. account.setFor = job[h].inv => account.setBy = job[h].browser
      <3>1. account # NoRow /\ job[h].op = "verify" /\ job[h].inv \in Invites /\ invite[job[h].inv] # NoRow
        BY <1>2, <2>1 DEF ActivateAccount, InvitesInv, InviteTypes, RowsStay, InviteJob, Idle
      <3>2. ~invite[job[h].inv].used
        BY Zenon, <1>2, <3>1 DEF InvitesInv, SetupHeld
      <3>3. invite[job[h].inv].bound = job[h].browser
        BY Zenon, <1>2, <3>1, <3>2 DEF InvitesInv, VerifiesBound
      <3> QED BY Zenon, <1>2, <3>1, <3>2, <3>3 DEF InvitesInv, SetupHeld
    <2> QED BY Zenon, <1>2, <2>1, <2>3, <2>4, ActivationWrites DEF InvitesInv
  <1> QED BY InvitesBegin, <1>1, <1>2, PTL DEF InvitesSpec, ActivationEarned

-----------------------------------------------------------------------------
(* Attempt counters.                                                       *)

Looking == {"load", "create", "reload"}

CountersJob ==
  {Idle} \cup [op : Looking, use : Uses, at : Nat, look : Nat]
         \cup [op : {"count"}, use : Uses, at : Nat, n : Nat, fresh : BOOLEAN]
         \cup [op : {"cleanup"}, id : Nat]

CountersRow == [status : {"row"}, id : Nat, n : Nat, until : Nat]

CountersTypes ==
  /\ counter \in CountersRow \cup {NoRow}
  /\ holder \in Handlers \cup {None}
  /\ ids \in Nat /\ clock \in Nat /\ counted \in Nat
  /\ job \in [Handlers -> CountersJob]

\* The row has an id that was given out and counts what the history counted.
RowCounts ==
  /\ counter # NoRow => counter.id <= ids
  /\ counted = IF counter = NoRow THEN 0 ELSE counter.n

\* What a handler holds to count: the row, with the row's count, or the key of a new row
\* where there is none or a late one.
Holds(j) ==
  /\ j.fresh => j.n = 0 /\ (counter # NoRow => Late(counter, clock))
  /\ ~j.fresh => counter # NoRow /\ j.n = counter.n

\* An id selected for deletion was given out, and is that of no live row but a revived one.
Knows(j) ==
  /\ j.id <= ids
  /\ counter # NoRow /\ counter.id = j.id => Late(counter, clock) \/ counter.id \in revived

CounterHeld == \A h \in Handlers : job[h].op = "count" => holder = h /\ Holds(job[h])

CleanupKnows == \A h \in Handlers : job[h].op = "cleanup" => Knows(job[h])

LooksPast == \A h \in Handlers : job[h].op \in Looking => job[h].look <= clock

\* The inductive invariant: that no count is lost needs the row lock, a clock that does not
\* run backwards, and that ids are never given out again.
CountersInv == CountersTypes /\ RowCounts /\ CounterHeld /\ CleanupKnows /\ LooksPast

LEMMA CountersBegin == CountersInit => CountersInv
  BY HandlersAssumption DEF CountersInit, CountersInv, CountersTypes, RowCounts, CounterHeld,
     CleanupKnows, LooksPast, Looking, CountersJob, Idle, NoRow

\* The jobs, told apart by their fields.
LEMMA CountersJobs ==
  ASSUME CountersTypes, NEW h \in Handlers
  PROVE  /\ job[h].op = "idle" => job[h] = Idle
         /\ job[h].op \in Looking => job[h].use \in Uses /\ job[h].at \in Nat /\ job[h].look \in Nat
         /\ job[h].op \in Looking => job[h] \in [op : Looking, use : Uses, at : Nat, look : Nat]
         /\ job[h].op = "count" => /\ job[h].use \in Uses /\ job[h].at \in Nat
                                   /\ job[h].n \in Nat /\ job[h].fresh \in BOOLEAN
         /\ job[h].op = "cleanup" => job[h].id \in Nat
  BY DEF CountersTypes, CountersJob, Looking, Idle

\* A step that commits nothing: one handler goes on, with what it may hold or know.
LEMMA CounterQuiet ==
  ASSUME CountersInv, UNCHANGED <<counter, ids, clock, counted, revived>>, NEW h \in Handlers,
         NEW next \in CountersJob, job' = [job EXCEPT ![h] = next],
         next.op = "count" => holder' = h /\ Holds(next),
         next.op = "cleanup" => Knows(next),
         next.op \in Looking => next.look <= clock,
         holder' \in Handlers \cup {None},
         \A k \in Handlers : k # h /\ holder = k => holder' = k
  PROVE  CountersInv'
  <1>1. /\ job'[h] = next /\ job' \in [Handlers -> CountersJob]
        /\ \A k \in Handlers : k # h => job'[k] = job[k]
    BY Zenon DEF CountersInv, CountersTypes
  <1>2. /\ \A j : Holds(j)' <=> Holds(j)
        /\ \A j : Knows(j)' <=> Knows(j)
    BY Zenon DEF Holds, Knows, Late
  <1>3. CountersTypes' /\ RowCounts'
    BY Zenon, <1>1 DEF CountersInv, CountersTypes, RowCounts
  <1>4. CounterHeld'
    <2> SUFFICES ASSUME NEW k \in Handlers, job'[k].op = "count" PROVE holder' = k /\ Holds(job[k])'
      BY Zenon DEF CounterHeld
    <2>1. CASE k = h
      BY Zenon, <1>1, <2>1 DEF Holds, Late
    <2>2. CASE k # h
      BY Zenon, <1>1, <2>2 DEF CountersInv, CounterHeld, Holds, Late
    <2> QED BY Zenon, <2>1, <2>2
  <1>5. CleanupKnows'
    <2> SUFFICES ASSUME NEW k \in Handlers, job'[k].op = "cleanup" PROVE Knows(job[k])'
      BY Zenon DEF CleanupKnows
    <2>1. CASE k = h
      BY Zenon, <1>1, <2>1 DEF Knows, Late
    <2>2. CASE k # h
      BY Zenon, <1>1, <2>2 DEF CountersInv, CleanupKnows, Knows, Late
    <2> QED BY Zenon, <2>1, <2>2
  <1>6. LooksPast'
    BY Zenon, <1>1 DEF CountersInv, LooksPast
  <1> QED BY Zenon, <1>3, <1>4, <1>5, <1>6 DEF CountersInv

LEMMA BeginKeeps ==
  ASSUME CountersInv, NEW h \in Handlers, NEW use \in Uses, BeginCount(h, use)
  PROVE  CountersInv'
  <1> DEFINE next == [op |-> "load", use |-> use, at |-> clock, look |-> clock]
  <1>1. /\ job' = [job EXCEPT ![h] = next]
        /\ UNCHANGED <<counter, holder, ids, clock, counted, revived>>
    BY Zenon DEF BeginCount, Begin
  <1>2. clock \in Nat /\ holder' \in Handlers \cup {None}
    BY Zenon, <1>1 DEF CountersInv, CountersTypes
  <1>3. /\ next \in CountersJob /\ next.op = "load" /\ next.look <= clock
    BY <1>2 DEF CountersJob, Looking
  <1> HIDE DEF next
  <1>4. next.op # "count" /\ next.op # "cleanup"
    BY <1>3
  <1> QED BY Zenon, <1>1, <1>2, <1>3, <1>4, CounterQuiet

\* A handler that takes the row or its key.
LEMMA HoldKeeps ==
  ASSUME CountersInv, UNCHANGED <<counter, ids, clock, counted, revived>>, NEW h \in Handlers,
         job[h].op \in Looking, NEW n \in Nat, NEW fresh \in BOOLEAN, HoldCounter(h, n, fresh),
         fresh => n = 0 /\ (counter # NoRow => Late(counter, clock)),
         ~fresh => counter # NoRow /\ n = counter.n
  PROVE  CountersInv'
  <1> DEFINE next == [op |-> "count", use |-> job[h].use, at |-> job[h].at, n |-> n, fresh |-> fresh]
  <1>1. holder = None /\ holder' = h /\ job' = [job EXCEPT ![h] = next]
    BY Zenon DEF HoldCounter, Continue
  <1>2. job[h].use \in Uses /\ job[h].at \in Nat
    BY Zenon, CountersJobs DEF CountersInv
  <1>3. next \in CountersJob
    BY Zenon, <1>2 DEF CountersJob
  <1>4. next.op = "count" /\ next.n = n /\ next.fresh = fresh
    BY Zenon
  <1> HIDE DEF next
  <1>5. Holds(next)
    BY Zenon, <1>4 DEF Holds
  <1>6. next.op # "cleanup" /\ next.op \notin Looking
    BY <1>4 DEF Looking
  <1>7. \A k \in Handlers : holder # k
    BY Zenon, <1>1, HandlersAssumption
  <1> QED BY Zenon, <1>1, <1>3, <1>5, <1>6, <1>7, CounterQuiet

LEMMA LookKeeps ==
  ASSUME CountersInv, UNCHANGED <<counter, holder, ids, clock, counted, revived>>, NEW h \in Handlers,
         NEW next \in CountersJob, job' = [job EXCEPT ![h] = next],
         next = Idle \/ (next.op \in Looking /\ next.look <= clock)
  PROVE  CountersInv'
  <1>1. next.op # "count" /\ next.op # "cleanup" /\ (next.op \in Looking => next.look <= clock)
    BY DEF Looking, Idle
  <1>2. holder' \in Handlers \cup {None}
    BY Zenon DEF CountersInv, CountersTypes
  <1> QED BY Zenon, <1>1, <1>2, CounterQuiet

LEMMA LoadKeeps ==
  ASSUME CountersInv, NEW h \in Handlers, LoadCounter(h)
  PROVE  CountersInv'
  <1>1. UNCHANGED <<counter, ids, clock, counted, revived>> /\ job[h].op \in Looking
    BY Zenon DEF LoadCounter, Looking
  <1>2. job[h].look \in Nat /\ job[h].look <= clock /\ clock \in Nat
    BY <1>1, CountersJobs DEF CountersInv, LooksPast, CountersTypes
  <1>3. counter # NoRow => counter.n \in Nat /\ counter.until \in Nat
    BY DEF CountersInv, CountersTypes, CountersRow
  <1>4. CASE counter = NoRow /\ Continue(h, [job[h] EXCEPT !.op = "create"]) /\ UNCHANGED holder
    <2> DEFINE next == [job[h] EXCEPT !.op = "create"]
    <2>1. job[h] \in [op : Looking, use : Uses, at : Nat, look : Nat]
      BY Zenon, <1>1, CountersJobs DEF CountersInv
    <2>2. next \in CountersJob /\ next.op \in Looking /\ next.look <= clock
      BY <1>2, <2>1 DEF CountersJob, Looking
    <2>3. job' = [job EXCEPT ![h] = next]
      BY Zenon, <1>4 DEF Continue
    <2> HIDE DEF next
    <2> QED BY Zenon, <1>1, <1>4, <2>2, <2>3, LookKeeps
  <1>5. CASE counter # NoRow /\ Late(counter, job[h].look) /\ HoldCounter(h, 0, TRUE)
    <2>1. Late(counter, clock)
      BY <1>2, <1>3, <1>5 DEF Late
    <2>2. 0 \in Nat /\ TRUE \in BOOLEAN
      OBVIOUS
    <2> QED BY Zenon, <1>1, <1>5, <2>1, <2>2, HoldKeeps
  <1>6. CASE counter # NoRow /\ HoldCounter(h, counter.n, FALSE)
    <2>1. FALSE \in BOOLEAN /\ counter.n \in Nat
      BY <1>3, <1>6
    <2> QED BY Zenon, <1>1, <1>6, <2>1, HoldKeeps
  <1>7. CASE Done(h) /\ UNCHANGED holder
    <2>1. Idle \in CountersJob /\ job' = [job EXCEPT ![h] = Idle]
      BY Zenon, <1>7 DEF CountersJob, Done
    <2> QED BY Zenon, <1>1, <1>7, <2>1, LookKeeps
  <1> QED BY Zenon, <1>4, <1>5, <1>6, <1>7 DEF LoadCounter

LEMMA CreateKeeps ==
  ASSUME CountersInv, NEW h \in Handlers, CreateCounter(h)
  PROVE  CountersInv'
  <1>1. UNCHANGED <<counter, ids, clock, counted, revived>> /\ job[h].op = "create" /\ job[h].op \in Looking
    BY DEF CreateCounter, Looking
  <1>2. CASE counter = NoRow /\ HoldCounter(h, 0, TRUE)
    <2>1. 0 \in Nat /\ TRUE \in BOOLEAN
      OBVIOUS
    <2> QED BY Zenon, <1>1, <1>2, <2>1, HoldKeeps
  <1>3. CASE Continue(h, [job[h] EXCEPT !.op = "reload", !.look = clock]) /\ UNCHANGED holder
    <2> DEFINE next == [job[h] EXCEPT !.op = "reload", !.look = clock]
    <2>1. job[h] \in [op : Looking, use : Uses, at : Nat, look : Nat] /\ clock \in Nat
      BY Zenon, <1>1, CountersJobs DEF CountersInv, CountersTypes
    <2>2. "reload" \in Looking /\ clock <= clock
      BY <2>1 DEF Looking
    <2>3. next \in [op : Looking, use : Uses, at : Nat, look : Nat]
      BY Zenon, <2>1, <2>2
    <2>4. next.op = "reload" /\ next.look = clock
      BY <2>1
    <2>5. job' = [job EXCEPT ![h] = next]
      BY Zenon, <1>3 DEF Continue
    <2> HIDE DEF next
    <2>6. next \in CountersJob
      BY Zenon, <2>3 DEF CountersJob
    <2> QED BY Zenon, <1>1, <1>3, <2>2, <2>4, <2>5, <2>6, LookKeeps
  <1> QED BY Zenon, <1>2, <1>3 DEF CreateCounter

\* A commit ends the one transaction that holds the row, which counted one more than
\* the row did, or is the first of its window.
LEMMA CommitKeeps ==
  ASSUME CountersInv, NEW h \in Handlers, job[h].op = "count", NEW until \in Nat, Commit(h, until)
  PROVE  CountersInv'
  <1>1. /\ holder = h /\ Holds(job[h]) /\ job[h].fresh \in BOOLEAN /\ job[h].n \in Nat
    BY Zenon, CountersJobs DEF CountersInv, CounterHeld
  <1>2. \A k \in Handlers : k # h => job'[k] = job[k] /\ job[k].op # "count"
    BY <1>1 DEF Commit, Done, CountersInv, CountersTypes, CounterHeld
  <1>3. job' \in [Handlers -> CountersJob] /\ job'[h] = Idle /\ job'[h].op = "idle"
    BY ZenonT(30) DEF Commit, Done, CountersInv, CountersTypes, CountersJob, Idle
  <1>4. counter' # NoRow /\ holder' = None /\ clock' = clock
    BY DEF Commit, NoRow
  <1>5. \A k \in Handlers : job'[k].op \in {"cleanup"} \cup Looking => job'[k] = job[k]
    BY <1>2, <1>3 DEF Looking
  <1>6. CounterHeld'
    <2>1. \A k \in Handlers : job'[k].op # "count"
      BY <1>2, <1>3
    <2> QED BY Zenon, <2>1 DEF CounterHeld
  <1>7. LooksPast'
    BY Zenon, <1>4, <1>5 DEF CountersInv, LooksPast
  <1>8. ids \in Nat /\ clock \in Nat /\ counted \in Nat
    BY Zenon DEF CountersInv, CountersTypes
  <1>9. CASE job[h].fresh
    <2>1. /\ ids' = ids + 1
          /\ counter' = [status |-> "row", id |-> ids + 1, n |-> job[h].n + 1, until |-> until]
          /\ counted' = IF counter # NoRow /\ Late(counter, clock) THEN 1 ELSE counted + 1
      BY Zenon, <1>9 DEF Commit
    <2>2. job[h].n = 0 /\ (counter # NoRow => Late(counter, clock)) /\ (counter = NoRow => counted = 0)
      BY Zenon, <1>1, <1>9 DEF Holds, CountersInv, RowCounts
    <2>3. counted' = 1
      BY <2>1, <2>2
    <2>4. /\ counter' \in CountersRow /\ counter'.id = ids + 1 /\ counter'.n = 1
          /\ ids' \in Nat /\ counted' \in Nat
      BY <1>8, <2>1, <2>2, <2>3 DEF CountersRow
    <2>5. CountersTypes'
      BY Zenon, <1>3, <1>4, <1>8, <2>4 DEF CountersTypes
    <2>6. RowCounts'
      BY <1>4, <1>8, <2>1, <2>3, <2>4 DEF RowCounts
    <2>7. CleanupKnows'
      <3> SUFFICES ASSUME NEW k \in Handlers, job'[k].op = "cleanup" PROVE Knows(job[k])'
        BY Zenon DEF CleanupKnows
      <3>1. job'[k] = job[k] /\ job[k].id <= ids
        BY <1>5 DEF CountersInv, CleanupKnows, Knows
      <3>2. job[k].id \in Nat
        BY Zenon, <3>1, CountersJobs DEF CountersInv
      <3>3. job'[k].id <= ids' /\ counter'.id # job'[k].id
        BY <1>8, <2>1, <2>4, <3>1, <3>2
      <3> QED BY Zenon, <3>3 DEF Knows
    <2> QED BY Zenon, <1>6, <1>7, <2>5, <2>6, <2>7 DEF CountersInv
  <1>10. CASE ~job[h].fresh
    <2>1. /\ ids' = ids /\ counted' = counted + 1
          /\ counter' = [status |-> "row", id |-> counter.id, n |-> job[h].n + 1, until |-> until]
          /\ revived' = IF Late(counter, clock) /\ until # counter.until
                          THEN revived \cup {counter.id} ELSE revived
      BY Zenon, <1>10 DEF Commit
    <2>2. counter # NoRow /\ job[h].n = counter.n /\ counted = counter.n
      BY Zenon, <1>1, <1>10 DEF Holds, CountersInv, RowCounts
    <2>3. counter \in CountersRow /\ counter.id <= ids /\ counter.id \in Nat
      BY <2>2 DEF CountersInv, CountersTypes, RowCounts, CountersRow
    <2>4. /\ counter' \in CountersRow /\ counter'.id = counter.id /\ counter'.n = job[h].n + 1
          /\ counter'.until = until /\ counted' \in Nat
      BY <1>1, <1>8, <2>1, <2>3 DEF CountersRow
    <2>5. CountersTypes'
      BY Zenon, <1>3, <1>4, <1>8, <2>1, <2>4 DEF CountersTypes
    <2>6. RowCounts'
      BY <1>4, <2>1, <2>2, <2>3, <2>4 DEF RowCounts
    <2>7. CleanupKnows'
      <3> SUFFICES ASSUME NEW k \in Handlers, job'[k].op = "cleanup" PROVE Knows(job[k])'
        BY Zenon DEF CleanupKnows
      <3>1. job'[k] = job[k] /\ Knows(job[k])
        BY <1>5 DEF CountersInv, CleanupKnows
      <3>2. job'[k].id <= ids'
        BY Zenon, <2>1, <3>1 DEF Knows
      <3>3. ASSUME counter'.id = job'[k].id
            PROVE  counter'.until <= clock' \/ counter'.id \in revived'
        <4>1. counter.until <= clock \/ counter.id \in revived
          BY Zenon, <2>2, <2>4, <3>1, <3>3 DEF Knows, Late
        <4> QED BY Zenon, <1>4, <2>1, <2>4, <4>1 DEF Late
      <3> QED BY Zenon, <3>2, <3>3 DEF Knows, Late
    <2> QED BY Zenon, <1>6, <1>7, <2>5, <2>6, <2>7 DEF CountersInv
  <1> QED BY Zenon, <1>1, <1>9, <1>10

LEMMA RollbackKeeps ==
  ASSUME CountersInv, NEW h \in Handlers, UNCHANGED <<counter, ids, clock, counted, revived>>, Done(h),
         holder' = None, holder = h
  PROVE  CountersInv'
  <1>1. Idle \in CountersJob /\ job' = [job EXCEPT ![h] = Idle]
    BY Zenon DEF CountersJob, Done
  <1>2. Idle.op # "count" /\ Idle.op # "cleanup" /\ Idle.op \notin Looking
    BY DEF Idle, Looking
  <1> QED BY Zenon, <1>1, <1>2, CounterQuiet

LEMMA CountKeeps ==
  ASSUME CountersInv, NEW h \in Handlers, ConsumeRateLimit(h) \/ RecordCounted(h)
  PROVE  CountersInv'
  <1>1. job[h].op = "count" /\ holder = h
    BY Zenon DEF ConsumeRateLimit, RecordCounted, Counting, CountersInv, CounterHeld
  <1>2. job[h].at \in Nat /\ (~job[h].fresh => counter # NoRow)
    BY Zenon, <1>1, CountersJobs DEF CountersInv, CounterHeld, Holds
  <1>3. counter # NoRow => counter.until \in Nat
    BY DEF CountersInv, CountersTypes, CountersRow
  <1>4. ASSUME NEW w \in Windows, Commit(h, IF job[h].fresh THEN job[h].at + w ELSE counter.until)
        PROVE  CountersInv'
    <2>1. (IF job[h].fresh THEN job[h].at + w ELSE counter.until) \in Nat
      BY <1>2, <1>3, CountersAssumption
    <2> QED BY Zenon, <1>1, <1>4, <2>1, CommitKeeps
  <1>5. ASSUME NEW w \in Windows, Commit(h, job[h].at + w)
        PROVE  CountersInv'
    <2>1. job[h].at + w \in Nat
      BY <1>2, CountersAssumption
    <2> QED BY Zenon, <1>1, <1>5, <2>1, CommitKeeps
  <1>6. CASE Rollback(h)
    BY Zenon, <1>1, <1>6, RollbackKeeps DEF Rollback
  <1> QED BY Zenon, <1>4, <1>5, <1>6 DEF ConsumeRateLimit, RecordCounted

\* A row that goes while nobody holds it takes its count with it.
LEMMA DropKeeps ==
  ASSUME CountersInv, UNCHANGED <<holder, ids, clock, revived>>, holder = None,
         counter' = NoRow, counted' = 0,
         job' \in [Handlers -> CountersJob],
         \A k \in Handlers : job'[k] = job[k] \/ job'[k] = Idle
  PROVE  CountersInv'
  <1>1. \A k \in Handlers : job'[k].op \notin {"count"} /\ (job'[k].op # "idle" => job'[k] = job[k])
    BY HandlersAssumption DEF CountersInv, CounterHeld, Idle
  <1>2. CountersTypes' /\ RowCounts'
    BY <1>1 DEF CountersInv, CountersTypes, RowCounts
  <1>3. CounterHeld'
    BY <1>1 DEF CounterHeld
  <1>4. CleanupKnows'
    <2> SUFFICES ASSUME NEW k \in Handlers, job'[k].op = "cleanup" PROVE Knows(job[k])'
      BY Zenon DEF CleanupKnows
    <2>1. job'[k] = job[k] /\ job[k].id <= ids
      BY <1>1 DEF CountersInv, CleanupKnows, Knows
    <2> QED BY Zenon, <2>1 DEF Knows
  <1>5. LooksPast'
    BY <1>1 DEF CountersInv, LooksPast, Looking
  <1> QED BY Zenon, <1>2, <1>3, <1>4, <1>5 DEF CountersInv

LEMMA ClearKeeps ==
  ASSUME CountersInv, NEW h \in Handlers, ClearFailures(h)
  PROVE  CountersInv'
  <1>1. job' \in [Handlers -> CountersJob] /\ \A k \in Handlers : job'[k] = job[k]
    BY Zenon DEF ClearFailures, CountersInv, CountersTypes
  <1> QED BY Zenon, <1>1, DropKeeps DEF ClearFailures

LEMMA FailKeeps ==
  ASSUME CountersInv, NEW h \in Handlers, CounterHandlerFails(h)
  PROVE  CountersInv'
  <1>1. Idle \in CountersJob /\ job' = [job EXCEPT ![h] = Idle]
    BY Zenon DEF CountersJob, CounterHandlerFails, Done
  <1>2. Idle.op # "count" /\ Idle.op # "cleanup" /\ Idle.op \notin Looking
    BY DEF Idle, Looking
  <1>3. /\ holder' \in Handlers \cup {None}
        /\ \A k \in Handlers : k # h /\ holder = k => holder' = k
    BY DEF CounterHandlerFails, CountersInv, CountersTypes
  <1> QED BY Zenon, <1>1, <1>2, <1>3, CounterQuiet DEF CounterHandlerFails

LEMMA ClockKeeps ==
  ASSUME CountersInv, ClockTicks
  PROVE  CountersInv'
  <1>1. /\ clock' = clock + 1 /\ clock \in Nat /\ UNCHANGED <<counter, holder, ids, counted, revived, job>>
        /\ counter # NoRow => counter.until \in Nat
    BY DEF ClockTicks, CountersInv, CountersTypes, CountersRow
  <1>2. clock' \in Nat /\ (counter # NoRow /\ Late(counter, clock) => counter.until <= clock')
    BY <1>1 DEF Late
  <1>3. CountersTypes' /\ RowCounts'
    BY Zenon, <1>1, <1>2 DEF CountersInv, CountersTypes, RowCounts
  <1>4. CounterHeld' /\ CleanupKnows'
    BY Zenon, <1>1, <1>2 DEF CountersInv, CounterHeld, CleanupKnows, Holds, Knows, Late
  <1>5. LooksPast'
    <2> SUFFICES ASSUME NEW k \in Handlers, job[k].op \in Looking PROVE job[k].look <= clock'
      BY Zenon, <1>1 DEF LooksPast
    <2>1. job[k].look \in Nat /\ job[k].look <= clock
      BY Zenon, CountersJobs DEF CountersInv, LooksPast
    <2> QED BY <1>1, <2>1
  <1> QED BY Zenon, <1>3, <1>4, <1>5 DEF CountersInv

LEMMA CleanupKeeps ==
  ASSUME CountersInv, NEW h \in Handlers, CleanupSelect(h) \/ CleanupDelete(h)
  PROVE  CountersInv'
  <1>1. CASE CleanupSelect(h)
    <2> DEFINE next == [op |-> "cleanup", id |-> counter.id]
    <2>1. /\ job' = [job EXCEPT ![h] = next] /\ UNCHANGED <<counter, holder, ids, clock, counted, revived>>
          /\ counter # NoRow /\ Late(counter, clock)
      BY Zenon, <1>1 DEF CleanupSelect, Begin
    <2>2. counter.id <= ids /\ counter.id \in Nat /\ holder' \in Handlers \cup {None}
      BY <2>1 DEF CountersInv, CountersTypes, RowCounts, CountersRow
    <2>3. next \in CountersJob /\ next.op = "cleanup" /\ next.id = counter.id
      BY Zenon, <2>2 DEF CountersJob
    <2> HIDE DEF next
    <2>4. next.op # "count" /\ next.op \notin Looking
      BY <2>3 DEF Looking
    <2>5. Knows(next)
      BY Zenon, <2>1, <2>2, <2>3 DEF Knows
    <2> QED BY Zenon, <2>1, <2>2, <2>3, <2>4, <2>5, CounterQuiet
  <1>2. CASE CleanupDelete(h)
    <2>1. /\ job[h].op = "cleanup" /\ holder = None /\ UNCHANGED <<holder, ids, clock, revived>>
          /\ job' = [job EXCEPT ![h] = Idle]
      BY Zenon, <1>2 DEF CleanupDelete, Done
    <2>2. /\ job' \in [Handlers -> CountersJob] /\ Idle \in CountersJob
          /\ \A k \in Handlers : job'[k] = job[k] \/ job'[k] = Idle
      BY Zenon, <2>1 DEF CountersInv, CountersTypes, CountersJob
    <2>3. CASE Deletes(h)
      <3>1. Late(counter, clock) \/ counter.id \in revived
        BY Zenon, <2>1, <2>3 DEF CountersInv, CleanupKnows, Knows, Deletes
      <3>2. counter' = NoRow /\ counted' = 0
        BY Zenon, <1>2, <2>3, <3>1 DEF CleanupDelete
      <3> QED BY Zenon, <2>1, <2>2, <3>2, DropKeeps
    <2>4. CASE ~Deletes(h)
      <3>1. UNCHANGED <<counter, holder, ids, clock, counted, revived>>
        BY Zenon, <1>2, <2>4 DEF CleanupDelete
      <3> QED BY Zenon, <2>1, <2>2, <3>1, LookKeeps
    <2> QED BY Zenon, <2>3, <2>4
  <1> QED BY Zenon, <1>1, <1>2

LEMMA CountersStep == CountersInv /\ [CountersNext]_counterVars => CountersInv'
  <1> SUFFICES ASSUME CountersInv, [CountersNext]_counterVars PROVE CountersInv'
    OBVIOUS
  <1>1. CASE UNCHANGED counterVars
    BY Zenon, <1>1 DEF counterVars, CountersInv, CountersTypes, RowCounts, CounterHeld, CleanupKnows,
       LooksPast, Holds, Knows, Late
  <1> QED
    BY Zenon, <1>1, BeginKeeps, LoadKeeps, CreateKeeps, CountKeeps, ClearKeeps, FailKeeps, ClockKeeps,
       CleanupKeeps DEF CountersNext, PeekCounter

\* No count of a running window is lost in any interleaving of load, insert race, commit,
\* clock and deletion by id (rate_limits.py, state_cleanup.py), but with a row that was
\* renewed after its window, for any number of handlers and any windows.
THEOREM CountersCount == CountersSpec => []NothingUncounted
  <1>1. CountersInv => NothingUncounted
    BY DEF CountersInv, RowCounts, NothingUncounted
  <1> QED BY CountersBegin, CountersStep, <1>1, PTL DEF CountersSpec

\* consume_durable_rate_limit grants no more than Limit requests in a window.
THEOREM CountersGrant == CountersSpec => GrantsWithinLimit
  <1>1. ASSUME CountersInv, [CountersNext]_counterVars
        PROVE  [\A h \in Handlers : Counting(h, "consume") /\ counter' # counter => counted' <= Limit]_counterVars
    <2> SUFFICES ASSUME CountersNext, NEW h \in Handlers, Counting(h, "consume"), counter' # counter
                 PROVE  counted' <= Limit
      BY <1>1
    <2>1. holder = h /\ holder # None /\ job[h].op = "count"
      BY <1>1, HandlersAssumption DEF Counting, CountersInv, CounterHeld
    <2>2. \A k \in Handlers : job[k].op = "count" => k = h
      BY <1>1, <2>1 DEF CountersInv, CounterHeld
    <2>3. ConsumeRateLimit(h)
      <3>1. ~RecordCounted(h)
        BY DEF RecordCounted, Counting
      <3>2. \A k \in Handlers : (~ConsumeRateLimit(k) /\ ~RecordCounted(k)) \/ k = h
        BY Zenon, <2>2 DEF ConsumeRateLimit, RecordCounted, Counting
      <3> QED
        BY Zenon, <2>1, <3>1, <3>2 DEF CountersNext, BeginCount, CreateCounter, LoadCounter, ClearFailures,
           CounterHandlerFails, ClockTicks, CleanupSelect, PeekCounter, CleanupDelete
    <2>4. job[h].n \in Nat /\ Holds(job[h])
      BY Zenon, <1>1, <2>1, CountersJobs DEF CountersInv, CounterHeld
    <2>5. ~Rollback(h)
      BY Zenon DEF Rollback
    <2>6. /\ job[h].n < Limit
          /\ counted' = IF job[h].fresh /\ counter # NoRow /\ Late(counter, clock) THEN 1 ELSE counted + 1
      <3>1. ~(job[h].n >= Limit) /\ \E w \in Windows : Commit(h, IF job[h].fresh THEN job[h].at + w ELSE counter.until)
        BY Zenon, <2>3, <2>5 DEF ConsumeRateLimit
      <3> QED BY <2>4, <3>1, CountersAssumption DEF Commit
    <2>7. counted = IF counter = NoRow THEN 0 ELSE counter.n
      BY Zenon, <1>1 DEF CountersInv, RowCounts
    <2> QED BY <2>4, <2>6, <2>7, CountersAssumption DEF Holds
  <1> QED BY CountersBegin, CountersStep, <1>1, PTL DEF CountersSpec, GrantsWithinLimit

-----------------------------------------------------------------------------
(* Keyrings: a rotation loses no authenticator seed and no signature.      *)

\* A user row, or a copy of one, has its columns.
HasColumns(row) == {"nonce", "cipher"} \subseteq DOMAIN row /\ {"seed", "kek"} \subseteq DOMAIN row.cipher

\* The KEK side. A running rewrap moves envelopes to a KEK of the ring, because the ring
\* does not change under it; a stored envelope's KEK is in the ring.
KekInv ==
  /\ kekActive \in kekRing
  /\ DOMAIN columns = People /\ \A u \in People : HasColumns(columns[u])
  /\ DOMAIN waiting = People /\ \A u \in People : {"seed", "kek"} \subseteq DOMAIN waiting[u]
  /\ command.op = "rewrap" => /\ command.to \in kekRing
                              /\ \A u \in People : HasColumns(command.seen[u])
  /\ SecretsReadable

\* The ledger side. A row that a backfill is to sign is still without a key.
LedgerInv ==
  /\ ledgerActive \in ledgerRing
  /\ DOMAIN rowKey = LedgerRows
  /\ \A r \in LedgerRows : rowKey[r] \in LedgerKeys => rowKey[r] \in ledgerRing
  /\ command.op = "backfill" => \A r \in command.legacy : rowKey[r] = "legacy"

LEMMA KeyringsBegin == KeyringsInit => KekInv /\ LedgerInv
  <1> SUFFICES ASSUME KeyringsInit PROVE KekInv /\ LedgerInv
    OBVIOUS
  <1>1. KekInv
    BY DEF KeyringsInit, KekInv, HasColumns, NoColumns, NoEnvelope, NoCommand, SecretsReadable,
       IsEnveloped
  <1>2. LedgerInv
    BY KeyringsAssumption DEF KeyringsInit, LedgerInv, NoCommand
  <1> QED BY <1>1, <1>2

LEMMA KekUnchanged ==
  ASSUME KekInv, UNCHANGED keyVars, command' = command \/ command'.op # "rewrap"
  PROVE  KekInv'
  BY DEF KekInv, keyVars, SecretsReadable, DecryptsMfaSecret, IsEnveloped, HasColumns

\* A stored envelope that the ring opens, in one row.
LEMMA KekStore ==
  ASSUME KekInv, NEW u \in People, NEW row, HasColumns(row),
         IsEnveloped(row) => DecryptsMfaSecret(row.cipher),
         columns' = [columns EXCEPT ![u] = row],
         UNCHANGED <<kekRing, kekActive, command>>,
         DOMAIN waiting' = People, \A v \in People : {"seed", "kek"} \subseteq DOMAIN waiting'[v]
  PROVE  KekInv'
  <1>1. columns'[u] = row /\ \A v \in People : v # u => columns'[v] = columns[v]
    BY DEF KekInv
  <1>2. DOMAIN columns' = People /\ \A v \in People : HasColumns(columns'[v])
    BY <1>1 DEF KekInv
  <1>3. SecretsReadable'
    BY <1>1 DEF KekInv, SecretsReadable, DecryptsMfaSecret, IsEnveloped
  <1> QED BY ZenonT(30), <1>2, <1>3 DEF KekInv

LEMMA KekStep ==
  ASSUME KekInv, KekNext
  PROVE  KekInv'
  <1>1. ASSUME NEW u \in People, NEW s \in Seeds, GenerateMfaSetup(u, s)
        PROVE  KekInv'
    <2> DEFINE row == [nonce |-> TRUE, cipher |-> EncryptMfaSecret(s)]
    <2>1. HasColumns(row) /\ DecryptsMfaSecret(row.cipher)
      BY ZenonT(30) DEF HasColumns, EncryptMfaSecret, DecryptsMfaSecret, KekInv
    <2> QED BY Zenon, <1>1, <2>1, KekStore DEF GenerateMfaSetup, KekInv
  <1>2. ASSUME NEW u \in People, NEW s \in Seeds, GenerateMfaReplacement(u, s)
        PROVE  KekInv'
    BY <1>2 DEF GenerateMfaReplacement, EncryptMfaSecret, KekInv, SecretsReadable,
       DecryptsMfaSecret, HasColumns
  <1>3. ASSUME NEW u \in People, VerifyMfaSetup(u)
        PROVE  KekInv'
    BY <1>3 DEF VerifyMfaSetup, KekInv, SecretsReadable, DecryptsMfaSecret, HasColumns
  <1>4. ASSUME NEW u \in People, VerifyMfaReplacement(u)
        PROVE  KekInv'
    <2> DEFINE row == [nonce |-> TRUE, cipher |-> waiting[u]]
    <2>1. HasColumns(row) /\ DecryptsMfaSecret(row.cipher)
      BY ZenonT(30), <1>4 DEF HasColumns, VerifyMfaReplacement, KekInv
    <2>2. DOMAIN waiting' = People /\ \A v \in People : {"seed", "kek"} \subseteq DOMAIN waiting'[v]
      BY <1>4 DEF VerifyMfaReplacement, StoreReplacement, KekInv, NoEnvelope
    <2> QED BY Zenon, <1>4, <2>1, <2>2, KekStore DEF VerifyMfaReplacement, StoreReplacement
  <1>5. ASSUME NEW u \in People, DropReplacement(u)
        PROVE  KekInv'
    BY <1>5 DEF DropReplacement, KekInv, SecretsReadable, DecryptsMfaSecret, HasColumns, NoEnvelope
  <1>6. ASSUME NEW u \in People, ResetMfa(u)
        PROVE  KekInv'
    <2>1. HasColumns(NoColumns) /\ ~IsEnveloped(NoColumns)
      BY DEF HasColumns, NoColumns, NoEnvelope, IsEnveloped
    <2>2. DOMAIN waiting' = People /\ \A v \in People : {"seed", "kek"} \subseteq DOMAIN waiting'[v]
      BY <1>6 DEF ResetMfa, KekInv, NoEnvelope
    <2> QED BY Zenon, <1>6, <2>1, <2>2, KekStore DEF ResetMfa
  <1>7. ASSUME NEW from \in Keks, NEW to \in Keks, RewrapBegin(from, to)
        PROVE  KekInv'
    <2>1. UNCHANGED keyVars /\ command'.to = to /\ command'.seen = columns /\ to \in kekRing
      BY <1>7 DEF RewrapBegin, ValidateMfaRewrapPreflight
    <2>2. /\ \A u \in People : HasColumns(command'.seen[u])
          /\ command'.to \in kekRing'
      BY <2>1 DEF KekInv, keyVars
    <2> QED BY <2>1, <2>2 DEF KekInv, keyVars, SecretsReadable, DecryptsMfaSecret
  <1>8. CASE RewrapCommit
    <2>1. ASSUME NEW u \in People
          PROVE  HasColumns(columns'[u]) /\ (IsEnveloped(columns'[u]) => columns'[u].cipher.kek \in kekRing)
      <3>1. HasColumns(columns[u]) /\ HasColumns(command.seen[u]) /\ command.to \in kekRing
        BY <1>8 DEF RewrapCommit, KekInv
      <3>2. columns'[u] = columns[u] \/ columns'[u] = [columns[u] EXCEPT !.cipher = RewrapMfaDek(command.seen[u].cipher, command.to)]
        BY <1>8 DEF RewrapCommit, Rewrapped
      <3>3. CASE columns'[u] = columns[u]
        BY <3>1, <3>3 DEF KekInv, SecretsReadable, DecryptsMfaSecret
      <3>4. CASE columns'[u] = [columns[u] EXCEPT !.cipher = RewrapMfaDek(command.seen[u].cipher, command.to)]
        <4> DEFINE e == RewrapMfaDek(command.seen[u].cipher, command.to)
        <4>1. {"seed", "kek"} \subseteq DOMAIN e /\ e.kek = command.to
          BY <3>1 DEF HasColumns, RewrapMfaDek
        <4>2. columns'[u].cipher = e /\ {"nonce", "cipher"} \subseteq DOMAIN columns'[u]
          BY <3>1, <3>4 DEF HasColumns
        <4> QED BY <3>1, <4>1, <4>2 DEF HasColumns
      <3> QED BY <3>2, <3>3, <3>4
    <2>2. /\ DOMAIN columns' = People /\ UNCHANGED <<kekRing, kekActive, waiting>>
          /\ command'.op # "rewrap"
      BY <1>8 DEF RewrapCommit, NoCommand
    <2> QED BY <2>1, <2>2 DEF KekInv, SecretsReadable, DecryptsMfaSecret
  <1>9. CASE CommandRollsBack
    BY <1>9, KekUnchanged DEF CommandRollsBack, NoCommand
  <1>10. ASSUME NEW k \in Keks, AddKek(k) \/ ActivateKek(k)
         PROVE  KekInv'
    BY <1>10 DEF AddKek, ActivateKek, KekInv, SecretsReadable, DecryptsMfaSecret, NoCommand
  <1>11. ASSUME NEW k \in Keks, RemoveKek(k)
         PROVE  KekInv'
    BY <1>11 DEF RemoveKek, KekInv, SecretsReadable, DecryptsMfaSecret, NoCommand
  <1> QED BY <1>1, <1>2, <1>3, <1>4, <1>5, <1>6, <1>7, <1>8, <1>9, <1>10, <1>11 DEF KekNext

\* A signed row keeps its key, and the ring keeps the key.
RowsStand ==
  \A r \in LedgerRows : rowKey[r] \in LedgerKeys => rowKey'[r] = rowKey[r] /\ rowKey[r] \in ledgerRing'

LEMMA LedgerUnchanged ==
  ASSUME LedgerInv, UNCHANGED ledgerVars, command' = command \/ command'.op # "backfill"
  PROVE  LedgerInv' /\ RowsStand
  BY DEF LedgerInv, RowsStand, ledgerVars

LEMMA LedgerStep ==
  ASSUME LedgerInv, LedgerNext
  PROVE  LedgerInv' /\ RowsStand
  <1> USE KeyringsAssumption
  <1>1. ASSUME NEW r \in LedgerRows, RecordTransfer(r)
        PROVE  LedgerInv' /\ RowsStand
    BY <1>1 DEF RecordTransfer, LedgerInv, RowsStand
  <1>2. CASE BackfillBegin
    <2>1. UNCHANGED ledgerVars /\ \A r \in command'.legacy : rowKey[r] = "legacy"
      BY <1>2 DEF BackfillBegin
    <2> QED BY <2>1 DEF LedgerInv, RowsStand, ledgerVars
  <1>3. CASE BackfillCommit
    BY <1>3 DEF BackfillCommit, LedgerInv, RowsStand, NoCommand
  <1>4. CASE CommandRollsBack
    BY <1>4, LedgerUnchanged DEF CommandRollsBack, NoCommand
  <1>5. ASSUME NEW k \in LedgerKeys, AddLedgerKey(k) \/ ActivateLedgerKey(k) \/ RemoveLedgerKey(k)
        PROVE  LedgerInv' /\ RowsStand
    BY <1>5 DEF AddLedgerKey, ActivateLedgerKey, RemoveLedgerKey, LedgerInv, RowsStand, NoCommand
  <1> QED BY <1>1, <1>2, <1>3, <1>4, <1>5 DEF LedgerNext

\* The KEK's actions leave the ledger alone and start no backfill, and the reverse.
LEMMA KekLeavesLedger ==
  ASSUME KekNext
  PROVE  UNCHANGED ledgerVars /\ (command' = command \/ command'.op # "backfill")
  <1>1. ASSUME NEW u \in People, NEW s \in Seeds, GenerateMfaSetup(u, s) \/ GenerateMfaReplacement(u, s)
        PROVE  UNCHANGED ledgerVars /\ command' = command
    BY <1>1 DEF GenerateMfaSetup, GenerateMfaReplacement
  <1>2. ASSUME NEW u \in People,
               VerifyMfaSetup(u) \/ VerifyMfaReplacement(u) \/ DropReplacement(u) \/ ResetMfa(u)
        PROVE  UNCHANGED ledgerVars /\ command' = command
    BY <1>2 DEF VerifyMfaSetup, VerifyMfaReplacement, StoreReplacement, DropReplacement, ResetMfa
  <1>3. ASSUME NEW from \in Keks, NEW to \in Keks, RewrapBegin(from, to)
        PROVE  UNCHANGED ledgerVars /\ command'.op = "rewrap"
    BY <1>3 DEF RewrapBegin
  <1>4. CASE RewrapCommit \/ CommandRollsBack
    <2>1. UNCHANGED ledgerVars /\ command' = NoCommand
      BY <1>4 DEF RewrapCommit, CommandRollsBack
    <2> QED BY <2>1 DEF NoCommand
  <1>5. ASSUME NEW k \in Keks, AddKek(k) \/ ActivateKek(k) \/ RemoveKek(k)
        PROVE  UNCHANGED ledgerVars /\ command' = command
    BY <1>5 DEF AddKek, ActivateKek, RemoveKek
  <1> QED BY <1>1, <1>2, <1>3, <1>4, <1>5 DEF KekNext

LEMMA LedgerLeavesKek ==
  ASSUME LedgerNext
  PROVE  UNCHANGED keyVars /\ (command' = command \/ command'.op # "rewrap")
  <1>1. ASSUME NEW r \in LedgerRows, RecordTransfer(r)
        PROVE  UNCHANGED keyVars /\ command' = command
    BY <1>1 DEF RecordTransfer
  <1>2. CASE BackfillBegin
    <2>1. UNCHANGED keyVars /\ command'.op = "backfill"
      BY <1>2 DEF BackfillBegin
    <2> QED BY <2>1
  <1>3. CASE BackfillCommit \/ CommandRollsBack
    <2>1. UNCHANGED keyVars /\ command' = NoCommand
      BY <1>3 DEF BackfillCommit, CommandRollsBack
    <2> QED BY <2>1 DEF NoCommand
  <1>4. ASSUME NEW k \in LedgerKeys, AddLedgerKey(k) \/ ActivateLedgerKey(k) \/ RemoveLedgerKey(k)
        PROVE  UNCHANGED keyVars /\ command' = command
    BY <1>4 DEF AddLedgerKey, ActivateLedgerKey, RemoveLedgerKey
  <1> QED BY <1>1, <1>2, <1>3, <1>4 DEF LedgerNext

LEMMA KeyringsStep ==
  ASSUME KekInv, LedgerInv, [KeyringsNext]_keyringVars
  PROVE  KekInv' /\ LedgerInv' /\ RowsStand
  <1>1. CASE KekNext
    BY <1>1, KekStep, KekLeavesLedger, LedgerUnchanged
  <1>2. CASE LedgerNext
    BY <1>2, LedgerStep, LedgerLeavesKek, KekUnchanged
  <1>3. CASE UNCHANGED keyringVars
    BY <1>3, KekUnchanged, LedgerUnchanged DEF keyringVars
  <1> QED BY <1>1, <1>2, <1>3 DEF KeyringsNext

\* crypto.py and rewrap-mfa-deks, for any users and keys: every stored authenticator
\* envelope opens under the configured KEKs, whatever overlaps a rotation.
THEOREM KeyringsReadable == KeyringsSpec => []SecretsReadable
  <1>1. KeyringsInit => KekInv /\ LedgerInv
    BY KeyringsBegin
  <1>2. KekInv /\ LedgerInv /\ [KeyringsNext]_keyringVars => (KekInv /\ LedgerInv)'
    BY KeyringsStep
  <1>3. KekInv => SecretsReadable
    BY DEF KekInv
  <1> QED BY <1>1, <1>2, <1>3, PTL DEF KeyringsSpec

\* The ledger backfill and key rotation, for any rows and keys: a signed row keeps its
\* signature and its key stays in the ring.
THEOREM KeyringsSigned == KeyringsSpec => SignedRowsStand
  <1>1. KeyringsInit => KekInv /\ LedgerInv
    BY KeyringsBegin
  <1>2. KekInv /\ LedgerInv /\ [KeyringsNext]_keyringVars => (KekInv /\ LedgerInv)'
    BY KeyringsStep
  <1>3. KekInv /\ LedgerInv /\ [KeyringsNext]_keyringVars =>
          [\A r \in LedgerRows : rowKey[r] \in LedgerKeys =>
             rowKey'[r] = rowKey[r] /\ rowKey[r] \in ledgerRing']_keyringVars
    BY KeyringsStep DEF RowsStand
  <1> QED BY <1>1, <1>2, <1>3, PTL DEF KeyringsSpec, SignedRowsStand

-----------------------------------------------------------------------------
(* Cases: disputes and tickets.                                            *)

CasesJob ==
  {Idle} \cup [op : {"report", "file"}, kind : {"dispute"}, by : Reporters, of : Payments]
         \cup [op : {"report", "file"}, kind : {"ticket"}, by : Reporters, of : {None}]
         \cup [op : {"decide"}, case : Cases, by : Reviewers, from : Undecided \cup DecidedStatuses,
               to : Undecided \cup DecidedStatuses]

CasesTypes ==
  /\ filed \in [Cases -> DisputeRow \cup TicketRow \cup {NoRow}]
  /\ job \in [Handlers -> CasesJob]

\* A decision under way is a step of the table from the status that was read.
DecisionsAllowed ==
  \A h \in Handlers : job[h].op = "decide" =>
    /\ filed[job[h].case] # NoRow
    /\ job[h].to \in Moves(filed[job[h].case].kind)[job[h].from]
    /\ job[h].from \in DOMAIN Moves(filed[job[h].case].kind)

\* Two open reports of one transaction are the same report.
OpenReportsAgree == \A p \in Payments : \A d, e \in OpenOn(p) : d = e

\* The inductive invariant: the UPDATE that names the status it read would not be enough
\* by itself, the step it makes has to be one of the table for that status.
CasesInv == CasesTypes /\ DecisionsAllowed /\ OpenReportsAgree

LEMMA CasesBegin == CasesInit => CasesInv
  <1> SUFFICES ASSUME CasesInit PROVE CasesInv
    OBVIOUS
  <1>1. CasesTypes
    BY DEF CasesInit, CasesTypes, CasesJob
  <1>2. \A h \in Handlers : job[h].op = "idle"
    BY ZenonT(30) DEF CasesInit, Idle
  <1>3. DecisionsAllowed
    BY <1>2 DEF DecisionsAllowed
  <1>4. \A p \in Payments : OpenOn(p) = {}
    BY DEF CasesInit, OpenOn
  <1>5. OpenReportsAgree
    BY <1>4 DEF OpenReportsAgree
  <1> QED BY <1>1, <1>3, <1>5 DEF CasesInv

\* Decided statuses have no way out, and the table leads to statuses of its kind.
LEMMA TableEnds ==
  ASSUME NEW kind \in Kinds, NEW from \in DOMAIN Moves(kind), NEW to \in Moves(kind)[from]
  PROVE  /\ from \in Undecided /\ from \notin DecidedStatuses
         /\ to \in DOMAIN Moves(kind)
         /\ DOMAIN Moves(kind) \subseteq Undecided \cup DecidedStatuses
  <1>1. CASE kind = "dispute"
    BY <1>1 DEF Moves, DisputeMoves, Undecided, DecidedStatuses
  <1>2. CASE kind = "ticket"
    BY <1>2 DEF Moves, TicketMoves, Undecided, DecidedStatuses
  <1> QED BY <1>1, <1>2 DEF Kinds

LEMMA RowKinds ==
  ASSUME CasesTypes, NEW d \in Cases, filed[d] # NoRow
  PROVE  /\ filed[d] \in DisputeRow \cup TicketRow
         /\ filed[d].kind \in Kinds /\ filed[d].status \in DOMAIN Moves(filed[d].kind)
  BY ZenonT(30) DEF CasesTypes, DisputeRow, TicketRow, Kinds, Moves

\* Steps that leave the table alone and take up no decision keep the invariant.
LEMMA FiledUnchanged ==
  ASSUME CasesInv, filed' = filed, job' \in [Handlers -> CasesJob],
         \A h \in Handlers : job'[h].op = "decide" => job'[h] = job[h]
  PROVE  CasesInv'
  BY DEF CasesInv, CasesTypes, DecisionsAllowed, OpenReportsAgree, OpenOn

LEMMA CustomersKeep ==
  ASSUME CasesInv, NEW h \in Handlers,
         \/ \E u \in Reporters : FileTicket(h, u) \/ \E p \in Payments : FileDispute(h, u, p)
         \/ ConsumeReport(h) \/ CaseHandlerFails(h)
  PROVE  CasesInv'
  <1>1. ASSUME NEW u \in Reporters, FileTicket(h, u) PROVE CasesInv'
    BY ZenonT(30), <1>1, FiledUnchanged DEF FileTicket, Begin, CasesInv, CasesTypes, CasesJob
  <1>2. ASSUME NEW u \in Reporters, NEW p \in Payments, FileDispute(h, u, p) PROVE CasesInv'
    BY ZenonT(30), <1>2, FiledUnchanged DEF FileDispute, Begin, CasesInv, CasesTypes, CasesJob
  <1>3. CASE CaseHandlerFails(h)
    BY Zenon, <1>3, FiledUnchanged DEF CaseHandlerFails, Done, CasesInv, CasesTypes, CasesJob, Idle
  <1>4. CASE ConsumeReport(h)
    <2>1. job[h].op = "report" /\ filed' = filed
      BY ZenonT(30), <1>4 DEF ConsumeReport
    <2>2. CASE Done(h)
      BY ZenonT(30), <2>1, <2>2, FiledUnchanged DEF Done, CasesInv, CasesTypes, CasesJob, Idle
    <2>3. CASE job' = [job EXCEPT ![h].op = "file"]
      BY <2>1, <2>3, FiledUnchanged DEF CasesInv, CasesTypes, CasesJob, Idle
    <2> QED BY <1>4, <2>2, <2>3 DEF ConsumeReport
  <1> QED BY <1>1, <1>2, <1>3, <1>4

LEMMA ReadKeeps ==
  ASSUME CasesInv, NEW h \in Handlers, NEW s \in Reviewers, NEW d \in Cases,
         NEW to \in Undecided \cup DecidedStatuses, ReadCase(h, s, d, to)
  PROVE  CasesInv'
  <1>1. /\ filed[d].kind \in Kinds /\ filed[d].status \in DOMAIN Moves(filed[d].kind)
        /\ to \in Moves(filed[d].kind)[filed[d].status]
    BY ZenonT(30), RowKinds DEF ReadCase, CasesInv
  <1>2. filed[d].status \in Undecided \cup DecidedStatuses
    BY ZenonT(30), <1>1, TableEnds
  <1>3. job' \in [Handlers -> CasesJob]
    BY ZenonT(30), <1>2 DEF ReadCase, Begin, CasesInv, CasesTypes, CasesJob
  <1>4. DecisionsAllowed'
    BY Zenon, <1>1 DEF ReadCase, Begin, CasesInv, CasesTypes, DecisionsAllowed
  <1> QED BY ZenonT(30), <1>3, <1>4 DEF ReadCase, CasesInv, CasesTypes, OpenReportsAgree, OpenOn

\* The unique index refuses a second open report of a transaction.
LEMMA InsertKeeps ==
  ASSUME CasesInv, NEW h \in Handlers, NEW d \in Cases, InsertCase(h, d)
  PROVE  CasesInv'
  <1>1. /\ job' \in [Handlers -> CasesJob] /\ job'[h] = Idle /\ job'[h].op # "decide"
        /\ \A k \in Handlers : k # h => job'[k] = job[k]
    BY ZenonT(30) DEF InsertCase, Done, CasesInv, CasesTypes, CasesJob, Idle
  <1>2. CASE filed' = filed
    BY <1>1, <1>2, FiledUnchanged
  <1>3. CASE filed' # filed
    <2> DEFINE new == NewCase(job[h])
    <2>1. filed[d] = NoRow /\ filed' = [filed EXCEPT ![d] = new]
          /\ (job[h].kind = "dispute" => OpenOn(job[h].of) = {})
      BY <1>3 DEF InsertCase
    <2>2. new \in DisputeRow \cup TicketRow /\ new # NoRow /\ new.kind = job[h].kind /\ new.of = job[h].of
      <3>1. job[h] \in CasesJob /\ job[h].op = "file"
        BY ZenonT(30) DEF InsertCase, CasesInv, CasesTypes
      <3>2. /\ job[h].by \in Reporters
            /\ \/ job[h].kind = "dispute" /\ job[h].of \in Payments
               \/ job[h].kind = "ticket" /\ job[h].of = None
        <4>1. \/ job[h] \in [op : {"report", "file"}, kind : {"dispute"}, by : Reporters, of : Payments]
              \/ job[h] \in [op : {"report", "file"}, kind : {"ticket"}, by : Reporters, of : {None}]
          BY <3>1 DEF CasesJob, Idle
        <4> QED BY Zenon, <4>1
      <3>3. "open" \in DOMAIN DisputeMoves /\ "open" \in DOMAIN TicketMoves
        BY DEF DisputeMoves, TicketMoves
      <3>4. new = [kind |-> job[h].kind, by |-> job[h].by, of |-> job[h].of, status |-> "open", decider |-> None]
        BY ZenonT(30) DEF NewCase
      <3>5. new \in DisputeRow \cup TicketRow
        BY <3>2, <3>3, <3>4 DEF DisputeRow, TicketRow
      <3>6. new # NoRow
        BY SMTT(30), <3>4 DEF NoRow
      <3> QED BY <3>4, <3>5, <3>6
    <2> HIDE DEF new
    <2>3. CasesTypes'
      BY <1>1, <2>1, <2>2 DEF CasesInv, CasesTypes
    <2>4. DecisionsAllowed'
      BY ZenonT(30), <1>1, <2>1 DEF CasesInv, CasesTypes, CasesJob, DecisionsAllowed, Idle
    <2>5. OpenReportsAgree'
      BY <2>1, <2>2 DEF CasesInv, CasesTypes, OpenReportsAgree, OpenOn
    <2> QED BY ZenonT(30), <2>3, <2>4, <2>5 DEF CasesInv
  <1> QED BY <1>2, <1>3

\* What a decision does to its row, when it does anything.
LEMMA DecisionMoves ==
  ASSUME CasesInv, NEW h \in Handlers, DecideCase(h), filed' # filed
  PROVE  LET d == job[h].case IN
         /\ d \in Cases /\ filed[d] # NoRow /\ filed[d].kind \in Kinds
         /\ job[h].to \in Moves(filed[d].kind)[filed[d].status]
         /\ filed[d].status \in DOMAIN Moves(filed[d].kind)
         /\ filed' = [filed EXCEPT ![d].status = job[h].to, ![d].decider = job[h].by]
         /\ job[h].by \in Reviewers
  <1>1. job[h] \in CasesJob /\ job[h].op = "decide"
    BY ZenonT(30) DEF DecideCase, CasesInv, CasesTypes
  <1>2. job[h].case \in Cases /\ job[h].by \in Reviewers
    <2>1. job[h] # Idle /\ job[h].op \notin {"report", "file"}
      BY <1>1 DEF Idle
    <2>2. job[h] \in [op : {"decide"}, case : Cases, by : Reviewers, from : Undecided \cup DecidedStatuses,
                      to : Undecided \cup DecidedStatuses]
      BY Zenon, <1>1, <2>1 DEF CasesJob
    <2> QED BY Zenon, <2>2
  <1>3. filed[job[h].case].status = job[h].from
        /\ filed' = [filed EXCEPT ![job[h].case].status = job[h].to, ![job[h].case].decider = job[h].by]
    BY DEF DecideCase
  <1>4. filed[job[h].case] # NoRow /\ filed[job[h].case].kind \in Kinds
    BY <1>1, <1>2, RowKinds DEF CasesInv, DecisionsAllowed
  <1> QED BY <1>1, <1>2, <1>3, <1>4 DEF CasesInv, DecisionsAllowed

LEMMA DecideKeeps ==
  ASSUME CasesInv, NEW h \in Handlers, DecideCase(h)
  PROVE  CasesInv'
  <1>1. /\ job' \in [Handlers -> CasesJob] /\ job'[h] = Idle /\ job'[h].op # "decide"
        /\ \A k \in Handlers : k # h => job'[k] = job[k]
    BY DEF DecideCase, Done, CasesInv, CasesTypes, CasesJob, Idle
  <1>2. CASE filed' = filed
    BY <1>1, <1>2, FiledUnchanged
  <1>3. CASE filed' # filed
    <2> DEFINE d == job[h].case
               new == [filed[d] EXCEPT !.status = job[h].to, !.decider = job[h].by]
    <2>1. /\ d \in Cases /\ filed[d] # NoRow /\ filed[d].kind \in Kinds
          /\ job[h].to \in Moves(filed[d].kind)[filed[d].status]
          /\ filed[d].status \in DOMAIN Moves(filed[d].kind)
          /\ job[h].by \in Reviewers
      BY Zenon, <1>3, DecisionMoves
    <2>2. filed[d].status \in Undecided /\ job[h].to \in DOMAIN Moves(filed[d].kind)
      BY <2>1, TableEnds
    <2>3. filed' = [filed EXCEPT ![d] = new]
      BY ZenonT(30), <1>3, DecisionMoves DEF CasesInv, CasesTypes
    <2>4. /\ new \in DisputeRow \cup TicketRow /\ new # NoRow
          /\ new.kind = filed[d].kind /\ new.of = filed[d].of
      BY ZenonT(30), <2>1, <2>2, RowKinds DEF CasesInv, DisputeRow, TicketRow, Moves, NoRow
    <2> HIDE DEF new
    <2>5. CasesTypes'
      BY Zenon, <1>1, <2>1, <2>3, <2>4 DEF CasesInv, CasesTypes
    <2>6. DecisionsAllowed'
      BY ZenonT(30), <1>1, <2>1, <2>3, <2>4 DEF CasesInv, CasesTypes, CasesJob, DecisionsAllowed,
         Idle
    <2>7. \A p \in Payments : OpenOn(p)' \subseteq OpenOn(p)
      BY Zenon, <2>1, <2>2, <2>3, <2>4 DEF CasesInv, CasesTypes, OpenOn
    <2>8. OpenReportsAgree'
      BY <2>7 DEF CasesInv, OpenReportsAgree
    <2> QED BY <2>5, <2>6, <2>8 DEF CasesInv
  <1> QED BY <1>2, <1>3

LEMMA CasesStep == CasesInv /\ [CasesNext]_caseVars => CasesInv'
  <1> SUFFICES ASSUME CasesInv, [CasesNext]_caseVars PROVE CasesInv'
    OBVIOUS
  <1>1. ASSUME NEW u \in Reporters, NEW k \in Kinds, DayPasses(u, k) PROVE CasesInv'
    BY <1>1, FiledUnchanged DEF DayPasses, CasesInv, CasesTypes
  <1>2. CASE UNCHANGED caseVars
    BY <1>2, FiledUnchanged DEF caseVars, CasesInv, CasesTypes
  <1> QED BY <1>1, <1>2, CustomersKeep, ReadKeeps, InsertKeeps, DecideKeeps DEF CasesNext

\* At most one report of a transaction is open, whichever party files and however the two
\* submissions of transaction_dispute_create interleave with decisions.
THEOREM CasesOneOpen == CasesSpec => []OneOpenReport
  <1>1. CasesInv => OneOpenReport
    <2> SUFFICES ASSUME CasesInv, NEW p \in Payments PROVE Cardinality(OpenOn(p)) <= 1
      BY DEF OneOpenReport
    <2>1. CASE OpenOn(p) = {}
      BY <2>1, FS_EmptySet
    <2>2. ASSUME NEW d \in OpenOn(p) PROVE Cardinality(OpenOn(p)) <= 1
      <3>1. OpenOn(p) = {d}
        BY <2>2 DEF CasesInv, OpenReportsAgree
      <3> QED BY SMTT(30), <3>1, FS_Singleton
    <2> QED BY <2>1, <2>2
  <1> QED BY CasesBegin, CasesStep, <1>1, PTL DEF CasesSpec

\* A decision taken from a stale page never replaces a newer one, and no case moves except
\* along the transition tables of admin/services.py.
THEOREM CasesStand == CasesSpec => DecisionStands
  <1>1. ASSUME CasesInv, [CasesNext]_caseVars
        PROVE  [\A d \in Cases :
                  filed[d] # NoRow /\ filed'[d] # filed[d] =>
                    /\ filed[d].status \notin DecidedStatuses
                    /\ filed'[d].status \in Moves(filed[d].kind)[filed[d].status]]_caseVars
    <2> SUFFICES ASSUME CasesNext, NEW d \in Cases, filed[d] # NoRow, filed'[d] # filed[d]
                 PROVE  /\ filed[d].status \notin DecidedStatuses
                        /\ filed'[d].status \in Moves(filed[d].kind)[filed[d].status]
      BY <1>1
    <2>1. PICK h \in Handlers : DecideCase(h) \/ \E e \in Cases : InsertCase(h, e)
      BY Zenon DEF CasesNext, FileTicket, FileDispute, ReadCase, ConsumeReport, CaseHandlerFails,
         DayPasses
    <2>2. CASE DecideCase(h)
      <3>1. job[h].case = d
        BY Zenon, <1>1, <2>2, DecisionMoves DEF CasesInv, CasesTypes
      <3>2. /\ filed[d].kind \in Kinds /\ job[h].to \in Moves(filed[d].kind)[filed[d].status]
            /\ filed[d].status \in DOMAIN Moves(filed[d].kind)
            /\ filed' = [filed EXCEPT ![d].status = job[h].to, ![d].decider = job[h].by]
        BY Zenon, <1>1, <2>2, <3>1, DecisionMoves
      <3>3. filed[d] \in DisputeRow \cup TicketRow
        BY <1>1, RowKinds DEF CasesInv
      <3>4. filed'[d].status = job[h].to
        BY <1>1, <3>2, <3>3 DEF CasesInv, CasesTypes, DisputeRow, TicketRow
      <3> QED BY <3>2, <3>4, TableEnds
    <2>3. ASSUME NEW e \in Cases, InsertCase(h, e) PROVE FALSE
      BY <1>1, <2>3 DEF InsertCase, CasesInv, CasesTypes
    <2> QED BY <2>1, <2>2, <2>3
  <1> QED BY CasesBegin, CasesStep, <1>1, PTL DEF CasesSpec, DecisionStands
=============================================================================
