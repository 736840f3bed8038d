------------------------------- MODULE Payees -------------------------------
(* One customer's payees and the local transfers to them (app/banking/routes.py *)
(* and services.py): add in two steps, remove, submit and confirm a transfer.   *)
(*                                                                              *)
(* What waits for confirmation is kept in the web session. A request works on   *)
(* the copy it loaded and its response stores the whole copy, so overlapping    *)
(* requests overwrite each other's changes: the last response wins, or the      *)
(* session is lost, since an authorised request moves it to a new id.           *)
EXTENDS Naturals, Workers

CONSTANTS Accounts,   \* account numbers of other customers
          PayeeIds,   \* values of the payees.id sequence, used once each
          Tokens,     \* confirmation tokens, used once each
          Cooldown,   \* PAYEE_COOLDOWN_SECONDS
          PendingTtl, \* lifetime of a pending payee and of a pending transfer
          MaxTime     \* bound on the clock

ASSUME PayeesAssumption == {Cooldown, PendingTtl, MaxTime} \subseteq Nat

VARIABLES payee,    \* payees rows
          deleted,  \* ids of removed rows
          pend,     \* pending_transfers rows, by token
          ledger,   \* completed local transfers: token, payee_id, the payee_id signed, time
          paid,     \* transfers made with each token
          web,      \* the session's pending_payee and pending_transfer_token
          time

payeeVars == <<payee, deleted, pend, ledger, paid, web, time, job>>

NoPending == [account |-> None]
PayeeRow == [status : {"payee"}, account : Accounts, at : 0..MaxTime]
PendRow == [status : {"pending"}, payee : PayeeIds, until : 0..(MaxTime + PendingTtl), consumed : BOOLEAN]
LedgerRow == [token : Tokens, payee : PayeeIds \cup {None}, signed : PayeeIds, waited : 0..MaxTime]
WebData == [payee : {NoPending} \cup [account : Accounts, until : 0..(MaxTime + PendingTtl)],
            token : Tokens \cup {None}]

PayeesInit ==
  /\ payee = [i \in PayeeIds |-> NoRow]
  /\ deleted = {}
  /\ pend = [t \in Tokens |-> NoRow]
  /\ ledger = {}
  /\ paid = [t \in Tokens |-> 0]
  /\ web = [payee |-> NoPending, token |-> None]
  /\ time = 0
  /\ job = [h \in Handlers |-> Idle]

Known(a) == \E i \in PayeeIds : payee[i] # NoRow /\ payee[i].account = a

\* The response stores the request's copy of the session.
Answer(h) ==
  /\ job[h].op = "answer"
  /\ web' = job[h].copy
  /\ Done(h)
  /\ UNCHANGED <<payee, deleted, pend, ledger, paid, time>>

Answering(h, copy) == Continue(h, [op |-> "answer", copy |-> copy])

-----------------------------------------------------------------------------
(* Adding a payee.                                                            *)

\* payees_add_submit asks for a TOTP code before it looks the account up ...
AddBegin(h, a) ==
  /\ Begin(h, [op |-> "add", account |-> a, copy |-> web])
  /\ UNCHANGED <<payee, deleted, pend, ledger, paid, web, time>>

\* Mutant: the pending payee never gets too old.
AddSubmitForever(h) ==
  /\ job[h].op = "add"
  /\ Answering(h, IF Known(job[h].account) THEN job[h].copy
                  ELSE [job[h].copy EXCEPT !.payee = [account |-> job[h].account,
                                                      until |-> MaxTime + PendingTtl + 1]])
  /\ UNCHANGED <<payee, deleted, pend, ledger, paid, web, time>>

\* ... and leaves the account in the session.
AddSubmit(h) ==
  /\ job[h].op = "add"
  /\ Answering(h, IF Known(job[h].account) THEN job[h].copy
                  ELSE [job[h].copy EXCEPT !.payee = [account |-> job[h].account,
                                                      until |-> time + PendingTtl]])
  /\ UNCHANGED <<payee, deleted, pend, ledger, paid, web, time>>

\* payees_confirm_submit takes the pending payee out of its copy; the same look at
\* the expiry is made by payees_confirm. Nothing is known of the account yet.
ConfirmPayee(h) ==
  LET asked == web.payee
      copy == [web EXCEPT !.payee = NoPending]
  IN /\ asked # NoPending
     /\ IF time > asked.until \/ Known(asked.account)
          THEN Begin(h, [op |-> "answer", copy |-> copy])
          ELSE Begin(h, [op |-> "insert", account |-> asked.account, copy |-> copy])
     /\ UNCHANGED <<payee, deleted, pend, ledger, paid, web, time>>

\* The insert and its required audit row; uq_payees_user_account stops a second one.
InsertPayee(h, i) ==
  /\ job[h].op = "insert" /\ payee[i] = NoRow /\ i \notin deleted
  /\ payee' = IF Known(job[h].account) THEN payee
              ELSE [payee EXCEPT ![i] = [status |-> "payee", account |-> job[h].account, at |-> time]]
  /\ Answering(h, job[h].copy)
  /\ UNCHANGED <<deleted, pend, ledger, paid, web, time>>

CancelPayee(h) ==
  /\ web.payee # NoPending
  /\ Begin(h, [op |-> "answer", copy |-> [web EXCEPT !.payee = NoPending]])
  /\ UNCHANGED <<payee, deleted, pend, ledger, paid, web, time>>

-----------------------------------------------------------------------------
(* Removing a payee: the row is loaded, the TOTP code's commit forgets it.    *)

RemoveBegin(h, i) ==
  /\ payee[i] # NoRow
  /\ Begin(h, [op |-> "remove", id |-> i, copy |-> web])
  /\ UNCHANGED <<payee, deleted, pend, ledger, paid, web, time>>

\* Mutant: the pending transfers of the payee are detached as well.
Unreferenced(i) == TRUE

\* The ORM sets payee_id of the payee's pending transfers to NULL, which the column
\* does not allow: a payee to whom a transfer was ever submitted cannot be removed.
Removable(i) == \A t \in Tokens : pend[t] = NoRow \/ pend[t].payee # i

\* The row's transactions keep their data and lose their payee_id.
RemoveCommit(h) ==
  /\ job[h].op = "remove"
  /\ LET i == job[h].id IN
       IF payee[i] # NoRow /\ Removable(i)
         THEN /\ payee' = [payee EXCEPT ![i] = NoRow]
              /\ deleted' = deleted \cup {i}
              /\ ledger' = {[r EXCEPT !.payee = IF @ = i THEN None ELSE @] : r \in ledger}
         ELSE UNCHANGED <<payee, deleted, ledger>>
  /\ Answering(h, job[h].copy)
  /\ UNCHANGED <<pend, paid, web, time>>

-----------------------------------------------------------------------------
(* Transfers to a payee.                                                      *)

\* _cooldown_status, _ensure_payee_cooldown_elapsed
Cooled(row) == time >= row.at + Cooldown

TransferBegin(h, i) ==
  /\ payee[i] # NoRow /\ Cooled(payee[i])
  /\ Begin(h, [op |-> "submit", id |-> i, copy |-> web])
  /\ UNCHANGED <<payee, deleted, pend, ledger, paid, web, time>>

\* After the TOTP code the pending row is inserted (its payee must exist) and the
\* token replaces the one in the session.
TransferPend(h, t) ==
  /\ job[h].op = "submit" /\ pend[t] = NoRow
  /\ payee[job[h].id] # NoRow
  /\ pend' = [pend EXCEPT ![t] = [status |-> "pending", payee |-> job[h].id,
                                  until |-> time + PendingTtl, consumed |-> FALSE]]
  /\ Answering(h, [job[h].copy EXCEPT !.token = t])
  /\ UNCHANGED <<payee, deleted, ledger, paid, web, time>>

\* transfer_confirm_submit takes the token out of its copy and loads the payee.
TransferConfirm(h, i) ==
  LET copy == [web EXCEPT !.token = None] IN
    /\ web.token # None
    /\ IF payee[i] # NoRow /\ Cooled(payee[i])
         THEN Begin(h, [op |-> "execute", id |-> i, token |-> web.token, copy |-> copy])
         ELSE Begin(h, [op |-> "answer", copy |-> copy])
    /\ UNCHANGED <<payee, deleted, pend, ledger, paid, web, time>>

\* _load_pending_local_transfer
Unconsumed(row, i) == row.payee = i /\ ~row.consumed /\ time <= row.until

\* execute_local_transfer from the locked load of the pending row to the commit. The
\* payee, read before, may be gone: then the ledger row cannot be inserted.
TransferExecute(h) ==
  /\ job[h].op = "execute"
  /\ LET t == job[h].token
         i == job[h].id
         ok == Unconsumed(pend[t], i) /\ payee[i] # NoRow
     IN IF ok
          THEN /\ pend' = [pend EXCEPT ![t].consumed = TRUE]
               /\ ledger' = ledger \cup {[token |-> t, payee |-> i, signed |-> i,
                                          waited |-> time - payee[i].at]}
               /\ paid' = [paid EXCEPT ![t] = @ + 1]
          ELSE UNCHANGED <<pend, ledger, paid>>
  /\ Answering(h, job[h].copy)
  /\ UNCHANGED <<payee, deleted, web, time>>

\* A refusal after that load (balance, daily limit) commits its audit row, and the
\* consumption with it. _reject_local_transfer
TransferRefused(h) ==
  /\ job[h].op = "execute" /\ Unconsumed(pend[job[h].token], job[h].id)
  /\ pend' = [pend EXCEPT ![job[h].token].consumed = TRUE]
  /\ Answering(h, job[h].copy)
  /\ UNCHANGED <<payee, deleted, ledger, paid, web, time>>

\* A refused code, a failed audit row or a dying worker: the error response still
\* stores the session, a dead worker does not.
PayeeHandlerFails(h) ==
  /\ ~Free(h)
  /\ Done(h)
  /\ web' \in {web, job[h].copy}
  /\ UNCHANGED <<payee, deleted, pend, ledger, paid, time>>

\* The session ends and the customer signs in again.
PayeeSignIn ==
  /\ web' = [payee |-> NoPending, token |-> None]
  /\ UNCHANGED <<payee, deleted, pend, ledger, paid, time, job>>

PayeeTimePasses ==
  /\ time < MaxTime /\ time' = time + 1
  /\ UNCHANGED <<payee, deleted, pend, ledger, paid, web, job>>

PayeesNext ==
  \/ \E h \in Handlers :
       \/ Answer(h) \/ AddSubmit(h) \/ ConfirmPayee(h) \/ CancelPayee(h)
       \/ RemoveCommit(h) \/ TransferExecute(h) \/ TransferRefused(h) \/ PayeeHandlerFails(h)
       \/ \E a \in Accounts : AddBegin(h, a)
       \/ \E i \in PayeeIds : InsertPayee(h, i) \/ RemoveBegin(h, i) \/ TransferBegin(h, i) \/ TransferConfirm(h, i)
       \/ \E t \in Tokens : TransferPend(h, t)
  \/ PayeeSignIn \/ PayeeTimePasses

PayeesSpec == PayeesInit /\ [][PayeesNext]_payeeVars

-----------------------------------------------------------------------------

\* Types of the rows and the session; what is pending expires within its lifetime of the
\* clock's bound.
PayeesTypeOK ==
  /\ payee \in [PayeeIds -> PayeeRow \cup {NoRow}]
  /\ deleted \subseteq PayeeIds
  /\ pend \in [Tokens -> PendRow \cup {NoRow}]
  /\ ledger \subseteq LedgerRow
  /\ web \in WebData

\* A completed transfer stands as it was confirmed. Its payee's cooldown was over (one
\* removed and added again waits again); its token moved money once, however many overlapping requests held it; and its
\* payee_id, which the signature covers (transaction_integrity.py), never changes,
\* although payees are removed and the foreign key is ON DELETE SET NULL.
LedgerAsConfirmed ==
  /\ \A r \in ledger : r.waited >= Cooldown /\ r.payee = r.signed
  /\ \A t \in Tokens : paid[t] <= 1
=============================================================================
