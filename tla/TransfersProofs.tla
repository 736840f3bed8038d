-------------------------- MODULE TransfersProofs --------------------------
(***************************************************************************)
(* What holds of Transfers for any number of accounts, requests, tokens,   *)
(* amounts and days.  Liveness is left to TLC.                             *)
(***************************************************************************)
EXTENDS Transfers, WellFoundedInduction, TLAPS

\* Every order names two accounts and a positive amount.
LEMMA OrderFacts ==
    ASSUME NEW t \in Tokens
    PROVE  /\ Order[t].from \in Accounts /\ Order[t].to \in Accounts
           /\ Order[t].amount \in Nat /\ Order[t].amount > 0
           /\ Order[t].chan \in Channels \cup {"topup"}
           /\ (Order[t].from = Order[t].to) <=> (Order[t].chan = "topup")
  BY OrderTypes DEF Orders, Channels

\* The rows every session starts from are users rows.
LEMMA OpeningRowsType == OpeningRows \in [Accounts -> UserRows]
  BY OpeningType, LimitTypes DEF OpeningRows, UserRows

\* Ending a session keeps the types of what it resets and releases.
LEMMA EndSessionType ==
    ASSUME TypeOK, NEW r \in Requests, EndSession(r)
    PROVE  /\ rowLock' \in [Accounts -> Requests \cup {Free}]
           /\ tokLock' \in [Tokens -> Requests \cup {Free}]
           /\ auditLock' \in Requests \cup {Free}
           /\ seen' \in [Requests -> [Accounts -> UserRows]]
  BY OpeningRowsType DEF TypeOK, EndSession

\* The transaction a request records is one.
LEMMA LedgerRowType ==
    ASSUME TypeOK, NEW r \in Requests, NEW d \in 0 .. MaxDay
    PROVE  LedgerRow(r, d) \in LedgerRows
<1>1. work[r].tok \in Tokens /\ work[r].authorized \in BOOLEAN
  BY DEF TypeOK, Works
<1>2. ASSUME OrderOf(r).chan # "topup"
      PROVE  seen[r][OrderOf(r).from].limit[OrderOf(r).chan] \in Nat
  <2>1. OrderOf(r).from \in Accounts /\ OrderOf(r).chan \in Channels
    BY <1>1, <1>2, OrderFacts DEF OrderOf
  <2>2. seen[r][OrderOf(r).from].limit \in [Channels -> Nat]
    BY <2>1, LimitTypes DEF TypeOK, UserRows
  <2>3. QED BY <2>1, <2>2
<1>3. QED BY <1>1, <1>2 DEF LedgerRow, LedgerRows

\* Moving money keeps balances integers.
LEMMA MovedType ==
    ASSUME TypeOK, NEW r \in Requests
    PROVE  Moved(r) \in [Accounts -> UserRows]
<1>1. work[r].tok \in Tokens
  BY DEF TypeOK, Works
<1>2. /\ OrderOf(r).from \in Accounts /\ OrderOf(r).to \in Accounts
      /\ OrderOf(r).amount \in Nat
  BY <1>1, OrderFacts DEF OrderOf
<1>3. /\ seen[r][OrderOf(r).from].balance \in Int
      /\ seen[r][OrderOf(r).to].balance \in Int
  BY <1>2 DEF TypeOK, UserRows
<1>4. ASSUME NEW rows \in [Accounts -> UserRows], NEW a \in Accounts, NEW n \in Int
      PROVE  [rows EXCEPT ![a].balance = n] \in [Accounts -> UserRows]
  BY DEF UserRows
<1> DEFINE x == seen[r][OrderOf(r).from].balance - OrderOf(r).amount
           y == seen[r][OrderOf(r).to].balance + OrderOf(r).amount
           debited == [users EXCEPT ![OrderOf(r).from].balance = x]
<1>5. Moved(r) = [debited EXCEPT ![OrderOf(r).to].balance = y]
  BY DEF Moved
<1>6. x \in Int /\ y \in Int
  BY <1>2, <1>3
<1>7. users \in [Accounts -> UserRows]
  BY DEF TypeOK
<1> HIDE DEF x, y
<1>8. debited \in [Accounts -> UserRows]
  BY <1>2, <1>4, <1>6, <1>7
<1> HIDE DEF debited
<1>9. QED BY <1>2, <1>4, <1>5, <1>6, <1>8

\* Every step of every request keeps the types.
LEMMA TypeStep == TypeOK /\ [Next]_vars => TypeOK'
<1> SUFFICES ASSUME TypeOK, [Next]_vars PROVE TypeOK'
  OBVIOUS
<1> USE DEF TypeOK, locks, GoTo
<1>1. ASSUME NEW t \in Tokens,
             SubmitLocal(t) \/ SubmitPayup(t) \/ SubmitTopUp(t) \/ Expire(t)
      PROVE  TypeOK'
  BY Zenon, <1>1 DEF SubmitLocal, SubmitPayup, SubmitTopUp, Offer, Expire, TokenStates
<1>2. ASSUME NEW r \in Requests, Start(r) PROVE TypeOK'
  <2> PICK t \in Tokens : StartLocal(r, t) \/ StartPayup(r, t) \/ StartTopUp(r, t)
    BY <1>2 DEF Start
  <2>1. Order[t].from \in Accounts /\ Order[t].to \in Accounts
    BY OrderFacts
  <2>2. CASE StartLocal(r, t)
    BY Zenon, <2>1, <2>2 DEF StartLocal, Load, Works, Stages
  <2>3. CASE StartPayup(r, t)
    <3>1. \E b \in BOOLEAN : work' = [work EXCEPT ![r].tok = t, ![r].authorized = b]
      <4>1. PICK asked \in {FALSE, /\ Remains(t)
                                  /\ RequiresStepUp(Order[t].amount,
                                                    UsedOn(day, Order[t].from, "payup"))} :
               work' = [work EXCEPT ![r].tok = t, ![r].authorized = asked]
        BY <2>3, Zenon DEF StartPayup
      <4>2. asked \in BOOLEAN
        BY <4>1, Zenon DEF Remains, RequiresStepUp
      <4>3. QED BY <4>1, <4>2, Zenon
    <3>2. work' \in [Requests -> Works]
      <4>1. ASSUME NEW b \in BOOLEAN,
                   work' = [work EXCEPT ![r].tok = t, ![r].authorized = b]
            PROVE  work' \in [Requests -> Works]
        BY <4>1, ZenonT(60) DEF Works
      <4>2. QED BY <3>1, <4>1, Zenon
    <3>3. /\ pc' = [pc EXCEPT ![r] = "load"]
          /\ UNCHANGED <<users, pending, ledger, locks, seen, day>>
      BY <2>3, Zenon DEF StartPayup
    <3>4. QED BY <3>2, <3>3 DEF Stages
  <2>4. CASE StartTopUp(r, t)
    <3>1. work' \in [Requests -> Works]
      BY ZenonT(60), <2>4 DEF StartTopUp, Works
    <3>2. seen' \in [Requests -> [Accounts -> UserRows]]
      BY <2>1, <2>4, ZenonT(60) DEF StartTopUp, Load
    <3>3. tokLock' \in [Tokens -> Requests \cup {Free}]
      BY <2>4, ZenonT(60) DEF StartTopUp
    <3>4. pc' \in [Requests -> Stages]
      BY <2>4, ZenonT(60) DEF StartTopUp, Stages
    <3>5. UNCHANGED <<users, pending, ledger, rowLock, auditLock, day>>
      BY <2>4, ZenonT(60) DEF StartTopUp
    <3>6. QED BY <3>1, <3>2, <3>3, <3>4, <3>5
  <2>5. QED BY <2>2, <2>3, <2>4
<1>3. ASSUME NEW r \in Requests, Step(r) PROVE TypeOK'
  <2>1. work[r].tok \in Tokens
    BY DEF Works
  <2>2. /\ OrderOf(r).from \in Accounts /\ OrderOf(r).to \in Accounts
        /\ OrderOf(r).amount \in Nat
    BY <2>1, OrderFacts DEF OrderOf
  <2>3. CASE LoadLocalRecipient(r)
    <3> DEFINE late == pending[work[r].tok] = "expired"
    <3>1. late \in BOOLEAN
      OBVIOUS
    <3>2. work' = [work EXCEPT ![r].late = late]
      BY <2>3 DEF LoadLocalRecipient
    <3> HIDE DEF late
    <3>3. work' \in [Requests -> Works]
      BY <3>1, <3>2 DEF Works
    <3>4. QED BY <2>2, <2>3, <3>3 DEF LoadLocalRecipient, Load, Stages
  <2>4. CASE LoadPayupSender(r)
    BY Zenon, <2>2, <2>4 DEF LoadPayupSender, Load, Stages
  <2>5. CASE LockPending(r)
    <3>1. ASSUME NEW b \in BOOLEAN, work' = [work EXCEPT ![r].consumed = b]
          PROVE  work' \in [Requests -> Works]
      BY <3>1 DEF Works
    <3>2. work' = work \/ \E b \in BOOLEAN : work' = [work EXCEPT ![r].consumed = b]
      BY <2>5, Zenon DEF LockPending
    <3>3. work' \in [Requests -> Works]
      BY <3>1, <3>2, Zenon
    <3>4. /\ tokLock' \in [Tokens -> Requests \cup {Free}]
          /\ pc' \in [Requests -> Stages]
      BY <2>1, <2>5, ZenonT(60) DEF LockPending, Stages
    <3>5. UNCHANGED <<users, pending, ledger, rowLock, auditLock, seen, day>>
      BY <2>5, Zenon DEF LockPending
    <3>6. QED BY <3>3, <3>4, <3>5
  <2>6. CASE LoadPayupRecipient(r)
    BY <2>2, <2>6 DEF LoadPayupRecipient, Load, Stages
  <2>7. CASE LockFirst(r) \/ LockSecond(r)
    BY Zenon, <2>7 DEF LockFirst, LockSecond, LockParticipant, Stages
  <2>8. CASE CheckLocal(r) \/ CheckPayup(r)
    BY <2>8 DEF CheckLocal, CheckPayup, Stages
  <2>9. CASE Sign(r)
    BY ZenonT(30), <2>9 DEF Sign, Works, Stages
  <2>10. CASE CommitTransfer(r)
    BY <2>1, <2>10, MovedType, LedgerRowType, EndSessionType DEF CommitTransfer, Works, Stages,
       Finished, TokenStates
  <2>11. CASE RejectTakeAuditLock(r) \/ TopUpTakeAuditLock(r)
    BY <2>11 DEF RejectTakeAuditLock, TopUpTakeAuditLock, Stages
  <2>12. CASE RejectCommit(r)
    BY <2>1, <2>12, EndSessionType DEF RejectCommit, Stages, Finished, TokenStates
  <2>13. CASE TopUpCredit(r)
    <3>1. seen[r][OrderOf(r).to].balance \in Int
      BY <2>2 DEF UserRows
    <3>2. users' \in [Accounts -> UserRows]
      <4> DEFINE n == seen[r][OrderOf(r).to].balance + OrderOf(r).amount
      <4>1. users' = users \/ users' = [users EXCEPT ![OrderOf(r).to].balance = n]
        BY <2>13 DEF TopUpCredit
      <4>2. n \in Int
        BY <2>2, <3>1
      <4> HIDE DEF n
      <4>3. QED BY ZenonT(30), <2>2, <4>1, <4>2 DEF UserRows
    <3>3. ledger' \subseteq LedgerRows
      BY <2>13, LedgerRowType DEF TopUpCredit
    <3>4. QED
      BY Zenon, <2>1, <2>13, <3>2, <3>3, EndSessionType DEF TopUpCredit, Stages, Finished,
         TokenStates
  <2>14. QED
    BY <1>3, <2>3, <2>4, <2>5, <2>6, <2>7, <2>8, <2>9, <2>10, <2>11, <2>12, <2>13 DEF Step
<1>4. ASSUME NEW r \in Requests, RejectAuditFails(r) \/ DeadlockAbort(r) \/ Fail(r)
      PROVE  TypeOK'
  BY Zenon, <1>4, EndSessionType DEF RejectAuditFails, DeadlockAbort, Fail, Stages, Finished
<1>5. ASSUME NEW a \in Accounts, Freeze(a) PROVE TypeOK'
  BY Zenon, <1>5 DEF Freeze, UserRows
<1>6. ASSUME NEW a \in Accounts, NEW l \in Limits, ChangeLimits(a, l) PROVE TypeOK'
  BY Zenon, <1>6 DEF ChangeLimits, UserRows
<1>7. CASE Midnight
  BY <1>7, CapTypes DEF Midnight
<1>8. CASE UNCHANGED vars
  BY <1>8 DEF vars
<1>9. QED
  BY <1>1, <1>2, <1>3, <1>4, <1>5, <1>6, <1>7, <1>8 DEF Next

\* Every variable has its type in every reachable state of the requests.
THEOREM TypeCorrect == Spec => []TypeOK
<1>1. Init => TypeOK
  BY OpeningRowsType, OrderTypes, CapTypes DEF Init, TypeOK, TokenStates, Works, Stages
<1>2. QED BY <1>1, TypeStep, PTL DEF Spec

----------------------------------------------------------------------------
(* Tokens.  TokenSpentOnce is not inductive: a state in which two requests  *)
(* are past the pending row of one token has no transaction yet.  The       *)
(* strengthening says who may be past it: the holder of the row's lock,     *)
(* while the row is unconsumed.                                             *)

\* Where a request has not locked its pending row yet.
Early == {"idle", "load", "recipient", "pending"}

\* Where a request goes on to a transaction, and where it has been refused.
Late == {"payup_recipient", "first", "second", "check", "sign", "commit",
         "topup_audit", "topup_credit"}
Refused == {"reject", "reject_insert"}

\* r is going to consume its token.
Owns(r) == pc[r] \in Late \/ (pc[r] \in Refused /\ work[r].consumed)

Live(t) == pending[t] \in {"open", "expired"}

Held(r) ==
    /\ pc[r] \in Early => ~work[r].consumed
    /\ pc[r] \in Early \ {"idle"} => pending[work[r].tok] # "absent"
    /\ Owns(r) => tokLock[work[r].tok] = r /\ Live(work[r].tok)

TokenHeld == \A r \in Requests : Held(r)

TokenInv == TypeOK /\ TokenSpentOnce /\ TokenHeld

\* A step of request r that leaves pending rows and the ledger alone, and that
\* takes no lock from another request, keeps the tokens of the others.
LEMMA OthersKeep ==
    ASSUME TokenInv, NEW r \in Requests,
           UNCHANGED <<pending, ledger>>,
           \A q \in Requests \ {r} : pc'[q] = pc[q] /\ work'[q] = work[q],
           \A t \in Tokens : tokLock[t] \notin {r, Free} => tokLock'[t] = tokLock[t]
    PROVE  /\ TokenSpentOnce'
           /\ \A q \in Requests \ {r} : Held(q)'
<1>1. TokenSpentOnce'
  BY DEF TokenInv, TokenSpentOnce
<1>2. ASSUME NEW q \in Requests \ {r} PROVE Held(q)'
  <2>1. work[q].tok \in Tokens /\ q # Free
    BY FreeIsNobody DEF TokenInv, TypeOK, Works
  <2>2. pc'[q] = pc[q] /\ work'[q] = work[q]
    BY <1>2
  <2>3. pc'[q] \in Early => ~work'[q].consumed
    BY <2>2, Zenon DEF TokenInv, TokenHeld, Held
  <2>4. pc'[q] \in Early \ {"idle"} => pending'[work'[q].tok] # "absent"
    BY <2>2, Zenon DEF TokenInv, TokenHeld, Held
  <2>5. Owns(q)' => Owns(q)
    BY <2>2, Zenon DEF Owns
  <2>6. Owns(q) => tokLock[work[q].tok] = q /\ Live(work[q].tok)
    BY DEF TokenInv, TokenHeld, Held
  <2>7. Owns(q) => tokLock'[work'[q].tok] = q /\ Live(work[q].tok)'
    BY <2>1, <2>2, <2>6 DEF Live
  <2>8. QED BY <2>3, <2>4, <2>5, <2>7, Zenon DEF Held
<1>3. QED BY <1>1, <1>2

\* The same when r consumes the token it owns.
LEMMA OthersKeepConsumed ==
    ASSUME TokenInv, NEW r \in Requests, Owns(r),
           pending' = [pending EXCEPT ![work[r].tok] = "consumed"],
           \A q \in Requests \ {r} : pc'[q] = pc[q],
           work' = work,
           \A t \in Tokens : tokLock[t] \notin {r, Free} => tokLock'[t] = tokLock[t]
    PROVE  \A q \in Requests \ {r} : Held(q)'
<1> SUFFICES ASSUME NEW q \in Requests \ {r} PROVE Held(q)'
  OBVIOUS
<1>1. /\ work[q].tok \in Tokens /\ work[r].tok \in Tokens /\ q # Free
      /\ pending \in [Tokens -> TokenStates]
  BY FreeIsNobody DEF TokenInv, TypeOK, Works
<1>2. tokLock[work[r].tok] = r
  BY DEF TokenInv, TokenHeld, Held
<1>3. Owns(q) => work[q].tok # work[r].tok
  BY <1>2 DEF TokenInv, TokenHeld, Held
<1>4. pc'[q] = pc[q] /\ work'[q] = work[q]
  OBVIOUS
<1>5. pc'[q] \in Early => ~work'[q].consumed
  BY <1>4, Zenon DEF TokenInv, TokenHeld, Held
<1>6. pc'[q] \in Early \ {"idle"} => pending'[work'[q].tok] # "absent"
  BY <1>1, <1>4 DEF TokenInv, TokenHeld, Held
<1>7. Owns(q)' => Owns(q)
  BY <1>4, Zenon DEF Owns
<1>8. Owns(q) => tokLock[work[q].tok] = q /\ Live(work[q].tok)
  BY DEF TokenInv, TokenHeld, Held
<1>9. Owns(q) => tokLock'[work'[q].tok] = q /\ Live(work[q].tok)'
  BY <1>1, <1>3, <1>4, <1>8 DEF Live
<1>10. QED BY <1>5, <1>6, <1>7, <1>9, Zenon DEF Held

\* Ending the session of r releases no lock of another request.
LEMMA EndSessionKeeps ==
    ASSUME TypeOK, NEW r \in Requests, EndSession(r)
    PROVE  \A t \in Tokens : tokLock[t] \notin {r, Free} => tokLock'[t] = tokLock[t]
  BY DEF TypeOK, EndSession

\* A transaction recorded for an owned token is new, and the only one of its token.
LEMMA RecordsOnce ==
    ASSUME TokenInv, NEW r \in Requests, pc[r] \in Late, NEW d,
           pending' = [pending EXCEPT ![work[r].tok] = "consumed"],
           ledger' = ledger \cup {LedgerRow(r, d)}
    PROVE  /\ TokenSpentOnce'
           /\ \A row \in ledger : row.tok # work[r].tok
<1>1. work[r].tok \in Tokens /\ pending \in [Tokens -> TokenStates]
  BY DEF TokenInv, TypeOK, Works
<1>2. Live(work[r].tok)
  BY DEF TokenInv, TokenHeld, Held, Owns
<1>3. \A row \in ledger : row.tok \in Tokens /\ row.tok # work[r].tok
  BY <1>2 DEF TokenInv, TypeOK, LedgerRows, TokenSpentOnce, Live
<1>4. LedgerRow(r, d).tok = work[r].tok
  BY DEF LedgerRow
<1>5. QED BY <1>1, <1>3, <1>4 DEF TokenInv, TokenSpentOnce

\* The steps of a request before it records anything or gives up.
LEMMA TokenStepEarly ==
    ASSUME TokenInv, NEW r \in Requests,
           \/ LoadLocalRecipient(r) \/ LoadPayupSender(r) \/ LockPending(r)
           \/ LoadPayupRecipient(r) \/ LockFirst(r) \/ LockSecond(r)
           \/ CheckLocal(r) \/ CheckPayup(r) \/ Sign(r)
           \/ RejectTakeAuditLock(r) \/ TopUpTakeAuditLock(r)
    PROVE  TokenSpentOnce' /\ TokenHeld'
<1> USE DEF GoTo, locks
<1>1. /\ work[r].tok \in Tokens /\ Held(r) /\ TypeOK
      /\ work \in [Requests -> Works] /\ pc \in [Requests -> Stages]
      /\ tokLock \in [Tokens -> Requests \cup {Free}]
      /\ pending \in [Tokens -> TokenStates]
  BY DEF TokenInv, TokenHeld, TypeOK, Works
<1>2. UNCHANGED <<pending, ledger>>
  BY DEF LoadLocalRecipient, LoadPayupSender, LockPending, LoadPayupRecipient, LockFirst,
     LockSecond, LockParticipant, CheckLocal, CheckPayup, Sign, RejectTakeAuditLock,
     TopUpTakeAuditLock
<1>3. \A q \in Requests \ {r} : pc'[q] = pc[q] /\ work'[q] = work[q]
  BY <1>1 DEF LoadLocalRecipient, LoadPayupSender, LockPending, LoadPayupRecipient, LockFirst,
     LockSecond, LockParticipant, CheckLocal, CheckPayup, Sign, RejectTakeAuditLock,
     TopUpTakeAuditLock
<1>4. \A t \in Tokens : tokLock[t] \notin {r, Free} => tokLock'[t] = tokLock[t]
  BY <1>1 DEF LoadLocalRecipient, LoadPayupSender, LockPending, LoadPayupRecipient, LockFirst,
     LockSecond, LockParticipant, CheckLocal, CheckPayup, Sign, RejectTakeAuditLock,
     TopUpTakeAuditLock
<1>5. Held(r)'
  <2>1. CASE LoadLocalRecipient(r)
    <3>1. work'[r].consumed = work[r].consumed /\ work'[r].tok = work[r].tok
      BY <1>1, <2>1 DEF LoadLocalRecipient, Works
    <3>2. pc[r] = "recipient" /\ pc'[r] \in {"pending", "reject"}
      BY <1>1, <2>1 DEF LoadLocalRecipient
    <3>3. ~work'[r].consumed /\ pending[work[r].tok] # "absent"
      BY <1>1, <3>1, <3>2 DEF Held, Early
    <3>4. QED BY <1>2, <3>1, <3>2, <3>3 DEF Held, Owns, Early, Late, Refused
  <2>2. CASE LoadPayupSender(r)
    BY <1>1, <1>2, <2>2 DEF LoadPayupSender, Held, Owns, Early, Late, Refused
  <2>3. CASE LockPending(r)
    <3>1. pc[r] = "pending" /\ pending[work[r].tok] # "absent" /\ ~work[r].consumed
      BY <1>1, <2>3 DEF LockPending, Held, Early
    <3>2. CASE pending[work[r].tok] = "consumed"
      <4>1. pc'[r] = "reject" /\ work' = work
        BY <1>1, <2>3, <3>2 DEF LockPending
      <4>2. QED BY <3>1, <4>1 DEF Held, Owns, Early, Late, Refused
    <3>3. CASE pending[work[r].tok] # "consumed"
      <4>1. /\ pc'[r] \in {"first", "payup_recipient", "reject"}
            /\ tokLock'[work[r].tok] = r
            /\ work'[r].tok = work[r].tok
        BY <1>1, <2>3, <3>3 DEF LockPending, Works
      <4>2. Live(work[r].tok)'
        BY <1>1, <1>2, <3>1, <3>3, <4>1 DEF Live, TokenStates
      <4>3. QED BY <4>1, <4>2 DEF Held, Early
    <3>4. QED BY <3>2, <3>3
  <2>4. CASE \/ LoadPayupRecipient(r) \/ LockFirst(r) \/ LockSecond(r)
             \/ CheckLocal(r) \/ CheckPayup(r) \/ TopUpTakeAuditLock(r)
    <3>1. pc[r] \in Late /\ pc'[r] \in Late \cup Refused /\ work' = work
      BY <1>1, <2>4 DEF LoadPayupRecipient, LockFirst, LockSecond, LockParticipant, CheckLocal,
         CheckPayup, TopUpTakeAuditLock, Late, Refused
    <3>2. tokLock'[work[r].tok] = tokLock[work[r].tok]
      BY <2>4 DEF LoadPayupRecipient, LockFirst, LockSecond, LockParticipant, CheckLocal,
         CheckPayup, TopUpTakeAuditLock
    <3>3. QED BY <1>1, <1>2, <3>1, <3>2 DEF Held, Owns, Live, Early, Late, Refused
  <2>5. CASE Sign(r)
    <3>1. /\ pc[r] \in Late /\ pc'[r] \in Late /\ work'[r].tok = work[r].tok
          /\ tokLock' = tokLock
      BY <1>1, <2>5 DEF Sign, Late, Works
    <3>2. QED BY <1>1, <1>2, <3>1 DEF Held, Owns, Live, Early, Late
  <2>6. CASE RejectTakeAuditLock(r)
    <3>1. /\ pc[r] \in Refused /\ pc'[r] \in Refused /\ work' = work
          /\ tokLock' = tokLock
      BY <1>1, <2>6 DEF RejectTakeAuditLock, Refused
    <3>2. Owns(r)' => Owns(r)
      BY <3>1, Zenon DEF Owns, Late, Refused
    <3>3. pc'[r] \notin Early
      BY <3>1 DEF Early, Refused
    <3>4. Owns(r) => tokLock[work[r].tok] = r /\ Live(work[r].tok)
      BY <1>1 DEF Held
    <3>5. Owns(r) => tokLock'[work'[r].tok] = r /\ Live(work[r].tok)'
      BY <1>2, <3>1, <3>4 DEF Live
    <3>6. QED BY <3>2, <3>3, <3>5, Zenon DEF Held
  <2>7. QED BY <2>1, <2>2, <2>3, <2>4, <2>5, <2>6
<1>6. QED BY <1>2, <1>3, <1>4, <1>5, OthersKeep DEF TokenHeld

\* The steps that end a request, whatever they leave behind.
LEMMA TokenStepEnd ==
    ASSUME TokenInv, NEW r \in Requests,
           \/ CommitTransfer(r) \/ TopUpCredit(r) \/ RejectCommit(r)
           \/ RejectAuditFails(r) \/ DeadlockAbort(r) \/ Fail(r)
    PROVE  TokenSpentOnce' /\ TokenHeld'
<1> USE DEF GoTo
<1>1. /\ work[r].tok \in Tokens /\ Held(r) /\ TypeOK
      /\ pc \in [Requests -> Stages] /\ pending \in [Tokens -> TokenStates]
  BY DEF TokenInv, TokenHeld, TypeOK, Works
<1>2. EndSession(r) /\ work' = work /\ pc'[r] \in Finished
  BY <1>1 DEF CommitTransfer, TopUpCredit, RejectCommit, RejectAuditFails, DeadlockAbort, Fail,
     Finished
<1>3. \A q \in Requests \ {r} : pc'[q] = pc[q]
  BY <1>1 DEF CommitTransfer, TopUpCredit, RejectCommit, RejectAuditFails, DeadlockAbort, Fail
<1>4. Held(r)'
  BY <1>2 DEF Held, Owns, Early, Late, Refused, Finished
<1>5. \A t \in Tokens : tokLock[t] \notin {r, Free} => tokLock'[t] = tokLock[t]
  BY <1>1, <1>2, EndSessionKeeps
<1>6. CASE UNCHANGED <<pending, ledger>>
  BY <1>2, <1>3, <1>4, <1>5, <1>6, OthersKeep DEF TokenHeld
<1>7. CASE /\ Owns(r)
           /\ pending' = [pending EXCEPT ![work[r].tok] = "consumed"]
           /\ \/ ledger' = ledger
              \/ pc[r] \in Late /\ \E d : ledger' = ledger \cup {LedgerRow(r, d)}
  <2>1. TokenHeld'
    BY Zenon, <1>2, <1>3, <1>4, <1>5, <1>7, OthersKeepConsumed DEF TokenHeld
  <2>2. ledger' = ledger => TokenSpentOnce'
    BY <1>1, <1>7 DEF TokenInv, TokenSpentOnce, TypeOK, LedgerRows
  <2>3. QED BY Zenon, <1>7, <2>1, <2>2, RecordsOnce
<1>8. CASE CommitTransfer(r)
  BY <1>7, <1>8 DEF CommitTransfer, Owns, Late
<1>9. CASE TopUpCredit(r)
  BY <1>7, <1>9 DEF TopUpCredit, Owns, Late
<1>10. CASE RejectCommit(r)
  <2>1. CASE work[r].consumed
    <3>1. Owns(r)
      BY <1>10, <2>1 DEF RejectCommit, Owns, Refused
    <3>2. QED BY <1>7, <1>10, <2>1, <3>1 DEF RejectCommit
  <2>2. CASE ~work[r].consumed
    BY <1>6, <1>10, <2>2 DEF RejectCommit
  <2>3. QED BY <2>1, <2>2
<1>11. CASE RejectAuditFails(r) \/ DeadlockAbort(r) \/ Fail(r)
  BY <1>6, <1>11 DEF RejectAuditFails, DeadlockAbort, Fail
<1>12. QED BY <1>8, <1>9, <1>10, <1>11

\* Starting a request takes no token from another.
LEMMA TokenStepStart ==
    ASSUME TokenInv, NEW r \in Requests, NEW t \in Tokens,
           StartLocal(r, t) \/ StartPayup(r, t) \/ StartTopUp(r, t)
    PROVE  TokenSpentOnce' /\ TokenHeld'
<1> USE DEF GoTo, locks
<1>1. /\ Held(r) /\ TypeOK /\ pc[r] = "idle"
      /\ work \in [Requests -> Works] /\ pc \in [Requests -> Stages]
      /\ tokLock \in [Tokens -> Requests \cup {Free}]
  BY DEF TokenInv, TokenHeld, TypeOK, StartLocal, StartPayup, StartTopUp
<1>2. UNCHANGED <<pending, ledger>>
  BY DEF StartLocal, StartPayup, StartTopUp
<1>3. \A q \in Requests \ {r} : pc'[q] = pc[q] /\ work'[q] = work[q]
  BY <1>1 DEF StartLocal, StartPayup, StartTopUp
<1>4. \A u \in Tokens : tokLock[u] \notin {r, Free} => tokLock'[u] = tokLock[u]
  BY <1>1 DEF StartLocal, StartPayup, StartTopUp
<1>5. work'[r].tok = t /\ work'[r].consumed = work[r].consumed
  BY <1>1 DEF StartLocal, StartPayup, StartTopUp, Works
<1>6. ~work[r].consumed
  BY <1>1 DEF Held, Early
<1>7. Held(r)'
  <2>1. CASE StartLocal(r, t) \/ StartPayup(r, t)
    <3>1. pc'[r] \in {"recipient", "load"} /\ pending'[t] # "absent"
      BY <1>1, <1>2, <2>1 DEF StartLocal, StartPayup
    <3>2. QED BY <1>5, <1>6, <3>1 DEF Held, Owns, Late, Refused
  <2>2. CASE StartTopUp(r, t)
    <3>1. pc'[r] = "topup_audit" /\ pending'[t] = "open" /\ tokLock'[t] = r
      BY <1>1, <1>2, <2>2 DEF StartTopUp
    <3>2. QED BY <1>5, <3>1 DEF Held, Early, Live
  <2>3. QED BY <2>1, <2>2
<1>8. QED BY <1>2, <1>3, <1>4, <1>7, OthersKeep DEF TokenHeld

\* Steps that are not a request's keep every token with its holder.
LEMMA TokenStepOther ==
    ASSUME TokenInv, UNCHANGED <<ledger, tokLock, pc, work>>,
           \/ UNCHANGED pending
           \/ \E t \in Tokens : /\ pending[t] = "absent"
                                /\ pending' = [pending EXCEPT ![t] = "open"]
           \/ \E t \in Tokens : /\ pending[t] = "open"
                                /\ pending' = [pending EXCEPT ![t] = "expired"]
    PROVE  TokenSpentOnce' /\ TokenHeld'
<1>1. /\ pending \in [Tokens -> TokenStates] /\ ledger \subseteq LedgerRows
      /\ \A r \in Requests : work[r].tok \in Tokens /\ Held(r)
  BY DEF TokenInv, TokenHeld, TypeOK, Works
<1>2. \A t \in Tokens : /\ Live(t) => Live(t)'
                        /\ pending[t] # "absent" => pending'[t] # "absent"
                        /\ pending[t] = "consumed" => pending'[t] = "consumed"
  BY <1>1 DEF Live
<1>3. TokenSpentOnce'
  BY <1>1, <1>2 DEF TokenInv, TokenSpentOnce, LedgerRows
<1>4. ASSUME NEW r \in Requests PROVE Held(r)'
  <2>1. Owns(r)' => Owns(r)
    BY Zenon DEF Owns
  <2>2. Owns(r) => tokLock'[work'[r].tok] = r /\ Live(work[r].tok)'
    BY <1>1, <1>2 DEF Held, Live
  <2>3. pc'[r] \in Early \ {"idle"} => pending'[work'[r].tok] # "absent"
    BY <1>1, <1>2 DEF Held
  <2>4. pc'[r] \in Early => ~work'[r].consumed
    BY <1>1, Zenon DEF Held
  <2>5. QED BY <2>1, <2>2, <2>3, <2>4, Zenon DEF Held
<1>5. QED BY <1>3, <1>4 DEF TokenHeld

\* The strengthened token invariant is inductive.
LEMMA TokenStep == TokenInv /\ [Next]_vars => TokenInv'
<1> SUFFICES ASSUME TokenInv, [Next]_vars PROVE TokenSpentOnce' /\ TokenHeld'
  BY TypeStep DEF TokenInv
<1>1. ASSUME NEW t \in Tokens,
             SubmitLocal(t) \/ SubmitPayup(t) \/ SubmitTopUp(t) \/ Expire(t)
      PROVE  TokenSpentOnce' /\ TokenHeld'
  BY <1>1, TokenStepOther DEF SubmitLocal, SubmitPayup, SubmitTopUp, Offer, Expire, locks
<1>2. ASSUME NEW r \in Requests, Start(r) PROVE TokenSpentOnce' /\ TokenHeld'
  BY <1>2, TokenStepStart DEF Start
<1>3. ASSUME NEW r \in Requests,
             Step(r) \/ RejectAuditFails(r) \/ DeadlockAbort(r) \/ Fail(r)
      PROVE  TokenSpentOnce' /\ TokenHeld'
  BY <1>3, TokenStepEarly, TokenStepEnd DEF Step
<1>4. ASSUME NEW a \in Accounts, Freeze(a) \/ \E l \in Limits : ChangeLimits(a, l)
      PROVE  TokenSpentOnce' /\ TokenHeld'
  BY <1>4, TokenStepOther DEF Freeze, ChangeLimits, locks
<1>5. CASE Midnight \/ UNCHANGED vars
  BY <1>5, TokenStepOther DEF Midnight, vars, locks
<1>6. QED BY <1>1, <1>2, <1>3, <1>4, <1>5 DEF Next

\* The initial state satisfies it.
LEMMA TokenInit == Init => TokenInv
<1>1. Init => TypeOK
  BY OpeningRowsType, OrderTypes, CapTypes DEF Init, TypeOK, TokenStates, Works, Stages
<1>2. QED
  BY <1>1 DEF Init, TokenInv, TokenSpentOnce, TokenHeld, Held, Owns, Late, Refused

\* However many requests confirm one token, at most one records a transaction
\* (_load_pending_local_transfer, _load_and_lock_payup_pending_transfer).
THEOREM TokenSafety == Spec => []TokenSpentOnce
<1>1. TokenInv => TokenSpentOnce
  BY DEF TokenInv
<1>2. QED BY <1>1, TokenInit, TokenStep, PTL DEF Spec

----------------------------------------------------------------------------
(* Funds.  A debit is written from a loaded copy, so the copies must be     *)
(* covered too, from the balance check to the commit.                       *)

CopiesFunded == \A r \in Requests, a \in Accounts : seen[r][a].balance >= 0

ChecksStand == \A r \in Requests : pc[r] \in {"sign", "commit"} => Covered(r)

FundsInv == TypeOK /\ NoOverdraft /\ CopiesFunded /\ ChecksStand

\* A step that changes no balance, that loads only committed rows and that does
\* not move r to "sign" keeps the funds.
LEMMA FundsKeep ==
    ASSUME FundsInv, TypeOK',
           \A a \in Accounts : users'[a].balance >= 0,
           \A r \in Requests, a \in Accounts :
              seen'[r][a] = seen[r][a] \/ seen'[r][a].balance >= 0,
           \A r \in Requests :
              pc'[r] \in {"sign", "commit"} =>
                 /\ Covered(r)
                 /\ work'[r].tok = work[r].tok /\ seen'[r] = seen[r]
    PROVE  NoOverdraft' /\ CopiesFunded' /\ ChecksStand'
<1>1. CopiesFunded'
  BY DEF FundsInv, CopiesFunded
<1>2. ChecksStand'
  BY DEF ChecksStand, Covered, OrderOf
<1>3. QED BY <1>1, <1>2 DEF NoOverdraft

\* The opening rows hold no debt.
LEMMA OpeningFunded == \A a \in Accounts : OpeningRows[a].balance >= 0
  BY OpeningType DEF OpeningRows

\* What ends a session leaves only opening rows in it.
LEMMA FundsEnd ==
    ASSUME FundsInv, TypeOK', NEW r \in Requests, EndSession(r),
           work' = work, pc'[r] \in Finished,
           \A q \in Requests \ {r} : pc'[q] = pc[q],
           \A a \in Accounts : users'[a].balance >= 0
    PROVE  NoOverdraft' /\ CopiesFunded' /\ ChecksStand'
<1>1. seen' = [seen EXCEPT ![r] = OpeningRows] /\ seen \in [Requests -> [Accounts -> UserRows]]
  BY DEF EndSession, FundsInv, TypeOK
<1>2. \A q \in Requests, a \in Accounts :
         seen'[q][a] = seen[q][a] \/ seen'[q][a].balance >= 0
  BY <1>1, OpeningFunded
<1>3. \A q \in Requests :
         pc'[q] \in {"sign", "commit"} =>
            Covered(q) /\ work'[q].tok = work[q].tok /\ seen'[q] = seen[q]
  BY <1>1 DEF FundsInv, ChecksStand, Finished
<1>4. QED BY <1>2, <1>3, FundsKeep

\* A committed transfer debits what its copy covers.
LEMMA MovedFunded ==
    ASSUME FundsInv, NEW r \in Requests, pc[r] = "commit", NEW a \in Accounts
    PROVE  Moved(r)[a].balance >= 0
<1>1. work[r].tok \in Tokens /\ users \in [Accounts -> UserRows]
  BY DEF FundsInv, TypeOK, Works
<1>2. /\ OrderOf(r).from \in Accounts /\ OrderOf(r).to \in Accounts
      /\ OrderOf(r).amount \in Nat
  BY <1>1, OrderFacts DEF OrderOf
<1>3. /\ seen[r][OrderOf(r).from].balance \in Int
      /\ seen[r][OrderOf(r).to].balance \in Int
      /\ seen[r][OrderOf(r).to].balance >= 0
  BY <1>2 DEF FundsInv, TypeOK, UserRows, CopiesFunded
<1>4. OrderOf(r).amount <= seen[r][OrderOf(r).from].balance
  BY DEF FundsInv, ChecksStand, Covered
<1>5. users[a].balance >= 0
  BY DEF FundsInv, NoOverdraft
<1> DEFINE x == seen[r][OrderOf(r).from].balance - OrderOf(r).amount
           y == seen[r][OrderOf(r).to].balance + OrderOf(r).amount
<1>6. x >= 0 /\ y >= 0
  BY <1>2, <1>3, <1>4
<1>7. Moved(r) = [users EXCEPT ![OrderOf(r).from].balance = x,
                               ![OrderOf(r).to].balance = y]
  BY DEF Moved
<1> HIDE DEF x, y
<1>8. QED BY <1>1, <1>2, <1>5, <1>6, <1>7 DEF UserRows

\* The strengthened funds invariant is inductive.
LEMMA FundsStep == FundsInv /\ [Next]_vars => FundsInv'
<1> SUFFICES ASSUME FundsInv, [Next]_vars
             PROVE  NoOverdraft' /\ CopiesFunded' /\ ChecksStand'
  BY TypeStep DEF FundsInv
<1>0. /\ TypeOK' /\ TypeOK /\ users \in [Accounts -> UserRows]
      /\ seen \in [Requests -> [Accounts -> UserRows]] /\ work \in [Requests -> Works]
      /\ pc \in [Requests -> Stages]
      /\ \A a \in Accounts : users[a].balance >= 0
  BY TypeStep DEF FundsInv, TypeOK, NoOverdraft
<1> USE DEF GoTo, locks
<1>1. CASE \/ \E t \in Tokens : SubmitLocal(t) \/ SubmitPayup(t) \/ SubmitTopUp(t) \/ Expire(t)
           \/ Midnight \/ UNCHANGED vars
  <2>1. UNCHANGED <<users, seen, pc, work>>
    BY <1>1 DEF SubmitLocal, SubmitPayup, SubmitTopUp, Offer, Expire, Midnight, vars
  <2>2. QED BY <2>1 DEF FundsInv, NoOverdraft, CopiesFunded, ChecksStand, Covered, OrderOf
<1>2. ASSUME NEW a \in Accounts, Freeze(a) \/ \E l \in Limits : ChangeLimits(a, l)
      PROVE  NoOverdraft' /\ CopiesFunded' /\ ChecksStand'
  <2>1. UNCHANGED <<seen, pc, work>>
    BY <1>2 DEF Freeze, ChangeLimits
  <2>2. \/ users' = [users EXCEPT ![a].frozen = TRUE]
        \/ \E l \in Limits : users' = [users EXCEPT ![a].limit = l]
    BY <1>2 DEF Freeze, ChangeLimits
  <2>3. \A b \in Accounts : users'[b].balance = users[b].balance
    BY <1>0, <2>2 DEF UserRows
  <2>4. QED BY <2>1, <2>3 DEF FundsInv, NoOverdraft, CopiesFunded, ChecksStand, Covered, OrderOf
<1>3. ASSUME NEW r \in Requests,
             \/ Start(r) \/ LoadLocalRecipient(r) \/ LoadPayupSender(r)
             \/ LockPending(r) \/ LoadPayupRecipient(r) \/ LockFirst(r) \/ LockSecond(r)
             \/ RejectTakeAuditLock(r) \/ TopUpTakeAuditLock(r)
      PROVE  NoOverdraft' /\ CopiesFunded' /\ ChecksStand'
  <2>1. users' = users
    BY Zenon, <1>3 DEF Start, StartLocal, StartPayup, StartTopUp, LoadLocalRecipient,
       LoadPayupSender, LockPending, LoadPayupRecipient, LockFirst, LockSecond, LockParticipant,
       RejectTakeAuditLock, TopUpTakeAuditLock
  <2>2. seen' = seen \/ \E a : seen' = [seen EXCEPT ![r][a] = users[a]]
    BY Zenon, <1>3 DEF Start, StartLocal, StartPayup, StartTopUp, LoadLocalRecipient,
       LoadPayupSender, LockPending, LoadPayupRecipient, LockFirst, LockSecond, LockParticipant,
       RejectTakeAuditLock, TopUpTakeAuditLock, Load
  <2>3. \A q \in Requests, a \in Accounts :
           seen'[q][a] = seen[q][a] \/ seen'[q][a].balance >= 0
    BY <1>0, <2>2
  <2>4. \A q \in Requests \ {r} : pc'[q] = pc[q] /\ work'[q] = work[q] /\ seen'[q] = seen[q]
    <3>1. \A q \in Requests \ {r} : pc'[q] = pc[q] /\ work'[q] = work[q]
      BY Zenon, <1>0, <1>3 DEF Start, StartLocal, StartPayup, StartTopUp, LoadLocalRecipient,
         LoadPayupSender, LockPending, LoadPayupRecipient, LockFirst, LockSecond, LockParticipant,
         RejectTakeAuditLock, TopUpTakeAuditLock
    <3>2. QED BY <1>0, <2>2, <3>1
  <2>5. pc'[r] \notin {"sign", "commit"}
    BY Zenon, <1>0, <1>3 DEF Start, StartLocal, StartPayup, StartTopUp, LoadLocalRecipient,
       LoadPayupSender, LockPending, LoadPayupRecipient, LockFirst, LockSecond, LockParticipant,
       RejectTakeAuditLock, TopUpTakeAuditLock
  <2>6. QED BY <1>0, <2>1, <2>3, <2>4, <2>5, FundsKeep DEF FundsInv, ChecksStand
<1>4. ASSUME NEW r \in Requests, CheckLocal(r) \/ CheckPayup(r) \/ Sign(r)
      PROVE  NoOverdraft' /\ CopiesFunded' /\ ChecksStand'
  <2>1. UNCHANGED <<users, seen>>
    BY <1>4 DEF CheckLocal, CheckPayup, Sign
  <2>2. \A q \in Requests : work'[q].tok = work[q].tok
    BY <1>0, <1>4 DEF CheckLocal, CheckPayup, Sign, Works
  <2>3. \A q \in Requests \ {r} : pc'[q] = pc[q]
    BY <1>0, <1>4 DEF CheckLocal, CheckPayup, Sign
  <2>4. pc'[r] \in {"sign", "commit"} => Covered(r)
    BY <1>0, <1>4 DEF CheckLocal, CheckPayup, Sign, FundsInv, ChecksStand
  <2>5. QED BY <1>0, <2>1, <2>2, <2>3, <2>4, FundsKeep DEF FundsInv, ChecksStand
<1>5. ASSUME NEW r \in Requests,
             \/ CommitTransfer(r) \/ TopUpCredit(r) \/ RejectCommit(r)
             \/ RejectAuditFails(r) \/ DeadlockAbort(r) \/ Fail(r)
      PROVE  NoOverdraft' /\ CopiesFunded' /\ ChecksStand'
  <2>1. EndSession(r) /\ work' = work /\ pc'[r] \in Finished
    BY <1>0, <1>5 DEF CommitTransfer, TopUpCredit, RejectCommit, RejectAuditFails, DeadlockAbort,
       Fail, Finished
  <2>2. \A q \in Requests \ {r} : pc'[q] = pc[q]
    BY <1>0, <1>5 DEF CommitTransfer, TopUpCredit, RejectCommit, RejectAuditFails, DeadlockAbort,
       Fail
  <2>3. \A a \in Accounts : users'[a].balance >= 0
    <3>1. CASE CommitTransfer(r)
      BY <3>1, MovedFunded DEF CommitTransfer
    <3>2. CASE TopUpCredit(r)
      <4>1. work[r].tok \in Tokens
        BY <1>0 DEF Works
      <4>2. OrderOf(r).to \in Accounts /\ OrderOf(r).amount \in Nat
        BY <4>1, OrderFacts DEF OrderOf
      <4> DEFINE n == seen[r][OrderOf(r).to].balance + OrderOf(r).amount
      <4>3. n >= 0
        BY <1>0, <4>2 DEF FundsInv, CopiesFunded, UserRows
      <4>4. users' = users \/ users' = [users EXCEPT ![OrderOf(r).to].balance = n]
        BY <3>2 DEF TopUpCredit
      <4> HIDE DEF n
      <4>5. QED BY <1>0, <4>2, <4>3, <4>4 DEF UserRows
    <3>3. CASE RejectCommit(r) \/ RejectAuditFails(r) \/ DeadlockAbort(r) \/ Fail(r)
      BY <1>0, <3>3 DEF RejectCommit, RejectAuditFails, DeadlockAbort, Fail
    <3>4. QED BY <1>5, <3>1, <3>2, <3>3
  <2>4. QED BY <1>0, <2>1, <2>2, <2>3, FundsEnd
<1>6. QED BY <1>1, <1>2, <1>3, <1>4, <1>5 DEF Next, Step

\* No interleaving of transfers, top-ups, refusals and failures overdraws an
\* account (the balance checks of execute_local_transfer, execute_payup_transfer).
THEOREM FundsSafety == Spec => []NoOverdraft
<1>1. Init => FundsInv
  <2>1. Init => TypeOK
    BY TokenInit DEF TokenInv
  <2>2. Init => NoOverdraft /\ CopiesFunded /\ ChecksStand
    BY OpeningFunded DEF Init, NoOverdraft, CopiesFunded, ChecksStand
  <2>3. QED BY <2>1, <2>2 DEF FundsInv
<1>2. FundsInv => NoOverdraft
  BY DEF FundsInv
<1>3. QED BY <1>1, <1>2, FundsStep, PTL DEF Spec

----------------------------------------------------------------------------
(* What a step does to tokens, ledger and balances.                         *)

\* Request r spends its token on a transaction, or gives it up.
Consumes(r) ==
    /\ Owns(r)
    /\ pending' = [pending EXCEPT ![work[r].tok] = "consumed"]
    /\ \/ ledger' = ledger
       \/ pc[r] \in Late /\ \E d : ledger' = ledger \cup {LedgerRow(r, d)}

\* Every step is one of four as far as tokens and transactions are concerned.
LEMMA TokenEffects ==
    ASSUME TokenInv, [Next]_vars
    PROVE  \/ UNCHANGED <<pending, ledger>>
           \/ \E t \in Tokens : /\ pending[t] = "absent" /\ ledger' = ledger
                                /\ pending' = [pending EXCEPT ![t] = "open"]
           \/ \E t \in Tokens : /\ pending[t] = "open" /\ ledger' = ledger
                                /\ pending' = [pending EXCEPT ![t] = "expired"]
           \/ \E r \in Requests : Consumes(r)
<1> DEFINE Effects == \/ UNCHANGED <<pending, ledger>>
                      \/ \E t \in Tokens : /\ pending[t] = "absent" /\ ledger' = ledger
                                           /\ pending' = [pending EXCEPT ![t] = "open"]
                      \/ \E t \in Tokens : /\ pending[t] = "open" /\ ledger' = ledger
                                           /\ pending' = [pending EXCEPT ![t] = "expired"]
                      \/ \E r \in Requests : Consumes(r)
<1>1. ASSUME NEW t \in Tokens,
             SubmitLocal(t) \/ SubmitPayup(t) \/ SubmitTopUp(t) \/ Expire(t)
      PROVE  Effects
  BY <1>1 DEF SubmitLocal, SubmitPayup, SubmitTopUp, Offer, Expire
<1>2. ASSUME NEW r \in Requests, CommitTransfer(r) \/ TopUpCredit(r)
      PROVE  Effects
  <2>1. Consumes(r)
    BY <1>2 DEF CommitTransfer, TopUpCredit, Consumes, Owns, Late
  <2>2. QED BY <2>1
<1>3. ASSUME NEW r \in Requests, RejectCommit(r) PROVE Effects
  <2>1. CASE work[r].consumed
    <3>1. Owns(r)
      BY <1>3, <2>1 DEF RejectCommit, Owns, Refused
    <3>2. Consumes(r)
      BY <1>3, <2>1, <3>1 DEF RejectCommit, Consumes
    <3>3. QED BY <3>2
  <2>2. CASE ~work[r].consumed
    BY <1>3, <2>2 DEF RejectCommit
  <2>3. QED BY <2>1, <2>2
<1>4. ASSUME NEW r \in Requests,
             \/ Start(r) \/ LoadLocalRecipient(r) \/ LoadPayupSender(r)
             \/ LockPending(r) \/ LoadPayupRecipient(r) \/ LockFirst(r) \/ LockSecond(r)
             \/ CheckLocal(r) \/ CheckPayup(r) \/ Sign(r)
             \/ RejectTakeAuditLock(r) \/ TopUpTakeAuditLock(r)
             \/ RejectAuditFails(r) \/ DeadlockAbort(r) \/ Fail(r)
      PROVE  Effects
  BY Zenon, <1>4 DEF Start, StartLocal, StartPayup, StartTopUp, LoadLocalRecipient, LoadPayupSender,
     LockPending, LoadPayupRecipient, LockFirst, LockSecond, LockParticipant, CheckLocal,
     CheckPayup, Sign, RejectTakeAuditLock, TopUpTakeAuditLock, RejectAuditFails, DeadlockAbort,
     Fail
<1>5. ASSUME \/ \E a \in Accounts : Freeze(a) \/ \E l \in Limits : ChangeLimits(a, l)
             \/ Midnight \/ UNCHANGED vars
      PROVE  Effects
  BY <1>5 DEF Freeze, ChangeLimits, Midnight, vars
<1> HIDE DEF Effects
<1>6. Effects
  BY <1>1, <1>2, <1>3, <1>4, <1>5 DEF Next, Step
<1>7. QED BY <1>6 DEF Effects

\* The tokens as the abstract specification sees them.
TokenMap == [t \in Tokens |-> TokenOf(t)]

\* Every step of the requests is a step of PendingTokens, or none.
LEMMA TokenRefinement ==
    ASSUME TokenInv, [Next]_vars
    PROVE  [Abstract!TokenNext]_TokenMap
<1>1. /\ pending \in [Tokens -> TokenStates]
      /\ \A row \in ledger : row.tok \in Tokens /\ pending[row.tok] = "consumed"
  BY DEF TokenInv, TypeOK, LedgerRows, TokenSpentOnce
<1>2. CASE UNCHANGED <<pending, ledger>>
  <2>1. TokenMap' = TokenMap
    BY <1>2 DEF TokenMap, TokenOf
  <2>2. QED BY <2>1
<1>3. ASSUME NEW t \in Tokens, pending[t] = "absent", ledger' = ledger,
             pending' = [pending EXCEPT ![t] = "open"]
      PROVE  Abstract!Offer(t)
  <2>1. \A row \in ledger : row.tok # t
    BY <1>1, <1>3
  <2>2. TokenMap[t] = "absent"
    BY <1>3, <2>1 DEF TokenMap, TokenOf
  <2>3. TokenMap' = [TokenMap EXCEPT ![t] = "open"]
    BY Zenon, <1>1, <1>3, <2>1 DEF TokenMap, TokenOf
  <2>4. QED BY <2>2, <2>3 DEF Abstract!Offer, TokenMap
<1>4. ASSUME NEW t \in Tokens, pending[t] = "open", ledger' = ledger,
             pending' = [pending EXCEPT ![t] = "expired"]
      PROVE  TokenMap' = TokenMap
  BY <1>1, <1>4 DEF TokenMap, TokenOf
<1>5. ASSUME NEW r \in Requests, Consumes(r)
      PROVE  Abstract!Void(work[r].tok) \/ Abstract!Spend(work[r].tok)
  <2> DEFINE t == work[r].tok
  <2>1. t \in Tokens /\ pending[t] \in {"open", "expired"}
    BY <1>5 DEF TokenInv, TokenHeld, Held, TypeOK, Works, Consumes, Live
  <2>2. \A row \in ledger : row.tok # t
    BY <1>1, <2>1
  <2>3. pending' = [pending EXCEPT ![t] = "consumed"]
    BY <1>5 DEF Consumes
  <2>4. CASE ledger' = ledger
    <3>1. TokenMap[t] = "open"
      BY <2>1, <2>2 DEF TokenMap, TokenOf
    <3>2. TokenMap' = [TokenMap EXCEPT ![t] = "void"]
      BY Zenon, <1>1, <2>1, <2>2, <2>3, <2>4 DEF TokenMap, TokenOf
    <3>3. QED BY <3>1, <3>2 DEF Abstract!Void, TokenMap
  <2>5. CASE \E d : ledger' = ledger \cup {LedgerRow(r, d)}
    <3>1. TokenMap[t] = "open"
      BY <2>1, <2>2 DEF TokenMap, TokenOf
    <3>2. PICK d : ledger' = ledger \cup {LedgerRow(r, d)}
      BY <2>5
    <3>3. LedgerRow(r, d).tok = t
      BY DEF LedgerRow
    <3>4. TokenMap' = [TokenMap EXCEPT ![t] = "spent"]
      BY Zenon, <1>1, <2>1, <2>2, <2>3, <3>2, <3>3 DEF TokenMap, TokenOf
    <3>5. QED BY <3>1, <3>4 DEF Abstract!Spend, TokenMap
  <2>6. QED BY <1>5, <2>4, <2>5 DEF Consumes
<1>6. \A r \in Requests : work[r].tok \in Tokens
  BY DEF TokenInv, TypeOK, Works
<1>7. QED
  BY <1>2, <1>3, <1>4, <1>5, <1>6, TokenEffects DEF Abstract!TokenNext

\* The confirmations, refusals, failures and expiries of the code implement the
\* life of a token: offered once, then spent once or void.
THEOREM Refinement == Spec => ImplementsPendingTokens
<1>1. Init => Abstract!TokenInit
  BY DEF Init, Abstract!TokenInit, TokenOf
<1>2. TokenInv /\ [Next]_vars => [Abstract!TokenNext]_TokenMap
  BY TokenRefinement
<1>3. QED
  BY <1>1, <1>2, TokenInit, TokenStep, PTL DEF Spec, ImplementsPendingTokens, Abstract!TokenSpec,
     TokenMap

\* A committed transfer changes a balance by what it records, unless it worked
\* from a stale copy of that balance.
LEMMA MovedDelta ==
    ASSUME TypeOK, NEW r \in Requests, NEW a \in Accounts,
           seen[r][a].balance = users[a].balance
    PROVE  Moved(r)[a].balance = users[a].balance + Delta(a, OrderOf(r))
<1>1. work[r].tok \in Tokens /\ users \in [Accounts -> UserRows]
  BY DEF TypeOK, Works
<1>2. /\ OrderOf(r).from \in Accounts /\ OrderOf(r).to \in Accounts
      /\ OrderOf(r).amount \in Nat
      /\ (OrderOf(r).from = OrderOf(r).to) <=> (OrderOf(r).chan = "topup")
  BY <1>1, OrderFacts DEF OrderOf
<1>3. users[a].balance \in Int
  BY <1>1 DEF UserRows
<1> DEFINE x == seen[r][OrderOf(r).from].balance - OrderOf(r).amount
           y == seen[r][OrderOf(r).to].balance + OrderOf(r).amount
<1>4. Moved(r) = [users EXCEPT ![OrderOf(r).from].balance = x,
                               ![OrderOf(r).to].balance = y]
  BY DEF Moved
<1>5. /\ a = OrderOf(r).to => Moved(r)[a].balance = y
      /\ a = OrderOf(r).from /\ a # OrderOf(r).to => Moved(r)[a].balance = x
      /\ a # OrderOf(r).from /\ a # OrderOf(r).to => Moved(r)[a] = users[a]
  <2> HIDE DEF x, y
  <2>1. QED BY <1>1, <1>2, <1>4 DEF UserRows
<1>6. QED BY <1>2, <1>3, <1>5 DEF Delta

\* Only a request that carries out a top-up is in the crediting stages.
TopUpStages ==
    \A r \in Requests : pc[r] \in {"topup_audit", "topup_credit"}
                           => OrderOf(r).chan = "topup"

\* The stages of a top-up are entered only from its start.
LEMMA TopUpStep == TypeOK /\ TopUpStages /\ [Next]_vars => TopUpStages'
<1> SUFFICES ASSUME TypeOK, TopUpStages, [Next]_vars, NEW q \in Requests,
                    pc'[q] \in {"topup_audit", "topup_credit"}
             PROVE  OrderOf(q).chan' = "topup"
  BY DEF TopUpStages
<1> USE DEF GoTo, locks
<1>0. pc \in [Requests -> Stages] /\ work \in [Requests -> Works]
  BY DEF TypeOK
<1>1. ASSUME pc[q] \in {"topup_audit", "topup_credit"}, work'[q].tok = work[q].tok
      PROVE  OrderOf(q).chan' = "topup"
  BY <1>1 DEF TopUpStages, OrderOf
<1>2. ASSUME NEW r \in Requests, Start(r) PROVE OrderOf(q).chan' = "topup"
  <2> PICK t \in Tokens : StartLocal(r, t) \/ StartPayup(r, t) \/ StartTopUp(r, t)
    BY <1>2 DEF Start
  <2>1. CASE q = r
    BY <1>0, <2>1 DEF StartLocal, StartPayup, StartTopUp, OrderOf, Works
  <2>2. CASE q # r
    <3>1. pc'[q] = pc[q] /\ work'[q] = work[q]
      BY <1>0, <2>2 DEF StartLocal, StartPayup, StartTopUp
    <3>2. QED BY <1>1, <3>1
  <2>3. QED BY <2>1, <2>2
<1>3. ASSUME NEW r \in Requests,
             Step(r) \/ RejectAuditFails(r) \/ DeadlockAbort(r) \/ Fail(r)
      PROVE  OrderOf(q).chan' = "topup"
  <2>1. work'[q].tok = work[q].tok
    BY <1>0, <1>3 DEF Step, LoadLocalRecipient, LoadPayupSender, LockPending, LoadPayupRecipient,
       LockFirst, LockSecond, LockParticipant, CheckLocal, CheckPayup, Sign, CommitTransfer,
       RejectTakeAuditLock, RejectCommit, TopUpTakeAuditLock, TopUpCredit, RejectAuditFails,
       DeadlockAbort, Fail, Works
  <2>2. pc[q] \in {"topup_audit", "topup_credit"}
    BY <1>0, <1>3 DEF Step, LoadLocalRecipient, LoadPayupSender, LockPending, LoadPayupRecipient,
       LockFirst, LockSecond, LockParticipant, CheckLocal, CheckPayup, Sign, CommitTransfer,
       RejectTakeAuditLock, RejectCommit, TopUpTakeAuditLock, TopUpCredit, RejectAuditFails,
       DeadlockAbort, Fail
  <2>3. QED BY <1>1, <2>1, <2>2
<1>4. CASE \/ \E t \in Tokens : SubmitLocal(t) \/ SubmitPayup(t) \/ SubmitTopUp(t) \/ Expire(t)
           \/ \E a \in Accounts : Freeze(a) \/ \E l \in Limits : ChangeLimits(a, l)
           \/ Midnight \/ UNCHANGED vars
  <2>1. UNCHANGED <<pc, work>>
    BY <1>4 DEF SubmitLocal, SubmitPayup, SubmitTopUp, Offer, Expire, Freeze, ChangeLimits,
       Midnight, vars
  <2>2. QED BY <1>1, <2>1
<1>5. QED BY <1>2, <1>3, <1>4 DEF Next

\* What a step does to the balances and the ledger together.
LEMMA RecordsStep ==
    ASSUME TokenInv, TopUpStages, [Next]_vars
    PROVE  [Records]_vars
<1>0. /\ TypeOK /\ users \in [Accounts -> UserRows]
  BY DEF TokenInv, TypeOK
<1>1. ASSUME ledger' = ledger, users' = users PROVE Records
  BY <1>1 DEF Records
<1>2. ASSUME NEW a \in Accounts, Freeze(a) \/ \E l \in Limits : ChangeLimits(a, l)
      PROVE  Records
  <2>1. ledger' = ledger
    BY <1>2 DEF Freeze, ChangeLimits
  <2>2. \/ users' = [users EXCEPT ![a].frozen = TRUE]
        \/ \E l \in Limits : users' = [users EXCEPT ![a].limit = l]
    BY <1>2 DEF Freeze, ChangeLimits
  <2>3. \A b \in Accounts : users'[b].balance = users[b].balance
    BY <1>0, <2>2 DEF UserRows
  <2>4. QED BY <2>1, <2>3 DEF Records
<1>3. ASSUME NEW r \in Requests, NEW row, pc[r] \in Late,
             row.tok = work[r].tok, row.req = r, ledger' = ledger \cup {row},
             \A a \in Accounts : seen[r][a].balance = users[a].balance =>
                users'[a].balance = users[a].balance + Delta(a, OrderOf(r))
      PROVE  Records
  <2>1. row \notin ledger
    BY <1>3 DEF TokenInv, TokenSpentOnce, TokenHeld, Held, Owns, Live
  <2>2. QED BY <1>3, <2>1 DEF Records, OrderOf
<1>4. ASSUME NEW r \in Requests, CommitTransfer(r) PROVE Records
  <2>1. /\ users' = Moved(r) /\ ledger' = ledger \cup {LedgerRow(r, work[r].created)}
        /\ pc[r] \in Late
    BY <1>4 DEF CommitTransfer, Late
  <2>2. /\ LedgerRow(r, work[r].created).tok = work[r].tok
        /\ LedgerRow(r, work[r].created).req = r
    BY DEF LedgerRow
  <2>3. QED BY <1>0, <1>3, <2>1, <2>2, MovedDelta
<1>5. ASSUME NEW r \in Requests, TopUpCredit(r) PROVE Records
  <2>0. OrderOf(r).chan = "topup"
    BY <1>5 DEF TopUpCredit, TopUpStages
  <2>1. CASE seen[r][OrderOf(r).to].frozen
    BY <1>1, <1>5, <2>1 DEF TopUpCredit
  <2>2. CASE ~seen[r][OrderOf(r).to].frozen
    <3> DEFINE n == seen[r][OrderOf(r).to].balance + OrderOf(r).amount
    <3>1. /\ users' = [users EXCEPT ![OrderOf(r).to].balance = n]
          /\ ledger' = ledger \cup {LedgerRow(r, day)} /\ pc[r] \in Late
      BY <1>5, <2>2 DEF TopUpCredit, Late
    <3>2. LedgerRow(r, day).tok = work[r].tok /\ LedgerRow(r, day).req = r
      BY DEF LedgerRow
    <3>3. ASSUME NEW a \in Accounts, seen[r][a].balance = users[a].balance
          PROVE  users'[a].balance = users[a].balance + Delta(a, OrderOf(r))
      <4>1. work[r].tok \in Tokens /\ users[a].balance \in Int
        BY <1>0 DEF TypeOK, Works, UserRows
      <4>2. OrderOf(r).to \in Accounts /\ OrderOf(r).amount \in Nat
        BY <4>1, OrderFacts DEF OrderOf
      <4>3. a = OrderOf(r).to => users'[a].balance = n
        <5> HIDE DEF n
        <5>1. QED BY <1>0, <3>1, <4>2 DEF UserRows
      <4>4. a # OrderOf(r).to => users'[a] = users[a]
        BY <1>0, <3>1, <4>2
      <4>5. QED BY <2>0, <3>3, <4>1, <4>2, <4>3, <4>4 DEF Delta
    <3>4. QED BY <1>3, <3>1, <3>2, <3>3
  <2>3. QED BY <2>1, <2>2
<1>6. ASSUME NEW r \in Requests,
             \/ Start(r) \/ LoadLocalRecipient(r) \/ LoadPayupSender(r)
             \/ LockPending(r) \/ LoadPayupRecipient(r) \/ LockFirst(r) \/ LockSecond(r)
             \/ CheckLocal(r) \/ CheckPayup(r) \/ Sign(r)
             \/ RejectTakeAuditLock(r) \/ RejectCommit(r) \/ TopUpTakeAuditLock(r)
             \/ RejectAuditFails(r) \/ DeadlockAbort(r) \/ Fail(r)
      PROVE  Records
  <2>1. UNCHANGED <<users, ledger>>
    BY Zenon, <1>6 DEF Start, StartLocal, StartPayup, StartTopUp, LoadLocalRecipient,
       LoadPayupSender, LockPending, LoadPayupRecipient, LockFirst, LockSecond, LockParticipant,
       CheckLocal, CheckPayup, Sign, RejectTakeAuditLock, RejectCommit, TopUpTakeAuditLock,
       RejectAuditFails, DeadlockAbort, Fail
  <2>2. QED BY <1>1, <2>1
<1>7. ASSUME \/ \E t \in Tokens : SubmitLocal(t) \/ SubmitPayup(t) \/ SubmitTopUp(t) \/ Expire(t)
             \/ Midnight
      PROVE  Records
  <2>1. UNCHANGED <<users, ledger>>
    BY <1>7 DEF SubmitLocal, SubmitPayup, SubmitTopUp, Offer, Expire, Midnight
  <2>2. QED BY <1>1, <2>1
<1>8. QED BY <1>2, <1>4, <1>5, <1>6, <1>7 DEF Next, Step

\* Balances change only with a recorded transaction, by what it says, except
\* where the copy was stale (the commits of execute_local_transfer,
\* execute_payup_transfer and topup_approve_submit).
THEOREM RecordsHold == Spec => MovesWhatItRecords
<1>1. Init => TopUpStages
  BY DEF Init, TopUpStages
<1>2. TokenInv /\ TopUpStages /\ [Next]_vars => TopUpStages'
  BY TopUpStep DEF TokenInv
<1>3. TokenInv /\ TopUpStages /\ [Next]_vars => [Records]_vars
  BY RecordsStep
<1>4. QED
  BY <1>1, <1>2, <1>3, TokenInit, TokenStep, PTL DEF Spec, MovesWhatItRecords

----------------------------------------------------------------------------
(* Waiting.  A request that waits for a row and is waited for has locked    *)
(* the first of its two participants, and the next one in the chain has     *)
(* locked a higher one.  No chain rises for ever: only so many rows are     *)
(* locked at a time.                                                        *)

\* A non-empty set of naturals has a least element.
LEMMA LeastNatural ==
    ASSUME NEW S, S \subseteq Nat, S # {}
    PROVE  \E x \in S : \A y \in S : x <= y
<1>1. \E x \in S : \A y \in S : ~(<<y, x>> \in OpToRel(<, Nat))
  BY Zenon, NatLessThanWellFounded, WFMin
<1>2. PICK x \in S : \A y \in S : ~(<<y, x>> \in OpToRel(<, Nat))
  BY Zenon, <1>1
<1>3. \A y \in S : ~(y < x)
  BY Zenon, <1>2 DEF OpToRel
<1>4. QED BY <1>3

\* A bounded set of naturals has a greatest element.
LEMMA GreatestNatural ==
    ASSUME NEW S, S \subseteq Nat, S # {}, NEW n \in Nat, \A x \in S : x <= n
    PROVE  \E x \in S : \A y \in S : y <= x
<1>1. DEFINE T == {n - x : x \in S}
<1>2. T \subseteq Nat /\ T # {}
  <2>1. \A x \in S : x \in Nat /\ n - x \in Nat
    OBVIOUS
  <2>2. T \subseteq Nat
    BY <2>1
  <2>3. QED BY <2>2
<1>3. PICK m \in T : \A y \in T : m <= y
  BY Zenon, <1>2, LeastNatural
<1>4. PICK x \in S : m = n - x
  OBVIOUS
<1>5. \A y \in S : n - x <= n - y
  BY Zenon, <1>3, <1>4
<1>6. QED BY <1>5

\* Where a request may have users rows locked.
RowStages == {"second", "check", "sign", "commit", "reject", "reject_insert"}

\* What r has locked, by where it is: the lower participant before the second wait,
\* the sender among them after it; nothing before its pending row.
HoldsRows(r) ==
    /\ pc[r] = "second" => rowLock[Lower(OrderOf(r))] = r
    /\ \A a \in Accounts : rowLock[a] = r =>
          /\ pc[r] \in RowStages
          /\ pc[r] = "second" => a = Lower(OrderOf(r))
          /\ pc[r] # "second" => rowLock[OrderOf(r).from] = r
    /\ \A t \in Tokens : tokLock[t] = r => pc[r] \notin Early

LocksBounded == \E n \in Nat : \A a \in Accounts : rowLock[a] # Free => a <= n

RowInv == TypeOK /\ LocksBounded /\ \A r \in Requests : HoldsRows(r)

\* The participants of a request are its sender and its recipient.
LEMMA Participants ==
    ASSUME TypeOK, NEW r \in Requests
    PROVE  /\ OrderOf(r).from \in Accounts /\ OrderOf(r).to \in Accounts
           /\ Lower(OrderOf(r)) \in Accounts /\ Upper(OrderOf(r)) \in Accounts
           /\ OrderOf(r).from \in {Lower(OrderOf(r)), Upper(OrderOf(r))}
           /\ OrderOf(r).chan # "topup" => Lower(OrderOf(r)) < Upper(OrderOf(r))
<1>1. work[r].tok \in Tokens
  BY DEF TypeOK, Works
<1>2. /\ OrderOf(r).from \in Accounts /\ OrderOf(r).to \in Accounts
      /\ OrderOf(r).from \in Nat /\ OrderOf(r).to \in Nat
      /\ OrderOf(r).chan # "topup" => OrderOf(r).from # OrderOf(r).to
  BY Zenon, <1>1, OrderFacts, AccountIds DEF OrderOf
<1>3. QED BY <1>2 DEF Lower, Upper

\* A step keeps the locks of a request that stays where it is.
LEMMA HolderKeeps ==
    ASSUME NEW q \in Requests, HoldsRows(q), TypeOK,
           pc'[q] = pc[q], work'[q] = work[q],
           \A a \in Accounts : rowLock'[a] = q <=> rowLock[a] = q,
           \A t \in Tokens : tokLock'[t] = q <=> tokLock[t] = q
    PROVE  HoldsRows(q)'
<1>1. OrderOf(q)' = OrderOf(q)
  BY DEF OrderOf
<1>2. Lower(OrderOf(q))' = Lower(OrderOf(q)) /\ OrderOf(q)'.from = OrderOf(q).from
  BY <1>1 DEF Lower
<1>3. QED BY <1>1, <1>2, Participants DEF HoldsRows, RowStages, Early

\* Ending a session leaves its request nothing and takes nothing from another.
LEMMA EndReleases ==
    ASSUME TypeOK, NEW r \in Requests, EndSession(r)
    PROVE  /\ \A a \in Accounts : rowLock'[a] # r /\ rowLock'[a] \in {rowLock[a], Free}
           /\ \A t \in Tokens : tokLock'[t] # r
           /\ \A q \in Requests \ {r} : /\ \A a \in Accounts : rowLock'[a] = q <=> rowLock[a] = q
                                        /\ \A t \in Tokens : tokLock'[t] = q <=> tokLock[t] = q
  BY FreeIsNobody DEF TypeOK, EndSession

\* A step that only takes locks of r, or gives them up, keeps the bound.
LEMMA BoundKept ==
    ASSUME LocksBounded, NEW b \in Accounts,
           \A a \in Accounts \ {b} : rowLock'[a] \in {rowLock[a], Free}
    PROVE  LocksBounded'
<1>1. PICK n \in Nat : \A a \in Accounts : rowLock[a] # Free => a <= n
  BY DEF LocksBounded
<1>2. b \in Nat /\ Accounts \subseteq Nat
  BY AccountIds
<1>3. \E m \in Nat : n <= m /\ b <= m
  <2>1. CASE n <= b BY <1>2, <2>1
  <2>2. CASE b <= n BY <1>2, <2>2
  <2>3. QED BY <1>2, <2>1, <2>2
<1>4. PICK m \in Nat : n <= m /\ b <= m
  BY <1>3
<1>5. \A a \in Accounts : rowLock'[a] # Free => a <= m
  BY <1>1, <1>2, <1>4
<1>6. QED BY <1>5 DEF LocksBounded

\* The steps of a request that goes on.
LEMMA RowsGoOn ==
    ASSUME RowInv, NEW r \in Requests,
           \/ LoadLocalRecipient(r) \/ LoadPayupSender(r) \/ LockPending(r)
           \/ LoadPayupRecipient(r) \/ LockFirst(r) \/ LockSecond(r)
           \/ CheckLocal(r) \/ CheckPayup(r) \/ Sign(r)
           \/ RejectTakeAuditLock(r) \/ TopUpTakeAuditLock(r)
    PROVE  LocksBounded' /\ \A q \in Requests : HoldsRows(q)'
<1> USE DEF GoTo, locks
<1>1. /\ TypeOK /\ HoldsRows(r) /\ r # Free /\ work[r].tok \in Tokens
      /\ work \in [Requests -> Works] /\ pc \in [Requests -> Stages]
      /\ tokLock \in [Tokens -> Requests \cup {Free}]
      /\ rowLock \in [Accounts -> Requests \cup {Free}]
  BY FreeIsNobody DEF RowInv, TypeOK, Works
<1>2. /\ OrderOf(r).from \in Accounts
      /\ Lower(OrderOf(r)) \in Accounts /\ Upper(OrderOf(r)) \in Accounts
      /\ OrderOf(r).from \in {Lower(OrderOf(r)), Upper(OrderOf(r))}
  BY <1>1, Participants
<1>3. OrderOf(r)' = OrderOf(r)
  BY <1>1 DEF OrderOf, LoadLocalRecipient, LoadPayupSender, LockPending, LoadPayupRecipient,
     LockFirst, LockSecond, LockParticipant, CheckLocal, CheckPayup, Sign, RejectTakeAuditLock,
     TopUpTakeAuditLock, Works
<1>4. OrderOf(r)'.from = OrderOf(r).from /\ Lower(OrderOf(r))' = Lower(OrderOf(r))
  BY <1>3 DEF Lower
<1>5. ASSUME NEW q \in Requests \ {r} PROVE HoldsRows(q)'
  <2>1. pc'[q] = pc[q] /\ work'[q] = work[q]
    BY <1>1 DEF LoadLocalRecipient, LoadPayupSender, LockPending, LoadPayupRecipient, LockFirst,
       LockSecond, LockParticipant, CheckLocal, CheckPayup, Sign, RejectTakeAuditLock,
       TopUpTakeAuditLock
  <2>2. \A t \in Tokens : tokLock'[t] = q <=> tokLock[t] = q
    BY <1>1, FreeIsNobody DEF LoadLocalRecipient, LoadPayupSender, LockPending, LoadPayupRecipient,
       LockFirst, LockSecond, LockParticipant, CheckLocal, CheckPayup, Sign, RejectTakeAuditLock,
       TopUpTakeAuditLock
  <2>3. \A a \in Accounts : rowLock'[a] = q <=> rowLock[a] = q
    BY ZenonT(30), <1>1, <1>2, FreeIsNobody DEF LoadLocalRecipient, LoadPayupSender, LockPending,
       LoadPayupRecipient, LockFirst, LockSecond, LockParticipant, CheckLocal, CheckPayup, Sign,
       RejectTakeAuditLock, TopUpTakeAuditLock
  <2>4. QED BY <1>1, <2>1, <2>2, <2>3, HolderKeeps DEF RowInv
<1>6. LocksBounded'
  <2>1. \E b \in Accounts : \A a \in Accounts \ {b} : rowLock'[a] = rowLock[a]
    BY <1>1, <1>2 DEF LoadLocalRecipient, LoadPayupSender, LockPending, LoadPayupRecipient,
       LockFirst, LockSecond, LockParticipant, CheckLocal, CheckPayup, Sign, RejectTakeAuditLock,
       TopUpTakeAuditLock
  <2>2. QED BY <2>1, BoundKept DEF RowInv
<1>7. HoldsRows(r)'
  <2> HIDE DEF GoTo, locks
  <2> USE DEF HoldsRows, RowStages
  <2>1. CASE LockFirst(r)
    <3>1. /\ pc[r] = "first" /\ pc'[r] = "second" /\ tokLock' = tokLock
          /\ rowLock' = [rowLock EXCEPT ![Lower(OrderOf(r))] = r]
      BY ZenonT(30), <1>1, <2>1 DEF LockFirst, LockParticipant, GoTo
    <3>2. QED BY <1>1, <1>2, <1>4, <3>1 DEF Early
  <2>2. CASE LockSecond(r)
    <3>1. /\ pc[r] = "second" /\ pc'[r] = "check" /\ tokLock' = tokLock
          /\ rowLock' = [rowLock EXCEPT ![Upper(OrderOf(r))] = r]
      BY ZenonT(30), <1>1, <2>2 DEF LockSecond, LockParticipant, GoTo
    <3>2. rowLock'[OrderOf(r).from] = r
      BY ZenonT(30), <1>1, <1>2, <3>1
    <3>3. QED BY ZenonT(30), <1>4, <3>1, <3>2 DEF Early
  <2>3. CASE LockPending(r)
    <3>1. pc[r] = "pending" /\ pc'[r] \in {"reject", "first", "payup_recipient"}
      BY <1>1, <2>3 DEF LockPending, GoTo
    <3>2. rowLock' = rowLock
      BY <2>3 DEF LockPending
    <3>3. QED BY <1>1, <3>1, <3>2 DEF Early
  <2>4. CASE LoadLocalRecipient(r) \/ LoadPayupSender(r)
    <3>1. pc[r] \in Early /\ pc'[r] \in {"pending", "reject"}
      BY <1>1, <2>4 DEF LoadLocalRecipient, LoadPayupSender, GoTo, Early
    <3>2. rowLock' = rowLock /\ tokLock' = tokLock
      BY ZenonT(30), <2>4 DEF LoadLocalRecipient, LoadPayupSender, locks
    <3>3. QED BY <1>1, <3>1, <3>2 DEF Early
  <2>5. CASE \/ LoadPayupRecipient(r) \/ CheckLocal(r) \/ CheckPayup(r) \/ Sign(r)
             \/ RejectTakeAuditLock(r) \/ TopUpTakeAuditLock(r)
    <3>1. rowLock' = rowLock /\ tokLock' = tokLock
      BY <2>5 DEF LoadPayupRecipient, CheckLocal, CheckPayup, Sign, RejectTakeAuditLock,
         TopUpTakeAuditLock, locks
    <3>2. /\ pc[r] \in RowStages \ {"second"} => pc'[r] \in RowStages \ {"second"}
          /\ pc'[r] # "second" /\ pc'[r] \notin Early
      BY <1>1, <2>5 DEF LoadPayupRecipient, CheckLocal, CheckPayup, Sign, RejectTakeAuditLock,
         TopUpTakeAuditLock, GoTo, Early
    <3>3. pc[r] # "second"
      BY <2>5 DEF LoadPayupRecipient, CheckLocal, CheckPayup, Sign, RejectTakeAuditLock,
         TopUpTakeAuditLock
    <3>4. QED BY <1>1, <1>4, <3>1, <3>2, <3>3
  <2>6. QED BY ZenonT(30), <2>1, <2>2, <2>3, <2>4, <2>5
<1>8. QED BY <1>5, <1>6, <1>7

\* The steps that end a request.
LEMMA RowsEnd ==
    ASSUME RowInv, NEW r \in Requests,
           \/ CommitTransfer(r) \/ TopUpCredit(r) \/ RejectCommit(r)
           \/ RejectAuditFails(r) \/ DeadlockAbort(r) \/ Fail(r)
    PROVE  LocksBounded' /\ \A q \in Requests : HoldsRows(q)'
<1>1. TypeOK /\ pc \in [Requests -> Stages] /\ work[r].tok \in Tokens
  BY DEF RowInv, TypeOK, Works
<1>2. EndSession(r) /\ work' = work /\ pc'[r] \in Finished
  BY <1>1 DEF CommitTransfer, TopUpCredit, RejectCommit, RejectAuditFails, DeadlockAbort, Fail,
     Finished, GoTo
<1>3. \A q \in Requests \ {r} : pc'[q] = pc[q]
  BY ZenonT(30), <1>1 DEF CommitTransfer, TopUpCredit, RejectCommit, RejectAuditFails,
     DeadlockAbort, Fail, GoTo
<1>4. HoldsRows(r)'
  BY <1>1, <1>2, EndReleases DEF HoldsRows, Finished
<1>5. \A q \in Requests \ {r} : HoldsRows(q)'
  BY <1>1, <1>2, <1>3, EndReleases, HolderKeeps DEF RowInv
<1>6. Order[work[r].tok].from \in Accounts
  BY <1>1, OrderFacts
<1>7. LocksBounded'
  BY <1>1, <1>2, <1>6, EndReleases, BoundKept DEF RowInv
<1>8. QED BY <1>4, <1>5, <1>7

\* Starting a request.
LEMMA RowsStart ==
    ASSUME RowInv, NEW r \in Requests, NEW t \in Tokens,
           StartLocal(r, t) \/ StartPayup(r, t) \/ StartTopUp(r, t)
    PROVE  LocksBounded' /\ \A q \in Requests : HoldsRows(q)'
<1> USE DEF GoTo, locks
<1>1. /\ TypeOK /\ HoldsRows(r) /\ r # Free /\ pc[r] = "idle"
      /\ work \in [Requests -> Works] /\ pc \in [Requests -> Stages]
      /\ tokLock \in [Tokens -> Requests \cup {Free}]
  BY FreeIsNobody DEF RowInv, TypeOK, StartLocal, StartPayup, StartTopUp
<1>2. /\ rowLock' = rowLock
      /\ \A q \in Requests \ {r} : pc'[q] = pc[q] /\ work'[q] = work[q]
      /\ \A q \in Requests \ {r} : \A u \in Tokens : tokLock'[u] = q <=> tokLock[u] = q
  BY <1>1, FreeIsNobody DEF StartLocal, StartPayup, StartTopUp
<1>3. pc'[r] \in {"recipient", "load", "topup_audit"}
  BY <1>1 DEF StartLocal, StartPayup, StartTopUp
<1>4. \A u \in Tokens : tokLock'[u] = r => pc'[r] \notin Early
  <2>1. \A u \in Tokens : tokLock[u] # r
    BY <1>1 DEF HoldsRows, Early
  <2>2. QED BY <1>1, <2>1 DEF StartLocal, StartPayup, StartTopUp, Early
<1>5. HoldsRows(r)'
  BY <1>1, <1>2, <1>3, <1>4 DEF HoldsRows, RowStages
<1>6. \A q \in Requests \ {r} : HoldsRows(q)'
  BY <1>1, <1>2, HolderKeeps DEF RowInv
<1>7. QED BY <1>2, <1>5, <1>6 DEF RowInv, LocksBounded

\* The invariant of the row locks is inductive.
LEMMA RowStep == RowInv /\ [Next]_vars => RowInv'
<1> SUFFICES ASSUME RowInv, [Next]_vars
             PROVE  LocksBounded' /\ \A q \in Requests : HoldsRows(q)'
  BY TypeStep DEF RowInv
<1>1. ASSUME UNCHANGED <<rowLock, tokLock, pc, work>>
      PROVE  LocksBounded' /\ \A q \in Requests : HoldsRows(q)'
  BY <1>1, HolderKeeps DEF RowInv, LocksBounded
<1>2. ASSUME NEW r \in Requests, Start(r)
      PROVE  LocksBounded' /\ \A q \in Requests : HoldsRows(q)'
  BY <1>2, RowsStart DEF Start
<1>3. ASSUME NEW r \in Requests,
             Step(r) \/ RejectAuditFails(r) \/ DeadlockAbort(r) \/ Fail(r)
      PROVE  LocksBounded' /\ \A q \in Requests : HoldsRows(q)'
  BY <1>3, RowsGoOn, RowsEnd DEF Step
<1>4. ASSUME NEW t \in Tokens,
             SubmitLocal(t) \/ SubmitPayup(t) \/ SubmitTopUp(t) \/ Expire(t)
      PROVE  UNCHANGED <<rowLock, tokLock, pc, work>>
  BY <1>4 DEF SubmitLocal, SubmitPayup, SubmitTopUp, Offer, Expire, locks
<1>5. ASSUME NEW a \in Accounts, Freeze(a) \/ \E l \in Limits : ChangeLimits(a, l)
      PROVE  UNCHANGED <<rowLock, tokLock, pc, work>>
  BY <1>5 DEF Freeze, ChangeLimits, locks
<1>6. CASE Midnight \/ UNCHANGED vars
  BY <1>1, <1>6 DEF Midnight, vars, locks
<1>7. QED BY <1>1, <1>2, <1>3, <1>4, <1>5, <1>6 DEF Next

\* Where a transfer is before both of its participants are locked.
Locking == {"load", "recipient", "pending", "payup_recipient", "first", "second"}

\* Only a request that carries out a transfer locks two participants.
TransferStages ==
    \A r \in Requests : pc[r] \in Locking => OrderOf(r).chan # "topup"

\* The locking stages are entered only from the start of a transfer.
LEMMA TransferStep == TypeOK /\ TransferStages /\ [Next]_vars => TransferStages'
<1> SUFFICES ASSUME TypeOK, TransferStages, [Next]_vars, NEW q \in Requests,
                    pc'[q] \in Locking
             PROVE  OrderOf(q).chan' # "topup"
  BY DEF TransferStages
<1>0. pc \in [Requests -> Stages] /\ work \in [Requests -> Works]
  BY DEF TypeOK
<1>1. ASSUME pc[q] \in Locking, work'[q].tok = work[q].tok
      PROVE  OrderOf(q).chan' # "topup"
  BY <1>1 DEF TransferStages, OrderOf
<1> USE DEF GoTo, Locking
<1>2. ASSUME NEW r \in Requests, Start(r) PROVE OrderOf(q).chan' # "topup"
  <2> PICK t \in Tokens : StartLocal(r, t) \/ StartPayup(r, t) \/ StartTopUp(r, t)
    BY <1>2 DEF Start
  <2>1. CASE q = r
    BY <1>0, <2>1 DEF StartLocal, StartPayup, StartTopUp, OrderOf, Works
  <2>2. CASE q # r
    <3>1. pc'[q] = pc[q] /\ work'[q] = work[q]
      BY <1>0, <2>2 DEF StartLocal, StartPayup, StartTopUp
    <3>2. QED BY <1>1, <3>1
  <2>3. QED BY <2>1, <2>2
<1>3. ASSUME NEW r \in Requests,
             Step(r) \/ RejectAuditFails(r) \/ DeadlockAbort(r) \/ Fail(r)
      PROVE  OrderOf(q).chan' # "topup"
  <2>1. work'[q].tok = work[q].tok
    BY <1>0, <1>3 DEF Step, LoadLocalRecipient, LoadPayupSender, LockPending, LoadPayupRecipient,
       LockFirst, LockSecond, LockParticipant, CheckLocal, CheckPayup, Sign, CommitTransfer,
       RejectTakeAuditLock, RejectCommit, TopUpTakeAuditLock, TopUpCredit, RejectAuditFails,
       DeadlockAbort, Fail, Works
  <2>2. pc[q] \in Locking
    BY <1>0, <1>3 DEF Step, LoadLocalRecipient, LoadPayupSender, LockPending, LoadPayupRecipient,
       LockFirst, LockSecond, LockParticipant, CheckLocal, CheckPayup, Sign, CommitTransfer,
       RejectTakeAuditLock, RejectCommit, TopUpTakeAuditLock, TopUpCredit, RejectAuditFails,
       DeadlockAbort, Fail
  <2>3. QED BY <1>1, <2>1, <2>2
<1>4. CASE \/ \E t \in Tokens : SubmitLocal(t) \/ SubmitPayup(t) \/ SubmitTopUp(t) \/ Expire(t)
           \/ \E a \in Accounts : Freeze(a) \/ \E l \in Limits : ChangeLimits(a, l)
           \/ Midnight \/ UNCHANGED vars
  <2>1. UNCHANGED <<pc, work>>
    BY <1>4 DEF SubmitLocal, SubmitPayup, SubmitTopUp, Offer, Expire, Freeze, ChangeLimits,
       Midnight, vars
  <2>2. QED BY <1>1, <2>1
<1>5. QED BY <1>2, <1>3, <1>4 DEF Next

\* A holder of a users row that itself waits for a row has locked its lower
\* participant, the row in question, and waits for the upper one.
LEMMA RowHolderWaits ==
    ASSUME RowInv, NEW r \in Requests, NEW a \in Accounts, rowLock[a] = r,
           RowBlocker(r) \in Requests
    PROVE  pc[r] = "second" /\ a = Lower(OrderOf(r))
<1>1. HoldsRows(r) /\ Free \notin Requests
  BY FreeIsNobody DEF RowInv
<1>2. pc[r] \in RowStages
  BY <1>1 DEF HoldsRows
<1>3. pc[r] # "reject_insert"
  <2>1. SUFFICES ASSUME pc[r] = "reject_insert" PROVE RowBlocker(r) = Free
    BY <1>1
  <2>2. rowLock[OrderOf(r).from] = r
    BY <1>1, <2>1 DEF HoldsRows
  <2>3. QED BY <2>1, <2>2 DEF RowBlocker
<1>4. pc[r] = "second"
  BY <1>1, <1>2, <1>3 DEF RowStages, RowBlocker
<1>5. QED BY <1>1, <1>4 DEF HoldsRows

\* The row locks alone never close a cycle.
LEMMA NoRowCycle == RowInv /\ TransferStages => RowLocksAcyclic
<1> SUFFICES ASSUME RowInv, TransferStages, NEW C \in SUBSET Requests, C # {},
                    \A r \in C : RowBlocker(r) \in C
             PROVE  FALSE
  BY DEF RowLocksAcyclic, WaitCycle
<1>1. /\ TypeOK /\ Free \notin Requests
      /\ \A r \in Requests : HoldsRows(r) /\ work[r].tok \in Tokens
  BY FreeIsNobody DEF RowInv, TypeOK, Works
<1>2. \A r \in C : RowBlocker(r) # Free /\ RowBlocker(r) \in Requests
  BY <1>1
<1>3. ASSUME NEW r \in C, pc[r] # "pending"
      PROVE  \E a \in Accounts : rowLock[a] = RowBlocker(r)
  <2>1. pc[r] \in {"first", "second", "reject_insert", "topup_credit"}
    BY <1>2, <1>3 DEF RowBlocker
  <2>2. /\ Lower(OrderOf(r)) \in Accounts /\ Upper(OrderOf(r)) \in Accounts
        /\ OrderOf(r).from \in Accounts /\ OrderOf(r).to \in Accounts
    BY <1>1, Participants
  <2>3. CASE pc[r] = "reject_insert"
    <3>1. RowBlocker(r) = rowLock[OrderOf(r).from]
      BY <1>2, <2>3 DEF RowBlocker
    <3>2. QED BY <2>2, <3>1
  <2>4. QED BY <2>1, <2>2, <2>3 DEF RowBlocker
<1>4. \A r \in C : pc[r] # "pending" => pc[RowBlocker(r)] = "second"
  BY <1>2, <1>3, RowHolderWaits
<1>5. ASSUME NEW r \in C, pc[r] = "pending" PROVE pc[RowBlocker(r)] # "pending"
  <2>1. RowBlocker(r) = tokLock[work[r].tok]
    BY <1>5 DEF RowBlocker
  <2>2. QED BY <1>1, <1>2, <2>1 DEF HoldsRows, Early
<1>6. \E r \in C : pc[r] = "second"
  BY <1>4, <1>5
<1>7. DEFINE S == {Lower(OrderOf(r)) : r \in {q \in C : pc[q] = "second"}}
<1>8. ASSUME NEW r \in C, pc[r] = "second"
      PROVE  \E q \in C : pc[q] = "second" /\ Lower(OrderOf(r)) < Lower(OrderOf(q))
  <2>1. RowBlocker(r) = rowLock[Upper(OrderOf(r))]
    BY <1>8 DEF RowBlocker
  <2>2. Upper(OrderOf(r)) \in Accounts
    BY <1>1, Participants
  <2>3. Lower(OrderOf(r)) < Upper(OrderOf(r))
    BY <1>1, <1>8, Participants DEF TransferStages, Locking
  <2>4. DEFINE q == RowBlocker(r)
  <2>5. q \in C /\ q \in Requests /\ RowBlocker(q) \in Requests
    BY <1>2
  <2>6. pc[q] = "second" /\ Upper(OrderOf(r)) = Lower(OrderOf(q))
    BY <2>1, <2>2, <2>5, RowHolderWaits
  <2>7. QED BY <2>3, <2>5, <2>6
<1>9. S \subseteq Nat /\ S # {} /\ S \subseteq {a \in Accounts : rowLock[a] # Free}
  <2>1. \A r \in C : pc[r] = "second" =>
           /\ Lower(OrderOf(r)) \in Accounts /\ Lower(OrderOf(r)) \in Nat
           /\ rowLock[Lower(OrderOf(r))] # Free
    BY Zenon, <1>1, Participants, AccountIds DEF HoldsRows
  <2>2. QED BY <1>6, <2>1
<1>10. PICK n \in Nat : \A x \in S : x <= n
  BY <1>9 DEF RowInv, LocksBounded
<1>11. PICK x \in S : \A y \in S : y <= x
  BY Zenon, <1>9, <1>10, GreatestNatural
<1>12. PICK r \in C : pc[r] = "second" /\ x = Lower(OrderOf(r))
  OBVIOUS
<1>13. PICK q \in C : pc[q] = "second" /\ x < Lower(OrderOf(q))
  BY <1>8, <1>12
<1>14. Lower(OrderOf(q)) \in S
  BY <1>13
<1>15. QED BY <1>9, <1>11, <1>13, <1>14

\* Whatever requests wait for users rows and pending rows, they do not wait in a circle:
\* the participants are locked in ascending order of ids (_lock_transfer_participants),
\* after the pending row (_load_pending_local_transfer).
THEOREM RowsAcyclic == Spec => []RowLocksAcyclic
<1>1. Init => RowInv /\ TransferStages
  <2>1. Init => TypeOK
    BY TokenInit DEF TokenInv
  <2>2. Init => LocksBounded
    BY ZenonT(30) DEF Init, LocksBounded
  <2>3. Init => \A r \in Requests : HoldsRows(r)
    BY FreeIsNobody DEF Init, HoldsRows
  <2>4. Init => TransferStages
    BY DEF Init, TransferStages, Locking
  <2>5. QED BY <2>1, <2>2, <2>3, <2>4 DEF RowInv
<1>2. RowInv /\ TransferStages /\ [Next]_vars => RowInv' /\ TransferStages'
  BY RowStep, TransferStep DEF RowInv
<1>3. QED BY <1>1, <1>2, NoRowCycle, PTL DEF Spec
============================================================================
