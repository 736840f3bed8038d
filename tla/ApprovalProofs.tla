--------------------------- MODULE ApprovalProofs ---------------------------
(* Proofs about what needs a second person or a second device: the two-person  *)
(* rule of AdminActions and the customer locks of CustomerLocks, for any       *)
(* number of employees, customers, requests and handlers, and the approval of  *)
(* a top-up (TopUpApproval), for any approval requests, devices and codes.     *)
EXTENDS AdminActions, TopUpApproval, TLAPS

-----------------------------------------------------------------------------
(* Administrative actions and customer locks.                                  *)

\* What a handler may have in hand.
AdminJobs ==
  LockJobs
  \cup [op : {"submit"}, target : Recoveries]
  \cup [op : {"ask"}, actor : Roots, cust : Customers]
  \cup [op : {"review"}, target : Recoveries, seen : RecoveryRow]
  \cup [op : {"approve"}, actor : Roots, req : Requests, seen : MemberRow \cup RecoveryRow \cup {Unloaded}]
  \cup [op : {"finish"}, actor : Roots, req : Requests, status : {"rejected", "executed", "execution_failed"}]
  \cup [op : {"cancel"}, req : Requests]

\* What a handler has in hand, by the operation it is in.
LEMMA JobFields ==
  ASSUME NEW j \in AdminJobs
  PROVE  /\ j.op \in {"signin", "freezeOwn", "unfreeze", "freeze", "failed", "lock", "ask"} => j.cust \in Customers
         /\ j.op = "submit" => j.target \in Recoveries
         /\ j.op = "failed" => j.scope \in Scopes
         /\ j.op = "lock" => j.reason \in LockReasons /\ j.seen \in LockRow \cup {Unloaded}
         /\ j.op = "review" => j.target \in Recoveries /\ j.seen \in RecoveryRow
         /\ j.op \in {"approve", "finish", "cancel"} => j.req \in Requests
         /\ j.op \in {"ask", "approve", "finish"} => j.actor \in Roots
         /\ j.op = "finish" => j.status \in {"rejected", "executed", "execution_failed"}
         /\ j.op = "approve" =>
              j \in [op : {"approve"}, actor : Roots, req : Requests, seen : MemberRow \cup RecoveryRow \cup {Unloaded}]
  BY DEF AdminJobs, LockJobs, Idle

LEMMA JobsAre ==
  /\ Idle \in AdminJobs
  /\ \A o \in {"signin", "freezeOwn", "unfreeze", "freeze"}, c \in Customers :
       [op |-> o, cust |-> c] \in AdminJobs
  /\ \A i \in Recoveries : [op |-> "submit", target |-> i] \in AdminJobs
  /\ \A a \in Roots, c \in Customers : [op |-> "ask", actor |-> a, cust |-> c] \in AdminJobs
  /\ \A c \in Customers, s \in Scopes : [op |-> "failed", cust |-> c, scope |-> s] \in AdminJobs
  /\ \A c \in Customers, r \in LockReasons, l \in LockRow \cup {Unloaded} :
       [op |-> "lock", cust |-> c, reason |-> r, seen |-> l] \in AdminJobs
  /\ \A i \in Recoveries, r \in RecoveryRow : [op |-> "review", target |-> i, seen |-> r] \in AdminJobs
  /\ \A a \in Roots, q \in Requests, r \in MemberRow \cup RecoveryRow \cup {Unloaded} :
       [op |-> "approve", actor |-> a, req |-> q, seen |-> r] \in AdminJobs
  /\ \A a \in Roots, q \in Requests, s \in {"rejected", "executed", "execution_failed"} :
       [op |-> "finish", actor |-> a, req |-> q, status |-> s] \in AdminJobs
  /\ [op : {"approve"}, actor : Roots, req : Requests, seen : MemberRow \cup RecoveryRow \cup {Unloaded}]
       \subseteq AdminJobs
  /\ \A q \in Requests : [op |-> "cancel", req |-> q] \in AdminJobs
  BY DEF AdminJobs, LockJobs, Idle

RequestFields == {"op", "target", "lock", "requester", "approver", "due", "status"}

\* The tables are indexed by their ids, and their rows have their columns.
Tables ==
  /\ DOMAIN job = Handlers
  /\ DOMAIN cust = Customers /\ clock \in Nat
  /\ \A c \in Customers : "at" \in DOMAIN cust[c]
  /\ DOMAIN member = Members
  /\ DOMAIN recovery = Recoveries
  /\ \A i \in Recoveries : "status" \in DOMAIN recovery[i]
  /\ DOMAIN request = Requests
  /\ \A q \in Requests : request[q] # NoRow => RequestFields \subseteq DOMAIN request[q]

\* What a decision under way knows of its request: it exists, and an approval has an
\* actor other than the requester.
DecisionsKnown ==
  \A h \in Handlers :
    /\ job[h].op \in {"approve", "finish", "cancel"} =>
         job[h].req \in Requests /\ request[job[h].req] # NoRow
    /\ job[h].op = "approve" =>
         /\ request[job[h].req].requester # job[h].actor
         /\ {"op", "actor", "req"} \subseteq DOMAIN job[h]

\* Decisions on recoveries are about recoveries, and a completion is asked for only
\* after an approval.
CompletionsGranted ==
  /\ \A i \in Recoveries : recovery[i].status = "approved" => i \in granted
  /\ \A q \in Requests : request[q] # NoRow =>
       /\ request[q].op \in RecoveryOps => request[q].target \in Recoveries
       /\ request[q].op = "manual_recovery_complete" => request[q].target \in granted

\* The inductive invariant.
AdminInv == Tables /\ DecisionsKnown /\ CompletionsGranted

LEMMA AdminBegin == AdminInit => AdminInv
  <1> SUFFICES ASSUME AdminInit PROVE AdminInv
    OBVIOUS
  <1>1. Tables
    BY DEF AdminInit, LocksInit, Tables, NoRow
  <1>2. DecisionsKnown /\ CompletionsGranted
    BY DEF AdminInit, LocksInit, DecisionsKnown, CompletionsGranted, Idle, NoRow
  <1> QED BY <1>1, <1>2 DEF AdminInv

-----------------------------------------------------------------------------
\* A request that exists keeps what it asks, of whom and by whom.
RequestsStand ==
  /\ DOMAIN request' = Requests
  /\ \A q \in Requests : request[q] # NoRow =>
       /\ request'[q] # NoRow /\ RequestFields \subseteq DOMAIN request'[q]
       /\ request'[q].op = request[q].op /\ request'[q].target = request[q].target
       /\ request'[q].requester = request[q].requester

LEMMA RequestIsRow ==
  ASSUME NEW r, RequestFields \subseteq DOMAIN r
  PROVE  r # NoRow
  BY DEF RequestFields, NoRow

LEMMA DecideStands ==
  ASSUME Tables, NEW q \in Requests, request[q] # NoRow, NEW a, NEW s, Decide(q, a, s)
  PROVE  RequestsStand /\ \A p \in Requests : request'[p] # NoRow => request[p] # NoRow
  <1>1. \A p \in Requests : p # q => request'[p] = request[p]
    BY DEF Tables, Decide
  <1>2. /\ DOMAIN request' = Requests
        /\ RequestFields \subseteq DOMAIN request'[q]
        /\ request'[q].op = request[q].op /\ request'[q].target = request[q].target
        /\ request'[q].requester = request[q].requester
    BY DEF Tables, Decide, RequestFields
  <1>3. request'[q] # NoRow
    BY <1>2, RequestIsRow
  <1> QED BY <1>1, <1>2, <1>3 DEF Tables, RequestsStand

LEMMA StatusStands ==
  ASSUME Tables, NEW q \in Requests, request[q] # NoRow, NEW s,
         \/ request' = [request EXCEPT ![q].status = s]
         \/ request' = [request EXCEPT ![q].due = s]
  PROVE  RequestsStand /\ \A p \in Requests : request'[p] # NoRow => request[p] # NoRow
  <1>1. \A p \in Requests : p # q => request'[p] = request[p]
    BY DEF Tables
  <1>2. /\ DOMAIN request' = Requests
        /\ RequestFields \subseteq DOMAIN request'[q]
        /\ request'[q].op = request[q].op /\ request'[q].target = request[q].target
        /\ request'[q].requester = request[q].requester
    BY DEF Tables, RequestFields
  <1>3. request'[q] # NoRow
    BY <1>2, RequestIsRow
  <1> QED BY <1>1, <1>2, <1>3 DEF Tables, RequestsStand

LEMMA CreateStands ==
  ASSUME Tables, NEW a, NEW q \in Requests, NEW op, NEW t, NEW l,
         CreateAdminActionRequest(a, q, op, t, l)
  PROVE  /\ RequestsStand
         /\ \A p \in Requests : p # q => request'[p] = request[p]
         /\ request'[q].op = op /\ request'[q].target = t
         /\ RequestFields \subseteq DOMAIN request'[q]
  <1>1. \A p \in Requests : p # q => request'[p] = request[p]
    BY DEF Tables, CreateAdminActionRequest
  <1>2. request'[q].op = op /\ request'[q].target = t /\ RequestFields \subseteq DOMAIN request'[q]
    BY DEF Tables, CreateAdminActionRequest, RequestFields
  <1>3. DOMAIN request' = Requests /\ request[q] = NoRow
    BY DEF Tables, CreateAdminActionRequest
  <1> QED BY <1>1, <1>2, <1>3 DEF Tables, RequestsStand

-----------------------------------------------------------------------------
(* The invariant, conjunct by conjunct.                                       *)

LEMMA RequestsStep ==
  ASSUME AdminInv, [AdminNext]_makerVars
  PROVE  RequestsStand
  <1> USE DEF AdminInv
  <1>0. request' = request => RequestsStand
    BY DEF Tables, RequestsStand
  <1>1. CASE UNCHANGED makerVars
    BY <1>0, <1>1 DEF makerVars, adminVars
  <1>2. CASE LocksNext /\ UNCHANGED adminVars
    BY <1>0, <1>2 DEF adminVars
  <1>3. CASE RecoveryNext
    <2>1. CASE \E i \in Recoveries, a \in Roots, q \in Requests, op \in RecoveryOps :
                 RequestRecoveryDecision(a, q, i, op)
      BY <2>1, CreateStands DEF RequestRecoveryDecision
    <2> QED
      BY Zenon, <1>0, <1>3, <2>1 DEF RecoveryNext, SubmitRecovery, InsertRecovery, ReviewLoad,
         adminVars, ReviewCommit, ExecuteRecovery, RecoveryFallsDue, ExpireOnRequest,
         ExpireManualRecoveryRequests
  <1>4. CASE AccountsNext
    <2>1. ASSUME NEW h \in Handlers, ExecuteStaff(h)
          PROVE  RequestsStand
      <3>1. job[h].req \in Requests /\ request[job[h].req] # NoRow
        BY <2>1 DEF ExecuteStaff, DecisionsKnown
      <3> QED BY <2>1, <3>1, DecideStands DEF ExecuteStaff
    <2> QED BY <1>4, <2>1, CreateStands DEF AccountsNext, RequestStaffTransition
  <1>5. CASE UnlockNext
    <2>1. ASSUME NEW h \in Handlers, ExecuteUnlock(h)
          PROVE  RequestsStand
      <3>1. job[h].req \in Requests /\ request[job[h].req] # NoRow
        BY <2>1 DEF ExecuteUnlock, DecisionsKnown
      <3> QED BY ZenonT(30), <2>1, <3>1, DecideStands DEF ExecuteUnlock
    <2>2. ASSUME NEW h \in Handlers, NEW q \in Requests, RequestCustomerSecurityUnlock(h, q)
          PROVE  RequestsStand
      BY Zenon, <2>2, CreateStands DEF RequestCustomerSecurityUnlock
    <2> QED BY Zenon, <1>0, <1>5, <2>1, <2>2 DEF UnlockNext, UnlockRequestCheck, adminVars
  <1>6. CASE DecisionNext
    <2>1. ASSUME NEW h \in Handlers, FinishDecision(h)
          PROVE  RequestsStand
      <3>1. job[h].req \in Requests /\ request[job[h].req] # NoRow
        BY <2>1 DEF FinishDecision, DecisionsKnown
      <3> QED BY <2>1, <3>1, DecideStands DEF FinishDecision
    <2>2. ASSUME NEW h \in Handlers, CancelCommit(h)
          PROVE  RequestsStand
      <3>1. job[h].req \in Requests /\ request[job[h].req] # NoRow
        BY <2>2 DEF CancelCommit, DecisionsKnown
      <3> QED BY Zenon, <2>2, <3>1, StatusStands DEF CancelCommit
    <2>3. ASSUME NEW q \in Requests,
                 RequestFallsDue(q) \/ \E a \in Roots : ExpireAdminActionRequest(a, q)
          PROVE  RequestsStand
      <3>1. request[q] # NoRow
        BY <2>3 DEF RequestFallsDue, ExpireAdminActionRequest, NoRow
      <3> QED BY <2>3, <3>1, StatusStands DEF RequestFallsDue, ExpireAdminActionRequest
    <2> QED BY Zenon, <1>0, <1>6, <2>1, <2>2, <2>3 DEF DecisionNext, ApproveCheck, RejectCheck,
               CancelCheck, ExecuteLoad, RootWithdrawn, adminVars
  <1> QED BY <1>1, <1>2, <1>3, <1>4, <1>5, <1>6 DEF AdminNext

\* How the handlers of an action that takes no decision in hand move.
NoNewDecision ==
  /\ DOMAIN job' = Handlers
  /\ \A k \in Handlers : job'[k] # job[k] => job'[k].op \notin {"approve", "finish", "cancel"}

LEMMA LocksDecideNothing ==
  ASSUME Tables, LocksNext
  PROVE  NoNewDecision
  <1> USE DEF Tables, NoNewDecision, Begin, Done, Idle
  <1>1. ASSUME NEW h \in Handlers, NEW c \in Customers,
               \/ SignInCheck(h, c)
               \/ FreezeOwnCheck(h, c)
               \/ \E s \in Scopes : WrongSecret(h, c, s)
               \/ \E s \in Staff : UnfreezeCheck(h, s, c) \/ StaffFreezeCheck(h, s, c)
        PROVE  NoNewDecision
    BY <1>1 DEF SignInCheck, FreezeOwnCheck, WrongSecret, UnfreezeCheck, StaffFreezeCheck
  <1>2. ASSUME NEW h \in Handlers, RecordFailure(h)
        PROVE  NoNewDecision
    BY <1>2 DEF RecordFailure
  <1>3. ASSUME NEW h \in Handlers, Done(h)
        PROVE  NoNewDecision
    BY <1>3
  <1>4. ASSUME job' = job
        PROVE  NoNewDecision
    BY <1>4
  <1> QED
    BY Zenon, <1>1, <1>2, <1>3, <1>4 DEF LocksNext, SignInFinish, LockUserAccount, FreezeOwnCommit,
       UnfreezeCommit, StaffFreezeCommit, HandlerFails, FailureWindowEnds

LEMMA DecisionsStep ==
  ASSUME AdminInv, [AdminNext]_makerVars
  PROVE  DecisionsKnown' /\ DOMAIN job' = Handlers
  <1> USE DEF AdminInv
  <1>0. RequestsStand
    BY RequestsStep
  <1>a. NoNewDecision => DecisionsKnown' /\ DOMAIN job' = Handlers
    BY <1>0 DEF NoNewDecision, DecisionsKnown, RequestsStand
  <1>b. job' = job => NoNewDecision
    BY DEF NoNewDecision, Tables
  <1>c. \A h \in Handlers : Done(h) => NoNewDecision
    BY DEF NoNewDecision, Tables, Done, Idle
  <1>n. ASSUME NEW h \in Handlers,
               \/ \E i \in Recoveries : SubmitRecovery(h, i)
               \/ \E i \in Recoveries, a \in Roots : ReviewLoad(h, a, i)
               \/ \E a \in Roots, c \in Customers : UnlockRequestCheck(h, a, c)
        PROVE  NoNewDecision
    <2>1. ASSUME NEW i \in Recoveries, SubmitRecovery(h, i)
          PROVE  NoNewDecision
      <3> DEFINE j == [op |-> "submit", target |-> i]
      <3>1. job' = job \/ job' = [job EXCEPT ![h] = j]
        BY Zenon, <2>1 DEF SubmitRecovery
      <3>2. j.op \in {"submit", "review", "ask"}
        OBVIOUS
      <3> HIDE DEF j
      <3> QED BY <1>b, <3>1, <3>2 DEF Tables, NoNewDecision
    <2>2. ASSUME NEW i \in Recoveries, NEW a \in Roots, ReviewLoad(h, a, i)
          PROVE  NoNewDecision
      <3> DEFINE j == [op |-> "review", target |-> i, seen |-> recovery[i]]
      <3>1. job' = [job EXCEPT ![h] = j]
        BY Zenon, <2>2 DEF ReviewLoad, Begin
      <3>2. j.op \in {"submit", "review", "ask"}
        OBVIOUS
      <3> HIDE DEF j
      <3> QED BY <3>1, <3>2 DEF Tables, NoNewDecision
    <2>3. ASSUME NEW a \in Roots, NEW c \in Customers, UnlockRequestCheck(h, a, c)
          PROVE  NoNewDecision
      <3> DEFINE j == [op |-> "ask", actor |-> a, cust |-> c]
      <3>1. job' = [job EXCEPT ![h] = j]
        BY Zenon, <2>3 DEF UnlockRequestCheck, Begin
      <3>2. j.op \in {"submit", "review", "ask"}
        OBVIOUS
      <3> HIDE DEF j
      <3> QED BY <3>1, <3>2 DEF Tables, NoNewDecision
    <2> QED BY Zenon, <1>n, <2>1, <2>2, <2>3
  <1>1. CASE UNCHANGED makerVars
    BY <1>1, <1>a, <1>b DEF makerVars, lockVars
  <1>2. CASE LocksNext /\ UNCHANGED adminVars
    BY <1>2, <1>a, LocksDecideNothing
  <1>3. CASE RecoveryNext
    <2>1. ASSUME NEW h \in Handlers, ExecuteRecovery(h)
          PROVE  DecisionsKnown' /\ DOMAIN job' = Handlers
      <3>1. /\ DOMAIN job' = Handlers
            /\ \A k \in Handlers : k # h => job'[k] = job[k]
            /\ job'[h].op = "finish" /\ job'[h].req = job[h].req
        BY <2>1 DEF ExecuteRecovery, Tables
      <3>2. job[h].req \in Requests /\ request[job[h].req] # NoRow
        BY Zenon, <2>1 DEF ExecuteRecovery, DecisionsKnown
      <3> QED BY SMTT(30), <1>0, <3>1, <3>2 DEF DecisionsKnown, RequestsStand
    <2> QED BY ZenonT(30), <1>3, <1>a, <1>b, <1>c, <1>n, <2>1 DEF RecoveryNext, InsertRecovery,
               ReviewCommit, RecoveryFallsDue, ExpireOnRequest, ExpireManualRecoveryRequests,
               RequestRecoveryDecision, lockVars
  <1>4. CASE AccountsNext \/ UnlockNext
    BY Zenon, <1>4, <1>a, <1>b, <1>c, <1>n DEF AccountsNext, UnlockNext, RequestStaffTransition,
       ExecuteStaff, RequestCustomerSecurityUnlock, ExecuteUnlock, lockVars
  <1>5. CASE DecisionNext
    <2>1. ASSUME NEW h \in Handlers, NEW a \in Roots, NEW q \in Requests,
                 ApproveCheck(h, a, q) \/ RejectCheck(h, a, q) \/ CancelCheck(h, a, q)
          PROVE  DecisionsKnown' /\ DOMAIN job' = Handlers
      <3>1. request[q] # NoRow /\ request' = request
        BY <2>1 DEF ApproveCheck, RejectCheck, CancelCheck, Pending, NoRow, adminVars
      <3>2. DOMAIN job' = Handlers /\ \A k \in Handlers : k # h => job'[k] = job[k]
        BY <2>1 DEF ApproveCheck, RejectCheck, CancelCheck, Begin, Tables
      <3>3. CASE ApproveCheck(h, a, q)
        <4>1. /\ job'[h].op = "approve" /\ job'[h].req = q /\ job'[h].actor = a
              /\ {"op", "actor", "req"} \subseteq DOMAIN job'[h]
          BY <3>3 DEF ApproveCheck, Begin, Tables
        <4>2. request[q].requester # a
          BY <3>3 DEF ApproveCheck
        <4> QED BY <3>1, <3>2, <4>1, <4>2 DEF DecisionsKnown
      <3>4. CASE RejectCheck(h, a, q)
        <4>1. job'[h].op = "finish" /\ job'[h].req = q
          BY <3>4 DEF RejectCheck, Begin, Tables
        <4> QED BY <3>1, <3>2, <4>1 DEF DecisionsKnown
      <3>5. CASE CancelCheck(h, a, q)
        <4>1. job'[h].op = "cancel" /\ job'[h].req = q
          BY <3>5 DEF CancelCheck, Begin, Tables
        <4> QED BY <3>1, <3>2, <4>1 DEF DecisionsKnown
      <3> QED BY <2>1, <3>3, <3>4, <3>5
    <2>2. ASSUME NEW h \in Handlers, ExecuteLoad(h)
          PROVE  DecisionsKnown' /\ DOMAIN job' = Handlers
      <3> DEFINE s == IF request[job[h].req].op \in StaffOps THEN member[request[job[h].req].target]
                      ELSE recovery[request[job[h].req].target]
      <3>1. /\ job[h].op = "approve" /\ job[h].seen = Unloaded
            /\ job' = [job EXCEPT ![h].seen = s]
            /\ request' = request
        BY <2>2 DEF ExecuteLoad, adminVars
      <3> HIDE DEF s
      <3>2. {"op", "actor", "req"} \subseteq DOMAIN job[h]
        BY <3>1 DEF DecisionsKnown
      <3>3. DOMAIN job' = Handlers /\ \A k \in Handlers : k # h => job'[k] = job[k]
        BY <3>1 DEF Tables
      <3>4. /\ job'[h].op = "approve" /\ job'[h].actor = job[h].actor /\ job'[h].req = job[h].req
            /\ {"op", "actor", "req"} \subseteq DOMAIN job'[h]
        BY <3>1, <3>2 DEF Tables
      <3> QED BY <3>1, <3>3, <3>4 DEF DecisionsKnown
    <2> QED BY Zenon, <1>5, <1>a, <1>b, <1>c, <2>1, <2>2 DEF DecisionNext, FinishDecision,
               CancelCommit, RequestFallsDue, ExpireAdminActionRequest, RootWithdrawn, lockVars
  <1> QED BY <1>1, <1>2, <1>3, <1>4, <1>5 DEF AdminNext

-----------------------------------------------------------------------------
(* What the actions do to locks, recoveries and staff accounts.               *)

\* A step that lifts no lock: a lock column that changes is a new lock's, and the
\* account's sessions are gone.
LocksOnlyPlaced ==
  /\ DOMAIN cust' = Customers /\ clock' \in Nat
  /\ \A c \in Customers :
       /\ "at" \in DOMAIN cust'[c]
       /\ cust'[c].at # cust[c].at => cust'[c].at # 0 /\ c \notin live'

LEMMA FlushKeepsColumns ==
  ASSUME NEW now, NEW seen, NEW new, "at" \in DOMAIN now, "at" \in DOMAIN new
  PROVE  /\ "at" \in DOMAIN Flush(now, seen, new)
         /\ Flush(now, seen, new).at \in {now.at, new.at}
  BY DEF Flush

LEMMA LocksPlaced ==
  ASSUME Tables, LocksNext
  PROVE  LocksOnlyPlaced
  <1>0. UNCHANGED <<cust, clock>> => LocksOnlyPlaced
    BY DEF Tables, LocksOnlyPlaced
  <1>1. ASSUME NEW h \in Handlers, LockUserAccount(h)
        PROVE  LocksOnlyPlaced
    <2> DEFINE c == job[h].cust
               new == [frozen |-> TRUE, at |-> clock + 1, reason |-> job[h].reason]
    <2>1. /\ cust' = [cust EXCEPT ![c] = Flush(cust[c], job[h].seen, new)]
          /\ clock' = clock + 1 /\ live' = live \ {c}
      BY <1>1 DEF LockUserAccount
    <2>2. "at" \in DOMAIN new /\ new.at = clock + 1
      OBVIOUS
    <2> HIDE DEF new
    <2>3. c \in Customers => /\ "at" \in DOMAIN Flush(cust[c], job[h].seen, new)
                             /\ Flush(cust[c], job[h].seen, new).at \in {cust[c].at, clock + 1}
      BY <2>2, FlushKeepsColumns DEF Tables
    <2> DEFINE f == Flush(cust[c], job[h].seen, new)
    <2> HIDE DEF f, c
    <2>4. clock + 1 # 0 /\ clock + 1 \in Nat
      BY DEF Tables
    <2> QED BY <2>1, <2>3, <2>4 DEF f, Tables, LocksOnlyPlaced
  <1>2. ASSUME NEW h \in Handlers, FreezeOwnCommit(h) \/ UnfreezeCommit(h)
        PROVE  LocksOnlyPlaced
    BY <1>2 DEF FreezeOwnCommit, UnfreezeCommit, Tables, LocksOnlyPlaced
  <1>3. ASSUME NEW h \in Handlers, StaffFreezeCommit(h)
        PROVE  LocksOnlyPlaced
    BY <1>3 DEF StaffFreezeCommit, Tables, LocksOnlyPlaced
  <1> QED
    BY Zenon, <1>0, <1>1, <1>2, <1>3 DEF LocksNext, SignInCheck, FreezeOwnCheck, WrongSecret,
       UnfreezeCheck, StaffFreezeCheck, SignInFinish, RecordFailure, HandlerFails, FailureWindowEnds

\* A step that decides on no recovery.
RecoveriesUndecided ==
  /\ DOMAIN recovery' = Recoveries /\ mfa' = mfa /\ granted' = granted
  /\ \A i \in Recoveries :
       /\ "status" \in DOMAIN recovery'[i]
       /\ recovery'[i].status # recovery[i].status =>
            recovery'[i].status \notin {"approved", "denied", "completed"}

LEMMA RecoveriesStep ==
  ASSUME Tables, [AdminNext]_makerVars
  PROVE  RecoveriesUndecided \/ \E h \in Handlers : ExecuteRecovery(h)
  <1>0. UNCHANGED <<recovery, mfa, granted>> => RecoveriesUndecided
    BY DEF Tables, RecoveriesUndecided
  <1>1. CASE RecoveryNext
    <2>1. ASSUME NEW h \in Handlers, NEW i \in Recoveries, SubmitRecovery(h, i)
          PROVE  RecoveriesUndecided
      BY <2>1 DEF SubmitRecovery, Tables, RecoveriesUndecided
    <2>2. ASSUME NEW h \in Handlers, InsertRecovery(h)
          PROVE  RecoveriesUndecided
      BY <2>2 DEF InsertRecovery, Tables, RecoveriesUndecided
    <2>3. ASSUME NEW h \in Handlers, ReviewCommit(h)
          PROVE  RecoveriesUndecided
      <3> DEFINE new == RecoveryTransition(job[h].seen, "under_review")
      <3>1. new # job[h].seen.status => new \in {"expired", "under_review"}
        BY DEF RecoveryTransition
      <3> HIDE DEF new
      <3>2. /\ recovery' = [recovery EXCEPT ![job[h].target].status =
                              IF new = job[h].seen.status THEN @ ELSE new]
            /\ mfa' = mfa /\ granted' = granted
        BY <2>3 DEF ReviewCommit, new
      <3> QED BY <3>1, <3>2 DEF Tables, RecoveriesUndecided
    <2>4. ASSUME NEW i \in Recoveries, RecoveryFallsDue(i) \/ \E a \in Roots : ExpireOnRequest(a, i)
          PROVE  RecoveriesUndecided
      BY <2>4 DEF RecoveryFallsDue, ExpireOnRequest, Tables, RecoveriesUndecided
    <2>5. CASE ExpireManualRecoveryRequests
      BY <2>5 DEF ExpireManualRecoveryRequests, Tables, RecoveriesUndecided
    <2> QED BY Zenon, <1>0, <1>1, <2>1, <2>2, <2>3, <2>4, <2>5 DEF RecoveryNext, ReviewLoad,
               RequestRecoveryDecision, adminVars
  <1> QED
    BY Zenon, <1>0, <1>1 DEF AdminNext, makerVars, adminVars, AccountsNext, UnlockNext,
       DecisionNext, RequestStaffTransition, ExecuteStaff, UnlockRequestCheck,
       RequestCustomerSecurityUnlock, ExecuteUnlock, ExpireAdminActionRequest, ApproveCheck, RejectCheck, CancelCheck,
       RequestFallsDue, ExecuteLoad, FinishDecision, CancelCommit, RootWithdrawn

LEMMA LocksStep ==
  ASSUME Tables, [AdminNext]_makerVars
  PROVE  LocksOnlyPlaced \/ \E h \in Handlers : ExecuteUnlock(h)
  <1>0. UNCHANGED <<cust, clock>> => LocksOnlyPlaced
    BY DEF Tables, LocksOnlyPlaced
  <1> QED
    BY ZenonT(30), <1>0, LocksPlaced DEF AdminNext, makerVars, lockVars, AccountsNext, UnlockNext,
       DecisionNext, RecoveryNext, RequestStaffTransition, ExecuteStaff,
       UnlockRequestCheck, RequestCustomerSecurityUnlock, ExpireAdminActionRequest, ApproveCheck, RejectCheck,
       CancelCheck, RequestFallsDue, ExecuteLoad, FinishDecision, CancelCommit, RootWithdrawn,
       SubmitRecovery, InsertRecovery, ReviewLoad, ReviewCommit, ExecuteRecovery, RecoveryFallsDue,
       ExpireOnRequest, RequestRecoveryDecision, ExpireManualRecoveryRequests

LEMMA MembersStep ==
  ASSUME [AdminNext]_makerVars
  PROVE  member' = member \/ \E h \in Handlers : ExecuteStaff(h)
    BY ZenonT(30) DEF AdminNext, makerVars, adminVars, AccountsNext, UnlockNext, DecisionNext,
       RecoveryNext, RequestStaffTransition, UnlockRequestCheck, RequestCustomerSecurityUnlock, ExecuteUnlock,
       ExpireAdminActionRequest, ApproveCheck, RejectCheck, CancelCheck, RequestFallsDue,
       ExecuteLoad, FinishDecision, CancelCommit, RootWithdrawn, SubmitRecovery, InsertRecovery,
       ReviewLoad, ReviewCommit, ExecuteRecovery, RecoveryFallsDue, ExpireOnRequest,
       RequestRecoveryDecision, ExpireManualRecoveryRequests

\* What a step that adds a request has checked of it.
NewRequestsSound ==
  \A q \in Requests : request[q] = NoRow /\ request'[q] # NoRow =>
    /\ RequestFields \subseteq DOMAIN request'[q]
    /\ request'[q].op \in RecoveryOps => request'[q].target \in Recoveries
    /\ request'[q].op = "manual_recovery_complete" => recovery[request'[q].target].status = "approved"

LEMMA NewRequests ==
  ASSUME AdminInv, [AdminNext]_makerVars
  PROVE  NewRequestsSound
  <1> USE DEF AdminInv
  <1>0. (\A p \in Requests : request'[p] # NoRow => request[p] # NoRow) => NewRequestsSound
    BY DEF NewRequestsSound
  <1>1. ASSUME NEW a \in Roots, NEW q \in Requests, NEW i \in Recoveries, NEW op \in RecoveryOps,
               RequestRecoveryDecision(a, q, i, op)
        PROVE  NewRequestsSound
    <2>1. op = "manual_recovery_complete" => recovery[i].status = "approved"
      BY <1>1 DEF RequestRecoveryDecision, Decidable
    <2>2. CreateAdminActionRequest(a, q, op, i, NoRow)
      BY <1>1 DEF RequestRecoveryDecision
    <2>3. /\ \A p \in Requests : p # q => request'[p] = request[p]
          /\ request'[q].op = op /\ request'[q].target = i
          /\ RequestFields \subseteq DOMAIN request'[q]
      BY <2>2, CreateStands
    <2> QED BY <2>1, <2>3 DEF NewRequestsSound
  <1>2. ASSUME NEW a, NEW q \in Requests, NEW t, NEW l, NEW op \in StaffOps \cup {UnlockOp},
               CreateAdminActionRequest(a, q, op, t, l)
        PROVE  NewRequestsSound
    <2>1. /\ \A p \in Requests : p # q => request'[p] = request[p]
          /\ request'[q].op = op
          /\ RequestFields \subseteq DOMAIN request'[q]
      BY <1>2, CreateStands
    <2>2. op \notin RecoveryOps /\ op # "manual_recovery_complete"
      BY DEF RecoveryOps, StaffOps, UnlockOp
    <2> QED BY <2>1, <2>2 DEF NewRequestsSound
  <1>3. ASSUME NEW h \in Handlers, ExecuteStaff(h) \/ ExecuteUnlock(h) \/ FinishDecision(h)
        PROVE  NewRequestsSound
    <2>1. job[h].req \in Requests /\ request[job[h].req] # NoRow
      BY ZenonT(30), <1>3 DEF ExecuteStaff, ExecuteUnlock, FinishDecision, DecisionsKnown
    <2>2. \E a, s : Decide(job[h].req, a, s)
      BY Zenon, <1>3 DEF ExecuteStaff, ExecuteUnlock, FinishDecision
    <2> QED BY <1>0, <2>1, <2>2, DecideStands
  <1>4. ASSUME NEW h \in Handlers, CancelCommit(h)
        PROVE  NewRequestsSound
    <2>1. job[h].req \in Requests /\ request[job[h].req] # NoRow
      BY <1>4 DEF CancelCommit, DecisionsKnown
    <2> QED BY <1>0, <1>4, <2>1, StatusStands DEF CancelCommit
  <1>5. ASSUME NEW q \in Requests,
               RequestFallsDue(q) \/ \E a \in Roots : ExpireAdminActionRequest(a, q)
        PROVE  NewRequestsSound
    <2>1. request[q] # NoRow
      BY <1>5 DEF RequestFallsDue, ExpireAdminActionRequest, NoRow
    <2> QED BY <1>0, <1>5, <2>1, StatusStands DEF RequestFallsDue, ExpireAdminActionRequest
  <1>6. request' = request => NewRequestsSound
    BY <1>0
  <1>7. CASE RecoveryNext
    BY ZenonT(30), <1>1, <1>6, <1>7 DEF RecoveryNext, SubmitRecovery, InsertRecovery, ReviewLoad,
       adminVars, ReviewCommit, ExecuteRecovery, RecoveryFallsDue, ExpireOnRequest,
       ExpireManualRecoveryRequests
  <1>8. CASE AccountsNext \/ UnlockNext
    BY Zenon, <1>2, <1>3, <1>6, <1>8 DEF AccountsNext, UnlockNext, RequestStaffTransition,
       RequestCustomerSecurityUnlock, UnlockRequestCheck, adminVars
  <1>9. CASE DecisionNext
    BY Zenon, <1>3, <1>4, <1>5, <1>6, <1>9 DEF DecisionNext, ApproveCheck, RejectCheck, CancelCheck,
       ExecuteLoad, RootWithdrawn, adminVars
  <1> QED BY <1>6, <1>7, <1>8, <1>9 DEF AdminNext, makerVars, adminVars

LEMMA ApprovalsRecorded ==
  ASSUME Tables, NEW h \in Handlers, ExecuteRecovery(h)
  PROVE  /\ DOMAIN recovery' = Recoveries /\ granted \subseteq granted'
         /\ \A i \in Recoveries :
              /\ "status" \in DOMAIN recovery'[i]
              /\ recovery'[i].status # recovery[i].status => i = request[job[h].req].target
              /\ recovery'[i].status = "approved" => recovery[i].status = "approved" \/ i \in granted'
  <1> DEFINE i == request[job[h].req].target
             seen == job[h].seen
             op == request[job[h].req].op
             mine == MayActOn(job[h].actor, Owner[i])
             ok == mine /\ RecoverySucceeds(op, seen, Owner[i])
             new == IF ok THEN RecoveryTarget(op)
                    ELSE IF mine /\ seen.due /\ seen.status \in ActiveRecovery THEN "expired"
                    ELSE seen.status
  <1>1. /\ recovery' = [recovery EXCEPT ![i].status = IF new = seen.status THEN @ ELSE new]
        /\ granted' = IF new = "approved" THEN granted \cup {i} ELSE granted
    BY Zenon DEF ExecuteRecovery
  <1> HIDE DEF new, i, seen
  <1>2. DOMAIN recovery' = Recoveries /\ granted \subseteq granted'
    BY <1>1 DEF Tables
  <1>3. \A k \in Recoveries : k # i => recovery'[k] = recovery[k]
    BY <1>1 DEF Tables
  <1>4. i \in Recoveries =>
          /\ "status" \in DOMAIN recovery'[i]
          /\ recovery'[i].status = IF new = seen.status THEN recovery[i].status ELSE new
    BY <1>1 DEF Tables
  <1> QED BY <1>1, <1>2, <1>3, <1>4 DEF i, Tables

LEMMA AdminStep ==
  ASSUME AdminInv, [AdminNext]_makerVars
  PROVE  AdminInv'
  <1>1. RequestsStand /\ NewRequestsSound
    BY RequestsStep, NewRequests
  <1>2. DecisionsKnown' /\ DOMAIN job' = Handlers
    BY DecisionsStep
  <1>3. DOMAIN cust' = Customers /\ clock' \in Nat /\ \A c \in Customers : "at" \in DOMAIN cust'[c]
    <2>1. ASSUME NEW h \in Handlers, ExecuteUnlock(h)
          PROVE  DOMAIN cust' = Customers /\ clock' \in Nat /\ \A c \in Customers : "at" \in DOMAIN cust'[c]
      BY <2>1 DEF ExecuteUnlock, AdminInv, Tables
    <2> QED BY <2>1, LocksStep DEF LocksOnlyPlaced, AdminInv
  <1>4. DOMAIN member' = Members
    <2>1. ASSUME NEW h \in Handlers, ExecuteStaff(h)
          PROVE  DOMAIN member' = Members
      BY <2>1 DEF ExecuteStaff, AdminInv, Tables
    <2> QED BY <2>1, MembersStep DEF AdminInv, Tables
  <1>5. /\ DOMAIN recovery' = Recoveries /\ granted \subseteq granted'
        /\ \A i \in Recoveries :
             /\ "status" \in DOMAIN recovery'[i]
             /\ recovery'[i].status = "approved" => recovery[i].status = "approved" \/ i \in granted'
    BY RecoveriesStep, ApprovalsRecorded DEF RecoveriesUndecided, AdminInv
  <1>6. Tables'
    BY <1>1, <1>2, <1>3, <1>4, <1>5 DEF AdminInv, Tables, RequestsStand, NewRequestsSound
  <1>7. CompletionsGranted'
    <2>1. \A i \in Recoveries : recovery'[i].status = "approved" => i \in granted'
      BY <1>5 DEF AdminInv, CompletionsGranted
    <2>2. ASSUME NEW q \in Requests, request'[q] # NoRow
          PROVE  /\ request'[q].op \in RecoveryOps => request'[q].target \in Recoveries
                 /\ request'[q].op = "manual_recovery_complete" => request'[q].target \in granted'
      <3>1. CASE request[q] # NoRow
        BY <1>1, <1>5, <3>1 DEF AdminInv, CompletionsGranted, RequestsStand
      <3>2. CASE request[q] = NoRow
        <4>1. "manual_recovery_complete" \in RecoveryOps
          BY DEF RecoveryOps
        <4> QED BY <1>1, <1>5, <2>2, <3>2, <4>1 DEF AdminInv, CompletionsGranted, NewRequestsSound
      <3> QED BY <3>1, <3>2
    <2> QED BY <2>1, <2>2 DEF CompletionsGranted
  <1> QED BY <1>2, <1>6, <1>7 DEF AdminInv

-----------------------------------------------------------------------------
(* The rules.                                                                 *)

LEMMA AdminInvariant == AdminSpec => []AdminInv
  <1>1. AdminInit => AdminInv
    BY AdminBegin
  <1>2. AdminInv /\ [AdminNext]_makerVars => AdminInv'
    BY AdminStep
  <1> QED BY <1>1, <1>2, PTL DEF AdminSpec

LEMMA ApproverIsSecond ==
  ASSUME DecisionsKnown, NEW h \in Handlers, job[h].op = "approve", job'[h] # job[h]
  PROVE  SecondPersonActsOn(request[job[h].req].target)
  BY DEF DecisionsKnown, SecondPersonActsOn

LEMMA ExecutionMoves ==
  ASSUME Tables, NEW h \in Handlers, ExecuteStaff(h) \/ ExecuteRecovery(h)
  PROVE  job[h].op = "approve" /\ job'[h] # job[h]
  <1>1. job[h].op = "approve"
    BY Zenon DEF ExecuteStaff, ExecuteRecovery
  <1>2. CASE ExecuteStaff(h)
    <2>1. job'[h].op = "idle"
      BY <1>2 DEF ExecuteStaff, Done, Idle, Tables
    <2> QED BY ZenonT(30), <1>1, <2>1
  <1>3. CASE ExecuteRecovery(h)
    <2>1. job'[h].op = "finish"
      BY <1>3 DEF ExecuteRecovery, Tables
    <2> QED BY ZenonT(30), <1>1, <2>1
  <1> QED BY <1>2, <1>3

LEMMA CompletionResets ==
  ASSUME NEW h \in Handlers, ExecuteRecovery(h), NEW c \in mfa \ mfa'
  PROVE  /\ c = Owner[request[job[h].req].target]
         /\ request[job[h].req].op = "manual_recovery_complete"
         /\ job[h].seen # Unloaded /\ job[h].seen.status = "approved"
  BY Zenon DEF ExecuteRecovery, RecoverySucceeds

\* The two-person rule of approve_admin_action_request_as_root_admin, for any number of
\* root admins, requests, recoveries and handlers: staff accounts, decisions on
\* recoveries and MFA resets change only by the approval of somebody else's request.
THEOREM AdminTwoPersons == AdminSpec => TwoPersonRule
  <1> DEFINE Rule ==
        /\ \A m \in Members : member'[m] # member[m] => SecondPersonActsOn(m)
        /\ \A i \in Recoveries :
             /\ recovery'[i].status # recovery[i].status
             /\ recovery'[i].status \in {"approved", "denied", "completed"}
             => SecondPersonActsOn(i)
        /\ \A c \in mfa \ mfa' : \E i \in Recoveries : Owner[i] = c /\ SecondPersonActsOn(i)
  <1>1. ASSUME AdminInv, [AdminNext]_makerVars
        PROVE  [Rule]_makerVars
    <2>1. ASSUME NEW m \in Members, member'[m] # member[m]
          PROVE  SecondPersonActsOn(m)
      <3>1. PICK h \in Handlers : ExecuteStaff(h)
        BY <1>1, <2>1, MembersStep
      <3>2. m = request[job[h].req].target
        BY <1>1, <2>1, <3>1 DEF ExecuteStaff, AdminInv, Tables
      <3> QED BY <1>1, <3>1, <3>2, ExecutionMoves, ApproverIsSecond DEF AdminInv
    <2>2. ASSUME NEW h \in Handlers, ExecuteRecovery(h)
          PROVE  SecondPersonActsOn(request[job[h].req].target)
      BY <1>1, <2>2, ExecutionMoves, ApproverIsSecond DEF AdminInv
    <2>3. ASSUME NEW i \in Recoveries, recovery'[i].status # recovery[i].status,
                 recovery'[i].status \in {"approved", "denied", "completed"}
          PROVE  SecondPersonActsOn(i)
      <3>1. PICK h \in Handlers : ExecuteRecovery(h)
        BY <1>1, <2>3, RecoveriesStep DEF RecoveriesUndecided, AdminInv
      <3>2. i = request[job[h].req].target
        BY <1>1, <2>3, <3>1, ApprovalsRecorded DEF AdminInv
      <3> QED BY <2>2, <3>1, <3>2
    <2>4. ASSUME NEW c \in mfa \ mfa'
          PROVE  \E i \in Recoveries : Owner[i] = c /\ SecondPersonActsOn(i)
      <3>1. PICK h \in Handlers : ExecuteRecovery(h)
        BY <1>1, <2>4, RecoveriesStep DEF RecoveriesUndecided, AdminInv
      <3>2. c = Owner[request[job[h].req].target] /\ request[job[h].req].op = "manual_recovery_complete"
        BY <2>4, <3>1, CompletionResets
      <3>3. request[job[h].req].target \in Recoveries
        BY Zenon, <1>1, <3>1, <3>2 DEF ExecuteRecovery, AdminInv, DecisionsKnown,
           CompletionsGranted, RecoveryOps
      <3> QED BY <2>2, <3>1, <3>2, <3>3
    <2> QED BY <2>1, <2>3, <2>4
  <1> QED BY <1>1, AdminInvariant, PTL DEF AdminSpec, TwoPersonRule

\* Completion in transition_manual_recovery_request, for any instance: an MFA reset is
\* of a recovery that was granted before and was still approved when it was read.
THEOREM AdminResets == AdminSpec => ResetWasGranted
  <1> DEFINE Rule ==
        \A c \in mfa \ mfa' :
          \E h \in Handlers, i \in granted :
            /\ Owner[i] = c /\ job[h].op = "approve" /\ request[job[h].req].target = i
            /\ job[h].seen # Unloaded /\ job[h].seen.status = "approved"
  <1>1. ASSUME AdminInv, [AdminNext]_makerVars
        PROVE  [Rule]_makerVars
    <2>1. ASSUME NEW c \in mfa \ mfa'
          PROVE  \E h \in Handlers, i \in granted :
                   /\ Owner[i] = c /\ job[h].op = "approve" /\ request[job[h].req].target = i
                   /\ job[h].seen # Unloaded /\ job[h].seen.status = "approved"
      <3>1. PICK h \in Handlers : ExecuteRecovery(h)
        BY <1>1, <2>1, RecoveriesStep DEF RecoveriesUndecided, AdminInv
      <3>2. /\ c = Owner[request[job[h].req].target]
            /\ request[job[h].req].op = "manual_recovery_complete"
            /\ job[h].seen # Unloaded /\ job[h].seen.status = "approved"
        BY <2>1, <3>1, CompletionResets
      <3>3. job[h].op = "approve" /\ request[job[h].req].target \in granted
        BY Zenon, <1>1, <3>1, <3>2 DEF ExecuteRecovery, AdminInv, DecisionsKnown, CompletionsGranted
      <3> QED BY <3>2, <3>3
    <2> QED BY <2>1
  <1> QED BY <1>1, AdminInvariant, PTL DEF AdminSpec, ResetWasGranted

\* _locked_customer_for_update and the unlock of a reviewed lock, for any instance: no
\* interleaving lifts a lock other than the one a second root admin approved.
THEOREM AdminUnlocks == AdminSpec => LockLiftedAsReviewed
  <1> DEFINE Rule ==
        \A c \in Customers : cust[c].at # 0 /\ cust'[c].at = 0 =>
          \E h \in Handlers :
            /\ job[h].op = "approve" /\ MayActOn(job[h].actor, c)
            /\ LET r == request[job[h].req] IN
                 /\ r.op = UnlockOp /\ r.target = c /\ r.requester # job[h].actor
                 /\ r.lock.at = cust[c].at /\ r.lock.reason = cust[c].reason
  <1>1. ASSUME AdminInv, [AdminNext]_makerVars
        PROVE  [Rule]_makerVars
    <2>1. ASSUME NEW c \in Customers, cust[c].at # 0, cust'[c].at = 0
          PROVE  \E h \in Handlers :
                   /\ job[h].op = "approve" /\ MayActOn(job[h].actor, c)
                   /\ LET r == request[job[h].req] IN
                        /\ r.op = UnlockOp /\ r.target = c /\ r.requester # job[h].actor
                        /\ r.lock.at = cust[c].at /\ r.lock.reason = cust[c].reason
      <3>1. PICK h \in Handlers : ExecuteUnlock(h)
        BY ZenonT(30), <1>1, <2>1, LocksStep DEF LocksOnlyPlaced, AdminInv
      <3>2. job[h].op = "approve" /\ request[job[h].req].op = UnlockOp
        BY ZenonT(30), <3>1 DEF ExecuteUnlock
      <3>3. request[job[h].req].requester # job[h].actor
        BY <1>1, <3>2 DEF AdminInv, DecisionsKnown
      <3>4. /\ c = request[job[h].req].target
            /\ SameLock(c, request[job[h].req]) /\ MayActOn(job[h].actor, c)
        BY <1>1, <2>1, <3>1 DEF ExecuteUnlock, AdminInv, Tables
      <3> QED BY Zenon, <3>2, <3>3, <3>4 DEF SameLock
    <2> QED BY <2>1
  <1> QED BY <1>1, AdminInvariant, PTL DEF AdminSpec, LockLiftedAsReviewed

\* revoke_all_sessions in _lock_user_account and the staff freeze, for any instance: the
\* state that carries a new lock carries no session of the customer.
THEOREM AdminLocksEndSessions == AdminSpec => LocksEndSessions
  <1> DEFINE Rule ==
        \A c \in Customers : cust'[c].at # cust[c].at /\ cust'[c].at # 0 => c \notin live'
  <1>1. ASSUME AdminInv, [AdminNext]_makerVars
        PROVE  [Rule]_lockVars
    <2>1. ASSUME NEW c \in Customers, cust'[c].at # cust[c].at, cust'[c].at # 0
          PROVE  c \notin live'
      <3>1. ASSUME NEW h \in Handlers, ExecuteUnlock(h)
            PROVE  FALSE
        BY <1>1, <2>1, <3>1 DEF ExecuteUnlock, AdminInv, Tables
      <3> QED BY <1>1, <2>1, <3>1, LocksStep DEF LocksOnlyPlaced, AdminInv
    <2> QED BY <2>1
  <1> QED BY <1>1, AdminInvariant, PTL DEF AdminSpec, LocksEndSessions

-----------------------------------------------------------------------------
(* Types. What a handler has in hand fits the request or recovery it is about, *)
(* although it was loaded before a commit and is written after it.             *)

\* The row an approval has loaded is of the table its request is about.
LoadedFits(j) ==
  /\ j.op = "review" => recovery[j.target] # NoRow
  /\ j.op \in {"approve", "finish", "cancel"} => request[j.req] # NoRow
  /\ j.op = "approve" /\ j.seen # Unloaded =>
       /\ request[j.req].op \in StaffOps => j.seen \in MemberRow
       /\ request[j.req].op \in RecoveryOps => j.seen \in RecoveryRow

\* A request is about a row of its table that exists.
TargetFits(r) ==
  /\ r.op \in StaffOps => r.target \in Members
  /\ r.op \in RecoveryOps => r.target \in Recoveries /\ recovery[r.target] # NoRow
  /\ r.op = UnlockOp => r.target \in Customers

AdminTypes ==
  /\ AdminTypeOK
  /\ job \in [Handlers -> AdminJobs]
  /\ \A h \in Handlers : LoadedFits(job[h])
  /\ \A q \in Requests : request[q] # NoRow => TargetFits(request[q])

LEMMA RowsDiffer ==
  /\ NoRow \notin RecoveryRow /\ NoRow \notin RequestRow
  /\ Unloaded \notin MemberRow \cup RecoveryRow
  <1>1. NoRow \notin RecoveryRow
    BY DEF NoRow, RecoveryRow
  <1>2. NoRow \notin RequestRow
    BY DEF NoRow, RequestRow
  <1>3. Unloaded \notin MemberRow \cup RecoveryRow
    BY DEF Unloaded, MemberRow, RecoveryRow
  <1> QED BY <1>1, <1>2, <1>3

LEMMA ScopesAre == Scopes = {"password", "mfa", "password_change"} /\ \A s \in Scopes : LockReason(s) \in LockReasons
  BY LocksAssumption DEF Scopes, LockReasons

LEMMA TypesBegin == AdminInit => AdminTypes
  <1> SUFFICES ASSUME AdminInit PROVE AdminTypes
    OBVIOUS
  <1>1. LocksTypeOK
    BY LocksAssumption DEF AdminInit, LocksInit, LocksTypeOK, LockRow
  <1>2. AdminTypeOK
    BY ZenonT(30), <1>1 DEF AdminInit, AdminTypeOK, MemberRow
  <1>3. job \in [Handlers -> AdminJobs] /\ \A h \in Handlers : LoadedFits(job[h])
    BY JobsAre DEF AdminInit, LocksInit, LoadedFits, Idle
  <1> QED BY <1>2, <1>3 DEF AdminTypes, AdminInit

-----------------------------------------------------------------------------
\* Recoveries keep their type, and none is deleted.
RecoveriesTyped ==
  /\ recovery' \in [Recoveries -> RecoveryRow \cup {NoRow}]
  /\ \A i \in Recoveries : recovery[i] # NoRow => recovery'[i] # NoRow
  /\ mfa' \subseteq Customers /\ granted' \subseteq Recoveries

\* Setting the status of a recovery that exists.
LEMMA StatusTyped ==
  ASSUME AdminTypes, NEW i \in Recoveries, recovery[i] # NoRow, NEW s,
         s \in ActiveRecovery \cup {"denied", "expired", "cancelled", "completed"},
         recovery' = [recovery EXCEPT ![i].status = s],
         mfa' \subseteq Customers, granted' \subseteq Recoveries
  PROVE  RecoveriesTyped
  <1>1. recovery \in [Recoveries -> RecoveryRow \cup {NoRow}] /\ recovery[i] \in RecoveryRow
    BY DEF AdminTypes, AdminTypeOK
  <1>2. [recovery[i] EXCEPT !.status = s] \in RecoveryRow
    BY <1>1 DEF RecoveryRow
  <1>3. recovery' = [recovery EXCEPT ![i] = [recovery[i] EXCEPT !.status = s]]
    OBVIOUS
  <1> QED BY <1>1, <1>2, <1>3, RowsDiffer DEF RecoveriesTyped

LEMMA TransitionTyped ==
  ASSUME NEW rec \in RecoveryRow, NEW to
  PROVE  RecoveryTransition(rec, to) \in ActiveRecovery \cup {"denied", "expired", "cancelled", "completed"}
  BY DEF RecoveryTransition, RecoveryRow, MovesTo, RecoveryMoves, ActiveRecovery

LEMMA RecoveriesKept ==
  ASSUME AdminTypes, [AdminNext]_makerVars
  PROVE  RecoveriesTyped
  <1> DEFINE Stat == ActiveRecovery \cup {"denied", "expired", "cancelled", "completed"}
  <1>0. /\ recovery \in [Recoveries -> RecoveryRow \cup {NoRow}] /\ mfa \subseteq Customers
        /\ granted \subseteq Recoveries
    BY DEF AdminTypes, AdminTypeOK
  <1>x. UNCHANGED <<recovery, mfa, granted>> => RecoveriesTyped
    BY <1>0 DEF RecoveriesTyped
  <1>e. \A r \in RecoveryRow : [r EXCEPT !.status = "expired"] \in RecoveryRow
    BY DEF RecoveryRow
  <1>a. NoRow.status \notin ActiveRecovery
    BY DEF NoRow, ActiveRecovery, RecoveryMoves
  <1>1. ASSUME NEW h \in Handlers, NEW k \in Recoveries, SubmitRecovery(h, k)
        PROVE  RecoveriesTyped
    <2>1. /\ \A i \in Recoveries : recovery'[i] = recovery[i] \/ (recovery[i] # NoRow /\ recovery'[i] = [recovery[i] EXCEPT !.status = "expired"])
          /\ recovery' = [i \in Recoveries |-> recovery'[i]] /\ mfa' = mfa /\ granted' = granted
      BY <1>1 DEF SubmitRecovery
    <2> QED BY <1>0, <1>e, <2>1, RowsDiffer DEF RecoveriesTyped
  <1>2. CASE ExpireManualRecoveryRequests
    <2>1. /\ \A i \in Recoveries : recovery'[i] = recovery[i] \/ (recovery[i] # NoRow /\ recovery'[i] = [recovery[i] EXCEPT !.status = "expired"])
          /\ recovery' = [i \in Recoveries |-> recovery'[i]] /\ mfa' = mfa /\ granted' = granted
      BY <1>2, <1>a DEF ExpireManualRecoveryRequests
    <2> QED BY <1>0, <1>e, <2>1, RowsDiffer DEF RecoveriesTyped
  <1>3. ASSUME NEW h \in Handlers, InsertRecovery(h)
        PROVE  RecoveriesTyped
    <2>1. [status |-> "pending", due |-> FALSE] \in RecoveryRow
      BY DEF RecoveryRow, ActiveRecovery, RecoveryMoves
    <2>2. /\ recovery[job[h].target] = NoRow /\ mfa' = mfa /\ granted' = granted
          /\ recovery' = [recovery EXCEPT ![job[h].target] = [status |-> "pending", due |-> FALSE]]
      BY Zenon, <1>3 DEF InsertRecovery
    <2> QED BY Zenon, <1>0, <2>1, <2>2, RowsDiffer DEF RecoveriesTyped
  <1>4. ASSUME NEW i \in Recoveries, RecoveryFallsDue(i)
        PROVE  RecoveriesTyped
    <2>1. recovery[i] \in RecoveryRow /\ recovery' = [recovery EXCEPT ![i] = [recovery[i] EXCEPT !.due = TRUE]]
      BY <1>0, <1>4 DEF RecoveryFallsDue
    <2>2. [recovery[i] EXCEPT !.due = TRUE] \in RecoveryRow
      BY Zenon, <2>1 DEF RecoveryRow
    <2> QED BY Zenon, <1>0, <1>4, <2>1, <2>2, RowsDiffer DEF RecoveryFallsDue, RecoveriesTyped
  <1>5. ASSUME NEW i \in Recoveries, NEW a \in Roots, ExpireOnRequest(a, i)
        PROVE  RecoveriesTyped
    BY Zenon, <1>0, <1>5, StatusTyped DEF ExpireOnRequest
  <1>6. ASSUME NEW h \in Handlers, ReviewCommit(h)
        PROVE  RecoveriesTyped
    <2> DEFINE i == job[h].target
               new == RecoveryTransition(job[h].seen, "under_review")
               s == IF new = job[h].seen.status THEN recovery[i].status ELSE new
    <2>1. i \in Recoveries /\ job[h].seen \in RecoveryRow /\ recovery[i] # NoRow
      <3>1. job[h].op = "review" /\ job[h] \in AdminJobs /\ LoadedFits(job[h])
        BY <1>6 DEF ReviewCommit, AdminTypes
      <3> QED BY <3>1, JobFields DEF LoadedFits
    <2>2. i \in Recoveries /\ job[h].seen \in RecoveryRow
      BY <2>1
    <2>3. recovery[i].status \in Stat
      BY <1>0, <2>1, <2>2 DEF RecoveryRow
    <2>4. s \in Stat
      BY <2>2, <2>3, TransitionTyped
    <2>5. recovery' = [recovery EXCEPT ![i].status = s] /\ mfa' = mfa /\ granted' = granted
      BY <1>6 DEF ReviewCommit
    <2> QED BY Zenon, <1>0, <2>1, <2>2, <2>4, <2>5, StatusTyped
  <1>7. ASSUME NEW h \in Handlers, ExecuteRecovery(h)
        PROVE  RecoveriesTyped
    <2> DEFINE i == request[job[h].req].target
               seen == job[h].seen
               op == request[job[h].req].op
               mine == MayActOn(job[h].actor, Owner[i])
               ok == mine /\ RecoverySucceeds(op, seen, Owner[i])
               new == IF ok THEN RecoveryTarget(op)
                      ELSE IF mine /\ seen.due /\ seen.status \in ActiveRecovery THEN "expired"
                      ELSE seen.status
               s == IF new = seen.status THEN recovery[i].status ELSE new
    <2>1. /\ op \in RecoveryOps /\ job[h].op = "approve" /\ seen # Unloaded
          /\ recovery' = [recovery EXCEPT ![i].status = s]
          /\ mfa' \subseteq mfa /\ granted' \subseteq granted \cup {i}
      BY ZenonT(30), <1>7 DEF ExecuteRecovery
    <2>2. job[h].req \in Requests /\ request[job[h].req] # NoRow /\ seen \in RecoveryRow
      <3>1. job[h] \in AdminJobs /\ LoadedFits(job[h])
        BY ZenonT(30) DEF AdminTypes
      <3>2. job[h].req \in Requests
        BY <2>1, <3>1, JobFields
      <3> QED BY ZenonT(30), <2>1, <3>1, <3>2 DEF LoadedFits
    <2>3. i \in Recoveries /\ recovery[i] # NoRow
      BY <2>1, <2>2 DEF AdminTypes, TargetFits
    <2>4. RecoveryTarget(op) \in Stat /\ seen.status \in Stat /\ recovery[i].status \in Stat
      <3>1. RecoveryTarget(op) \in Stat
        BY Zenon, <2>1 DEF RecoveryTarget, RecoveryOps, ActiveRecovery, RecoveryMoves
      <3>2. seen.status \in Stat /\ recovery[i].status \in Stat
        BY <1>0, <2>2, <2>3 DEF RecoveryRow
      <3> QED BY <3>1, <3>2
    <2> HIDE DEF ok, mine, i, seen, op, Stat
    <2>5. "expired" \in Stat
      BY DEF Stat
    <2>6. s \in Stat
      BY <2>4, <2>5
    <2>7. mfa' \subseteq Customers /\ granted' \subseteq Recoveries
      BY <1>0, <2>1, <2>3
    <2> HIDE DEF s
    <2> QED BY ZenonT(30), <2>1, <2>3, <2>6, <2>7, StatusTyped DEF Stat
  <1>8. CASE RecoveryNext
    BY ZenonT(30), <1>x, <1>1, <1>2, <1>3, <1>4, <1>5, <1>6, <1>7, <1>8 DEF RecoveryNext,
       ReviewLoad, RequestRecoveryDecision, adminVars
  <1> QED
    BY Zenon, <1>x, <1>8 DEF AdminNext, makerVars, adminVars, AccountsNext, UnlockNext,
       DecisionNext, RequestStaffTransition, ExecuteStaff, UnlockRequestCheck,
       RequestCustomerSecurityUnlock, ExecuteUnlock, ExpireAdminActionRequest, ApproveCheck, RejectCheck, CancelCheck,
       RequestFallsDue, ExecuteLoad, FinishDecision, CancelCommit, RootWithdrawn

\* Staff accounts keep their type: only rows that were loaded from the table are written.
LEMMA MembersKept ==
  ASSUME AdminTypes, [AdminNext]_makerVars
  PROVE  member' \in [Members -> MemberRow]
  <1>0. member \in [Members -> MemberRow]
    BY DEF AdminTypes, AdminTypeOK
  <1>1. ASSUME NEW h \in Handlers, ExecuteStaff(h)
        PROVE  member' \in [Members -> MemberRow]
    <2> DEFINE m == request[job[h].req].target
               op == request[job[h].req].op
               seen == job[h].seen
               rec == Flush(member[m], seen, Lifecycle(op, seen))
    <2>1. /\ op \in StaffOps /\ job[h].op = "approve" /\ seen # Unloaded
          /\ member' = [member EXCEPT ![m] = rec] \/ member' = member
      BY <1>1 DEF ExecuteStaff
    <2>2. job[h].req \in Requests /\ request[job[h].req] # NoRow /\ seen \in MemberRow
      <3>1. job[h] \in AdminJobs /\ LoadedFits(job[h])
        BY DEF AdminTypes
      <3>2. job[h].req \in Requests
        BY ZenonT(30), <2>1, <3>1, JobFields
      <3> QED BY <2>1, <3>1, <3>2 DEF LoadedFits
    <2>3. m \in Members
      BY <2>1, <2>2 DEF AdminTypes, TargetFits
    <2>4. Lifecycle(op, seen) \in MemberRow
      BY Zenon, <2>1, <2>2 DEF Lifecycle, StaffOps, MemberRow
    <2>5. \A old, s, new \in MemberRow : s # Unloaded => Flush(old, s, new) \in MemberRow
      BY DEF Flush, MemberRow
    <2>6. rec \in MemberRow
      BY <1>0, <2>1, <2>2, <2>3, <2>4, <2>5
    <2> HIDE DEF rec, m
    <2> QED BY ZenonT(30), <1>0, <2>1, <2>3, <2>6
  <1> QED BY <1>0, <1>1, MembersStep

\* Requests keep their type and their decider, and none is deleted.
RequestsTyped ==
  /\ request' \in [Requests -> RequestRow \cup {NoRow}]
  /\ \A q \in Requests : request'[q] # NoRow /\
       request'[q].status \in {"rejected", "executed", "execution_failed"} => request'[q].approver \in Roots
  /\ \A q \in Requests : request'[q] # NoRow =>
       \/ request[q] # NoRow /\ request'[q].op = request[q].op /\ request'[q].target = request[q].target
       \/ request[q] = NoRow /\ TargetFits(request'[q])
  /\ \A q \in Requests : request[q] # NoRow => request'[q] # NoRow

LEMMA RequestRows ==
  ASSUME AdminTypes, NEW q \in Requests, request[q] # NoRow, NEW a \in Roots \cup {NoReason}, NEW d \in BOOLEAN,
         NEW s \in {"pending", "rejected", "cancelled", "expired", "executed", "execution_failed"},
         s \in {"rejected", "executed", "execution_failed"} => a \in Roots,
         request' = [request EXCEPT ![q] = [request[q] EXCEPT !.approver = a, !.due = d, !.status = s]]
  PROVE  RequestsTyped
  <1> DEFINE rec == [request[q] EXCEPT !.approver = a, !.due = d, !.status = s]
  <1>1. request \in [Requests -> RequestRow \cup {NoRow}] /\ request[q] \in RequestRow
    BY DEF AdminTypes, AdminTypeOK
  <1>2. \A p \in Requests : request[p] # NoRow /\
          request[p].status \in {"rejected", "executed", "execution_failed"} => request[p].approver \in Roots
    BY DEF AdminTypes, AdminTypeOK
  <1>3. /\ rec \in RequestRow /\ rec.status = s /\ rec.approver = a
        /\ rec.op = request[q].op /\ rec.target = request[q].target
    BY ZenonT(30), <1>1 DEF RequestRow
  <1> HIDE DEF rec
  <1>4. request' = [request EXCEPT ![q] = rec]
    BY DEF rec
  <1>5. request'[q] = rec /\ \A p \in Requests : p # q => request'[p] = request[p]
    BY <1>1, <1>4
  <1> QED BY <1>1, <1>2, <1>3, <1>4, <1>5, RowsDiffer DEF RequestsTyped

LEMMA DecideTyped ==
  ASSUME AdminTypes, NEW q \in Requests, request[q] # NoRow, NEW a \in Roots,
         NEW s \in {"rejected", "executed", "execution_failed"}, Decide(q, a, s)
  PROVE  RequestsTyped
  <1>1. request[q] \in RequestRow
    BY DEF AdminTypes, AdminTypeOK
  <1> DEFINE d == request[q].due
  <1>2. d \in BOOLEAN
        /\ [request[q] EXCEPT !.approver = a, !.status = s] = [request[q] EXCEPT !.approver = a, !.due = d, !.status = s]
    BY Zenon, <1>1 DEF RequestRow
  <1>3. request' = [request EXCEPT ![q] = [request[q] EXCEPT !.approver = a, !.status = s]]
    BY Zenon DEF Decide
  <1> QED BY Zenon, <1>2, <1>3, RequestRows

LEMMA CreateTyped ==
  ASSUME AdminTypes, NEW a \in Roots, NEW q \in Requests,
         NEW op \in StaffOps \cup RecoveryOps \cup {UnlockOp},
         NEW t \in Members \cup Recoveries \cup Customers, NEW l \in LockRow \cup {NoRow},
         op \in StaffOps => t \in Members,
         op \in RecoveryOps => t \in Recoveries /\ recovery[t] # NoRow,
         op = UnlockOp => t \in Customers,
         CreateAdminActionRequest(a, q, op, t, l)
  PROVE  RequestsTyped
  <1> DEFINE rec == [op |-> op, target |-> t, lock |-> l, requester |-> a, approver |-> NoReason,
                     due |-> FALSE, status |-> "pending"]
  <1>1. request \in [Requests -> RequestRow \cup {NoRow}]
    BY DEF AdminTypes, AdminTypeOK
  <1>2. \A p \in Requests : request[p] # NoRow /\
          request[p].status \in {"rejected", "executed", "execution_failed"} => request[p].approver \in Roots
    BY DEF AdminTypes, AdminTypeOK
  <1>3. rec \in RequestRow /\ rec.status = "pending" /\ rec.op = op /\ rec.target = t
    BY DEF RequestRow
  <1>4. request' = [request EXCEPT ![q] = rec] /\ request[q] = NoRow
    BY DEF CreateAdminActionRequest
  <1> HIDE DEF rec
  <1>5. TargetFits(rec)
    BY <1>3 DEF TargetFits
  <1>6. request'[q] = rec /\ \A p \in Requests : p # q => request'[p] = request[p]
    BY <1>1, <1>4
  <1> QED BY <1>1, <1>2, <1>3, <1>4, <1>5, <1>6, RowsDiffer DEF RequestsTyped

LEMMA RequestsKept ==
  ASSUME AdminTypes, [AdminNext]_makerVars
  PROVE  RequestsTyped
  <1>0. /\ request \in [Requests -> RequestRow \cup {NoRow}] /\ eligible \subseteq Roots
        /\ cust \in [Customers -> LockRow]
    BY DEF AdminTypes, AdminTypeOK, LocksTypeOK
  <1>x. request' = request => RequestsTyped
    BY <1>0 DEF AdminTypes, AdminTypeOK, RequestsTyped
  <1>j. ASSUME NEW h \in Handlers, job[h].op \in {"approve", "finish", "cancel"}
        PROVE  /\ job[h].req \in Requests /\ request[job[h].req] # NoRow
               /\ job[h].op # "cancel" => job[h].actor \in Roots
               /\ job[h].op = "finish" => job[h].status \in {"rejected", "executed", "execution_failed"}
    <2>1. job[h] \in AdminJobs /\ LoadedFits(job[h])
      BY DEF AdminTypes
    <2>2. /\ job[h].req \in Requests
          /\ job[h].op # "cancel" => job[h].actor \in Roots
          /\ job[h].op = "finish" => job[h].status \in {"rejected", "executed", "execution_failed"}
      BY ZenonT(30), <1>j, <2>1, JobFields
    <2> QED BY <1>j, <2>1, <2>2 DEF LoadedFits
  <1>1. ASSUME NEW a \in Roots, NEW q \in Requests, NEW i \in Recoveries, NEW op \in RecoveryOps,
               RequestRecoveryDecision(a, q, i, op)
        PROVE  RequestsTyped
    <2>1. op \notin StaffOps /\ op # UnlockOp
      BY DEF RecoveryOps, StaffOps, UnlockOp
    <2> QED BY <1>1, <2>1, CreateTyped DEF RequestRecoveryDecision
  <1>2. ASSUME NEW a \in Roots, NEW q \in Requests, NEW m \in Members, NEW op \in StaffOps,
               RequestStaffTransition(a, q, m, op)
        PROVE  RequestsTyped
    <2>1. op \notin RecoveryOps /\ op # UnlockOp
      BY ZenonT(30) DEF RecoveryOps, StaffOps, UnlockOp
    <2> QED BY <1>2, <2>1, CreateTyped DEF RequestStaffTransition
  <1>3. ASSUME NEW h \in Handlers, NEW q \in Requests, RequestCustomerSecurityUnlock(h, q)
        PROVE  RequestsTyped
    <2>1. UnlockOp \notin RecoveryOps /\ UnlockOp \notin StaffOps
      BY ZenonT(30) DEF RecoveryOps, StaffOps, UnlockOp
    <2>2. job[h].op = "ask" /\ job[h] \in AdminJobs
      BY <1>3 DEF RequestCustomerSecurityUnlock, AdminTypes
    <2>3. job[h].actor \in Roots /\ job[h].cust \in Customers
      BY Zenon, <2>2, JobFields
    <2>4. cust[job[h].cust] \in LockRow
      BY <1>0, <2>3
    <2> QED BY <1>3, <2>1, <2>3, <2>4, CreateTyped DEF RequestCustomerSecurityUnlock
  <1>4. ASSUME NEW h \in Handlers, ExecuteStaff(h) \/ ExecuteUnlock(h) \/ FinishDecision(h)
        PROVE  RequestsTyped
    <2>1. /\ job[h].op \in {"approve", "finish"}
          /\ \/ Decide(job[h].req, job[h].actor, "executed")
             \/ Decide(job[h].req, job[h].actor, "execution_failed")
             \/ job[h].op = "finish" /\ Decide(job[h].req, job[h].actor, job[h].status)
      BY ZenonT(30), <1>4 DEF ExecuteStaff, ExecuteUnlock, FinishDecision
    <2>2. /\ job[h].req \in Requests /\ request[job[h].req] # NoRow /\ job[h].actor \in Roots
          /\ job[h].op = "finish" => job[h].status \in {"rejected", "executed", "execution_failed"}
      BY <1>j, <2>1
    <2> QED BY <2>1, <2>2, DecideTyped
  <1>5. ASSUME NEW q \in Requests, request[q] # NoRow,
               \/ request' = [request EXCEPT ![q].status = "cancelled"]
               \/ request' = [request EXCEPT ![q].status = "expired"]
               \/ request' = [request EXCEPT ![q].due = TRUE]
        PROVE  RequestsTyped
    <2> DEFINE r == request[q]
    <2>1. /\ r \in RequestRow
          /\ r.status \in {"rejected", "executed", "execution_failed"} => r.approver \in Roots
      BY <1>0, <1>5 DEF AdminTypes, AdminTypeOK
    <2>2. \/ request' = [request EXCEPT ![q] = [r EXCEPT !.status = "cancelled"]]
          \/ request' = [request EXCEPT ![q] = [r EXCEPT !.status = "expired"]]
          \/ request' = [request EXCEPT ![q] = [r EXCEPT !.due = TRUE]]
      BY <1>5
    <2>3. /\ r.approver \in Roots \cup {NoReason} /\ r.due \in BOOLEAN
          /\ r.status \in {"pending", "rejected", "cancelled", "expired", "executed", "execution_failed"}
          /\ \A s : [r EXCEPT !.status = s] = [r EXCEPT !.approver = r.approver, !.due = r.due, !.status = s]
          /\ [r EXCEPT !.due = TRUE] = [r EXCEPT !.approver = r.approver, !.due = TRUE, !.status = r.status]
      BY ZenonT(30), <2>1 DEF RequestRow
    <2>4. CASE request' = [request EXCEPT ![q] = [r EXCEPT !.due = TRUE]]
      <3>1. request' = [request EXCEPT ![q] = [request[q] EXCEPT !.approver = r.approver, !.due = TRUE, !.status = r.status]]
        BY ZenonT(30), <2>3, <2>4
      <3> HIDE DEF r
      <3> QED BY ZenonT(30), <1>5, <2>1, <2>3, <3>1, RequestRows
    <2>5. ASSUME NEW s \in {"cancelled", "expired"}, request' = [request EXCEPT ![q] = [r EXCEPT !.status = s]]
          PROVE  RequestsTyped
      <3>1. request' = [request EXCEPT ![q] = [request[q] EXCEPT !.approver = r.approver, !.due = r.due, !.status = s]]
        BY Zenon, <2>3, <2>5
      <3> HIDE DEF r
      <3> QED BY ZenonT(30), <1>5, <2>3, <3>1, RequestRows
    <2> QED BY <2>2, <2>4, <2>5
  <1>6. ASSUME NEW h \in Handlers, CancelCommit(h)
        PROVE  RequestsTyped
    BY Zenon, <1>j, <1>5, <1>6 DEF CancelCommit
  <1>7. ASSUME NEW q \in Requests,
               RequestFallsDue(q) \/ \E a \in Roots : ExpireAdminActionRequest(a, q)
        PROVE  RequestsTyped
    <2>1. request[q] # NoRow
      BY <1>7 DEF RequestFallsDue, ExpireAdminActionRequest, NoRow
    <2> QED BY <1>5, <1>7, <2>1 DEF RequestFallsDue, ExpireAdminActionRequest
  <1>8. CASE RecoveryNext
    BY ZenonT(30), <1>1, <1>x, <1>8 DEF RecoveryNext, SubmitRecovery, InsertRecovery, ReviewLoad,
       adminVars, ReviewCommit, ExecuteRecovery, RecoveryFallsDue, ExpireOnRequest,
       ExpireManualRecoveryRequests
  <1>9. CASE AccountsNext \/ UnlockNext
    BY Zenon, <1>2, <1>3, <1>4, <1>x, <1>9 DEF AccountsNext, UnlockNext, UnlockRequestCheck, adminVars
  <1>10. CASE DecisionNext
    BY Zenon, <1>4, <1>6, <1>7, <1>x, <1>10 DEF DecisionNext, ApproveCheck, RejectCheck,
       CancelCheck, ExecuteLoad, RootWithdrawn, adminVars
  <1> QED BY <1>x, <1>8, <1>9, <1>10 DEF AdminNext, makerVars, adminVars

\* The lock columns, the counters and the sessions keep their types.
LEMMA LocksKept ==
  ASSUME AdminTypes, [AdminNext]_makerVars
  PROVE  LocksTypeOK'
  <1>0. /\ cust \in [Customers -> LockRow] /\ failures \in [Customers -> [Scopes -> Nat]]
        /\ live \subseteq Customers /\ clock \in 0..MaxLocks
        /\ job \in [Handlers -> AdminJobs]
    BY DEF AdminTypes, AdminTypeOK, LocksTypeOK
  <1>x. UNCHANGED <<cust, failures, clock>> /\ live' \subseteq live => LocksTypeOK'
    BY <1>0 DEF LocksTypeOK
  <1>f. \A g \in [Scopes -> Nat] : [g EXCEPT !["password"] = 0, !["mfa"] = 0] \in [Scopes -> Nat]
    BY ScopesAre
  <1>l. [frozen |-> FALSE, at |-> 0, reason |-> NoReason] \in LockRow
    BY LocksAssumption DEF LockRow
  <1>1. ASSUME NEW h \in Handlers, SignInFinish(h)
        PROVE  LocksTypeOK'
    <2>1. job[h].op = "signin" /\ job[h] \in AdminJobs
      BY <1>0, <1>1 DEF SignInFinish
    <2> DEFINE c == job[h].cust
    <2>2. c \in Customers
      BY <2>1, JobFields
    <2>3. /\ failures' = [failures EXCEPT ![c] = [failures[c] EXCEPT !["password"] = 0, !["mfa"] = 0]]
          /\ live' = live \cup {c} /\ cust' = cust /\ clock' = clock
      BY Zenon, <1>0, <1>1, <2>2, ScopesAre DEF SignInFinish
    <2> HIDE DEF c
    <2> QED BY <1>0, <1>f, <2>2, <2>3 DEF LocksTypeOK
  <1>2. ASSUME NEW h \in Handlers, RecordFailure(h)
        PROVE  LocksTypeOK'
    <2>1. job[h].op = "failed" /\ job[h] \in AdminJobs
      BY <1>0, <1>2 DEF RecordFailure
    <2> DEFINE c == job[h].cust
               s == job[h].scope
    <2>2. c \in Customers /\ s \in Scopes
      BY <2>1, JobFields
    <2>3. /\ \/ failures' = [failures EXCEPT ![c][s] = LockThreshold[s]]
             \/ failures' = [failures EXCEPT ![c][s] = failures[c][s] + 1]
          /\ UNCHANGED <<cust, live, clock>>
      BY <1>2 DEF RecordFailure
    <2>4. LockThreshold[s] \in Nat
      BY <2>2, ScopesAre, LocksAssumption
    <2> HIDE DEF c, s
    <2>5. failures[c] \in [Scopes -> Nat] /\ failures[c][s] + 1 \in Nat
      BY <1>0, <2>2
    <2>6. \A n \in Nat : [failures EXCEPT ![c][s] = n] \in [Customers -> [Scopes -> Nat]]
      BY <1>0, <2>2
    <2>7. failures' \in [Customers -> [Scopes -> Nat]]
      BY <2>3, <2>4, <2>5, <2>6
    <2> QED BY <1>0, <2>3, <2>7 DEF LocksTypeOK
  <1>3. ASSUME NEW h \in Handlers, LockUserAccount(h)
        PROVE  LocksTypeOK'
    <2>1. job[h].op = "lock" /\ job[h] \in AdminJobs /\ clock < MaxLocks
      BY <1>0, <1>3 DEF LockUserAccount
    <2> DEFINE c == job[h].cust
               seen == job[h].seen
               new == [frozen |-> TRUE, at |-> clock + 1, reason |-> job[h].reason]
               rec == Flush(cust[c], seen, new)
    <2>2. c \in Customers /\ seen \in LockRow \cup {Unloaded} /\ job[h].reason \in LockReasons
      BY <2>1, JobFields
    <2>3. clock + 1 \in 0..MaxLocks
      BY <1>0, <2>1, LocksAssumption
    <2>4. new \in LockRow
      BY <2>2, <2>3 DEF LockRow
    <2>5. \A last, was, next \in LockRow : Flush(last, was, next) \in LockRow
      BY DEF Flush, LockRow
    <2>6. \A last, next \in LockRow : Flush(last, Unloaded, next) \in LockRow
      BY DEF Flush
    <2>7. /\ cust' = [cust EXCEPT ![c] = rec] /\ clock' = clock + 1 /\ live' = live \ {c} /\ failures' = failures
      BY <1>3 DEF LockUserAccount
    <2> HIDE DEF c, seen, new
    <2>8. rec \in LockRow
      BY <1>0, <2>2, <2>4, <2>5, <2>6
    <2> HIDE DEF rec
    <2> QED BY <1>0, <2>2, <2>3, <2>7, <2>8 DEF LocksTypeOK
  <1>4. ASSUME NEW h \in Handlers, FreezeOwnCommit(h) \/ UnfreezeCommit(h)
        PROVE  LocksTypeOK'
    <2>1. job[h].op \in {"freezeOwn", "unfreeze"} /\ job[h] \in AdminJobs
      BY <1>0, <1>4 DEF FreezeOwnCommit, UnfreezeCommit
    <2> DEFINE c == job[h].cust
    <2>2. c \in Customers
      BY <2>1, JobFields
    <2>3. \A r \in LockRow, b \in BOOLEAN : [r EXCEPT !.frozen = b] \in LockRow
      BY DEF LockRow
    <2>4. /\ \E b \in BOOLEAN : cust' = [cust EXCEPT ![c] = [cust[c] EXCEPT !.frozen = b]]
          /\ live' \subseteq live /\ failures' = failures /\ clock' = clock
      BY Zenon, <1>4 DEF FreezeOwnCommit, UnfreezeCommit
    <2> HIDE DEF c
    <2> QED BY <1>0, <2>2, <2>3, <2>4 DEF LocksTypeOK
  <1>5. ASSUME NEW h \in Handlers, StaffFreezeCommit(h)
        PROVE  LocksTypeOK'
    <2>1. job[h].op = "freeze" /\ job[h] \in AdminJobs /\ clock < MaxLocks
      BY <1>0, <1>5 DEF StaffFreezeCommit
    <2> DEFINE c == job[h].cust
               new == [frozen |-> TRUE, at |-> clock + 1, reason |-> StaffFreeze]
    <2>2. c \in Customers
      BY <2>1, JobFields
    <2>3. clock + 1 \in 0..MaxLocks
      BY <1>0, <2>1, LocksAssumption
    <2>4. new \in LockRow
      BY <2>3 DEF LockRow, LockReasons
    <2>5. /\ cust' = [cust EXCEPT ![c] = new] /\ clock' = clock + 1 /\ live' = live \ {c} /\ failures' = failures
      BY <1>5 DEF StaffFreezeCommit
    <2> HIDE DEF c, new
    <2> QED BY <1>0, <2>2, <2>3, <2>4, <2>5 DEF LocksTypeOK
  <1>6. ASSUME NEW c \in Customers, NEW s \in Scopes, FailureWindowEnds(c, s)
        PROVE  LocksTypeOK'
    BY <1>0, <1>6 DEF FailureWindowEnds, LocksTypeOK
  <1>7. ASSUME NEW h \in Handlers, ExecuteUnlock(h)
        PROVE  LocksTypeOK'
    <2> DEFINE c == request[job[h].req].target
               open == [frozen |-> FALSE, at |-> 0, reason |-> NoReason]
    <2>1. job[h].op = "approve" /\ request[job[h].req].op = UnlockOp
      BY Zenon, <1>7 DEF ExecuteUnlock
    <2>2. job[h] \in AdminJobs /\ LoadedFits(job[h])
      BY DEF AdminTypes
    <2>3. job[h].req \in Requests /\ request[job[h].req] # NoRow
      BY <2>1, <2>2, JobFields DEF LoadedFits
    <2>4. c \in Customers
      BY <2>1, <2>3 DEF AdminTypes, TargetFits
    <2>5. /\ \/ /\ cust' = [cust EXCEPT ![c] = open]
                /\ failures' = [failures EXCEPT ![c]["password"] = 0, ![c]["mfa"] = 0]
                /\ live' = live \ {c}
             \/ UNCHANGED <<cust, failures, live>>
          /\ clock' = clock
      BY Zenon, <1>7 DEF ExecuteUnlock
    <2> HIDE DEF c
    <2>6. [failures EXCEPT ![c]["password"] = 0, ![c]["mfa"] = 0]
            = [failures EXCEPT ![c] = [failures[c] EXCEPT !["password"] = 0, !["mfa"] = 0]]
      BY ZenonT(30), <1>0, <2>4, ScopesAre
    <2> HIDE DEF open
    <2>7. open \in LockRow
      BY <1>l DEF open
    <2>8. failures[c] \in [Scopes -> Nat] /\ [failures[c] EXCEPT !["password"] = 0, !["mfa"] = 0] \in [Scopes -> Nat]
      BY <1>0, <1>f, <2>4
    <2> DEFINE none == [failures[c] EXCEPT !["password"] = 0, !["mfa"] = 0]
    <2> HIDE DEF none
    <2>9. [failures EXCEPT ![c] = none] \in [Customers -> [Scopes -> Nat]]
      BY <1>0, <2>4, <2>8 DEF none
    <2>10. cust' \in [Customers -> LockRow] /\ live' \subseteq Customers
      BY <1>0, <2>4, <2>5, <2>7
    <2>11. failures' \in [Customers -> [Scopes -> Nat]]
      BY <1>0, <2>5, <2>6, <2>9 DEF none
    <2> QED BY <1>0, <2>5, <2>10, <2>11 DEF LocksTypeOK
  <1>8. ASSUME NEW h \in Handlers, ExecuteRecovery(h)
        PROVE  LocksTypeOK'
    BY Zenon, <1>x, <1>8 DEF ExecuteRecovery
  <1>9. CASE LocksNext
    BY Zenon, <1>x, <1>1, <1>2, <1>3, <1>4, <1>5, <1>6, <1>9 DEF LocksNext, SignInCheck,
       FreezeOwnCheck, WrongSecret, UnfreezeCheck, StaffFreezeCheck, HandlerFails
  <1> QED
    BY ZenonT(30), <1>x, <1>7, <1>8, <1>9 DEF AdminNext, makerVars, lockVars, AccountsNext,
       UnlockNext, DecisionNext, RecoveryNext, RequestStaffTransition, ExecuteStaff,
       UnlockRequestCheck, RequestCustomerSecurityUnlock, ExpireAdminActionRequest, ApproveCheck, RejectCheck,
       CancelCheck, RequestFallsDue, ExecuteLoad, FinishDecision, CancelCommit, RootWithdrawn,
       SubmitRecovery, InsertRecovery, ReviewLoad, ReviewCommit, RecoveryFallsDue, ExpireOnRequest,
       RequestRecoveryDecision, ExpireManualRecoveryRequests

\* What the handlers have in hand keeps its type and fits the rows it is about.
JobsTyped == job' \in [Handlers -> AdminJobs] /\ \A h \in Handlers : LoadedFits(job[h])'

LEMMA JobsKept ==
  ASSUME AdminTypes, [AdminNext]_makerVars
  PROVE  JobsTyped
  <1>0. /\ job \in [Handlers -> AdminJobs] /\ \A h \in Handlers : LoadedFits(job[h])
        /\ member \in [Members -> MemberRow] /\ recovery \in [Recoveries -> RecoveryRow \cup {NoRow}]
        /\ request \in [Requests -> RequestRow \cup {NoRow}] /\ cust \in [Customers -> LockRow]
        /\ eligible \subseteq Roots
    BY DEF AdminTypes, AdminTypeOK, LocksTypeOK
  <1>r. RequestsTyped /\ RecoveriesTyped
    BY RequestsKept, RecoveriesKept
  <1>f. ASSUME NEW j \in AdminJobs, LoadedFits(j)
        PROVE  LET fits == /\ j.op = "review" => recovery'[j.target] # NoRow
                           /\ j.op \in {"approve", "finish", "cancel"} => request'[j.req] # NoRow
                           /\ j.op = "approve" /\ j.seen # Unloaded =>
                                /\ request'[j.req].op \in StaffOps => j.seen \in MemberRow
                                /\ request'[j.req].op \in RecoveryOps => j.seen \in RecoveryRow
               IN  fits
    <2>1. /\ j.op = "review" => j.target \in Recoveries
          /\ j.op \in {"approve", "finish", "cancel"} => j.req \in Requests
      BY JobFields
    <2>2. /\ \A q \in Requests : request[q] # NoRow => request'[q] # NoRow /\ request'[q].op = request[q].op
          /\ \A i \in Recoveries : recovery[i] # NoRow => recovery'[i] # NoRow
      BY ZenonT(30), <1>r DEF RequestsTyped, RecoveriesTyped
    <2> QED BY <1>f, <2>1, <2>2 DEF LoadedFits
  <1>x. job' = job => JobsTyped
    BY <1>0, <1>f DEF JobsTyped, LoadedFits
  <1>w. ASSUME NEW h \in Handlers, NEW j \in AdminJobs, LoadedFits(j), job' = [job EXCEPT ![h] = j]
        PROVE  JobsTyped
    <2>1. job' \in [Handlers -> AdminJobs] /\ job'[h] = j /\ \A k \in Handlers : k # h => job'[k] = job[k]
      BY <1>0, <1>w
    <2> QED BY Zenon, <1>0, <1>f, <1>w, <2>1 DEF JobsTyped, LoadedFits
  <1>d. \A h \in Handlers : Done(h) => JobsTyped
    <2>1. Idle \in AdminJobs /\ LoadedFits(Idle)
      BY Zenon, JobsAre DEF Idle, LoadedFits
    <2> QED BY Zenon, <1>w, <2>1 DEF Done
  <1>1. ASSUME NEW h \in Handlers, NEW c \in Customers,
               NEW j \in [op : {"signin", "freezeOwn", "unfreeze", "freeze"}, cust : Customers],
               Begin(h, j)
        PROVE  JobsTyped
    <2>1. j \in AdminJobs /\ LoadedFits(j)
      BY Zenon, JobsAre DEF LoadedFits
    <2> QED BY Zenon, <1>1, <1>w, <2>1 DEF Begin
  <1>2. ASSUME NEW h \in Handlers, NEW c \in Customers, NEW s \in Scopes, WrongSecret(h, c, s)
        PROVE  JobsTyped
    <2> DEFINE j == [op |-> "failed", cust |-> c, scope |-> s]
    <2>1. j \in AdminJobs /\ LoadedFits(j)
      BY Zenon, JobsAre DEF LoadedFits
    <2> QED BY Zenon, <1>2, <1>w, <2>1 DEF Begin, WrongSecret
  <1>3. ASSUME NEW h \in Handlers, RecordFailure(h)
        PROVE  JobsTyped
    <2> DEFINE c == job[h].cust
               s == job[h].scope
               j == [op |-> "lock", cust |-> c, reason |-> LockReason(s),
                     seen |-> IF s = "password" THEN cust[c] ELSE Unloaded]
    <2>1. job[h].op = "failed" /\ (Done(h) \/ job' = [job EXCEPT ![h] = j])
      BY <1>3 DEF RecordFailure
    <2>2. c \in Customers /\ s \in Scopes
      BY <1>0, <2>1, JobFields
    <2>3. LockReason(s) \in LockReasons /\ cust[c] \in LockRow
      BY <1>0, <2>2, ScopesAre
    <2>4. j \in AdminJobs /\ LoadedFits(j)
      BY Zenon, <2>2, <2>3, JobsAre DEF LoadedFits
    <2> HIDE DEF j
    <2> QED BY <1>d, <1>w, <2>1, <2>4
  <1>4. ASSUME NEW h \in Handlers, NEW a \in Roots, NEW i \in Recoveries, ReviewLoad(h, a, i)
        PROVE  JobsTyped
    <2> DEFINE j == [op |-> "review", target |-> i, seen |-> recovery[i]]
    <2>1. recovery[i] \in RecoveryRow /\ recovery[i] # NoRow
      BY <1>0, <1>4 DEF ReviewLoad
    <2>2. j \in AdminJobs /\ LoadedFits(j)
      BY Zenon, <2>1, JobsAre DEF LoadedFits
    <2> HIDE DEF j
    <2>3. job' = [job EXCEPT ![h] = j]
      BY <1>4 DEF ReviewLoad, Begin, j
    <2> QED BY ZenonT(30), <1>w, <2>2, <2>3
  <1>5. ASSUME NEW h \in Handlers, NEW a \in Roots, NEW q \in Requests,
               ApproveCheck(h, a, q) \/ RejectCheck(h, a, q) \/ CancelCheck(h, a, q)
        PROVE  JobsTyped
    <2>0. Pending(q)
      BY <1>5, Zenon DEF ApproveCheck, RejectCheck, CancelCheck
    <2>1. request[q] # NoRow
      BY <2>0 DEF Pending, NoRow
    <2>a. [op |-> "approve", actor |-> a, req |-> q, seen |-> Unloaded] \in AdminJobs
      BY ZenonT(30), JobsAre
    <2>b. [op |-> "finish", actor |-> a, req |-> q, status |-> "rejected"] \in AdminJobs
      BY ZenonT(30), JobsAre
    <2>c. [op |-> "cancel", req |-> q] \in AdminJobs
      BY JobsAre
    <2>d. LoadedFits([op |-> "approve", actor |-> a, req |-> q, seen |-> Unloaded])
      BY ZenonT(30), <2>1 DEF LoadedFits
    <2>e. LoadedFits([op |-> "finish", actor |-> a, req |-> q, status |-> "rejected"])
      BY <2>1 DEF LoadedFits
    <2>f. LoadedFits([op |-> "cancel", req |-> q])
      BY ZenonT(30), <2>1 DEF LoadedFits
    <2>3. \/ job' = [job EXCEPT ![h] = [op |-> "approve", actor |-> a, req |-> q, seen |-> Unloaded]]
          \/ job' = [job EXCEPT ![h] = [op |-> "finish", actor |-> a, req |-> q, status |-> "rejected"]]
          \/ job' = [job EXCEPT ![h] = [op |-> "cancel", req |-> q]]
      BY ZenonT(30), <1>5 DEF ApproveCheck, RejectCheck, CancelCheck, Begin
    <2> QED BY <1>w, <2>3, <2>a, <2>b, <2>c, <2>d, <2>e, <2>f, Zenon
  <1>a. ASSUME NEW h \in Handlers, job[h].op = "approve"
        PROVE  /\ job[h] \in [op : {"approve"}, actor : Roots, req : Requests,
                              seen : MemberRow \cup RecoveryRow \cup {Unloaded}]
               /\ request[job[h].req] # NoRow
    BY <1>0, <1>a, JobFields DEF LoadedFits
  <1>6. ASSUME NEW h \in Handlers, ExecuteLoad(h)
        PROVE  JobsTyped
    <2> DEFINE r == request[job[h].req]
               rec == IF r.op \in StaffOps THEN member[r.target] ELSE recovery[r.target]
               j == [job[h] EXCEPT !.seen = rec]
    <2>1. job[h].op = "approve" /\ r.op # UnlockOp /\ job' = [job EXCEPT ![h] = j]
      BY <1>6 DEF ExecuteLoad
    <2>2. job[h].req \in Requests /\ r # NoRow
      BY <1>a, <2>1
    <2>3. r.op \in StaffOps \cup RecoveryOps /\ TargetFits(r)
      BY <1>0, <2>1, <2>2 DEF RequestRow, AdminTypes
    <2>4. /\ r.op \in StaffOps => rec \in MemberRow
          /\ r.op \notin StaffOps => rec \in RecoveryRow
      BY <1>0, <2>3 DEF TargetFits
    <2>5. \A o \in StaffOps : o \notin RecoveryOps
      BY DEF StaffOps, RecoveryOps
    <2>6. /\ j \in [op : {"approve"}, actor : Roots, req : Requests,
                    seen : MemberRow \cup RecoveryRow \cup {Unloaded}]
          /\ j.op = "approve" /\ j.req = job[h].req /\ j.seen = rec
      <3> HIDE DEF rec
      <3> QED BY <1>a, <2>1, <2>3, <2>4
    <2> HIDE DEF j, rec
    <2>7. j \in AdminJobs
      BY ZenonT(30), <2>6, JobsAre
    <2>8. LoadedFits(j)
      BY <2>2, <2>4, <2>5, <2>6 DEF LoadedFits
    <2> QED BY ZenonT(30), <1>w, <2>1, <2>7, <2>8
  <1>7. ASSUME NEW h \in Handlers, ExecuteRecovery(h)
        PROVE  JobsTyped
    <2>1. job[h].op = "approve" /\ \E s \in {"executed", "execution_failed"} :
            job' = [job EXCEPT ![h] = [op |-> "finish", actor |-> job[h].actor, req |-> job[h].req, status |-> s]]
      BY Zenon, <1>7 DEF ExecuteRecovery
    <2>2. job[h].actor \in Roots /\ job[h].req \in Requests /\ request[job[h].req] # NoRow
      BY <1>a, <2>1
    <2>3. \A s \in {"executed", "execution_failed"} :
            LET j == [op |-> "finish", actor |-> job[h].actor, req |-> job[h].req, status |-> s]
            IN  j \in AdminJobs /\ LoadedFits(j)
      BY ZenonT(30), <2>2, JobsAre DEF LoadedFits
    <2> QED BY <1>w, <2>1, <2>3, Zenon
  <1>8. CASE LocksNext
    <2>1. ASSUME NEW h \in Handlers, NEW c \in Customers,
                 \/ SignInCheck(h, c) \/ FreezeOwnCheck(h, c)
                 \/ \E s \in Staff : UnfreezeCheck(h, s, c) \/ StaffFreezeCheck(h, s, c)
          PROVE  JobsTyped
      <3>1. \E o \in {"signin", "freezeOwn", "unfreeze", "freeze"} : Begin(h, [op |-> o, cust |-> c])
        BY <2>1 DEF SignInCheck, FreezeOwnCheck, UnfreezeCheck, StaffFreezeCheck
      <3>2. \A o \in {"signin", "freezeOwn", "unfreeze", "freeze"} :
              [op |-> o, cust |-> c] \in [op : {"signin", "freezeOwn", "unfreeze", "freeze"}, cust : Customers]
        OBVIOUS
      <3> QED BY <1>1, <3>1, <3>2, Zenon
    <2> QED BY Zenon, <1>d, <1>x, <1>2, <1>3, <1>8, <2>1 DEF LocksNext, SignInFinish,
               LockUserAccount, FreezeOwnCommit, UnfreezeCommit, StaffFreezeCommit, HandlerFails,
               FailureWindowEnds
  <1>9. CASE RecoveryNext
    <2>1. ASSUME NEW h \in Handlers, NEW i \in Recoveries, SubmitRecovery(h, i)
          PROVE  JobsTyped
      <3> DEFINE j == [op |-> "submit", target |-> i]
      <3>1. j \in AdminJobs /\ LoadedFits(j)
        BY Zenon, JobsAre DEF LoadedFits
      <3>2. job' = job \/ job' = [job EXCEPT ![h] = j]
        BY Zenon, <2>1 DEF SubmitRecovery
      <3> HIDE DEF j
      <3> QED BY Zenon, <1>w, <1>x, <3>1, <3>2
    <2> QED BY Zenon, <1>d, <1>x, <1>4, <1>7, <1>9, <2>1 DEF RecoveryNext, InsertRecovery,
               ReviewCommit, RecoveryFallsDue, ExpireOnRequest, ExpireManualRecoveryRequests,
               RequestRecoveryDecision, lockVars
  <1>10. CASE AccountsNext \/ UnlockNext
    <2>1. ASSUME NEW h \in Handlers, NEW a \in Roots, NEW c \in Customers, UnlockRequestCheck(h, a, c)
          PROVE  JobsTyped
      <3> DEFINE j == [op |-> "ask", actor |-> a, cust |-> c]
      <3>1. j \in AdminJobs /\ LoadedFits(j)
        BY Zenon, JobsAre DEF LoadedFits
      <3>2. job' = [job EXCEPT ![h] = j]
        BY Zenon, <2>1 DEF UnlockRequestCheck, Begin
      <3> HIDE DEF j
      <3> QED BY Zenon, <1>w, <3>1, <3>2
    <2> QED BY Zenon, <1>10, <1>d, <1>x, <2>1 DEF AccountsNext, UnlockNext, RequestStaffTransition,
               ExecuteStaff, RequestCustomerSecurityUnlock, ExecuteUnlock, lockVars
  <1>11. CASE DecisionNext
    BY Zenon, <1>11, <1>d, <1>x, <1>5, <1>6 DEF DecisionNext, FinishDecision, CancelCommit,
       RequestFallsDue, ExpireAdminActionRequest, RootWithdrawn, lockVars
  <1> QED BY <1>x, <1>8, <1>9, <1>10, <1>11 DEF AdminNext, makerVars, lockVars

LEMMA TypesStep ==
  ASSUME AdminTypes, [AdminNext]_makerVars
  PROVE  AdminTypes'
  <1>1. LocksTypeOK' /\ member' \in [Members -> MemberRow]
    BY LocksKept, MembersKept
  <1>2. RecoveriesTyped /\ RequestsTyped /\ JobsTyped
    BY RecoveriesKept, RequestsKept, JobsKept
  <1>3. eligible' \subseteq Roots
    <2>1. eligible \subseteq Roots
      BY DEF AdminTypes, AdminTypeOK
    <2>2. eligible' \subseteq eligible
      BY ZenonT(30) DEF AdminNext, makerVars, adminVars, AccountsNext, UnlockNext, DecisionNext,
         RecoveryNext, RequestStaffTransition, UnlockRequestCheck, RequestCustomerSecurityUnlock, ExecuteUnlock,
         ExecuteStaff, ExpireAdminActionRequest, ApproveCheck, RejectCheck, CancelCheck,
         RequestFallsDue, ExecuteLoad, FinishDecision, CancelCommit, RootWithdrawn, SubmitRecovery,
         InsertRecovery, ReviewLoad, ReviewCommit, ExecuteRecovery, RecoveryFallsDue,
         ExpireOnRequest, RequestRecoveryDecision, ExpireManualRecoveryRequests
    <2> QED BY <2>1, <2>2
  <1>4. AdminTypeOK'
    BY <1>1, <1>2, <1>3 DEF AdminTypeOK, RecoveriesTyped, RequestsTyped
  <1>5. ASSUME NEW q \in Requests, request'[q] # NoRow
        PROVE  TargetFits(request[q])'
    <2>1. \A i \in Recoveries : recovery[i] # NoRow => recovery'[i] # NoRow
      BY <1>2 DEF RecoveriesTyped
    <2>2. \/ request[q] # NoRow /\ request'[q].op = request[q].op /\ request'[q].target = request[q].target
          \/ TargetFits(request'[q])
      BY <1>2, <1>5 DEF RequestsTyped
    <2>3. request[q] # NoRow => TargetFits(request[q])
      BY DEF AdminTypes
    <2> QED BY <2>1, <2>2, <2>3 DEF TargetFits
  <1> QED BY Zenon, <1>2, <1>4, <1>5 DEF AdminTypes, JobsTyped

\* The tables of admin/services.py and the lock columns of auth/services.py, for any
\* employees, customers, requests and handlers: every row keeps its type although rows
\* are written from copies loaded before a commit, and a decided request names the root
\* admin who decided it.
THEOREM AdminTyped == AdminSpec => []AdminTypeOK
  <1>1. AdminTypes => AdminTypeOK
    BY DEF AdminTypes
  <1> QED BY TypesBegin, TypesStep, <1>1, PTL DEF AdminSpec

-----------------------------------------------------------------------------
(* Top-ups: what has been committed is consistent however submissions and      *)
(* status checks interleave, fail and write from old copies.                   *)

Holding == {"reload", "second", "credit"}

\* TypeOK is inductive with one fact: a count is written from a loaded copy.
TopUpRows == TypeOK /\ \A r \in HttpRequests : pc[r] = "count" => copy[r] \in Loaded

\* An accepted code belongs to one request until it has paid for one credit.
CodesSpent ==
    /\ \A r \in HttpRequests : pc[r] \in Holding =>
          /\ work[r].code \in used
          /\ \A q \in HttpRequests : pc[q] \in Holding /\ work[q].code = work[r].code => q = r
          /\ \A c \in credits : c.code # work[r].code
    /\ \A c \in credits : c.code \in used

Inv == TopUpRows /\ CodesSpent /\ CodeBuysOneCredit /\ CompletedMeansCredited

\* What a step that writes one row does to its status.
StatusMoves(s, t) == t = s \/ t \in {"failed", "expired"} \/ (s = "absent" /\ t = "pending")

\* Every row but those of a credit moves so.
RowsMove == \A t \in Tokens : StatusMoves(row[t].status, row'[t].status)

LEMMA InitHolds == Init => Inv
  <1> SUFFICES ASSUME Init PROVE Inv
    OBVIOUS
  <1>1. TopUpRows
    BY Zenon, SomeToken DEF Init, TopUpRows, TypeOK, RowValues, Statuses, Works, Stages
  <1>2. CodesSpent /\ CodeBuysOneCredit /\ CompletedMeansCredited
    BY DEF Init, CodesSpent, Holding, CodeBuysOneCredit, CompletedMeansCredited
  <1> QED BY <1>1, <1>2 DEF Inv

LEMMA CurrentLoaded ==
  ASSUME TypeOK, NEW t \in Tokens
  PROVE  Current(t) \in Loaded
  BY DEF TypeOK, Current, Loaded, RowValues

-----------------------------------------------------------------------------
(* TopUpRows.                                                                *)

LEMMA SetStatusTypes ==
  ASSUME TypeOK, NEW r \in HttpRequests, NEW s \in Statuses, SetStatus(r, s)
  PROVE  row' \in [Tokens -> RowValues]
  <1>1. Tok(r) \in Tokens
    BY DEF TypeOK, Tok, Works
  <1>2. [row[Tok(r)] EXCEPT !.status = s] \in RowValues
    BY <1>1 DEF TypeOK, RowValues
  <1> QED BY <1>1, <1>2 DEF TypeOK, SetStatus

LEMMA ReleaseTypes ==
  ASSUME TypeOK, NEW r \in HttpRequests, Release(r)
  PROVE  lock' \in [Tokens -> HttpRequests \cup {Nobody}]
  BY Zenon DEF TypeOK, Release

LEMMA GoToTypes ==
  ASSUME TypeOK, NEW r \in HttpRequests, NEW s \in Stages, GoTo(r, s)
  PROVE  /\ pc' \in [HttpRequests -> Stages] /\ pc'[r] = s
         /\ \A q \in HttpRequests : q # r => pc'[q] = pc[q]
  BY DEF TypeOK, GoTo

LEMMA TriageTypes ==
  ASSUME TypeOK, NEW r \in HttpRequests, NEW t \in Tokens, NEW c \in Loaded \cup {NotLoaded},
         NEW next \in {"code", "credit"}, Triage(r, t, c, next)
  PROVE  /\ lock' \in [Tokens -> HttpRequests \cup {Nobody}]
         /\ copy' \in [HttpRequests -> Loaded \cup {NotLoaded}]
         /\ pc' \in [HttpRequests -> Stages] /\ pc'[r] \in {"done", "expire", next}
         /\ \A q \in HttpRequests : q # r => pc'[q] = pc[q] /\ copy'[q] = copy[q]
  <1>1. lock' \in [Tokens -> HttpRequests \cup {Nobody}]
    BY DEF TypeOK, Triage
  <1>2. copy' \in [HttpRequests -> Loaded \cup {NotLoaded}] /\ \A q \in HttpRequests : q # r => copy'[q] = copy[q]
    BY DEF TypeOK, Triage
  <1>3. \E s \in {"done", "expire", next} : GoTo(r, s)
    BY DEF Triage
  <1> QED BY <1>1, <1>2, <1>3, GoToTypes DEF Stages

LEMMA TopUpRowsStep ==
  ASSUME TopUpRows, CodesSpent, [Next]_vars
  PROVE  TopUpRows'
  <1> USE DEF TopUpRows
  <1>0. \A r \in HttpRequests : Tok(r) \in Tokens
    BY DEF TypeOK, Tok, Works
  <1>1. ASSUME NEW t \in Tokens, Submit(t) \/ Expire(t)
        PROVE  TopUpRows'
    BY <1>1 DEF Submit, Expire, TypeOK, RowValues, Statuses
  <1>2. ASSUME NEW r \in HttpRequests, NEW t \in Tokens, Look(r, t)
        PROVE  TopUpRows'
    <2>1. Current(t) \in Loaded
      BY CurrentLoaded
    <2>2. copy' \in [HttpRequests -> Loaded \cup {NotLoaded}] /\ \A q \in HttpRequests : q # r => copy'[q] = copy[q]
      BY <1>2, <2>1 DEF Look, TypeOK
    <2>3. \E s \in {"expire", "done"} : GoTo(r, s)
      BY <1>2 DEF Look
    <2>4. pc' \in [HttpRequests -> Stages] /\ pc'[r] # "count" /\ \A q \in HttpRequests : q # r => pc'[q] = pc[q]
      BY <2>3, GoToTypes DEF Stages
    <2>5. work' \in [HttpRequests -> Works]
      BY <1>2 DEF Look, TypeOK, Works
    <2> QED BY <1>2, <2>2, <2>4, <2>5 DEF Look, TypeOK
  <1>3. ASSUME NEW r \in HttpRequests, NEW t \in Tokens, NEW code \in Steps \cup {Wrong}, Open(r, t, code)
        PROVE  TopUpRows'
    <2>1. Current(t) \in Loaded
      BY CurrentLoaded
    <2>2. work' \in [HttpRequests -> Works]
      BY <1>3 DEF Open, TypeOK, Works
    <2> QED BY Zenon, <1>3, <2>1, <2>2, TriageTypes DEF Open, TypeOK
  <1>4. ASSUME NEW r \in HttpRequests, OwnerIneligible(r)
        PROVE  TopUpRows'
    <2>1. row' \in [Tokens -> RowValues]
      BY <1>4, SetStatusTypes DEF OwnerIneligible, TypeOK, Statuses
    <2> QED BY <1>4, <2>1, ReleaseTypes, GoToTypes DEF OwnerIneligible, TypeOK, Stages
  <1>5. ASSUME NEW r \in HttpRequests, CheckCode(r)
        PROVE  TopUpRows'
    <2>1. \E s \in {"reload", "failure"} : GoTo(r, s)
      BY Zenon, <1>5 DEF CheckCode
    <2>2. pc' \in [HttpRequests -> Stages] /\ pc'[r] # "count" /\ \A q \in HttpRequests : q # r => pc'[q] = pc[q]
      BY <2>1, GoToTypes DEF Stages
    <2>3. used' \subseteq Steps
      BY <1>5 DEF CheckCode, TypeOK
    <2>4. copy' \in [HttpRequests -> Loaded \cup {NotLoaded}] /\ \A q \in HttpRequests : q # r => copy'[q] = copy[q]
      BY <1>5 DEF CheckCode, TypeOK
    <2> QED BY <1>5, <2>2, <2>3, <2>4, ReleaseTypes DEF CheckCode, TypeOK
  <1>6. ASSUME NEW r \in HttpRequests, Backoff(r) \/ Fail(r)
        PROVE  TopUpRows'
    BY <1>6, ReleaseTypes, GoToTypes DEF Backoff, Fail, TypeOK, Stages
  <1>7. ASSUME NEW r \in HttpRequests, Reload(r)
        PROVE  TopUpRows'
    <2>1. Current(Tok(r)) \in Loaded
      BY <1>0, CurrentLoaded
    <2>2. copy' \in [HttpRequests -> Loaded \cup {NotLoaded}] /\ \A q \in HttpRequests : q # r => copy'[q] = copy[q]
      BY <1>7, <2>1 DEF Reload, TypeOK
    <2> QED BY <1>7, <2>2, GoToTypes DEF Reload, TypeOK, Stages
  <1>8. ASSUME NEW r \in HttpRequests, Reopen(r)
        PROVE  TopUpRows'
    <2> DEFINE c == IF copy[r] = NotLoaded THEN Current(Tok(r)) ELSE copy[r]
    <2>1. c \in Loaded \cup {NotLoaded} /\ Tok(r) \in Tokens
      BY <1>0, CurrentLoaded DEF TypeOK
    <2>2. Triage(r, Tok(r), c, "credit")
      BY Zenon, <1>8 DEF Reopen
    <2> HIDE DEF c
    <2> QED BY <1>8, <2>1, <2>2, TriageTypes DEF Reopen, TypeOK
  <1>9. ASSUME NEW r \in HttpRequests, Credit(r)
        PROVE  TopUpRows'
    <2>1. row' \in [Tokens -> RowValues]
      BY <1>9, SetStatusTypes DEF Credit, TypeOK, Statuses
    <2>2. \E s \in {"refuse", "done"} : GoTo(r, s)
      BY Zenon, <1>9 DEF Credit
    <2>3. pc' \in [HttpRequests -> Stages] /\ pc'[r] # "count" /\ \A q \in HttpRequests : q # r => pc'[q] = pc[q]
      BY <2>2, GoToTypes DEF Stages
    <2>4. [req |-> r, tok |-> Tok(r), code |-> work[r].code] \in Credits
      BY <1>0, <1>9 DEF Credit, CodesSpent, Holding, TypeOK, Credits
    <2>5. credits' \subseteq Credits
      BY <1>9, <2>4 DEF Credit, TypeOK
    <2> QED BY <1>9, <2>1, <2>3, <2>5, ReleaseTypes DEF Credit, TypeOK
  <1>10. ASSUME NEW r \in HttpRequests, MarkRefused(r)
         PROVE  TopUpRows'
    BY <1>10, SetStatusTypes, GoToTypes DEF MarkRefused, TypeOK, Stages, Statuses
  <1>11. ASSUME NEW r \in HttpRequests, ReadFailures(r)
         PROVE  TopUpRows'
    <2>1. Current(Tok(r)) \in Loaded
      BY <1>0, CurrentLoaded
    <2>2. /\ copy' \in [HttpRequests -> Loaded \cup {NotLoaded}] /\ copy'[r] \in Loaded
          /\ \A q \in HttpRequests : q # r => copy'[q] = copy[q]
      BY <1>11, <2>1 DEF ReadFailures, TypeOK
    <2> QED BY <1>11, <2>2, GoToTypes DEF ReadFailures, TypeOK, Stages
  <1>12. ASSUME NEW r \in HttpRequests, CountFailure(r)
         PROVE  TopUpRows'
    <2>1. copy[r] \in Loaded /\ Tok(r) \in Tokens
      BY Zenon, <1>0, <1>12 DEF CountFailure
    <2>2. copy[r].failures + 1 \in Nat /\ row[Tok(r)].status \in Statuses /\ "failed" \in Statuses
      BY <2>1 DEF Loaded, TypeOK, RowValues, Statuses
    <2>3. row' \in [Tokens -> RowValues]
      BY <1>12, <2>1, <2>2 DEF CountFailure, TypeOK, RowValues
    <2> QED BY <1>12, <2>3, GoToTypes DEF CountFailure, TypeOK, Stages
  <1>13. ASSUME NEW r \in HttpRequests, MarkExpired(r)
         PROVE  TopUpRows'
    BY <1>13, SetStatusTypes, ReleaseTypes, GoToTypes DEF MarkExpired, TypeOK, Stages, Statuses
  <1>14. CASE Freeze \/ UNCHANGED vars
    BY ZenonT(30), <1>14 DEF Freeze, vars, TypeOK
  <1> QED BY Zenon, <1>1, <1>2, <1>3, <1>4, <1>5, <1>6, <1>7, <1>8, <1>9, <1>10, <1>11, <1>12,
             <1>13, <1>14 DEF Next, Step

-----------------------------------------------------------------------------
(* Codes and credits.                                                       *)

\* A step after which every request that holds a code held it before.
NoneTakesCode ==
    /\ \A q \in HttpRequests : pc'[q] \in Holding => pc[q] \in Holding /\ work'[q].code = work[q].code
    /\ UNCHANGED <<used, credits>>

LEMMA CodesKept ==
  ASSUME CodesSpent, CodeBuysOneCredit, NoneTakesCode
  PROVE  CodesSpent' /\ CodeBuysOneCredit'
  BY ZenonT(30) DEF CodesSpent, CodeBuysOneCredit, NoneTakesCode

LEMMA CodesStep ==
  ASSUME TopUpRows, CodesSpent, CodeBuysOneCredit, [Next]_vars
  PROVE  CodesSpent' /\ CodeBuysOneCredit'
  <1> USE DEF TopUpRows
  <1>0. \A r \in HttpRequests : Tok(r) \in Tokens
    BY ZenonT(30) DEF TypeOK, Tok, Works
  <1>1. ASSUME NEW r \in HttpRequests, NEW s \in Stages \ Holding, GoTo(r, s),
               UNCHANGED <<used, credits, work>>
        PROVE  NoneTakesCode
    BY <1>1, GoToTypes DEF NoneTakesCode, Holding
  <1>2. ASSUME NEW r \in HttpRequests, NEW t \in Tokens, Look(r, t)
        PROVE  NoneTakesCode
    <2>1. \E s \in {"expire", "done"} : GoTo(r, s)
      BY <1>2 DEF Look
    <2>2. pc'[r] \notin Holding /\ \A q \in HttpRequests : q # r => pc'[q] = pc[q]
      BY <2>1, GoToTypes DEF Stages, Holding
    <2>3. \A q \in HttpRequests : q # r => work'[q] = work[q]
      BY <1>2 DEF Look, TypeOK
    <2> QED BY <1>2, <2>2, <2>3 DEF Look, NoneTakesCode
  <1>3. ASSUME NEW r \in HttpRequests, NEW t \in Tokens, NEW code \in Steps \cup {Wrong}, Open(r, t, code)
        PROVE  NoneTakesCode
    <2>1. Current(t) \in Loaded
      BY CurrentLoaded
    <2>2. Triage(r, t, Current(t), "code")
      BY <1>3 DEF Open
    <2>3. pc'[r] \notin Holding /\ \A q \in HttpRequests : q # r => pc'[q] = pc[q]
      BY <2>1, <2>2, TriageTypes DEF Holding
    <2>4. \A q \in HttpRequests : q # r => work'[q] = work[q]
      BY <1>3 DEF Open, TypeOK
    <2> QED BY Zenon, <1>3, <2>3, <2>4 DEF Open, NoneTakesCode
  <1>4. ASSUME NEW r \in HttpRequests, CheckCode(r)
        PROVE  CodesSpent' /\ CodeBuysOneCredit'
    <2>1. CASE work[r].code \in Steps \ used
      <3>1. used' = used \cup {work[r].code} /\ GoTo(r, "reload") /\ UNCHANGED <<work, credits>>
        BY Zenon, <1>4, <2>1 DEF CheckCode
      <3>2. pc'[r] \in Holding /\ \A q \in HttpRequests : q # r => pc'[q] = pc[q]
        BY <3>1, GoToTypes DEF Stages, Holding
      <3> QED BY <2>1, <3>1, <3>2 DEF CodesSpent, CodeBuysOneCredit
    <2>2. CASE work[r].code \notin Steps \ used
      BY <1>1, <1>4, <2>2, CodesKept DEF CheckCode, Stages, Holding
    <2> QED BY <2>1, <2>2
  <1>5. ASSUME NEW r \in HttpRequests, Reload(r)
        PROVE  NoneTakesCode
    BY <1>5, GoToTypes DEF Reload, NoneTakesCode, Holding, Stages
  <1>6. ASSUME NEW r \in HttpRequests, Reopen(r)
        PROVE  NoneTakesCode
    <2> DEFINE c == IF copy[r] = NotLoaded THEN Current(Tok(r)) ELSE copy[r]
    <2>1. c \in Loaded \cup {NotLoaded} /\ Tok(r) \in Tokens
      BY <1>0, CurrentLoaded DEF TypeOK
    <2>2. Triage(r, Tok(r), c, "credit")
      BY Zenon, <1>6 DEF Reopen
    <2> HIDE DEF c
    <2>3. \A q \in HttpRequests : q # r => pc'[q] = pc[q]
      BY <2>1, <2>2, TriageTypes
    <2> QED BY <1>6, <2>3 DEF Reopen, NoneTakesCode, Holding
  <1>7. ASSUME NEW r \in HttpRequests, Credit(r)
        PROVE  CodesSpent' /\ CodeBuysOneCredit'
    <2>1. CASE copy[r].frozen
      BY <1>1, <1>7, <2>1, CodesKept DEF Credit, Stages, Holding
    <2>2. CASE ~copy[r].frozen
      <3> DEFINE new == [req |-> r, tok |-> Tok(r), code |-> work[r].code]
      <3>1. credits' = credits \cup {new} /\ GoTo(r, "done") /\ UNCHANGED <<work, used>>
        BY ZenonT(30), <1>7, <2>2 DEF Credit
      <3>2. new.code = work[r].code /\ pc[r] \in Holding
        BY <1>7 DEF Credit, Holding
      <3> HIDE DEF new
      <3>3. pc'[r] \notin Holding /\ \A q \in HttpRequests : q # r => pc'[q] = pc[q]
        BY <3>1, GoToTypes DEF Stages, Holding
      <3>4. CodesSpent'
        BY <3>1, <3>2, <3>3 DEF CodesSpent
      <3>5. CodeBuysOneCredit'
        <4>1. \A c \in credits : c.code # new.code
          BY ZenonT(30), <3>2 DEF CodesSpent
        <4> QED BY ZenonT(30), <3>1, <4>1 DEF CodeBuysOneCredit
      <3> QED BY <3>4, <3>5
    <2> QED BY ZenonT(30), <2>1, <2>2
  <1>8. ASSUME NEW r \in HttpRequests, OwnerIneligible(r) \/ Backoff(r) \/ MarkRefused(r) \/ CountFailure(r)
                                   \/ MarkExpired(r) \/ Fail(r)
        PROVE  NoneTakesCode
    BY ZenonT(30), <1>1, <1>8 DEF OwnerIneligible, Backoff, MarkRefused, CountFailure, MarkExpired,
       Fail, Stages, Holding
  <1>9. ASSUME NEW r \in HttpRequests, ReadFailures(r)
        PROVE  NoneTakesCode
    BY <1>1, <1>9 DEF ReadFailures, Stages, Holding
  <1>10. CASE Freeze \/ UNCHANGED vars \/ \E t \in Tokens : Submit(t) \/ Expire(t)
    BY <1>10, CodesKept DEF Freeze, Submit, Expire, vars, NoneTakesCode
  <1> QED BY Zenon, <1>2, <1>3, <1>4, <1>5, <1>6, <1>7, <1>8, <1>9, <1>10, CodesKept DEF Next, Step

-----------------------------------------------------------------------------
(* Rows.                                                                    *)

LEMMA SetStatusMoves ==
  ASSUME TypeOK, NEW r \in HttpRequests, NEW s, SetStatus(r, s)
  PROVE  /\ row'[Tok(r)].status = s /\ Tok(r) \in Tokens
         /\ \A t \in Tokens : t # Tok(r) => row'[t] = row[t]
  BY DEF TypeOK, SetStatus, Tok, Works, RowValues

LEMMA RowsStep ==
  ASSUME TypeOK, [Next]_vars
  PROVE  \/ RowsMove /\ credits' = credits
         \/ \E r \in HttpRequests :
              /\ SetStatus(r, "completed")
              /\ \E c : c.tok = Tok(r) /\ credits' = credits \cup {c}
  <1>0. row' = row => RowsMove
    BY DEF RowsMove, StatusMoves
  <1>1. ASSUME NEW r \in HttpRequests, NEW s \in {"failed", "expired"}, SetStatus(r, s)
        PROVE  RowsMove
    BY <1>1, SetStatusMoves DEF RowsMove, StatusMoves
  <1>2. ASSUME NEW t \in Tokens, Submit(t)
        PROVE  RowsMove
    BY <1>2 DEF Submit, RowsMove, StatusMoves, TypeOK, RowValues
  <1>3. ASSUME NEW r \in HttpRequests, CountFailure(r)
        PROVE  RowsMove
    BY <1>3 DEF CountFailure, RowsMove, StatusMoves, TypeOK
  <1>4. ASSUME NEW r \in HttpRequests, Credit(r), ~copy[r].frozen
        PROVE  \E c : c.tok = Tok(r) /\ credits' = credits \cup {c}
    <2> DEFINE new == [req |-> r, tok |-> Tok(r), code |-> work[r].code]
    <2>1. credits' = credits \cup {new} /\ new.tok = Tok(r)
      BY <1>4 DEF Credit
    <2> QED BY Zenon, <2>1
  <1>5. ASSUME NEW r \in HttpRequests, Credit(r)
        PROVE  \/ RowsMove /\ credits' = credits
               \/ SetStatus(r, "completed") /\ \E c : c.tok = Tok(r) /\ credits' = credits \cup {c}
    BY <1>0, <1>4, <1>5 DEF Credit
  <1>6. ASSUME NEW r \in HttpRequests, OwnerIneligible(r) \/ MarkRefused(r) \/ MarkExpired(r)
        PROVE  RowsMove /\ credits' = credits
    BY <1>0, <1>1, <1>6 DEF OwnerIneligible, MarkRefused, MarkExpired
  <1> QED
    BY <1>0, <1>2, <1>3, <1>5, <1>6 DEF Next, Step, vars, Submit, Expire, Look, Open, CheckCode,
       Backoff, Reload, Reopen, ReadFailures, CountFailure, Fail, Freeze

LEMMA CreditedStep ==
  ASSUME TypeOK, CompletedMeansCredited, [Next]_vars
  PROVE  CompletedMeansCredited'
  <1>1. CASE RowsMove /\ credits' = credits
    BY <1>1 DEF RowsMove, StatusMoves, CompletedMeansCredited
  <1>2. ASSUME NEW r \in HttpRequests, SetStatus(r, "completed"),
               NEW c, c.tok = Tok(r), credits' = credits \cup {c}
        PROVE  CompletedMeansCredited'
    BY <1>2, SetStatusMoves DEF CompletedMeansCredited
  <1> QED BY <1>1, <1>2, RowsStep

-----------------------------------------------------------------------------
LEMMA Invariance == Spec => []Inv
  <1>1. Init => Inv
    BY InitHolds
  <1>2. Inv /\ [Next]_vars => Inv'
    BY TopUpRowsStep, CodesStep, CreditedStep DEF Inv, TopUpRows
  <1> QED BY <1>1, <1>2, PTL DEF Spec

\* Type correctness of topup_approval_requests and of what each submission has loaded: a
\* status outside the table's, or a count written from an unloaded copy, cannot occur.
THEOREM TopUpTypes == Spec => []TypeOK
  <1>1. Inv => TypeOK
    BY DEF Inv, TopUpRows
  <1> QED BY <1>1, Invariance, PTL

\* verify_totp_code_for_user before credit_account_topup, for any devices, requests and
\* codes: no two credits were paid for by one code.
THEOREM TopUpCodes == Spec => []CodeBuysOneCredit
  <1>1. Inv => CodeBuysOneCredit
    BY DEF Inv
  <1> QED BY <1>1, Invariance, PTL

\* The commit of topup_approve_submit, for any interleaving: a row that says completed
\* has its credit.
THEOREM TopUpCompleted == Spec => []CompletedMeansCredited
  <1>1. Inv => CompletedMeansCredited
    BY DEF Inv
  <1> QED BY <1>1, Invariance, PTL

\* Counts and marks written from old copies, for any interleaving: none of them makes a
\* settled request pending again.
THEOREM TopUpSettled == Spec => NeverReopened
  <1>1. Inv /\ [Next]_vars =>
          [\A t \in Tokens : row[t].status \in Settled => row'[t].status \in Settled]_vars
    <2> SUFFICES ASSUME Inv, [Next]_vars, NEW t \in Tokens, row[t].status \in Settled
                 PROVE  row'[t].status \in Settled
      OBVIOUS
    <2>1. TypeOK
      BY DEF Inv, TopUpRows
    <2>2. CASE RowsMove
      BY <2>2 DEF RowsMove, StatusMoves, Settled
    <2>3. ASSUME NEW r \in HttpRequests, SetStatus(r, "completed")
          PROVE  row'[t].status \in Settled
      BY <2>1, <2>3, SetStatusMoves DEF Settled
    <2> QED BY <2>1, <2>2, <2>3, RowsStep
  <1> QED BY <1>1, Invariance, PTL DEF Spec, NeverReopened
=============================================================================
