----------------------------- MODULE MCRequests -----------------------------
(* Whether every request is answered, for TLC: those that approve top-ups     *)
(* (TopUpApproval), and those that move money while they wait for each        *)
(* other's locks (Transfers, here with names of its own). Each behaviour      *)
(* plays one of the two.                                                      *)
EXTENDS TopUpApproval

CONSTANTS t1, t2, t3

VARIABLES users, pending, ledger, rowLock, tokLock, auditLock, stage, task, seen, day, scene

TwoAccounts == {1, 2}
Payments == {t1, t2, t3}
Three == {[c \in {"local", "payup"} |-> 3]}

\* Two accounts that pay each other while one of them is topped up.
Crossing == [t \in Payments |->
               CASE t = t1 -> [chan |-> "local", from |-> 1, to |-> 2, amount |-> 1]
                 [] t = t2 -> [chan |-> "local", from |-> 2, to |-> 1, amount |-> 1]
                 [] t = t3 -> [chan |-> "topup", from |-> 1, to |-> 1, amount |-> 1]]

Moves == INSTANCE Transfers WITH
           Accounts <- TwoAccounts, Tokens <- Payments, Order <- Crossing,
           Opening <- [a \in TwoAccounts |-> 3], Limits <- Three,
           DefaultLimit <- CHOOSE l \in Three : TRUE,
           QuickCap <- 2, QuickDailyCap <- 2, MaxDay <- 0, pc <- stage, work <- task,
           Requests <- HttpRequests, Free <- Nobody

moveVars == <<users, pending, ledger, rowLock, tokLock, auditLock, stage, task, seen, day>>

RequestsInit == Init /\ Moves!Init /\ scene \in {"approvals", "moves"}

RequestsNext ==
  /\ UNCHANGED scene
  /\ \/ scene = "approvals" /\ Next /\ UNCHANGED moveVars
     \/ scene = "moves" /\ Moves!Next /\ UNCHANGED vars

RequestsSpec ==
  /\ RequestsInit /\ [][RequestsNext]_<<vars, moveVars, scene>>
  /\ \A r \in HttpRequests : SF_vars(Step(r))
  /\ Moves!Fairness

\* Every request is answered, whether it approves a top-up (topup_approve_submit) or
\* moves money: what is committed on the way leaves no lock behind, and no wait for a
\* lock is forever, since each deadlock is broken.
EveryRequestEnds == EveryRequestAnswered /\ Moves!EveryRequestFinishes

\* "Row locks are acquired in ascending id order to prevent deadlocks"
\* (docs/OPERATIONS.md): no requests wait for each other in a cycle.
NoDeadlock == Moves!NoDeadlock
=============================================================================
