------------------------------ MODULE MCStaff ------------------------------
(* The staff side for TLC. The kinds of maker-checker request touch disjoint  *)
(* rows, so each behaviour plays one scene: customer locks and their unlock,  *)
(* staff accounts, or manual recoveries.                                      *)
EXTENDS AdminActions, TLC

CONSTANTS c1, s1, a1, a2, a3, m1, i1, h1, h2, q1, q2

LinkedPairs == {<<a3, c1>>}
OwnerOf == [i \in Recoveries |-> c1]
NamedBy == [i \in Recoveries |-> "email"]
Thresholds == [s \in {"password", "mfa", "password_change"} |-> IF s = "password" THEN 2 ELSE 1]

VARIABLE scene

StaffInit == AdminInit /\ scene \in {"locks", "accounts", "recoveries"}

\* Requests falling due and root admins leaving are played with staff accounts; one
\* request is enough for the lock scene, whose locks come and go around it.
SceneBound ==
  /\ scene # "accounts" => eligible' = Roots /\ \A q \in Requests : request'[q] # NoRow => ~request'[q].due
  /\ a3 \in eligible' /\ \A q \in Requests : request'[q] # NoRow => request'[q].requester # a3
  /\ scene = "locks" => \E q \in Requests : request'[q] = NoRow

StaffNext ==
  /\ \/ scene = "locks" /\ LocksNext /\ UNCHANGED adminVars
     \/ scene = "locks" /\ UnlockNext
     \/ scene = "accounts" /\ AccountsNext
     \/ scene = "recoveries" /\ RecoveryNext
     \/ scene # "locks" /\ UNCHANGED adminVars /\ \E h \in Handlers : HandlerFails(h)
     \/ DecisionNext
  /\ SceneBound
  /\ UNCHANGED scene

StaffSpec == StaffInit /\ [][StaffNext]_<<makerVars, scene>>

\* Handlers are alike, and so are request ids and the root admins that are no customer.
Alike == Permutations({h1, h2}) \cup Permutations({q1, q2}) \cup Permutations({a1, a2})
=============================================================================
