------------------------------ MODULE MCOffice ------------------------------
(* The back office for TLC: staff invites, customer cases, attempt counters,  *)
(* security alerts and the operator's keyrings. They share no row, so each    *)
(* behaviour plays one scene and leaves the rest as it started. Model values  *)
(* serve several modules.                                                     *)
EXTENDS StaffInvites, Cases, AttemptCounters, Alerts, Keyrings, TLC

CONSTANTS h1, h2, x1, x2, y1, y2, z1, z2, k1, l1

Bursts == [a \in AlertTypes |-> IF a = "account_lock" THEN 1 ELSE 2]

VARIABLE scene

OfficeInit ==
  /\ InvitesInit /\ CasesInit /\ CountersInit /\ AlertsInit /\ KeyringsInit
  /\ scene \in {"invites", "cases", "counters", "locks", "bursts", "integrity", "keks", "ledger"}
  /\ kekActive = k1 /\ ledgerActive = l1
  /\ scene # "ledger" => rowKey = [r \in LedgerRows |-> "absent"]

\* Two invites at once: the second is played while the first is young.
InvitesBound ==
  (\A i \in Invites : invite[i] # NoRow) =>
    /\ \A i \in Invites : invite[i].code # "late" /\ invite[i].verifies = 0
    /\ \E i \in Invites : ~invite[i].due
    /\ \A h \in Handlers : job[h].op \notin {"reset", "reissue"}

\* The scenes of the alert command: alerts of a kind with its own window and of the
\* common one; bursts of every kind; and the table counts it watches.
AlertsBound ==
  /\ {e.kind : e \in trail} \subseteq
       CASE scene = "locks" -> {"account_lock", "password_reset_failed"}
         [] scene = "bursts" -> EventKinds
         [] scene = "integrity" -> {}
  /\ scene # "integrity" => /\ rows = [count |-> 1, top |-> 1]
                            /\ \A h \in Handlers : job[h] = Idle \/ job[h].by # "operator"
  /\ scene = "integrity" => time <= 2
  /\ scene = "bursts" => time <= 1 /\ \A h \in Handlers : job[h] = Idle \/ job[h].by = "timer"

inviteRows == <<invite, account>>
caseRows == <<filed, spent>>
counterRows == <<counter, holder, ids, clock, counted, revived>>
alertRows == <<trail, marks, time, reported, rows, baseline, attempts, floor>>

OfficeNext ==
  /\ UNCHANGED scene
  /\ \/ /\ scene = "invites" /\ InvitesNext /\ InvitesBound'
        /\ UNCHANGED <<caseRows, counterRows, alertRows, keyringVars>>
     \/ /\ scene = "cases" /\ CasesNext
        /\ UNCHANGED <<inviteRows, counterRows, alertRows, keyringVars>>
     \/ /\ scene = "counters" /\ CountersNext
        /\ UNCHANGED <<inviteRows, caseRows, alertRows, keyringVars>>
     \/ /\ scene \in {"locks", "bursts", "integrity"} /\ AlertsNext /\ AlertsBound'
        /\ UNCHANGED <<inviteRows, caseRows, counterRows, keyringVars>>
     \/ /\ \/ scene = "keks" /\ KekNext
           \/ scene = "ledger" /\ LedgerNext
        /\ UNCHANGED <<inviteRows, caseRows, counterRows, alertRows, job>>

officeVars == <<inviteRows, caseRows, counterRows, alertRows, keyringVars, job, scene>>

OfficeSpec == OfficeInit /\ [][OfficeNext]_officeVars

Alike == Permutations({h1, h2}) \cup Permutations({x1, x2})
           \cup Permutations({y1, y2}) \cup Permutations({z1, z2})

-----------------------------------------------------------------------------

\* Every variable of the scene has its type, and the rows keep to the statuses and
\* bounds their tables allow: an acceptance is started and a report filed no more
\* often than its limit says. Wrong workplace codes have no such bound: overlapping
\* failures may be counted once (_record_invite_acceptance_verify_failure).
OfficeTypeOK ==
  CASE scene = "invites" -> InvitesTypeOK
    [] scene = "cases" -> CasesTypeOK
    [] scene = "counters" -> CountersTypeOK
    [] scene \in {"locks", "bursts", "integrity"} -> AlertsTypeOK
    [] scene \in {"keks", "ledger"} -> KeyringsTypeOK
=============================================================================
