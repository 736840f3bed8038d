----------------------------- MODULE MCBanking -----------------------------
(* What a signed-in customer does, for TLC: saved payees, the contact details *)
(* and PayUp, idempotency records, known devices and the password screening   *)
(* they trigger. Each behaviour plays one scene and leaves the rest as it     *)
(* started. Model values serve several modules.                               *)
EXTENDS Payees, QuickPay, Reservations, Devices, HibpBreaker, TLC

CONSTANTS h1, h2, x1, x2, y1, y2

Attempts == [sender |-> 2, recipient |-> 1]

VARIABLE scene

BankingInit ==
  /\ PayeesInit /\ QuickPayInit /\ ReservationsInit /\ DevicesInit /\ BreakerInit
  /\ scene \in {"payees", "profile", "pay", "limits", "reservations", "devices", "breaker"}

\* One contact of another customer, one kind of sensitive change, one sign-in time.
\* "profile" is about the email, "pay" about one payment and what changes under it,
\* "limits" about several payments at one time.
QuickPayBound ==
  /\ Cardinality(taken) <= 1
  /\ Cardinality({k \in EventKinds : event[k] # Never}) <= 1
  /\ visit.since = 0
  /\ scene = "pay" => Cardinality({t \in PayTokens : draft[t] # NoRow}) <= 1
  /\ scene = "limits" => tick = 0
  /\ scene = "profile" => /\ tick <= 1
                          /\ taken \subseteq Emails
                          /\ \A h \in Handlers : job[h].op \in {"challenge", "profile"}
                                                   => job[h].phone = HomePhone

QuickPayScene ==
  \/ SignInAgain \/ TickPasses
  \/ \E h \in Handlers : StoreVisit(h) \/ QuickPayFails(h)
  \/ scene = "profile" /\ (ProfileNext \/ \E x \in Emails : OtherTakes(x))
  \/ scene \in {"pay", "limits"} /\ PayupNext
  \/ /\ scene = "pay"
     /\ \/ \E k \in EventKinds \ {"profile_update"} : SensitiveChange(k)
        \/ \E r \in Recipients : RecipientChanges(r)
        \/ \E x \in Phones : OtherTakes(x)
        \/ \E h \in Handlers : \/ CommitProfileUpdate(h)
                               \/ \E p \in Phones : UpdateProfile(h, contact.email, p, None)

payeeRows == <<payee, deleted, pend, ledger, paid, web, time>>
quickRows == <<accountVars, payVars, visit, event, tick>>
reservationRows == <<record, holder, now, granted, purged, swept>>
deviceRows == <<devices, cookie, told, unforgotten, day>>
breakerRows == <<breaker, hour, failures, lastFailure, streak>>

BankingNext ==
  /\ UNCHANGED scene
  /\ \/ /\ scene = "payees" /\ PayeesNext
        /\ UNCHANGED <<quickRows, reservationRows, deviceRows, breakerRows>>
     \/ /\ scene \in {"profile", "pay", "limits"} /\ QuickPayScene /\ QuickPayBound'
        /\ UNCHANGED <<payeeRows, reservationRows, deviceRows, breakerRows>>
     \/ /\ scene = "reservations" /\ ReservationsNext
        /\ UNCHANGED <<payeeRows, quickRows, deviceRows, breakerRows>>
     \/ /\ scene = "devices" /\ DevicesNext
        /\ UNCHANGED <<payeeRows, quickRows, reservationRows, breakerRows>>
     \/ /\ scene = "breaker" /\ BreakerNext
        /\ UNCHANGED <<payeeRows, quickRows, reservationRows, deviceRows>>

bankingVars == <<payeeRows, quickRows, reservationRows, deviceRows, breakerRows, job, scene>>

BankingSpec == BankingInit /\ [][BankingNext]_bankingVars

Alike == Permutations({h1, h2}) \cup Permutations({x1, x2}) \cup Permutations({y1, y2})

-----------------------------------------------------------------------------

\* Every variable of the scene has its type; what a session keeps pending (a payee, a
\* contact change, a recipient) never outlives its lifetime by more than the clock's bound.
BankingTypeOK ==
  CASE scene = "payees" -> PayeesTypeOK
    [] scene \in {"profile", "pay", "limits"} -> QuickPayTypeOK
    [] scene = "reservations" -> ReservationsTypeOK
    [] scene = "devices" -> DevicesTypeOK
    [] scene = "breaker" -> BreakerTypeOK
=============================================================================
