----------------------------- MODULE CapsProofs -----------------------------
(***************************************************************************)
(* The daily limit and the quick caps of Transfers hold for any number of  *)
(* accounts, requests, tokens, amounts and days.                           *)
(***************************************************************************)
EXTENDS TransfersProofs, FiniteSetTheorems

----------------------------------------------------------------------------
(* Sums.  The fold that Sum is made of takes the rows in an order of its    *)
(* own.  What it computes is shown by least counterexamples in the number   *)
(* of rows, in place of an induction.                                       *)

Amount(row) == Order[row.tok].amount
One(s) == CHOOSE x \in s : TRUE

\* One step of the fold, and the function it defines on the subsets of S.
Unfolded(g, s) == IF s = {} THEN 0 ELSE Amount(One(s)) + g[s \ {One(s)}]
Folding(S) == CHOOSE g : g = [s \in SUBSET S |-> Unfolded(g, s)]

\* The sum is the fold.
LEMMA SumIsFolding == \A S : Sum(S) = Folding(S)[S]
  BY DEF Sum, MapThenSumSet, MapThenFoldSet, Folding, Unfolded, Amount, One

\* Taking the chosen row away leaves a smaller set.
LEMMA OneLess ==
    ASSUME NEW s, IsFiniteSet(s), NEW x \in s
    PROVE  /\ IsFiniteSet(s \ {x}) /\ Cardinality(s) \in Nat
           /\ Cardinality(s \ {x}) \in Nat /\ Cardinality(s \ {x}) = Cardinality(s) - 1
  BY FS_RemoveElement, FS_CardinalityType

LEMMA OneIsIn == \A s : s # {} => One(s) \in s
  BY DEF One

\* There is such a function on the subsets of a finite set.
LEMMA FoldingUnfolds ==
    ASSUME NEW S, IsFiniteSet(S)
    PROVE  Folding(S) = [s \in SUBSET S |-> Unfolded(Folding(S), s)]
<1>1. DEFINE D(n) == {s \in SUBSET S : Cardinality(s) <= n}
             Bad == {n \in Nat : ~\E g : g = [s \in D(n) |-> Unfolded(g, s)]}
<1>2. \A s \in SUBSET S : IsFiniteSet(s) /\ Cardinality(s) \in Nat
  BY FS_Subset, FS_CardinalityType
<1>3. SUFFICES Bad = {}
  <2>1. Cardinality(S) \in Nat /\ D(Cardinality(S)) = SUBSET S
    BY FS_Subset, FS_CardinalityType
  <2>2. \E g : g = [s \in D(Cardinality(S)) |-> Unfolded(g, s)]
    BY Zenon, <1>3, <2>1
  <2>3. \E g : g = [s \in SUBSET S |-> Unfolded(g, s)]
    <3> HIDE DEF D
    <3>1. QED BY <2>1, <2>2
  <2>4. QED BY <2>3 DEF Folding
<1>4. SUFFICES ASSUME Bad # {} PROVE FALSE
  BY Zenon
<1>5. PICK m \in Bad : \A n \in Bad : m <= n
  <2>1. Bad \subseteq Nat
    OBVIOUS
  <2>2. QED BY Zenon, <1>4, <2>1, LeastNatural
<1>6. CASE m = 0
  <2>1. \A s \in D(0) : s = {}
    BY <1>2, FS_EmptySet
  <2>2. DEFINE g == [s \in D(0) |-> 0]
  <2>3. g = [s \in D(0) |-> Unfolded(g, s)]
    BY <2>1 DEF Unfolded
  <2>4. QED BY Zenon, <1>6, <2>3
<1>7. CASE m # 0
  <2>1. m - 1 \in Nat /\ m - 1 \notin Bad /\ m \in Nat
    <3>1. m \in Nat
      BY <1>5
    <3>2. m - 1 \in Nat /\ ~(m <= m - 1)
      BY <1>7, <3>1
    <3>3. QED BY Zenon, <1>5, <3>1, <3>2
  <2>2. PICK g : g = [s \in D(m - 1) |-> Unfolded(g, s)]
    BY Zenon, <2>1
  <2>3. DEFINE k == [s \in D(m) |-> Unfolded(g, s)]
  <2>4. ASSUME NEW s \in D(m) PROVE Unfolded(k, s) = Unfolded(g, s)
    <3>1. CASE s = {}
      BY <3>1 DEF Unfolded
    <3>2. CASE s # {}
      <4>1. One(s) \in s /\ s \in SUBSET S
        BY <3>2, OneIsIn
      <4>2. DEFINE t == s \ {One(s)}
      <4>3. t \in SUBSET S /\ Cardinality(t) = Cardinality(s) - 1 /\ Cardinality(s) \in Nat
        BY <4>1, <1>2, OneLess
      <4>4. t \in D(m - 1) /\ t \in D(m)
        BY <4>3, <2>1
      <4>5. k[t] = g[t]
        BY <2>2, <4>4
      <4>6. QED BY <4>5 DEF Unfolded
    <3>3. QED BY <3>1, <3>2
  <2>5. k = [s \in D(m) |-> Unfolded(k, s)]
    BY <2>4
  <2>6. QED BY Zenon, <2>5
<1>8. QED BY <1>6, <1>7

\* The function does not depend on the set it was defined for.
LEMMA FoldingAgrees ==
    ASSUME NEW S, IsFiniteSet(S), NEW s \in SUBSET S
    PROVE  Folding(S)[s] = Folding(s)[s]
<1>1. DEFINE Bad == {n \in Nat : \E t \in SUBSET s :
                                    Cardinality(t) = n /\ Folding(S)[t] # Folding(s)[t]}
<1>2. IsFiniteSet(s) /\ \A t \in SUBSET s : IsFiniteSet(t) /\ Cardinality(t) \in Nat
  BY FS_Subset, FS_CardinalityType
<1>3. SUFFICES Bad = {}
  BY <1>2
<1>4. SUFFICES ASSUME Bad # {} PROVE FALSE
  OBVIOUS
<1>5. PICK m \in Bad : \A n \in Bad : m <= n
  <2>1. Bad \subseteq Nat
    OBVIOUS
  <2>2. QED BY Zenon, <1>4, <2>1, LeastNatural
<1>6. PICK t \in SUBSET s : Cardinality(t) = m /\ Folding(S)[t] # Folding(s)[t]
  BY <1>5
<1>7. Folding(S)[t] = Unfolded(Folding(S), t) /\ Folding(s)[t] = Unfolded(Folding(s), t)
  <2>1. t \in SUBSET S
    OBVIOUS
  <2>2. QED BY Zenon, <1>2, <2>1, FoldingUnfolds
<1>8. t # {}
  BY <1>6, <1>7 DEF Unfolded
<1>9. DEFINE u == t \ {One(t)}
<1>10. Cardinality(u) = m - 1 /\ Cardinality(u) \in Nat /\ m \in Nat /\ u \in SUBSET s
  BY <1>2, <1>6, <1>8, OneIsIn, OneLess
<1>11. Cardinality(u) \notin Bad
  <2> HIDE DEF u
  <2>1. ~(m <= Cardinality(u))
    BY <1>10
  <2>2. QED BY <1>5, <2>1
<1>12. Folding(S)[u] = Folding(s)[u]
  BY Zenon, <1>10, <1>11
<1>13. QED BY <1>6, <1>7, <1>12 DEF Unfolded

\* One step of the sum.
LEMMA SumUnfolds ==
    ASSUME NEW s, IsFiniteSet(s)
    PROVE  Sum(s) = IF s = {} THEN 0 ELSE Amount(One(s)) + Sum(s \ {One(s)})
<1>1. Sum(s) = Unfolded(Folding(s), s)
  <2>1. s \in SUBSET s
    OBVIOUS
  <2>2. Folding(s)[s] = Unfolded(Folding(s), s)
    BY Zenon, <2>1, FoldingUnfolds
  <2>3. QED BY <2>2, SumIsFolding
<1>2. Folding(s)[s \ {One(s)}] = Sum(s \ {One(s)})
  BY FoldingAgrees, SumIsFolding
<1>3. QED BY <1>1, <1>2 DEF Unfolded

\* The sum of finitely many transactions is a natural number, and each of them
\* adds its amount to the others'.
LEMMA SumFacts ==
    ASSUME NEW s, IsFiniteSet(s), \A x \in s : Amount(x) \in Nat
    PROVE  Sum(s) \in Nat /\ \A x \in s : Sum(s) = Amount(x) + Sum(s \ {x})
<1>1. DEFINE P(t) == Sum(t) \in Nat /\ \A x \in t : Sum(t) = Amount(x) + Sum(t \ {x})
             Bad == {n \in Nat : \E t \in SUBSET s : Cardinality(t) = n /\ ~P(t)}
<1>2. \A t \in SUBSET s : IsFiniteSet(t) /\ Cardinality(t) \in Nat
  BY FS_Subset, FS_CardinalityType
<1>3. SUFFICES Bad = {}
  <2>1. Cardinality(s) \notin Bad /\ s \in SUBSET s
    BY <1>3
  <2>2. P(s)
    BY <1>2, <2>1
  <2>3. QED BY <2>2
<1>4. SUFFICES ASSUME Bad # {} PROVE FALSE
  OBVIOUS
<1>5. PICK m \in Bad : \A n \in Bad : m <= n
  <2>1. Bad \subseteq Nat
    OBVIOUS
  <2>2. QED BY Zenon, <1>4, <2>1, LeastNatural
<1>6. PICK t \in SUBSET s : Cardinality(t) = m /\ ~P(t)
  BY <1>5
<1>7. ASSUME NEW x \in t PROVE P(t \ {x})
  <2>1. /\ Cardinality(t \ {x}) = m - 1 /\ Cardinality(t \ {x}) \in Nat /\ m \in Nat
        /\ t \ {x} \in SUBSET s
    BY <1>2, <1>6, OneLess
  <2>2. Cardinality(t \ {x}) \notin Bad
    BY <1>5, <2>1
  <2>3. QED BY Zenon, <2>1, <2>2
<1>8. t # {}
  <2>1. SUFFICES ASSUME t = {} PROVE P(t)
    BY <1>6
  <2>2. Sum(t) = 0
    BY <1>2, <2>1, SumUnfolds
  <2>3. QED BY <2>1, <2>2
<1>9. DEFINE y == One(t)
<1>10. y \in t /\ Sum(t) = Amount(y) + Sum(t \ {y})
  BY <1>2, <1>8, OneIsIn, SumUnfolds
<1> HIDE DEF y
<1>11. \A x \in t : Amount(x) \in Nat /\ Sum(t \ {x}) \in Nat
  BY <1>7
<1>12. Sum(t) \in Nat
  BY <1>10, <1>11
<1>13. ASSUME NEW x \in t PROVE Sum(t) = Amount(x) + Sum(t \ {x})
  <2>1. CASE x = y
    BY <1>10, <2>1
  <2>2. CASE x # y
    <3>1. Sum(t \ {y}) = Amount(x) + Sum((t \ {y}) \ {x})
      BY <1>7, <1>10, <2>2
    <3>2. Sum(t \ {x}) = Amount(y) + Sum((t \ {x}) \ {y})
      BY <1>7, <1>10, <2>2
    <3>3. (t \ {y}) \ {x} = (t \ {x}) \ {y}
      OBVIOUS
    <3>4. Sum((t \ {x}) \ {y}) \in Nat
      <4>1. /\ Cardinality(t \ {x}) = m - 1 /\ Cardinality(t \ {x}) \in Nat /\ m \in Nat
            /\ IsFiniteSet(t \ {x}) /\ y \in t \ {x}
        BY <1>2, <1>6, <1>10, <2>2, OneLess
      <4>2. /\ Cardinality((t \ {x}) \ {y}) = m - 2 /\ Cardinality((t \ {x}) \ {y}) \in Nat
            /\ (t \ {x}) \ {y} \in SUBSET s
        BY <4>1, OneLess
      <4>3. Cardinality((t \ {x}) \ {y}) \notin Bad
        <5>1. ~(m <= Cardinality((t \ {x}) \ {y}))
          BY <4>1, <4>2
        <5>2. QED BY <1>5, <5>1
      <4>4. P((t \ {x}) \ {y})
        BY <4>2, <4>3
      <4>5. QED BY <4>4
    <3>5. QED BY <1>10, <1>11, <3>1, <3>2, <3>3, <3>4
  <2>3. QED BY <2>1, <2>2
<1>14. QED BY <1>6, <1>12, <1>13

\* A new transaction adds its amount.
LEMMA SumAdds ==
    ASSUME NEW s, IsFiniteSet(s), \A x \in s : Amount(x) \in Nat,
           NEW row, row \notin s, Amount(row) \in Nat
    PROVE  Sum(s \cup {row}) = Sum(s) + Amount(row)
<1>1. DEFINE t == s \cup {row}
<1>2. IsFiniteSet(t) /\ (\A x \in t : Amount(x) \in Nat) /\ row \in t /\ t \ {row} = s
  BY FS_AddElement
<1>3. Sum(t) = Amount(row) + Sum(t \ {row})
  BY <1>2, SumFacts
<1>4. Sum(s) \in Nat
  BY SumFacts
<1>5. Sum(t) = Amount(row) + Sum(s)
  BY <1>2, <1>3, Zenon
<1>6. QED BY <1>4, <1>5

\* No transactions, no amount.
LEMMA SumNothing == Sum({}) = 0
  BY FS_EmptySet, SumUnfolds

----------------------------------------------------------------------------
(* The caps.  A transaction is checked under the sender's row lock, booked  *)
(* in a later transaction under the same lock, and dated with the day of    *)
(* the check: until then nobody else books for that sender.                 *)

\* Some of the transactions do not add up to more than all of them.
LEMMA SumOfPart ==
    ASSUME NEW t, IsFiniteSet(t), \A x \in t : Amount(x) \in Nat, NEW s \in SUBSET t
    PROVE  Sum(s) <= Sum(t)
<1>1. DEFINE Bad == {n \in Nat : \E u \in SUBSET t : Cardinality(u) = n /\ s \subseteq u
                                                    /\ ~(Sum(s) <= Sum(u))}
<1>2. \A u \in SUBSET t : /\ IsFiniteSet(u) /\ Cardinality(u) \in Nat
                          /\ Sum(u) \in Nat
                          /\ \A x \in u : Amount(x) \in Nat /\ Sum(u) = Amount(x) + Sum(u \ {x})
  BY FS_Subset, FS_CardinalityType, SumFacts
<1>3. SUFFICES Bad = {}
  <2>1. t \in SUBSET t /\ Cardinality(t) \notin Bad
    BY <1>3
  <2>2. QED BY <1>2, <2>1
<1>4. SUFFICES ASSUME Bad # {} PROVE FALSE
  OBVIOUS
<1>5. PICK m \in Bad : \A n \in Bad : m <= n
  <2>1. Bad \subseteq Nat
    OBVIOUS
  <2>2. QED BY Zenon, <1>4, <2>1, LeastNatural
<1>6. PICK u \in SUBSET t : Cardinality(u) = m /\ s \subseteq u /\ ~(Sum(s) <= Sum(u))
  BY <1>5
<1>7. PICK x \in u : x \notin s
  <2>1. s # u
    BY <1>2, <1>6
  <2>2. QED BY <1>6, <2>1
<1>8. DEFINE v == u \ {x}
<1>9. /\ Cardinality(v) = m - 1 /\ Cardinality(v) \in Nat /\ m \in Nat
      /\ v \in SUBSET t /\ s \subseteq v
  BY <1>2, <1>6, <1>7, OneLess
<1>10. Sum(u) = Amount(x) + Sum(v) /\ Sum(u) \in Nat /\ Sum(v) \in Nat /\ Amount(x) \in Nat
  BY <1>2, <1>9
<1> HIDE DEF v
<1>11. Cardinality(v) \notin Bad
  <2>1. ~(m <= Cardinality(v))
    BY <1>9
  <2>2. QED BY <1>5, <2>1
<1>12. Sum(s) <= Sum(v) /\ Sum(s) \in Nat
  BY <1>2, <1>9, <1>11
<1>13. QED BY <1>6, <1>10, <1>12

----------------------------------------------------------------------------
(* Daily limits and quick caps.  The check and the transaction are steps    *)
(* apart, and so may be their days; in between, the sender's row is locked: *)
(* nobody else books a transaction of this sender.  A new day has none yet. *)

Booked(rows, d, a, c) ==
    {row \in rows : Order[row.tok].from = a /\ Order[row.tok].chan = c /\ row.day = d}

\* What the checks established, for the day the transaction is going to be booked on.
Allowed(r, d) ==
    /\ OrderOf(r).chan \in Channels
    /\ UsedOn(d, OrderOf(r).from, OrderOf(r).chan) + OrderOf(r).amount
          <= seen[r][OrderOf(r).from].limit[OrderOf(r).chan]
    /\ OrderOf(r).chan = "payup" =>
          \/ work[r].authorized
          \/ ~RequiresStepUp(OrderOf(r).amount, UsedOn(d, OrderOf(r).from, OrderOf(r).chan))

Checked(r) ==
    /\ pc[r] = "second" => rowLock[Lower(OrderOf(r))] = r
    /\ pc[r] \in {"check", "sign", "commit"} => rowLock[OrderOf(r).from] = r
    /\ pc[r] = "sign" => Allowed(r, day)
    /\ pc[r] = "commit" => work[r].created <= day /\ Allowed(r, work[r].created)

LedgerDated ==
    /\ IsFiniteSet(ledger)
    /\ \A row \in ledger : row.day <= day
    /\ \E n \in Nat : \A row \in ledger : row.limit <= n

CapsInv == TypeOK /\ TopUpStages /\ LedgerDated /\ CapsHeld /\ \A r \in Requests : Checked(r)

\* What a query over the ledger adds up is a natural number.
LEMMA BookedFacts ==
    ASSUME NEW rows, rows \subseteq LedgerRows, IsFiniteSet(rows)
    PROVE  /\ \A x \in rows : Amount(x) \in Nat
           /\ \A d, a, c : /\ IsFiniteSet(Booked(rows, d, a, c))
                           /\ Sum(Booked(rows, d, a, c)) \in Nat
<1>1. \A x \in rows : Amount(x) \in Nat
  BY OrderFacts DEF LedgerRows, Amount
<1>2. ASSUME NEW d, NEW a, NEW c
      PROVE  IsFiniteSet(Booked(rows, d, a, c)) /\ Sum(Booked(rows, d, a, c)) \in Nat
  <2>1. Booked(rows, d, a, c) \in SUBSET rows
    BY DEF Booked
  <2>2. IsFiniteSet(Booked(rows, d, a, c))
    BY <2>1, FS_Subset
  <2>3. \A x \in Booked(rows, d, a, c) : Amount(x) \in Nat
    BY <1>1, <2>1
  <2>4. QED BY <2>2, <2>3, SumFacts
<1>3. QED BY <1>1, <1>2

\* The sums the checks and the properties speak of.
LEMMA SumsAre ==
    /\ \A d, a, c : UsedOn(d, a, c) = Sum(Booked(ledger, d, a, c))
    /\ \A d, a, c : UsedOn(d, a, c)' = Sum(Booked(ledger', d, a, c))
  BY DEF UsedOn, Booked

\* What is allowed stays so while the request keeps its copy and nobody books a
\* transaction of its sender.
LEMMA AllowedKept ==
    ASSUME NEW q \in Requests, NEW d, Allowed(q, d), work'[q].tok = work[q].tok,
           work'[q].authorized = work[q].authorized, seen'[q] = seen[q],
           Booked(ledger', d, OrderOf(q).from, OrderOf(q).chan)
               = Booked(ledger, d, OrderOf(q).from, OrderOf(q).chan)
    PROVE  Allowed(q, d)'
<1>1. OrderOf(q)' = OrderOf(q)
  BY DEF OrderOf
<1>2. UsedOn(d, OrderOf(q).from, OrderOf(q).chan)' = UsedOn(d, OrderOf(q).from, OrderOf(q).chan)
  BY <1>1, SumsAre
<1>3. QED BY <1>1, <1>2 DEF Allowed, RequiresStepUp

\* A request that stays where it is keeps what it has checked.
LEMMA CheckedKept ==
    ASSUME TypeOK, NEW q \in Requests, Checked(q), day' = day,
           pc'[q] = pc[q], work'[q] = work[q], seen'[q] = seen[q],
           \A a \in Accounts : rowLock[a] = q => rowLock'[a] = q,
           pc[q] \in {"sign", "commit"} =>
               \A d : Booked(ledger', d, OrderOf(q).from, OrderOf(q).chan)
                          = Booked(ledger, d, OrderOf(q).from, OrderOf(q).chan)
    PROVE  Checked(q)'
<1>1. OrderOf(q)' = OrderOf(q)
  BY DEF OrderOf
<1>2. Lower(OrderOf(q))' = Lower(OrderOf(q)) /\ OrderOf(q)'.from = OrderOf(q).from
  BY <1>1 DEF Lower
<1>3. /\ pc'[q] = "second" => rowLock'[Lower(OrderOf(q))'] = q
      /\ pc'[q] \in {"check", "sign", "commit"} => rowLock'[OrderOf(q)'.from] = q
  BY <1>2, Participants DEF Checked
<1>4. pc'[q] = "sign" => Allowed(q, day)'
  <2>1. SUFFICES ASSUME pc[q] = "sign" PROVE Allowed(q, day)'
    OBVIOUS
  <2>2. PICK d : d = day
    OBVIOUS
  <2>3. Allowed(q, d)
    BY <2>1, <2>2 DEF Checked
  <2>4. Allowed(q, d)'
    BY <2>1, <2>3, AllowedKept
  <2>5. d = day'
    BY <2>2
  <2>6. QED BY <2>4, <2>5 DEF Allowed, UsedOn
<1>5. pc'[q] = "commit" => work'[q].created <= day' /\ Allowed(q, work[q].created)'
  <2>1. SUFFICES ASSUME pc[q] = "commit"
                 PROVE  work[q].created <= day /\ Allowed(q, work[q].created)'
    OBVIOUS
  <2>2. PICK d : d = work[q].created
    OBVIOUS
  <2>3. Allowed(q, d) /\ work[q].created <= day
    BY <2>1, <2>2 DEF Checked
  <2>4. Allowed(q, d)'
    BY <2>1, <2>3, AllowedKept
  <2>5. d = work'[q].created
    BY <2>2
  <2>6. QED BY <2>3, <2>4, <2>5 DEF Allowed, UsedOn
<1>6. QED BY <1>3, <1>4, <1>5 DEF Checked

\* Nothing is booked: the ledger's own properties stay.
LEMMA LedgerKept ==
    ASSUME CapsInv, UNCHANGED ledger, day <= day', day' \in 0 .. MaxDay
    PROVE  LedgerDated' /\ CapsHeld'
<1>1. LedgerDated'
  <2>1. \A row \in ledger : row.day \in Nat /\ row.day <= day /\ day \in Nat /\ day' \in Nat
    BY CapTypes DEF CapsInv, LedgerDated, TypeOK, LedgerRows
  <2>2. QED BY <2>1 DEF CapsInv, LedgerDated
<1>2. CapsHeld'
  BY DEF CapsInv, CapsHeld, DailyLimitHeld, StepUpHonoured
<1>3. QED BY <1>1, <1>2

\* The steps of a request that goes on.
LEMMA CapsGoOn ==
    ASSUME CapsInv, NEW r \in Requests,
           \/ LoadLocalRecipient(r) \/ LoadPayupSender(r) \/ LockPending(r)
           \/ LoadPayupRecipient(r) \/ LockFirst(r) \/ LockSecond(r)
           \/ CheckLocal(r) \/ CheckPayup(r) \/ Sign(r)
           \/ RejectTakeAuditLock(r) \/ TopUpTakeAuditLock(r)
    PROVE  LedgerDated' /\ CapsHeld' /\ \A q \in Requests : Checked(q)'
<1>1. /\ TypeOK /\ Checked(r) /\ work[r].tok \in Tokens /\ day \in Nat
      /\ work \in [Requests -> Works] /\ pc \in [Requests -> Stages]
      /\ rowLock \in [Accounts -> Requests \cup {Free}] /\ Free \notin Requests
      /\ seen \in [Requests -> [Accounts -> UserRows]]
  BY FreeIsNobody, CapTypes DEF CapsInv, TypeOK, Works
<1>2. UNCHANGED <<ledger, day>>
  BY DEF LoadLocalRecipient, LoadPayupSender, LockPending, LoadPayupRecipient, LockFirst,
     LockSecond, LockParticipant, CheckLocal, CheckPayup, Sign, RejectTakeAuditLock,
     TopUpTakeAuditLock
<1>3. LedgerDated' /\ CapsHeld'
  BY <1>1, <1>2, LedgerKept DEF TypeOK
<1>4. ASSUME NEW q \in Requests \ {r} PROVE Checked(q)'
  <2>1. pc'[q] = pc[q] /\ work'[q] = work[q]
    BY <1>1 DEF LoadLocalRecipient, LoadPayupSender, LockPending, LoadPayupRecipient, LockFirst,
       LockSecond, LockParticipant, CheckLocal, CheckPayup, Sign, RejectTakeAuditLock,
       TopUpTakeAuditLock, GoTo
  <2>2. seen'[q] = seen[q]
    BY <1>1 DEF LoadLocalRecipient, LoadPayupSender, LockPending, LoadPayupRecipient, LockFirst,
       LockSecond, LockParticipant, CheckLocal, CheckPayup, Sign, RejectTakeAuditLock,
       TopUpTakeAuditLock, Load
  <2>3. \A a \in Accounts : rowLock[a] = q => rowLock'[a] = q
    BY <1>1 DEF LoadLocalRecipient, LoadPayupSender, LockPending, LoadPayupRecipient, LockFirst,
       LockSecond, LockParticipant, CheckLocal, CheckPayup, Sign, RejectTakeAuditLock,
       TopUpTakeAuditLock, locks
  <2>4. QED BY <1>1, <1>2, <2>1, <2>2, <2>3, CheckedKept DEF CapsInv
<1>5. Checked(r)'
  <2>1. CASE LockFirst(r)
    <3>1. /\ pc'[r] = "second" /\ work' = work
          /\ rowLock' = [rowLock EXCEPT ![Lower(OrderOf(r))] = r]
      BY ZenonT(30), <1>1, <2>1 DEF LockFirst, LockParticipant, GoTo
    <3>2. Lower(OrderOf(r))' = Lower(OrderOf(r)) /\ Lower(OrderOf(r)) \in Accounts
      BY <1>1, <3>1, Participants DEF OrderOf, Lower
    <3>3. QED BY <1>1, <3>1, <3>2 DEF Checked
  <2>2. CASE LockSecond(r)
    <3>1. /\ pc[r] = "second" /\ pc'[r] = "check" /\ work' = work
          /\ rowLock' = [rowLock EXCEPT ![Upper(OrderOf(r))] = r]
      BY <1>1, <2>2 DEF LockSecond, LockParticipant, GoTo
    <3>2. rowLock'[OrderOf(r).from] = r /\ OrderOf(r)' = OrderOf(r)
      BY <1>1, <3>1, Participants DEF Checked, OrderOf
    <3>3. QED BY <3>1, <3>2 DEF Checked
  <2>3. CASE CheckLocal(r) \/ CheckPayup(r)
    <3>1. /\ pc[r] = "check" /\ pc'[r] \in {"sign", "reject"}
          /\ UNCHANGED <<work, seen, rowLock>>
      BY <1>1, <2>3 DEF CheckLocal, CheckPayup, GoTo, locks
    <3>2. pc'[r] = "sign" => /\ OrderOf(r).chan \in Channels /\ WithinLimit(r)
                             /\ OrderOf(r).chan = "payup" => StepUpDone(r)
      BY <1>1, <2>3 DEF CheckLocal, CheckPayup, GoTo, Channels
    <3>3. pc'[r] = "sign" => Allowed(r, day)
      BY <3>2 DEF Allowed, WithinLimit, StepUpDone
    <3>4. pc'[r] = "sign" => Allowed(r, day)'
      BY Zenon, <1>2, <3>1, <3>3 DEF Allowed, OrderOf, UsedOn, RequiresStepUp
    <3>5. rowLock'[OrderOf(r)'.from] = r
      BY <1>1, <3>1 DEF Checked, OrderOf
    <3>6. QED BY <3>1, <3>4, <3>5 DEF Checked
  <2>4. CASE Sign(r)
    <3>1. /\ pc[r] = "sign" /\ pc'[r] = "commit" /\ UNCHANGED <<seen, rowLock>>
          /\ work'[r] = [work[r] EXCEPT !.created = day]
      BY <1>1, <2>4 DEF Sign, GoTo, locks
    <3>2. /\ work'[r].tok = work[r].tok /\ work'[r].created = day
          /\ work'[r].authorized = work[r].authorized
      BY <1>1, <3>1 DEF Works
    <3>3. PICK d : d = day
      OBVIOUS
    <3>4. Allowed(r, d)
      BY <1>1, <3>1, <3>3 DEF Checked
    <3>5. Allowed(r, d)'
      BY Zenon, <1>2, <3>1, <3>2, <3>4, AllowedKept
    <3>6. d = work'[r].created
      BY ZenonT(30), <3>2, <3>3
    <3>7. Allowed(r, work[r].created)'
      BY <3>5, <3>6 DEF Allowed, UsedOn
    <3>8. rowLock'[OrderOf(r)'.from] = r
      BY <1>1, <3>1, <3>2 DEF Checked, OrderOf
    <3>9. QED BY <1>1, <1>2, <3>1, <3>2, <3>7, <3>8 DEF Checked
  <2>5. CASE \/ LoadLocalRecipient(r) \/ LoadPayupSender(r) \/ LockPending(r)
             \/ LoadPayupRecipient(r) \/ RejectTakeAuditLock(r) \/ TopUpTakeAuditLock(r)
    <3>1. pc'[r] \notin {"second", "check", "sign", "commit"}
      BY <1>1, <2>5 DEF LoadLocalRecipient, LoadPayupSender, LockPending, LoadPayupRecipient,
         RejectTakeAuditLock, TopUpTakeAuditLock, GoTo
    <3>2. QED BY <3>1 DEF Checked
  <2>6. QED BY <2>1, <2>2, <2>3, <2>4, <2>5
<1>6. QED BY <1>3, <1>4, <1>5

\* The largest of the limits is no less than any of them.
LEMMA LargestLimit ==
    ASSUME NEW rows, NEW n \in Nat, \A row \in rows : row.limit \in Nat /\ row.limit <= n,
           NEW one \in rows
    PROVE  one.limit <= Max({row.limit : row \in rows})
<1>1. DEFINE S == {row.limit : row \in rows}
<1>2. S \subseteq Nat /\ S # {} /\ one.limit \in S /\ \A x \in S : x <= n
  OBVIOUS
<1> HIDE DEF S
<1>3. PICK x \in S : \A y \in S : y <= x
  BY ZenonT(30), <1>2, GreatestNatural
<1>4. \E z \in S : \A y \in S : z >= y
  BY <1>2, <1>3
<1>5. Max(S) \in S /\ \A y \in S : Max(S) >= y
  BY <1>4 DEF Max
<1>6. one.limit <= Max(S)
  BY <1>2, <1>5
<1>7. QED BY <1>6 DEF S

\* The quick payments of a sender on a day.
Quick(rows, d, a) ==
    {row \in rows : /\ Order[row.tok].from = a
                    /\ Order[row.tok].chan = "payup"
                    /\ row.day = d /\ ~row.authorized}

\* The two caps, by the sets they speak of.
CapsOf(rows) ==
    /\ \A d \in 0 .. MaxDay, a \in Accounts, c \in Channels :
          Booked(rows, d, a, c) # {} =>
             Sum(Booked(rows, d, a, c)) <= Max({row.limit : row \in Booked(rows, d, a, c)})
    /\ \A d \in 0 .. MaxDay, a \in Accounts :
          /\ Sum(Quick(rows, d, a)) <= QuickDailyCap
          /\ \A row \in Quick(rows, d, a) : Order[row.tok].amount <= QuickCap

LEMMA CapsAre == CapsHeld <=> CapsOf(ledger)
<1>1. DailyLimitHeld <=>
        \A d \in 0 .. MaxDay, a \in Accounts, c \in Channels :
            Booked(ledger, d, a, c) # {} =>
               Sum(Booked(ledger, d, a, c)) <= Max({row.limit : row \in Booked(ledger, d, a, c)})
  BY DEF DailyLimitHeld, Booked
<1>2. StepUpHonoured <=>
        \A d \in 0 .. MaxDay, a \in Accounts :
            /\ Sum(Quick(ledger, d, a)) <= QuickDailyCap
            /\ \A row \in Quick(ledger, d, a) : Order[row.tok].amount <= QuickCap
  BY DEF StepUpHonoured, Quick
<1>3. QED BY <1>1, <1>2, Zenon DEF CapsHeld, CapsOf

\* The transaction that was checked keeps the caps when it is booked.
LEMMA CapsBook ==
    ASSUME CapsInv, NEW r \in Requests, pc[r] = "commit", UNCHANGED day,
           ledger' = ledger \cup {LedgerRow(r, work[r].created)}, ledger' \subseteq LedgerRows
    PROVE  LedgerDated' /\ CapsHeld'
<1>1. DEFINE new == LedgerRow(r, work[r].created)
             o == OrderOf(r)
<1>2. /\ TypeOK /\ work[r].created <= day /\ Allowed(r, work[r].created)
      /\ work[r].tok \in Tokens /\ work[r].created \in 0 .. MaxDay /\ day \in 0 .. MaxDay
      /\ work[r].authorized \in BOOLEAN
      /\ ledger \subseteq LedgerRows /\ IsFiniteSet(ledger)
  BY DEF CapsInv, Checked, TypeOK, Works, LedgerDated
<1>3. /\ o.from \in Accounts /\ o.amount \in Nat /\ o.chan \in Channels
      /\ Order[new.tok] = o /\ Amount(new) = o.amount
      /\ new.day = work[r].created /\ new.authorized = work[r].authorized
      /\ new.limit = seen[r][o.from].limit[o.chan] /\ new.limit \in Nat
  <2>1. o.from \in Accounts /\ o.amount \in Nat /\ o.chan \in Channels
    BY Zenon, <1>2, OrderFacts DEF OrderOf, Allowed
  <2>2. o.chan # "topup"
    BY <2>1 DEF Channels
  <2>3. /\ Order[new.tok] = o /\ new.limit = seen[r][o.from].limit[o.chan]
        /\ new.day = work[r].created /\ new.authorized = work[r].authorized
    BY Zenon, <2>2 DEF LedgerRow, OrderOf
  <2>4. new \in LedgerRows
    OBVIOUS
  <2>5. QED BY <2>1, <2>3, <2>4 DEF Amount, LedgerRows
<1>4. LedgerDated'
  <2>1. IsFiniteSet(ledger')
    BY <1>2, FS_AddElement
  <2>2. \A row \in ledger' : row.day <= day'
    BY <1>2, <1>3 DEF CapsInv, LedgerDated
  <2>3. PICK n \in Nat : \A row \in ledger : row.limit <= n
    BY DEF CapsInv, LedgerDated
  <2>4. \E m \in Nat : n <= m /\ new.limit <= m
    <3> HIDE DEF new
    <3>1. CASE n <= new.limit BY <1>3, <3>1
    <3>2. CASE new.limit <= n BY <1>3, <3>2
    <3>3. QED BY <1>3, <3>1, <3>2
  <2>5. PICK m \in Nat : n <= m /\ new.limit <= m
    BY <2>4
  <2>6. \A row \in ledger' : row.limit <= m
    <3>1. \A row \in ledger : row.limit \in Nat
      BY <1>2 DEF LedgerRows
    <3>2. QED BY <2>3, <2>5, <3>1
  <2>7. QED BY <2>1, <2>2, <2>6 DEF LedgerDated
<1>5. CASE new \in ledger
  <2>1. ledger' = ledger
    BY <1>5
  <2>2. QED BY <1>2, <2>1, LedgerKept
<1>6. CASE new \notin ledger
  <2> DEFINE key == <<work[r].created, o.from, o.chan>>
  <2>1. /\ \A d, a, c : <<d, a, c>> # key => Booked(ledger', d, a, c) = Booked(ledger, d, a, c)
        /\ Booked(ledger', work[r].created, o.from, o.chan)
              = Booked(ledger, work[r].created, o.from, o.chan) \cup {new}
    BY <1>3 DEF Booked
  <2>2. DEFINE used == Sum(Booked(ledger, work[r].created, o.from, o.chan))
  <2>3. used \in Nat /\ \A x \in ledger : Amount(x) \in Nat
    BY ZenonT(30), <1>2, BookedFacts
  <2>4. used + o.amount <= new.limit
    BY <1>2, <1>3, SumsAre DEF Allowed
  <2>5. o.chan = "payup" /\ ~new.authorized => o.amount <= QuickCap /\ used + o.amount <= QuickDailyCap
    <3>1. o.chan = "payup" /\ ~new.authorized => ~RequiresStepUp(o.amount, used)
      BY <1>2, <1>3, SumsAre DEF Allowed
    <3>2. QED BY <1>3, <2>3, <3>1, CapTypes DEF RequiresStepUp
  <2>6. ASSUME NEW d \in 0 .. MaxDay, NEW a \in Accounts, NEW c \in Channels,
               Booked(ledger', d, a, c) # {}
        PROVE  Sum(Booked(ledger', d, a, c)) <= Max({row.limit : row \in Booked(ledger', d, a, c)})
    <3>1. CASE <<d, a, c>> # key
      <4>1. Booked(ledger', d, a, c) = Booked(ledger, d, a, c)
        BY <2>1, <3>1
      <4>2. CapsOf(ledger)
        BY CapsAre DEF CapsInv
      <4>3. QED BY Zenon, <2>6, <4>1, <4>2 DEF CapsOf
    <3>2. CASE <<d, a, c>> = key
      <4>1. d = work[r].created /\ a = o.from /\ c = o.chan
        BY <3>2
      <4>2. DEFINE B == Booked(ledger, d, a, c)
      <4>3. Sum(B \cup {new}) = Sum(B) + Amount(new)
        <5>1. IsFiniteSet(B)
          BY <1>2, BookedFacts
        <5>2. B \subseteq ledger
          BY DEF Booked
        <5>3. Amount(new) \in Nat /\ new \notin B /\ \A x \in B : Amount(x) \in Nat
          BY <1>3, <1>6, <2>3, <5>2
        <5> HIDE DEF B, new
        <5>4. QED BY <5>1, <5>3, SumAdds
      <4>4. Booked(ledger', d, a, c) = B \cup {new}
        BY <2>1, <4>1
      <4>5. PICK n \in Nat : \A row \in ledger' : row.limit <= n
        BY <1>4 DEF LedgerDated
      <4>6. \A row \in Booked(ledger', d, a, c) : row.limit \in Nat /\ row.limit <= n
        BY <4>5 DEF LedgerRows, Booked
      <4>7. new.limit <= Max({row.limit : row \in Booked(ledger', d, a, c)})
        <5>1. new \in Booked(ledger', d, a, c)
          BY <4>4
        <5> HIDE DEF new
        <5>2. QED BY Zenon, <4>6, <5>1, LargestLimit
      <4>8. Sum(Booked(ledger', d, a, c)) = used + o.amount
        BY Zenon, <1>3, <4>1, <4>3, <4>4
      <4>9. Max({row.limit : row \in Booked(ledger', d, a, c)}) \in Nat
        <5>1. DEFINE S == {row.limit : row \in Booked(ledger', d, a, c)}
        <5>2. S \subseteq Nat /\ S # {} /\ \A x \in S : x <= n
          BY Zenon, <2>6, <4>6
        <5> HIDE DEF S
        <5>3. PICK x \in S : \A y \in S : y <= x
          BY Zenon, <5>2, GreatestNatural
        <5>4. \E z \in S : \A y \in S : z >= y
          BY <5>2, <5>3
        <5>5. Max(S) \in S
          BY <5>4 DEF Max
        <5>6. QED BY Zenon, <5>2, <5>5 DEF S
      <4>10. QED
        <5> HIDE DEF new, used, o
        <5>1. QED BY <1>3, <2>3, <2>4, <4>7, <4>8, <4>9
    <3>3. QED BY <3>1, <3>2
  <2>7. ASSUME NEW d \in 0 .. MaxDay, NEW a \in Accounts
        PROVE  /\ Sum(Quick(ledger', d, a)) <= QuickDailyCap
               /\ \A row \in Quick(ledger', d, a) : Order[row.tok].amount <= QuickCap
    <3>1. CASE <<d, a, "payup">> # key \/ new.authorized
      <4>1. Quick(ledger', d, a) = Quick(ledger, d, a)
        BY <1>3, <3>1 DEF Quick
      <4>2. CapsOf(ledger)
        BY CapsAre DEF CapsInv
      <4>3. QED BY Zenon, <4>1, <4>2 DEF CapsOf
    <3>2. CASE <<d, a, "payup">> = key /\ ~new.authorized
      <4>1. d = work[r].created /\ a = o.from /\ "payup" = o.chan
        BY <3>2
      <4>2. DEFINE Q == Quick(ledger, d, a)
                   B == Booked(ledger, d, a, "payup")
      <4>3. Quick(ledger', d, a) = Q \cup {new}
        BY <1>3, <3>2, <4>1 DEF Quick
      <4>4. Q \in SUBSET B /\ B \subseteq ledger /\ IsFiniteSet(B)
        <5>1. Q \in SUBSET B
          BY DEF Quick, Booked
        <5>2. B \subseteq ledger
          BY DEF Booked
        <5>3. IsFiniteSet(B)
          BY <1>2, BookedFacts
        <5>4. QED BY <5>1, <5>2, <5>3
      <4>5. IsFiniteSet(Q) /\ Sum(Q) \in Nat /\ Sum(Q) <= Sum(B)
        <5>1. IsFiniteSet(Q)
          BY <4>4, FS_Subset
        <5>2. (\A x \in Q : Amount(x) \in Nat) /\ \A x \in B : Amount(x) \in Nat
          BY <2>3, <4>4
        <5> HIDE DEF Q, B
        <5>3. QED BY <4>4, <5>1, <5>2, SumFacts, SumOfPart
      <4>6. Sum(Q \cup {new}) = Sum(Q) + Amount(new)
        <5>1. Amount(new) \in Nat /\ new \notin Q /\ \A x \in Q : Amount(x) \in Nat
          BY <1>3, <1>6, <2>3, <4>4
        <5> HIDE DEF Q, new
        <5>2. QED BY <4>5, <5>1, SumAdds
      <4>7. Sum(B) = used
        BY <4>1
      <4>8. Sum(Quick(ledger', d, a)) <= QuickDailyCap
        <5>1. Sum(Quick(ledger', d, a)) = Sum(Q) + o.amount
          BY ZenonT(30), <1>3, <4>3, <4>6
        <5>2. used + o.amount <= QuickDailyCap
          BY <2>5, <3>2, <4>1
        <5> HIDE DEF Q, B, used, o, new
        <5>3. QED BY <1>3, <2>3, <4>5, <4>7, <5>1, <5>2, CapTypes
      <4>9. \A row \in Quick(ledger', d, a) : Order[row.tok].amount <= QuickCap
        <5>1. \A row \in Q : Order[row.tok].amount <= QuickCap
          BY CapsAre DEF CapsInv, CapsOf
        <5>2. Order[new.tok].amount <= QuickCap
          BY <1>3, <2>5, <3>2, <4>1
        <5> HIDE DEF Q, new
        <5>3. QED BY <4>3, <5>1, <5>2
      <4>10. QED BY ZenonT(30), <4>8, <4>9
    <3>3. QED BY <3>1, <3>2
  <2>8. CapsHeld'
    <3>1. CapsOf(ledger)'
      BY ZenonT(30), <2>6, <2>7 DEF CapsOf
    <3>2. CapsHeld' <=> CapsOf(ledger)'
      BY CapsAre, PTL
    <3>3. QED BY <3>1, <3>2
  <2>9. QED BY <1>4, <2>8
<1>7. QED BY <1>5, <1>6

\* A top-up books nothing that a limit is about.
LEMMA CapsTopUp ==
    ASSUME CapsInv, NEW r \in Requests, OrderOf(r).chan = "topup", UNCHANGED day,
           ledger' = ledger \cup {LedgerRow(r, day)}, ledger' \subseteq LedgerRows
    PROVE  /\ LedgerDated' /\ CapsHeld'
           /\ \A d, a : \A c \in Channels : Booked(ledger', d, a, c) = Booked(ledger, d, a, c)
<1>1. DEFINE new == LedgerRow(r, day)
<1>2. /\ Order[new.tok].chan = "topup" /\ new.limit = 0 /\ new.day = day
      /\ day \in Nat /\ IsFiniteSet(ledger) /\ ledger \subseteq LedgerRows
  BY CapTypes DEF LedgerRow, OrderOf, CapsInv, TypeOK, LedgerDated
<1>3. /\ \A d, a : \A c \in Channels : Booked(ledger', d, a, c) = Booked(ledger, d, a, c)
      /\ \A d, a : Quick(ledger', d, a) = Quick(ledger, d, a)
  BY Zenon, <1>2 DEF Booked, Quick, Channels
<1>4. CapsHeld'
  <2>1. CapsOf(ledger)
    BY CapsAre DEF CapsInv
  <2>2. CapsOf(ledger')
    <3>1. ASSUME NEW d \in 0 .. MaxDay, NEW a \in Accounts, NEW c \in Channels,
                 Booked(ledger', d, a, c) # {}
          PROVE  Sum(Booked(ledger', d, a, c)) <= Max({row.limit : row \in Booked(ledger', d, a, c)})
      <4>1. Booked(ledger', d, a, c) = Booked(ledger, d, a, c)
        BY <1>3
      <4>2. Sum(Booked(ledger, d, a, c)) <= Max({row.limit : row \in Booked(ledger, d, a, c)})
        BY <2>1, <3>1, <4>1 DEF CapsOf
      <4>3. QED BY Zenon, <4>1, <4>2
    <3>2. ASSUME NEW d \in 0 .. MaxDay, NEW a \in Accounts
          PROVE  /\ Sum(Quick(ledger', d, a)) <= QuickDailyCap
                 /\ \A row \in Quick(ledger', d, a) : Order[row.tok].amount <= QuickCap
      <4>1. Quick(ledger', d, a) = Quick(ledger, d, a)
        BY <1>3
      <4>2. /\ Sum(Quick(ledger, d, a)) <= QuickDailyCap
            /\ \A row \in Quick(ledger, d, a) : Order[row.tok].amount <= QuickCap
        BY <2>1 DEF CapsOf
      <4>3. QED BY <4>1, <4>2
    <3>3. QED BY Zenon, <3>1, <3>2 DEF CapsOf
  <2>3. CapsOf(ledger)'
    BY <2>2 DEF CapsOf, Booked, Quick
  <2>4. CapsHeld' <=> CapsOf(ledger)'
    BY CapsAre, PTL
  <2>5. QED BY <2>3, <2>4
<1>5. LedgerDated'
  <2>1. IsFiniteSet(ledger')
    BY <1>2, FS_AddElement
  <2>2. \A row \in ledger' : row.day <= day'
    BY <1>2 DEF CapsInv, LedgerDated
  <2>3. \E n \in Nat : \A row \in ledger' : row.limit <= n
    BY <1>2 DEF CapsInv, LedgerDated
  <2>4. QED BY <2>1, <2>2, <2>3 DEF LedgerDated
<1>6. QED BY ZenonT(30), <1>3, <1>4, <1>5

\* The steps that end a request.
LEMMA CapsEnd ==
    ASSUME CapsInv, TypeOK', NEW r \in Requests,
           \/ CommitTransfer(r) \/ TopUpCredit(r) \/ RejectCommit(r)
           \/ RejectAuditFails(r) \/ DeadlockAbort(r) \/ Fail(r)
    PROVE  LedgerDated' /\ CapsHeld' /\ \A q \in Requests : Checked(q)'
<1>1. /\ TypeOK /\ pc \in [Requests -> Stages] /\ Checked(r) /\ day \in 0 .. MaxDay /\ day \in Nat
      /\ seen \in [Requests -> [Accounts -> UserRows]] /\ ledger' \subseteq LedgerRows
  BY CapTypes DEF CapsInv, TypeOK
<1>2. EndSession(r) /\ work' = work /\ pc'[r] \in Finished /\ day' = day
  BY <1>1 DEF CommitTransfer, TopUpCredit, RejectCommit, RejectAuditFails, DeadlockAbort, Fail,
     Finished, GoTo
<1>3. \A q \in Requests \ {r} : pc'[q] = pc[q] /\ seen'[q] = seen[q]
  BY ZenonT(30), <1>1, <1>2 DEF CommitTransfer, TopUpCredit, RejectCommit, RejectAuditFails,
     DeadlockAbort, Fail, GoTo, EndSession
<1>4. Checked(r)'
  BY <1>2 DEF Checked, Finished
<1>5. SUFFICES /\ LedgerDated' /\ CapsHeld'
               /\ \A q \in Requests \ {r} : pc[q] \in {"sign", "commit"} =>
                    \A d : Booked(ledger', d, OrderOf(q).from, OrderOf(q).chan)
                               = Booked(ledger, d, OrderOf(q).from, OrderOf(q).chan)
  <2>1. ASSUME NEW q \in Requests \ {r},
               pc[q] \in {"sign", "commit"} =>
                    \A d : Booked(ledger', d, OrderOf(q).from, OrderOf(q).chan)
                               = Booked(ledger, d, OrderOf(q).from, OrderOf(q).chan)
        PROVE  Checked(q)'
    <3>1. Checked(q) /\ pc'[q] = pc[q] /\ seen'[q] = seen[q] /\ work'[q] = work[q]
      BY ZenonT(30), <1>2, <1>3 DEF CapsInv
    <3>2. \A a \in Accounts : rowLock'[a] = q <=> rowLock[a] = q
      BY ZenonT(30), <1>1, <1>2, EndReleases
    <3>3. QED BY <1>1, <1>2, <2>1, <3>1, <3>2, CheckedKept
  <2>2. QED BY <1>4, <2>1
<1>6. CASE UNCHANGED ledger
  <2>1. day <= day' /\ day' \in 0 .. MaxDay
    BY <1>1, <1>2
  <2>2. LedgerDated' /\ CapsHeld'
    BY <1>6, <2>1, LedgerKept
  <2>3. QED BY <1>6, <2>2
<1>7. CASE CommitTransfer(r)
  <2>1. /\ pc[r] = "commit" /\ rowLock[OrderOf(r).from] = r
        /\ ledger' = ledger \cup {LedgerRow(r, work[r].created)}
    BY ZenonT(30), <1>1, <1>7 DEF CommitTransfer, Checked
  <2>2. LedgerDated' /\ CapsHeld'
    BY ZenonT(30), <1>1, <1>2, <2>1, CapsBook
  <2>3. ASSUME NEW q \in Requests \ {r}, pc[q] \in {"sign", "commit"}, NEW d
        PROVE  Booked(ledger', d, OrderOf(q).from, OrderOf(q).chan)
                   = Booked(ledger, d, OrderOf(q).from, OrderOf(q).chan)
    <3>1. rowLock[OrderOf(q).from] = q
      BY <2>3 DEF CapsInv, Checked
    <3>2. Order[LedgerRow(r, work[r].created).tok].from # OrderOf(q).from
      BY Zenon, <2>1, <3>1 DEF LedgerRow, OrderOf
    <3>3. QED BY ZenonT(30), <2>1, <3>2 DEF Booked
  <2>4. QED BY ZenonT(30), <2>2, <2>3
<1>8. CASE TopUpCredit(r) /\ ledger' # ledger
  <2>1. /\ OrderOf(r).chan = "topup"
        /\ ledger' = ledger \cup {LedgerRow(r, day)}
    BY <1>1, <1>8 DEF TopUpCredit, CapsInv, TopUpStages
  <2>2. \A q \in Requests : pc[q] \in {"sign", "commit"} => OrderOf(q).chan \in Channels
    BY Zenon DEF CapsInv, Checked, Allowed
  <2>3. QED BY ZenonT(30), <1>1, <1>2, <2>1, <2>2, CapsTopUp
<1>9. CASE RejectCommit(r) \/ RejectAuditFails(r) \/ DeadlockAbort(r) \/ Fail(r)
  BY ZenonT(30), <1>6, <1>9 DEF RejectCommit, RejectAuditFails, DeadlockAbort, Fail
<1>10. QED BY <1>6, <1>7, <1>8, <1>9

\* Starting a request.
LEMMA CapsStart ==
    ASSUME CapsInv, NEW r \in Requests, NEW t \in Tokens,
           StartLocal(r, t) \/ StartPayup(r, t) \/ StartTopUp(r, t)
    PROVE  LedgerDated' /\ CapsHeld' /\ \A q \in Requests : Checked(q)'
<1>1. /\ TypeOK /\ pc \in [Requests -> Stages] /\ work \in [Requests -> Works]
      /\ seen \in [Requests -> [Accounts -> UserRows]] /\ day \in 0 .. MaxDay /\ day \in Nat
  BY CapTypes DEF CapsInv, TypeOK
<1>2. UNCHANGED <<ledger, day, rowLock>>
  BY DEF StartLocal, StartPayup, StartTopUp, locks
<1>3. \A q \in Requests \ {r} : pc'[q] = pc[q] /\ work'[q] = work[q] /\ seen'[q] = seen[q]
  BY <1>1 DEF StartLocal, StartPayup, StartTopUp, GoTo, Load
<1>4. pc'[r] \in {"recipient", "load", "topup_audit"}
  BY <1>1 DEF StartLocal, StartPayup, StartTopUp, GoTo
<1>5. Checked(r)'
  BY <1>4 DEF Checked
<1>6. LedgerDated' /\ CapsHeld'
  BY <1>1, <1>2, LedgerKept
<1>7. ASSUME NEW q \in Requests \ {r}
      PROVE  Checked(q)'
  <2>1. Checked(q)
    BY DEF CapsInv
  <2>2. QED BY <1>1, <1>2, <1>3, <2>1, CheckedKept
<1>8. QED BY <1>5, <1>6, <1>7

\* A new day has no transactions yet, so what was allowed on the old one is allowed.
LEMMA CapsMidnight ==
    ASSUME CapsInv, TypeOK', Midnight
    PROVE  LedgerDated' /\ CapsHeld' /\ \A q \in Requests : Checked(q)'
<1>1. /\ day' = day + 1 /\ day \in Nat /\ day' \in 0 .. MaxDay
      /\ UNCHANGED <<ledger, pc, work, seen, rowLock>>
      /\ IsFiniteSet(ledger) /\ ledger \subseteq LedgerRows
  BY CapTypes DEF Midnight, TypeOK, CapsInv, LedgerDated, locks
<1>2. LedgerDated' /\ CapsHeld'
  BY <1>1, LedgerKept
<1>3. \A a, c : Sum(Booked(ledger, day + 1, a, c)) = 0
  <2>1. \A row \in ledger : row.day \in Nat /\ row.day <= day
    BY DEF CapsInv, LedgerDated, TypeOK, LedgerRows
  <2>2. \A a, c : Booked(ledger, day + 1, a, c) = {}
    BY <1>1, <2>1 DEF Booked
  <2>3. QED BY <2>2, SumNothing
<1>4. ASSUME NEW q \in Requests PROVE Checked(q)'
  <2>1. /\ Checked(q) /\ OrderOf(q)' = OrderOf(q) /\ Lower(OrderOf(q))' = Lower(OrderOf(q))
        /\ work[q].tok \in Tokens /\ work[q].created \in Nat
    BY <1>1, CapTypes DEF CapsInv, OrderOf, Lower, TypeOK, Works
  <2>2. pc[q] = "sign" => Allowed(q, day)'
    <3>1. SUFFICES ASSUME pc[q] = "sign", Allowed(q, day) PROVE Allowed(q, day)'
      BY <2>1 DEF Checked
    <3>2. DEFINE o == OrderOf(q)
                 used == UsedOn(day, o.from, o.chan)
    <3>3. o.amount \in Nat /\ used \in Nat /\ o.from \in Accounts
      BY <1>1, <2>1, OrderFacts, SumsAre, BookedFacts DEF OrderOf
    <3>4. UsedOn(day, o.from, o.chan)' = 0
      <4>1. Booked(ledger, day, o.from, o.chan)' = Booked(ledger, day + 1, o.from, o.chan)
        BY <1>1, <2>1 DEF Booked
      <4>2. UsedOn(day, o.from, o.chan)' = Sum(Booked(ledger, day, o.from, o.chan)')
        BY DEF UsedOn, Booked
      <4>3. QED BY <1>3, <4>1, <4>2
    <3>5. seen[q][o.from].limit[o.chan] \in Nat
      BY <3>1, <3>3, LimitTypes DEF CapsInv, TypeOK, UserRows, Allowed
    <3>6. used + o.amount <= seen[q][o.from].limit[o.chan] /\ o.chan \in Channels
      BY <3>1 DEF Allowed
    <3>7. 0 + o.amount <= seen[q][o.from].limit[o.chan]
      <4> HIDE DEF used, o
      <4>1. QED BY <3>3, <3>5, <3>6
    <3>8. RequiresStepUp(o.amount, 0) => RequiresStepUp(o.amount, used)
      <4> HIDE DEF used, o
      <4>1. QED BY <3>3, CapTypes DEF RequiresStepUp
    <3>9. o.chan = "payup" => work[q].authorized \/ ~RequiresStepUp(o.amount, 0)
      BY <3>1, <3>8 DEF Allowed
    <3>10. QED BY <1>1, <2>1, <3>4, <3>6, <3>7, <3>9 DEF Allowed, RequiresStepUp
  <2>3. pc[q] = "commit" => work[q].created <= day' /\ Allowed(q, work[q].created)'
    <3>1. SUFFICES ASSUME pc[q] = "commit"
                   PROVE  work[q].created <= day' /\ Allowed(q, work[q].created)'
      OBVIOUS
    <3>2. work[q].created <= day'
      BY <1>1, <2>1, <3>1 DEF Checked
    <3>3. Allowed(q, work[q].created)
      BY <2>1, <3>1 DEF Checked
    <3>4. Allowed(q, work[q].created)'
      BY <1>1, <2>1, <3>3 DEF Allowed, UsedOn, RequiresStepUp
    <3>5. QED BY <3>2, <3>4
  <2>4. QED BY <1>1, <2>1, <2>2, <2>3 DEF Checked
<1>5. QED BY <1>2, <1>4

\* The invariant behind the caps is inductive.
LEMMA CapsStep == CapsInv /\ [Next]_vars => CapsInv'
<1> SUFFICES ASSUME CapsInv, [Next]_vars
             PROVE  LedgerDated' /\ CapsHeld' /\ \A q \in Requests : Checked(q)'
  BY TypeStep, TopUpStep DEF CapsInv
<1>1. TypeOK' /\ TypeOK /\ day \in 0 .. MaxDay /\ day \in Nat
  BY TypeStep, CapTypes DEF CapsInv, TypeOK
<1>2. ASSUME UNCHANGED <<ledger, day, rowLock, pc, work, seen>>
      PROVE  LedgerDated' /\ CapsHeld' /\ \A q \in Requests : Checked(q)'
  <2>1. LedgerDated' /\ CapsHeld'
    BY <1>1, <1>2, LedgerKept
  <2>2. ASSUME NEW q \in Requests
        PROVE  Checked(q)'
    <3>1. Checked(q)
      BY DEF CapsInv
    <3>2. QED BY <1>1, <1>2, <3>1, CheckedKept
  <2>3. QED BY <2>1, <2>2
<1>3. ASSUME NEW r \in Requests, Start(r)
      PROVE  LedgerDated' /\ CapsHeld' /\ \A q \in Requests : Checked(q)'
  BY <1>3, CapsStart DEF Start
<1>4. ASSUME NEW r \in Requests,
             Step(r) \/ RejectAuditFails(r) \/ DeadlockAbort(r) \/ Fail(r)
      PROVE  LedgerDated' /\ CapsHeld' /\ \A q \in Requests : Checked(q)'
  BY <1>1, <1>4, CapsGoOn, CapsEnd DEF Step
<1>5. ASSUME NEW t \in Tokens,
             SubmitLocal(t) \/ SubmitPayup(t) \/ SubmitTopUp(t) \/ Expire(t)
      PROVE  UNCHANGED <<ledger, day, rowLock, pc, work, seen>>
  BY <1>5 DEF SubmitLocal, SubmitPayup, SubmitTopUp, Offer, Expire, locks
<1>6. ASSUME NEW a \in Accounts, Freeze(a) \/ \E l \in Limits : ChangeLimits(a, l)
      PROVE  UNCHANGED <<ledger, day, rowLock, pc, work, seen>>
  BY <1>6 DEF Freeze, ChangeLimits, locks
<1>7. CASE Midnight
  BY <1>1, <1>7, CapsMidnight
<1>8. CASE UNCHANGED vars
  BY <1>2, <1>8 DEF vars, locks
<1>9. QED BY <1>2, <1>3, <1>4, <1>5, <1>6, <1>7, <1>8 DEF Next

\* The checks made under the sender's row lock (_ensure_local_transfer_daily_limit,
\* evaluate_payup_risk) hold to the commit: neither the daily limits nor the caps on
\* payments without an authenticator code are passed, whatever runs at the same time
\* and whenever midnight falls.
THEOREM CapsSafety == Spec => []CapsHeld
<1>1. Init => CapsInv
  <2>1. SUFFICES ASSUME Init PROVE CapsInv
    OBVIOUS
  <2>2. TypeOK /\ TopUpStages /\ ledger = {}
    BY <2>1, TokenInit DEF TokenInv, Init, TopUpStages
  <2>3. LedgerDated
    BY <2>2, FS_EmptySet DEF LedgerDated
  <2>4. CapsHeld
    <3>1. /\ \A d, a, c : Booked(ledger, d, a, c) = {}
          /\ \A d, a : Quick(ledger, d, a) = {}
      BY <2>2 DEF Booked, Quick
    <3>2. CapsOf(ledger)
      BY <3>1, SumNothing, CapTypes DEF CapsOf
    <3>3. QED BY <3>2, CapsAre
  <2>5. \A r \in Requests : Checked(r)
    BY <2>1 DEF Init, Checked
  <2>6. QED BY <2>2, <2>3, <2>4, <2>5 DEF CapsInv
<1>2. CapsInv => CapsHeld
  BY DEF CapsInv
<1>3. QED BY <1>1, <1>2, CapsStep, PTL DEF Spec
=============================================================================
