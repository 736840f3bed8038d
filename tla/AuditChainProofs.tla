-------------------------- MODULE AuditChainProofs --------------------------
(* Theorems about AuditChain, for any writers, keepers, events and bounds. *)
EXTENDS AuditChain, FiniteSetTheorems, WellFoundedInduction, TLAPS

----------------------------------------------------------------------------
(* Type correctness.  Counting rows needs finite sets, and a refresh has a  *)
(* file to start from.                                                      *)

TypeInv == /\ TypeOK
           /\ IsFiniteSet(log)
           /\ \A w \in Writers : IsFiniteSet(draft[w])
           /\ \A k \in Keepers : /\ pc[k] \in {"read", "locked"} => anchor # None
                                 /\ pc[k] \in {"export", "read", "locked"} => held[k] # None

\* The newest hash that a transaction finds is a hash.
LEMMA TipType ==
    ASSUME NEW S \in SUBSET Rows
    PROVE  Tip(S) \subseteq Hashes
<1>1. ChainStart \in Hashes
    BY DEF ChainStart, Hashes
<1>2. \A e \in Hashed(S) : e.hash \in Hashes
    BY DEF Hashed, Rows
<1> QED
    BY <1>1, <1>2 DEF Tip, Latest

\* An event chained to a hash has a hash.
LEMMA HashType ==
    ASSUME NEW p \in Hashes, NEW d \in Data
    PROVE  Hash(p, d) \in Hashes /\ Hash(p, d) # None
BY NoneIsNoValue DEF Hash, Hashes

\* What an anchor command computes over rows is an anchor.
LEMMA HeadType ==
    ASSUME NEW S \in SUBSET Rows, IsFiniteSet(S), NEW t \in Tops(S),
           NEW vouched \in SUBSET Rows
    PROVE  HeadOf(S, t, vouched) \in Anchors
<1>1. IsFiniteSet(Hashed(S))
    BY FS_Subset DEF Hashed
<1>2. Cardinality(S) \in Nat /\ Cardinality(Hashed(S)) \in Nat
    BY <1>1, FS_CardinalityType
<1>3. t.id \in Nat \cup {None} /\ t.hash \in Hashes \cup {None}
    BY DEF Tops, Latest, Hashed, Rows
<1>4. Valid(S) \in BOOLEAN
    BY DEF Valid
<1> HIDE DEF Rows
<1> QED
    BY <1>2, <1>3, <1>4, Zenon DEF HeadOf, Anchors

\* The row that Insert flushes.
Flushed(d, p) == [id |-> lastId + 1, data |-> d, prev |-> p, hash |-> Hash(p, d)]

\* No step takes a variable out of its type.
LEMMA TypeStep == TypeInv /\ [Next]_vars => TypeInv'
<1> SUFFICES ASSUME TypeInv, [Next]_vars
             PROVE  TypeInv'
    OBVIOUS
<1> USE DEF TypeInv, TypeOK
<1>1. ASSUME NEW w \in Writers, TakeLock(w)
      PROVE  TypeInv'
    BY <1>1 DEF TakeLock
<1>2. ASSUME NEW w \in Writers, NEW d \in Data, Insert(w, d)
      PROVE  TypeInv'
    <2>1. PICK p \in Tip(log \cup draft[w]) :
             draft' = [draft EXCEPT ![w] = @ \cup {Flushed(d, p)}]
        BY ZenonT(30), <1>2 DEF Insert, Flushed
    <2>2. p \in Hashes
        BY TipType
    <2>3. Flushed(d, p) \in Rows
        BY <2>2, HashType DEF Flushed, Rows
    <2>4. IsFiniteSet(draft[w] \cup {Flushed(d, p)})
        BY FS_AddElement
    <2> HIDE DEF Flushed, Rows
    <2>5. draft' \in [Writers -> SUBSET Rows]
        BY <2>1, <2>3
    <2>6. \A v \in Writers : IsFiniteSet(draft'[v])
        BY <2>1, <2>4
    <2>7. lastId' \in Nat /\ UNCHANGED <<log, lock, anchor, pc, held, damage, crashes>>
        BY <1>2 DEF Insert
    <2> QED
        BY <2>5, <2>6, <2>7
<1>3. ASSUME NEW w \in Writers, Commit(w)
      PROVE  TypeInv'
    <2>1. IsFiniteSet(log \cup draft[w]) /\ IsFiniteSet({})
        BY ZenonT(30), FS_Union, FS_EmptySet
    <2> HIDE DEF Rows
    <2> QED
        BY <1>3, <2>1 DEF Commit
<1>4. ASSUME NEW w \in Writers, Rollback(w)
      PROVE  TypeInv'
    <2>1. IsFiniteSet({})
        BY FS_EmptySet
    <2> QED
        BY <1>4, <2>1 DEF Rollback
<1>5. ASSUME NEW k \in Keepers, ExportRead(k)
      PROVE  TypeInv'
    <2>1. PICK t \in Tops(log) : held' = [held EXCEPT ![k] = HeadOf(log, t, Hashed(log))]
        BY ZenonT(30), <1>5 DEF ExportRead
    <2>2. HeadOf(log, t, Hashed(log)) \in Anchors
        BY HeadType DEF Hashed
    <2> QED
        BY <1>5, <2>1, <2>2, NoneIsNoValue DEF ExportRead, GoTo
<1>6. ASSUME NEW k \in Keepers, ExportWrite(k)
      PROVE  TypeInv'
    BY <1>6 DEF ExportWrite, GoTo
<1>7. ASSUME NEW k \in Keepers, RefreshRead(k)
      PROVE  TypeInv'
    BY <1>7 DEF RefreshRead, GoTo
<1>8. ASSUME NEW k \in Keepers, RefreshLock(k)
      PROVE  TypeInv'
    BY <1>8 DEF RefreshLock, GoTo
<1>9. ASSUME NEW k \in Keepers, RefreshWrite(k)
      PROVE  TypeInv'
    <2>1. PICK t \in Tops(log) : anchor' = HeadOf(log, t, anchor.rows \cup Hashed(log))
        BY <1>9 DEF RefreshWrite
    <2>2. anchor.rows \in SUBSET Rows
        <3>1. anchor \in Anchors
            BY <1>9 DEF RefreshWrite
        <3> QED
            BY <3>1 DEF Anchors
    <2>3. anchor' \in Anchors
        BY <2>1, <2>2, HeadType DEF Hashed
    <2> QED
        BY ZenonT(30), <1>9, <2>3, NoneIsNoValue DEF RefreshWrite, GoTo
<1>10. ASSUME NEW k \in Keepers, RefreshEnd(k)
       PROVE  TypeInv'
    BY <1>10 DEF RefreshEnd, GoTo
<1>11. ASSUME NEW k \in Keepers, Crash(k)
       PROVE  TypeInv'
    BY <1>11 DEF Crash, GoTo
<1>12. ASSUME NEW e \in log, Lose(e)
       PROVE  TypeInv'
    <2>1. IsFiniteSet(log \ {e})
        BY FS_Subset
    <2> QED
        BY <1>12, <2>1 DEF Lose
<1>13. ASSUME NEW e \in log, NEW d \in Data, Alter(e, d)
       PROVE  TypeInv'
    <2>1. IsFiniteSet((log \ {e}) \cup {[e EXCEPT !.data = d]})
        BY ZenonT(30), FS_Subset, FS_AddElement
    <2>2. [e EXCEPT !.data = d] \in Rows
        BY DEF Rows
    <2> HIDE DEF Rows
    <2> QED
        BY <1>13, <2>1, <2>2 DEF Alter
<1>14. CASE UNCHANGED vars
    BY <1>14 DEF vars
<1> QED
    BY <1>1, <1>2, <1>3, <1>4, <1>5, <1>6, <1>7, <1>8, <1>9, <1>10, <1>11, <1>12, <1>13, <1>14
       DEF Next, Write, Keep, Refresh

\* The rows from before the chain are finitely many.
LEMMA TypeInit == Init => TypeInv
<1> SUFFICES ASSUME Init PROVE TypeInv
    OBVIOUS
<1>1. PICK d \in Data : log = {LegacyRow(i, d) : i \in 1 .. Legacy}
    BY DEF Init
<1>2. log \subseteq Rows
    BY <1>1, Numbers DEF LegacyRow, Rows
<1>3. IsFiniteSet(1 .. Legacy)
    BY FS_Interval, Numbers
<1>4. IsFiniteSet(log)
    <2> DEFINE f == [i \in 1 .. Legacy |-> LegacyRow(i, d)]
    <2>1. f \in Surjection(1 .. Legacy, log)
        BY <1>1 DEF Surjection
    <2> QED
        BY <1>3, <2>1, FS_Surjection
<1>5. IsFiniteSet({})
    BY FS_EmptySet
<1> QED
    BY <1>2, <1>4, <1>5, Numbers DEF Init, TypeInv, TypeOK

\* Every variable keeps its type (security_audit_events rows, the anchor file and
\* the copies of it that commands hold).
THEOREM TypeCorrect == Spec => []TypeOK
<1>1. TypeInv => TypeOK
    BY DEF TypeInv
<1> QED
    BY TypeInit, TypeStep, <1>1, PTL DEF Spec

----------------------------------------------------------------------------
(* The chain verifies.  Under the lock, what the holder sees is a valid     *)
(* chain, its own uncommitted rows included, and those are newer than every *)
(* committed row.                                                           *)

\* A set of rows that has hashed rows has a newest one.
HasTop(S) == Hashed(S) # {} => Latest(S) # {}

Sees(w) == log \cup draft[w]

ChainInv ==
    /\ \A w \in Writers : draft[w] # {} => lock = w
    /\ \A k \in Keepers : pc[k] \in {"locked", "written"} => lock = k
    /\ damage = 0 =>
         /\ Valid(log) /\ HasTop(log)
         /\ \A e \in log : e.id <= lastId
         /\ \A w \in Writers :
               /\ Valid(Sees(w)) /\ HasTop(Sees(w))
               /\ \A e \in draft[w] : /\ e.id <= lastId
                                      /\ e.hash # None
                                      /\ \A f \in log : f.id < e.id

\* A row that is newer than a valid chain and linked to its newest hash extends it.
LEMMA ExtendChain ==
    ASSUME NEW S \in SUBSET Rows, Valid(S), NEW new \in Rows,
           \A e \in S : e.id < new.id,
           new.hash # None, new.prev \in Tip(S), new.hash = Hash(new.prev, new.data)
    PROVE  Valid(S \cup {new}) /\ HasTop(S \cup {new})
<1> DEFINE T == S \cup {new}
<1>1. \A e \in T : e.id \in Int
    BY DEF Rows
<1>2. Before(T, new) = S
    BY <1>1 DEF Before
<1>3. \A e \in S : Before(T, e) = Before(S, e)
    BY <1>1 DEF Before
<1>4. Verified(T, new)
    BY <1>2 DEF Verified
<1>5. \A e \in S : Verified(T, e)
    BY ZenonT(30), <1>3 DEF Verified, Valid
<1>6. new \in Latest(T)
    BY <1>1 DEF Latest, Hashed
<1> QED
    BY <1>4, <1>5, <1>6 DEF Valid, HasTop

\* No step breaks the chain.
LEMMA ChainStep == TypeInv /\ ChainInv /\ [Next]_vars => ChainInv'
<1> SUFFICES ASSUME TypeInv, ChainInv, [Next]_vars
             PROVE  ChainInv'
    OBVIOUS
<1> USE DEF TypeInv, TypeOK
<1>1. ASSUME NEW w \in Writers, TakeLock(w)
      PROVE  ChainInv'
    <2>1. /\ \A v \in Writers : draft[v] = {}
          /\ \A k \in Keepers : pc[k] \notin {"locked", "written"}
        BY <1>1, ActorSets DEF TakeLock, ChainInv
    <2> QED
        BY <1>1, <2>1 DEF TakeLock, ChainInv, Sees
<1>2. ASSUME NEW w \in Writers, NEW d \in Data, Insert(w, d)
      PROVE  ChainInv'
    <2>1. PICK p \in Tip(Sees(w)) :
             draft' = [draft EXCEPT ![w] = @ \cup {Flushed(d, p)}]
        BY ZenonT(30), <1>2 DEF Insert, Flushed, Sees
    <2> DEFINE new == Flushed(d, p)
    <2>2. Sees(w) \in SUBSET Rows
        BY DEF Sees
    <2>3. p \in Hashes
        BY <2>2, TipType
    <2>4. /\ new \in Rows /\ new.hash # None /\ new.id = lastId + 1
          /\ new.prev = p /\ new.hash = Hash(new.prev, new.data)
        BY <2>3, HashType DEF Flushed, Rows
    <2> HIDE DEF new
    <2>5. /\ \A v \in Writers : v # w => draft[v] = {} /\ draft'[v] = {}
          /\ draft'[w] = draft[w] \cup {new}
          /\ Sees(w)' = Sees(w) \cup {new}
        BY <1>2, <2>1 DEF Insert, ChainInv, Sees, new
    <2>6. lastId' = lastId + 1 /\ UNCHANGED <<log, lock, damage, pc>>
        BY <1>2 DEF Insert
    <2>7. ASSUME damage = 0
          PROVE  Valid(Sees(w) \cup {new}) /\ HasTop(Sees(w) \cup {new})
        <3>1. \A e \in Sees(w) : e.id < new.id
            BY <2>2, <2>4, <2>7 DEF ChainInv, Sees, Rows
        <3> QED
            BY <2>2, <2>4, <2>7, <3>1, ExtendChain DEF ChainInv
    <2>8. ASSUME damage = 0
          PROVE  /\ \A e \in log : e.id <= lastId'
                 /\ \A e \in draft'[w] : /\ e.id <= lastId' /\ e.hash # None
                                         /\ \A f \in log : f.id < e.id
        BY <2>4, <2>5, <2>6, <2>8 DEF ChainInv, Rows
    <2>9. \A v \in Writers : v # w => Sees(v)' = log
        BY <2>5, <2>6 DEF Sees
    <2>10. \A v \in Writers : draft'[v] # {} => lock' = v
        BY <1>2, <2>5, <2>6 DEF Insert
    <2> QED
        BY <2>5, <2>6, <2>7, <2>8, <2>9, <2>10 DEF ChainInv
<1>3. ASSUME NEW w \in Writers, Commit(w)
      PROVE  ChainInv'
    <2>1. /\ log' = Sees(w) /\ lock = w
          /\ \A v \in Writers : draft'[v] = {} /\ (v # w => draft[v] = {})
          /\ \A k \in Keepers : pc[k] \notin {"locked", "written"}
        BY <1>3, ActorSets DEF Commit, ChainInv, Sees
    <2>2. UNCHANGED <<lastId, damage, pc>>
        BY <1>3 DEF Commit
    <2>3. \A v \in Writers : Sees(v)' = log'
        BY <2>1 DEF Sees
    <2> QED
        BY ZenonT(30), <2>1, <2>2, <2>3 DEF ChainInv, Sees
<1>4. ASSUME NEW w \in Writers, Rollback(w)
      PROVE  ChainInv'
    <2>1. /\ lock = w /\ \A v \in Writers : draft'[v] = {}
          /\ \A k \in Keepers : pc[k] \notin {"locked", "written"}
        BY <1>4, ActorSets DEF Rollback, ChainInv
    <2> QED
        BY <1>4, <2>1 DEF Rollback, ChainInv, Sees
<1>5. ASSUME UNCHANGED <<log, draft, lastId, damage>>,
             lock' = lock \/ lock \notin Writers,
             \A k \in Keepers : pc'[k] \in {"locked", "written"} => lock' = k
      PROVE  ChainInv'
    BY <1>5 DEF ChainInv, Sees
<1>6. ASSUME Quiet, damage' = damage + 1, UNCHANGED <<draft, lastId, lock, pc>>
      PROVE  ChainInv'
    BY <1>6 DEF ChainInv, Quiet
<1>7. ASSUME NEW k \in Keepers, Keep(k)
      PROVE  /\ UNCHANGED <<log, draft, lastId, damage>>
             /\ lock' = lock \/ lock \notin Writers
             /\ \A j \in Keepers : pc'[j] \in {"locked", "written"} => lock' = j
    BY <1>7, ActorSets DEF Keep, ExportRead, ExportWrite, Refresh, RefreshRead, RefreshLock,
       RefreshWrite, RefreshEnd, Crash, GoTo, ChainInv
<1>8. ASSUME NEW e \in log, Lose(e) \/ \E d \in Data : Alter(e, d)
      PROVE  Quiet /\ damage' = damage + 1 /\ UNCHANGED <<draft, lastId, lock, pc>>
    BY <1>8 DEF Lose, Alter
<1>9. CASE UNCHANGED vars
    BY <1>5, <1>9 DEF vars, ChainInv
<1> QED
    BY <1>1, <1>2, <1>3, <1>4, <1>5, <1>6, <1>7, <1>8, <1>9 DEF Next, Write

\* The rows from before the chain are a valid chain by themselves.
LEMMA ChainInit == Init => ChainInv
<1> SUFFICES ASSUME Init PROVE ChainInv
    OBVIOUS
<1>1. PICK d \in Data : log = {LegacyRow(i, d) : i \in 1 .. Legacy}
    BY DEF Init
<1>2. \A e \in log : e.hash = None /\ e.id <= lastId
    BY <1>1, Numbers DEF Init, LegacyRow
<1>3. Valid(log) /\ HasTop(log)
    BY <1>2 DEF Valid, Verified, Before, Hashed, HasTop
<1>4. \A w \in Writers : draft[w] = {} /\ Sees(w) = log
    BY DEF Init, Sees
<1> QED
    BY <1>2, <1>3, <1>4 DEF Init, ChainInv

\* As long as no row is lost or altered, the committed audit rows verify
\* (verify_audit_hash_chain), whatever transactions interleave or roll back.
THEOREM ChainSafety == Spec => []ChainVerifies
<1>1. ChainInv => ChainVerifies
    BY DEF ChainInv, ChainVerifies
<1> QED
    BY TypeInit, TypeStep, ChainInit, ChainStep, <1>1, PTL DEF Spec

----------------------------------------------------------------------------
(* No false alarm.  Every anchor in use is the head of an initial part of   *)
(* the log: all rows outside it are hashed and newer.                       *)

HeadsPart(A, P) ==
    /\ A.count = Cardinality(P) /\ A.hashed = Cardinality(Hashed(P))
    /\ [id |-> A.id, hash |-> A.hash] \in Tops(P)
    /\ A.valid = TRUE
    /\ \A e \in log \ P : e.hash # None /\ \A f \in P : f.id < e.id

AnchorInv == damage = 0 => \A A \in Copies : \E P \in SUBSET log : HeadsPart(A, P)

\* An anchor computed over a valid log heads the whole of it.
LEMMA HeadOfLog ==
    ASSUME Valid(log), NEW t \in Tops(log), NEW vouched
    PROVE  HeadsPart(HeadOf(log, t, vouched), log)
<1> DEFINE A == HeadOf(log, t, vouched)
<1>1. A.count = Cardinality(log) /\ A.hashed = Cardinality(Hashed(log))
    BY DEF HeadOf
<1>2. A.id = t.id /\ A.hash = t.hash
    BY DEF HeadOf
<1>3. [id |-> t.id, hash |-> t.hash] = t
    BY DEF Tops
<1>4. A.valid = TRUE
    <2>1. Valid(log) = TRUE
        BY DEF Valid
    <2>2. A.valid = Valid(log)
        BY Zenon DEF HeadOf
    <2> QED
        BY <2>1, <2>2, Zenon
<1> QED
    BY <1>1, <1>2, <1>3, <1>4 DEF HeadsPart

\* An anchor that heads an initial part of a valid log and names an event is
\* accepted: it matches the head, or it is append-only stale.
LEMMA PartAccepted ==
    ASSUME TypeInv, Valid(log), HasTop(log), NEW A \in Anchors, A.id # None,
           NEW P \in SUBSET log, HeadsPart(A, P)
    PROVE  Accepts(log, A)
<1> USE DEF TypeInv, TypeOK
<1> DEFINE Old(S) == S \ Hashed(S)
<1>1. PICK a \in Latest(P) : a.id = A.id /\ a.hash = A.hash
    BY DEF HeadsPart, Tops
<1>2. a \in P /\ a \in Hashed(log) /\ a \in Hashed(P)
    BY <1>1 DEF Latest, Hashed
<1>3. \A e \in log : e.id \in Nat
    BY DEF Rows
<1>4. /\ IsFiniteSet(P) /\ IsFiniteSet(Hashed(log)) /\ IsFiniteSet(Hashed(P))
      /\ IsFiniteSet(Old(log)) /\ IsFiniteSet(Old(P))
    BY FS_Subset DEF Hashed
<1>5. /\ Cardinality(P) <= Cardinality(log)
      /\ Cardinality(P) = Cardinality(log) => P = log
      /\ Cardinality(Hashed(P)) <= Cardinality(Hashed(log))
      /\ Cardinality(Old(P)) <= Cardinality(Old(log))
    BY <1>4, FS_Subset DEF Hashed
<1>6. /\ Cardinality(Old(log)) = Cardinality(log) - Cardinality(Hashed(log))
      /\ Cardinality(Old(P)) = Cardinality(P) - Cardinality(Hashed(P))
    <2>1. log \cap Hashed(log) = Hashed(log) /\ P \cap Hashed(P) = Hashed(P)
        BY DEF Hashed
    <2>2. Cardinality(log \ Hashed(log)) = Cardinality(log) - Cardinality(log \cap Hashed(log))
        BY ZenonT(30), FS_Difference
    <2>3. Cardinality(P \ Hashed(P)) = Cardinality(P) - Cardinality(P \cap Hashed(P))
        BY ZenonT(30), <1>4, FS_Difference
    <2> QED
        BY ZenonT(30), <2>1, <2>2, <2>3
<1>7. /\ Cardinality(P) \in Nat /\ Cardinality(log) \in Nat
      /\ Cardinality(Hashed(P)) \in Nat /\ Cardinality(Hashed(log)) \in Nat
    BY <1>4, FS_CardinalityType
<1>8. WellFormed(log, A)
    BY DEF WellFormed, HeadsPart
<1>9. Anchored(log, A)
    BY <1>1, <1>2 DEF Anchored
<1>10. NotBehind(log, A)
    <2>1. \A e \in Latest(log) : A.id <= e.id
        BY <1>1, <1>2 DEF Latest
    <2> HIDE DEF Old
    <2> QED
        BY <2>1, <1>5, <1>6, <1>7 DEF NotBehind, HeadsPart
<1>11. CASE P = log
    BY <1>11, <1>8, <1>9, <1>10 DEF Accepts, Matches, HeadsPart
<1>12. CASE P # log
    <2>1. PICK e \in log \ P : TRUE
        BY ZenonT(30), <1>12
    <2>2. e \in Hashed(log) /\ a.id < e.id
        BY <2>1, <1>2 DEF HeadsPart, Hashed
    <2>3. PICK top \in Latest(log) : TRUE
        BY <2>2 DEF HasTop
    <2>4. top \in log /\ e.id <= top.id
        BY <2>2, <2>3 DEF Latest, Hashed
    <2>5. A.id < top.id
        BY <1>1, <1>2, <1>3, <2>1, <2>2, <2>4
    <2>6. A.count < Cardinality(log)
        BY <1>5, <1>7, <1>12 DEF HeadsPart
    <2>7. Stale(log, A)
        BY <2>3, <2>5, <2>6 DEF Stale
    <2> QED
        BY <2>7, <1>8, <1>9, <1>10 DEF Accepts
<1> QED
    BY <1>11, <1>12

\* No step leaves an anchor behind that does not head an initial part of the log.
LEMMA AnchorStep == TypeInv /\ ChainInv /\ AnchorInv /\ [Next]_vars => AnchorInv'
<1> SUFFICES ASSUME TypeInv, ChainInv, AnchorInv, [Next]_vars, damage' = 0
             PROVE  \A A \in Copies' : \E P \in SUBSET log' : HeadsPart(A, P)'
    BY DEF AnchorInv
<1> USE DEF TypeInv, TypeOK
<1>1. ASSUME damage' = damage, log' = log,
             \A A \in Copies' : \/ A \in Copies
                                \/ \E t \in Tops(log) : \E r : A = HeadOf(log, t, r)
      PROVE  \A A \in Copies' : \E P \in SUBSET log' : HeadsPart(A, P)'
    <2>1. Valid(log)
        BY <1>1 DEF ChainInv
    <2>2. \A A \in Copies' : \E P \in SUBSET log : HeadsPart(A, P)
        BY <1>1, <2>1, HeadOfLog DEF AnchorInv
    <2> QED
        BY <1>1, <2>2 DEF HeadsPart
<1>2. ASSUME NEW w \in Writers, Commit(w)
      PROVE  \A A \in Copies' : \E P \in SUBSET log' : HeadsPart(A, P)'
    <2>1. /\ Copies' = Copies /\ damage = 0
          /\ log' = log \cup draft[w]
        BY <1>2 DEF Commit, Copies
    <2>2. SUFFICES ASSUME NEW A \in Copies
                   PROVE  \E P \in SUBSET log' : HeadsPart(A, P)'
        BY <2>1
    <2>3. PICK P \in SUBSET log : HeadsPart(A, P)
        BY <2>1 DEF AnchorInv
    <2>4. \A e \in log' \ P : e.hash # None /\ \A f \in P : f.id < e.id
        BY <2>1, <2>3 DEF HeadsPart, ChainInv
    <2>5. HeadsPart(A, P)'
        BY <2>3, <2>4 DEF HeadsPart
    <2> QED
        BY <2>1, <2>5
<1>3. ASSUME NEW w \in Writers,
             TakeLock(w) \/ Rollback(w) \/ \E d \in Data : Insert(w, d)
      PROVE  damage' = damage /\ log' = log /\ Copies' = Copies
    BY <1>3 DEF TakeLock, Insert, Rollback, Copies
<1>4. ASSUME NEW k \in Keepers, ExportRead(k)
      PROVE  /\ damage' = damage /\ log' = log
             /\ \A A \in Copies' : \/ A \in Copies
                                   \/ \E t \in Tops(log) : \E r : A = HeadOf(log, t, r)
    BY <1>4 DEF ExportRead, Copies
<1>5. ASSUME NEW k \in Keepers, RefreshWrite(k)
      PROVE  /\ damage' = damage /\ log' = log
             /\ \A A \in Copies' : \/ A \in Copies
                                   \/ \E t \in Tops(log) : \E r : A = HeadOf(log, t, r)
    BY <1>5 DEF RefreshWrite, Copies
<1>6. ASSUME NEW k \in Keepers,
             ExportWrite(k) \/ RefreshRead(k) \/ RefreshLock(k) \/ RefreshEnd(k) \/ Crash(k)
      PROVE  damage' = damage /\ log' = log /\ Copies' \subseteq Copies
    BY <1>6 DEF ExportWrite, RefreshRead, RefreshLock, RefreshEnd, Crash, Copies
<1>7. ASSUME NEW e \in log, Lose(e) \/ \E d \in Data : Alter(e, d)
      PROVE  FALSE
    BY <1>7 DEF Lose, Alter
<1>8. CASE UNCHANGED vars
    <2>1. damage' = damage /\ log' = log /\ Copies' = Copies
        BY <1>8 DEF vars, Copies
    <2> QED
        BY <2>1, <1>1
<1>9. ASSUME damage' = damage, log' = log, Copies' \subseteq Copies
      PROVE  \A A \in Copies' : \E P \in SUBSET log' : HeadsPart(A, P)'
    BY <1>1, <1>9
<1>10. ASSUME NEW w \in Writers, Write(w)
       PROVE  \A A \in Copies' : \E P \in SUBSET log' : HeadsPart(A, P)'
    BY <1>2, <1>3, <1>9, <1>10 DEF Write
<1>11. ASSUME NEW k \in Keepers, Keep(k)
       PROVE  \A A \in Copies' : \E P \in SUBSET log' : HeadsPart(A, P)'
    BY <1>1, <1>4, <1>5, <1>6, <1>9, <1>11 DEF Keep, Refresh
<1> QED
    BY <1>7, <1>8, <1>10, <1>11 DEF Next

\* As long as no row is lost or altered, every anchor that names an event, on disk
\* or read earlier by a command, passes _compare_audit_anchor.
THEOREM AnchorSafety == Spec => []NoFalseAlarm
<1>1. Init => AnchorInv
    BY DEF Init, AnchorInv, Copies
<1>2. TypeInv /\ ChainInv /\ AnchorInv => NoFalseAlarm
    <2> SUFFICES ASSUME TypeInv, ChainInv, AnchorInv, damage = 0,
                        NEW A \in Copies, A.id # None
                 PROVE  Accepts(log, A)
        BY DEF NoFalseAlarm
    <2>1. A \in Anchors
        BY DEF TypeInv, TypeOK, Copies
    <2>2. PICK P \in SUBSET log : HeadsPart(A, P)
        BY DEF AnchorInv
    <2> QED
        BY <2>1, <2>2, PartAccepted DEF ChainInv
<1> QED
    BY TypeInit, TypeStep, ChainInit, ChainStep, AnchorStep, <1>1, <1>2, PTL DEF Spec


----------------------------------------------------------------------------
(* What an accepted anchor vouches for, with rows lost and altered.  An id  *)
(* is given to one row, an alteration leaves the row its hashes, and a lost *)
(* row does not come back: so the rows up to the anchored event are some of *)
(* those the anchor was computed over, and the hash of the anchored event   *)
(* leaves none of them out.                                                 *)

\* Anchor commands do not overlap.
OneCommand == \A j, k \in Keepers : pc[j] # "idle" /\ pc[k] # "idle" => j = k

OwnIds(S) == \A e, f \in S : e.id = f.id => e = f

\* What is known of a row whatever happens to its data.
SameRow(e, f) == e.id = f.id /\ e.prev = f.prev /\ e.hash = f.hash

RowsInv ==
    /\ OwnIds(log)
    /\ \A e \in log : e.id <= lastId
    /\ \A w \in Writers :
          /\ draft[w] # {} => lock = w
          /\ OwnIds(draft[w])
          /\ \A e \in draft[w] : e.id <= lastId /\ \A f \in log : f.id < e.id

Vouches(A) ==
    /\ A.rows \subseteq Rows /\ Hashed(A.rows) = A.rows
    /\ Valid(A.rows) /\ OwnIds(A.rows)
    /\ A.id = None => A.rows = {}
    /\ A.id # None =>
          /\ A.id <= lastId
          /\ \E e \in Latest(A.rows) : e.id = A.id /\ e.hash = A.hash
          /\ \A f \in Hashed(log) : f.id <= A.id => \E e \in A.rows : SameRow(e, f)
          /\ \A w \in Writers : \A f \in draft[w] : A.id < f.id

VouchInv ==
    /\ RowsInv
    /\ \A A \in Copies : A.valid => Vouches(A)
    /\ \A k \in Keepers : /\ pc[k] = "idle" => held[k] = None
                          /\ pc[k] \in {"read", "locked"} => held[k] = anchor

\* A non-empty set of naturals has a least element.
LEMMA LeastNatural ==
    ASSUME NEW S \in SUBSET Nat, S # {}
    PROVE  \E n \in S : \A m \in S : n <= m
<1>1. PICK n \in S : \A m \in S : ~(<<m, n>> \in OpToRel(<, Nat))
    BY ZenonT(30), NatLessThanWellFounded, WFMin
<1>2. \A m \in S : ~(m < n)
    BY ZenonT(30), <1>1 DEF OpToRel
<1> QED
    BY <1>2

\* Along a chain that verifies the hashes grow.
LEMMA HashesGrow ==
    ASSUME NEW S \in SUBSET Rows, Valid(S), OwnIds(S)
    PROVE  \A e, f \in Hashed(S) : f.id < e.id => Len(f.hash) < Len(e.hash)
<1> DEFINE Bad == {n \in Nat : \E e, f \in Hashed(S) :
                      e.id = n /\ f.id < n /\ ~(Len(f.hash) < Len(e.hash))}
<1>1. \A e \in Hashed(S) : e \in S /\ e.id \in Nat /\ e.hash \in Hashes /\ Len(e.hash) \in Nat
    BY DEF Hashed, Rows, Hashes
<1>2. SUFFICES ASSUME Bad # {} PROVE FALSE
    BY <1>1
<1>3. PICK n \in Bad : \A m \in Bad : n <= m
    BY ZenonT(30), <1>2, LeastNatural
<1>4. PICK e \in Hashed(S), f \in Hashed(S) :
         e.id = n /\ f.id < n /\ ~(Len(f.hash) < Len(e.hash))
    OBVIOUS
<1>5. f \in Hashed(Before(S, e))
    BY <1>1, <1>4 DEF Hashed, Before
<1>6. e.prev \in Tip(Before(S, e)) /\ e.hash = Hash(e.prev, e.data)
    BY <1>1 DEF Valid, Verified, Hashed
<1>7. PICK l \in Latest(Before(S, e)) : l.hash = e.prev
    BY <1>5, <1>6 DEF Tip
<1>8. l \in Hashed(S) /\ l.id < n /\ f.id <= l.id
    BY <1>4, <1>5, <1>7 DEF Latest, Hashed, Before
<1>9. Len(e.hash) = Len(l.hash) + 1
    <2>1. e.hash = Append(l.hash, e.data) /\ l.hash \in Seq(Data) /\ e.data \in Data
        BY <1>1, <1>6, <1>7, <1>8 DEF Hash, Hashes, Rows
    <2> QED
        BY <2>1
<1>10. CASE f.id = l.id
    <2>1. f = l
        BY <1>1, <1>8, <1>10 DEF OwnIds
    <2> QED
        BY <1>1, <1>4, <1>9, <2>1
<1>11. CASE f.id < l.id
    <2>1. ~(n <= l.id)
        BY <1>1, <1>3, <1>8
    <2>2. l.id \notin Bad
        BY <1>3, <2>1
    <2>3. Len(f.hash) < Len(l.hash)
        BY <1>1, <1>8, <1>11, <2>2
    <2> QED
        BY <1>1, <1>4, <1>8, <1>9, <2>3
<1> QED
    BY <1>1, <1>8, <1>10, <1>11

\* An accepted anchor vouches for its rows: a row missing before one that is there
\* would have left a hash that no shorter chain has.
LEMMA AcceptedHolds ==
    ASSUME TypeOK, RowsInv, NEW A \in Anchors, Vouches(A), Accepts(log, A)
    PROVE  A.rows \subseteq log
<1>1. CASE A.id = None
    BY <1>1 DEF Vouches
<1>2. CASE A.id # None
    <2>1. /\ A.rows \in SUBSET Rows /\ Hashed(A.rows) = A.rows /\ log \in SUBSET Rows
          /\ Valid(A.rows) /\ OwnIds(A.rows) /\ Valid(log) /\ OwnIds(log)
        BY DEF Vouches, Accepts, TypeOK, RowsInv
    <2>2. \A e \in A.rows : e.hash = Hash(e.prev, e.data) /\ e.prev \in Tip(Before(A.rows, e))
        BY <2>1 DEF Valid, Verified, Hashed
    <2>3. \A e \in Hashed(log) : /\ e \in log /\ e.hash = Hash(e.prev, e.data)
                                 /\ e.prev \in Tip(Before(log, e))
        BY <2>1 DEF Valid, Verified, Hashed
    <2>4. /\ \A e \in A.rows : e.id \in Nat /\ e.data \in Data /\ e.hash \in Hashes
                               /\ Tip(Before(A.rows, e)) \subseteq Hashes
          /\ \A e \in log : e.id \in Nat /\ e.data \in Data
          /\ A.id \in Nat
        <3>1. \A e \in A.rows : Before(A.rows, e) \in SUBSET Rows
            BY <2>1 DEF Before
        <3>2. \A e \in A.rows : Tip(Before(A.rows, e)) \subseteq Hashes
            BY <3>1, TipType
        <3>3. \A e \in A.rows : e.id \in Nat /\ e.data \in Data /\ e.hash \in Hashes
            BY <2>1 DEF Rows, Hashed
        <3>4. \A e \in log : e.id \in Nat /\ e.data \in Data
            BY <2>1 DEF Rows
        <3>5. A.id \in Nat
            BY <1>2 DEF Anchors
        <3> QED
            BY <3>2, <3>3, <3>4, <3>5
    <2>5. ASSUME NEW f \in Hashed(log), f.id <= A.id
          PROVE  f \in A.rows
        <3>1. PICK e \in A.rows : SameRow(e, f)
            BY <1>2, <2>5 DEF Vouches
        <3>2. e.prev \in Seq(Data) /\ Append(e.prev, e.data) = Append(e.prev, f.data)
            BY <2>2, <2>3, <2>4, <3>1 DEF SameRow, Hash, Hashes
        <3>3. e.data = f.data
            BY <2>3, <2>4, <3>2
        <3>4. e \in Rows /\ f \in Rows
            BY <2>1, <2>3
        <3>5. e = f
            BY <3>1, <3>3, <3>4 DEF SameRow, Rows
        <3> QED
            BY <3>5
    <2>6. PICK top \in Latest(A.rows) : top.id = A.id /\ top.hash = A.hash
        BY <1>2 DEF Vouches
    <2>7. top \in A.rows /\ top \in log /\ \A e \in A.rows : e.id <= A.id
        <3>1. top \in A.rows /\ \A e \in A.rows : e.id <= A.id
            BY <2>1, <2>6 DEF Latest
        <3>2. PICK f \in Hashed(log) : f.id = A.id
            BY <1>2 DEF Accepts, Anchored
        <3>3. f \in A.rows
            BY <2>4, <2>5, <3>2
        <3> QED
            BY <2>1, <2>3, <2>6, <3>1, <3>2, <3>3 DEF OwnIds
    <2>8. SUFFICES ASSUME NEW lost \in A.rows, lost \notin log PROVE FALSE
        OBVIOUS
    <2> DEFINE After == {g \in A.rows \cap log : \E e \in A.rows \ log : e.id < g.id}
    <2>9. lost.id < top.id
        BY <2>1, <2>4, <2>6, <2>7, <2>8 DEF OwnIds
    <2>10. PICK g \in After : \A h \in After : g.id <= h.id
        <3> DEFINE Ids == {h.id : h \in After}
        <3>1. Ids \in SUBSET Nat /\ Ids # {}
            BY <2>4, <2>7, <2>8, <2>9
        <3>2. PICK n \in Ids : \A m \in Ids : n <= m
            BY ZenonT(30), <3>1, LeastNatural
        <3> QED
            BY <3>2
    <2>11. PICK e \in A.rows \ log : e.id < g.id
        OBVIOUS
    <2>12. g \in A.rows /\ g \in log /\ g \in Hashed(log) /\ g.id <= A.id
        BY <2>1, <2>7, <2>10 DEF Hashed
    <2>13. e \in Hashed(Before(A.rows, g))
        BY <2>1, <2>11 DEF Hashed, Before
    <2>14. PICK p \in Latest(Before(A.rows, g)) : p.hash = g.prev
        BY ZenonT(30), <2>2, <2>12, <2>13 DEF Tip
    <2>15. p \in A.rows /\ p.id < g.id /\ e.id <= p.id
        BY <2>13, <2>14 DEF Latest, Before, Hashed
    <2>16. p \notin log
        <3>1. SUFFICES ASSUME p \in log PROVE FALSE
            OBVIOUS
        <3>2. e.id < p.id
            BY <2>1, <2>4, <2>11, <2>15, <3>1 DEF OwnIds
        <3>3. p \in After
            BY <2>11, <2>15, <3>1, <3>2
        <3> QED
            BY <2>4, <2>10, <2>12, <2>15, <3>3
    <2>17. p.hash # ChainStart
        <3>1. p.hash = Append(p.prev, p.data) /\ p.prev \in Seq(Data) /\ p.data \in Data
            BY <2>2, <2>4, <2>15 DEF Hash, Hashes
        <3>2. Append(p.prev, p.data) # << >>
            BY <3>1
        <3> QED
            BY <3>1, <3>2 DEF ChainStart
    <2>18. PICK f \in Latest(Before(log, g)) : f.hash = g.prev
        BY ZenonT(30), <2>3, <2>12, <2>14, <2>17 DEF Tip
    <2>19. f \in Hashed(log) /\ f.id < g.id
        BY <2>18 DEF Latest, Before, Hashed
    <2>20. f \in A.rows
        BY <2>3, <2>4, <2>5, <2>12, <2>19
    <2>21. f.id < p.id
        <3>1. f \in Hashed(Before(A.rows, g))
            BY <2>1, <2>19, <2>20 DEF Hashed, Before
        <3>2. f.id <= p.id
            BY <2>14, <3>1 DEF Latest
        <3> QED
            BY <2>1, <2>3, <2>4, <2>15, <2>16, <2>19, <2>20, <3>2 DEF OwnIds
    <2>22. Len(f.hash) < Len(p.hash)
        BY <2>1, <2>15, <2>20, <2>21, HashesGrow
    <2>23. Len(f.hash) \in Nat /\ f.hash = p.hash
        BY <2>4, <2>14, <2>18, <2>20 DEF Hashes
    <2> QED
        BY <2>22, <2>23
<1> QED
    BY <1>1, <1>2

\* What an anchor command reads of a valid log, it vouches for.
LEMMA HeadVouches ==
    ASSUME TypeOK, RowsInv, Valid(log), NEW t \in Tops(log)
    PROVE  Vouches(HeadOf(log, t, Hashed(log)))
<1> DEFINE A == HeadOf(log, t, Hashed(log))
           H == Hashed(log)
<1>1. A.id = t.id /\ A.hash = t.hash /\ A.rows = H
    BY DEF HeadOf
<1>2. H \subseteq Rows /\ Hashed(H) = H /\ OwnIds(H) /\ H \subseteq log
    BY DEF Hashed, TypeOK, RowsInv, OwnIds
<1>3. Valid(H)
    <2>1. \A e \in H : Hashed(Before(H, e)) = Hashed(Before(log, e)) /\ e.hash # None
        BY DEF Hashed, Before
    <2>2. \A e \in H : Latest(Before(H, e)) = Latest(Before(log, e))
        BY <2>1 DEF Latest
    <2>3. \A e \in H : Tip(Before(H, e)) = Tip(Before(log, e))
        BY ZenonT(30), <2>1, <2>2 DEF Tip
    <2> HIDE DEF H
    <2> QED
        BY <1>2, <2>1, <2>3 DEF Valid, Verified
<1>4. CASE H = {}
    <2>1. A.id = None
        BY <1>1, <1>4 DEF Tops
    <2> QED
        BY <1>1, <1>2, <1>3, <1>4, <2>1 DEF Vouches
<1>5. CASE H # {}
    <2>1. PICK e \in Latest(log) : t.id = e.id /\ t.hash = e.hash
        BY <1>5 DEF Tops
    <2>2. e \in log /\ e.id <= lastId /\ e.id \in Nat
        BY <2>1 DEF Latest, Hashed, RowsInv, TypeOK, Rows
    <2>3. e \in Latest(H)
        BY <1>2, <2>1 DEF Latest
    <2>4. \A w \in Writers : \A f \in draft[w] : e.id < f.id
        BY <2>2 DEF RowsInv
    <2>5. A.id # None
        BY <1>1, <2>1, <2>2, NoneIsNoValue
    <2>6. \A f \in Hashed(log) : \E x \in A.rows : SameRow(x, f)
        BY <1>1 DEF SameRow
    <2>7. A.id <= lastId /\ \E x \in Latest(A.rows) : x.id = A.id /\ x.hash = A.hash
        BY <1>1, <2>1, <2>2, <2>3
    <2>8. \A w \in Writers : \A f \in draft[w] : A.id < f.id
        BY <1>1, <2>1, <2>4
    <2>9. Vouches(A)
        <3> HIDE DEF A
        <3> QED
            BY <1>1, <1>2, <1>3, <2>5, <2>6, <2>7, <2>8 DEF Vouches
    <2> QED
        BY <2>9
<1> QED
    BY <1>4, <1>5

\* An anchor goes on vouching when rows are added behind it, lost or altered.
LEMMA VouchesOn ==
    ASSUME TypeOK, NEW A \in Anchors, Vouches(A), lastId' \in Nat, lastId <= lastId',
           \A f \in Hashed(log') : \/ \E e \in Hashed(log) : SameRow(e, f)
                                   \/ \E w \in Writers : f \in draft[w],
           \A w \in Writers : \A f \in draft'[w] : f \in draft[w] \/ f.id = lastId + 1,
           \A w \in Writers : draft[w] \subseteq Rows
    PROVE  Vouches(A)'
<1>1. SUFFICES ASSUME A.id # None
               PROVE  /\ A.id <= lastId'
                      /\ \A f \in Hashed(log') : f.id <= A.id => \E e \in A.rows : SameRow(e, f)
                      /\ \A w \in Writers : \A f \in draft'[w] : A.id < f.id
    BY ZenonT(30) DEF Vouches, Valid, Verified, OwnIds, Hashed, Latest, Tip, Before, SameRow
<1>2. A.id \in Nat /\ lastId \in Nat
    BY <1>1 DEF Anchors, TypeOK
<1>3. /\ A.id <= lastId
      /\ \A f \in Hashed(log) : f.id <= A.id => \E e \in A.rows : SameRow(e, f)
      /\ \A w \in Writers : \A f \in draft[w] : A.id < f.id /\ f.id \in Nat
    BY <1>1 DEF Vouches, Rows
<1>4. A.id <= lastId'
    BY <1>2, <1>3
<1>5. ASSUME NEW f \in Hashed(log'), f.id <= A.id
      PROVE  \E e \in A.rows : SameRow(e, f)
    <2>1. CASE \E w \in Writers : f \in draft[w]
        BY <1>2, <1>3, <1>5, <2>1
    <2>2. CASE \E e \in Hashed(log) : SameRow(e, f)
        BY <1>3, <1>5, <2>2 DEF SameRow
    <2> QED
        BY <2>1, <2>2
<1>6. \A w \in Writers : \A f \in draft'[w] : A.id < f.id
    BY <1>2, <1>3
<1> QED
    BY <1>4, <1>5, <1>6

\* Ids stay unique, and drafts newer than the log.
LEMMA RowsStep == TypeInv /\ ChainInv /\ RowsInv /\ [Next]_vars => RowsInv'
<1> SUFFICES ASSUME TypeInv, ChainInv, RowsInv, [Next]_vars PROVE RowsInv'
    OBVIOUS
<1>1. /\ log \subseteq Rows /\ lastId \in Nat
      /\ draft \in [Writers -> SUBSET Rows] /\ \A e \in Rows : e.id \in Nat
    BY DEF TypeInv, TypeOK, Rows
<1>2. ASSUME NEW w \in Writers, TakeLock(w) \/ Rollback(w)
      PROVE  RowsInv'
    BY <1>1, <1>2, ActorSets DEF TakeLock, Rollback, RowsInv, OwnIds
<1>3. ASSUME NEW w \in Writers, NEW d \in Data, Insert(w, d)
      PROVE  RowsInv'
    <2>1. PICK p : draft' = [draft EXCEPT ![w] = @ \cup {Flushed(d, p)}]
        BY ZenonT(30), <1>3 DEF Insert, Flushed
    <2>2. Flushed(d, p).id = lastId + 1
        BY DEF Flushed
    <2>3. lock = w /\ lastId' = lastId + 1 /\ UNCHANGED <<log, lock>>
        BY <1>3 DEF Insert
    <2> HIDE DEF Flushed
    <2>4. /\ draft'[w] = draft[w] \cup {Flushed(d, p)}
          /\ \A v \in Writers \ {w} : draft'[v] = draft[v]
        BY <1>1, <2>1
    <2>5. /\ \A e \in log : e.id \in Nat /\ e.id <= lastId
          /\ \A v \in Writers : \A e \in draft[v] : e.id \in Nat /\ e.id <= lastId
        BY <1>1 DEF RowsInv
    <2>6. OwnIds(draft'[w])
        BY <1>1, <2>2, <2>4, <2>5 DEF RowsInv, OwnIds
    <2>7. \A e \in draft'[w] : e.id <= lastId' /\ \A f \in log : f.id < e.id
        BY <1>1, <2>2, <2>3, <2>4, <2>5 DEF RowsInv
    <2>8. \A e \in log : e.id <= lastId'
        BY <1>1, <2>3, <2>5
    <2>9. \A v \in Writers \ {w} : \A e \in draft[v] : e.id <= lastId'
        BY <1>1, <2>3, <2>5
    <2> QED
        BY <2>3, <2>4, <2>6, <2>7, <2>8, <2>9 DEF RowsInv, OwnIds
<1>4. ASSUME NEW w \in Writers, Commit(w)
      PROVE  RowsInv'
    <2>1. /\ log' = log \cup draft[w] /\ lastId' = lastId
          /\ \A v \in Writers : v # w => draft'[v] = draft[v]
          /\ draft'[w] = {} /\ lock' = (IF lock = w THEN Free ELSE lock)
        BY <1>1, <1>4 DEF Commit
    <2>2. lock = w
        BY <1>4 DEF Commit, RowsInv
    <2>3. \A v \in Writers : draft'[v] = {}
        BY <2>1, <2>2 DEF RowsInv
    <2>4. OwnIds(log')
        BY <1>1, <2>1 DEF RowsInv, OwnIds
    <2> QED
        BY <2>1, <2>3, <2>4 DEF RowsInv, OwnIds
<1>5. ASSUME NEW k \in Keepers, Keep(k)
      PROVE  RowsInv'
    <2>1. UNCHANGED <<log, draft, lastId>> /\ (lock' = lock \/ lock \notin Writers)
        BY <1>5, ActorSets DEF Keep, ExportRead, ExportWrite, Refresh, RefreshRead, RefreshLock,
           RefreshWrite, RefreshEnd, Crash, ChainInv
    <2> QED
        BY ZenonT(30), <2>1 DEF RowsInv, OwnIds
<1>6. ASSUME NEW e \in log, Lose(e) \/ \E d \in Data : Alter(e, d)
      PROVE  RowsInv'
    <2>1. UNCHANGED <<draft, lastId, lock>> /\ \A w \in Writers : draft[w] = {}
        BY <1>6 DEF Lose, Alter, Quiet
    <2>2. OwnIds(log') /\ \A f \in log' : f.id <= lastId
        BY <1>1, <1>6 DEF Lose, Alter, RowsInv, OwnIds, Rows
    <2> QED
        BY <2>1, <2>2 DEF RowsInv, OwnIds
<1>7. CASE UNCHANGED vars
    BY <1>7 DEF vars, RowsInv, OwnIds
<1> QED
    BY <1>2, <1>3, <1>4, <1>5, <1>6, <1>7 DEF Next, Write

\* With one command at a time, no step leaves an anchor that is accepted without the
\* rows it vouches for.
LEMMA VouchStep ==
    TypeInv /\ ChainInv /\ VouchInv /\ OneCommand /\ [Next]_vars => VouchInv'
<1> SUFFICES ASSUME TypeInv, ChainInv, VouchInv, OneCommand, [Next]_vars
             PROVE  VouchInv'
    OBVIOUS
<1>1. /\ TypeOK /\ TypeInv' /\ RowsInv /\ RowsInv'
      /\ lastId \in Nat /\ lastId' \in Nat /\ log \subseteq Rows
      /\ draft \in [Writers -> SUBSET Rows] /\ pc = [k \in Keepers |-> pc[k]]
      /\ held \in [Keepers -> Anchors \cup {None}]
      /\ Copies \subseteq Anchors
    <2>1. TypeInv' /\ RowsInv'
        BY TypeStep, RowsStep DEF VouchInv
    <2>2. /\ TypeOK /\ lastId \in Nat /\ log \subseteq Rows
          /\ draft \in [Writers -> SUBSET Rows] /\ pc = [k \in Keepers |-> pc[k]]
          /\ held \in [Keepers -> Anchors \cup {None}]
          /\ anchor \in Anchors \cup {None}
        BY DEF TypeInv, TypeOK
    <2>3. Copies \subseteq Anchors
        BY <2>2 DEF Copies
    <2>4. lastId' \in Nat
        BY <2>1 DEF TypeInv, TypeOK
    <2> QED
        BY <2>1, <2>2, <2>3, <2>4 DEF VouchInv
<1>2. ASSUME NEW A \in Copies, A.valid,
             lastId <= lastId',
             \A f \in Hashed(log') : \/ \E e \in Hashed(log) : SameRow(e, f)
                                     \/ \E w \in Writers : f \in draft[w],
             \A w \in Writers : \A f \in draft'[w] : f \in draft[w] \/ f.id = lastId + 1
      PROVE  Vouches(A)'
    BY <1>1, <1>2, VouchesOn DEF VouchInv
<1>3. ASSUME NEW w \in Writers, Write(w)
      PROVE  VouchInv'
    <2>1. Copies' = Copies /\ UNCHANGED <<pc, held, anchor>>
        BY <1>3 DEF Write, TakeLock, Insert, Commit, Rollback, Copies
    <2>2. /\ lastId <= lastId'
          /\ log' \subseteq log \cup draft[w]
        BY <1>1, <1>3 DEF Write, TakeLock, Insert, Commit, Rollback
    <2>3. \A v \in Writers : \A f \in draft'[v] : f \in draft[v] \/ f.id = lastId + 1
        BY <1>1, <1>3 DEF Write, TakeLock, Insert, Commit, Rollback
    <2>4. \A f \in Hashed(log') : \/ \E e \in Hashed(log) : SameRow(e, f)
                                  \/ \E v \in Writers : f \in draft[v]
        BY <2>2 DEF Hashed, SameRow
    <2>5. \A A \in Copies' : A.valid => Vouches(A)'
        BY <1>2, <2>1, <2>2, <2>3, <2>4
    <2> QED
        BY <1>1, <2>1, <2>5 DEF VouchInv
<1>4. ASSUME NEW e \in log, Lose(e) \/ \E d \in Data : Alter(e, d)
      PROVE  VouchInv'
    <2>1. Copies' = Copies /\ UNCHANGED <<pc, held, anchor, draft, lastId>>
        BY <1>4 DEF Lose, Alter, Copies
    <2>2. \A f \in Hashed(log') : \E x \in Hashed(log) : SameRow(x, f)
        <3>1. CASE Lose(e)
            BY <3>1 DEF Lose, Hashed, SameRow
        <3>2. ASSUME NEW d \in Data, Alter(e, d)
              PROVE  \A f \in Hashed(log') : \E x \in Hashed(log) : SameRow(x, f)
            <4>1. e \in Rows /\ SameRow(e, [e EXCEPT !.data = d])
                BY <1>1 DEF Rows, SameRow
            <4>2. log' = (log \ {e}) \cup {[e EXCEPT !.data = d]}
                BY <3>2 DEF Alter
            <4> QED
                BY ZenonT(30), <4>1, <4>2 DEF Hashed, SameRow
        <3> QED
            BY <1>4, <3>1, <3>2
    <2>3. \A A \in Copies' : A.valid => Vouches(A)'
        BY <1>1, <1>2, <2>1, <2>2
    <2> QED
        BY <1>1, <2>1, <2>3 DEF VouchInv
<1>5. ASSUME UNCHANGED <<log, draft, lastId>>,
             \A A \in Copies' : A.valid => A \in Copies \/ Vouches(A)
      PROVE  \A A \in Copies' : A.valid => Vouches(A)'
    <2>1. \A A : Vouches(A) => Vouches(A)'
        BY ZenonT(30), <1>5 DEF Vouches, Valid, Verified, OwnIds, Hashed, Latest, Tip, Before,
           SameRow
    <2> QED
        BY <1>5, <2>1 DEF VouchInv
<1>6. ASSUME NEW k \in Keepers, Keep(k)
      PROVE  /\ UNCHANGED <<log, draft, lastId>>
             /\ \A j \in Keepers \ {k} : held'[j] = held[j] /\ pc'[j] = pc[j]
    BY <1>1, <1>6 DEF Keep, ExportRead, ExportWrite, Refresh, RefreshRead, RefreshLock,
       RefreshWrite, RefreshEnd, Crash, GoTo
<1>7. ASSUME NEW k \in Keepers, ExportRead(k)
      PROVE  VouchInv'
    <2>1. PICK t \in Tops(log) : held' = [held EXCEPT ![k] = HeadOf(log, t, Hashed(log))]
        BY ZenonT(30), <1>7 DEF ExportRead
    <2>2. HeadOf(log, t, Hashed(log)).valid => Vouches(HeadOf(log, t, Hashed(log)))
        BY <1>1, HeadVouches DEF HeadOf
    <2>3. \A A \in Copies' : A \in Copies \/ A = HeadOf(log, t, Hashed(log))
        BY ZenonT(30), <1>1, <1>7, <2>1 DEF ExportRead, Copies
    <2>4. \A A \in Copies' : A.valid => Vouches(A)'
        BY ZenonT(30), <1>5, <1>6, <1>7, <2>2, <2>3 DEF Keep
    <2> QED
        BY <1>1, <1>7, <2>4 DEF VouchInv, ExportRead, GoTo
<1>8. ASSUME NEW k \in Keepers, RefreshWrite(k)
      PROVE  VouchInv'
    <2>1. PICK t \in Tops(log) : anchor' = HeadOf(log, t, anchor.rows \cup Hashed(log))
        BY <1>8 DEF RefreshWrite
    <2>2. held[k] = anchor /\ anchor # None /\ Accepts(log, anchor)
        BY <1>8 DEF RefreshWrite, VouchInv, TypeInv
    <2>3. anchor \in Copies /\ anchor.valid /\ Valid(log)
        BY <2>2 DEF Copies, Accepts, WellFormed
    <2>4. anchor.rows \subseteq log /\ Hashed(anchor.rows) = anchor.rows
        BY <1>1, <2>2, <2>3, AcceptedHolds DEF VouchInv, Vouches
    <2>5. anchor.rows \cup Hashed(log) = Hashed(log)
        BY <2>4 DEF Hashed
    <2>6. Vouches(anchor')
        BY ZenonT(30), <1>1, <2>1, <2>3, <2>5, HeadVouches
    <2>7. \A A \in Copies' : A \in Copies \/ A = anchor'
        BY ZenonT(30), <1>8 DEF RefreshWrite, Copies
    <2>8. \A A \in Copies' : A.valid => Vouches(A)'
        BY ZenonT(30), <1>5, <1>6, <1>8, <2>6, <2>7 DEF Keep, Refresh
    <2>9. pc[k] = "locked" /\ pc'[k] = "written" /\ held' = held
        BY <1>1, <1>8 DEF RefreshWrite, GoTo
    <2>10. \A j \in Keepers \ {k} : pc[j] = "idle" /\ pc'[j] = "idle"
        BY <1>6, <1>8, <2>9 DEF OneCommand, Keep, Refresh
    <2> QED
        BY <1>1, <2>8, <2>9, <2>10 DEF VouchInv
<1>9. ASSUME NEW k \in Keepers, ExportWrite(k)
      PROVE  VouchInv'
    <2>1. \A A \in Copies' : A \in Copies
        BY ZenonT(30), <1>1, <1>9 DEF ExportWrite, Copies
    <2>2. \A A \in Copies' : A.valid => Vouches(A)'
        BY <1>5, <1>6, <1>9, <2>1 DEF Keep
    <2>3. pc[k] = "export" /\ pc'[k] = "idle" /\ held'[k] = None
        BY <1>1, <1>9 DEF ExportWrite, GoTo
    <2>4. \A j \in Keepers \ {k} : pc[j] = "idle" /\ pc'[j] = "idle" /\ held'[j] = held[j]
        BY <1>6, <1>9, <2>3 DEF OneCommand, Keep
    <2> QED
        BY <1>1, <2>2, <2>3, <2>4 DEF VouchInv
<1>10. ASSUME NEW k \in Keepers,
              RefreshRead(k) \/ RefreshLock(k) \/ RefreshEnd(k) \/ Crash(k)
       PROVE  VouchInv'
    <2>1. \A A \in Copies' : A \in Copies
        BY ZenonT(30), <1>1, <1>10 DEF RefreshRead, RefreshLock, RefreshEnd, Crash, Copies
    <2>2. \A A \in Copies' : A.valid => Vouches(A)'
        BY <1>5, <1>6, <1>10, <2>1 DEF Keep, Refresh
    <2>3. /\ pc'[k] = "idle" => held'[k] = None
          /\ pc'[k] \in {"read", "locked"} => held'[k] = anchor
          /\ anchor' = anchor
        BY <1>1, <1>10 DEF RefreshRead, RefreshLock, RefreshEnd, Crash, GoTo, VouchInv
    <2> QED
        BY <1>1, <1>6, <1>10, <2>2, <2>3 DEF VouchInv, Keep, Refresh
<1>11. CASE UNCHANGED vars
    <2>1. Copies' = Copies
        BY <1>11 DEF vars, Copies
    <2>2. \A A \in Copies' : A.valid => Vouches(A)'
        BY <1>5, <1>11, <2>1 DEF vars
    <2> QED
        BY <1>1, <1>11, <2>2 DEF vars, VouchInv
<1> QED
    BY <1>3, <1>4, <1>7, <1>8, <1>9, <1>10, <1>11 DEF Next, Keep, Refresh

\* Whatever rows are lost or altered, and whatever the bounds: if anchor commands do
\* not overlap (refresh_audit_log_anchor reads the file before it takes the lock), an
\* anchor that verify_audit_hash_chain accepts has all the hashed rows in the table,
\* unaltered, that it or an anchor it was refreshed from was computed over.
THEOREM AnchorVouches == Spec /\ []OneCommand => []AcceptedVouches
<1>1. Init => VouchInv
    <2> SUFFICES ASSUME Init PROVE VouchInv
        OBVIOUS
    <2>1. PICK d \in Data : log = {LegacyRow(i, d) : i \in 1 .. Legacy}
        BY DEF Init
    <2>2. OwnIds(log) /\ \A e \in log : e.id <= lastId
        BY <2>1, Numbers DEF Init, LegacyRow, OwnIds
    <2>3. RowsInv
        BY <2>2 DEF Init, RowsInv, OwnIds
    <2> QED
        BY <2>3 DEF Init, VouchInv, Copies
<1>2. TypeInv /\ VouchInv => AcceptedVouches
    <2> SUFFICES ASSUME TypeInv, VouchInv, anchor # None, Accepts(log, anchor)
                 PROVE  anchor.rows \subseteq log
        BY DEF AcceptedVouches
    <2>1. TypeOK /\ anchor \in Anchors /\ anchor \in Copies /\ anchor.valid /\ RowsInv
        BY DEF TypeInv, TypeOK, Copies, Accepts, WellFormed, VouchInv
    <2> QED
        BY <2>1, AcceptedHolds DEF VouchInv
<1> QED
    BY TypeInit, TypeStep, ChainInit, ChainStep, VouchStep, <1>1, <1>2, PTL DEF Spec
=============================================================================
