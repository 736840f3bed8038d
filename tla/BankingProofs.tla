---------------------------- MODULE BankingProofs ---------------------------
(* Proofs about what a signed-in customer does, for any number of handlers and *)
(* any values of the constants: payees, idempotency records, contact details and *)
(* PayUp.                                                                  *)
EXTENDS Payees, QuickPay, Reservations, FiniteSetTheorems, TLAPS

-----------------------------------------------------------------------------
(* Contact details and PayUp.                                              *)

DraftRow == [status : {"pending"}, who : Recipients, looked : Nat, until : Nat, consumed : BOOLEAN]

\* A session copy: the code of its pending change was sent to the address of that change,
\* and its token is that of a pending payment.
CopyOK(v) ==
  /\ v \in Visit
  /\ v.change.code # None => v.change.email \in Emails /\ mailed[v.change.code] = v.change.email
  /\ v.token # None => draft[v.token] # NoRow

\* Instants and limits that the first state needs.
LEMMA FirstTimes ==
  /\ 0 \in 0..MaxTick /\ 0 \in 0..(MaxTick + ChallengeTtl) /\ Never \in 0..Never
  /\ 0 <= AttemptLimit["sender"] /\ 0 <= AttemptLimit["recipient"] /\ 0 \in Nat
  BY QuickPayAssumption DEF Never

LeftOf(w) == {<<"sender", w>>, <<w>>, << >>}

\* What a handler holds, by what it is about to do.
PayJobOK(j) ==
  /\ j.op \in {"idle", "answer", "challenge", "profile", "limit", "lock", "pay"}
  /\ j.op = "idle" => j = Idle
  /\ j.op # "idle" => CopyOK(j.copy)
  /\ j.op \in {"challenge", "profile"} =>
       j.email \in Emails /\ j.phone \in Phones /\ j.newEmail \in BOOLEAN /\ j.newPhone \in BOOLEAN
  /\ j.op = "profile" /\ j.newEmail => j.email \in Readable
  /\ j.op = "limit" => j.phase \in {"lookup", "confirm"}
  /\ j.op = "limit" /\ j.phase = "lookup" =>
       /\ j = [op |-> "limit", phase |-> "lookup", left |-> j.left, who |-> j.who, copy |-> j.copy]
       /\ j.who \in Recipients /\ j.left \in LeftOf(j.who)
  /\ j.op = "limit" /\ j.phase = "confirm" =>
       /\ j = [op |-> "limit", phase |-> "confirm", left |-> j.left, token |-> j.token, copy |-> j.copy]
       /\ j.token \in PayTokens /\ draft[j.token] # NoRow /\ j.left \in LeftOf(draft[j.token].who)
  /\ j.op \in {"lock", "pay"} => j.token \in PayTokens /\ draft[j.token] # NoRow
  /\ j.op = "pay" => j.at \in Nat /\ j.at <= draft[j.token].until

PayTypes ==
  /\ QuickPayTypeOK /\ tick \in 0..MaxTick /\ available \subseteq Recipients
  /\ draft \in [PayTokens -> DraftRow \cup {NoRow}]
  /\ job = [h \in Handlers |-> job[h]]

HandlersOK == \A h \in Handlers : PayJobOK(job[h])

\* A step sends codes that were not sent, and keeps what a pending payment says.
Grows ==
  /\ \A n \in Codes : mailed[n] # None => mailed'[n] = mailed[n]
  /\ \A t \in PayTokens : draft[t] # NoRow =>
       /\ draft'[t] # NoRow
       /\ draft'[t].who = draft[t].who /\ draft'[t].until = draft[t].until /\ draft'[t].looked = draft[t].looked

LEMMA CopyKept ==
  ASSUME Grows, NEW v, CopyOK(v)
  PROVE  CopyOK(v)'
  <1>1. v.change.code \in Codes \cup {None} /\ v.token \in PayTokens \cup {None}
    BY DEF CopyOK, Visit
  <1>2. v \in Visit
    BY DEF CopyOK
  <1> QED BY <1>1, <1>2, QuickPayAssumption DEF CopyOK, Grows

LEMMA PayJobKept ==
  ASSUME Grows, NEW j, PayJobOK(j)
  PROVE  PayJobOK(j)'
  <1>1. j.op # "idle" => CopyOK(j.copy)'
    BY CopyKept DEF PayJobOK
  <1> QED BY <1>1 DEF PayJobOK, Grows

LEMMA PayTypesStep ==
  ASSUME PayTypes, HandlersOK, CopyOK(visit), [QuickPayNext]_quickVars
  PROVE  PayTypes' /\ Grows
  <1> USE QuickPayAssumption DEF PayTypes, QuickPayTypeOK, Grows, accountVars, payVars
  <1>1. ASSUME NEW h \in Handlers, NEW e \in Emails, NEW p \in Phones, NEW n \in {None} \cup {m \in Codes : mailed[m] \in Readable},
               UpdateProfile(h, e, p, n)
        PROVE  PayTypes' /\ Grows
    BY <1>1 DEF UpdateProfile, Begin
  <1>2. ASSUME NEW h \in Handlers, NEW n \in Codes, CreateChallenge(h, n)
        PROVE  PayTypes' /\ Grows
    <2>1. job[h].email \in Emails /\ mailed[n] = None
      BY <1>2 DEF CreateChallenge, HandlersOK, PayJobOK
    <2>2. mailed' = [mailed EXCEPT ![n] = job[h].email] /\ UNCHANGED <<contact, visit, event, tick, available, draft>>
      BY <1>2 DEF CreateChallenge
    <2>3. job' = [g \in Handlers |-> job'[g]]
      BY <1>2 DEF CreateChallenge, Continue
    <2> QED BY <2>1, <2>2, <2>3
  <1>3. ASSUME NEW h \in Handlers, CommitProfileUpdate(h)
        PROVE  PayTypes' /\ Grows
    <2>1. PayJobOK(job[h]) /\ job[h].op = "profile"
      BY <1>3 DEF CommitProfileUpdate, HandlersOK
    <2>2. job[h].email \in Emails /\ job[h].phone \in Phones
      BY <2>1 DEF PayJobOK
    <2>3. UNCHANGED <<mailed, visit, tick, available, draft>>
      BY <1>3 DEF CommitProfileUpdate
    <2>4. job' = [g \in Handlers |-> job'[g]]
      BY <1>3 DEF CommitProfileUpdate, Continue
    <2>5. \/ UNCHANGED <<contact, event>>
          \/ /\ contact' = [email |-> IF job[h].newEmail THEN job[h].email ELSE contact.email,
                            phone |-> IF job[h].newPhone THEN job[h].phone ELSE contact.phone]
             /\ event' = [event EXCEPT !["profile_update"] = tick]
      BY <1>3, Zenon DEF CommitProfileUpdate
    <2>6. tick \in 0..Never
      BY DEF Never
    <2>7. contact' \in [email : Emails, phone : Phones]
      BY <2>2, <2>5
    <2>8. event' \in [EventKinds -> 0..Never]
      BY <2>5, <2>6
    <2> QED BY <2>3, <2>4, <2>7, <2>8
  <1>4. ASSUME NEW h \in Handlers, NEW r \in Recipients, PayupLookup(h, r)
        PROVE  PayTypes' /\ Grows
    BY <1>4 DEF PayupLookup, Begin
  <1>5. ASSUME NEW h \in Handlers, NEW t \in PayTokens, PayupAmount(h, t)
        PROVE  PayTypes' /\ Grows
    <2>1. UNCHANGED <<contact, mailed, visit, event, tick, available>> /\ draft[t] = NoRow
      BY <1>5 DEF PayupAmount
    <2>2. job' = [g \in Handlers |-> job'[g]]
      BY <1>5 DEF PayupAmount, Begin
    <2>3. visit.to.at \in Nat /\ tick \in Nat
      BY DEF Visit
    <2>4. draft' \in [PayTokens -> DraftRow \cup {NoRow}] /\ \A s \in PayTokens \ {t} : draft'[s] = draft[s]
      <3>1. CASE PendingRecipient(visit.to)
        <4> DEFINE d == [status |-> "pending", who |-> visit.to.who, looked |-> visit.to.at,
                         until |-> tick + ConfirmTtl, consumed |-> FALSE]
        <4>1. draft' = [draft EXCEPT ![t] = d]
          BY <1>5, <3>1, Zenon DEF PayupAmount
        <4>2. visit.to.who \in Recipients
          BY <3>1 DEF PendingRecipient
        <4>3. d \in DraftRow
          BY <2>3, <4>2 DEF DraftRow
        <4> HIDE DEF d
        <4> QED BY <4>1, <4>3
      <3>2. CASE ~PendingRecipient(visit.to)
        BY <1>5, <3>2, Zenon DEF PayupAmount
      <3> QED BY <3>1, <3>2
    <2> QED BY <2>1, <2>2, <2>4
  <1>6. ASSUME NEW h \in Handlers, ConsumeAttempt(h)
        PROVE  PayTypes' /\ Grows
    BY <1>6 DEF ConsumeAttempt, Continue
  <1>7. ASSUME NEW h \in Handlers, ResolveRecipient(h)
        PROVE  PayTypes' /\ Grows
    BY Zenon, <1>7 DEF ResolveRecipient, Continue
  <1>8. ASSUME NEW h \in Handlers, PayupConfirmPage(h)
        PROVE  PayTypes' /\ Grows
    BY <1>8 DEF PayupConfirmPage, Begin
  <1>9. ASSUME NEW h \in Handlers, PayupConfirm(h)
        PROVE  PayTypes' /\ Grows
    BY <1>9 DEF PayupConfirm, Begin
  <1>10. ASSUME NEW h \in Handlers, PayupStepUp(h)
         PROVE  PayTypes' /\ Grows
    BY <1>10 DEF PayupStepUp, Continue
  <1>11. ASSUME NEW h \in Handlers, LockDraft(h)
         PROVE  PayTypes' /\ Grows
    BY <1>11 DEF LockDraft, Continue
  <1>12. ASSUME NEW h \in Handlers, ExecutePayup(h)
         PROVE  PayTypes' /\ Grows
    <2> DEFINE t == job[h].token
    <2>1. t \in PayTokens /\ draft[t] # NoRow
      BY <1>12 DEF ExecutePayup, HandlersOK, PayJobOK
    <2>2. draft' = [draft EXCEPT ![t].consumed = TRUE] /\ UNCHANGED <<contact, mailed, visit, event, tick, available>>
      BY <1>12 DEF ExecutePayup
    <2>3. job' = [g \in Handlers |-> job'[g]]
      BY <1>12 DEF ExecutePayup, Continue
    <2>4. draft[t] \in DraftRow
      BY <2>1
    <2> HIDE DEF t
    <2>5. /\ draft'[t] \in DraftRow
          /\ draft'[t].who = draft[t].who /\ draft'[t].until = draft[t].until /\ draft'[t].looked = draft[t].looked
      BY Zenon, <2>1, <2>2, <2>4 DEF DraftRow
    <2>6. draft' \in [PayTokens -> DraftRow \cup {NoRow}] /\ \A s \in PayTokens \ {t} : draft'[s] = draft[s]
      BY <2>1, <2>2, <2>5
    <2>7. draft'[t] # NoRow
      BY <2>5 DEF DraftRow, NoRow
    <2> QED BY <2>2, <2>3, <2>5, <2>6, <2>7
  <1>13. ASSUME SignInAgain
         PROVE  PayTypes' /\ Grows
    <2>1. NewVisit \in Visit
      BY DEF NewVisit, NoChange, NoRecipient, Visit
    <2> QED BY <1>13, <2>1 DEF SignInAgain
  <1>14. ASSUME TickPasses
         PROVE  PayTypes' /\ Grows
    BY <1>14 DEF TickPasses
  <1>15. ASSUME NEW h \in Handlers, StoreVisit(h)
         PROVE  PayTypes' /\ Grows
    <2>1. job[h].copy \in Visit
      BY <1>15 DEF StoreVisit, HandlersOK, PayJobOK, CopyOK
    <2> QED BY <1>15, <2>1 DEF StoreVisit, Done
  <1>16. ASSUME NEW h \in Handlers, QuickPayFails(h)
         PROVE  PayTypes' /\ Grows
    <2>1. visit' \in Visit
      <3>1. CASE job[h].op = "idle"
        BY <1>16, <3>1 DEF QuickPayFails, HandlersOK, PayJobOK, Free
      <3>2. CASE job[h].op # "idle"
        BY <1>16, <3>2 DEF QuickPayFails, HandlersOK, PayJobOK, CopyOK
      <3> QED BY <3>1, <3>2
    <2> QED BY <1>16, <2>1 DEF QuickPayFails, Done
  <1>17. ASSUME NEW x \in Emails \cup Phones, OtherTakes(x)
         PROVE  PayTypes' /\ Grows
    BY <1>17 DEF OtherTakes
  <1>18. ASSUME NEW k \in EventKinds \ {"profile_update"}, SensitiveChange(k)
         PROVE  PayTypes' /\ Grows
    <2>1. tick \in 0..Never
      BY DEF Never
    <2> QED BY <1>18, <2>1 DEF SensitiveChange
  <1>19. ASSUME NEW r \in Recipients, RecipientChanges(r)
         PROVE  PayTypes' /\ Grows
    BY <1>19 DEF RecipientChanges
  <1>20. ASSUME UNCHANGED quickVars
         PROVE  PayTypes' /\ Grows
    BY <1>20 DEF quickVars
  <1> HIDE DEF PayTypes, QuickPayTypeOK, Grows, accountVars, payVars
  <1> QED BY Zenon, <1>1, <1>2, <1>3, <1>4, <1>5, <1>6, <1>7, <1>8, <1>9, <1>10, <1>11, <1>12,
             <1>13, <1>14, <1>15, <1>16, <1>17, <1>18, <1>19, <1>20 DEF QuickPayNext, ProfileNext,
             PayupNext

\* A handler that goes on with j.
LEMMA HandlersKept ==
  ASSUME PayTypes, HandlersOK, Grows, NEW h \in Handlers, NEW j, PayJobOK(j)', job' = [job EXCEPT ![h] = j]
  PROVE  HandlersOK'
  <1>1. \A g \in Handlers \ {h} : job'[g] = job[g]
    OBVIOUS
  <1>2. job'[h] = j
    BY DEF PayTypes
  <1>3. \A g \in Handlers : PayJobOK(job[g])'
    <2> SUFFICES ASSUME NEW g \in Handlers PROVE PayJobOK(job[g])'
      OBVIOUS
    <2>1. CASE g = h
      BY <1>2, <2>1
    <2>2. CASE g # h
      <3>1. PICK k : k = job[g]
        OBVIOUS
      <3>2. PayJobOK(k)
        BY <3>1 DEF HandlersOK
      <3>3. PayJobOK(k)'
        BY <3>2, PayJobKept
      <3>4. job'[g] = k
        BY <1>1, <2>2, <3>1
      <3> QED BY <3>3, <3>4
    <2> QED BY <2>1, <2>2
  <1> QED BY <1>3 DEF HandlersOK

LEMMA HandlerGoesOn ==
  ASSUME PayTypes, HandlersOK, Grows, NEW h \in Handlers, NEW j, PayJobOK(j), job' = [job EXCEPT ![h] = j]
  PROVE  HandlersOK'
  BY Zenon, PayJobKept, HandlersKept

LEMMA CopyAnswered ==
  ASSUME PayTypes, NEW v, CopyOK(v)
  PROVE  /\ PayJobOK(Answers(v)) /\ CopyOK(Rotated(v))
         /\ CopyOK([v EXCEPT !.change = NoChange])
         /\ CopyOK([v EXCEPT !.token = None])
         /\ \A t \in PayTokens : draft[t] # NoRow => CopyOK([v EXCEPT !.token = t])
         /\ \A to \in [who : Recipients \cup {None}, at : 0..MaxTick] : CopyOK([v EXCEPT !.to = to])
  <1> USE DEF CopyOK, Visit
  <1>1. PayJobOK(Answers(v))
    BY DEF PayJobOK, Answers
  <1>2. CopyOK(Rotated(v))
    BY Zenon DEF Rotated
  <1>3. CopyOK([v EXCEPT !.change = NoChange])
    <2>1. NoChange \in [email : Emails \cup {None}, phone : Phones \cup {None}, code : Codes \cup {None},
                        until : 0..(MaxTick + ChallengeTtl), bound : BOOLEAN] /\ NoChange.code = None
      BY QuickPayAssumption DEF NoChange
    <2> QED BY <2>1
  <1>4. CopyOK([v EXCEPT !.token = None])
    OBVIOUS
  <1>5. \A t \in PayTokens : draft[t] # NoRow => CopyOK([v EXCEPT !.token = t])
    OBVIOUS
  <1>6. \A to \in [who : Recipients \cup {None}, at : 0..MaxTick] : CopyOK([v EXCEPT !.to = to])
    OBVIOUS
  <1> QED BY <1>1, <1>2, <1>3, <1>4, <1>5, <1>6

\* A step in which no handler moves.
LEMMA HandlersStay ==
  ASSUME PayTypes, HandlersOK, Grows, UNCHANGED job
  PROVE  HandlersOK'
  <1> SUFFICES ASSUME NEW g \in Handlers PROVE PayJobOK(job[g])'
    BY DEF HandlersOK
  <1>1. PICK k : k = job[g]
    OBVIOUS
  <1>2. PayJobOK(k)'
    BY <1>1, PayJobKept DEF HandlersOK
  <1> QED BY <1>1, <1>2

LEMMA LeftShrinks ==
  ASSUME NEW w, NEW l \in LeftOf(w), l # << >>
  PROVE  Tail(l) \in LeftOf(w)
  <1>1. Tail(<<"sender", w>>) = <<w>> /\ Tail(<<w>>) = << >>
    OBVIOUS
  <1> QED BY ZenonT(30), <1>1 DEF LeftOf

LEMMA HandlersStep ==
  ASSUME PayTypes, HandlersOK, CopyOK(visit), Grows, [QuickPayNext]_quickVars
  PROVE  HandlersOK'
  <1> USE QuickPayAssumption DEF accountVars
  <1>1. ASSUME NEW h \in Handlers, NEW e \in Emails, NEW p \in Phones, NEW n \in {None} \cup {m \in Codes : mailed[m] \in Readable},
               UpdateProfile(h, e, p, n)
        PROVE  HandlersOK'
    <2> DEFINE newEmail == e # contact.email
               live == visit.change.email # None /\ tick < visit.change.until
               copy == IF newEmail /\ n # None /\ ~live THEN [visit EXCEPT !.change = NoChange] ELSE visit
               next == IF newEmail /\ n = None THEN "challenge" ELSE "profile"
               k == [op |-> next, email |-> e, phone |-> p, newEmail |-> newEmail,
                     newPhone |-> p # contact.phone, copy |-> copy]
               refused == newEmail /\ n # None /\ ~(live /\ Proves(visit.change, e, p, n))
               j == IF refused THEN Answers(copy) ELSE k
    <2>1. job' = [job EXCEPT ![h] = j]
      BY <1>1, Zenon DEF UpdateProfile, Begin
    <2>2. CopyOK(copy)
      BY Zenon, CopyAnswered
    <2>3. ~refused /\ newEmail /\ n # None => e \in Readable
      <3> SUFFICES ASSUME ~refused, newEmail, n # None PROVE e \in Readable
        OBVIOUS
      <3>1. visit.change.email = e /\ visit.change.code = n /\ n \in Codes /\ mailed[n] \in Readable
        BY DEF Proves
      <3> QED BY <3>1 DEF CopyOK
    <2>4. next = "profile" => ~newEmail \/ n # None
      OBVIOUS
    <2> HIDE DEF copy, live, refused
    <2>5. ~refused => PayJobOK(k)
      <3>1. k.op = next /\ k.email = e /\ k.phone = p /\ k.newEmail = newEmail /\ k.newPhone \in BOOLEAN /\ k.copy = copy
            /\ next \in {"challenge", "profile"}
        BY Zenon
      <3> HIDE DEF k, next, newEmail
      <3> QED BY Zenon, <2>2, <2>3, <2>4, <3>1 DEF PayJobOK, newEmail
    <2>6. PayJobOK(j)
      BY Zenon, <2>2, <2>5, CopyAnswered
    <2> HIDE DEF j
    <2> QED BY Zenon, <2>1, <2>6, HandlerGoesOn
  <1>2. ASSUME NEW h \in Handlers, NEW n \in Codes, CreateChallenge(h, n)
        PROVE  HandlersOK'
    <2> DEFINE c == [email |-> job[h].email, phone |-> job[h].phone, code |-> n,
                     until |-> tick + ChallengeTtl, bound |-> TRUE]
               v == [job[h].copy EXCEPT !.change = c]
    <2>1. job' = [job EXCEPT ![h] = Answers(v)] /\ mailed' = [mailed EXCEPT ![n] = job[h].email] /\ UNCHANGED draft
      BY <1>2 DEF CreateChallenge, Continue, payVars
    <2>2. PayJobOK(job[h]) /\ job[h].op = "challenge"
      BY <1>2 DEF CreateChallenge, HandlersOK
    <2>3. job[h].email \in Emails /\ job[h].phone \in Phones /\ CopyOK(job[h].copy)
      BY <2>2 DEF PayJobOK
    <2>4. tick + ChallengeTtl \in 0..(MaxTick + ChallengeTtl)
      BY DEF PayTypes
    <2>5. v \in Visit /\ v.change = c /\ v.token = job[h].copy.token
      BY Zenon, <2>3, <2>4 DEF CopyOK, Visit
    <2>6. mailed'[n] = job[h].email /\ c.code = n /\ c.email = job[h].email
      BY <2>1 DEF PayTypes, QuickPayTypeOK
    <2>7. v.token # None => draft[v.token] # NoRow
      BY <2>3, <2>5 DEF CopyOK
    <2> HIDE DEF c, v
    <2>8. v.change.code # None => v.change.email \in Emails /\ mailed'[v.change.code] = v.change.email
      BY <2>3, <2>5, <2>6
    <2>9. PICK j : j = Answers(v)
      OBVIOUS
    <2>10. j.op = "answer" /\ j.copy = v
      BY <2>9 DEF Answers
    <2>11. PayJobOK(j)'
      BY <2>1, <2>5, <2>7, <2>8, <2>10 DEF PayJobOK, CopyOK
    <2> QED BY Zenon, <2>1, <2>9, <2>11, HandlersKept
  <1>3. ASSUME NEW h \in Handlers, CommitProfileUpdate(h)
        PROVE  HandlersOK'
    <2> DEFINE r == job[h]
    <2>1. PayJobOK(r) /\ r.op = "profile"
      BY <1>3 DEF CommitProfileUpdate, HandlersOK
    <2>2. CopyOK(r.copy)
      BY <2>1 DEF PayJobOK
    <2> DEFINE w == Rotated(r.copy)
    <2>3. CopyOK(w)
      BY Zenon, <2>2, CopyAnswered
    <2>4. \E v \in {w, [w EXCEPT !.change = NoChange], [w EXCEPT !.change = w.change]} : job' = [job EXCEPT ![h] = Answers(v)]
      <3> HIDE DEF w
      <3>1. \/ job' = [job EXCEPT ![h] = Answers(w)]
            \/ job' = [job EXCEPT ![h] = Answers([w EXCEPT !.change = IF r.newEmail THEN NoChange ELSE w.change])]
        BY <1>3, Zenon DEF CommitProfileUpdate, Continue, w
      <3> QED BY <3>1
    <2>5. [w EXCEPT !.change = w.change] = w
      BY <2>3 DEF CopyOK, Visit
    <2> HIDE DEF w
    <2>6. PICK v : CopyOK(v) /\ job' = [job EXCEPT ![h] = Answers(v)]
      BY Zenon, <2>3, <2>4, <2>5, CopyAnswered
    <2> QED BY Zenon, <2>6, CopyAnswered, HandlerGoesOn
  <1>4. ASSUME NEW h \in Handlers, NEW r \in Recipients, PayupLookup(h, r)
        PROVE  HandlersOK'
    <2> DEFINE j == [op |-> "limit", phase |-> "lookup", left |-> <<"sender", r>>, who |-> r, copy |-> visit]
    <2>1. job' = [job EXCEPT ![h] = j]
      BY Zenon, <1>4 DEF PayupLookup, Begin
    <2>2. PayJobOK(j)
      BY ZenonT(30) DEF PayJobOK, LeftOf
    <2> HIDE DEF j
    <2> QED BY Zenon, <2>1, <2>2, HandlerGoesOn
  <1>5. ASSUME NEW h \in Handlers, NEW t \in PayTokens, PayupAmount(h, t)
        PROVE  HandlersOK'
    <2> DEFINE copy == [visit EXCEPT !.to = NoRecipient]
    <2>1. NoRecipient \in [who : Recipients \cup {None}, at : 0..MaxTick]
      BY DEF NoRecipient
    <2>2. CopyOK(copy)
      BY Zenon, <2>1, CopyAnswered
    <2> HIDE DEF copy
    <2>3. CASE PendingRecipient(visit.to)
      <3> DEFINE d == [status |-> "pending", who |-> visit.to.who, looked |-> visit.to.at,
                       until |-> tick + ConfirmTtl, consumed |-> FALSE]
      <3>1. draft' = [draft EXCEPT ![t] = d] /\ job' = [job EXCEPT ![h] = Answers([copy EXCEPT !.token = t])]
        BY <1>5, <2>3, Zenon DEF PayupAmount, Begin, copy
      <3>2. d # NoRow
        BY DEF NoRow
      <3>3. draft'[t] # NoRow
        BY <3>1, <3>2 DEF PayTypes
      <3>4. PICK v : v = [copy EXCEPT !.token = t]
        BY Zenon
      <3>5. v \in Visit /\ v.token = t /\ v.change = copy.change
        BY <2>2, <3>4 DEF CopyOK, Visit
      <3>6. UNCHANGED mailed
        BY <1>5 DEF PayupAmount
      <3>7. CopyOK(v)'
        BY <2>2, <3>3, <3>5, <3>6 DEF CopyOK
      <3>8. PICK j : j = Answers(v)
        OBVIOUS
      <3>9. j.op = "answer" /\ j.copy = v
        BY <3>8 DEF Answers
      <3>10. PayJobOK(j)'
        BY <3>7, <3>9 DEF PayJobOK
      <3> QED BY Zenon, <3>1, <3>4, <3>8, <3>10, HandlersKept
    <2>4. CASE ~PendingRecipient(visit.to)
      <3>1. job' = [job EXCEPT ![h] = Answers(copy)]
        BY <1>5, <2>4, Zenon DEF PayupAmount, Begin, copy
      <3> QED BY Zenon, <2>2, <3>1, CopyAnswered, HandlerGoesOn
    <2> QED BY <2>3, <2>4
  <1>6. ASSUME NEW h \in Handlers, ConsumeAttempt(h)
        PROVE  HandlersOK'
    <2> DEFINE r == job[h]
               k == [r EXCEPT !.left = Tail(@)]
    <2>1. PayJobOK(r) /\ r.op = "limit" /\ r.left # << >>
      BY <1>6 DEF ConsumeAttempt, HandlersOK
    <2>2. job' = [job EXCEPT ![h] = k] \/ job' = [job EXCEPT ![h] = Answers(r.copy)]
      BY <1>6, Zenon DEF ConsumeAttempt, Continue
    <2>3. CopyOK(r.copy) /\ r.phase \in {"lookup", "confirm"}
      BY <2>1 DEF PayJobOK
    <2> HIDE DEF r
    <2>4. PayJobOK(k)
      <3>1. CASE r.phase = "lookup"
        <4>1. r = [op |-> "limit", phase |-> "lookup", left |-> r.left, who |-> r.who, copy |-> r.copy]
          BY <2>1, <3>1 DEF PayJobOK
        <4>2. r.who \in Recipients /\ r.left \in LeftOf(r.who)
          BY <2>1, <3>1 DEF PayJobOK
        <4>3. k = [op |-> "limit", phase |-> "lookup", left |-> Tail(r.left), who |-> r.who, copy |-> r.copy]
          <5>1. PICK l, w, c : l = r.left /\ w = r.who /\ c = r.copy
            OBVIOUS
          <5>2. r = [op |-> "limit", phase |-> "lookup", left |-> l, who |-> w, copy |-> c]
            BY <4>1, <5>1
          <5>3. \A m : [r EXCEPT !.left = m] = [op |-> "limit", phase |-> "lookup", left |-> m, who |-> w, copy |-> c]
            BY <5>2
          <5> QED BY <5>1, <5>3, Zenon
        <4>4. Tail(r.left) \in LeftOf(r.who)
          BY <2>1, <4>2, LeftShrinks
        <4> HIDE DEF k
        <4> QED BY <2>3, <4>2, <4>3, <4>4 DEF PayJobOK
      <3>2. CASE r.phase = "confirm"
        <4>1. r = [op |-> "limit", phase |-> "confirm", left |-> r.left, token |-> r.token, copy |-> r.copy]
          BY <2>1, <3>2 DEF PayJobOK
        <4>2. r.token \in PayTokens /\ draft[r.token] # NoRow /\ r.left \in LeftOf(draft[r.token].who)
          BY <2>1, <3>2 DEF PayJobOK
        <4>3. k = [op |-> "limit", phase |-> "confirm", left |-> Tail(r.left), token |-> r.token, copy |-> r.copy]
          <5>1. PICK l, w, c : l = r.left /\ w = r.token /\ c = r.copy
            OBVIOUS
          <5>2. r = [op |-> "limit", phase |-> "confirm", left |-> l, token |-> w, copy |-> c]
            BY <4>1, <5>1
          <5>3. \A m : [r EXCEPT !.left = m] = [op |-> "limit", phase |-> "confirm", left |-> m, token |-> w, copy |-> c]
            BY <5>2
          <5> QED BY <5>1, <5>3, Zenon
        <4>4. Tail(r.left) \in LeftOf(draft[r.token].who)
          BY <2>1, <4>2, LeftShrinks
        <4> HIDE DEF k
        <4> QED BY <2>3, <4>2, <4>3, <4>4 DEF PayJobOK
      <3> QED BY <2>3, <3>1, <3>2
    <2> HIDE DEF k
    <2> QED BY Zenon, <2>2, <2>3, <2>4, CopyAnswered, HandlerGoesOn
  <1>7. ASSUME NEW h \in Handlers, ResolveRecipient(h)
        PROVE  HandlersOK'
    <2>1. CopyOK(job[h].copy)
      BY Zenon, <1>7 DEF ResolveRecipient, HandlersOK, PayJobOK
    <2>2. \/ job' = [job EXCEPT ![h] = Answers(job[h].copy)]
          \/ /\ job[h].who \in available
             /\ job' = [job EXCEPT ![h] = Answers([job[h].copy EXCEPT !.to = [who |-> job[h].who, at |-> tick]])]
      BY <1>7, Zenon DEF ResolveRecipient, Continue
    <2>3. job[h].who \in available => [who |-> job[h].who, at |-> tick] \in [who : Recipients \cup {None}, at : 0..MaxTick]
      BY DEF PayTypes
    <2> QED BY Zenon, <2>1, <2>2, <2>3, CopyAnswered, HandlerGoesOn
  <1>8. ASSUME NEW h \in Handlers, PayupConfirmPage(h)
        PROVE  HandlersOK'
    <2>1. job' = [job EXCEPT ![h] = Answers([visit EXCEPT !.token = None])]
      BY <1>8, Zenon DEF PayupConfirmPage, Begin
    <2> QED BY Zenon, <2>1, CopyAnswered, HandlerGoesOn
  <1>9. ASSUME NEW h \in Handlers, PayupConfirm(h)
        PROVE  HandlersOK'
    <2> DEFINE copy == [visit EXCEPT !.token = None]
               t == visit.token
               k == [op |-> "limit", phase |-> "confirm", left |-> <<"sender", draft[t].who>>, token |-> t, copy |-> copy]
    <2>1. t # None /\ (job' = [job EXCEPT ![h] = Answers(copy)] \/ job' = [job EXCEPT ![h] = k])
      BY <1>9, Zenon DEF PayupConfirm, Begin
    <2>2. CopyOK(copy)
      BY Zenon, CopyAnswered
    <2>3. t \in PayTokens /\ draft[t] # NoRow
      BY <2>1 DEF CopyOK, Visit
    <2> HIDE DEF copy, t
    <2>4. PayJobOK(k)
      BY Zenon, <2>2, <2>3 DEF PayJobOK, LeftOf
    <2> HIDE DEF k
    <2> QED BY Zenon, <2>1, <2>2, <2>4, CopyAnswered, HandlerGoesOn
  <1>10. ASSUME NEW h \in Handlers, PayupStepUp(h)
         PROVE  HandlersOK'
    <2> DEFINE r == job[h]
    <2>1. PayJobOK(r) /\ r.op = "limit" /\ r.phase = "confirm"
      BY <1>10 DEF PayupStepUp, HandlersOK
    <2>2. CopyOK(r.copy) /\ r.token \in PayTokens /\ draft[r.token] # NoRow
      BY <2>1 DEF PayJobOK
    <2>3. \/ \E copy \in {r.copy, Rotated(r.copy)} : job' = [job EXCEPT ![h] = [op |-> "lock", token |-> r.token, copy |-> copy]]
          \/ job' = [job EXCEPT ![h] = Answers([r.copy EXCEPT !.token = r.token])]
      BY <1>10, Zenon DEF PayupStepUp, Continue
    <2> HIDE DEF r
    <2>4. ASSUME NEW copy, CopyOK(copy)
          PROVE  PayJobOK([op |-> "lock", token |-> r.token, copy |-> copy])
      BY <2>2, <2>4 DEF PayJobOK
    <2>5. CopyOK(Rotated(r.copy)) /\ PayJobOK(Answers([r.copy EXCEPT !.token = r.token]))
      BY Zenon, <2>2, CopyAnswered
    <2> QED BY <2>2, <2>3, <2>4, <2>5, HandlerGoesOn
  <1>11. ASSUME NEW h \in Handlers, LockDraft(h)
         PROVE  HandlersOK'
    <2> DEFINE t == job[h].token
               k == [op |-> "pay", token |-> t, at |-> tick, ok |-> draft[t].who \in available, copy |-> job[h].copy]
    <2>1. CopyOK(job[h].copy) /\ t \in PayTokens /\ draft[t] # NoRow
      BY Zenon, <1>11 DEF LockDraft, HandlersOK, PayJobOK
    <2>2. \/ job' = [job EXCEPT ![h] = Answers(job[h].copy)]
          \/ job' = [job EXCEPT ![h] = k] /\ ~(tick > draft[t].until)
      BY <1>11, Zenon DEF LockDraft, Continue
    <2> HIDE DEF t
    <2>3. draft[t].until \in Nat /\ tick \in Nat
      BY <2>1 DEF PayTypes, DraftRow
    <2>4. ASSUME ~(tick > draft[t].until)
          PROVE  PayJobOK(k)
      <3>1. tick <= draft[t].until
        BY <2>3, <2>4
      <3>2. k.op = "pay" /\ k.token = t /\ k.at = tick /\ k.copy = job[h].copy
        OBVIOUS
      <3> HIDE DEF k
      <3> QED BY <2>1, <2>3, <3>1, <3>2 DEF PayJobOK
    <2> HIDE DEF k
    <2> QED BY ZenonT(30), <2>1, <2>2, <2>4, CopyAnswered, HandlerGoesOn
  <1>12. ASSUME NEW h \in Handlers, ExecutePayup(h)
         PROVE  HandlersOK'
    <2>1. CopyOK(job[h].copy)
      BY Zenon, <1>12 DEF ExecutePayup, HandlersOK, PayJobOK
    <2>2. job' = [job EXCEPT ![h] = Answers(job[h].copy)]
      BY <1>12 DEF ExecutePayup, Continue
    <2> QED BY Zenon, <2>1, <2>2, CopyAnswered, HandlerGoesOn
  <1>13. ASSUME SignInAgain
         PROVE  HandlersOK'
    BY <1>13, HandlersStay DEF SignInAgain
  <1>14. ASSUME TickPasses
         PROVE  HandlersOK'
    BY <1>14, HandlersStay DEF TickPasses
  <1>15. ASSUME NEW h \in Handlers, StoreVisit(h)
         PROVE  HandlersOK'
    <2> DEFINE j == Idle
    <2>1. job' = [job EXCEPT ![h] = j]
      BY <1>15 DEF StoreVisit, Done
    <2>2. PayJobOK(j)
      BY DEF PayJobOK, Idle
    <2> HIDE DEF j
    <2> QED BY Zenon, <2>1, <2>2, HandlerGoesOn
  <1>16. ASSUME NEW h \in Handlers, QuickPayFails(h)
         PROVE  HandlersOK'
    <2> DEFINE j == Idle
    <2>1. job' = [job EXCEPT ![h] = j]
      BY <1>16 DEF QuickPayFails, Done
    <2>2. PayJobOK(j)
      BY DEF PayJobOK, Idle
    <2> HIDE DEF j
    <2> QED BY Zenon, <2>1, <2>2, HandlerGoesOn
  <1>17. ASSUME NEW x \in Emails \cup Phones, OtherTakes(x)
         PROVE  HandlersOK'
    BY <1>17, HandlersStay DEF OtherTakes
  <1>18. ASSUME NEW k \in EventKinds \ {"profile_update"}, SensitiveChange(k)
         PROVE  HandlersOK'
    BY <1>18, HandlersStay DEF SensitiveChange
  <1>19. ASSUME NEW r \in Recipients, RecipientChanges(r)
         PROVE  HandlersOK'
    BY <1>19, HandlersStay DEF RecipientChanges
  <1>20. ASSUME UNCHANGED quickVars
         PROVE  HandlersOK'
    BY <1>20, HandlersStay DEF quickVars
  <1> HIDE DEF accountVars
  <1> QED BY Zenon, <1>1, <1>2, <1>3, <1>4, <1>5, <1>6, <1>7, <1>8, <1>9, <1>10, <1>11, <1>12,
             <1>13, <1>14, <1>15, <1>16, <1>17, <1>18, <1>19, <1>20 DEF QuickPayNext, ProfileNext,
             PayupNext

LEMMA VisitStays ==
  ASSUME Grows, CopyOK(visit), UNCHANGED visit
  PROVE  CopyOK(visit)'
  <1>1. PICK v : v = visit
    OBVIOUS
  <1> QED BY <1>1, CopyKept

LEMMA VisitStep ==
  ASSUME PayTypes, PayTypes', HandlersOK, CopyOK(visit), Grows, [QuickPayNext]_quickVars
  PROVE  CopyOK(visit)'
  <1> USE QuickPayAssumption DEF accountVars
  <1>1. ASSUME NEW h \in Handlers, NEW e \in Emails, NEW p \in Phones, NEW n \in {None} \cup {m \in Codes : mailed[m] \in Readable},
               UpdateProfile(h, e, p, n)
        PROVE  CopyOK(visit)'
    BY <1>1, VisitStays DEF UpdateProfile, Begin
  <1>2. ASSUME NEW h \in Handlers, NEW n \in Codes, CreateChallenge(h, n)
        PROVE  CopyOK(visit)'
    BY <1>2, VisitStays DEF CreateChallenge, Continue
  <1>3. ASSUME NEW h \in Handlers, CommitProfileUpdate(h)
        PROVE  CopyOK(visit)'
    BY <1>3, VisitStays DEF CommitProfileUpdate, Continue
  <1>4. ASSUME NEW h \in Handlers, NEW r \in Recipients, PayupLookup(h, r)
        PROVE  CopyOK(visit)'
    BY Zenon, <1>4, VisitStays DEF PayupLookup, Begin
  <1>5. ASSUME NEW h \in Handlers, NEW t \in PayTokens, PayupAmount(h, t)
        PROVE  CopyOK(visit)'
    BY <1>5, VisitStays DEF PayupAmount, Begin
  <1>6. ASSUME NEW h \in Handlers, ConsumeAttempt(h)
        PROVE  CopyOK(visit)'
    BY <1>6, VisitStays DEF ConsumeAttempt, Continue
  <1>7. ASSUME NEW h \in Handlers, ResolveRecipient(h)
        PROVE  CopyOK(visit)'
    BY <1>7, VisitStays DEF ResolveRecipient, Continue
  <1>8. ASSUME NEW h \in Handlers, PayupConfirmPage(h)
        PROVE  CopyOK(visit)'
    BY <1>8, VisitStays DEF PayupConfirmPage, Begin
  <1>9. ASSUME NEW h \in Handlers, PayupConfirm(h)
        PROVE  CopyOK(visit)'
    BY <1>9, VisitStays DEF PayupConfirm, Begin
  <1>10. ASSUME NEW h \in Handlers, PayupStepUp(h)
         PROVE  CopyOK(visit)'
    BY <1>10, VisitStays DEF PayupStepUp, Continue
  <1>11. ASSUME NEW h \in Handlers, LockDraft(h)
         PROVE  CopyOK(visit)'
    BY <1>11, VisitStays DEF LockDraft, Continue
  <1>12. ASSUME NEW h \in Handlers, ExecutePayup(h)
         PROVE  CopyOK(visit)'
    BY <1>12, VisitStays DEF ExecutePayup, Continue
  <1>13. ASSUME SignInAgain
         PROVE  CopyOK(visit)'
    <2>1. visit' = NewVisit /\ NewVisit.token = None /\ NewVisit.change.code = None
      BY Zenon, <1>13 DEF SignInAgain, NewVisit, NoChange
    <2>2. visit' \in Visit
      BY DEF PayTypes, QuickPayTypeOK
    <2> QED BY <2>1, <2>2 DEF CopyOK
  <1>14. ASSUME TickPasses
         PROVE  CopyOK(visit)'
    BY <1>14, VisitStays DEF TickPasses
  <1>15. ASSUME NEW h \in Handlers, StoreVisit(h)
         PROVE  CopyOK(visit)'
    <2>1. PICK v : v = job[h].copy
      OBVIOUS
    <2>2. CopyOK(v) /\ visit' = v
      BY ZenonT(30), <1>15, <2>1 DEF StoreVisit, HandlersOK, PayJobOK
    <2> QED BY <2>2, CopyKept
  <1>16. ASSUME NEW h \in Handlers, QuickPayFails(h)
         PROVE  CopyOK(visit)'
    <2>1. job[h].op # "idle"
      BY Zenon, <1>16 DEF QuickPayFails, HandlersOK, PayJobOK, Free
    <2>2. PICK v : v = visit'
      OBVIOUS
    <2>3. CopyOK(v)
      BY ZenonT(30), <1>16, <2>1, <2>2 DEF QuickPayFails, HandlersOK, PayJobOK
    <2>4. CopyOK(v)'
      BY <2>3, CopyKept
    <2> QED BY <2>2, <2>4
  <1>17. ASSUME NEW x \in Emails \cup Phones, OtherTakes(x)
         PROVE  CopyOK(visit)'
    BY ZenonT(30), <1>17, VisitStays DEF OtherTakes
  <1>18. ASSUME NEW k \in EventKinds \ {"profile_update"}, SensitiveChange(k)
         PROVE  CopyOK(visit)'
    BY ZenonT(30), <1>18, VisitStays DEF SensitiveChange
  <1>19. ASSUME NEW r \in Recipients, RecipientChanges(r)
         PROVE  CopyOK(visit)'
    BY Zenon, <1>19, VisitStays DEF RecipientChanges
  <1>20. ASSUME UNCHANGED quickVars
         PROVE  CopyOK(visit)'
    BY <1>20, VisitStays DEF quickVars
  <1> HIDE DEF accountVars
  <1> QED BY ZenonT(30), <1>1, <1>2, <1>3, <1>4, <1>5, <1>6, <1>7, <1>8, <1>9, <1>10, <1>11, <1>12,
             <1>13, <1>14, <1>15, <1>16, <1>17, <1>18, <1>19, <1>20 DEF QuickPayNext, ProfileNext,
             PayupNext

LEMMA ContactStep ==
  ASSUME PayTypes, HandlersOK, ContactProved, [QuickPayNext]_quickVars
  PROVE  ContactProved'
  <1> USE QuickPayAssumption DEF ContactProved, accountVars
  <1>1. ASSUME NEW h \in Handlers, NEW e \in Emails, NEW p \in Phones, NEW n \in {None} \cup {m \in Codes : mailed[m] \in Readable},
               UpdateProfile(h, e, p, n)
        PROVE  ContactProved'
    BY <1>1 DEF UpdateProfile, Begin
  <1>2. ASSUME NEW h \in Handlers, NEW n \in Codes, CreateChallenge(h, n)
        PROVE  ContactProved'
    BY <1>2 DEF CreateChallenge, Continue
  <1>3. ASSUME NEW h \in Handlers, CommitProfileUpdate(h)
        PROVE  ContactProved'
    <2> DEFINE r == job[h]
               new == (IF r.newEmail THEN {r.email} ELSE {}) \cup (IF r.newPhone THEN {r.phone} ELSE {})
    <2>1. PayJobOK(r) /\ r.op = "profile" /\ UNCHANGED taken
      BY <1>3 DEF CommitProfileUpdate, HandlersOK
    <2>2. r.newEmail => r.email \in Readable
      BY Zenon, <2>1 DEF PayJobOK
    <2>3. \/ UNCHANGED contact
          \/ /\ new \cap taken = {}
             /\ contact' = [email |-> IF r.newEmail THEN r.email ELSE contact.email,
                            phone |-> IF r.newPhone THEN r.phone ELSE contact.phone]
      BY <1>3, Zenon DEF CommitProfileUpdate
    <2> HIDE DEF r
    <2>4. CASE UNCHANGED contact
      BY Zenon, <2>1, <2>4
    <2>5. CASE ~UNCHANGED contact
      <3>1. contact'.email = (IF r.newEmail THEN r.email ELSE contact.email)
            /\ contact'.phone = (IF r.newPhone THEN r.phone ELSE contact.phone)
        BY <2>3, <2>5
      <3>2. contact'.email \in Readable /\ contact'.email \notin taken
        BY <2>2, <2>3, <2>5, <3>1
      <3>3. contact'.phone \notin taken
        BY <2>3, <2>5, <3>1
      <3> QED BY <2>1, <3>2, <3>3
    <2> QED BY <2>4, <2>5
  <1>4. ASSUME NEW h \in Handlers, NEW r \in Recipients, PayupLookup(h, r)
        PROVE  ContactProved'
    BY Zenon, <1>4 DEF PayupLookup, Begin
  <1>5. ASSUME NEW h \in Handlers, NEW t \in PayTokens, PayupAmount(h, t)
        PROVE  ContactProved'
    BY <1>5 DEF PayupAmount, Begin
  <1>6. ASSUME NEW h \in Handlers, ConsumeAttempt(h)
        PROVE  ContactProved'
    BY <1>6 DEF ConsumeAttempt, Continue
  <1>7. ASSUME NEW h \in Handlers, ResolveRecipient(h)
        PROVE  ContactProved'
    BY <1>7 DEF ResolveRecipient, Continue
  <1>8. ASSUME NEW h \in Handlers, PayupConfirmPage(h)
        PROVE  ContactProved'
    BY <1>8 DEF PayupConfirmPage, Begin
  <1>9. ASSUME NEW h \in Handlers, PayupConfirm(h)
        PROVE  ContactProved'
    BY <1>9 DEF PayupConfirm, Begin
  <1>10. ASSUME NEW h \in Handlers, PayupStepUp(h)
         PROVE  ContactProved'
    BY <1>10 DEF PayupStepUp, Continue
  <1>11. ASSUME NEW h \in Handlers, LockDraft(h)
         PROVE  ContactProved'
    BY <1>11 DEF LockDraft, Continue
  <1>12. ASSUME NEW h \in Handlers, ExecutePayup(h)
         PROVE  ContactProved'
    BY <1>12 DEF ExecutePayup, Continue
  <1>13. ASSUME SignInAgain
         PROVE  ContactProved'
    BY <1>13 DEF SignInAgain
  <1>14. ASSUME TickPasses
         PROVE  ContactProved'
    BY <1>14 DEF TickPasses
  <1>15. ASSUME NEW h \in Handlers, StoreVisit(h)
         PROVE  ContactProved'
    BY <1>15 DEF StoreVisit, Done
  <1>16. ASSUME NEW h \in Handlers, QuickPayFails(h)
         PROVE  ContactProved'
    BY <1>16 DEF QuickPayFails, Done
  <1>17. ASSUME NEW x \in Emails \cup Phones, OtherTakes(x)
         PROVE  ContactProved'
    BY <1>17 DEF OtherTakes
  <1>18. ASSUME NEW k \in EventKinds \ {"profile_update"}, SensitiveChange(k)
         PROVE  ContactProved'
    BY <1>18 DEF SensitiveChange
  <1>19. ASSUME NEW r \in Recipients, RecipientChanges(r)
         PROVE  ContactProved'
    BY <1>19 DEF RecipientChanges
  <1>20. ASSUME UNCHANGED quickVars
         PROVE  ContactProved'
    BY <1>20 DEF quickVars
  <1> HIDE DEF ContactProved, accountVars
  <1> QED BY ZenonT(30), <1>1, <1>2, <1>3, <1>4, <1>5, <1>6, <1>7, <1>8, <1>9, <1>10, <1>11, <1>12,
             <1>13, <1>14, <1>15, <1>16, <1>17, <1>18, <1>19, <1>20 DEF QuickPayNext, ProfileNext,
             PayupNext

DraftsTimely ==
  \A t \in PayTokens : draft[t] # NoRow => draft[t].until <= draft[t].looked + LookupTtl + ConfirmTtl

PaymentsAllowed ==
  \A p \in payments :
    /\ p.age <= MaxAge /\ p.recent \cap {"profile_update", "password_change"} = {}
    /\ p.at <= p.looked + LookupTtl + ConfirmTtl

\* A handler has an attempt of counter c in hand that it may still turn into a payment.
Holds(j, c) ==
  \/ j.op \in {"lock", "pay"} /\ (c = "sender" \/ draft[j.token].who = c)
  \/ /\ j.op = "limit" /\ j.phase = "confirm"
     /\ \/ c = "sender" /\ j.left # <<"sender", draft[j.token].who>>
        \/ draft[j.token].who = c /\ j.left = << >>

Holding(c) == {h \in Handlers : Holds(job[h], c)}
Paid(c) == {p \in payments : c = "sender" \/ p.who = c}
LimitOf(c) == AttemptLimit[IF c = "sender" THEN c ELSE "recipient"]

\* Payments made and attempts in hand are attempts that were counted.
Counted(c) ==
  /\ IsFiniteSet(Paid(c)) /\ IsFiniteSet(Holding(c))
  /\ used["confirm"][c] \in Nat /\ used["confirm"][c] <= LimitOf(c)
  /\ Cardinality(Paid(c)) + Cardinality(Holding(c)) <= used["confirm"][c]

AttemptsCover ==
  /\ used \in [{"lookup", "confirm"} -> [Counters -> Nat]]
  /\ \A c \in Counters : Counted(c)

LEMMA HoldsSame ==
  ASSUME HandlersOK, Grows, NEW g \in Handlers, job'[g] = job[g], NEW c, Holds(job[g], c)'
  PROVE  Holds(job[g], c)
  <1>1. PayJobOK(job[g])
    BY DEF HandlersOK
  <1> QED BY ZenonT(30), <1>1 DEF PayJobOK, Holds, Grows

\* Fewer attempts in hand and no more payments.
LEMMA CountedKept ==
  ASSUME NEW c, Counted(c), Paid(c)' = Paid(c), Holding(c)' \subseteq Holding(c),
         used'["confirm"][c] = used["confirm"][c]
  PROVE  Counted(c)'
  <1>1. IsFiniteSet(Holding(c)') /\ Cardinality(Holding(c)') <= Cardinality(Holding(c))
    BY FS_Subset DEF Counted
  <1>2. Cardinality(Holding(c)') \in Nat /\ Cardinality(Holding(c)) \in Nat /\ Cardinality(Paid(c)) \in Nat
    BY <1>1, FS_CardinalityType DEF Counted
  <1>3. LimitOf(c)' = LimitOf(c)
    BY DEF LimitOf
  <1> HIDE DEF Paid, Holding, LimitOf
  <1> QED BY SMTT(30), <1>1, <1>2, <1>3 DEF Counted

LEMMA CoverKept ==
  ASSUME HandlersOK, Grows, AttemptsCover, UNCHANGED payments,
         used' \in [{"lookup", "confirm"} -> [Counters -> Nat]], used'["confirm"] = used["confirm"],
         \A g \in Handlers, c \in Counters : Holds(job[g], c)' => Holds(job[g], c)
  PROVE  AttemptsCover'
  <1>1. ASSUME NEW c \in Counters
        PROVE  Counted(c)'
    <2>1. Paid(c)' = Paid(c) /\ Counted(c)
      BY DEF Paid, AttemptsCover
    <2>2. Holding(c)' \subseteq Holding(c)
      BY DEF Holding
    <2> QED BY <2>1, <2>2, CountedKept
  <1> QED BY <1>1 DEF AttemptsCover

\* A handler that moves to something that is no attempt.
LEMMA CoverDrops ==
  ASSUME PayTypes, HandlersOK, Grows, AttemptsCover, UNCHANGED <<used, payments>>,
         NEW h \in Handlers, NEW j, job' = [job EXCEPT ![h] = j],
         j.op \notin {"lock", "pay"}, j.op = "limit" => j.phase = "lookup"
  PROVE  AttemptsCover'
  <1>1. job'[h] = j /\ \A g \in Handlers \ {h} : job'[g] = job[g]
    BY DEF PayTypes
  <1>2. ASSUME NEW g \in Handlers, NEW c \in Counters, Holds(job[g], c)'
        PROVE  Holds(job[g], c)
    <2>1. CASE g = h
      BY <1>1, <1>2, <2>1 DEF Holds
    <2>2. CASE g # h
      BY <1>1, <1>2, <2>2, HoldsSame
    <2> QED BY <2>1, <2>2
  <1> QED BY <1>2, CoverKept DEF AttemptsCover

LEMMA CoverStays ==
  ASSUME PayTypes, HandlersOK, Grows, AttemptsCover, UNCHANGED <<used, payments, job>>
  PROVE  AttemptsCover'
  BY HoldsSame, CoverKept DEF AttemptsCover

LEMMA LimitTaken ==
  ASSUME NEW r, PayJobOK(r), r.op = "limit", r.left # << >>
  PROVE  /\ [r EXCEPT !.left = Tail(@)].op = "limit" /\ [r EXCEPT !.left = Tail(@)].phase = r.phase
         /\ [r EXCEPT !.left = Tail(@)].left = Tail(r.left)
         /\ r.phase = "confirm" => [r EXCEPT !.left = Tail(@)].token = r.token
  <1>1. \A m : /\ [r EXCEPT !.left = m].op = "limit" /\ [r EXCEPT !.left = m].phase = r.phase
               /\ [r EXCEPT !.left = m].left = m
               /\ r.phase = "confirm" => [r EXCEPT !.left = m].token = r.token
    <2>1. CASE r.phase = "lookup"
      <3>1. PICK l, w, c : r = [op |-> "limit", phase |-> "lookup", left |-> l, who |-> w, copy |-> c]
        BY <2>1 DEF PayJobOK
      <3> QED BY <3>1
    <2>2. CASE r.phase = "confirm"
      <3>1. PICK l, w, c : r = [op |-> "limit", phase |-> "confirm", left |-> l, token |-> w, copy |-> c]
        BY <2>2 DEF PayJobOK
      <3> QED BY <3>1
    <2> QED BY <2>1, <2>2 DEF PayJobOK
  <1> QED BY <1>1, Zenon

LEMMA OneMore ==
  ASSUME NEW S, NEW x, IsFiniteSet(S)
  PROVE  IsFiniteSet(S \cup {x}) /\ Cardinality(S \cup {x}) <= Cardinality(S) + 1 /\ Cardinality(S) \in Nat
  <1>1. Cardinality(S) \in Nat
    BY FS_CardinalityType
  <1>2. IsFiniteSet(S \cup {x}) /\ Cardinality(S \cup {x}) = IF x \in S THEN Cardinality(S) ELSE Cardinality(S) + 1
    BY FS_AddElement
  <1> QED BY <1>1, <1>2

\* One attempt more of counter d, in the hands of h.
LEMMA CoverTaken ==
  ASSUME NEW h \in Handlers, NEW d \in Counters, AttemptsCover, UNCHANGED payments,
         used["confirm"][d] < LimitOf(d),
         used' = [used EXCEPT !["confirm"][d] = @ + 1],
         \A c \in Counters : Holding(c)' \subseteq Holding(c) \cup (IF c = d THEN {h} ELSE {})
  PROVE  AttemptsCover'
  <1>1. used' \in [{"lookup", "confirm"} -> [Counters -> Nat]] /\ used'["confirm"][d] = used["confirm"][d] + 1
        /\ \A c \in Counters \ {d} : used'["confirm"][c] = used["confirm"][c]
    BY DEF AttemptsCover
  <1>2. \A c : Paid(c)' = Paid(c) /\ LimitOf(c)' = LimitOf(c)
    BY DEF Paid, LimitOf
  <1>3. ASSUME NEW c \in Counters PROVE Counted(c)'
    <2>1. Counted(c)
      BY DEF AttemptsCover
    <2>2. CASE c # d
      <3>1. Holding(c)' \subseteq Holding(c)
        BY <2>2
      <3> QED BY <1>1, <1>2, <2>1, <2>2, <3>1, CountedKept
    <2>3. CASE c = d
      <3> DEFINE S == Holding(c)
                 T == Holding(c)'
      <3>1. IsFiniteSet(S) /\ T \subseteq S \cup {h} /\ LimitOf(c) \in Nat
        BY <2>1, <2>3, QuickPayAssumption DEF Counted, LimitOf
      <3> HIDE DEF S, T
      <3>2. IsFiniteSet(S \cup {h}) /\ Cardinality(S \cup {h}) <= Cardinality(S) + 1 /\ Cardinality(S) \in Nat
        BY Zenon, <3>1, OneMore
      <3>3. IsFiniteSet(T) /\ Cardinality(T) <= Cardinality(S \cup {h})
        BY <3>1, <3>2, FS_Subset
      <3>4. Cardinality(T) \in Nat /\ Cardinality(S \cup {h}) \in Nat
        BY <3>2, <3>3, FS_CardinalityType
      <3>5. IsFiniteSet(Paid(c)) /\ Cardinality(Paid(c)) \in Nat /\ used["confirm"][c] \in Nat
            /\ Cardinality(Paid(c)) + Cardinality(S) <= used["confirm"][c]
        BY <2>1, FS_CardinalityType DEF Counted, S
      <3>6. IsFiniteSet(Paid(c)') /\ Cardinality(Paid(c)') = Cardinality(Paid(c)) /\ LimitOf(c)' = LimitOf(c)
        BY <1>2, <3>5
      <3>7. used'["confirm"][c] = used["confirm"][c] + 1 /\ used["confirm"][c] < LimitOf(c)
        BY <1>1, <2>3
      <3>8. Cardinality(Paid(c)') + Cardinality(T) <= used'["confirm"][c] /\ used'["confirm"][c] <= LimitOf(c)'
            /\ used'["confirm"][c] \in Nat
        BY <3>1, <3>2, <3>3, <3>4, <3>5, <3>6, <3>7
      <3> QED BY <3>3, <3>6, <3>8 DEF Counted, T
    <2> QED BY <2>2, <2>3
  <1> QED BY <1>1, <1>3 DEF AttemptsCover

\* An attempt in hand becomes a payment, or nothing.
LEMMA CoverPaid ==
  ASSUME NEW h \in Handlers, NEW p, NEW c \in Counters, Counted(c), UNCHANGED used, payments' \subseteq payments \cup {p},
         payments \subseteq payments',
         c = "sender" \/ p.who = c => h \in Holding(c),
         Holding(c)' \subseteq Holding(c) \ {h}
  PROVE  Counted(c)'
  <1>1. LimitOf(c)' = LimitOf(c)
    BY DEF LimitOf
  <1>2. CASE c = "sender" \/ p.who = c
    <2> DEFINE S == Holding(c)
               T == Holding(c)'
               P == Paid(c)
               Q == Paid(c)'
    <2>1. IsFiniteSet(S) /\ T \subseteq S \ {h} /\ IsFiniteSet(P) /\ h \in S
      BY <1>2 DEF Counted
    <2>2. Q \subseteq P \cup {p}
      BY DEF Paid
    <2> HIDE DEF S, T, P, Q
    <2>3. IsFiniteSet(S \ {h}) /\ Cardinality(S \ {h}) = Cardinality(S) - 1 /\ Cardinality(S) \in Nat
      BY <2>1, FS_RemoveElement, FS_CardinalityType
    <2>4. IsFiniteSet(T) /\ Cardinality(T) <= Cardinality(S \ {h}) /\ Cardinality(T) \in Nat
      BY <2>1, <2>3, FS_Subset, FS_CardinalityType
    <2>5. IsFiniteSet(P \cup {p}) /\ Cardinality(P \cup {p}) <= Cardinality(P) + 1 /\ Cardinality(P) \in Nat
      BY <2>1, OneMore
    <2>6. IsFiniteSet(Q) /\ Cardinality(Q) <= Cardinality(P \cup {p}) /\ Cardinality(Q) \in Nat
          /\ Cardinality(P \cup {p}) \in Nat
      BY <2>2, <2>5, FS_Subset, FS_CardinalityType
    <2>7. Cardinality(P) + Cardinality(S) <= used["confirm"][c] /\ used["confirm"][c] \in Nat
          /\ used["confirm"][c] <= LimitOf(c)
      BY DEF Counted, P, S
    <2>8. Cardinality(Q) + Cardinality(T) <= used["confirm"][c]
      BY <2>3, <2>4, <2>5, <2>6, <2>7
    <2> QED BY <1>1, <2>4, <2>6, <2>7, <2>8 DEF Counted, Q, T
  <1>3. CASE ~(c = "sender" \/ p.who = c)
    <2>1. Paid(c)' = Paid(c)
      BY <1>3 DEF Paid
    <2> QED BY <2>1, CountedKept
  <1> QED BY <1>2, <1>3

LEMMA LeftStarts ==
  ASSUME NEW w, NEW l \in LeftOf(w), l # << >>
  PROVE  \/ l = <<"sender", w>> /\ Head(l) = "sender" /\ Tail(l) = <<w>>
         \/ l = <<w>> /\ Head(l) = w /\ Tail(l) = << >>
  <1>1. Head(<<"sender", w>>) = "sender" /\ Head(<<w>>) = w /\ Tail(<<"sender", w>>) = <<w>> /\ Tail(<<w>>) = << >>
    OBVIOUS
  <1> QED BY ZenonT(30), <1>1 DEF LeftOf

LEMMA AttemptsCoverStep ==
  ASSUME PayTypes, PayTypes', HandlersOK, AttemptsCover, Grows, [QuickPayNext]_quickVars
  PROVE  AttemptsCover'
  <1> USE QuickPayAssumption DEF payVars
  <1>1. ASSUME NEW h \in Handlers, NEW e \in Emails, NEW p \in Phones, NEW n \in {None} \cup {m \in Codes : mailed[m] \in Readable},
               UpdateProfile(h, e, p, n)
        PROVE  AttemptsCover'
    <2> DEFINE newEmail == e # contact.email
               live == visit.change.email # None /\ tick < visit.change.until
               copy == IF newEmail /\ n # None /\ ~live THEN [visit EXCEPT !.change = NoChange] ELSE visit
               next == IF newEmail /\ n = None THEN "challenge" ELSE "profile"
               k == [op |-> next, email |-> e, phone |-> p, newEmail |-> newEmail,
                     newPhone |-> p # contact.phone, copy |-> copy]
    <2>1. job' = [job EXCEPT ![h] = Answers(copy)] \/ job' = [job EXCEPT ![h] = k]
      BY <1>1, Zenon DEF UpdateProfile, Begin
    <2>2. Answers(copy).op = "answer" /\ k.op \in {"challenge", "profile"}
      BY DEF Answers
    <2>3. UNCHANGED <<used, payments>>
      BY <1>1 DEF UpdateProfile
    <2> HIDE DEF copy, k
    <2> QED BY Zenon, <2>1, <2>2, <2>3, CoverDrops
  <1>2. ASSUME NEW h \in Handlers, NEW n \in Codes, CreateChallenge(h, n)
        PROVE  AttemptsCover'
    <2>1. \E v : job' = [job EXCEPT ![h] = Answers(v)]
      BY <1>2, Zenon DEF CreateChallenge, Continue
    <2>2. \A v : Answers(v).op = "answer"
      BY DEF Answers
    <2>3. UNCHANGED <<used, payments>>
      BY <1>2 DEF CreateChallenge, Continue
    <2> QED BY Zenon, <2>1, <2>2, <2>3, CoverDrops
  <1>3. ASSUME NEW h \in Handlers, CommitProfileUpdate(h)
        PROVE  AttemptsCover'
    <2>1. \E v : job' = [job EXCEPT ![h] = Answers(v)]
      BY <1>3, Zenon DEF CommitProfileUpdate, Continue
    <2>2. \A v : Answers(v).op = "answer"
      BY DEF Answers
    <2>3. UNCHANGED <<used, payments>>
      BY <1>3 DEF CommitProfileUpdate, Continue
    <2> QED BY Zenon, <2>1, <2>2, <2>3, CoverDrops
  <1>4. ASSUME NEW h \in Handlers, NEW r \in Recipients, PayupLookup(h, r)
        PROVE  AttemptsCover'
    <2> DEFINE j == [op |-> "limit", phase |-> "lookup", left |-> <<"sender", r>>, who |-> r, copy |-> visit]
    <2>1. job' = [job EXCEPT ![h] = j] /\ UNCHANGED <<used, payments>>
      BY <1>4 DEF PayupLookup, Begin
    <2>2. j.op = "limit" /\ j.phase = "lookup"
      OBVIOUS
    <2> HIDE DEF j
    <2> QED BY ZenonT(30), <2>1, <2>2, CoverDrops
  <1>5. ASSUME NEW h \in Handlers, NEW t \in PayTokens, PayupAmount(h, t)
        PROVE  AttemptsCover'
    <2>1. \E v : job' = [job EXCEPT ![h] = Answers(v)]
      BY <1>5, Zenon DEF PayupAmount, Begin
    <2>2. \A v : Answers(v).op = "answer"
      BY DEF Answers
    <2>3. UNCHANGED <<used, payments>>
      BY <1>5 DEF PayupAmount, Begin
    <2> QED BY Zenon, <2>1, <2>2, <2>3, CoverDrops
  <1>6. ASSUME NEW h \in Handlers, ConsumeAttempt(h)
        PROVE  AttemptsCover'
    <2> DEFINE r == job[h]
               d == Head(r.left)
               k == [r EXCEPT !.left = Tail(@)]
    <2>1. PayJobOK(r) /\ r.op = "limit" /\ r.left # << >> /\ UNCHANGED <<payments, draft>>
      BY <1>6 DEF ConsumeAttempt, HandlersOK
    <2>2. \/ job' = [job EXCEPT ![h] = Answers(r.copy)] /\ UNCHANGED used
          \/ /\ AttemptLeft(r.phase, d) /\ used' = [used EXCEPT ![r.phase][d] = @ + 1]
             /\ job' = [job EXCEPT ![h] = k]
      BY <1>6, Zenon DEF ConsumeAttempt, Continue
    <2>3. /\ k.op = "limit" /\ k.phase = r.phase /\ k.left = Tail(r.left)
          /\ r.phase = "confirm" => k.token = r.token
      BY <2>1, LimitTaken
    <2>4. \A v : Answers(v).op = "answer"
      BY DEF Answers
    <2> HIDE DEF k
    <2>5. CASE job' = [job EXCEPT ![h] = Answers(r.copy)] /\ UNCHANGED used
      BY Zenon, <2>1, <2>4, <2>5, CoverDrops
    <2>6. CASE /\ AttemptLeft(r.phase, d) /\ used' = [used EXCEPT ![r.phase][d] = @ + 1]
               /\ job' = [job EXCEPT ![h] = k]
      <3>1. job'[h] = k /\ \A g \in Handlers \ {h} : job'[g] = job[g]
        BY <2>6 DEF PayTypes
      <3>2. CASE r.phase = "lookup"
        <4>1. d \in Counters
          BY ZenonT(30), <2>1, <3>2, LeftStarts DEF PayJobOK, Counters
        <4>2. used' \in [{"lookup", "confirm"} -> [Counters -> Nat]] /\ used'["confirm"] = used["confirm"]
          BY <2>6, <3>2, <4>1 DEF AttemptsCover
        <4>3. \A c \in Counters : ~Holds(job[h], c)'
          BY <2>3, <3>1, <3>2 DEF Holds
        <4> QED BY Zenon, <2>1, <3>1, <4>2, <4>3, HoldsSame, CoverKept
      <3>3. CASE r.phase = "confirm"
        <4> DEFINE w == draft[r.token].who
        <4>1. r.token \in PayTokens /\ draft[r.token] # NoRow /\ r.left \in LeftOf(w)
          BY Zenon, <2>1, <3>3 DEF PayJobOK
        <4>2. w \in Recipients
          BY <4>1 DEF PayTypes, DraftRow
        <4>3. \/ r.left = <<"sender", w>> /\ d = "sender" /\ Tail(r.left) = <<w>>
              \/ r.left = <<w>> /\ d = w /\ Tail(r.left) = << >>
          BY Zenon, <2>1, <4>1, LeftStarts DEF LeftOf
        <4>4. <<w>> # <<"sender", w>> /\ <<w>> # << >> /\ w # "sender"
          BY <4>2
        <4>5. draft'[r.token].who = w
          BY <2>1
        <4>6. d \in Counters /\ used["confirm"][d] < LimitOf(d)
          BY <2>6, <3>3, <4>2, <4>3 DEF Counters, AttemptLeft, LimitOf
        <4> HIDE DEF w, d
        <4>7. ASSUME NEW c \in Counters, Holds(job[h], c)', c # d
              PROVE  Holds(job[h], c)
          <5>1. k.op = "limit" /\ k.phase = "confirm" /\ k.token = r.token /\ k.left = Tail(r.left)
            BY <2>3, <3>3
          <5>2. c = "sender" \/ (w = c /\ k.left = << >>)
            BY <3>1, <4>5, <4>7, <5>1 DEF Holds
          <5>3. c = "sender" /\ r.left = <<w>>
            BY ZenonT(30), <4>3, <4>4, <4>7, <5>1, <5>2
          <5> QED BY <2>1, <3>3, <4>4, <5>3 DEF Holds, w
        <4>8. \A c \in Counters : Holding(c)' \subseteq Holding(c) \cup (IF c = d THEN {h} ELSE {})
          BY <3>1, <4>7, HoldsSame DEF Holding
        <4>9. used' = [used EXCEPT !["confirm"][d] = @ + 1]
          BY <2>6, <3>3
        <4> QED BY Zenon, <2>1, <4>6, <4>8, <4>9, CoverTaken
      <3> QED BY Zenon, <2>1, <3>2, <3>3 DEF PayJobOK
    <2> QED BY <2>2, <2>5, <2>6
  <1>7. ASSUME NEW h \in Handlers, ResolveRecipient(h)
        PROVE  AttemptsCover'
    <2>1. \E v : job' = [job EXCEPT ![h] = Answers(v)]
      BY <1>7, Zenon DEF ResolveRecipient, Continue
    <2>2. \A v : Answers(v).op = "answer"
      BY DEF Answers
    <2>3. UNCHANGED <<used, payments>>
      BY <1>7 DEF ResolveRecipient, Continue
    <2> QED BY Zenon, <2>1, <2>2, <2>3, CoverDrops
  <1>8. ASSUME NEW h \in Handlers, PayupConfirmPage(h)
        PROVE  AttemptsCover'
    <2>1. \E v : job' = [job EXCEPT ![h] = Answers(v)]
      BY <1>8, Zenon DEF PayupConfirmPage, Begin
    <2>2. \A v : Answers(v).op = "answer"
      BY DEF Answers
    <2>3. UNCHANGED <<used, payments>>
      BY <1>8 DEF PayupConfirmPage, Begin
    <2> QED BY Zenon, <2>1, <2>2, <2>3, CoverDrops
  <1>9. ASSUME NEW h \in Handlers, PayupConfirm(h)
        PROVE  AttemptsCover'
    <2>1. UNCHANGED <<used, payments>>
      BY <1>9 DEF PayupConfirm, Begin
    <2>2. \A g \in Handlers \ {h} : job'[g] = job[g]
      BY <1>9 DEF PayupConfirm, Begin, PayTypes
    <2>3. ASSUME NEW c, Holds(job[h], c)' PROVE Holds(job[h], c)
      <3> DEFINE t == visit.token
                 copy == [visit EXCEPT !.token = None]
                 k == [op |-> "limit", phase |-> "confirm", left |-> <<"sender", draft[t].who>>, token |-> t, copy |-> copy]
      <3>1. t # None /\ UNCHANGED draft
            /\ (job' = [job EXCEPT ![h] = Answers(copy)] \/ job' = [job EXCEPT ![h] = k])
        BY <1>9, Zenon DEF PayupConfirm, Begin, payVars
      <3>2. Answers(copy).op = "answer" /\ <<"sender", draft[t].who>> # << >>
        BY DEF Answers
      <3>3. k.op = "limit" /\ k.phase = "confirm" /\ k.left = <<"sender", draft[t].who>> /\ k.token = t
        OBVIOUS
      <3> HIDE DEF t, copy, k
      <3>4. job'[h] = Answers(copy) \/ job'[h] = k
        BY <3>1 DEF PayTypes
      <3> QED BY Zenon, <2>3, <3>1, <3>2, <3>3, <3>4 DEF Holds
    <2> QED BY <2>1, <2>2, <2>3, HoldsSame, CoverKept DEF AttemptsCover
  <1>10. ASSUME NEW h \in Handlers, PayupStepUp(h)
         PROVE  AttemptsCover'
    <2>1. UNCHANGED <<used, payments>>
      BY <1>10 DEF PayupStepUp, Continue
    <2>2. \A g \in Handlers \ {h} : job'[g] = job[g]
      BY <1>10 DEF PayupStepUp, Continue, PayTypes
    <2>3. ASSUME NEW c, Holds(job[h], c)' PROVE Holds(job[h], c)
      <3>1. PayJobOK(job[h]) /\ job[h].op = "limit" /\ job[h].phase = "confirm" /\ job[h].left = << >> /\ UNCHANGED draft
        BY <1>10 DEF PayupStepUp, HandlersOK, payVars
      <3>2. job'[h].op = "answer" \/ (job'[h].op = "lock" /\ job'[h].token = job[h].token)
        <4>1. PICK v : job' = [job EXCEPT ![h] = Answers(v)] \/ job' = [job EXCEPT ![h] = [op |-> "lock", token |-> job[h].token, copy |-> v]]
          BY <1>10, Zenon DEF PayupStepUp, Continue
        <4> QED BY <4>1 DEF PayTypes, Answers
      <3>3. << >> # <<"sender", draft[job[h].token].who>>
        OBVIOUS
      <3> QED BY <2>3, <3>1, <3>2, <3>3 DEF Holds
    <2> QED BY <2>1, <2>2, <2>3, HoldsSame, CoverKept DEF AttemptsCover
  <1>11. ASSUME NEW h \in Handlers, LockDraft(h)
         PROVE  AttemptsCover'
    <2>1. UNCHANGED <<used, payments>>
      BY <1>11 DEF LockDraft, Continue
    <2>2. \A g \in Handlers \ {h} : job'[g] = job[g]
      BY <1>11 DEF LockDraft, Continue, PayTypes
    <2>3. ASSUME NEW c, Holds(job[h], c)' PROVE Holds(job[h], c)
      <3>1. job[h].op = "lock" /\ UNCHANGED draft
        BY <1>11 DEF LockDraft, payVars
      <3>2. job'[h].op = "answer" \/ (job'[h].op = "pay" /\ job'[h].token = job[h].token)
        BY <1>11 DEF LockDraft, Continue, PayTypes, Answers
      <3> QED BY <2>3, <3>1, <3>2 DEF Holds
    <2> QED BY <2>1, <2>2, <2>3, HoldsSame, CoverKept DEF AttemptsCover
  <1>12. ASSUME NEW h \in Handlers, ExecutePayup(h)
         PROVE  AttemptsCover'
    <2> DEFINE t == job[h].token
               p == [token |-> t, who |-> draft[t].who, looked |-> draft[t].looked,
                     age |-> tick - job[h].copy.since, recent |-> Recent, at |-> job[h].at]
    <2>1. /\ job[h].op = "pay" /\ UNCHANGED used /\ job' = [job EXCEPT ![h] = Answers(job[h].copy)]
          /\ payments' = payments \/ payments' = payments \cup {p}
      BY <1>12, Zenon DEF ExecutePayup, Continue
    <2>2. p.who = draft[t].who
      OBVIOUS
    <2>3. job'[h].op = "answer" /\ \A g \in Handlers \ {h} : job'[g] = job[g]
      BY <2>1 DEF PayTypes, Answers
    <2> HIDE DEF p
    <2>4. ASSUME NEW c \in Counters PROVE Counted(c)'
      <3>1. c = "sender" \/ p.who = c => h \in Holding(c)
        BY <2>1, <2>2 DEF Holding, Holds
      <3>2. Holding(c)' \subseteq Holding(c) \ {h}
        <4>1. ~Holds(job[h], c)'
          BY <2>3 DEF Holds
        <4> QED BY <2>3, <4>1, HoldsSame DEF Holding
      <3>3. Counted(c)
        BY DEF AttemptsCover
      <3> QED BY <2>1, <3>1, <3>2, <3>3, CoverPaid
    <2> QED BY <2>1, <2>4 DEF AttemptsCover
  <1>13. ASSUME SignInAgain
         PROVE  AttemptsCover'
    BY <1>13, CoverStays DEF SignInAgain
  <1>14. ASSUME TickPasses
         PROVE  AttemptsCover'
    BY <1>14, CoverStays DEF TickPasses
  <1>15. ASSUME NEW h \in Handlers, StoreVisit(h)
         PROVE  AttemptsCover'
    BY Zenon, <1>15, CoverDrops DEF StoreVisit, Done, Idle
  <1>16. ASSUME NEW h \in Handlers, QuickPayFails(h)
         PROVE  AttemptsCover'
    BY Zenon, <1>16, CoverDrops DEF QuickPayFails, Done, Idle
  <1>17. ASSUME NEW x \in Emails \cup Phones, OtherTakes(x)
         PROVE  AttemptsCover'
    BY <1>17, CoverStays DEF OtherTakes
  <1>18. ASSUME NEW k \in EventKinds \ {"profile_update"}, SensitiveChange(k)
         PROVE  AttemptsCover'
    BY <1>18, CoverStays DEF SensitiveChange
  <1>19. ASSUME NEW r \in Recipients, RecipientChanges(r)
         PROVE  AttemptsCover'
    BY <1>19, CoverStays DEF RecipientChanges
  <1>20. ASSUME UNCHANGED quickVars
         PROVE  AttemptsCover'
    BY <1>20, CoverStays DEF quickVars
  <1> HIDE DEF payVars
  <1> QED BY Zenon, <1>1, <1>2, <1>3, <1>4, <1>5, <1>6, <1>7, <1>8, <1>9, <1>10, <1>11, <1>12,
             <1>13, <1>14, <1>15, <1>16, <1>17, <1>18, <1>19, <1>20 DEF QuickPayNext, ProfileNext,
             PayupNext

LEMMA DraftsTimelyStep ==
  ASSUME PayTypes, HandlersOK, DraftsTimely, Grows, [QuickPayNext]_quickVars
  PROVE  DraftsTimely'
  <1> USE QuickPayAssumption DEF DraftsTimely, payVars
  <1>1. ASSUME NEW h \in Handlers, NEW e \in Emails, NEW p \in Phones, NEW n \in {None} \cup {m \in Codes : mailed[m] \in Readable},
               UpdateProfile(h, e, p, n)
        PROVE  DraftsTimely'
    BY <1>1 DEF UpdateProfile, Begin
  <1>2. ASSUME NEW h \in Handlers, NEW n \in Codes, CreateChallenge(h, n)
        PROVE  DraftsTimely'
    BY <1>2 DEF CreateChallenge, Continue
  <1>3. ASSUME NEW h \in Handlers, CommitProfileUpdate(h)
        PROVE  DraftsTimely'
    BY <1>3 DEF CommitProfileUpdate, Continue
  <1>4. ASSUME NEW h \in Handlers, NEW r \in Recipients, PayupLookup(h, r)
        PROVE  DraftsTimely'
    BY ZenonT(30), <1>4 DEF PayupLookup, Begin
  <1>5. ASSUME NEW h \in Handlers, NEW t \in PayTokens, PayupAmount(h, t)
        PROVE  DraftsTimely'
    <2>1. visit.to.at \in Nat /\ tick \in Nat
      BY DEF PayTypes, QuickPayTypeOK, Visit
    <2>2. CASE PendingRecipient(visit.to)
      <3> DEFINE d == [status |-> "pending", who |-> visit.to.who, looked |-> visit.to.at,
                       until |-> tick + ConfirmTtl, consumed |-> FALSE]
      <3>1. draft' = [draft EXCEPT ![t] = d]
        BY <1>5, <2>2, Zenon DEF PayupAmount
      <3>2. d.until <= d.looked + LookupTtl + ConfirmTtl
        <4>1. d.until = tick + ConfirmTtl /\ d.looked = visit.to.at
          BY Zenon
        <4>2. tick <= visit.to.at + LookupTtl
          BY Zenon, <2>2 DEF PendingRecipient
        <4>3. LookupTtl \in Nat /\ ConfirmTtl \in Nat
          BY Zenon
        <4> HIDE QuickPayAssumption DEF d, DraftsTimely, payVars
        <4> QED BY <2>1, <4>1, <4>2, <4>3
      <3> HIDE DEF d
      <3> QED BY <3>1, <3>2 DEF PayTypes
    <2>3. CASE ~PendingRecipient(visit.to)
      <3>1. UNCHANGED draft
        BY <1>5, <2>3, Zenon DEF PayupAmount
      <3> QED BY <3>1
    <2> QED BY Zenon, <2>2, <2>3
  <1>6. ASSUME NEW h \in Handlers, ConsumeAttempt(h)
        PROVE  DraftsTimely'
    BY <1>6 DEF ConsumeAttempt, Continue
  <1>7. ASSUME NEW h \in Handlers, ResolveRecipient(h)
        PROVE  DraftsTimely'
    BY <1>7 DEF ResolveRecipient, Continue
  <1>8. ASSUME NEW h \in Handlers, PayupConfirmPage(h)
        PROVE  DraftsTimely'
    BY <1>8 DEF PayupConfirmPage, Begin
  <1>9. ASSUME NEW h \in Handlers, PayupConfirm(h)
        PROVE  DraftsTimely'
    BY <1>9 DEF PayupConfirm, Begin
  <1>10. ASSUME NEW h \in Handlers, PayupStepUp(h)
         PROVE  DraftsTimely'
    BY <1>10 DEF PayupStepUp, Continue
  <1>11. ASSUME NEW h \in Handlers, LockDraft(h)
         PROVE  DraftsTimely'
    BY ZenonT(30), <1>11 DEF LockDraft, Continue
  <1>12. ASSUME NEW h \in Handlers, ExecutePayup(h)
         PROVE  DraftsTimely'
    <2>1. job[h].token \in PayTokens /\ draft[job[h].token] # NoRow
      BY Zenon, <1>12 DEF ExecutePayup, HandlersOK, PayJobOK
    <2>2. \A t \in PayTokens : draft[t] = NoRow => draft'[t] = NoRow
      BY <1>12, <2>1 DEF ExecutePayup, PayTypes
    <2> QED BY Zenon, <2>2 DEF Grows
  <1>13. ASSUME SignInAgain
         PROVE  DraftsTimely'
    BY Zenon, <1>13 DEF SignInAgain
  <1>14. ASSUME TickPasses
         PROVE  DraftsTimely'
    BY <1>14 DEF TickPasses
  <1>15. ASSUME NEW h \in Handlers, StoreVisit(h)
         PROVE  DraftsTimely'
    BY <1>15 DEF StoreVisit, Done
  <1>16. ASSUME NEW h \in Handlers, QuickPayFails(h)
         PROVE  DraftsTimely'
    BY <1>16 DEF QuickPayFails, Done
  <1>17. ASSUME NEW x \in Emails \cup Phones, OtherTakes(x)
         PROVE  DraftsTimely'
    BY <1>17 DEF OtherTakes
  <1>18. ASSUME NEW k \in EventKinds \ {"profile_update"}, SensitiveChange(k)
         PROVE  DraftsTimely'
    BY <1>18 DEF SensitiveChange
  <1>19. ASSUME NEW r \in Recipients, RecipientChanges(r)
         PROVE  DraftsTimely'
    BY <1>19 DEF RecipientChanges
  <1>20. ASSUME UNCHANGED quickVars
         PROVE  DraftsTimely'
    BY <1>20 DEF quickVars
  <1> HIDE DEF DraftsTimely, payVars
  <1> QED BY ZenonT(30), <1>1, <1>2, <1>3, <1>4, <1>5, <1>6, <1>7, <1>8, <1>9, <1>10, <1>11, <1>12,
             <1>13, <1>14, <1>15, <1>16, <1>17, <1>18, <1>19, <1>20 DEF QuickPayNext, ProfileNext,
             PayupNext

LEMMA PaymentsAllowedStep ==
  ASSUME PayTypes, HandlersOK, DraftsTimely, PaymentsAllowed, [QuickPayNext]_quickVars
  PROVE  PaymentsAllowed'
  <1> USE QuickPayAssumption DEF PaymentsAllowed, payVars
  <1>1. ASSUME NEW h \in Handlers, NEW e \in Emails, NEW p \in Phones, NEW n \in {None} \cup {m \in Codes : mailed[m] \in Readable},
               UpdateProfile(h, e, p, n)
        PROVE  PaymentsAllowed'
    BY <1>1 DEF UpdateProfile, Begin
  <1>2. ASSUME NEW h \in Handlers, NEW n \in Codes, CreateChallenge(h, n)
        PROVE  PaymentsAllowed'
    BY <1>2 DEF CreateChallenge, Continue
  <1>3. ASSUME NEW h \in Handlers, CommitProfileUpdate(h)
        PROVE  PaymentsAllowed'
    BY <1>3 DEF CommitProfileUpdate, Continue
  <1>4. ASSUME NEW h \in Handlers, NEW r \in Recipients, PayupLookup(h, r)
        PROVE  PaymentsAllowed'
    BY <1>4 DEF PayupLookup, Begin
  <1>5. ASSUME NEW h \in Handlers, NEW t \in PayTokens, PayupAmount(h, t)
        PROVE  PaymentsAllowed'
    BY <1>5 DEF PayupAmount, Begin
  <1>6. ASSUME NEW h \in Handlers, ConsumeAttempt(h)
        PROVE  PaymentsAllowed'
    BY <1>6 DEF ConsumeAttempt, Continue
  <1>7. ASSUME NEW h \in Handlers, ResolveRecipient(h)
        PROVE  PaymentsAllowed'
    BY <1>7 DEF ResolveRecipient, Continue
  <1>8. ASSUME NEW h \in Handlers, PayupConfirmPage(h)
        PROVE  PaymentsAllowed'
    BY <1>8 DEF PayupConfirmPage, Begin
  <1>9. ASSUME NEW h \in Handlers, PayupConfirm(h)
        PROVE  PaymentsAllowed'
    BY <1>9 DEF PayupConfirm, Begin
  <1>10. ASSUME NEW h \in Handlers, PayupStepUp(h)
         PROVE  PaymentsAllowed'
    BY <1>10 DEF PayupStepUp, Continue
  <1>11. ASSUME NEW h \in Handlers, LockDraft(h)
         PROVE  PaymentsAllowed'
    BY <1>11 DEF LockDraft, Continue
  <1>12. ASSUME NEW h \in Handlers, ExecutePayup(h)
         PROVE  PaymentsAllowed'
    <2> DEFINE t == job[h].token
               p == [token |-> t, who |-> draft[t].who, looked |-> draft[t].looked,
                     age |-> tick - job[h].copy.since, recent |-> Recent, at |-> job[h].at]
    <2>1. payments' = payments \/ (payments' = payments \cup {p} /\ ~RiskBlocked(job[h].copy.since))
      BY <1>12, Zenon DEF ExecutePayup
    <2>2. PayJobOK(job[h]) /\ job[h].op = "pay"
      BY ZenonT(30), <1>12 DEF ExecutePayup, HandlersOK
    <2>3. /\ t \in PayTokens /\ draft[t] # NoRow /\ job[h].at \in Nat /\ job[h].at <= draft[t].until
          /\ job[h].copy.since \in Nat /\ tick \in Nat
      BY SMTT(30), <2>2 DEF PayJobOK, CopyOK, Visit, PayTypes
    <2>4. draft[t].until \in Nat /\ draft[t].looked \in Nat
      BY <2>3 DEF PayTypes, DraftRow
    <2>5. p.at <= p.looked + LookupTtl + ConfirmTtl
      <3>1. draft[t].until <= draft[t].looked + LookupTtl + ConfirmTtl
        BY <2>3 DEF DraftsTimely
      <3>2. p.at = job[h].at /\ p.looked = draft[t].looked
        OBVIOUS
      <3> HIDE DEF p, t
      <3> QED BY <2>3, <2>4, <3>1, <3>2
    <2>6. ~RiskBlocked(job[h].copy.since) => p.age <= MaxAge /\ p.recent \cap {"profile_update", "password_change"} = {}
      <3>1. p.age = tick - job[h].copy.since /\ p.recent = Recent
        OBVIOUS
      <3> HIDE DEF p, t
      <3> QED BY <2>3, <3>1 DEF RiskBlocked, RecentSensitiveEvent
    <2> HIDE DEF p
    <2> QED BY <2>1, <2>5, <2>6
  <1>13. ASSUME SignInAgain
         PROVE  PaymentsAllowed'
    BY ZenonT(30), <1>13 DEF SignInAgain
  <1>14. ASSUME TickPasses
         PROVE  PaymentsAllowed'
    BY ZenonT(30), <1>14 DEF TickPasses
  <1>15. ASSUME NEW h \in Handlers, StoreVisit(h)
         PROVE  PaymentsAllowed'
    BY <1>15 DEF StoreVisit, Done
  <1>16. ASSUME NEW h \in Handlers, QuickPayFails(h)
         PROVE  PaymentsAllowed'
    BY <1>16 DEF QuickPayFails, Done
  <1>17. ASSUME NEW x \in Emails \cup Phones, OtherTakes(x)
         PROVE  PaymentsAllowed'
    BY <1>17 DEF OtherTakes
  <1>18. ASSUME NEW k \in EventKinds \ {"profile_update"}, SensitiveChange(k)
         PROVE  PaymentsAllowed'
    BY Zenon, <1>18 DEF SensitiveChange
  <1>19. ASSUME NEW r \in Recipients, RecipientChanges(r)
         PROVE  PaymentsAllowed'
    BY ZenonT(30), <1>19 DEF RecipientChanges
  <1>20. ASSUME UNCHANGED quickVars
         PROVE  PaymentsAllowed'
    BY ZenonT(30), <1>20 DEF quickVars
  <1> HIDE DEF PaymentsAllowed, payVars
  <1> QED BY ZenonT(30), <1>1, <1>2, <1>3, <1>4, <1>5, <1>6, <1>7, <1>8, <1>9, <1>10, <1>11, <1>12,
             <1>13, <1>14, <1>15, <1>16, <1>17, <1>18, <1>19, <1>20 DEF QuickPayNext, ProfileNext,
             PayupNext

QuickPayInv ==
  /\ PayTypes /\ HandlersOK /\ CopyOK(visit) /\ ContactProved
  /\ DraftsTimely /\ PaymentsAllowed /\ AttemptsCover

LEMMA QuickPayStart == QuickPayInit => QuickPayInv
  <1> SUFFICES ASSUME QuickPayInit PROVE QuickPayInv
    BY Zenon
  <1>1. visit \in Visit /\ visit.change.code = None /\ visit.token = None
    BY ZenonT(30), FirstTimes DEF QuickPayInit, Visit, NoChange, NoRecipient
  <1>2. QuickPayTypeOK
    <2>1. contact \in [email : Emails, phone : Phones]
      BY ZenonT(30), QuickPayAssumption DEF QuickPayInit
    <2>2. mailed \in [Codes -> Emails \cup {None}]
      BY ZenonT(30) DEF QuickPayInit
    <2>3. event \in [EventKinds -> 0..Never]
      BY ZenonT(30), FirstTimes DEF QuickPayInit
    <2> QED BY ZenonT(30), <1>1, <2>1, <2>2, <2>3 DEF QuickPayTypeOK, QuickPayInit
  <1>3. PayTypes
    BY ZenonT(30), <1>2, FirstTimes DEF QuickPayInit, PayTypes
  <1>4. DraftsTimely /\ PaymentsAllowed
    BY ZenonT(30) DEF QuickPayInit, DraftsTimely, PaymentsAllowed
  <1>5. ContactProved
    BY ZenonT(30), QuickPayAssumption DEF QuickPayInit, ContactProved
  <1>6. HandlersOK
    BY ZenonT(30) DEF QuickPayInit, HandlersOK, PayJobOK, Idle
  <1>7. CopyOK(visit)
    BY ZenonT(30), <1>1 DEF CopyOK
  <1>8. AttemptsCover
    <2>1. used = [lookup |-> [c \in Counters |-> 0], confirm |-> [c \in Counters |-> 0]]
      BY ZenonT(30) DEF QuickPayInit
    <2>2. \A c \in Counters : Paid(c) = {} /\ Holding(c) = {}
      BY ZenonT(30) DEF QuickPayInit, Paid, Holding, Holds, Idle
    <2>3. \A c \in Counters : 0 <= LimitOf(c)
      BY ZenonT(30), FirstTimes DEF LimitOf
    <2> HIDE DEF QuickPayInit
    <2>4. \A c \in Counters : used["confirm"][c] = 0
      BY <2>1
    <2>5. IsFiniteSet({}) /\ Cardinality({}) = 0
      BY FS_EmptySet
    <2>6. \A c \in Counters : Counted(c)
      <3> SUFFICES ASSUME NEW c \in Counters PROVE Counted(c)
        BY Zenon
      <3>1. Paid(c) = {} /\ Holding(c) = {} /\ used["confirm"][c] = 0 /\ 0 <= LimitOf(c)
        BY Zenon, <2>2, <2>3, <2>4
      <3> QED BY <2>5, <3>1 DEF Counted
    <2>7. used \in [{"lookup", "confirm"} -> [Counters -> Nat]]
      <3> DEFINE zero == [c \in Counters |-> 0]
      <3>1. zero \in [Counters -> Nat]
        BY Zenon, FirstTimes
      <3>2. used = [lookup |-> zero, confirm |-> zero]
        BY Zenon, <2>1
      <3> HIDE DEF zero
      <3> QED BY <3>1, <3>2
    <2> QED BY ZenonT(30), <2>6, <2>7 DEF AttemptsCover
  <1> QED BY ZenonT(30), <1>3, <1>4, <1>5, <1>6, <1>7, <1>8 DEF QuickPayInv

LEMMA QuickPayStep == QuickPayInv /\ [QuickPayNext]_quickVars => QuickPayInv'
  <1> SUFFICES ASSUME QuickPayInv, [QuickPayNext]_quickVars PROVE QuickPayInv'
    OBVIOUS
  <1>1. PayTypes' /\ Grows
    BY PayTypesStep DEF QuickPayInv
  <1>2. HandlersOK' /\ CopyOK(visit)'
    BY <1>1, HandlersStep, VisitStep DEF QuickPayInv
  <1>3. ContactProved' /\ DraftsTimely' /\ PaymentsAllowed' /\ AttemptsCover'
    BY <1>1, ContactStep, DraftsTimelyStep, PaymentsAllowedStep, AttemptsCoverStep DEF QuickPayInv
  <1> QED BY <1>1, <1>2, <1>3 DEF QuickPayInv

\* The payments of a recipient, and all of them, are attempts that were counted.
LEMMA PolicyFollows == QuickPayInv => PayupPolicyHeld
  <1> SUFFICES ASSUME QuickPayInv PROVE PayupPolicyHeld
    OBVIOUS
  <1>1. ASSUME NEW c \in Counters
        PROVE  Cardinality(Paid(c)) <= LimitOf(c)
    <2>1. Counted(c)
      BY DEF QuickPayInv, AttemptsCover
    <2>2. Cardinality(Paid(c)) \in Nat /\ Cardinality(Holding(c)) \in Nat /\ LimitOf(c) \in Nat
      BY <2>1, FS_CardinalityType, QuickPayAssumption DEF Counted, LimitOf
    <2> QED BY <2>1, <2>2 DEF Counted
  <1>2. Paid("sender") = payments /\ LimitOf("sender") = AttemptLimit.sender /\ "sender" \in Counters
    BY DEF Paid, LimitOf, Counters
  <1>3. ASSUME NEW r \in Recipients
        PROVE  Cardinality({p \in payments : p.who = r}) <= AttemptLimit.recipient
    <2>1. r # "sender" /\ r \in Counters
      BY QuickPayAssumption DEF Counters
    <2>2. Paid(r) = {p \in payments : p.who = r} /\ LimitOf(r) = AttemptLimit.recipient
      BY <2>1 DEF Paid, LimitOf
    <2> QED BY <1>1, <2>1, <2>2
  <1>4. Cardinality(payments) <= AttemptLimit.sender
    BY <1>1, <1>2
  <1> QED BY <1>3, <1>4 DEF PayupPolicyHeld, QuickPayInv, PaymentsAllowed

\* _commit_profile_update and the code of _create_profile_email_change_challenge, for any
\* addresses, codes and handlers: the account's email is one its owner reads, and no other
\* customer has it or the phone number.
THEOREM QuickPayContact == QuickPaySpec => []ContactProved
  <1>1. QuickPayInv => ContactProved
    BY DEF QuickPayInv
  <1> QED BY <1>1, QuickPayStart, QuickPayStep, PTL DEF QuickPaySpec

\* execute_payup_transfer, for any tokens, recipients, limits and handlers: every payment
\* keeps the policy and the lifetimes, and there are no more in a window than the attempt
\* limits of the sender and of the recipient allow.
THEOREM QuickPayPolicy == QuickPaySpec => []PayupPolicyHeld
  BY PolicyFollows, QuickPayStart, QuickPayStep, PTL DEF QuickPaySpec

-----------------------------------------------------------------------------
(* Saved payees.                                                           *)

\* What a handler holds, by what it is about to do.
PayeeJobOK(j) ==
  j # Idle =>
    /\ j.copy \in WebData
    /\ j.op \in {"add", "insert"} => j.account \in Accounts
    /\ j.op \in {"remove", "submit", "execute"} => j.id \in PayeeIds
    /\ j.op = "execute" => j.token \in Tokens

PayeeTypes ==
  /\ PayeesTypeOK /\ paid \in [Tokens -> Nat] /\ time \in 0..MaxTime
  /\ job = [h \in Handlers |-> job[h]] /\ \A h \in Handlers : PayeeJobOK(job[h])

\* A token pays at most once, and the pending row of one that has paid is consumed.
PaidIsConsumed ==
  \A t \in Tokens : paid[t] <= 1 /\ (paid[t] # 0 => pend[t] # NoRow /\ pend[t].consumed)

\* A token in the session, or in a request's copy of it, has its pending row.
TokensPending ==
  /\ web.token # None => pend[web.token] # NoRow
  /\ \A h \in Handlers : job[h] # Idle =>
       /\ job[h].copy.token # None => pend[job[h].copy.token] # NoRow
       /\ job[h].op = "execute" => pend[job[h].token] # NoRow

\* The payee of a request that is about to execute is cool, or was removed for good.
ExecutesCool ==
  /\ \A i \in deleted : payee[i] = NoRow
  /\ \A h \in Handlers : job[h].op = "execute" =>
       job[h].id \in deleted \/ (payee[job[h].id] # NoRow /\ Cooled(payee[job[h].id]))

\* A ledger row's payee has a pending row, which keeps it from being removed.
LedgerPinned ==
  \A r \in ledger : /\ r.waited >= Cooldown /\ r.payee = r.signed
                    /\ pend[r.token] # NoRow /\ pend[r.token].payee = r.signed

LEMMA PayeeTypesStep ==
  ASSUME PayeeTypes, TokensPending, ExecutesCool, [PayeesNext]_payeeVars
  PROVE  PayeeTypes'
  <1> USE PayeesAssumption DEF PayeeTypes, PayeesTypeOK, PayeeJobOK, WebData, NoPending, PayeeRow,
          PendRow, LedgerRow, NoRow, Idle
  <1>1. ASSUME NEW h \in Handlers, Answer(h)
        PROVE  PayeeTypes'
    BY SMTT(30), <1>1 DEF Answer, Done
  <1>2. ASSUME NEW h \in Handlers, AddSubmit(h)
        PROVE  PayeeTypes'
    BY <1>2 DEF AddSubmit, Answering, Continue
  <1>3. ASSUME NEW h \in Handlers, ConfirmPayee(h)
        PROVE  PayeeTypes'
    BY <1>3 DEF ConfirmPayee, Begin, Free
  <1>4. ASSUME NEW h \in Handlers, CancelPayee(h)
        PROVE  PayeeTypes'
    BY <1>4 DEF CancelPayee, Begin, Free
  <1>5. ASSUME NEW h \in Handlers, RemoveCommit(h)
        PROVE  PayeeTypes'
    <2>1. CASE UNCHANGED <<payee, deleted, ledger>>
      BY <1>5, <2>1 DEF RemoveCommit, Answering, Continue
    <2>2. CASE /\ payee' = [payee EXCEPT ![job[h].id] = NoRow] /\ deleted' = deleted \cup {job[h].id}
               /\ ledger' = {[r EXCEPT !.payee = IF @ = job[h].id THEN None ELSE @] : r \in ledger}
      <3>1. ledger' \subseteq LedgerRow
        BY <2>2
      <3>2. job[h].id \in PayeeIds
        BY <1>5 DEF RemoveCommit
      <3> HIDE DEF LedgerRow
      <3> QED BY <1>5, <2>2, <3>1, <3>2 DEF RemoveCommit, Answering, Continue
    <2> QED BY <1>5, <2>1, <2>2 DEF RemoveCommit
  <1>6. ASSUME NEW h \in Handlers, TransferExecute(h)
        PROVE  PayeeTypes'
    <2> DEFINE t == job[h].token
               i == job[h].id
               row == [token |-> t, payee |-> i, signed |-> i, waited |-> time - payee[i].at]
    <2>1. t \in Tokens /\ i \in PayeeIds /\ pend[t] \in PendRow /\ job[h].copy \in WebData
      BY <1>6 DEF TransferExecute, TokensPending
    <2>2. payee[i] # NoRow => row \in LedgerRow
      BY SMTT(30), <1>6, <2>1 DEF TransferExecute, ExecutesCool, Cooled
    <2>3. [pend[t] EXCEPT !.consumed = TRUE] \in PendRow
      BY Zenon, <2>1
    <2>4. /\ UNCHANGED <<payee, deleted, web, time>>
          /\ job' = [job EXCEPT ![h] = [op |-> "answer", copy |-> job[h].copy]]
          /\ \/ UNCHANGED <<pend, ledger, paid>>
             \/ /\ pend' = [pend EXCEPT ![t].consumed = TRUE] /\ ledger' = ledger \cup {row}
                /\ payee[i] # NoRow /\ paid' = [paid EXCEPT ![t] = @ + 1]
      BY <1>6 DEF TransferExecute, Answering, Continue
    <2> HIDE DEF t, i, row, LedgerRow, PendRow, WebData, PayeeRow
    <2>5. PayeesTypeOK' /\ paid' \in [Tokens -> Nat] /\ time' \in 0..MaxTime
      <3> HIDE DEF NoRow, Idle, PayeeJobOK
      <3>1. pend' \in [Tokens -> PendRow \cup {NoRow}]
        BY Zenon, <2>1, <2>3, <2>4
      <3>2. ledger' \subseteq LedgerRow /\ paid' \in [Tokens -> Nat]
        BY <2>1, <2>2, <2>4
      <3> QED BY <2>4, <3>1, <3>2
    <2>6. job' = [g \in Handlers |-> job'[g]] /\ \A g \in Handlers : PayeeJobOK(job'[g])
      <3> HIDE DEF PayeesTypeOK
      <3> QED BY <2>1, <2>4
    <2> QED BY <2>5, <2>6
  <1>7. ASSUME NEW h \in Handlers, PayeeHandlerFails(h)
        PROVE  PayeeTypes'
    BY <1>7 DEF PayeeHandlerFails, Free, Done
  <1>8. ASSUME NEW h \in Handlers, NEW a \in Accounts, AddBegin(h, a)
        PROVE  PayeeTypes'
    BY <1>8 DEF AddBegin, Begin, Free
  <1>9. ASSUME NEW h \in Handlers, NEW i \in PayeeIds, InsertPayee(h, i)
        PROVE  PayeeTypes'
    BY SMTT(30), <1>9 DEF InsertPayee, Answering, Continue
  <1>10. ASSUME NEW h \in Handlers, NEW i \in PayeeIds, RemoveBegin(h, i)
         PROVE  PayeeTypes'
    BY <1>10 DEF RemoveBegin, Begin, Free
  <1>11. ASSUME NEW h \in Handlers, NEW i \in PayeeIds, TransferBegin(h, i)
         PROVE  PayeeTypes'
    BY <1>11 DEF TransferBegin, Begin, Free
  <1>12. ASSUME NEW h \in Handlers, NEW i \in PayeeIds, TransferConfirm(h, i)
         PROVE  PayeeTypes'
    BY SMTT(30), <1>12 DEF TransferConfirm, Begin, Free, Cooled
  <1>13. ASSUME NEW h \in Handlers, NEW t \in Tokens, TransferPend(h, t)
         PROVE  PayeeTypes'
    BY <1>13 DEF TransferPend, Answering, Continue
  <1>14. ASSUME PayeeSignIn
         PROVE  PayeeTypes'
    BY <1>14 DEF PayeeSignIn
  <1>15. ASSUME PayeeTimePasses
         PROVE  PayeeTypes'
    BY <1>15 DEF PayeeTimePasses
  <1>16. ASSUME UNCHANGED payeeVars
         PROVE  PayeeTypes'
    BY <1>16 DEF payeeVars
  <1>17. ASSUME NEW h \in Handlers, TransferRefused(h)
         PROVE  PayeeTypes'
    <2> DEFINE t == job[h].token
    <2>1. t \in Tokens /\ pend[t] \in PendRow /\ job[h].copy \in WebData
      BY <1>17 DEF TransferRefused, TokensPending
    <2>2. [pend[t] EXCEPT !.consumed = TRUE] \in PendRow
      BY Zenon, <2>1
    <2>3. /\ UNCHANGED <<payee, deleted, ledger, paid, web, time>>
          /\ job' = [job EXCEPT ![h] = [op |-> "answer", copy |-> job[h].copy]]
          /\ pend' = [pend EXCEPT ![t].consumed = TRUE]
      BY <1>17 DEF TransferRefused, Answering, Continue
    <2> HIDE DEF t, LedgerRow, PendRow, WebData, PayeeRow
    <2>4. pend' \in [Tokens -> PendRow \cup {NoRow}]
      <3> HIDE DEF NoRow, Idle, PayeeJobOK
      <3> QED BY Zenon, <2>1, <2>2, <2>3
    <2>5. job' = [g \in Handlers |-> job'[g]] /\ \A g \in Handlers : PayeeJobOK(job'[g])
      <3> HIDE DEF PayeesTypeOK
      <3> QED BY <2>1, <2>3
    <2> QED BY <2>3, <2>4, <2>5
  <1> HIDE DEF PayeeTypes, PayeesTypeOK, PayeeJobOK, WebData, NoPending, PayeeRow, PendRow,
           LedgerRow, NoRow, Idle
  <1> QED BY ZenonT(30), <1>1, <1>2, <1>3, <1>4, <1>5, <1>6, <1>7, <1>8, <1>9, <1>10, <1>11, <1>12,
             <1>13, <1>14, <1>15, <1>16, <1>17 DEF PayeesNext

LEMMA TokensPendingStep ==
  ASSUME PayeeTypes, TokensPending, [PayeesNext]_payeeVars
  PROVE  TokensPending'
  <1> USE PayeesAssumption DEF PayeeTypes, PayeesTypeOK, PayeeJobOK, TokensPending, PendRow,
          WebData, NoRow, Idle
  <1>1. ASSUME NEW h \in Handlers, Answer(h)
        PROVE  TokensPending'
    BY <1>1 DEF Answer, Done
  <1>2. ASSUME NEW h \in Handlers, AddSubmit(h)
        PROVE  TokensPending'
    BY <1>2 DEF AddSubmit, Answering, Continue
  <1>3. ASSUME NEW h \in Handlers, ConfirmPayee(h)
        PROVE  TokensPending'
    BY <1>3 DEF ConfirmPayee, Begin, Free
  <1>4. ASSUME NEW h \in Handlers, CancelPayee(h)
        PROVE  TokensPending'
    BY <1>4 DEF CancelPayee, Begin, Free
  <1>5. ASSUME NEW h \in Handlers, RemoveCommit(h)
        PROVE  TokensPending'
    BY <1>5 DEF RemoveCommit, Answering, Continue
  <1>6. ASSUME NEW h \in Handlers, TransferExecute(h)
        PROVE  TokensPending'
    BY <1>6 DEF TransferExecute, Answering, Continue
  <1>7. ASSUME NEW h \in Handlers, PayeeHandlerFails(h)
        PROVE  TokensPending'
    BY <1>7 DEF PayeeHandlerFails, Free, Done
  <1>8. ASSUME NEW h \in Handlers, NEW a \in Accounts, AddBegin(h, a)
        PROVE  TokensPending'
    BY <1>8 DEF AddBegin, Begin, Free
  <1>9. ASSUME NEW h \in Handlers, NEW i \in PayeeIds, InsertPayee(h, i)
        PROVE  TokensPending'
    BY SMTT(30), <1>9 DEF InsertPayee, Answering, Continue
  <1>10. ASSUME NEW h \in Handlers, NEW i \in PayeeIds, RemoveBegin(h, i)
         PROVE  TokensPending'
    BY <1>10 DEF RemoveBegin, Begin, Free
  <1>11. ASSUME NEW h \in Handlers, NEW i \in PayeeIds, TransferBegin(h, i)
         PROVE  TokensPending'
    BY <1>11 DEF TransferBegin, Begin, Free
  <1>12. ASSUME NEW h \in Handlers, NEW i \in PayeeIds, TransferConfirm(h, i)
         PROVE  TokensPending'
    BY <1>12 DEF TransferConfirm, Begin, Free, Cooled
  <1>13. ASSUME NEW h \in Handlers, NEW t \in Tokens, TransferPend(h, t)
         PROVE  TokensPending'
    BY <1>13 DEF TransferPend, Answering, Continue
  <1>14. ASSUME PayeeSignIn
         PROVE  TokensPending'
    BY <1>14 DEF PayeeSignIn
  <1>15. ASSUME PayeeTimePasses
         PROVE  TokensPending'
    BY <1>15 DEF PayeeTimePasses
  <1>16. ASSUME UNCHANGED payeeVars
         PROVE  TokensPending'
    BY <1>16 DEF payeeVars
  <1>17. ASSUME NEW h \in Handlers, TransferRefused(h)
         PROVE  TokensPending'
    BY <1>17 DEF TransferRefused, Answering, Continue
  <1> HIDE DEF PayeeTypes, PayeesTypeOK, PayeeJobOK, TokensPending, PendRow, WebData, NoRow, Idle
  <1> QED BY ZenonT(30), <1>1, <1>2, <1>3, <1>4, <1>5, <1>6, <1>7, <1>8, <1>9, <1>10, <1>11, <1>12,
             <1>13, <1>14, <1>15, <1>16, <1>17 DEF PayeesNext

LEMMA PaidStep ==
  ASSUME PayeeTypes, TokensPending, PaidIsConsumed, [PayeesNext]_payeeVars
  PROVE  PaidIsConsumed'
  <1> USE PayeesAssumption DEF PayeeTypes, PayeesTypeOK, PayeeJobOK, PaidIsConsumed, PendRow,
          Unconsumed, NoRow, Idle
  <1>1. ASSUME NEW h \in Handlers, Answer(h)
        PROVE  PaidIsConsumed'
    BY <1>1 DEF Answer, Done
  <1>2. ASSUME NEW h \in Handlers, AddSubmit(h)
        PROVE  PaidIsConsumed'
    BY <1>2 DEF AddSubmit, Answering, Continue
  <1>3. ASSUME NEW h \in Handlers, ConfirmPayee(h)
        PROVE  PaidIsConsumed'
    BY <1>3 DEF ConfirmPayee, Begin, Free
  <1>4. ASSUME NEW h \in Handlers, CancelPayee(h)
        PROVE  PaidIsConsumed'
    BY <1>4 DEF CancelPayee, Begin, Free
  <1>5. ASSUME NEW h \in Handlers, RemoveCommit(h)
        PROVE  PaidIsConsumed'
    BY <1>5 DEF RemoveCommit, Answering, Continue
  <1>6. ASSUME NEW h \in Handlers, TransferExecute(h)
        PROVE  PaidIsConsumed'
    <2> DEFINE t == job[h].token
    <2>1. t \in Tokens /\ pend[t] \in PendRow /\ pend[t] # NoRow
      BY <1>6 DEF TransferExecute, TokensPending
    <2>2. \/ UNCHANGED <<pend, paid>>
          \/ /\ pend' = [pend EXCEPT ![t].consumed = TRUE] /\ ~pend[t].consumed
             /\ paid' = [paid EXCEPT ![t] = @ + 1]
      BY <1>6 DEF TransferExecute
    <2> HIDE DEF t
    <2> QED BY <2>1, <2>2
  <1>7. ASSUME NEW h \in Handlers, PayeeHandlerFails(h)
        PROVE  PaidIsConsumed'
    BY <1>7 DEF PayeeHandlerFails, Free, Done
  <1>8. ASSUME NEW h \in Handlers, NEW a \in Accounts, AddBegin(h, a)
        PROVE  PaidIsConsumed'
    BY <1>8 DEF AddBegin, Begin, Free
  <1>9. ASSUME NEW h \in Handlers, NEW i \in PayeeIds, InsertPayee(h, i)
        PROVE  PaidIsConsumed'
    BY <1>9 DEF InsertPayee, Answering, Continue
  <1>10. ASSUME NEW h \in Handlers, NEW i \in PayeeIds, RemoveBegin(h, i)
         PROVE  PaidIsConsumed'
    BY <1>10 DEF RemoveBegin, Begin, Free
  <1>11. ASSUME NEW h \in Handlers, NEW i \in PayeeIds, TransferBegin(h, i)
         PROVE  PaidIsConsumed'
    BY <1>11 DEF TransferBegin, Begin, Free
  <1>12. ASSUME NEW h \in Handlers, NEW i \in PayeeIds, TransferConfirm(h, i)
         PROVE  PaidIsConsumed'
    BY <1>12 DEF TransferConfirm, Begin, Free, Cooled
  <1>13. ASSUME NEW h \in Handlers, NEW t \in Tokens, TransferPend(h, t)
         PROVE  PaidIsConsumed'
    BY <1>13 DEF TransferPend, Answering, Continue
  <1>14. ASSUME PayeeSignIn
         PROVE  PaidIsConsumed'
    BY <1>14 DEF PayeeSignIn
  <1>15. ASSUME PayeeTimePasses
         PROVE  PaidIsConsumed'
    BY <1>15 DEF PayeeTimePasses
  <1>16. ASSUME UNCHANGED payeeVars
         PROVE  PaidIsConsumed'
    BY <1>16 DEF payeeVars
  <1>17. ASSUME NEW h \in Handlers, TransferRefused(h)
         PROVE  PaidIsConsumed'
    <2> DEFINE t == job[h].token
    <2>1. t \in Tokens /\ pend[t] \in PendRow /\ pend[t] # NoRow
      BY <1>17 DEF TransferRefused, TokensPending
    <2>2. pend' = [pend EXCEPT ![t].consumed = TRUE] /\ paid' = paid
      BY <1>17 DEF TransferRefused
    <2> HIDE DEF t
    <2> QED BY <2>1, <2>2
  <1> HIDE DEF PayeeTypes, PayeesTypeOK, PayeeJobOK, PaidIsConsumed, PendRow, Unconsumed, NoRow,
           Idle
  <1> QED BY ZenonT(30), <1>1, <1>2, <1>3, <1>4, <1>5, <1>6, <1>7, <1>8, <1>9, <1>10, <1>11, <1>12, <1>13,
             <1>14, <1>15, <1>16, <1>17 DEF PayeesNext

LEMMA CoolStep ==
  ASSUME PayeeTypes, ExecutesCool, [PayeesNext]_payeeVars
  PROVE  ExecutesCool'
  <1> USE PayeesAssumption DEF PayeeTypes, PayeesTypeOK, PayeeJobOK, ExecutesCool, Cooled, PayeeRow,
          NoRow, Idle
  <1>1. ASSUME NEW h \in Handlers, Answer(h)
        PROVE  ExecutesCool'
    BY <1>1 DEF Answer, Done
  <1>2. ASSUME NEW h \in Handlers, AddSubmit(h)
        PROVE  ExecutesCool'
    BY <1>2 DEF AddSubmit, Answering, Continue
  <1>3. ASSUME NEW h \in Handlers, ConfirmPayee(h)
        PROVE  ExecutesCool'
    BY <1>3 DEF ConfirmPayee, Begin, Free
  <1>4. ASSUME NEW h \in Handlers, CancelPayee(h)
        PROVE  ExecutesCool'
    BY <1>4 DEF CancelPayee, Begin, Free
  <1>5. ASSUME NEW h \in Handlers, RemoveCommit(h)
        PROVE  ExecutesCool'
    <2> DEFINE i == job[h].id
    <2>1. /\ i \in PayeeIds /\ time' = time
          /\ \/ UNCHANGED <<payee, deleted>>
             \/ payee' = [payee EXCEPT ![i] = NoRow] /\ deleted' = deleted \cup {i}
      BY <1>5 DEF RemoveCommit
    <2>2. \A g \in Handlers : job'[g].op = "execute" => job'[g] = job[g] /\ job[g].id \in PayeeIds
      BY <1>5 DEF RemoveCommit, Answering, Continue
    <2> HIDE DEF i, PayeeTypes
    <2>3. \A k \in deleted' : payee'[k] = NoRow
      BY <2>1 DEF PayeeTypes
    <2>4. ASSUME NEW g \in Handlers, job'[g].op = "execute"
          PROVE  (job[g].id \in deleted \/ (payee[job[g].id] # NoRow /\ Cooled(payee[job[g].id])))'
      <3>1. job'[g] = job[g] /\ job[g].op = "execute" /\ job[g].id \in PayeeIds
        BY <2>2, <2>4
      <3>2. job[g].id \in deleted \/ (payee[job[g].id] # NoRow /\ Cooled(payee[job[g].id]))
        BY <3>1
      <3>3. payee \in [PayeeIds -> PayeeRow \cup {NoRow}]
        BY DEF PayeeTypes
      <3> HIDE DEF NoRow, PayeeRow, ExecutesCool
      <3>4. CASE UNCHANGED <<payee, deleted>>
        BY <2>1, <3>1, <3>2, <3>4
      <3>5. CASE payee' = [payee EXCEPT ![i] = NoRow] /\ deleted' = deleted \cup {i}
        BY <2>1, <3>1, <3>2, <3>3, <3>5
      <3> QED BY <2>1, <3>4, <3>5
    <2> QED BY <2>3, <2>4
  <1>6. ASSUME NEW h \in Handlers, TransferExecute(h)
        PROVE  ExecutesCool'
    BY <1>6 DEF TransferExecute, Answering, Continue
  <1>7. ASSUME NEW h \in Handlers, PayeeHandlerFails(h)
        PROVE  ExecutesCool'
    BY <1>7 DEF PayeeHandlerFails, Free, Done
  <1>8. ASSUME NEW h \in Handlers, NEW a \in Accounts, AddBegin(h, a)
        PROVE  ExecutesCool'
    BY <1>8 DEF AddBegin, Begin, Free
  <1>9. ASSUME NEW h \in Handlers, NEW i \in PayeeIds, InsertPayee(h, i)
        PROVE  ExecutesCool'
    BY SMTT(30), <1>9 DEF InsertPayee, Answering, Continue
  <1>10. ASSUME NEW h \in Handlers, NEW i \in PayeeIds, RemoveBegin(h, i)
         PROVE  ExecutesCool'
    BY <1>10 DEF RemoveBegin, Begin, Free
  <1>11. ASSUME NEW h \in Handlers, NEW i \in PayeeIds, TransferBegin(h, i)
         PROVE  ExecutesCool'
    BY <1>11 DEF TransferBegin, Begin, Free
  <1>12. ASSUME NEW h \in Handlers, NEW i \in PayeeIds, TransferConfirm(h, i)
         PROVE  ExecutesCool'
    BY <1>12 DEF TransferConfirm, Begin, Free, Cooled
  <1>13. ASSUME NEW h \in Handlers, NEW t \in Tokens, TransferPend(h, t)
         PROVE  ExecutesCool'
    BY <1>13 DEF TransferPend, Answering, Continue
  <1>14. ASSUME PayeeSignIn
         PROVE  ExecutesCool'
    BY <1>14 DEF PayeeSignIn
  <1>15. ASSUME PayeeTimePasses
         PROVE  ExecutesCool'
    <2>1. /\ UNCHANGED <<payee, deleted, job>> /\ time' = time + 1
      BY <1>15 DEF PayeeTimePasses
    <2>2. \A i \in PayeeIds : payee[i] # NoRow /\ time >= payee[i].at + Cooldown => time' >= payee[i].at + Cooldown
      BY <2>1
    <2>3. \A g \in Handlers : job[g].op = "execute" => job[g].id \in PayeeIds
      OBVIOUS
    <2>4. ASSUME NEW g \in Handlers, job[g].op = "execute"
          PROVE  (job[g].id \in deleted \/ (payee[job[g].id] # NoRow /\ Cooled(payee[job[g].id])))'
      <3>1. job[g].id \in deleted \/ (payee[job[g].id] # NoRow /\ Cooled(payee[job[g].id]))
        BY <2>4
      <3> HIDE DEF NoRow, PayeeRow, ExecutesCool, PayeeTypes
      <3> QED BY <2>1, <2>2, <2>3, <2>4, <3>1
    <2> HIDE DEF PayeeTypes, Cooled
    <2> QED BY <2>1, <2>4
  <1>16. ASSUME UNCHANGED payeeVars
         PROVE  ExecutesCool'
    BY <1>16 DEF payeeVars
  <1>17. ASSUME NEW h \in Handlers, TransferRefused(h)
         PROVE  ExecutesCool'
    BY <1>17 DEF TransferRefused, Answering, Continue
  <1> HIDE DEF PayeeTypes, PayeesTypeOK, PayeeJobOK, ExecutesCool, Cooled, PayeeRow, NoRow, Idle
  <1> QED BY ZenonT(30), <1>1, <1>2, <1>3, <1>4, <1>5, <1>6, <1>7, <1>8, <1>9, <1>10, <1>11, <1>12,
             <1>13, <1>14, <1>15, <1>16, <1>17 DEF PayeesNext

LEMMA LedgerPinnedStep ==
  ASSUME PayeeTypes, TokensPending, ExecutesCool, LedgerPinned, [PayeesNext]_payeeVars
  PROVE  LedgerPinned'
  <1> USE PayeesAssumption DEF PayeeTypes, PayeesTypeOK, PayeeJobOK, ExecutesCool, LedgerPinned,
          Cooled, Removable, Unconsumed, PayeeRow, PendRow, LedgerRow, NoRow, Idle
  <1>1. ASSUME NEW h \in Handlers, Answer(h)
        PROVE  LedgerPinned'
    BY <1>1 DEF Answer, Done
  <1>2. ASSUME NEW h \in Handlers, AddSubmit(h)
        PROVE  LedgerPinned'
    BY <1>2 DEF AddSubmit, Answering, Continue
  <1>3. ASSUME NEW h \in Handlers, ConfirmPayee(h)
        PROVE  LedgerPinned'
    BY <1>3 DEF ConfirmPayee, Begin, Free
  <1>4. ASSUME NEW h \in Handlers, CancelPayee(h)
        PROVE  LedgerPinned'
    BY <1>4 DEF CancelPayee, Begin, Free
  <1>5. ASSUME NEW h \in Handlers, RemoveCommit(h)
        PROVE  LedgerPinned'
    BY <1>5 DEF RemoveCommit, Answering, Continue
  <1>6. ASSUME NEW h \in Handlers, TransferExecute(h)
        PROVE  LedgerPinned'
    <2> DEFINE t == job[h].token
               i == job[h].id
               row == [token |-> t, payee |-> i, signed |-> i, waited |-> time - payee[i].at]
    <2>1. t \in Tokens /\ i \in PayeeIds /\ pend[t] \in PendRow /\ pend[t] # NoRow
      BY <1>6 DEF TransferExecute, TokensPending
    <2>2. payee[i] # NoRow => time - payee[i].at >= Cooldown
      BY <1>6, <2>1 DEF TransferExecute
    <2>3. \/ UNCHANGED <<pend, ledger>>
          \/ /\ pend' = [pend EXCEPT ![t].consumed = TRUE] /\ ledger' = ledger \cup {row}
             /\ payee[i] # NoRow /\ pend[t].payee = i
      BY <1>6 DEF TransferExecute
    <2>4. \A k \in Tokens : pend[k] # NoRow => pend'[k] # NoRow /\ pend'[k].payee = pend[k].payee
      BY <2>1, <2>3
    <2>5. \A r \in ledger : r.token \in Tokens
      OBVIOUS
    <2> HIDE DEF t, i, PendRow, LedgerRow, PayeeTypes
    <2> QED BY <2>1, <2>2, <2>3, <2>4, <2>5
  <1>7. ASSUME NEW h \in Handlers, PayeeHandlerFails(h)
        PROVE  LedgerPinned'
    BY <1>7 DEF PayeeHandlerFails, Free, Done
  <1>8. ASSUME NEW h \in Handlers, NEW a \in Accounts, AddBegin(h, a)
        PROVE  LedgerPinned'
    BY <1>8 DEF AddBegin, Begin, Free
  <1>9. ASSUME NEW h \in Handlers, NEW i \in PayeeIds, InsertPayee(h, i)
        PROVE  LedgerPinned'
    BY <1>9 DEF InsertPayee, Answering, Continue
  <1>10. ASSUME NEW h \in Handlers, NEW i \in PayeeIds, RemoveBegin(h, i)
         PROVE  LedgerPinned'
    BY <1>10 DEF RemoveBegin, Begin, Free
  <1>11. ASSUME NEW h \in Handlers, NEW i \in PayeeIds, TransferBegin(h, i)
         PROVE  LedgerPinned'
    BY <1>11 DEF TransferBegin, Begin, Free
  <1>12. ASSUME NEW h \in Handlers, NEW i \in PayeeIds, TransferConfirm(h, i)
         PROVE  LedgerPinned'
    BY <1>12 DEF TransferConfirm, Begin, Free, Cooled
  <1>13. ASSUME NEW h \in Handlers, NEW t \in Tokens, TransferPend(h, t)
         PROVE  LedgerPinned'
    BY <1>13 DEF TransferPend, Answering, Continue
  <1>14. ASSUME PayeeSignIn
         PROVE  LedgerPinned'
    BY <1>14 DEF PayeeSignIn
  <1>15. ASSUME PayeeTimePasses
         PROVE  LedgerPinned'
    BY <1>15 DEF PayeeTimePasses
  <1>16. ASSUME UNCHANGED payeeVars
         PROVE  LedgerPinned'
    BY <1>16 DEF payeeVars
  <1>17. ASSUME NEW h \in Handlers, TransferRefused(h)
         PROVE  LedgerPinned'
    <2> DEFINE t == job[h].token
    <2>1. t \in Tokens /\ pend[t] \in PendRow /\ pend[t] # NoRow
      BY <1>17 DEF TransferRefused, TokensPending
    <2>2. pend' = [pend EXCEPT ![t].consumed = TRUE] /\ ledger' = ledger
      BY <1>17 DEF TransferRefused
    <2>3. \A k \in Tokens : pend[k] # NoRow => pend'[k] # NoRow /\ pend'[k].payee = pend[k].payee
      BY <2>1, <2>2
    <2>4. \A r \in ledger : r.token \in Tokens
      OBVIOUS
    <2> HIDE DEF t, PendRow, LedgerRow, PayeeTypes
    <2> QED BY <2>2, <2>3, <2>4
  <1> HIDE DEF PayeeTypes, PayeesTypeOK, PayeeJobOK, ExecutesCool, LedgerPinned, Cooled, Removable,
           Unconsumed, PayeeRow, PendRow, LedgerRow, NoRow, Idle
  <1> QED BY ZenonT(30), <1>1, <1>2, <1>3, <1>4, <1>5, <1>6, <1>7, <1>8, <1>9, <1>10, <1>11, <1>12,
             <1>13, <1>14, <1>15, <1>16, <1>17 DEF PayeesNext

PayeesInv == PayeeTypes /\ TokensPending /\ PaidIsConsumed /\ ExecutesCool /\ LedgerPinned

LEMMA PayeesBegin == PayeesInit => PayeesInv
  <1> SUFFICES ASSUME PayeesInit PROVE PayeesInv
    OBVIOUS
  <1>1. job = [h \in Handlers |-> Idle] /\ \A h \in Handlers : job[h].op = "idle"
    BY DEF PayeesInit, Idle
  <1>2. PayeeTypes
    BY SMTT(30), <1>1, PayeesAssumption DEF PayeesInit, PayeeTypes, PayeesTypeOK, PayeeJobOK,
       WebData
  <1>3. TokensPending /\ PaidIsConsumed /\ ExecutesCool /\ LedgerPinned
    BY <1>1 DEF PayeesInit, TokensPending, PaidIsConsumed, ExecutesCool, LedgerPinned
  <1> QED BY <1>2, <1>3 DEF PayeesInv

\* execute_local_transfer and payees_confirm_submit, for any payees, tokens, handlers and
\* cooldown: a transfer's payee has waited, its token moved money once, and the payee it was
\* signed with stands.
THEOREM PayeesLedger == PayeesSpec => []LedgerAsConfirmed
  <1>1. PayeesInv /\ [PayeesNext]_payeeVars => PayeesInv'
    BY ZenonT(30), PayeeTypesStep, TokensPendingStep, PaidStep, CoolStep, LedgerPinnedStep DEF PayeesInv
  <1>2. PayeesInv => LedgerAsConfirmed
    BY DEF PayeesInv, PaidIsConsumed, LedgerPinned, LedgerAsConfirmed
  <1> QED BY <1>1, <1>2, PayeesBegin, PTL DEF PayeesSpec

-----------------------------------------------------------------------------
(* Idempotency records.                                                    *)

Last == granted[Len(granted)]

\* Requests have been let through since a record, or a live one, was last deleted.
Whole == purged < Len(granted)
Counting == swept < Len(granted)

\* Who is at work, since when, and that one request at a time has the record.
JobsTimed ==
  /\ DOMAIN job = Handlers /\ now \in Nat /\ granted \in Seq(Nat) /\ purged \in Nat /\ swept \in Nat
  /\ \A h \in Handlers :
       /\ job[h].op \in {"look", "insert", "again", "decide", "audit"} =>
            /\ {"op", "now"} \subseteq DOMAIN job[h] /\ job[h].now \in Nat
            /\ job[h].now <= now /\ now <= job[h].now + RequestTime
       /\ job[h].op \in {"decide", "audit"} => holder = h
       /\ job[h].op = "decide" => record # NoRow

\* The record is the last one let through. There is none only where it was deleted, and then
\* it was alive or has expired.
RecordIsLast ==
  /\ record # NoRow => Len(granted) > 0 /\ record.expires = Last + Ttl
  /\ record = NoRow => ~Whole
  /\ record = NoRow /\ Counting => Last + Ttl <= now

\* A request about to commit came after the last one's lifetime.
Spaced ==
  \A h \in Handlers : job[h].op = "audit" =>
    /\ Whole => Last + Ttl <= job[h].now
    /\ Counting => Last + Ttl <= job[h].now + RequestTime

ReservationsInv == JobsTimed /\ RecordIsLast /\ Spaced /\ FirstUseUnlessSwept

LEMMA ReservationsBegin == ReservationsInit => ReservationsInv
  BY DEF ReservationsInit, ReservationsInv, JobsTimed, RecordIsLast, Spaced, FirstUseUnlessSwept,
     Whole, Counting, Idle, NoRow

\* A step that lets nothing through and changes no record.
Quiet == UNCHANGED <<record, granted, purged, swept>>

LEMMA QuietKeeps ==
  ASSUME ReservationsInv, Quiet, now' \in Nat, now <= now'
  PROVE  RecordIsLast' /\ FirstUseUnlessSwept' /\ Last' = Last /\ Whole' = Whole /\ Counting' = Counting
  <1>1. Last' = Last /\ Whole' = Whole /\ Counting' = Counting
    BY DEF Quiet, Last, Whole, Counting
  <1>2. FirstUseUnlessSwept'
    BY DEF Quiet, ReservationsInv, FirstUseUnlessSwept
  <1>3. Counting => Last \in Nat
    BY DEF ReservationsInv, JobsTimed, Counting, Last
  <1>4. RecordIsLast'
    BY <1>1, <1>3, ReservationsAssumption DEF Quiet, ReservationsInv, RecordIsLast, JobsTimed
  <1> QED BY Zenon, <1>1, <1>2, <1>4

\* A handler goes on to something other than committing.
LEMMA QuietStep ==
  ASSUME ReservationsInv, Quiet, now' = now, NEW h \in Handlers,
         DOMAIN job' = Handlers, \A k \in Handlers : k # h => job'[k] = job[k],
         job'[h].op # "audit",
         job'[h].op \in {"look", "insert", "again", "decide"} =>
           /\ {"op", "now"} \subseteq DOMAIN job'[h] /\ job'[h].now \in Nat
           /\ job'[h].now <= now /\ now <= job'[h].now + RequestTime,
         job'[h].op = "decide" => holder' = h /\ record # NoRow,
         \A k \in Handlers : k # h /\ holder = k => holder' = k
  PROVE  ReservationsInv'
  <1>1. RecordIsLast' /\ FirstUseUnlessSwept' /\ Last' = Last /\ Whole' = Whole /\ Counting' = Counting
    <2>1. now' \in Nat /\ now <= now'
      BY DEF ReservationsInv, JobsTimed
    <2> QED BY Zenon, <2>1, QuietKeeps
  <1>2. UNCHANGED <<record, granted, purged, swept>>
    BY DEF Quiet
  <1>3. JobsTimed'
    BY <1>2 DEF ReservationsInv, JobsTimed
  <1>4. Spaced'
    BY Zenon, <1>1 DEF ReservationsInv, Spaced
  <1> QED BY Zenon, <1>1, <1>3, <1>4 DEF ReservationsInv

\* A handler that knows the distance goes on to commit.
LEMMA AuditStep ==
  ASSUME ReservationsInv, Quiet, now' = now, NEW h \in Handlers,
         DOMAIN job' = Handlers, \A k \in Handlers : k # h => job'[k] = job[k],
         job'[h].op = "audit", {"op", "now"} \subseteq DOMAIN job'[h], job'[h].now \in Nat,
         job'[h].now <= now, now <= job'[h].now + RequestTime, holder' = h,
         \A k \in Handlers : k # h => holder # k,
         Whole => Last + Ttl <= job'[h].now,
         Counting => Last + Ttl <= job'[h].now + RequestTime
  PROVE  ReservationsInv'
  <1>1. RecordIsLast' /\ FirstUseUnlessSwept' /\ Last' = Last /\ Whole' = Whole /\ Counting' = Counting
    <2>1. now' \in Nat /\ now <= now'
      BY SMTT(30) DEF ReservationsInv, JobsTimed
    <2> QED BY Zenon, <2>1, QuietKeeps
  <1>2. UNCHANGED <<record, granted, purged, swept>>
    BY DEF Quiet
  <1>3. JobsTimed'
    BY <1>2 DEF ReservationsInv, JobsTimed
  <1>4. Spaced'
    BY Zenon, <1>1 DEF ReservationsInv, Spaced
  <1> QED BY Zenon, <1>1, <1>3, <1>4 DEF ReservationsInv

\* Two distances of a lifetime, less a worker timeout, leave at least one.
LEMMA TwoApart ==
  ASSUME NEW a \in Nat, NEW b \in Nat, NEW c \in Nat, NEW t \in Nat, NEW r \in Nat, r <= t
  PROVE  /\ a + t <= b /\ b + t <= c => a + t <= c
         /\ a + t <= b + r /\ b + t <= c + r => a + t <= c + r
  OBVIOUS

LEMMA ReservationsStep ==
  ASSUME ReservationsInv, [ReservationsNext]_reservationVars
  PROVE  ReservationsInv'
  <1> USE ReservationsAssumption, HandlersAssumption
  <1>a. Counting \/ Whole => Last \in Nat
    BY SMTT(30) DEF ReservationsInv, JobsTimed, Counting, Whole, Last
  <1>1. ASSUME NEW h \in Handlers, Reserve(h)
        PROVE  ReservationsInv'
    <2>1. Quiet /\ now' = now /\ holder' = holder /\ job' = [job EXCEPT ![h] = [op |-> "look", now |-> now]]
      BY <1>1 DEF Reserve, Begin, Quiet
    <2>2. /\ DOMAIN job' = Handlers /\ job'[h].op = "look" /\ job'[h].now = now
          /\ {"op", "now"} \subseteq DOMAIN job'[h]
          /\ \A k \in Handlers : k # h => job'[k] = job[k]
      BY <2>1 DEF ReservationsInv, JobsTimed
    <2>3. now \in Nat /\ now <= now /\ now <= now + RequestTime
      BY DEF ReservationsInv, JobsTimed
    <2> QED BY <2>1, <2>2, <2>3, QuietStep
  <1>2. ASSUME NEW h \in Handlers, LookForReservation(h)
        PROVE  ReservationsInv'
    <2>1. /\ Quiet /\ now' = now /\ job[h].op \in {"look", "again"}
          /\ \/ holder' = holder /\ job' = [job EXCEPT ![h] = [job[h] EXCEPT !.op = "insert"]]
             \/ holder' = holder /\ job' = [job EXCEPT ![h] = Idle]
             \/ /\ record # NoRow /\ holder = None /\ holder' = h
                /\ job' = [job EXCEPT ![h] = [job[h] EXCEPT !.op = "decide"]]
      BY <1>2 DEF LookForReservation, Continue, Done, Quiet
    <2>2. /\ {"op", "now"} \subseteq DOMAIN job[h] /\ job[h].now \in Nat
          /\ job[h].now <= now /\ now <= job[h].now + RequestTime
      BY <2>1 DEF ReservationsInv, JobsTimed
    <2>3. /\ DOMAIN job' = Handlers /\ \A k \in Handlers : k # h => job'[k] = job[k]
          /\ job'[h].op \in {"insert", "decide", "idle"}
          /\ job'[h].op # "idle" => {"op", "now"} \subseteq DOMAIN job'[h] /\ job'[h].now = job[h].now
          /\ job'[h].op = "decide" => holder' = h /\ record # NoRow
          /\ \A k \in Handlers : k # h /\ holder = k => holder' = k
      BY <2>1, <2>2 DEF ReservationsInv, JobsTimed, Idle
    <2> QED BY <2>1, <2>2, <2>3, QuietStep
  <1>3. ASSUME NEW h \in Handlers, InsertReservation(h)
        PROVE  ReservationsInv'
    <2>1. /\ Quiet /\ now' = now /\ job[h].op = "insert" /\ holder = None
          /\ \/ record = NoRow /\ holder' = h /\ job' = [job EXCEPT ![h] = [job[h] EXCEPT !.op = "audit"]]
             \/ record # NoRow /\ holder' = None /\ job' = [job EXCEPT ![h] = [job[h] EXCEPT !.op = "again"]]
      BY Zenon, <1>3 DEF InsertReservation, Continue, Quiet
    <2>2. /\ {"op", "now"} \subseteq DOMAIN job[h] /\ job[h].now \in Nat /\ now \in Nat
          /\ job[h].now <= now /\ now <= job[h].now + RequestTime
          /\ \A k \in Handlers : holder # k
      BY <2>1 DEF ReservationsInv, JobsTimed
    <2>3. /\ DOMAIN job' = Handlers /\ \A k \in Handlers : k # h => job'[k] = job[k]
          /\ job'[h].op = IF record = NoRow THEN "audit" ELSE "again"
          /\ {"op", "now"} \subseteq DOMAIN job'[h] /\ job'[h].now = job[h].now
      BY <2>1, <2>2 DEF ReservationsInv, JobsTimed
    <2>4. CASE record # NoRow
      BY <2>1, <2>2, <2>3, <2>4, QuietStep
    <2>5. CASE record = NoRow
      <3>1. ~Whole /\ (Counting => Last + Ttl <= now)
        BY <2>5 DEF ReservationsInv, RecordIsLast
      <3>2. Counting => Last + Ttl <= job[h].now + RequestTime
        BY <1>a, <2>2, <3>1
      <3> QED BY <2>1, <2>2, <2>3, <2>5, <3>1, <3>2, AuditStep
    <2> QED BY <2>4, <2>5
  <1>4. ASSUME NEW h \in Handlers, TakeOver(h)
        PROVE  ReservationsInv'
    <2>1. /\ Quiet /\ now' = now /\ holder' = holder /\ job[h].op = "decide"
          /\ record.expires <= job[h].now
          /\ job' = [job EXCEPT ![h] = [job[h] EXCEPT !.op = "audit"]]
      BY <1>4 DEF TakeOver, Continue, Quiet, Expired
    <2>2. /\ {"op", "now"} \subseteq DOMAIN job[h] /\ job[h].now \in Nat
          /\ job[h].now <= now /\ now <= job[h].now + RequestTime
          /\ holder = h /\ record # NoRow
      BY <2>1 DEF ReservationsInv, JobsTimed
    <2>3. /\ DOMAIN job' = Handlers /\ \A k \in Handlers : k # h => job'[k] = job[k]
          /\ job'[h].op = "audit" /\ {"op", "now"} \subseteq DOMAIN job'[h] /\ job'[h].now = job[h].now
      BY <2>1, <2>2 DEF ReservationsInv, JobsTimed
    <2>4. Last + Ttl <= job[h].now
      BY <2>1, <2>2 DEF ReservationsInv, RecordIsLast
    <2>5. Counting => Last + Ttl <= job[h].now + RequestTime
      BY <1>a, <2>2, <2>4
    <2> QED BY <2>1, <2>2, <2>3, <2>4, <2>5, AuditStep
  <1>5. ASSUME NEW h \in Handlers, Refuse(h) \/ ReservationFails(h)
        PROVE  ReservationsInv'
    <2>1. /\ Quiet /\ now' = now /\ job' = [job EXCEPT ![h] = Idle]
          /\ holder' = IF holder = h THEN None ELSE holder
      BY <1>5 DEF Refuse, ReservationFails, Quiet, Done, ReservationsInv, JobsTimed
    <2>2. /\ DOMAIN job' = Handlers /\ job'[h].op = "idle"
          /\ \A k \in Handlers : k # h => job'[k] = job[k]
      BY <2>1 DEF ReservationsInv, JobsTimed, Idle
    <2> QED BY <2>1, <2>2, QuietStep
  <1>6. ASSUME NEW h \in Handlers, GrantReservation(h)
        PROVE  ReservationsInv'
    <2> DEFINE n == Len(granted)
               at == job[h].now
    <2>1. /\ job[h].op = "audit" /\ now' = now /\ holder' = None
          /\ purged' = purged /\ swept' = swept /\ job' = [job EXCEPT ![h] = Idle]
          /\ granted' = Append(granted, at)
          /\ record'.expires = at + Ttl /\ record' # NoRow
      BY <1>6 DEF GrantReservation, Done, NoRow
    <2>2. /\ at \in Nat /\ at <= now /\ now <= at + RequestTime /\ holder = h
          /\ granted \in Seq(Nat) /\ now \in Nat /\ swept \in Nat /\ purged \in Nat
      BY <2>1 DEF ReservationsInv, JobsTimed
    <2> HIDE DEF at
    <2>3. /\ granted' \in Seq(Nat) /\ Len(granted') = n + 1 /\ granted'[n + 1] = at /\ n \in Nat
          /\ \A i \in 1..n : granted'[i] = granted[i] /\ granted[i] \in Nat
          /\ DOMAIN granted' = 1..(n + 1) /\ DOMAIN granted = 1..n
      BY SMTT(30), <2>1, <2>2
    <2>4. /\ DOMAIN job' = Handlers /\ job'[h].op = "idle"
          /\ \A k \in Handlers : k # h => job'[k] = job[k]
      BY <2>1 DEF ReservationsInv, JobsTimed, Idle
    <2>5. JobsTimed'
      BY <2>1, <2>2, <2>3, <2>4 DEF ReservationsInv, JobsTimed
    <2>6. Last' = at
      BY <2>3 DEF Last
    <2>7. RecordIsLast'
      BY <2>1, <2>3, <2>6 DEF RecordIsLast
    <2>8. Spaced'
      <3>1. \A k \in Handlers : job'[k].op # "audit"
        BY <2>2, <2>4 DEF ReservationsInv, JobsTimed
      <3> QED BY Zenon, <3>1 DEF Spaced
    <2>9. FirstUseUnlessSwept'
      <3> SUFFICES ASSUME NEW i \in 1..(n + 1), NEW j \in 1..(n + 1), i < j
                   PROVE  /\ purged < i => granted'[i] + Ttl <= granted'[j]
                          /\ swept < i => granted'[i] + Ttl <= granted'[j] + RequestTime
        BY ZenonT(30), <2>1, <2>3 DEF FirstUseUnlessSwept
      <3>1. CASE j <= n
        <4>1. i \in 1..n /\ j \in 1..n
          BY <2>3, <3>1
        <4>2. /\ purged < i => granted[i] + Ttl <= granted[j]
              /\ swept < i => granted[i] + Ttl <= granted[j] + RequestTime
          BY Zenon, <2>3, <4>1 DEF ReservationsInv, FirstUseUnlessSwept
        <4> QED BY <2>3, <4>1, <4>2
      <3>2. CASE j = n + 1
        <4>1. i \in 1..n /\ n \in 1..n /\ (purged < i => purged < n) /\ (swept < i => swept < n)
          BY <2>2, <2>3, <3>2
        <4>2. /\ purged < n => granted[n] + Ttl <= at
              /\ swept < n => granted[n] + Ttl <= at + RequestTime
          BY <2>1 DEF ReservationsInv, Spaced, Whole, Counting, Last, at
        <4>3. i < n => /\ purged < i => granted[i] + Ttl <= granted[n]
                       /\ swept < i => granted[i] + Ttl <= granted[n] + RequestTime
          BY Zenon, <2>3, <4>1 DEF ReservationsInv, FirstUseUnlessSwept
        <4>4. granted[i] \in Nat /\ granted[n] \in Nat /\ granted'[i] = granted[i] /\ n \in Nat
          BY <2>3, <4>1
        <4>5. granted'[j] = at
          BY <2>3, <3>2
        <4>6. Ttl \in Nat /\ RequestTime \in Nat /\ RequestTime <= Ttl /\ at \in Nat
          BY <2>2
        <4>7. /\ granted[i] + Ttl <= granted[n] /\ granted[n] + Ttl <= at => granted[i] + Ttl <= at
              /\ granted[i] + Ttl <= granted[n] + RequestTime /\ granted[n] + Ttl <= at + RequestTime =>
                   granted[i] + Ttl <= at + RequestTime
          BY <4>4, <4>6, TwoApart
        <4>8. i = n \/ i < n
          BY <4>1, <4>4
        <4>9. /\ purged < i => granted[i] + Ttl <= at
              /\ swept < i => granted[i] + Ttl <= at + RequestTime
          <5>1. CASE i = n
            BY Zenon, <4>2, <5>1
          <5>2. CASE i < n
            BY Zenon, <4>1, <4>2, <4>3, <4>7, <5>2
          <5> QED BY Zenon, <4>8, <5>1, <5>2
        <4> QED BY Zenon, <4>4, <4>5, <4>9
      <3>3. j <= n \/ j = n + 1
        BY <2>3
      <3> QED BY Zenon, <3>1, <3>2, <3>3
    <2> QED BY ZenonT(30), <2>5, <2>7, <2>8, <2>9 DEF ReservationsInv
  <1>7. ASSUME NEW h \in Handlers, SweepBegin(h)
        PROVE  ReservationsInv'
    <2>1. Quiet /\ now' = now /\ holder' = holder /\ job' = [job EXCEPT ![h] = [op |-> "sweep", id |-> record.id]]
      BY <1>7 DEF SweepBegin, Quiet, Begin
    <2>2. /\ DOMAIN job' = Handlers /\ job'[h].op = "sweep"
          /\ \A k \in Handlers : k # h => job'[k] = job[k]
      BY <2>1 DEF ReservationsInv, JobsTimed
    <2> QED BY <2>1, <2>2, QuietStep
  <1>8. ASSUME NEW h \in Handlers, SweepCommit(h)
        PROVE  ReservationsInv'
    <2> DEFINE hit == record # NoRow /\ record.id = job[h].id
               n == Len(granted)
    <2>1. /\ job[h].op = "sweep" /\ holder = None /\ UNCHANGED <<holder, now, granted>>
          /\ job' = [job EXCEPT ![h] = Idle]
          /\ record' = IF hit THEN NoRow ELSE record
          /\ purged' = IF hit THEN n ELSE purged
          /\ swept' = IF hit /\ ~Expired(record, now) THEN n ELSE swept
      BY <1>8 DEF SweepCommit, Done
    <2>2. /\ DOMAIN job' = Handlers /\ job'[h].op = "idle"
          /\ \A k \in Handlers : k # h => job'[k] = job[k]
      BY <2>1 DEF ReservationsInv, JobsTimed, Idle
    <2>3. swept' \in Nat /\ purged' \in Nat /\ n \in Nat /\ now \in Nat /\ DOMAIN granted = 1..n
      BY <2>1 DEF ReservationsInv, JobsTimed
    <2>4. \A k \in Handlers : job'[k].op \notin {"decide", "audit"}
      BY ZenonT(30), <2>1, <2>2 DEF ReservationsInv, JobsTimed
    <2>5. JobsTimed'
      BY <2>1, <2>2, <2>3, <2>4 DEF ReservationsInv, JobsTimed
    <2>6. Spaced'
      BY Zenon, <2>4 DEF Spaced
    <2>7. FirstUseUnlessSwept'
      <3>1. /\ purged' = purged \/ \A i \in DOMAIN granted : ~(purged' < i)
            /\ swept' = swept \/ \A i \in DOMAIN granted : ~(swept' < i)
        BY <2>1, <2>3
      <3> QED BY Zenon, <2>1, <3>1 DEF ReservationsInv, FirstUseUnlessSwept
    <2>8. RecordIsLast'
      <3>1. CASE ~hit
        <4>1. UNCHANGED <<record, granted, purged, swept, now>>
          BY Zenon, <2>1, <3>1
        <4> QED BY <4>1 DEF ReservationsInv, RecordIsLast, Last, Whole, Counting
      <3>2. CASE hit
        <4>1. record' = NoRow /\ ~Whole' /\ Last' = Last
          BY <2>1, <2>3, <3>2 DEF Whole, Last
        <4>2. Counting' => Expired(record, now)
          BY <2>1, <2>3, <3>2 DEF Counting
        <4>3. record.expires = Last + Ttl
          BY Zenon, <3>2 DEF ReservationsInv, RecordIsLast
        <4> QED BY Zenon, <2>1, <4>1, <4>2, <4>3 DEF RecordIsLast, Expired
      <3> QED BY Zenon, <3>1, <3>2
    <2> QED BY Zenon, <2>5, <2>6, <2>7, <2>8 DEF ReservationsInv
  <1>9. CASE ReservationTimePasses
    <2>1. /\ Quiet /\ holder' = holder /\ job' = job /\ now' = now + 1 /\ now \in Nat
          /\ \A h \in Handlers : job[h].op \in {"look", "insert", "again", "decide", "audit"} =>
               now < job[h].now + RequestTime
      BY <1>9 DEF ReservationTimePasses, Quiet, ReservationsInv, JobsTimed
    <2>2. RecordIsLast' /\ FirstUseUnlessSwept' /\ Last' = Last /\ Whole' = Whole /\ Counting' = Counting
      <3>1. now' \in Nat /\ now <= now'
        BY <2>1
      <3> QED BY Zenon, <2>1, <3>1, QuietKeeps
    <2>3. JobsTimed'
      BY <2>1 DEF Quiet, ReservationsInv, JobsTimed
    <2>4. Spaced'
      BY ZenonT(30), <2>1, <2>2 DEF ReservationsInv, Spaced
    <2> QED BY Zenon, <2>2, <2>3, <2>4 DEF ReservationsInv
  <1>10. CASE UNCHANGED reservationVars
    BY ZenonT(30), <1>10 DEF reservationVars, ReservationsInv, JobsTimed, RecordIsLast, Spaced,
       FirstUseUnlessSwept, Last, Whole, Counting
  <1> QED BY Zenon, <1>1, <1>2, <1>3, <1>4, <1>5, <1>6, <1>7, <1>8, <1>9, <1>10 DEF ReservationsNext

\* _reserve_public_transaction_idempotency, for any number of requests and retention jobs
\* and any lifetime of at least a worker timeout: two requests let through under one key
\* are a lifetime apart while no record is deleted, and a worker timeout less than that
\* where only expired records are.
THEOREM ReservationsFirstUse == ReservationsSpec => []FirstUseUnlessSwept
  <1>1. ReservationsInit => ReservationsInv
    BY ReservationsBegin
  <1>2. ReservationsInv /\ [ReservationsNext]_reservationVars => ReservationsInv'
    BY ReservationsStep
  <1>3. ReservationsInv => FirstUseUnlessSwept
    BY DEF ReservationsInv
  <1> QED BY <1>1, <1>2, <1>3, PTL DEF ReservationsSpec
=============================================================================
