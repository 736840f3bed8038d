---------------------------- MODULE AccessProofs ----------------------------
(* Proofs about how people get in, for any number of handlers and any values *)
(* of the constants: the authenticator with its codes and passwords, the   *)
(* password reset, registration.                                           *)
EXTENDS Registration, Authenticators, PasswordReset, TLAPS

-----------------------------------------------------------------------------
(* Codes, authenticators and passwords.                                    *)

CodeActs == CustomerActs \cup StaffActs
PasswordActs == {"password", "own_password"}

\* What a handler holds, by what it is about to do.
AuthJobOK(j) ==
  /\ j.op \in {"idle", "generate", "expire", "code", "finish", "issue", "replace", "recover"}
  /\ j.op \in {"generate", "expire"} => j.secret \in Secrets \cup {None}
  /\ j.op \in {"code", "finish"} =>
       /\ j.act \in CodeActs
       /\ j = [op |-> j.op, act |-> j.act, secret |-> j.secret, arg |-> j.arg, since |-> j.since]
  /\ j.op \in {"code", "finish"} /\ j.act \notin PasswordActs => j.arg \in Secrets \cup {None}
  /\ j.op = "issue" => j.arg \in Secrets \cup {None} /\ j.act \in {"setup", "replace_confirm", "regenerate"}
  /\ j.op \in {"code", "finish", "replace"} /\ j.act \in PasswordActs => j.arg \in Passwords /\ j.since \in Nat
  /\ j.op = "replace" => j.act \in PasswordActs /\ j.old \in Passwords
  /\ j.op = "recover" => j.code \in RecoveryCodes

AuthTypes ==
  /\ AuthTypeOK /\ step \in Nat
  /\ past.changes \in Nat /\ past.list \in Seq(Passwords)
  /\ job = [h \in Handlers |-> job[h]] /\ \A h \in Handlers : AuthJobOK(job[h])

LEMMA PrunedTyped ==
  ASSUME AuthTypeOK, NEW last \in Passwords
  PROVE  /\ Pruned(last) \in Seq(Passwords) /\ Len(Pruned(last)) <= Keep /\ Len(Pruned(last)) \in Nat
         /\ \A i \in 1..Keep : i <= Len(history) + 1 =>
              /\ i \in DOMAIN Pruned(last)
              /\ Pruned(last)[i] = IF i = 1 THEN last ELSE history[i - 1]
  <1> USE AuthenticatorsAssumption DEF AuthTypeOK
  <1> DEFINE s == <<last>> \o history
             k == IF Len(history) < Keep THEN Len(history) + 1 ELSE Keep
  <1>1. s \in Seq(Passwords) /\ Len(s) = Len(history) + 1 /\ Len(history) \in Nat
    OBVIOUS
  <1>2. \A i \in 1..Len(s) : s[i] = IF i = 1 THEN last ELSE history[i - 1]
    OBVIOUS
  <1>3. k \in Nat /\ k <= Len(s) /\ k <= Keep /\ \A i \in 1..Keep : i <= Len(history) + 1 => i <= k
    BY <1>1
  <1> HIDE DEF s, k
  <1>4. SubSeq(s, 1, k) \in Seq(Passwords) /\ Len(SubSeq(s, 1, k)) = k /\ \A i \in 1..k : SubSeq(s, 1, k)[i] = s[i]
    BY <1>1, <1>3
  <1>5. Pruned(last) = SubSeq(s, 1, k)
    BY DEF Pruned, s, k
  <1> QED BY <1>1, <1>2, <1>3, <1>4, <1>5

SameCode(r, u) == r.secret = u.secret /\ r.step = u.step /\ r.scope = u.scope

\* An accepted code is too old to be accepted again, or its record will outlast it.
Covered(u) ==
  \/ step > u.step + ValidWindow(u.scope)
  \/ \E r \in replays : SameCode(r, u) /\ r.until > u.step + ValidWindow(u.scope)

ReplaysCover ==
  /\ \A r \in replays : r.until \in Nat
  /\ \A u \in spent : u.scope # "recovery" => u.step \in Nat /\ Covered(u)

\* A recovery code is held by the one handler that took it, and used once it let anyone in.
CodesHeld ==
  /\ \A u \in spent : u.scope = "recovery" => u.secret \in RecoveryCodes /\ codes[u.secret] = "used"
  /\ \A h \in Handlers : job[h].op = "recover" => codes[job[h].code] = "held"
  /\ \A h, g \in Handlers : job[h].op = "recover" /\ job[g].op = "recover" /\ job[h].code = job[g].code => h = g

Changing(h) == job[h].op \in {"code", "finish", "replace"} /\ job[h].act \in PasswordActs

\* While no two changes overlap, password_history is what the passwords were; a change
\* that no other overtook was checked against all of them, and keeps them.
HistoryTold ==
  /\ Len(past.list) >= 1 /\ past.list[1] = person.password
  /\ \A i \in 2..(Keep + 1) : i <= Len(past.list) => i - 1 <= Len(history) /\ history[i - 1] = past.list[i]

ChangesChecked ==
  \A h \in Handlers : Changing(h) =>
    /\ job[h].since <= past.changes
    /\ job[h].since = past.changes =>
         \A i \in 1..(Keep + 1) : i <= Len(past.list) => past.list[i] # job[h].arg

ChangesKeep ==
  \A h \in Handlers : job[h].op = "replace" /\ job[h].since = past.changes => job[h].old = past.list[1]

AuthInv == AuthTypes /\ ReplaysCover /\ CodesHeld /\ HistoryTold /\ ChangesChecked /\ ChangesKeep

LEMMA JobTaken ==
  ASSUME AuthTypes, NEW h \in Handlers, NEW j, AuthJobOK(j), job' = [job EXCEPT ![h] = j],
         AuthTypeOK', UNCHANGED <<step, past>>
  PROVE  AuthTypes'
  BY DEF AuthTypes

LEMMA AskTyped ==
  ASSUME AuthTypes, NEW h \in Handlers, NEW act \in CodeActs, NEW secret, NEW arg,
         IF act \in PasswordActs THEN arg \in Passwords ELSE arg \in Secrets \cup {None},
         Ask(h, act, secret, arg)
  PROVE  AuthTypes'
  <1> DEFINE j == [op |-> "code", act |-> act, secret |-> secret, arg |-> arg, since |-> past.changes]
  <1>1. AuthJobOK(j)
    BY DEF AuthJobOK, AuthTypes
  <1>2. job' = [job EXCEPT ![h] = j] /\ AuthTypeOK' /\ UNCHANGED <<step, past>>
    BY DEF Ask, Begin, AuthTypes, AuthTypeOK
  <1> HIDE DEF j
  <1> QED BY Zenon, <1>1, <1>2, JobTaken

\* The questions that concern no password ask for a code of another act.
LEMMA AskKinds ==
  ASSUME AuthTypes, NEW h \in Handlers, NEW s \in Secrets,
         AskLogin(h) \/ AskSetup(h) \/ AskConfirm(h) \/ AskRegenerate(h) \/ AskReplacement(h, s)
  PROVE  \E act \in CodeActs \ PasswordActs, secret, arg \in Secrets \cup {None} : Ask(h, act, secret, arg)
  <1>1. person.secret \in Secrets \cup {None} /\ staged \in Secrets \cup {None} /\ s \in Secrets \cup {None}
    BY DEF AuthTypes, AuthTypeOK, PersonRow
  <1>2. {"login", "admin_login", "setup", "own_mfa_confirm", "replace_confirm", "regenerate",
         "own_mfa_start", "replace_start"} \subseteq CodeActs \ PasswordActs
    BY DEF CodeActs, CustomerActs, RiskActs, StaffActs, PasswordActs
  <1>3. CASE AskLogin(h)
    BY <1>1, <1>2, <1>3 DEF AskLogin
  <1>4. CASE AskSetup(h)
    BY <1>1, <1>2, <1>4 DEF AskSetup
  <1>5. CASE AskConfirm(h)
    BY <1>1, <1>2, <1>5 DEF AskConfirm
  <1>6. CASE AskRegenerate(h)
    BY <1>1, <1>2, <1>6 DEF AskRegenerate
  <1>7. CASE AskReplacement(h, s)
    BY <1>1, <1>2, <1>7 DEF AskReplacement
  <1> QED BY <1>3, <1>4, <1>5, <1>6, <1>7

LEMMA AskedOne ==
  ASSUME AuthTypes, NEW h \in Handlers, AskLogin(h) \/ AskSetup(h) \/ AskConfirm(h) \/ AskRegenerate(h)
  PROVE  \E act \in CodeActs \ PasswordActs, secret, arg \in Secrets \cup {None} : Ask(h, act, secret, arg)
  <1>1. Secrets # {}
    BY DEF AskLogin, AskSetup, AskConfirm, AskRegenerate, AuthTypes, AuthTypeOK, PersonRow
  <1> QED BY <1>1, AskKinds

Used(h, n) == [secret |-> job[h].secret, step |-> n, scope |-> ReplayScope(job[h].act)]

\* What entering a code does.
LEMMA CodeEntered ==
  ASSUME AuthTypes, NEW h \in Handlers, NEW n, EnterCode(h, n)
  PROVE  /\ UNCHANGED <<person, staged, history, codes, step, past>>
         /\ job[h].op = "code" /\ job[h].act \in CodeActs
         /\ \/ job' = [job EXCEPT ![h] = Idle] /\ UNCHANGED <<replays, spent>>
            \/ /\ job' = [job EXCEPT ![h] = [op |-> "finish", act |-> job[h].act, secret |-> job[h].secret,
                                             arg |-> job[h].arg, since |-> job[h].since]]
               /\ Accepted(job[h].act, n) /\ ~ \E r \in replays : SameCode(r, Used(h, n))
               /\ spent' = spent \cup {Used(h, n)}
               /\ replays' = replays \cup {[secret |-> job[h].secret, step |-> n, scope |-> ReplayScope(job[h].act),
                                            until |-> step + ReplayTtl(job[h].act)]}
  <1> DEFINE same == \E r \in replays : [secret |-> r.secret, step |-> r.step, scope |-> r.scope] = Used(h, n)
  <1>1. /\ UNCHANGED <<person, staged, history, codes, step, past>>
        /\ job[h].op = "code" /\ AuthJobOK(job[h]) /\ Accepted(job[h].act, n)
    BY DEF EnterCode, AuthTypes
  <1>2. job[h].act \in CodeActs
    BY <1>1 DEF AuthJobOK
  <1>3. CASE same
    BY <1>1, <1>2, <1>3, Zenon DEF EnterCode, Done, Used
  <1>4. CASE ~same
    <2>1. /\ job' = [job EXCEPT ![h] = [job[h] EXCEPT !.op = "finish"]]
          /\ spent' = spent \cup {Used(h, n)}
          /\ replays' = replays \cup {[secret |-> Used(h, n).secret, step |-> n, scope |-> Used(h, n).scope,
                                       until |-> step + ReplayTtl(job[h].act)]}
      BY <1>4, Zenon DEF EnterCode, Used
    <2>2. [job[h] EXCEPT !.op = "finish"] = [op |-> "finish", act |-> job[h].act, secret |-> job[h].secret,
                                             arg |-> job[h].arg, since |-> job[h].since]
      BY <1>1 DEF AuthJobOK
    <2>3. ~ \E r \in replays : SameCode(r, Used(h, n))
      BY <1>4 DEF SameCode, Used
    <2>4. Used(h, n).secret = job[h].secret /\ Used(h, n).scope = ReplayScope(job[h].act)
      BY DEF Used
    <2> QED BY Zenon, <1>1, <1>2, <2>1, <2>2, <2>3, <2>4
  <1> QED BY <1>3, <1>4

LEMMA CodeEnteredJobs ==
  ASSUME AuthTypes, NEW h \in Handlers, NEW n, EnterCode(h, n)
  PROVE  /\ job[h].op = "code" /\ job'[h].op \in {"idle", "finish"}
         /\ \A g \in Handlers \ {h} : job'[g] = job[g]
         /\ job'[h].op = "finish" =>
              job'[h].act = job[h].act /\ job'[h].arg = job[h].arg /\ job'[h].since = job[h].since
         /\ \A u \in spent' : u.scope = "recovery" => u \in spent
  <1>1. job[h].act \in CodeActs => ReplayScope(job[h].act) # "recovery"
    BY DEF ReplayScope, CodeActs, CustomerActs, StaffActs, RiskActs
  <1>2. Used(h, n).scope = ReplayScope(job[h].act)
    BY DEF Used
  <1>3. \A u \in spent' : u.scope = "recovery" => u \in spent
    BY <1>1, <1>2, CodeEntered
  <1>4. job = [g \in Handlers |-> job[g]]
    BY DEF AuthTypes
  <1>5. CASE job' = [job EXCEPT ![h] = Idle]
    BY Zenon, <1>3, <1>4, <1>5, CodeEntered DEF Idle
  <1>6. CASE job' # [job EXCEPT ![h] = Idle]
    BY <1>3, <1>4, <1>6, CodeEntered
  <1> QED BY <1>5, <1>6

LEMMA AuthTypesStep ==
  ASSUME AuthTypes, [AuthNext]_authVars
  PROVE  AuthTypes'
  <1> USE AuthenticatorsAssumption DEF AuthTypes, AuthTypeOK, AuthJobOK, PersonRow, CodeActs,
          CustomerActs, RiskActs, StaffActs, PasswordActs, Idle
  <1>1. ASSUME NEW h \in Handlers, NEW s \in NewSecret, GenerateSetup(h, s) \/ AskReplacement(h, s)
        PROVE  AuthTypes'
    <2>1. s \in Secrets
      BY DEF NewSecret
    <2>2. CASE GenerateSetup(h, s)
      BY <2>1, <2>2 DEF GenerateSetup, Begin
    <2>3. CASE AskReplacement(h, s)
      <3> HIDE DEF AuthTypes, CodeActs, PasswordActs
      <3> QED BY <2>1, <2>3, AskKinds, AskTyped
    <2> QED BY <1>1, <2>2, <2>3
  <1>2. ASSUME NEW h \in Handlers, NEW verifying \in BOOLEAN, SetupNotActive(h, verifying)
        PROVE  AuthTypes'
    BY <1>2 DEF SetupNotActive, Begin, Free
  <1>3. ASSUME NEW h \in Handlers, SetupCommit(h)
        PROVE  AuthTypes'
    BY Zenon, <1>3 DEF SetupCommit, Done
  <1>4. ASSUME NEW h \in Handlers, AskLogin(h) \/ AskSetup(h) \/ AskConfirm(h) \/ AskRegenerate(h)
        PROVE  AuthTypes'
    <2> HIDE DEF AuthTypes, CodeActs, PasswordActs
    <2> QED BY <1>4, AskedOne, AskTyped
  <1>5. ASSUME NEW h \in Handlers, NEW p \in Passwords, AskPassword(h, p)
        PROVE  AuthTypes'
    <2>1. {"own_password", "password"} \subseteq CodeActs \cap PasswordActs
      OBVIOUS
    <2> HIDE DEF AuthTypes, CodeActs, PasswordActs
    <2>2. \E act \in CodeActs \cap PasswordActs : Ask(h, act, person.secret, p)
      BY <1>5, <2>1 DEF AskPassword
    <2> QED BY <2>2, AskTyped
  <1>6. ASSUME NEW h \in Handlers, NEW n \in 0..MaxStep, EnterCode(h, n)
        PROVE  AuthTypes'
    <2>1. CASE job' = [job EXCEPT ![h] = Idle]
      <3>1. AuthJobOK(Idle) /\ AuthTypeOK' /\ UNCHANGED <<step, past>>
        BY <1>6 DEF EnterCode
      <3> HIDE DEF AuthTypes, AuthTypeOK, AuthJobOK, Idle
      <3> QED BY Zenon, <2>1, <3>1, JobTaken
    <2>2. CASE job' # [job EXCEPT ![h] = Idle]
      <3> DEFINE j == [op |-> "finish", act |-> job[h].act, secret |-> job[h].secret,
                       arg |-> job[h].arg, since |-> job[h].since]
      <3>1. AuthTypeOK' /\ UNCHANGED <<step, past>> /\ AuthJobOK(job[h]) /\ job[h].op = "code"
        BY <1>6 DEF EnterCode
      <3>2. AuthJobOK(j)
        BY <3>1
      <3> HIDE DEF AuthTypes, AuthTypeOK, AuthJobOK, Idle, CodeActs
      <3>3. job' = [job EXCEPT ![h] = j]
        BY <1>6, <2>2, CodeEntered
      <3> HIDE DEF j
      <3> QED BY Zenon, <3>1, <3>2, <3>3, JobTaken
    <2> QED BY <2>1, <2>2
  <1>7. ASSUME NEW h \in Handlers, FinishLogin(h) \/ FinishReplacement(h) \/ FinishOwnConfirm(h)
        PROVE  AuthTypes'
    <2>1. AuthJobOK(Idle) /\ job' = [job EXCEPT ![h] = Idle] /\ UNCHANGED <<step, past, history, codes>>
      BY <1>7 DEF FinishLogin, FinishReplacement, FinishOwnConfirm, Done
    <2>2. AuthJobOK(job[h])
      OBVIOUS
    <2>3. CASE FinishLogin(h)
      BY <2>1, <2>3 DEF FinishLogin
    <2>4. CASE FinishReplacement(h)
      <3>1. job[h].arg \in Secrets \cup {None}
        BY <2>2, <2>4 DEF FinishReplacement, Finishing
      <3>2. AuthTypeOK'
        BY <2>1, <2>4, <3>1 DEF FinishReplacement
      <3> HIDE DEF AuthTypes, AuthTypeOK, AuthJobOK, Idle
      <3> QED BY Zenon, <2>1, <3>2, JobTaken
    <2>5. CASE FinishOwnConfirm(h)
      <3>1. job[h].arg \in Secrets \cup {None}
        BY <2>2, <2>5 DEF FinishOwnConfirm, Finishing
      <3>2. person' \in PersonRow /\ staged' = None
        BY Zenon, <2>5, <3>1 DEF FinishOwnConfirm
      <3>3. AuthTypeOK'
        BY <2>1, <3>2
      <3> HIDE DEF AuthTypes, AuthTypeOK, AuthJobOK, Idle
      <3> QED BY Zenon, <2>1, <3>3, JobTaken
    <2> QED BY <1>7, <2>3, <2>4, <2>5
  <1>8. ASSUME NEW h \in Handlers, MarkOldCodes(h)
        PROVE  AuthTypes'
    BY ZenonT(30), <1>8 DEF MarkOldCodes, Finishing, Continue
  <1>9. ASSUME NEW h \in Handlers, NEW fresh \in FreshCodes, IssueCommit(h, fresh)
        PROVE  AuthTypes'
    BY Zenon, <1>9 DEF FreshCodes, IssueCommit, Done
  <1>10. ASSUME NEW h \in Handlers, ReplacePassword(h)
         PROVE  AuthTypes'
    <2> DEFINE j == [op |-> "replace", act |-> job[h].act, secret |-> None, arg |-> job[h].arg,
                     since |-> job[h].since, old |-> person.password]
    <2>1. job' = [job EXCEPT ![h] = j] /\ AuthTypeOK' /\ UNCHANGED <<step, past>> /\ person.password \in Passwords
      BY <1>10, Zenon DEF ReplacePassword, Continue
    <2>2. AuthJobOK(job[h]) /\ job[h].op = "finish" /\ job[h].act \in PasswordActs
      BY <1>10 DEF ReplacePassword, Finishing
    <2>3. person.password \in Passwords
      BY <2>1
    <2>4. AuthJobOK(j)
      BY <2>2, <2>3
    <2> HIDE DEF AuthTypes, AuthTypeOK, AuthJobOK, Idle, j
    <2> QED BY Zenon, <2>1, <2>4, JobTaken
  <1>11. ASSUME NEW h \in Handlers, PasswordCommit(h)
         PROVE  AuthTypes'
    <2>1. AuthJobOK(job[h]) /\ job[h].op = "replace" /\ AuthJobOK(Idle)
      BY <1>11 DEF PasswordCommit
    <2>2. job[h].arg \in Passwords /\ job[h].old \in Passwords
      BY <2>1
    <2>a. Pruned(job[h].old) \in Seq(Passwords) /\ Len(Pruned(job[h].old)) <= Keep
      BY <2>2, PrunedTyped
    <2>3. person' \in PersonRow /\ history' = Pruned(job[h].old) /\ UNCHANGED <<staged, codes, step>>
      BY Zenon, <1>11, <2>2 DEF PasswordCommit
    <2>4. AuthTypeOK'
      BY <2>a, <2>3
    <2>5. past'.changes \in Nat /\ past'.list \in Seq(Passwords)
      BY <1>11, <2>2 DEF PasswordCommit
    <2>6. job' = [job EXCEPT ![h] = Idle]
      BY <1>11 DEF PasswordCommit, Done
    <2> HIDE DEF AuthTypeOK, AuthJobOK, Idle
    <2> QED BY <2>1, <2>3, <2>4, <2>5, <2>6
  <1>12. ASSUME NEW h \in Handlers, NEW c \in RecoveryCodes, TakeRecoveryCode(h, c)
         PROVE  AuthTypes'
    BY ZenonT(30), <1>12 DEF TakeRecoveryCode, Begin, Free
  <1>13. ASSUME NEW h \in Handlers, FinishRecovery(h)
         PROVE  AuthTypes'
    BY <1>13 DEF FinishRecovery, Done
  <1>14. ASSUME NEW h \in Handlers, NEW committed \in BOOLEAN, RecoveryAuditFails(h, committed)
         PROVE  AuthTypes'
    BY <1>14 DEF RecoveryAuditFails, Done
  <1>15. ASSUME NEW h \in Handlers, AuthHandlerFails(h)
         PROVE  AuthTypes'
    BY <1>15 DEF AuthHandlerFails, Done
  <1>16. ASSUME PendingGetsLate
         PROVE  AuthTypes'
    BY <1>16 DEF PendingGetsLate
  <1>17. ASSUME ForgetReplays
         PROVE  AuthTypes'
    BY <1>17 DEF ForgetReplays
  <1>18. ASSUME StepPasses
         PROVE  AuthTypes'
    BY <1>18 DEF StepPasses
  <1>19. ASSUME UNCHANGED authVars
         PROVE  AuthTypes'
    BY <1>19 DEF authVars
  <1> HIDE DEF AuthTypes, AuthTypeOK, AuthJobOK, PersonRow, CodeActs, CustomerActs, RiskActs,
           StaffActs, PasswordActs, Idle
  <1> QED BY <1>1, <1>2, <1>3, <1>4, <1>5, <1>6, <1>7, <1>8, <1>9, <1>10, <1>11, <1>12, <1>13,
             <1>14, <1>15, <1>16, <1>17, <1>18, <1>19 DEF AuthNext

LEMMA ReplaysCoverStep ==
  ASSUME AuthTypes, ReplaysCover, [AuthNext]_authVars
  PROVE  ReplaysCover'
  <1> USE AuthenticatorsAssumption DEF ReplaysCover, Covered, SameCode, ValidWindow
  <1>1. ASSUME NEW h \in Handlers, NEW s \in NewSecret, GenerateSetup(h, s) \/ AskReplacement(h, s)
        PROVE  ReplaysCover'
    BY <1>1 DEF NewSecret, GenerateSetup, AskReplacement, Ask, Begin, Free
  <1>2. ASSUME NEW h \in Handlers, NEW verifying \in BOOLEAN, SetupNotActive(h, verifying)
        PROVE  ReplaysCover'
    BY <1>2 DEF SetupNotActive, Begin, Free
  <1>3. ASSUME NEW h \in Handlers, SetupCommit(h)
        PROVE  ReplaysCover'
    BY <1>3 DEF SetupCommit, Done
  <1>4. ASSUME NEW h \in Handlers, AskLogin(h) \/ AskSetup(h) \/ AskConfirm(h) \/ AskRegenerate(h)
        PROVE  ReplaysCover'
    BY <1>4 DEF AskLogin, AskSetup, AskConfirm, AskRegenerate, Ask, Begin, Free
  <1>5. ASSUME NEW h \in Handlers, NEW p \in Passwords, AskPassword(h, p)
        PROVE  ReplaysCover'
    BY <1>5 DEF AskPassword, Reused, Ask, Begin, Free
  <1>6. ASSUME NEW h \in Handlers, NEW n \in 0..MaxStep, EnterCode(h, n)
        PROVE  ReplaysCover'
    <2>1. CASE UNCHANGED <<replays, spent, step>>
      BY <2>1
    <2>2. CASE ~UNCHANGED <<replays, spent, step>>
      <3> DEFINE u == Used(h, n)
                 r == [secret |-> job[h].secret, step |-> n, scope |-> ReplayScope(job[h].act),
                       until |-> step + ReplayTtl(job[h].act)]
      <3>1. /\ Accepted(job[h].act, n) /\ job[h].act \in CodeActs /\ step' = step
            /\ spent' = spent \cup {u} /\ replays' = replays \cup {r}
        BY <1>6, <2>2, CodeEntered
      <3>2. step \in Nat
        BY DEF AuthTypes
      <3>3. ValidWindow(ReplayScope(job[h].act)) = ValidWindow(job[h].act) /\ ValidWindow(job[h].act) \in Nat
        BY DEF ReplayScope, RiskActs
      <3>4. SameCode(r, u) /\ u.step = n /\ u.scope = ReplayScope(job[h].act)
        BY DEF Used
      <3>5. r.until \in Nat /\ r.until > n + ValidWindow(job[h].act)
        BY <3>1, <3>2, <3>3 DEF Accepted, ReplayTtl
      <3> HIDE DEF u, r, SameCode, ValidWindow
      <3> QED BY <3>1, <3>3, <3>4, <3>5
    <2> QED BY <2>1, <2>2
  <1>7. ASSUME NEW h \in Handlers, FinishLogin(h) \/ FinishReplacement(h) \/ FinishOwnConfirm(h)
        PROVE  ReplaysCover'
    BY <1>7 DEF FinishLogin, FinishReplacement, FinishOwnConfirm, Finishing, Done
  <1>8. ASSUME NEW h \in Handlers, MarkOldCodes(h)
        PROVE  ReplaysCover'
    BY <1>8 DEF MarkOldCodes, Finishing, Continue
  <1>9. ASSUME NEW h \in Handlers, NEW fresh \in FreshCodes, IssueCommit(h, fresh)
        PROVE  ReplaysCover'
    BY <1>9 DEF FreshCodes, IssueCommit, Done
  <1>10. ASSUME NEW h \in Handlers, ReplacePassword(h)
         PROVE  ReplaysCover'
    BY <1>10 DEF ReplacePassword, Finishing, Continue
  <1>11. ASSUME NEW h \in Handlers, PasswordCommit(h)
         PROVE  ReplaysCover'
    BY <1>11 DEF PasswordCommit, Done
  <1>12. ASSUME NEW h \in Handlers, NEW c \in RecoveryCodes, TakeRecoveryCode(h, c)
         PROVE  ReplaysCover'
    BY <1>12 DEF TakeRecoveryCode, Begin, Free
  <1>13. ASSUME NEW h \in Handlers, FinishRecovery(h)
         PROVE  ReplaysCover'
    BY <1>13 DEF FinishRecovery, Done
  <1>14. ASSUME NEW h \in Handlers, NEW committed \in BOOLEAN, RecoveryAuditFails(h, committed)
         PROVE  ReplaysCover'
    BY <1>14 DEF RecoveryAuditFails, Done
  <1>15. ASSUME NEW h \in Handlers, AuthHandlerFails(h)
         PROVE  ReplaysCover'
    BY <1>15 DEF AuthHandlerFails, Done
  <1>16. ASSUME PendingGetsLate
         PROVE  ReplaysCover'
    BY <1>16 DEF PendingGetsLate
  <1>17. ASSUME ForgetReplays
         PROVE  ReplaysCover'
    <2>1. step \in Nat /\ ValidWindow("login") \in Nat
      BY DEF AuthTypes
    <2>2. replays' = {r \in replays : r.until > step} /\ UNCHANGED <<spent, step>>
      BY <1>17 DEF ForgetReplays
    <2>3. \A u \in spent : ValidWindow(u.scope) \in Nat
      OBVIOUS
    <2> HIDE DEF ValidWindow, SameCode
    <2> QED BY <2>1, <2>2, <2>3
  <1>18. ASSUME StepPasses
         PROVE  ReplaysCover'
    <2>1. step \in Nat /\ step' = step + 1 /\ UNCHANGED <<replays, spent>>
      BY <1>18 DEF StepPasses, AuthTypes
    <2>2. \A u \in spent : ValidWindow(u.scope) \in Nat
      OBVIOUS
    <2> HIDE DEF ValidWindow, SameCode
    <2> QED BY <2>1, <2>2
  <1>19. ASSUME UNCHANGED authVars
         PROVE  ReplaysCover'
    BY <1>19 DEF authVars
  <1> HIDE DEF ReplaysCover, Covered, SameCode, ValidWindow
  <1> QED BY <1>1, <1>2, <1>3, <1>4, <1>5, <1>6, <1>7, <1>8, <1>9, <1>10, <1>11, <1>12, <1>13,
             <1>14, <1>15, <1>16, <1>17, <1>18, <1>19 DEF AuthNext

LEMMA CodesHeldStep ==
  ASSUME AuthTypes, CodesHeld, [AuthNext]_authVars
  PROVE  CodesHeld'
  <1> USE AuthenticatorsAssumption DEF AuthTypes, AuthTypeOK, AuthJobOK, CodesHeld, Idle
  <1>1. ASSUME NEW h \in Handlers, NEW s \in NewSecret, GenerateSetup(h, s) \/ AskReplacement(h, s)
        PROVE  CodesHeld'
    <2>1. /\ UNCHANGED <<codes, spent>>
          /\ \/ job' = [job EXCEPT ![h] = [op |-> "generate", act |-> "setup", secret |-> s, arg |-> None]]
             \/ \E act : job' = [job EXCEPT ![h] = [op |-> "code", act |-> act, secret |-> person.secret,
                                                   arg |-> s, since |-> past.changes]]
      BY Zenon, <1>1 DEF GenerateSetup, AskReplacement, Ask, Begin
    <2> HIDE DEF AuthTypeOK, AuthJobOK, Idle
    <2>2. job'[h].op # "recover" /\ \A g \in Handlers \ {h} : job'[g] = job[g]
      BY <2>1
    <2> QED BY <2>1, <2>2
  <1>2. ASSUME NEW h \in Handlers, NEW verifying \in BOOLEAN, SetupNotActive(h, verifying)
        PROVE  CodesHeld'
    BY <1>2 DEF SetupNotActive, Begin, Free
  <1>3. ASSUME NEW h \in Handlers, SetupCommit(h)
        PROVE  CodesHeld'
    BY <1>3 DEF SetupCommit, Done
  <1>4. ASSUME NEW h \in Handlers, AskLogin(h) \/ AskSetup(h) \/ AskConfirm(h) \/ AskRegenerate(h)
        PROVE  CodesHeld'
    <2>1. PICK act \in CodeActs, secret, arg \in Secrets \cup {None} : Ask(h, act, secret, arg)
      BY Zenon, <1>4, AskedOne
    <2> QED BY <2>1 DEF Ask, Begin, Free
  <1>5. ASSUME NEW h \in Handlers, NEW p \in Passwords, AskPassword(h, p)
        PROVE  CodesHeld'
    BY <1>5 DEF AskPassword, Reused, Ask, Begin, Free
  <1>6. ASSUME NEW h \in Handlers, NEW n \in 0..MaxStep, EnterCode(h, n)
        PROVE  CodesHeld'
    <2> HIDE DEF AuthTypes
    <2>1. /\ UNCHANGED codes /\ job'[h].op # "recover" /\ \A g \in Handlers \ {h} : job'[g] = job[g]
          /\ \A u \in spent' : u.scope = "recovery" => u \in spent
      BY <1>6, CodeEntered, CodeEnteredJobs
    <2> QED BY <2>1
  <1>7. ASSUME NEW h \in Handlers, FinishLogin(h) \/ FinishReplacement(h) \/ FinishOwnConfirm(h)
        PROVE  CodesHeld'
    <2>1. UNCHANGED <<codes, spent>> /\ job' = [job EXCEPT ![h] = Idle]
      BY Zenon, <1>7 DEF FinishLogin, FinishReplacement, FinishOwnConfirm, Done
    <2>2. Idle.op # "recover"
      OBVIOUS
    <2> HIDE DEF AuthTypeOK, AuthJobOK, Idle
    <2>3. job'[h].op # "recover" /\ \A g \in Handlers \ {h} : job'[g] = job[g]
      BY <2>1, <2>2
    <2> QED BY <2>1, <2>3
  <1>8. ASSUME NEW h \in Handlers, MarkOldCodes(h)
        PROVE  CodesHeld'
    BY <1>8 DEF MarkOldCodes, Finishing, Continue
  <1>9. ASSUME NEW h \in Handlers, NEW fresh \in FreshCodes, IssueCommit(h, fresh)
        PROVE  CodesHeld'
    BY <1>9 DEF FreshCodes, IssueCommit, Done
  <1>10. ASSUME NEW h \in Handlers, ReplacePassword(h)
         PROVE  CodesHeld'
    BY <1>10 DEF ReplacePassword, Finishing, Continue
  <1>11. ASSUME NEW h \in Handlers, PasswordCommit(h)
         PROVE  CodesHeld'
    BY <1>11 DEF PasswordCommit, Done
  <1>12. ASSUME NEW h \in Handlers, NEW c \in RecoveryCodes, TakeRecoveryCode(h, c)
         PROVE  CodesHeld'
    BY <1>12 DEF TakeRecoveryCode, Begin, Free
  <1>13. ASSUME NEW h \in Handlers, FinishRecovery(h)
         PROVE  CodesHeld'
    BY <1>13 DEF FinishRecovery, Done
  <1>14. ASSUME NEW h \in Handlers, NEW committed \in BOOLEAN, RecoveryAuditFails(h, committed)
         PROVE  CodesHeld'
    BY <1>14 DEF RecoveryAuditFails, Done
  <1>15. ASSUME NEW h \in Handlers, AuthHandlerFails(h)
         PROVE  CodesHeld'
    BY <1>15 DEF AuthHandlerFails, Done
  <1>16. ASSUME PendingGetsLate
         PROVE  CodesHeld'
    BY <1>16 DEF PendingGetsLate
  <1>17. ASSUME ForgetReplays
         PROVE  CodesHeld'
    BY <1>17 DEF ForgetReplays
  <1>18. ASSUME StepPasses
         PROVE  CodesHeld'
    BY <1>18 DEF StepPasses
  <1>19. ASSUME UNCHANGED authVars
         PROVE  CodesHeld'
    BY <1>19 DEF authVars
  <1> HIDE DEF AuthTypes, AuthTypeOK, AuthJobOK, CodesHeld, Idle
  <1> QED BY <1>1, <1>2, <1>3, <1>4, <1>5, <1>6, <1>7, <1>8, <1>9, <1>10, <1>11, <1>12, <1>13,
             <1>14, <1>15, <1>16, <1>17, <1>18, <1>19 DEF AuthNext

LEMMA HistoryToldStep ==
  ASSUME AuthTypes, HistoryTold, ChangesKeep, [AuthNext]_authVars
  PROVE  HistoryTold'
  <1> USE AuthenticatorsAssumption DEF HistoryTold
  <1>1. ASSUME NEW h \in Handlers, NEW s \in NewSecret, GenerateSetup(h, s) \/ AskReplacement(h, s)
        PROVE  HistoryTold'
    BY <1>1 DEF NewSecret, GenerateSetup, AskReplacement, Ask, Begin, Free
  <1>2. ASSUME NEW h \in Handlers, NEW verifying \in BOOLEAN, SetupNotActive(h, verifying)
        PROVE  HistoryTold'
    BY <1>2 DEF SetupNotActive, Begin, Free
  <1>3. ASSUME NEW h \in Handlers, SetupCommit(h)
        PROVE  HistoryTold'
    BY <1>3 DEF SetupCommit, Done
  <1>4. ASSUME NEW h \in Handlers, AskLogin(h) \/ AskSetup(h) \/ AskConfirm(h) \/ AskRegenerate(h)
        PROVE  HistoryTold'
    BY <1>4 DEF AskLogin, AskSetup, AskConfirm, AskRegenerate, Ask, Begin, Free
  <1>5. ASSUME NEW h \in Handlers, NEW p \in Passwords, AskPassword(h, p)
        PROVE  HistoryTold'
    BY <1>5 DEF AskPassword, Reused, Ask, Begin, Free
  <1>6. ASSUME NEW h \in Handlers, NEW n \in 0..MaxStep, EnterCode(h, n)
        PROVE  HistoryTold'
    BY <1>6 DEF EnterCode, Done
  <1>7. ASSUME NEW h \in Handlers, FinishLogin(h) \/ FinishReplacement(h) \/ FinishOwnConfirm(h)
        PROVE  HistoryTold'
    <2>1. UNCHANGED <<history, past>> /\ person'.password = person.password
      BY Zenon, <1>7 DEF FinishLogin, FinishReplacement, FinishOwnConfirm, AuthTypes, AuthTypeOK,
         PersonRow
    <2> QED BY <2>1
  <1>8. ASSUME NEW h \in Handlers, MarkOldCodes(h)
        PROVE  HistoryTold'
    BY <1>8 DEF MarkOldCodes, Finishing, Continue
  <1>9. ASSUME NEW h \in Handlers, NEW fresh \in FreshCodes, IssueCommit(h, fresh)
        PROVE  HistoryTold'
    <2>1. job[h].act \in {"setup", "replace_confirm", "regenerate"}
      BY <1>9 DEF IssueCommit, AuthTypes, AuthJobOK
    <2>2. UNCHANGED <<history, past>> /\ person'.password = person.password
      BY <1>9, <2>1 DEF IssueCommit, AuthTypes, AuthTypeOK, PersonRow
    <2> QED BY <2>2
  <1>10. ASSUME NEW h \in Handlers, ReplacePassword(h)
         PROVE  HistoryTold'
    BY <1>10 DEF ReplacePassword, Finishing, Continue
  <1>11. ASSUME NEW h \in Handlers, PasswordCommit(h)
         PROVE  HistoryTold'
    <2> DEFINE kept == Pruned(job[h].old)
    <2>1. /\ job[h].op = "replace" /\ person'.password = job[h].arg /\ history' = kept
          /\ past'.list = IF job[h].since = past.changes THEN <<job[h].arg>> \o past.list ELSE <<job[h].arg>>
      BY <1>11 DEF PasswordCommit, AuthTypes, AuthTypeOK, PersonRow
    <2>2. /\ past.list \in Seq(Passwords) /\ job[h].arg \in Passwords /\ job[h].old \in Passwords
          /\ history \in Seq(Passwords) /\ AuthTypeOK
      BY <2>1 DEF AuthTypes, AuthTypeOK, AuthJobOK
    <2>3. CASE job[h].since = past.changes
      <3>1. /\ Len(past'.list) = Len(past.list) + 1 /\ past'.list[1] = job[h].arg
            /\ \A i \in 1..Len(past.list) : past'.list[i + 1] = past.list[i]
        BY SMTT(30), <2>1, <2>2, <2>3
      <3>2. ASSUME NEW i \in 1..Keep, i <= Len(past.list)
            PROVE  i <= Len(kept) /\ kept[i] = past.list[i]
        <4>1. /\ kept \in Seq(Passwords)
              /\ i <= Len(history) + 1 => i \in DOMAIN kept /\ kept[i] = IF i = 1 THEN job[h].old ELSE history[i - 1]
          BY <2>2, PrunedTyped
        <4>2. job[h].old = past.list[1]
          BY Zenon, <2>1, <2>3 DEF ChangesKeep
        <4>3. i # 1 => i \in 2..(Keep + 1)
          OBVIOUS
        <4>4. i <= Len(history) + 1 /\ past.list[i] = IF i = 1 THEN job[h].old ELSE history[i - 1]
          BY <2>2, <3>2, <4>2, <4>3
        <4> HIDE DEF kept
        <4> QED BY <4>1, <4>4
      <3>3. ASSUME NEW i \in 2..(Keep + 1), i <= Len(past'.list)
            PROVE  i - 1 <= Len(history') /\ history'[i - 1] = past'.list[i]
        <4>1. i - 1 \in 1..Keep /\ i - 1 \in 1..Len(past.list) /\ (i - 1) + 1 = i
          BY <2>2, <3>1, <3>3
        <4> HIDE DEF HistoryTold, kept
        <4> QED BY <2>1, <3>1, <3>2, <4>1
      <3>4. Len(past.list) \in Nat
        BY <2>2
      <3> QED BY <2>1, <3>1, <3>3, <3>4
    <2>4. CASE job[h].since # past.changes
      BY <2>1, <2>4
    <2> QED BY <2>3, <2>4
  <1>12. ASSUME NEW h \in Handlers, NEW c \in RecoveryCodes, TakeRecoveryCode(h, c)
         PROVE  HistoryTold'
    BY <1>12 DEF TakeRecoveryCode, Begin, Free
  <1>13. ASSUME NEW h \in Handlers, FinishRecovery(h)
         PROVE  HistoryTold'
    BY <1>13 DEF FinishRecovery, Done
  <1>14. ASSUME NEW h \in Handlers, NEW committed \in BOOLEAN, RecoveryAuditFails(h, committed)
         PROVE  HistoryTold'
    BY <1>14 DEF RecoveryAuditFails, Done
  <1>15. ASSUME NEW h \in Handlers, AuthHandlerFails(h)
         PROVE  HistoryTold'
    BY <1>15 DEF AuthHandlerFails, Done
  <1>16. ASSUME PendingGetsLate
         PROVE  HistoryTold'
    BY <1>16 DEF PendingGetsLate
  <1>17. ASSUME ForgetReplays
         PROVE  HistoryTold'
    BY <1>17 DEF ForgetReplays
  <1>18. ASSUME StepPasses
         PROVE  HistoryTold'
    BY <1>18 DEF StepPasses
  <1>19. ASSUME UNCHANGED authVars
         PROVE  HistoryTold'
    BY <1>19 DEF authVars
  <1> HIDE DEF HistoryTold
  <1> QED BY Zenon, <1>1, <1>2, <1>3, <1>4, <1>5, <1>6, <1>7, <1>8, <1>9, <1>10, <1>11, <1>12,
             <1>13, <1>14, <1>15, <1>16, <1>17, <1>18, <1>19 DEF AuthNext

LEMMA ChangesCheckedStep ==
  ASSUME AuthTypes, HistoryTold, ChangesChecked, [AuthNext]_authVars
  PROVE  ChangesChecked'
  <1> USE AuthenticatorsAssumption DEF ChangesChecked, Changing, PasswordActs, Idle
  <1>1. ASSUME NEW h \in Handlers, NEW s \in NewSecret, GenerateSetup(h, s) \/ AskReplacement(h, s)
        PROVE  ChangesChecked'
    <2>1. CASE GenerateSetup(h, s)
      BY <2>1 DEF GenerateSetup, Begin, AuthTypes
    <2>2. CASE AskReplacement(h, s)
      <3>1. PICK act \in CodeActs \ PasswordActs, secret, arg \in Secrets \cup {None} : Ask(h, act, secret, arg)
        BY <2>2, AskKinds DEF NewSecret
      <3>2. /\ job'[h].op = "code" /\ job'[h].act = act /\ UNCHANGED past
            /\ \A g \in Handlers \ {h} : job'[g] = job[g]
        BY <3>1 DEF Ask, Begin, AuthTypes
      <3> QED BY <3>2
    <2> QED BY <1>1, <2>1, <2>2
  <1>2. ASSUME NEW h \in Handlers, NEW verifying \in BOOLEAN, SetupNotActive(h, verifying)
        PROVE  ChangesChecked'
    BY <1>2 DEF SetupNotActive, Begin, Free
  <1>3. ASSUME NEW h \in Handlers, SetupCommit(h)
        PROVE  ChangesChecked'
    BY <1>3 DEF SetupCommit, Done
  <1>4. ASSUME NEW h \in Handlers, AskLogin(h) \/ AskSetup(h) \/ AskConfirm(h) \/ AskRegenerate(h)
        PROVE  ChangesChecked'
    <2>1. PICK act \in CodeActs \ PasswordActs, secret, arg \in Secrets \cup {None} : Ask(h, act, secret, arg)
      BY <1>4, AskedOne
    <2>2. /\ job'[h].op = "code" /\ job'[h].act = act /\ UNCHANGED past
          /\ \A g \in Handlers \ {h} : job'[g] = job[g]
      BY <2>1 DEF Ask, Begin, AuthTypes
    <2> QED BY <2>2
  <1>5. ASSUME NEW h \in Handlers, NEW p \in Passwords, AskPassword(h, p)
        PROVE  ChangesChecked'
    <2>1. PICK act \in PasswordActs : Ask(h, act, person.secret, p)
      BY <1>5 DEF AskPassword
    <2>2. /\ job'[h].op = "code" /\ job'[h].act = act /\ job'[h].arg = p /\ job'[h].since = past.changes
          /\ UNCHANGED past /\ \A g \in Handlers \ {h} : job'[g] = job[g]
      BY <2>1 DEF Ask, Begin, AuthTypes
    <2>3. ~Reused(p)
      BY <1>5 DEF AskPassword
    <2>4. ASSUME NEW i \in 1..(Keep + 1), i <= Len(past.list)
          PROVE  past.list[i] # p
      <3>1. CASE i = 1
        BY <2>3, <3>1 DEF Reused, HistoryTold
      <3>2. CASE i # 1
        <4>1. i \in 2..(Keep + 1) /\ i - 1 \in Nat /\ i - 1 >= 1 /\ i - 1 <= Keep
          BY <3>2
        <4>2. i - 1 <= Len(history) /\ history[i - 1] = past.list[i]
          BY <2>4, <4>1 DEF HistoryTold
        <4>3. i - 1 \in DOMAIN history
          BY <4>1, <4>2 DEF AuthTypes, AuthTypeOK
        <4> QED BY <2>3, <4>1, <4>2, <4>3 DEF Reused
      <3> QED BY <3>1, <3>2
    <2>5. past.changes \in Nat
      BY DEF AuthTypes
    <2> QED BY <2>2, <2>4, <2>5
  <1>6. ASSUME NEW h \in Handlers, NEW n \in 0..MaxStep, EnterCode(h, n)
        PROVE  ChangesChecked'
    <2>1. UNCHANGED past
      BY <1>6, CodeEntered
    <2> QED BY <1>6, <2>1, CodeEnteredJobs
  <1>7. ASSUME NEW h \in Handlers, FinishLogin(h) \/ FinishReplacement(h) \/ FinishOwnConfirm(h)
        PROVE  ChangesChecked'
    <2>1. job' = [job EXCEPT ![h] = Idle] /\ UNCHANGED past
      BY <1>7, Zenon DEF FinishLogin, FinishReplacement, FinishOwnConfirm, Done
    <2>2. job'[h].op = "idle" /\ \A g \in Handlers \ {h} : job'[g] = job[g]
      BY <2>1 DEF AuthTypes
    <2> QED BY <2>1, <2>2
  <1>8. ASSUME NEW h \in Handlers, MarkOldCodes(h)
        PROVE  ChangesChecked'
    BY <1>8 DEF MarkOldCodes, Finishing, Continue
  <1>9. ASSUME NEW h \in Handlers, NEW fresh \in FreshCodes, IssueCommit(h, fresh)
        PROVE  ChangesChecked'
    BY <1>9 DEF FreshCodes, IssueCommit, Done
  <1>10. ASSUME NEW h \in Handlers, ReplacePassword(h)
         PROVE  ChangesChecked'
    BY <1>10 DEF ReplacePassword, Finishing, Continue
  <1>11. ASSUME NEW h \in Handlers, PasswordCommit(h)
         PROVE  ChangesChecked'
    <2>1. /\ past'.changes = past.changes + 1 /\ past.changes \in Nat
          /\ job'[h].op = "idle" /\ \A g \in Handlers \ {h} : job'[g] = job[g]
      BY <1>11 DEF PasswordCommit, Done, AuthTypes
    <2>2. ASSUME NEW g \in Handlers, Changing(g)'
          PROVE  job'[g].since <= past'.changes /\ job'[g].since # past'.changes
      <3>1. g # h /\ job'[g] = job[g]
        BY <2>1, <2>2
      <3>2. job[g].since \in Nat /\ job[g].since <= past.changes
        BY <2>2, <3>1 DEF AuthTypes, AuthJobOK
      <3> QED BY <2>1, <3>1, <3>2
    <2> HIDE DEF Changing
    <2> QED BY <2>2
  <1>12. ASSUME NEW h \in Handlers, NEW c \in RecoveryCodes, TakeRecoveryCode(h, c)
         PROVE  ChangesChecked'
    BY <1>12 DEF TakeRecoveryCode, Begin, Free
  <1>13. ASSUME NEW h \in Handlers, FinishRecovery(h)
         PROVE  ChangesChecked'
    BY <1>13 DEF FinishRecovery, Done
  <1>14. ASSUME NEW h \in Handlers, NEW committed \in BOOLEAN, RecoveryAuditFails(h, committed)
         PROVE  ChangesChecked'
    BY <1>14 DEF RecoveryAuditFails, Done
  <1>15. ASSUME NEW h \in Handlers, AuthHandlerFails(h)
         PROVE  ChangesChecked'
    BY <1>15 DEF AuthHandlerFails, Done
  <1>16. ASSUME PendingGetsLate
         PROVE  ChangesChecked'
    BY <1>16 DEF PendingGetsLate
  <1>17. ASSUME ForgetReplays
         PROVE  ChangesChecked'
    BY <1>17 DEF ForgetReplays
  <1>18. ASSUME StepPasses
         PROVE  ChangesChecked'
    BY <1>18 DEF StepPasses
  <1>19. ASSUME UNCHANGED authVars
         PROVE  ChangesChecked'
    BY <1>19 DEF authVars
  <1> HIDE DEF ChangesChecked, Changing, PasswordActs, Idle
  <1> QED BY ZenonT(30), <1>1, <1>2, <1>3, <1>4, <1>5, <1>6, <1>7, <1>8, <1>9, <1>10, <1>11, <1>12,
             <1>13, <1>14, <1>15, <1>16, <1>17, <1>18, <1>19 DEF AuthNext

LEMMA ChangesKeepStep ==
  ASSUME AuthTypes, HistoryTold, ChangesChecked, ChangesKeep, [AuthNext]_authVars
  PROVE  ChangesKeep'
  <1> USE AuthenticatorsAssumption DEF ChangesKeep, Idle
  <1>1. ASSUME NEW h \in Handlers, NEW s \in NewSecret, GenerateSetup(h, s) \/ AskReplacement(h, s)
        PROVE  ChangesKeep'
    <2>1. CASE GenerateSetup(h, s)
      BY <2>1 DEF GenerateSetup, Begin, AuthTypes
    <2>2. CASE AskReplacement(h, s)
      <3>1. PICK act \in CodeActs \ PasswordActs, secret, arg \in Secrets \cup {None} : Ask(h, act, secret, arg)
        BY <2>2, AskKinds DEF NewSecret
      <3>2. /\ job'[h].op = "code" /\ job'[h].act = act /\ UNCHANGED past
            /\ \A g \in Handlers \ {h} : job'[g] = job[g]
        BY <3>1 DEF Ask, Begin, AuthTypes
      <3> QED BY ZenonT(30), <3>2
    <2> QED BY <1>1, <2>1, <2>2
  <1>2. ASSUME NEW h \in Handlers, NEW verifying \in BOOLEAN, SetupNotActive(h, verifying)
        PROVE  ChangesKeep'
    BY <1>2 DEF SetupNotActive, Begin, Free
  <1>3. ASSUME NEW h \in Handlers, SetupCommit(h)
        PROVE  ChangesKeep'
    BY <1>3 DEF SetupCommit, Done
  <1>4. ASSUME NEW h \in Handlers, AskLogin(h) \/ AskSetup(h) \/ AskConfirm(h) \/ AskRegenerate(h)
        PROVE  ChangesKeep'
    <2>1. PICK act \in CodeActs \ PasswordActs, secret, arg \in Secrets \cup {None} : Ask(h, act, secret, arg)
      BY <1>4, AskedOne
    <2>2. /\ job'[h].op = "code" /\ job'[h].act = act /\ UNCHANGED past
          /\ \A g \in Handlers \ {h} : job'[g] = job[g]
      BY ZenonT(30), <2>1 DEF Ask, Begin, AuthTypes
    <2> QED BY <2>2
  <1>5. ASSUME NEW h \in Handlers, NEW p \in Passwords, AskPassword(h, p)
        PROVE  ChangesKeep'
    BY <1>5 DEF AskPassword, Reused, Ask, Begin, Free
  <1>6. ASSUME NEW h \in Handlers, NEW n \in 0..MaxStep, EnterCode(h, n)
        PROVE  ChangesKeep'
    <2>1. UNCHANGED past /\ job'[h].op # "replace" /\ \A g \in Handlers \ {h} : job'[g] = job[g]
      BY <1>6, CodeEntered, CodeEnteredJobs
    <2> QED BY Zenon, <2>1
  <1>7. ASSUME NEW h \in Handlers, FinishLogin(h) \/ FinishReplacement(h) \/ FinishOwnConfirm(h)
        PROVE  ChangesKeep'
    <2>1. job' = [job EXCEPT ![h] = Idle] /\ UNCHANGED past
      BY <1>7, Zenon DEF FinishLogin, FinishReplacement, FinishOwnConfirm, Done
    <2>2. job'[h].op = "idle" /\ \A g \in Handlers \ {h} : job'[g] = job[g]
      BY <2>1 DEF AuthTypes
    <2> QED BY <2>1, <2>2
  <1>8. ASSUME NEW h \in Handlers, MarkOldCodes(h)
        PROVE  ChangesKeep'
    BY <1>8 DEF MarkOldCodes, Finishing, Continue
  <1>9. ASSUME NEW h \in Handlers, NEW fresh \in FreshCodes, IssueCommit(h, fresh)
        PROVE  ChangesKeep'
    BY <1>9 DEF FreshCodes, IssueCommit, Done
  <1>10. ASSUME NEW h \in Handlers, ReplacePassword(h)
         PROVE  ChangesKeep'
    <2>1. /\ job'[h].old = person.password /\ UNCHANGED past
          /\ \A g \in Handlers \ {h} : job'[g] = job[g]
      BY <1>10 DEF ReplacePassword, Continue, AuthTypes
    <2>2. past.list[1] = person.password
      BY DEF HistoryTold
    <2> QED BY Zenon, <2>1, <2>2
  <1>11. ASSUME NEW h \in Handlers, PasswordCommit(h)
         PROVE  ChangesKeep'
    <2>1. /\ past'.changes = past.changes + 1 /\ past.changes \in Nat
          /\ job'[h].op = "idle" /\ \A g \in Handlers \ {h} : job'[g] = job[g]
      BY <1>11 DEF PasswordCommit, Done, AuthTypes
    <2>2. ASSUME NEW g \in Handlers, job'[g].op = "replace"
          PROVE  job'[g].since # past'.changes
      <3>1. g # h /\ job'[g] = job[g]
        BY <2>1, <2>2
      <3>2. job[g].since \in Nat /\ job[g].since <= past.changes
        BY <2>2, <3>1 DEF AuthTypes, AuthJobOK, ChangesChecked, Changing
      <3> QED BY <2>1, <3>1, <3>2
    <2> QED BY <2>2
  <1>12. ASSUME NEW h \in Handlers, NEW c \in RecoveryCodes, TakeRecoveryCode(h, c)
         PROVE  ChangesKeep'
    BY <1>12 DEF TakeRecoveryCode, Begin, Free
  <1>13. ASSUME NEW h \in Handlers, FinishRecovery(h)
         PROVE  ChangesKeep'
    BY <1>13 DEF FinishRecovery, Done
  <1>14. ASSUME NEW h \in Handlers, NEW committed \in BOOLEAN, RecoveryAuditFails(h, committed)
         PROVE  ChangesKeep'
    BY <1>14 DEF RecoveryAuditFails, Done
  <1>15. ASSUME NEW h \in Handlers, AuthHandlerFails(h)
         PROVE  ChangesKeep'
    BY <1>15 DEF AuthHandlerFails, Done
  <1>16. ASSUME PendingGetsLate
         PROVE  ChangesKeep'
    BY <1>16 DEF PendingGetsLate
  <1>17. ASSUME ForgetReplays
         PROVE  ChangesKeep'
    BY <1>17 DEF ForgetReplays
  <1>18. ASSUME StepPasses
         PROVE  ChangesKeep'
    BY <1>18 DEF StepPasses
  <1>19. ASSUME UNCHANGED authVars
         PROVE  ChangesKeep'
    BY <1>19 DEF authVars
  <1> HIDE DEF ChangesKeep, Idle
  <1> QED BY ZenonT(30), <1>1, <1>2, <1>3, <1>4, <1>5, <1>6, <1>7, <1>8, <1>9, <1>10, <1>11, <1>12,
             <1>13, <1>14, <1>15, <1>16, <1>17, <1>18, <1>19 DEF AuthNext

LEMMA ReplaysFromCodes ==
  ASSUME TRUE, [AuthNext]_authVars
  PROVE  replays' \subseteq replays \/ \E g \in Handlers, m \in 0..MaxStep : EnterCode(g, m)
  <1> USE DEF Idle
  <1>1. ASSUME NEW h \in Handlers, NEW s \in NewSecret, GenerateSetup(h, s) \/ AskReplacement(h, s)
        PROVE  replays' \subseteq replays \/ \E g \in Handlers, m \in 0..MaxStep : EnterCode(g, m)
    BY ZenonT(30), <1>1 DEF NewSecret, GenerateSetup, AskReplacement, Ask, Begin, Free
  <1>2. ASSUME NEW h \in Handlers, NEW verifying \in BOOLEAN, SetupNotActive(h, verifying)
        PROVE  replays' \subseteq replays \/ \E g \in Handlers, m \in 0..MaxStep : EnterCode(g, m)
    BY <1>2 DEF SetupNotActive, Begin, Free
  <1>3. ASSUME NEW h \in Handlers, SetupCommit(h)
        PROVE  replays' \subseteq replays \/ \E g \in Handlers, m \in 0..MaxStep : EnterCode(g, m)
    BY <1>3 DEF SetupCommit, Done
  <1>4. ASSUME NEW h \in Handlers, AskLogin(h) \/ AskSetup(h) \/ AskConfirm(h) \/ AskRegenerate(h)
        PROVE  replays' \subseteq replays \/ \E g \in Handlers, m \in 0..MaxStep : EnterCode(g, m)
    BY <1>4 DEF AskLogin, AskSetup, AskConfirm, AskRegenerate, Ask, Begin, Free
  <1>5. ASSUME NEW h \in Handlers, NEW p \in Passwords, AskPassword(h, p)
        PROVE  replays' \subseteq replays \/ \E g \in Handlers, m \in 0..MaxStep : EnterCode(g, m)
    BY <1>5 DEF AskPassword, Reused, Ask, Begin, Free
  <1>6. ASSUME NEW h \in Handlers, NEW n \in 0..MaxStep, EnterCode(h, n)
        PROVE  replays' \subseteq replays \/ \E g \in Handlers, m \in 0..MaxStep : EnterCode(g, m)
    BY <1>6
  <1>7. ASSUME NEW h \in Handlers, FinishLogin(h) \/ FinishReplacement(h) \/ FinishOwnConfirm(h)
        PROVE  replays' \subseteq replays \/ \E g \in Handlers, m \in 0..MaxStep : EnterCode(g, m)
    BY <1>7 DEF FinishLogin, FinishReplacement, FinishOwnConfirm, Finishing, Done
  <1>8. ASSUME NEW h \in Handlers, MarkOldCodes(h)
        PROVE  replays' \subseteq replays \/ \E g \in Handlers, m \in 0..MaxStep : EnterCode(g, m)
    BY <1>8 DEF MarkOldCodes, Finishing, Continue
  <1>9. ASSUME NEW h \in Handlers, NEW fresh \in FreshCodes, IssueCommit(h, fresh)
        PROVE  replays' \subseteq replays \/ \E g \in Handlers, m \in 0..MaxStep : EnterCode(g, m)
    BY <1>9 DEF FreshCodes, IssueCommit, Done
  <1>10. ASSUME NEW h \in Handlers, ReplacePassword(h)
         PROVE  replays' \subseteq replays \/ \E g \in Handlers, m \in 0..MaxStep : EnterCode(g, m)
    BY <1>10 DEF ReplacePassword, Finishing, Continue
  <1>11. ASSUME NEW h \in Handlers, PasswordCommit(h)
         PROVE  replays' \subseteq replays \/ \E g \in Handlers, m \in 0..MaxStep : EnterCode(g, m)
    BY <1>11 DEF PasswordCommit, Done
  <1>12. ASSUME NEW h \in Handlers, NEW c \in RecoveryCodes, TakeRecoveryCode(h, c)
         PROVE  replays' \subseteq replays \/ \E g \in Handlers, m \in 0..MaxStep : EnterCode(g, m)
    BY <1>12 DEF TakeRecoveryCode, Begin, Free
  <1>13. ASSUME NEW h \in Handlers, FinishRecovery(h)
         PROVE  replays' \subseteq replays \/ \E g \in Handlers, m \in 0..MaxStep : EnterCode(g, m)
    BY <1>13 DEF FinishRecovery, Done
  <1>14. ASSUME NEW h \in Handlers, NEW committed \in BOOLEAN, RecoveryAuditFails(h, committed)
         PROVE  replays' \subseteq replays \/ \E g \in Handlers, m \in 0..MaxStep : EnterCode(g, m)
    BY <1>14 DEF RecoveryAuditFails, Done
  <1>15. ASSUME NEW h \in Handlers, AuthHandlerFails(h)
         PROVE  replays' \subseteq replays \/ \E g \in Handlers, m \in 0..MaxStep : EnterCode(g, m)
    BY <1>15 DEF AuthHandlerFails, Done
  <1>16. ASSUME PendingGetsLate
         PROVE  replays' \subseteq replays \/ \E g \in Handlers, m \in 0..MaxStep : EnterCode(g, m)
    BY <1>16 DEF PendingGetsLate
  <1>17. ASSUME ForgetReplays
         PROVE  replays' \subseteq replays \/ \E g \in Handlers, m \in 0..MaxStep : EnterCode(g, m)
    BY <1>17 DEF ForgetReplays
  <1>18. ASSUME StepPasses
         PROVE  replays' \subseteq replays \/ \E g \in Handlers, m \in 0..MaxStep : EnterCode(g, m)
    BY <1>18 DEF StepPasses
  <1>19. ASSUME UNCHANGED authVars
         PROVE  replays' \subseteq replays \/ \E g \in Handlers, m \in 0..MaxStep : EnterCode(g, m)
    BY <1>19 DEF authVars
  <1> HIDE DEF Idle
  <1> QED BY ZenonT(30), <1>1, <1>2, <1>3, <1>4, <1>5, <1>6, <1>7, <1>8, <1>9, <1>10, <1>11, <1>12, <1>13,
             <1>14, <1>15, <1>16, <1>17, <1>18, <1>19 DEF AuthNext

LEMMA AuthStart == AuthInit => AuthInv
  <1> SUFFICES ASSUME AuthInit PROVE AuthInv
    OBVIOUS
  <1>1. PICK p \in Passwords : person.password = p /\ person \in PersonRow
    BY DEF AuthInit, PersonRow
  <1>2. past.changes = 0 /\ past.list = <<p>> /\ history = << >> /\ spent = {} /\ replays = {} /\ step = 0
    BY <1>1 DEF AuthInit
  <1>3. job = [h \in Handlers |-> Idle] /\ staged = None /\ codes = [c \in RecoveryCodes |-> "unissued"]
    BY DEF AuthInit
  <1>4. AuthTypeOK
    BY <1>1, <1>2, <1>3, AuthenticatorsAssumption DEF AuthTypeOK
  <1>5. AuthTypes
    BY SMTT(30), <1>1, <1>2, <1>3, <1>4 DEF AuthTypes, AuthJobOK, Idle
  <1>6. ReplaysCover /\ CodesHeld /\ ChangesChecked /\ ChangesKeep
    BY <1>2, <1>3 DEF ReplaysCover, CodesHeld, ChangesChecked, ChangesKeep, Changing, Idle
  <1>7. HistoryTold
    BY <1>1, <1>2 DEF HistoryTold
  <1> QED BY <1>5, <1>6, <1>7 DEF AuthInv

LEMMA AuthStep == AuthInv /\ [AuthNext]_authVars => AuthInv'
  BY ZenonT(30), AuthTypesStep, ReplaysCoverStep, CodesHeldStep, HistoryToldStep,
     ChangesCheckedStep, ChangesKeepStep DEF AuthInv

\* A code that is being accepted was not accepted before in its scope.
LEMMA NewCodeUnspent ==
  ASSUME AuthInv, NEW h \in Handlers, NEW n \in 0..MaxStep, EnterCode(h, n), replays' # replays
  PROVE  Used(h, n) \notin spent
  <1>1. /\ Accepted(job[h].act, n) /\ job[h].act \in CodeActs
        /\ ~ \E r \in replays : SameCode(r, Used(h, n))
    BY CodeEntered DEF AuthInv
  <1>2. Used(h, n).scope # "recovery" /\ ValidWindow(Used(h, n).scope) = ValidWindow(job[h].act) /\ Used(h, n).step = n
    BY <1>1 DEF Used, ReplayScope, ValidWindow, CodeActs, CustomerActs, StaffActs, RiskActs
  <1>3. ~(step > n + ValidWindow(job[h].act))
    BY <1>1, AuthenticatorsAssumption DEF Accepted, ValidWindow, AuthInv, AuthTypes
  <1> QED BY <1>1, <1>2, <1>3 DEF AuthInv, ReplaysCover, Covered

\* _verify_totp_secret_for_user_outcome and consume_recovery_code, for any handlers and
\* windows: a TOTP code is accepted once in its scope, a recovery code lets in once.
THEOREM CodesOnce == AuthSpec => CodeAcceptedOnce
  <1> DEFINE A == \A h \in Handlers :
                    /\ job[h].op = "code" /\ job'[h].op = "finish" =>
                         \A r \in replays' \ replays :
                           [secret |-> r.secret, step |-> r.step, scope |-> r.scope] \notin spent
                    /\ job'[h].op = "recover" =>
                         [secret |-> job'[h].code, step |-> 0, scope |-> "recovery"] \notin spent'
  <1>1. AuthInv /\ [AuthNext]_authVars => [A]_authVars
    <2> SUFFICES ASSUME AuthInv, [AuthNext]_authVars PROVE A
      OBVIOUS
    <2>1. AuthInv'
      BY AuthStep
    <2>2. ASSUME NEW r \in replays' \ replays
          PROVE  [secret |-> r.secret, step |-> r.step, scope |-> r.scope] \notin spent
      <3>1. PICK g \in Handlers, n \in 0..MaxStep : EnterCode(g, n)
        BY <2>2, ReplaysFromCodes
      <3>2. r = [secret |-> job[g].secret, step |-> n, scope |-> ReplayScope(job[g].act),
                 until |-> step + ReplayTtl(job[g].act)]
        BY <2>2, <3>1, CodeEntered DEF AuthInv
      <3>3. [secret |-> r.secret, step |-> r.step, scope |-> r.scope] = Used(g, n)
        BY <3>2 DEF Used
      <3> QED BY <2>2, <3>1, <3>3, NewCodeUnspent
    <2>3. ASSUME NEW h \in Handlers, job'[h].op = "recover"
          PROVE  [secret |-> job'[h].code, step |-> 0, scope |-> "recovery"] \notin spent'
      <3>1. codes'[job'[h].code] # "used"
        BY <2>1, <2>3 DEF AuthInv, CodesHeld
      <3> QED BY <2>1, <3>1 DEF AuthInv, CodesHeld
    <2> QED BY Zenon, <2>2, <2>3
  <1> HIDE DEF A
  <1>2. AuthSpec => [][A]_authVars
    BY AuthStart, AuthStep, <1>1, PTL DEF AuthSpec
  <1> QED BY <1>2 DEF A, CodeAcceptedOnce

\* assert_password_not_reused and replace_user_password, for any history length: while no two
\* changes overlap, a new password is none of the present one and the Keep before it.
THEOREM PasswordsFresh == AuthSpec => NoRecentReuse
  <1> DEFINE A == \A h \in Handlers :
                    job[h].op = "replace" /\ past' # past /\ job[h].since = past.changes =>
                      \A i \in DOMAIN past.list : i <= Keep + 1 => past.list[i] # job[h].arg
  <1>1. AuthInv /\ [AuthNext]_authVars => [A]_authVars
    <2> SUFFICES ASSUME AuthInv, NEW h \in Handlers, job[h].op = "replace", job[h].since = past.changes,
                        NEW i \in DOMAIN past.list, i <= Keep + 1
                 PROVE  past.list[i] # job[h].arg
      OBVIOUS
    <2>1. Changing(h)
      BY DEF AuthInv, AuthTypes, AuthJobOK, Changing
    <2>2. i \in 1..(Keep + 1) /\ i <= Len(past.list)
      BY AuthenticatorsAssumption DEF AuthInv, AuthTypes
    <2> QED BY <2>1, <2>2 DEF AuthInv, ChangesChecked
  <1> HIDE DEF A
  <1>2. AuthSpec => [][A]_authVars
    BY AuthStart, AuthStep, <1>1, PTL DEF AuthSpec
  <1> QED BY <1>2 DEF A, NoRecentReuse

-----------------------------------------------------------------------------
(* The password reset.                                                     *)

ResetJob ==
  {Idle} \cup [op : {"exchanged", "created", "clear"}, at : ResetBrowsers, of : Links]
         \cup [op : {"select", "totp", "recovery_code", "complete", "verified"},
               at : ResetBrowsers, of : Links, seen : TxRow]
         \cup [op : {"reset"}, at : ResetBrowsers, of : Links, spends : SUBSET Links]

ResetTypes ==
  /\ ResetTypeOK /\ guarded \subseteq Links
  /\ resets \in [Links -> Nat] /\ job \in [Handlers -> ResetJob]

\* Nothing has come of a link yet, and no handler works on its transaction.
Fresh(l) == tx[l] = NoRow /\ resets[l] = 0 /\ l \notin guarded /\ \A b \in ResetBrowsers : holds[b] # l
At(h, l) == job[h] # Idle /\ job[h].of = l
Exchanged(l) == link[l] # NoRow /\ link[l].exchanged

\* Until a link is exchanged nothing comes of it; from then until its transaction is
\* created only the handler that exchanged it works on it.
OneTransaction ==
  /\ \A l \in Links : ~Exchanged(l) => Fresh(l) /\ \A h \in Handlers : ~At(h, l)
  /\ \A h \in Handlers, l \in Links : job[h].op = "exchanged" /\ job[h].of = l =>
       Fresh(l) /\ \A g \in Handlers \ {h} : ~At(g, l)

\* A link that a reset has spent stays used.
SpentStaysUsed ==
  /\ ended \subseteq {l \in Links : link[l] # NoRow /\ link[l].used}
  /\ \A h \in Handlers : job[h].op = "reset" => \A l \in job[h].spends : link[l] # NoRow

\* As long as no right code was entered for it, every copy of a guarded transaction,
\* stored or in hand, asks for one.
Asks(row) == row.required # "none" /\ ~row.verified
CopiesAsk ==
  \A l \in guarded \ factor :
    /\ resets[l] = 0 /\ (tx[l] # NoRow => Asks(tx[l]))
    /\ \A h \in Handlers : At(h, l) =>
         /\ job[h].op \notin {"verified", "reset", "clear"}
         /\ job[h].op \in {"select", "totp", "recovery_code", "complete"} => Asks(job[h].seen)

\* Writing a transaction back keeps the table's type.
LEMMA StoredTyped ==
  ASSUME tx \in [Links -> {NoRow} \cup TxRow], NEW l \in Links, NEW row \in TxRow
  PROVE  Stored(l, row) \in [Links -> {NoRow} \cup TxRow]
  <1>1. [row EXCEPT !.late = FALSE] \in TxRow
    BY Zenon DEF TxRow
  <1> QED BY <1>1 DEF Stored

LEMMA ResetTypesStep ==
  ASSUME ResetTypes, SpentStaysUsed, [ResetNext]_resetVars
  PROVE  ResetTypes'
  <1> USE PasswordResetAssumption DEF ResetTypes, ResetTypeOK, ResetJob, LinkRow, TxRow, Idle, NoRow
  <1>1. ASSUME NEW l \in Links, NEW m \in BOOLEAN, RequestReset(l, m)
        PROVE  ResetTypes'
    BY <1>1 DEF RequestReset
  <1>2. ASSUME NEW l \in Links, ResetTimePasses(l)
        PROVE  ResetTypes'
    <2> HIDE DEF LinkRow, TxRow, NoRow, ResetJob
    <2>1. \A row \in LinkRow : [row EXCEPT !.late = TRUE] \in LinkRow
      BY Zenon DEF LinkRow
    <2>2. \A row \in TxRow : [row EXCEPT !.late = TRUE] \in TxRow
      BY Zenon DEF TxRow
    <2>3. CASE link[l] # NoRow /\ link' = [link EXCEPT ![l].late = TRUE] /\ UNCHANGED tx
      BY <1>2, <2>1, <2>3 DEF ResetTimePasses
    <2>4. CASE tx[l] # NoRow /\ tx' = [tx EXCEPT ![l].late = TRUE] /\ UNCHANGED link
      BY <1>2, <2>2, <2>4 DEF ResetTimePasses
    <2> QED BY <1>2, <2>3, <2>4 DEF ResetTimePasses
  <1>3. ASSUME NEW l \in Links, DeleteLateTransaction(l)
        PROVE  ResetTypes'
    BY <1>3 DEF DeleteLateTransaction, Without
  <1>4. ASSUME NEW b \in ResetBrowsers, RefuseTransaction(b)
        PROVE  ResetTypes'
    BY <1>4 DEF RefuseTransaction, Without, Forget
  <1>5. ASSUME NEW h \in Handlers, NEW b \in ResetBrowsers, NEW l \in Links, ExchangeResetToken(h, b, l)
        PROVE  ResetTypes'
    <2>1. link[l] # NoRow
      BY <1>5 DEF ExchangeResetToken
    <2>2. [op |-> "exchanged", at |-> b, of |-> l] \in ResetJob
      OBVIOUS
    <2> HIDE DEF LinkRow, NoRow, ResetJob, TxRow
    <2>3. \A row \in LinkRow : [row EXCEPT !.exchanged = TRUE] \in LinkRow
      BY Zenon DEF LinkRow
    <2> QED BY <1>5, <2>1, <2>2, <2>3 DEF ExchangeResetToken, Begin, Free
  <1>6. ASSUME NEW h \in Handlers, NEW b \in ResetBrowsers,
               NEW op \in {"select", "totp", "recovery_code", "complete"}, LoadTransaction(h, b, op)
        PROVE  ResetTypes'
    BY <1>6 DEF LoadTransaction, Begin, Free
  <1>7. ASSUME NEW h \in Handlers, CreateResetTransaction(h)
        PROVE  ResetTypes'
    BY <1>7 DEF CreateResetTransaction
  <1>8. ASSUME NEW h \in Handlers, AnswerExchange(h)
        PROVE  ResetTypes'
    BY <1>8 DEF AnswerExchange, Done
  <1>9. ASSUME NEW h \in Handlers, NEW method \in {"totp", "recovery_code"}, SelectResetMfaMethod(h, method)
        PROVE  ResetTypes'
    <2>1. job[h] \in ResetJob /\ job[h].seen \in TxRow /\ job[h].of \in Links
      BY <1>9 DEF SelectResetMfaMethod
    <2>2. [job[h].seen EXCEPT !.required = method, !.verified = @ /\ job[h].seen.required = method] \in TxRow
      BY Zenon, <2>1
    <2> HIDE DEF TxRow, ResetJob, NoRow
    <2> QED BY <1>9, <2>1, <2>2, StoredTyped DEF SelectResetMfaMethod, Done, ResetJob
  <1>10. ASSUME NEW h \in Handlers, WrongFactor(h)
        PROVE  ResetTypes'
    <2>1. job[h] \in ResetJob /\ job[h].seen \in TxRow /\ job[h].of \in Links
      BY <1>10 DEF WrongFactor
    <2> HIDE DEF TxRow, ResetJob, NoRow
    <2> QED BY <1>10, <2>1, StoredTyped DEF WrongFactor, Done, ResetJob
  <1>11. ASSUME NEW h \in Handlers, WrongCode(h)
        PROVE  ResetTypes'
    <2>1. job[h] \in ResetJob /\ job[h].seen \in TxRow /\ job[h].of \in Links /\ job[h].at \in ResetBrowsers
      BY <1>11 DEF WrongCode
    <2> DEFINE row == [job[h].seen EXCEPT !.fails = job[h].seen.fails + 1]
    <2>2. ~(job[h].seen.fails + 1 >= FailureLimit) => row \in TxRow
      BY <2>1
    <2>3. /\ \/ tx' = Without(job[h].of) /\ holds' = Forget(job[h].at)
             \/ ~(job[h].seen.fails + 1 >= FailureLimit) /\ tx' = Stored(job[h].of, row) /\ UNCHANGED holds
          /\ UNCHANGED <<link, owner, resets, guarded>> /\ job' = [job EXCEPT ![h] = Idle]
      BY <1>11 DEF WrongCode, Done
    <2> HIDE DEF TxRow, ResetJob, NoRow, row, LinkRow
    <2>4. tx' \in [Links -> {NoRow} \cup TxRow]
      BY <2>1, <2>2, <2>3, StoredTyped DEF Without
    <2>5. holds' \in [ResetBrowsers -> Links \cup {None}]
      BY <2>1, <2>3 DEF Forget
    <2> QED BY <2>3, <2>4, <2>5 DEF ResetJob
  <1>12. ASSUME NEW h \in Handlers, NEW last \in BOOLEAN, RightCode(h, last)
        PROVE  ResetTypes'
    <2>1. [job[h] EXCEPT !.op = "verified"] \in ResetJob
      BY SMTT(30), <1>12 DEF RightCode
    <2>2. [owner EXCEPT !.codes = FALSE] \in [mfa : BOOLEAN, codes : BOOLEAN, blocked : BOOLEAN]
      BY Zenon
    <2> HIDE DEF ResetJob, TxRow, LinkRow
    <2> QED BY <1>12, <2>1, <2>2 DEF RightCode
  <1>13. ASSUME NEW h \in Handlers, StoreVerified(h)
        PROVE  ResetTypes'
    <2>1. job[h] \in ResetJob /\ job[h].seen \in TxRow /\ job[h].of \in Links
      BY <1>13 DEF StoreVerified
    <2>2. [job[h].seen EXCEPT !.verified = TRUE] \in TxRow
      BY Zenon, <2>1
    <2> HIDE DEF TxRow, ResetJob, NoRow
    <2> QED BY Zenon, <1>13, <2>1, <2>2, StoredTyped DEF StoreVerified, Done, ResetJob
  <1>14. ASSUME NEW h \in Handlers, CompletePasswordReset(h)
        PROVE  ResetTypes'
    BY SMTT(30), <1>14 DEF CompletePasswordReset
  <1>15. ASSUME NEW h \in Handlers, CommitReset(h)
        PROVE  ResetTypes'
    <2>1. /\ job[h].of \in Links
          /\ [op |-> "clear", at |-> job[h].at, of |-> job[h].of] \in ResetJob
      BY <1>15 DEF CommitReset
    <2> HIDE DEF ResetJob, TxRow, LinkRow, NoRow
    <2>2. \A row \in LinkRow : [row EXCEPT !.used = TRUE] \in LinkRow
      BY Zenon DEF LinkRow
    <2>3. \A l \in Links : l \in job[h].spends => link[l] # NoRow
      BY ZenonT(30), <1>15 DEF CommitReset, SpentStaysUsed
    <2> QED BY <1>15, <2>1, <2>2, <2>3 DEF CommitReset
  <1>16. ASSUME NEW h \in Handlers, ClearTransaction(h)
        PROVE  ResetTypes'
    BY <1>16 DEF ClearTransaction, Without, Forget, Done
  <1>17. ASSUME NEW h \in Handlers, ResetRequestDies(h)
        PROVE  ResetTypes'
    BY <1>17 DEF ResetRequestDies, Free, Done
  <1>18. ASSUME OwnerChanges
        PROVE  ResetTypes'
    BY Zenon, <1>18 DEF OwnerChanges
  <1>19. ASSUME UNCHANGED resetVars
        PROVE  ResetTypes'
    BY <1>19 DEF resetVars
  <1> HIDE DEF ResetTypes, ResetTypeOK, ResetJob, LinkRow, TxRow, Idle, NoRow
  <1> QED BY ZenonT(30), <1>1, <1>2, <1>3, <1>4, <1>5, <1>6, <1>7, <1>8, <1>9, <1>10, <1>11, <1>12, <1>13,
             <1>14, <1>15, <1>16, <1>17, <1>18, <1>19 DEF ResetNext

\* What a handler has in hand names its browser and its link, also when it is relabelled.
LEMMA ResetFields ==
  ASSUME ResetTypes
  PROVE  /\ guarded \subseteq Links /\ job = [h \in Handlers |-> job[h]]
         /\ \A h \in Handlers :
              /\ job[h] = Idle <=> job[h].op = "idle"
              /\ job[h] # Idle => job[h].of \in Links /\ job[h].at \in ResetBrowsers
              /\ job[h].op \in {"select", "totp", "recovery_code", "complete", "verified"} =>
                   job[h].seen \in TxRow
              /\ job[h].op = "reset" => job[h].spends \subseteq Links
              /\ job[h] # Idle => \A op : LET j == [job[h] EXCEPT !.op = op]
                                          IN  j.op = op /\ j.of = job[h].of /\ j.at = job[h].at
         /\ \A l \in Links : link[l] = NoRow \/ link[l] \in LinkRow
         /\ \A l \in Links : tx[l] = NoRow \/ tx[l] \in TxRow
  <1>1. guarded \subseteq Links /\ job \in [Handlers -> ResetJob]
    BY DEF ResetTypes
  <1>2. ASSUME NEW j \in ResetJob
        PROVE  /\ j = Idle <=> j.op = "idle"
               /\ j # Idle => j.of \in Links /\ j.at \in ResetBrowsers
               /\ j.op \in {"select", "totp", "recovery_code", "complete", "verified"} => j.seen \in TxRow
               /\ j.op = "reset" => j.spends \subseteq Links
    <2> HIDE DEF TxRow
    <2> QED BY DEF ResetJob, Idle
  <1>3. ASSUME NEW j \in ResetJob, j # Idle, NEW op
        PROVE  LET k == [j EXCEPT !.op = op] IN k.op = op /\ k.of = j.of /\ k.at = j.at
    <2>1. "op" \in DOMAIN j /\ "of" \in DOMAIN j /\ "at" \in DOMAIN j
      BY <1>3 DEF ResetJob
    <2> QED BY <2>1
  <1>4. /\ \A l \in Links : link[l] = NoRow \/ link[l] \in LinkRow
        /\ \A l \in Links : tx[l] = NoRow \/ tx[l] \in TxRow
    BY ZenonT(30) DEF ResetTypes, ResetTypeOK
  <1> HIDE DEF ResetJob
  <1> QED BY <1>1, <1>2, <1>3, <1>4

\* A link stays exchanged once and its transaction with the one handler, when no handler
\* takes a link up and whoever makes something of a fresh one is past the exchange.
LEMMA OneTransactionKept ==
  ASSUME ResetTypes, OneTransaction,
         \A l \in Links : Exchanged(l) => Exchanged(l)',
         \A g \in Handlers : job'[g] # Idle => job[g] # Idle /\ job'[g].of = job[g].of,
         \A g \in Handlers : job'[g].op = "exchanged" => job[g].op = "exchanged",
         \A l \in Links : Fresh(l) /\ ~Fresh(l)' =>
            \E g \in Handlers : At(g, l) /\ job'[g].op # "exchanged"
  PROVE  OneTransaction'
  <1>1. \A g \in Handlers, l \in Links : At(g, l)' => At(g, l)
    BY ZenonT(30) DEF At
  <1>2. \A l \in Links : ~Exchanged(l)' => Fresh(l)' /\ \A h \in Handlers : ~At(h, l)'
    BY ZenonT(30), <1>1 DEF OneTransaction
  <1>3. ASSUME NEW h \in Handlers, NEW l \in Links, job'[h].op = "exchanged", job'[h].of = l
        PROVE  Fresh(l)' /\ \A g \in Handlers \ {h} : ~At(g, l)'
    <2>1. job[h].op = "exchanged" /\ job[h].of = l
      <3>1. job'[h] # Idle
        BY <1>3 DEF Idle
      <3> QED BY ZenonT(30), <1>3, <3>1
    <2>2. Fresh(l) /\ \A g \in Handlers \ {h} : ~At(g, l)
      BY ZenonT(30), <2>1 DEF OneTransaction
    <2> QED BY ZenonT(30), <1>1, <1>3, <2>2
  <1> QED BY Zenon, <1>2, <1>3 DEF OneTransaction

LEMMA OneTransactionStep ==
  ASSUME ResetTypes, OneTransaction, [ResetNext]_resetVars
  PROVE  OneTransaction'
  <1> DEFINE Frees == \A l \in Links : Fresh(l) /\ ~Fresh(l)' =>
                        \E g \in Handlers : At(g, l) /\ job'[g].op # "exchanged"
             Keeps == \A l \in Links : Exchanged(l) => Exchanged(l)'
  <1>1. /\ job = [h \in Handlers |-> job[h]] /\ Idle.op = "idle"
        /\ \A h \in Handlers : /\ job[h] # Idle => job[h].of \in Links
                               /\ job[h].op # "idle" => job[h] # Idle
                               /\ job[h] # Idle => \A op : LET j == [job[h] EXCEPT !.op = op]
                                                           IN  j.op = op /\ j.of = job[h].of
    BY ResetFields DEF Idle
  <1>2. /\ link \in [Links -> {NoRow} \cup LinkRow] /\ tx \in [Links -> {NoRow} \cup TxRow]
        /\ holds \in [ResetBrowsers -> Links \cup {None}] /\ None \notin Links
        /\ resets \in [Links -> Nat]
    BY PasswordResetAssumption DEF ResetTypes, ResetTypeOK
  <1>3. ASSUME Keeps, Frees, UNCHANGED job \/ \E h \in Handlers : Done(h)
        PROVE  OneTransaction'
    BY <1>1, <1>3, OneTransactionKept DEF Done
  <1>4. ASSUME NEW h \in Handlers, NEW j, Keeps, Frees, job' = [job EXCEPT ![h] = j],
               job[h] # Idle, j.of = job[h].of, j.op # "exchanged"
        PROVE  OneTransaction'
    BY <1>1, <1>4, OneTransactionKept
  <1>5. ASSUME NEW l \in Links, NEW m \in BOOLEAN, RequestReset(l, m)
        PROVE  OneTransaction'
    <2>1. Keeps
      BY <1>2, <1>5 DEF RequestReset, Exchanged
    <2> QED BY Zenon, <1>3, <1>5, <2>1 DEF RequestReset, Fresh
  <1>6. ASSUME NEW l \in Links, ResetTimePasses(l)
        PROVE  OneTransaction'
    <2>1. \A row \in LinkRow : LET late == [row EXCEPT !.late = TRUE]
                               IN  late # NoRow /\ late.exchanged = row.exchanged
      BY DEF LinkRow, NoRow
    <2>2. Keeps
      <3> SUFFICES ASSUME NEW k \in Links, Exchanged(k) PROVE Exchanged(k)'
        OBVIOUS
      <3>1. link[k] \in LinkRow
        BY <1>2 DEF Exchanged
      <3>2. link'[k] \in {link[k], [link[k] EXCEPT !.late = TRUE]}
        BY <1>2, <1>6 DEF ResetTimePasses
      <3>3. /\ [link[k] EXCEPT !.late = TRUE] # NoRow
            /\ [link[k] EXCEPT !.late = TRUE].exchanged = link[k].exchanged
        BY Zenon, <2>1, <3>1
      <3> QED BY Zenon, <3>2, <3>3 DEF Exchanged
    <2>3. \A k \in Links : tx[k] = NoRow => tx'[k] = NoRow
      BY <1>2, <1>6 DEF ResetTimePasses
    <2> QED BY Zenon, <1>3, <1>6, <2>2, <2>3 DEF ResetTimePasses, Fresh
  <1>7. ASSUME NEW l \in Links, DeleteLateTransaction(l)
        PROVE  OneTransaction'
    <2>1. \A k \in Links : tx[k] = NoRow => tx'[k] = NoRow
      BY ZenonT(30), <1>2, <1>7 DEF DeleteLateTransaction, Without
    <2> QED BY Zenon, <1>3, <1>7, <2>1 DEF DeleteLateTransaction, Fresh, Exchanged
  <1>8. ASSUME NEW b \in ResetBrowsers, RefuseTransaction(b)
        PROVE  OneTransaction'
    <2>1. /\ \A k \in Links : tx[k] = NoRow => tx'[k] = NoRow
          /\ \A a \in ResetBrowsers : holds'[a] \in {holds[a], None}
      BY <1>2, <1>8 DEF RefuseTransaction, Without, Forget
    <2>2. Keeps /\ UNCHANGED <<resets, guarded, job>>
      BY Zenon, <1>8 DEF RefuseTransaction, Exchanged
    <2> QED BY ZenonT(30), <1>2, <1>3, <2>1, <2>2 DEF Fresh
  <1>9. ASSUME NEW h \in Handlers, NEW b \in ResetBrowsers, NEW l \in Links, ExchangeResetToken(h, b, l)
        PROVE  OneTransaction'
    <2>1. /\ ~Exchanged(l) /\ UNCHANGED <<tx, holds, guarded, resets>> /\ job[h] = Idle
          /\ job' = [job EXCEPT ![h] = [op |-> "exchanged", at |-> b, of |-> l]]
      BY Zenon, <1>9 DEF ExchangeResetToken, Begin, Free, Exchanged
    <2>2. Keeps /\ Exchanged(l)'
      BY <1>2, <1>9 DEF ExchangeResetToken, Exchanged, LinkRow, NoRow
    <2>3. \A k \in Links : Fresh(k)' <=> Fresh(k)
      BY Zenon, <2>1 DEF Fresh
    <2>4. \A g \in Handlers, k \in Links : At(g, k)' => At(g, k) \/ (g = h /\ k = l)
      BY <1>1, <2>1 DEF At
    <2>5. \A g \in Handlers : job'[g].op = "exchanged" /\ g # h => At(g, job'[g].of) /\ job[g] = job'[g]
      BY <1>1, <2>1 DEF At
    <2>6. job'[h].of = l
      BY <1>1, <2>1
    <2>7. Fresh(l) /\ \A g \in Handlers : ~At(g, l)
      BY ZenonT(30), <2>1 DEF OneTransaction
    <2>8. ASSUME NEW k \in Links, ~Exchanged(k)'
          PROVE  Fresh(k)' /\ \A g \in Handlers : ~At(g, k)'
      <3>1. ~Exchanged(k) /\ k # l
        BY Zenon, <2>2, <2>8
      <3>2. Fresh(k) /\ \A g \in Handlers : ~At(g, k)
        BY Zenon, <3>1 DEF OneTransaction
      <3> QED BY Zenon, <2>3, <2>4, <3>1, <3>2
    <2>9. ASSUME NEW f \in Handlers, NEW k \in Links, job'[f].op = "exchanged", job'[f].of = k
          PROVE  Fresh(k)' /\ \A g \in Handlers \ {f} : ~At(g, k)'
      <3>1. CASE f = h
        <4>1. k = l
          BY Zenon, <2>6, <2>9, <3>1
        <4> QED BY Zenon, <2>3, <2>4, <2>7, <3>1, <4>1
      <3>2. CASE f # h
        <4>1. At(f, k) /\ job[f].op = "exchanged" /\ job[f].of = k
          BY Zenon, <2>5, <2>9, <3>2
        <4>2. k # l /\ Fresh(k) /\ \A g \in Handlers \ {f} : ~At(g, k)
          BY Zenon, <2>7, <4>1 DEF OneTransaction
        <4> QED BY Zenon, <2>3, <2>4, <4>2
      <3> QED BY Zenon, <3>1, <3>2
    <2> QED BY Zenon, <2>8, <2>9 DEF OneTransaction
  <1>10. ASSUME NEW h \in Handlers, NEW b \in ResetBrowsers,
                NEW op \in {"select", "totp", "recovery_code", "complete"}, LoadTransaction(h, b, op)
         PROVE  OneTransaction'
    <2> DEFINE l == holds[b]
    <2>1. /\ UNCHANGED <<link, tx, holds, guarded, resets>> /\ job[h] = Idle /\ l # None
          /\ job' = [job EXCEPT ![h] = [op |-> op, at |-> b, of |-> l, seen |-> tx[l]]]
      BY Zenon, <1>10 DEF LoadTransaction, Begin, Free
    <2>2. l \in Links /\ ~Fresh(l) /\ Exchanged(l)
      BY <1>2, <2>1 DEF Fresh, OneTransaction
    <2>3. \A k \in Links : (Fresh(k)' <=> Fresh(k)) /\ (Exchanged(k)' <=> Exchanged(k))
      BY Zenon, <2>1 DEF Fresh, Exchanged
    <2>4. \A g \in Handlers, k \in Links : At(g, k)' => At(g, k) \/ k = l
      BY <1>1, <2>1 DEF At
    <2>5. \A g \in Handlers : job'[g].op = "exchanged" => job[g] = job'[g]
      BY <1>1, <2>1
    <2> HIDE DEF l
    <2> QED BY <2>2, <2>3, <2>4, <2>5 DEF OneTransaction
  <1>11. ASSUME NEW h \in Handlers, CreateResetTransaction(h)
         PROVE  OneTransaction'
    <2> DEFINE l == job[h].of
               j == [job[h] EXCEPT !.op = "created"]
    <2>1. /\ UNCHANGED <<link, holds, resets>> /\ job[h].op = "exchanged"
          /\ job' = [job EXCEPT ![h] = j] /\ \A k \in Links : k # l => (k \in guarded' <=> k \in guarded)
      BY <1>11 DEF CreateResetTransaction
    <2>2. l \in Links /\ At(h, l) /\ j.op = "created" /\ j.of = l
      BY <1>1, <2>1 DEF At
    <2>3. \A k \in Links : k # l => tx'[k] = tx[k]
      BY <1>2, <1>11 DEF CreateResetTransaction
    <2> HIDE DEF l, j
    <2>4. job'[h].op = "created"
      BY <1>1, <2>1, <2>2
    <2>5. Frees
      BY Zenon, <2>1, <2>2, <2>3, <2>4 DEF Fresh
    <2>6. Keeps
      BY <2>1 DEF Exchanged
    <2>7. job[h] # Idle /\ job[h].of = l
      BY <2>2 DEF At, l
    <2> QED BY Zenon, <1>4, <2>1, <2>2, <2>5, <2>6, <2>7
  <1>12. ASSUME NEW h \in Handlers, AnswerExchange(h)
         PROVE  OneTransaction'
    <2>1. /\ UNCHANGED <<link, tx, guarded, resets>> /\ job[h].op = "created" /\ Done(h)
          /\ \A a \in ResetBrowsers : holds'[a] \in {holds[a], job[h].of}
      BY Zenon, <1>2, <1>12 DEF AnswerExchange
    <2>2. At(h, job[h].of) /\ job'[h].op = "idle"
      BY <1>1, <2>1 DEF At, Done
    <2>3. Frees
      BY Zenon, <2>1, <2>2 DEF Fresh
    <2> QED BY Zenon, <1>3, <2>1, <2>3 DEF Exchanged
  \* The other requests write back the transaction of the link they are at, or delete it.
  <1>13. ASSUME NEW h \in Handlers, Done(h), UNCHANGED <<link, guarded, resets>>,
                job[h].op \notin {"idle", "exchanged"},
                \A k \in Links : k # job[h].of => tx'[k] = tx[k],
                \A a \in ResetBrowsers : holds'[a] \in {holds[a], None}
         PROVE  OneTransaction'
    <2>1. At(h, job[h].of) /\ job'[h].op = "idle"
      BY <1>1, <1>13 DEF At, Done
    <2>2. Frees
      BY ZenonT(30), <1>2, <1>13, <2>1 DEF Fresh
    <2> QED BY Zenon, <1>3, <1>13, <2>2 DEF Exchanged
  <1>14. ASSUME NEW h \in Handlers,
                \/ \E method \in {"totp", "recovery_code"} : SelectResetMfaMethod(h, method)
                \/ WrongFactor(h) \/ StoreVerified(h)
         PROVE  OneTransaction'
    <2>1. /\ Done(h) /\ UNCHANGED <<link, guarded, resets, holds>>
          /\ job[h].op \in {"select", "totp", "recovery_code", "verified"}
      BY Zenon, <1>14 DEF SelectResetMfaMethod, WrongFactor, StoreVerified
    <2>2. \A k \in Links : k # job[h].of => tx'[k] = tx[k]
      BY Zenon, <1>2, <1>14 DEF SelectResetMfaMethod, WrongFactor, StoreVerified, Stored
    <2> QED BY <1>13, <2>1, <2>2
  <1>15. ASSUME NEW h \in Handlers, WrongCode(h) \/ ClearTransaction(h)
         PROVE  OneTransaction'
    <2>1. /\ Done(h) /\ UNCHANGED <<link, guarded, resets>>
          /\ job[h].op \in {"totp", "recovery_code", "clear"}
          /\ UNCHANGED holds \/ holds' = Forget(job[h].at)
      BY Zenon, <1>15 DEF WrongCode, ClearTransaction
    <2>2. \A k \in Links : k # job[h].of => tx'[k] = tx[k]
      BY Zenon, <1>2, <1>15 DEF WrongCode, ClearTransaction, Stored, Without
    <2>3. \A a \in ResetBrowsers : holds'[a] \in {holds[a], None}
      BY <1>2, <2>1 DEF Forget
    <2> QED BY <1>13, <2>1, <2>2, <2>3
  <1>16. ASSUME NEW h \in Handlers, NEW last \in BOOLEAN, RightCode(h, last)
         PROVE  OneTransaction'
    <2> DEFINE j == [job[h] EXCEPT !.op = "verified"]
    <2>1. /\ UNCHANGED <<link, tx, holds, guarded, resets>> /\ job[h].op \in {"totp", "recovery_code"}
          /\ job' = [job EXCEPT ![h] = j]
      BY Zenon, <1>16 DEF RightCode
    <2>2. job[h] # Idle /\ j.op = "verified" /\ j.of = job[h].of
      BY <1>1, <2>1
    <2>3. Keeps /\ Frees
      BY Zenon, <2>1 DEF Exchanged, Fresh
    <2> HIDE DEF j
    <2> QED BY Zenon, <1>4, <2>1, <2>2, <2>3
  <1>17. ASSUME NEW h \in Handlers, CompletePasswordReset(h)
         PROVE  OneTransaction'
    <2>1. /\ UNCHANGED <<link, tx, holds, guarded, resets>> /\ job[h].op = "complete"
          /\ \E s : job' = [job EXCEPT ![h] = [op |-> "reset", at |-> job[h].at, of |-> job[h].of,
                                               spends |-> s]]
      BY Zenon, <1>17 DEF CompletePasswordReset
    <2>2. Keeps /\ Frees /\ job[h] # Idle
      BY Zenon, <1>1, <2>1 DEF Exchanged, Fresh
    <2> QED BY Zenon, <1>4, <2>1, <2>2
  <1>18. ASSUME NEW h \in Handlers, CommitReset(h)
         PROVE  OneTransaction'
    <2> DEFINE j == [op |-> "clear", at |-> job[h].at, of |-> job[h].of]
    <2>1. /\ UNCHANGED <<tx, holds, guarded>> /\ job[h].op = "reset"
          /\ resets' = [resets EXCEPT ![job[h].of] = @ + 1] /\ job' = [job EXCEPT ![h] = j]
      BY Zenon, <1>18 DEF CommitReset
    <2>2. /\ j.op = "clear" /\ j.of = job[h].of /\ At(h, job[h].of) /\ job[h] # Idle
      BY <1>1, <2>1 DEF At
    <2>3. \A row \in LinkRow : LET used == [row EXCEPT !.used = TRUE]
                               IN  used # NoRow /\ used.exchanged = row.exchanged
      BY DEF LinkRow, NoRow
    <2>4. Keeps
      BY <1>2, <1>18, <2>3 DEF CommitReset, Exchanged
    <2> HIDE DEF j
    <2>5. job'[h].op = "clear"
      BY ZenonT(30), <1>1, <2>1, <2>2
    <2>6. Frees
      BY <1>2, <2>1, <2>2, <2>5 DEF Fresh
    <2> QED BY Zenon, <1>4, <2>1, <2>2, <2>4, <2>6
  <1>19. ASSUME OwnerChanges \/ UNCHANGED resetVars \/ \E h \in Handlers : ResetRequestDies(h)
         PROVE  OneTransaction'
    BY Zenon, <1>3, <1>19 DEF OwnerChanges, resetVars, ResetRequestDies, Exchanged, Fresh
  <1> HIDE DEF Frees, Keeps
  <1> QED BY <1>5, <1>6, <1>7, <1>8, <1>9, <1>10, <1>11, <1>12, <1>14, <1>15, <1>16, <1>17, <1>18,
             <1>19 DEF ResetNext

LEMMA SpentStep ==
  ASSUME ResetTypes, SpentStaysUsed, [ResetNext]_resetVars
  PROVE  SpentStaysUsed'
  <1> DEFINE Keeps == \A l \in Links : link[l] # NoRow => link'[l] # NoRow /\ (link[l].used => link'[l].used)
  <1>1. /\ job = [h \in Handlers |-> job[h]] /\ Idle.op = "idle"
        /\ \A h \in Handlers : /\ job[h].op = "reset" => job[h].spends \subseteq Links
                               /\ job[h].op # "idle" => \A op : [job[h] EXCEPT !.op = op].op = op
    BY ResetFields DEF Idle
  <1>2. link \in [Links -> {NoRow} \cup LinkRow]
    BY DEF ResetTypes, ResetTypeOK
  <1>3. ASSUME NEW l \in Links, link[l] # NoRow,
               link'[l] \in {link[l], [link[l] EXCEPT !.late = TRUE], [link[l] EXCEPT !.exchanged = TRUE],
                            [link[l] EXCEPT !.used = TRUE]}
        PROVE  link'[l] # NoRow /\ (link[l].used => link'[l].used)
    <2>1. link[l] \in LinkRow
      BY <1>2, <1>3
    <2> QED BY <1>3, <2>1 DEF LinkRow, NoRow
  <1>4. ASSUME UNCHANGED ended, Keeps,
               \A h \in Handlers : job'[h].op = "reset" => job'[h] = job[h]
        PROVE  SpentStaysUsed'
    BY <1>1, <1>4 DEF SpentStaysUsed
  <1>5. ASSUME NEW h \in Handlers, NEW j, j.op # "reset", job' = [job EXCEPT ![h] = j]
        PROVE  \A g \in Handlers : job'[g].op = "reset" => job'[g] = job[g]
    BY <1>1, <1>5
  <1>6. ASSUME NEW l \in Links, (\E m \in BOOLEAN : RequestReset(l, m)) \/ ResetTimePasses(l)
        PROVE  SpentStaysUsed'
    <2>1. UNCHANGED <<ended, job>>
      BY Zenon, <1>6 DEF RequestReset, ResetTimePasses
    <2>2. \A k \in Links : link[k] # NoRow => link'[k] \in {link[k], [link[k] EXCEPT !.late = TRUE]}
      BY <1>2, <1>6 DEF RequestReset, ResetTimePasses
    <2>3. Keeps
      BY Zenon, <1>3, <2>2
    <2> QED BY Zenon, <1>4, <2>1, <2>3
  <1>7. ASSUME NEW h \in Handlers, NEW b \in ResetBrowsers, NEW l \in Links, ExchangeResetToken(h, b, l)
        PROVE  SpentStaysUsed'
    <2>1. UNCHANGED ended /\ job' = [job EXCEPT ![h] = [op |-> "exchanged", at |-> b, of |-> l]]
      BY Zenon, <1>7 DEF ExchangeResetToken, Begin
    <2>2. \A k \in Links : link[k] # NoRow => link'[k] \in {link[k], [link[k] EXCEPT !.exchanged = TRUE]}
      BY Zenon, <1>2, <1>7 DEF ExchangeResetToken
    <2>3. Keeps
      BY Zenon, <1>3, <2>2
    <2>4. \A g \in Handlers : job'[g].op = "reset" => job'[g] = job[g]
      BY <1>1, <2>1
    <2> QED BY Zenon, <1>4, <2>1, <2>3, <2>4
  <1>8. ASSUME NEW h \in Handlers, NEW b \in ResetBrowsers,
               NEW op \in {"select", "totp", "recovery_code", "complete"}, LoadTransaction(h, b, op)
        PROVE  SpentStaysUsed'
    <2>1. /\ UNCHANGED <<ended, link>>
          /\ job' = [job EXCEPT ![h] = [op |-> op, at |-> b, of |-> holds[b], seen |-> tx[holds[b]]]]
      BY Zenon, <1>8 DEF LoadTransaction, Begin
    <2>2. \A g \in Handlers : job'[g].op = "reset" => job'[g] = job[g]
      BY <1>1, <2>1
    <2> QED BY Zenon, <1>4, <2>1, <2>2
  <1>9. ASSUME NEW h \in Handlers, CreateResetTransaction(h) \/ \E last \in BOOLEAN : RightCode(h, last)
        PROVE  SpentStaysUsed'
    <2>1. /\ UNCHANGED <<ended, link>> /\ job[h].op \in {"exchanged", "totp", "recovery_code"}
          /\ \E op \in {"created", "verified"} : job' = [job EXCEPT ![h] = [job[h] EXCEPT !.op = op]]
      BY Zenon, <1>9 DEF CreateResetTransaction, RightCode
    <2>2. \A op \in {"created", "verified"} : [job[h] EXCEPT !.op = op].op # "reset"
      BY <1>1, <2>1
    <2>3. \A g \in Handlers : job'[g].op = "reset" => job'[g] = job[g]
      BY Zenon, <1>5, <2>1, <2>2
    <2> QED BY Zenon, <1>4, <2>1, <2>3
  <1>10. ASSUME NEW h \in Handlers, CompletePasswordReset(h)
         PROVE  SpentStaysUsed'
    <2> DEFINE s == {l \in Links : link[l] # NoRow /\ ~link[l].used}
               j == [op |-> "reset", at |-> job[h].at, of |-> job[h].of, spends |-> s]
    <2>1. UNCHANGED <<ended, link>> /\ job' = [job EXCEPT ![h] = j]
      BY Zenon, <1>10 DEF CompletePasswordReset
    <2>2. \A g \in Handlers : job'[g] = IF g = h THEN j ELSE job[g]
      BY Zenon, <1>1, <2>1
    <2>3. j.spends = s /\ \A l \in s : link[l] # NoRow
      BY Zenon
    <2> HIDE DEF j, s
    <2> QED BY Zenon, <2>1, <2>2, <2>3 DEF SpentStaysUsed
  <1>11. ASSUME NEW h \in Handlers, CommitReset(h)
         PROVE  SpentStaysUsed'
    <2>1. /\ ended' = ended \cup job[h].spends /\ job[h].op = "reset"
          /\ job' = [job EXCEPT ![h] = [op |-> "clear", at |-> job[h].at, of |-> job[h].of]]
          /\ \A l \in Links : link'[l] = IF l \in job[h].spends THEN [link[l] EXCEPT !.used = TRUE] ELSE link[l]
      BY Zenon, <1>11 DEF CommitReset
    <2>2. \A g \in Handlers : job'[g].op = "reset" => job'[g] = job[g]
      BY <1>1, <2>1
    <2>3. \A l \in job[h].spends : l \in Links /\ link[l] \in LinkRow
      BY <1>1, <1>2, <2>1 DEF SpentStaysUsed
    <2>4. Keeps
      BY Zenon, <1>3, <2>1
    <2>5. ASSUME NEW l \in job[h].spends
          PROVE  link'[l] # NoRow /\ link'[l].used
      <3>1. link'[l] = [link[l] EXCEPT !.used = TRUE] /\ link[l] \in LinkRow
        BY Zenon, <2>1, <2>3
      <3> QED BY <3>1 DEF LinkRow, NoRow
    <2> QED BY <1>1, <2>1, <2>2, <2>3, <2>4, <2>5 DEF SpentStaysUsed
  <1>12. ASSUME \/ \E l \in Links : DeleteLateTransaction(l)
                \/ \E b \in ResetBrowsers : RefuseTransaction(b)
                \/ \E h \in Handlers : \/ AnswerExchange(h) \/ WrongFactor(h) \/ WrongCode(h) \/ StoreVerified(h)
                                       \/ ClearTransaction(h) \/ ResetRequestDies(h)
                                       \/ \E method \in {"totp", "recovery_code"} : SelectResetMfaMethod(h, method)
                \/ OwnerChanges \/ UNCHANGED resetVars
         PROVE  SpentStaysUsed'
    <2>1. UNCHANGED <<ended, link>>
      BY Zenon, <1>12 DEF DeleteLateTransaction, RefuseTransaction, AnswerExchange, WrongFactor,
         WrongCode, StoreVerified, ClearTransaction, ResetRequestDies, SelectResetMfaMethod,
         OwnerChanges, resetVars
    <2>2. UNCHANGED job \/ \E h \in Handlers : Done(h)
      BY Zenon, <1>12 DEF DeleteLateTransaction, RefuseTransaction, AnswerExchange, WrongFactor,
         WrongCode, StoreVerified, ClearTransaction, ResetRequestDies, SelectResetMfaMethod,
         OwnerChanges, resetVars
    <2>3. \A g \in Handlers : job'[g].op = "reset" => job'[g] = job[g]
      BY <1>1, <2>2 DEF Done
    <2> QED BY Zenon, <1>4, <2>1, <2>3
  <1> HIDE DEF Keeps
  <1> QED BY Zenon, <1>6, <1>7, <1>8, <1>9, <1>10, <1>11, <1>12 DEF ResetNext

LEMMA CopiesAskStep ==
  ASSUME ResetTypes, OneTransaction, CopiesAsk, [ResetNext]_resetVars
  PROVE  CopiesAsk'
  <1> DEFINE G == guarded \ factor
  <1>1. /\ job = [h \in Handlers |-> job[h]] /\ Idle.op = "idle" /\ guarded \subseteq Links
        /\ \A h \in Handlers : /\ job[h] # Idle => job[h].of \in Links
                               /\ job[h].op # "idle" => At(h, job[h].of)
                               /\ job[h].op \in {"select", "totp", "recovery_code", "verified"} =>
                                    job[h].seen \in TxRow
    BY ResetFields DEF Idle, At
  <1>2. tx \in [Links -> {NoRow} \cup TxRow] /\ resets \in [Links -> Nat]
    BY DEF ResetTypes, ResetTypeOK
  <1>3. ASSUME NEW row \in TxRow, Asks(row)
        PROVE  Asks([row EXCEPT !.late = TRUE]) /\ Asks([row EXCEPT !.late = FALSE])
    BY Zenon, <1>3 DEF TxRow, Asks
  <1>4. ASSUME UNCHANGED <<guarded, factor, resets>>, UNCHANGED job \/ \E h \in Handlers : Done(h),
               \A l \in Links : tx'[l] \in {tx[l], NoRow} \/ (l \in G => Asks(tx'[l]))
        PROVE  CopiesAsk'
    <2>1. \A h \in Handlers, l \in Links : At(h, l)' => At(h, l) /\ job'[h] = job[h]
      BY <1>1, <1>4 DEF Done, At
    <2>2. \A l \in G : l \in Links /\ (tx'[l] # NoRow => Asks(tx'[l])) /\ resets'[l] = 0
      BY <1>1, <1>4 DEF CopiesAsk
    <2> QED BY Zenon, <1>4, <2>1, <2>2 DEF CopiesAsk
  <1>5. ASSUME NEW l \in Links, ResetTimePasses(l)
        PROVE  CopiesAsk'
    <2>1. \A k \in Links : \/ tx'[k] = tx[k]
                           \/ tx[k] # NoRow /\ tx'[k] = [tx[k] EXCEPT !.late = TRUE]
      BY Zenon, <1>2, <1>5 DEF ResetTimePasses
    <2>2. \A k \in G : tx[k] # NoRow => tx[k] \in TxRow /\ Asks(tx[k])
      BY Zenon, <1>1, <1>2 DEF CopiesAsk
    <2> QED BY Zenon, <1>3, <1>4, <1>5, <2>1, <2>2 DEF ResetTimePasses
  <1>6. ASSUME \/ \E l \in Links : \E m \in BOOLEAN : RequestReset(l, m)
               \/ \E l \in Links : DeleteLateTransaction(l)
               \/ \E b \in ResetBrowsers : RefuseTransaction(b)
               \/ \E h \in Handlers : AnswerExchange(h) \/ ResetRequestDies(h) \/ ClearTransaction(h)
               \/ OwnerChanges \/ UNCHANGED resetVars
        PROVE  CopiesAsk'
    <2>1. /\ UNCHANGED <<guarded, factor, resets>>
          /\ UNCHANGED job \/ \E h \in Handlers : Done(h)
          /\ UNCHANGED tx \/ \E l : tx' = Without(l)
      BY Zenon, <1>6 DEF RequestReset, DeleteLateTransaction, RefuseTransaction, AnswerExchange,
         ResetRequestDies, ClearTransaction, OwnerChanges, resetVars
    <2>2. \A l \in Links : tx'[l] \in {tx[l], NoRow}
      BY Zenon, <1>2, <2>1 DEF Without
    <2> QED BY Zenon, <1>4, <2>1, <2>2
  <1>7. ASSUME NEW h \in Handlers, NEW j, job' = [job EXCEPT ![h] = j],
               UNCHANGED <<tx, guarded, factor, resets>>,
               j.of \in G => /\ j.op \notin {"verified", "reset", "clear"}
                             /\ j.op \in {"select", "totp", "recovery_code", "complete"} => Asks(j.seen)
        PROVE  CopiesAsk'
    <2>1. \A g \in Handlers : job'[g] = IF g = h THEN j ELSE job[g]
      BY Zenon, <1>1, <1>7
    <2>2. \A g \in Handlers, l \in G : At(g, l)' =>
             \/ g = h /\ job'[g] = j /\ j.of = l
             \/ At(g, l) /\ job'[g] = job[g]
      BY Zenon, <2>1 DEF At
    <2>3. \A l \in G : resets'[l] = 0 /\ (tx'[l] # NoRow => Asks(tx'[l]))
      BY Zenon, <1>7 DEF CopiesAsk
    <2>4. \A l \in G, g \in Handlers : At(g, l)' =>
            /\ job'[g].op \notin {"verified", "reset", "clear"}
            /\ job'[g].op \in {"select", "totp", "recovery_code", "complete"} => Asks(job'[g].seen)
      BY Zenon, <1>7, <2>2 DEF CopiesAsk
    <2> QED BY Zenon, <1>7, <2>3, <2>4 DEF CopiesAsk
  <1>8. ASSUME NEW h \in Handlers, NEW b \in ResetBrowsers, NEW l \in Links, ExchangeResetToken(h, b, l)
        PROVE  CopiesAsk'
    <2> DEFINE j == [op |-> "exchanged", at |-> b, of |-> l]
    <2>1. job' = [job EXCEPT ![h] = j] /\ UNCHANGED <<tx, guarded, factor, resets>>
      BY Zenon, <1>8 DEF ExchangeResetToken, Begin
    <2>2. j.op = "exchanged"
      OBVIOUS
    <2> HIDE DEF j
    <2> QED BY Zenon, <1>7, <2>1, <2>2
  <1>9. ASSUME NEW h \in Handlers, NEW b \in ResetBrowsers,
               NEW op \in {"select", "totp", "recovery_code", "complete"}, LoadTransaction(h, b, op)
        PROVE  CopiesAsk'
    <2> DEFINE j == [op |-> op, at |-> b, of |-> holds[b], seen |-> tx[holds[b]]]
    <2>1. /\ job' = [job EXCEPT ![h] = j] /\ UNCHANGED <<tx, guarded, factor, resets>>
          /\ tx[holds[b]] # NoRow
      BY Zenon, <1>9 DEF LoadTransaction, Begin
    <2>2. j.op = op /\ j.of = holds[b] /\ j.seen = tx[holds[b]]
      OBVIOUS
    <2>3. j.of \in G => Asks(j.seen)
      BY ZenonT(30), <2>1, <2>2 DEF CopiesAsk
    <2> HIDE DEF j
    <2> QED BY Zenon, <1>7, <2>1, <2>2, <2>3
  <1>10. ASSUME NEW h \in Handlers, CreateResetTransaction(h)
         PROVE  CopiesAsk'
    <2> DEFINE l == job[h].of
               row == [status |-> "open", required |-> IF owner.mfa THEN "totp" ELSE "none",
                       verified |-> ~owner.mfa, fails |-> 0, late |-> FALSE]
    <2>1. /\ UNCHANGED <<resets, factor>> /\ tx' = [tx EXCEPT ![l] = row] /\ job[h].op = "exchanged"
          /\ guarded' = IF owner.mfa THEN guarded \cup {l} ELSE guarded
          /\ job' = [job EXCEPT ![h] = [job[h] EXCEPT !.op = "created"]]
      BY Zenon, <1>10 DEF CreateResetTransaction
    <2>2. /\ l \in Links /\ Fresh(l) /\ At(h, l) /\ \A g \in Handlers \ {h} : ~At(g, l)
      BY <1>1, <2>1 DEF OneTransaction, At
    <2>3. owner.mfa => Asks(row)
      BY Zenon DEF Asks
    <2>4. /\ job'[h].op = "created" /\ job'[h].of = l /\ \A g \in Handlers \ {h} : job'[g] = job[g]
      BY Zenon, <1>1, <2>1, <2>2, ResetFields DEF At
    <2> HIDE DEF l, row
    <2>5. /\ \A k \in Links : tx'[k] = IF k = l THEN row ELSE tx[k]
          /\ \A k \in guarded' \ factor' : k \in G \/ (k = l /\ owner.mfa)
      BY Zenon, <1>2, <2>1
    <2>6. \A k \in guarded' \ factor' : resets'[k] = 0 /\ (tx'[k] # NoRow => Asks(tx'[k]))
      <3>1. resets[l] = 0 /\ \A k \in G : k \in Links /\ resets[k] = 0 /\ (tx[k] # NoRow => Asks(tx[k]))
        BY Zenon, <1>1, <2>2 DEF CopiesAsk, Fresh
      <3>2. l \notin guarded
        BY Zenon, <2>2 DEF Fresh
      <3> QED BY Zenon, <2>1, <2>2, <2>3, <2>5, <3>1, <3>2
    <2>7. \A k \in guarded' \ factor', g \in Handlers : At(g, k)' =>
            \/ job'[g].op = "created"
            \/ k \in G /\ At(g, k) /\ job'[g] = job[g]
      BY Zenon, <2>2, <2>4, <2>5 DEF At
    <2> QED BY <2>6, <2>7 DEF CopiesAsk
  <1>11. ASSUME NEW h \in Handlers, NEW row \in TxRow, Done(h), UNCHANGED <<guarded, factor, resets>>,
                job[h].of \in Links, tx' \in {tx, Without(job[h].of), Stored(job[h].of, row)},
                job[h].of \in G => Asks(row)
         PROVE  CopiesAsk'
    <2>1. \A k \in Links : \/ tx'[k] \in {tx[k], NoRow}
                           \/ k = job[h].of /\ tx'[k] = [row EXCEPT !.late = FALSE]
      BY Zenon, <1>2, <1>11 DEF Without, Stored
    <2>2. \A k \in Links : tx'[k] \in {tx[k], NoRow} \/ (k \in G => Asks(tx'[k]))
      BY Zenon, <1>3, <1>11, <2>1
    <2> QED BY Zenon, <1>4, <1>11, <2>2
  <1>12. ASSUME NEW h \in Handlers, NEW method \in {"totp", "recovery_code"}, SelectResetMfaMethod(h, method)
         PROVE  CopiesAsk'
    <2> DEFINE seen == job[h].seen
               row == [seen EXCEPT !.required = method, !.verified = @ /\ seen.required = method]
    <2>1. /\ Done(h) /\ UNCHANGED <<guarded, factor, resets>> /\ job[h].op = "select"
          /\ tx' \in {tx, Stored(job[h].of, seen), Stored(job[h].of, row)}
      BY Zenon, <1>12 DEF SelectResetMfaMethod
    <2>2. seen \in TxRow /\ At(h, job[h].of) /\ job[h].of \in Links
      BY <1>1, <2>1 DEF At
    <2>3. row \in TxRow /\ (Asks(seen) => Asks(row))
      BY Zenon, <2>2 DEF TxRow, Asks
    <2>4. job[h].of \in G => Asks(seen)
      BY <2>1, <2>2 DEF CopiesAsk
    <2> HIDE DEF row, seen
    <2> QED BY Zenon, <1>11, <2>1, <2>2, <2>3, <2>4
  <1>13. ASSUME NEW h \in Handlers, WrongFactor(h) \/ WrongCode(h)
         PROVE  CopiesAsk'
    <2> DEFINE seen == job[h].seen
               row == [seen EXCEPT !.fails = seen.fails + 1]
    <2>1. /\ Done(h) /\ UNCHANGED <<guarded, factor, resets>> /\ job[h].op \in {"totp", "recovery_code"}
          /\ \/ tx' \in {Without(job[h].of), Stored(job[h].of, seen)}
             \/ ~(seen.fails + 1 >= FailureLimit) /\ tx' = Stored(job[h].of, row)
      BY Zenon, <1>13 DEF WrongFactor, WrongCode
    <2>2. seen \in TxRow /\ At(h, job[h].of) /\ job[h].of \in Links
      BY <1>1, <2>1 DEF At
    <2>3. ~(seen.fails + 1 >= FailureLimit) => seen.fails + 1 \in 0..(FailureLimit - 1)
      BY <2>2, PasswordResetAssumption DEF TxRow
    <2>4. /\ seen.fails + 1 \in 0..(FailureLimit - 1) => row \in TxRow
          /\ Asks(seen) => Asks(row)
      BY Zenon, <2>2 DEF TxRow, Asks
    <2>5. job[h].of \in G => Asks(seen)
      BY <2>1, <2>2 DEF CopiesAsk
    <2> HIDE DEF row, seen
    <2> QED BY Zenon, <1>11, <2>1, <2>2, <2>3, <2>4, <2>5
  <1>14. ASSUME NEW h \in Handlers, NEW last \in BOOLEAN, RightCode(h, last)
         PROVE  CopiesAsk'
    <2>1. /\ UNCHANGED <<tx, guarded, resets>> /\ factor' = factor \cup {job[h].of}
          /\ job' = [job EXCEPT ![h] = [job[h] EXCEPT !.op = "verified"]]
          /\ job[h].op \in {"totp", "recovery_code"}
      BY Zenon, <1>14 DEF RightCode
    <2>2. job'[h].of = job[h].of /\ \A g \in Handlers : g # h => job'[g] = job[g]
      BY Zenon, <1>1, <2>1, ResetFields DEF At
    <2>3. \A k \in guarded' \ factor' : k \in G /\ k # job[h].of
      BY Zenon, <2>1
    <2>4. \A g \in Handlers, k \in guarded' \ factor' : At(g, k)' => At(g, k) /\ job'[g] = job[g]
      BY Zenon, <2>2, <2>3 DEF At
    <2> QED BY Zenon, <2>1, <2>3, <2>4 DEF CopiesAsk
  <1>15. ASSUME NEW h \in Handlers, job[h].op \in {"verified", "reset", "clear"}
         PROVE  job[h].of \notin G /\ job[h].of \in Links
    BY <1>1, <1>15 DEF CopiesAsk, At
  <1>16. ASSUME NEW h \in Handlers, StoreVerified(h)
         PROVE  CopiesAsk'
    <2> DEFINE row == [job[h].seen EXCEPT !.verified = TRUE]
    <2>1. /\ Done(h) /\ UNCHANGED <<guarded, factor, resets>> /\ job[h].op = "verified"
          /\ tx' = Stored(job[h].of, row)
      BY Zenon, <1>16 DEF StoreVerified
    <2>2. row \in TxRow
      BY Zenon, <1>1, <2>1 DEF TxRow
    <2> HIDE DEF row
    <2> QED BY Zenon, <1>11, <1>15, <2>1, <2>2
  <1>17. ASSUME NEW h \in Handlers, CompletePasswordReset(h)
         PROVE  CopiesAsk'
    <2>1. /\ UNCHANGED <<tx, guarded, factor, resets>> /\ job[h].op = "complete"
          /\ job[h].seen.required = "none" \/ job[h].seen.verified
      BY Zenon, <1>17 DEF CompletePasswordReset
    <2>2. \E s : job' = [job EXCEPT ![h] = [op |-> "reset", at |-> job[h].at, of |-> job[h].of, spends |-> s]]
      BY Zenon, <1>17 DEF CompletePasswordReset
    <2>3. job[h].of \notin G
      BY Zenon, <1>1, <2>1 DEF CopiesAsk, Asks
    <2> QED BY Zenon, <1>7, <2>1, <2>2, <2>3
  <1>18. ASSUME NEW h \in Handlers, CommitReset(h)
         PROVE  CopiesAsk'
    <2>1. /\ UNCHANGED <<tx, guarded, factor>> /\ job[h].op = "reset"
          /\ resets' = [resets EXCEPT ![job[h].of] = @ + 1]
          /\ job' = [job EXCEPT ![h] = [op |-> "clear", at |-> job[h].at, of |-> job[h].of]]
      BY Zenon, <1>18 DEF CommitReset
    <2>2. /\ \A l \in G : l # job[h].of /\ resets'[l] = resets[l]
          /\ job'[h].of = job[h].of /\ \A g \in Handlers : g # h => job'[g] = job[g]
      BY Zenon, <1>1, <1>2, <1>15, <2>1
    <2>3. \A g \in Handlers, l \in G : At(g, l)' => At(g, l) /\ job'[g] = job[g]
      BY Zenon, <2>2 DEF At
    <2>4. \A l \in G : resets'[l] = 0 /\ (tx'[l] # NoRow => Asks(tx'[l]))
      BY Zenon, <2>1, <2>2 DEF CopiesAsk
    <2>5. \A l \in G, g \in Handlers : At(g, l)' =>
            /\ job'[g].op \notin {"verified", "reset", "clear"}
            /\ job'[g].op \in {"select", "totp", "recovery_code", "complete"} => Asks(job'[g].seen)
      BY Zenon, <2>3 DEF CopiesAsk
    <2> QED BY Zenon, <2>1, <2>4, <2>5 DEF CopiesAsk
  <1> HIDE DEF G
  <1> QED BY Zenon, <1>5, <1>6, <1>8, <1>9, <1>10, <1>12, <1>13, <1>14, <1>16, <1>17, <1>18
             DEF ResetNext

ResetInv == ResetTypes /\ OneTransaction /\ SpentStaysUsed /\ CopiesAsk

LEMMA ResetBegin == ResetInit => ResetInv
  <1> SUFFICES ASSUME ResetInit PROVE ResetInv
    OBVIOUS
  <1> USE PasswordResetAssumption
  <1>1. job = [h \in Handlers |-> Idle] /\ \A h \in Handlers : job[h].op = "idle"
    BY DEF ResetInit, Idle
  <1>2. ResetTypes
    BY Zenon, <1>1 DEF ResetInit, ResetTypes, ResetTypeOK, ResetJob
  <1>3. OneTransaction
    BY <1>1 DEF ResetInit, OneTransaction, Fresh, At
  <1>4. SpentStaysUsed /\ CopiesAsk
    BY <1>1 DEF ResetInit, SpentStaysUsed, CopiesAsk
  <1> QED BY <1>2, <1>3, <1>4 DEF ResetInv

\* A handler gets a link to exchange from no other step.
LEMMA ExchangeStep ==
  ASSUME ResetInv, [ResetNext]_resetVars, NEW h \in Handlers,
         job'[h].op = "exchanged", job[h].op # "exchanged"
  PROVE  ~link[job'[h].of].exchanged /\ tx[job'[h].of] = NoRow /\ job'[h].of \notin ended
  <1>1. job \in [Handlers -> ResetJob]
    BY DEF ResetInv, ResetTypes
  <1>2. ASSUME NEW g \in Handlers, NEW j, j.op # "exchanged", job' \in {job, [job EXCEPT ![g] = j]}
        PROVE  FALSE
    BY <1>1, <1>2
  <1>3. ASSUME NEW g \in Handlers, NEW op, op # "exchanged", job' = [job EXCEPT ![g].op = op],
               job[g].op \in {"exchanged", "totp", "recovery_code"}
        PROVE  FALSE
    <2>1. job[g] # Idle /\ [job[g] EXCEPT !.op = op].op = op
      BY Zenon, <1>3, ResetFields DEF ResetInv, Idle
    <2> QED BY <1>1, <1>3, <2>1
  <1>4. ASSUME NEW g \in Handlers, NEW b \in ResetBrowsers, NEW l \in Links, ExchangeResetToken(g, b, l)
        PROVE  ~link[job'[h].of].exchanged /\ tx[job'[h].of] = NoRow /\ job'[h].of \notin ended
    <2>1. /\ ~link[l].exchanged /\ ~link[l].used
          /\ job' = [job EXCEPT ![g] = [op |-> "exchanged", at |-> b, of |-> l]]
      BY <1>4 DEF ExchangeResetToken, Begin
    <2>2. job'[h].of = l
      BY <1>1, <2>1
    <2> QED BY <2>1, <2>2 DEF ResetInv, OneTransaction, Exchanged, Fresh, SpentStaysUsed
  <1>5. UNCHANGED job => FALSE
    OBVIOUS
  <1>6. \A g \in Handlers : Done(g) => FALSE
    BY SMTT(30), <1>1 DEF Done, Idle
  <1>7. ASSUME NEW g \in Handlers, NEW b \in ResetBrowsers,
               NEW op \in {"select", "totp", "recovery_code", "complete"}, LoadTransaction(g, b, op)
        PROVE  FALSE
    BY Zenon, <1>1, <1>7 DEF LoadTransaction, Begin
  <1>8. ASSUME NEW g \in Handlers,
               CreateResetTransaction(g) \/ \E last \in BOOLEAN : RightCode(g, last)
        PROVE  FALSE
    BY <1>3, <1>8 DEF CreateResetTransaction, RightCode
  <1>9. ASSUME NEW g \in Handlers, CompletePasswordReset(g) \/ CommitReset(g)
        PROVE  FALSE
    BY <1>1, <1>9 DEF CompletePasswordReset, CommitReset
  <1> QED BY Zenon, <1>4, <1>5, <1>6, <1>7, <1>8, <1>9 DEF ResetNext, resetVars, RequestReset,
             ResetTimePasses, DeleteLateTransaction, RefuseTransaction, AnswerExchange,
             SelectResetMfaMethod, WrongFactor, WrongCode, StoreVerified, ClearTransaction,
             ResetRequestDies, OwnerChanges

\* complete_password_reset and exchange_reset_token, for any links, browsers and handlers: a
\* reset of an account with MFA has had a right code, and a link creates a transaction only
\* while it is unspent and has none.
THEOREM ResetsEarned == ResetSpec => ResetEarned
  <1>1. ResetInv /\ [ResetNext]_resetVars => ResetInv'
    BY ResetTypesStep, OneTransactionStep, SpentStep, CopiesAskStep DEF ResetInv
  <1>2. ResetInv /\ ResetInv' /\ [ResetNext]_resetVars =>
          [/\ \A l \in guarded' : resets'[l] > 0 => l \in factor'
           /\ \A h \in Handlers, l \in Links :
                job'[h].op = "exchanged" /\ job[h].op # "exchanged" /\ job'[h].of = l =>
                  ~link[l].exchanged /\ tx[l] = NoRow /\ l \notin ended]_resetVars
    <2> SUFFICES ASSUME ResetInv, ResetInv', [ResetNext]_resetVars
                 PROVE  /\ \A l \in guarded' : resets'[l] > 0 => l \in factor'
                        /\ \A h \in Handlers, l \in Links :
                             job'[h].op = "exchanged" /\ job[h].op # "exchanged" /\ job'[h].of = l =>
                               ~link[l].exchanged /\ tx[l] = NoRow /\ l \notin ended
      OBVIOUS
    <2>1. \A l \in guarded' : resets'[l] > 0 => l \in factor'
      BY SMTT(30) DEF ResetInv, ResetTypes, CopiesAsk
    <2> QED BY <2>1, ExchangeStep
  <1> QED BY <1>1, <1>2, ResetBegin, PTL DEF ResetSpec, ResetEarned

-----------------------------------------------------------------------------
(* Registration.                                                           *)

\* Session data a browser may hold: what it calls verified is the browser's own.
Owned(v, data) == data \in WebData /\ data.verified \in Reads[v] \cup {None}

RegistrationInv ==
  /\ web \in [Visitors -> WebData] /\ job = [h \in Handlers |-> job[h]]
  /\ \A v \in Visitors : Owned(v, web[v])
  /\ \A h \in Handlers :
       /\ job[h].op \in {"send", "verify", "register"} =>
            job[h].by \in Visitors /\ Owned(job[h].by, job[h].data)
       /\ (job[h].op = "verify" /\ job[h].right) \/ job[h].op = "register" =>
            job[h].email \in Reads[job[h].by]
  /\ RegisteredEmailProved

LEMMA RegistrationBegin == RegistrationInit => RegistrationInv
  BY SMTT(30) DEF RegistrationInit, RegistrationInv, RegisteredEmailProved, Owned, NoWeb, WebData,
     Idle

\* Clearing or setting what the session data says keeps it the browser's own.
LEMMA OwnedData ==
  ASSUME NEW v \in Visitors, NEW data, Owned(v, data)
  PROVE  /\ Owned(v, ClearProgress(data))
         /\ \A b \in Bindings \cup {None} : Owned(v, [ClearProgress(data) EXCEPT !.binding = b])
         /\ \A e \in Reads[v] : Owned(v, [data EXCEPT !.verified = e])
  BY Zenon, RegistrationAssumption DEF Owned, ClearProgress, WebData

LEMMA RegistrationStep ==
  ASSUME RegistrationInv, [RegistrationNext]_registrationVars
  PROVE  RegistrationInv'
  <1> USE RegistrationAssumption
  \* A request ends and saves its session data.
  <1>1. ASSUME NEW h \in Handlers, NEW v \in Visitors, NEW data, Owned(v, data),
               SaveWeb(v, data), Done(h), RegisteredEmailProved'
        PROVE  RegistrationInv'
    <2>1. web' = [web EXCEPT ![v] = data] /\ job' = [job EXCEPT ![h] = Idle] /\ data \in WebData
      BY <1>1 DEF SaveWeb, Done, Owned
    <2> QED BY <1>1, <2>1 DEF RegistrationInv, Owned, Idle
  \* A request goes on with new work in hand.
  <1>2. ASSUME NEW h \in Handlers, NEW v \in Visitors, NEW j, job' = [job EXCEPT ![h] = j],
               j.by = v, Owned(v, j.data),
               (j.op = "verify" /\ j.right) \/ j.op = "register" => j.email \in Reads[v],
               UNCHANGED <<web, accounts>>
        PROVE  RegistrationInv'
    BY <1>2 DEF RegistrationInv, RegisteredEmailProved, Owned
  <1>3. ASSUME UNCHANGED <<web, accounts, job>>
        PROVE  RegistrationInv'
    BY <1>3 DEF RegistrationInv, RegisteredEmailProved, Owned
  <1>4. ASSUME NEW h \in Handlers, NEW v \in Visitors, NEW e \in Emails, NEW b \in Bindings,
               RequestOtp(h, v, e, b)
        PROVE  RegistrationInv'
    <2> DEFINE data == [ClearProgress(web[v]) EXCEPT !.binding = b]
               code == 1 + Cardinality(UNION {mailed[x] : x \in Emails})
               j == [op |-> "send", by |-> v, email |-> e, code |-> code, data |-> data]
    <2>1. Owned(v, data)
      BY OwnedData DEF RegistrationInv
    <2>2. /\ UNCHANGED <<web, accounts>>
          /\ UNCHANGED job \/ Continue(h, j)
      BY <1>4, Zenon DEF RequestOtp
    <2> HIDE DEF data
    <2>3. j.op = "send" /\ j.by = v /\ Owned(v, j.data)
      BY <2>1
    <2> HIDE DEF j
    <2> QED BY <1>2, <1>3, <2>2, <2>3 DEF Continue
  <1>5. ASSUME NEW h \in Handlers, NEW v \in Visitors, NEW e \in Emails, NEW right \in BOOLEAN,
               VerifyOtp(h, v, e, right)
        PROVE  RegistrationInv'
    <2>1. /\ UNCHANGED <<web, accounts>>
          /\ \/ UNCHANGED job
             \/ /\ right => e \in Reads[v]
                /\ \E tries : Continue(h, [op |-> "verify", by |-> v, email |-> e, right |-> right,
                                           tries |-> tries, data |-> web[v]])
      BY Zenon, <1>5 DEF VerifyOtp
    <2>2. Owned(v, web[v])
      BY DEF RegistrationInv
    <2>3. ASSUME NEW j, NEW tries, Continue(h, j), right => e \in Reads[v],
                 j = [op |-> "verify", by |-> v, email |-> e, right |-> right,
                      tries |-> tries, data |-> web[v]]
          PROVE  RegistrationInv'
      <3>1. j.by = v /\ Owned(v, j.data) /\ (j.right => j.email \in Reads[v]) /\ j.op = "verify"
        BY <2>2, <2>3
      <3> QED BY Zenon, <1>2, <2>1, <2>3, <3>1 DEF Continue
    <2> QED BY Zenon, <1>3, <2>1, <2>3
  <1>6. ASSUME NEW h \in Handlers, NEW v \in Visitors, NEW e \in Emails, NEW n \in Names,
               RegisterUser(h, v, e, n)
        PROVE  RegistrationInv'
    <2> DEFINE j == [op |-> "register", by |-> v, email |-> e, name |-> n, data |-> web[v]]
    <2>1. UNCHANGED <<web, accounts>> /\ web[v].verified = e /\ job' = [job EXCEPT ![h] = j]
      BY <1>6 DEF RegisterUser, Begin
    <2>2. j.by = v /\ Owned(v, j.data) /\ j.email \in Reads[v]
      BY <2>1 DEF RegistrationInv, Owned
    <2> HIDE DEF j
    <2> QED BY Zenon, <1>2, <2>1, <2>2
  <1>7. ASSUME NEW h \in Handlers, SendOtp(h) \/ SendOtpFails(h)
        PROVE  RegistrationInv'
    <2>1. /\ job[h].op = "send" /\ Done(h) /\ UNCHANGED accounts
          /\ SaveWeb(job[h].by, job[h].data) \/ SaveWeb(job[h].by, ClearProgress(job[h].data))
      BY <1>7 DEF SendOtp, SendOtpFails
    <2>2. job[h].by \in Visitors /\ Owned(job[h].by, job[h].data)
      BY <2>1 DEF RegistrationInv
    <2> QED BY <1>1, <2>1, <2>2, OwnedData DEF RegistrationInv, RegisteredEmailProved
  <1>8. ASSUME NEW h \in Handlers, VerifyOtpCommit(h)
        PROVE  RegistrationInv'
    <2>1. /\ job[h].op = "verify" /\ Done(h) /\ UNCHANGED accounts
          /\ SaveWeb(job[h].by, IF job[h].right THEN [job[h].data EXCEPT !.verified = job[h].email]
                                ELSE job[h].data)
      BY <1>8 DEF VerifyOtpCommit
    <2>2. /\ job[h].by \in Visitors /\ Owned(job[h].by, job[h].data)
          /\ job[h].right => job[h].email \in Reads[job[h].by]
      BY <2>1 DEF RegistrationInv
    <2>3. job[h].right => Owned(job[h].by, [job[h].data EXCEPT !.verified = job[h].email])
      BY <2>2, OwnedData
    <2> QED BY <1>1, <2>1, <2>2, <2>3 DEF RegistrationInv, RegisteredEmailProved
  <1>9. ASSUME NEW h \in Handlers, InsertAccount(h)
        PROVE  RegistrationInv'
    <2> DEFINE free == \A a \in accounts : a.email # job[h].email /\ a.name # job[h].name
               data == IF free THEN [ClearProgress(job[h].data) EXCEPT !.binding = None] ELSE job[h].data
    <2>1. /\ job[h].op = "register" /\ Done(h) /\ SaveWeb(job[h].by, data)
          /\ accounts' = IF free THEN accounts \cup {Opened(job[h])} ELSE accounts
      BY <1>9 DEF InsertAccount
    <2>2. /\ job[h].by \in Visitors /\ Owned(job[h].by, job[h].data)
          /\ job[h].email \in Reads[job[h].by]
      BY <2>1 DEF RegistrationInv
    <2>3. Owned(job[h].by, data)
      BY <2>2, OwnedData
    <2>4. RegisteredEmailProved'
      BY <2>1, <2>2 DEF RegistrationInv, RegisteredEmailProved, Opened
    <2> HIDE DEF data
    <2> QED BY <1>1, <2>1, <2>2, <2>3, <2>4
  <1>10. ASSUME NEW h \in Handlers, RegistrationFails(h)
         PROVE  RegistrationInv'
    BY <1>10 DEF RegistrationFails, Done, Idle, RegistrationInv, RegisteredEmailProved, Owned
  <1>11. ASSUME OtpTimePasses
         PROVE  RegistrationInv'
    <2>1. ASSUME NEW v \in Visitors, SaveWeb(v, ClearProgress(web[v])), UNCHANGED <<accounts, job>>
          PROVE  RegistrationInv'
      <3>1. Owned(v, ClearProgress(web[v])) /\ ClearProgress(web[v]) \in WebData
        BY OwnedData DEF RegistrationInv, Owned
      <3> HIDE DEF ClearProgress
      <3> QED BY <2>1, <3>1 DEF SaveWeb, RegistrationInv, RegisteredEmailProved, Owned
    <2> QED BY <1>3, <1>11, <2>1 DEF OtpTimePasses
  <1> QED BY <1>3, <1>4, <1>5, <1>6, <1>7, <1>8, <1>9, <1>10, <1>11 DEF RegistrationNext,
             registrationVars

\* register_user after verify_registration_otp, for any visitors, browser bindings and
\* addresses: an account's address is one its owner reads, and no two accounts share one.
THEOREM RegistrationProved == RegistrationSpec => []RegisteredEmailProved
  <1>1. RegistrationInv => RegisteredEmailProved
    BY DEF RegistrationInv
  <1> QED BY <1>1, RegistrationBegin, RegistrationStep, PTL DEF RegistrationSpec
=============================================================================
