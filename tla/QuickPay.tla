------------------------------ MODULE QuickPay ------------------------------
(* PayUp, the payments by phone number of one customer (app/banking/routes.py), *)
(* the policy that allows them (evaluate_payup_risk) and the changes to the      *)
(* account that hold them back, of which the change of email and phone           *)
(* (update_profile_details, app/auth/services.py) is spelled out. Amounts,       *)
(* limits and balances are the subject of module Transfers.                      *)
(*                                                                               *)
(* A request works on the copy of the session it loaded; its response stores the *)
(* whole copy. An authenticator code moves the copy to a new session id.         *)
EXTENDS Naturals, FiniteSets, Sequences, Workers

CONSTANTS Emails, Phones,  \* what the customer may type
          HomeEmail, HomePhone, \* what the account starts with
          Readable,        \* mailboxes the customer reads
          Codes,           \* codes sent by email, used once each
          Recipients,      \* customers with a phone number
          PayTokens,       \* confirmation tokens, used once each
          AttemptLimit,    \* PAYUP_RATE_LIMIT_*: of the sender and of one recipient
          ChallengeTtl, LookupTtl, ConfirmTtl, \* lifetimes of what waits
          QuietTime,       \* PAYUP_SENSITIVE_EVENT_COOLDOWN_SECONDS
          MaxAge,          \* PAYUP_QUICK_SESSION_MAX_AGE_SECONDS
          MaxTick          \* bound on the clock

ASSUME QuickPayAssumption ==
  /\ {ChallengeTtl, LookupTtl, ConfirmTtl, QuietTime, MaxAge, MaxTick} \subseteq Nat
  /\ HomeEmail \in Readable /\ Readable \subseteq Emails /\ HomePhone \in Phones
  /\ AttemptLimit \in [{"sender", "recipient"} -> Nat]
  /\ None \notin Emails \cup Codes \cup PayTokens /\ "sender" \notin Recipients

VARIABLES contact,   \* email and phone_number of the customer's users row
          taken,     \* emails and phones of other customers
          mailed,    \* where each code was sent
          visit,     \* the session: sign-in time, pending change, recipient and token
          available, \* recipients that are active and not frozen
          draft,     \* payup_pending_transfers rows
          used,      \* durable counters of the current window, per phase
          event,     \* time of the last audit event of each kind
          payments,  \* completed PayUp payments
          tick

quickVars == <<contact, taken, mailed, visit, available, draft, used, event, payments, tick, job>>
accountVars == <<contact, taken, mailed>>
payVars == <<available, draft, used, payments>>

NoChange == [email |-> None, phone |-> None, code |-> None, until |-> 0, bound |-> FALSE]
NoRecipient == [who |-> None, at |-> 0]
Never == MaxTick + 1
EventKinds == {"profile_update", "password_change", "manual_recovery_requested"}
Counters == {"sender"} \cup Recipients

Visit == [since  : 0..MaxTick,
          change : [email : Emails \cup {None}, phone : Phones \cup {None}, code : Codes \cup {None},
                    until : 0..(MaxTick + ChallengeTtl), bound : BOOLEAN],
          to     : [who : Recipients \cup {None}, at : 0..MaxTick],
          token  : PayTokens \cup {None}]

NewVisit == [since |-> tick, change |-> NoChange, to |-> NoRecipient, token |-> None]

QuickPayInit ==
  /\ contact = [email |-> HomeEmail, phone |-> HomePhone]
  /\ taken = {}
  /\ mailed = [n \in Codes |-> None]
  /\ visit = [since |-> 0, change |-> NoChange, to |-> NoRecipient, token |-> None]
  /\ available = Recipients
  /\ draft = [t \in PayTokens |-> NoRow]
  /\ used = [lookup |-> [c \in Counters |-> 0], confirm |-> [c \in Counters |-> 0]]
  /\ event = [k \in EventKinds |-> Never]
  /\ payments = {}
  /\ tick = 0
  /\ job = [h \in Handlers |-> Idle]

Answers(copy) == [op |-> "answer", copy |-> copy]

\* The response stores the request's copy.
StoreVisit(h) ==
  /\ job[h].op = "answer"
  /\ visit' = job[h].copy
  /\ Done(h)
  /\ UNCHANGED <<accountVars, payVars, event, tick>>

\* The pending change is bound to the session id it was requested under.
Rotated(copy) == [copy EXCEPT !.change.bound = FALSE]

-----------------------------------------------------------------------------
(* Changing email and phone.                                                   *)

\* Mutant: the code is not bound to the address it was sent to.
ProvesAny(change, e, p, n) == change.bound /\ change.phone = p /\ change.code = n

\* _validate_profile_email_change_code
Proves(change, e, p, n) ==
  change.bound /\ change.email = e /\ change.phone = p /\ change.code = n

\* update_profile_details up to the authenticator code: a new email is first proved
\* with the code that was sent to it (n), or a code is requested (no n).
UpdateProfile(h, e, p, n) ==
  LET newEmail == e # contact.email
      live == visit.change.email # None /\ tick < visit.change.until
      copy == IF newEmail /\ n # None /\ ~live THEN [visit EXCEPT !.change = NoChange] ELSE visit
      next == IF newEmail /\ n = None THEN "challenge" ELSE "profile"
  IN /\ newEmail \/ p # contact.phone
     /\ {e, p} \cap taken = {}
     /\ Begin(h, IF newEmail /\ n # None /\ ~(live /\ Proves(visit.change, e, p, n))
                   THEN Answers(copy)
                   ELSE [op |-> next, email |-> e, phone |-> p, newEmail |-> newEmail,
                         newPhone |-> p # contact.phone, copy |-> copy])
     /\ UNCHANGED <<accountVars, payVars, visit, event, tick>>

\* _create_profile_email_change_challenge: only the newest request counts.
CreateChallenge(h, n) ==
  /\ job[h].op = "challenge" /\ mailed[n] = None
  /\ mailed' = [mailed EXCEPT ![n] = job[h].email]
  /\ Continue(h, Answers([job[h].copy EXCEPT !.change =
       [email |-> job[h].email, phone |-> job[h].phone, code |-> n,
        until |-> tick + ChallengeTtl, bound |-> TRUE]]))
  /\ UNCHANGED <<contact, taken, payVars, visit, event, tick>>

\* _commit_profile_update, after the code: the changed columns and the required audit
\* row in one transaction, unless another customer has the email or phone by now.
CommitProfileUpdate(h) ==
  LET r == job[h]
      new == (IF r.newEmail THEN {r.email} ELSE {}) \cup (IF r.newPhone THEN {r.phone} ELSE {})
  IN /\ r.op = "profile"
     /\ IF new \cap taken = {}
          THEN /\ contact' = [email |-> IF r.newEmail THEN r.email ELSE contact.email,
                              phone |-> IF r.newPhone THEN r.phone ELSE contact.phone]
               /\ event' = [event EXCEPT !["profile_update"] = tick]
               /\ Continue(h, Answers([Rotated(r.copy) EXCEPT
                                         !.change = IF r.newEmail THEN NoChange ELSE @]))
          ELSE /\ UNCHANGED <<contact, event>>
               /\ Continue(h, Answers(Rotated(r.copy)))
     /\ UNCHANGED <<taken, mailed, payVars, visit, tick>>

\* Another customer registers with, or changes to, a free email or phone.
OtherTakes(x) ==
  /\ x \notin taken \cup {contact.email, contact.phone}
  /\ taken' = taken \cup {x}
  /\ UNCHANGED <<contact, mailed, payVars, visit, event, tick, job>>

\* Other sensitive changes whose audit row commits with the change. (The rows of a new
\* authenticator or new recovery codes are written on a best-effort basis; left out.)
SensitiveChange(k) ==
  /\ event' = [event EXCEPT ![k] = tick]
  /\ UNCHANGED <<accountVars, payVars, visit, tick, job>>

-----------------------------------------------------------------------------
(* PayUp: lookup, amount, confirmation.                                        *)

\* payup_submit; a sender without nickname is sent to set one.
PayupLookup(h, r) ==
  /\ Begin(h, [op |-> "limit", phase |-> "lookup", left |-> <<"sender", r>>, who |-> r, copy |-> visit])
  /\ UNCHANGED <<accountVars, payVars, visit, event, tick>>

AttemptLeft(phase, c) == used[phase][c] < AttemptLimit[IF c = "sender" THEN c ELSE "recipient"]

\* _consume_payup_attempt_limits: one counter after the other, each in a transaction of
\* its own; the first that is exhausted refuses, and what was consumed stays consumed. The
\* recipient's is kept for the phone number typed. The counters of the session and the
\* address, consumed between, and the end of a window are left out.
ConsumeAttempt(h) ==
  LET phase == job[h].phase
      c == Head(job[h].left)
  IN /\ job[h].op = "limit" /\ job[h].left # <<>>
     /\ IF AttemptLeft(phase, c)
          THEN /\ used' = [used EXCEPT ![phase][c] = @ + 1]
               /\ Continue(h, [job[h] EXCEPT !.left = Tail(@)])
          ELSE /\ used' = used
               /\ Continue(h, Answers(job[h].copy))
     /\ UNCHANGED <<accountVars, visit, available, draft, event, payments, tick>>

\* The recipient found goes to the session; a phone number that finds no one, or someone
\* who is not available, looks the same from outside.
ResolveRecipient(h) ==
  /\ job[h].op = "limit" /\ job[h].phase = "lookup" /\ job[h].left = <<>>
  /\ Continue(h, Answers(IF job[h].who \in available
                           THEN [job[h].copy EXCEPT !.to = [who |-> job[h].who, at |-> tick]]
                           ELSE job[h].copy))
  /\ UNCHANGED <<accountVars, payVars, visit, event, tick>>

\* _pending_payup_recipient
PendingRecipient(to) == to.who \in available /\ tick <= to.at + LookupTtl

\* payup_amount and payup_amount_submit
PayupAmount(h, t) ==
  LET copy == [visit EXCEPT !.to = NoRecipient] IN
    /\ visit.to # NoRecipient /\ draft[t] = NoRow
    /\ IF PendingRecipient(visit.to)
         THEN /\ draft' = [draft EXCEPT ![t] = [status |-> "pending", who |-> visit.to.who, looked |-> visit.to.at,
                                                until |-> tick + ConfirmTtl, consumed |-> FALSE]]
              /\ Begin(h, Answers([copy EXCEPT !.token = t]))
         ELSE /\ UNCHANGED draft
              /\ Begin(h, Answers(copy))
    /\ UNCHANGED <<accountVars, visit, available, used, event, payments, tick>>

\* Events within the cooldown.
Recent == {k \in EventKinds : event[k] # Never /\ event[k] + QuietTime >= tick}

\* _has_recent_payup_sensitive_event: an event counts with one of five outcomes.
\* "manual_recovery_requested" is only ever recorded as "pending" or "deduped".
RecentSensitiveEvent == Recent \ {"manual_recovery_requested"} # {}

\* evaluate_payup_risk
RiskBlocked(since) == RecentSensitiveEvent \/ tick - since > MaxAge

\* payup_confirm: a token that cannot be confirmed any more is dropped.
PayupConfirmPage(h) ==
  LET t == visit.token IN
    /\ t # None
    /\ draft[t].consumed \/ tick > draft[t].until \/ draft[t].who \notin available \/ RiskBlocked(visit.since)
    /\ Begin(h, Answers([visit EXCEPT !.token = None]))
    /\ UNCHANGED <<accountVars, payVars, visit, event, tick>>

\* payup_confirm_submit takes the token out of its copy first.
PayupConfirm(h) ==
  LET t == visit.token
      copy == [visit EXCEPT !.token = None]
  IN /\ t # None
     /\ Begin(h, IF draft[t].consumed \/ draft[t].who \notin available THEN Answers(copy)
                 ELSE [op |-> "limit", phase |-> "confirm", left |-> <<"sender", draft[t].who>>,
                       token |-> t, copy |-> copy])
     /\ UNCHANGED <<accountVars, payVars, visit, event, tick>>

\* The policy is asked whether an authenticator code is needed: none is, one is given, or
\* it is wrong and the token goes back to the session. A blocked payment goes on to
\* execute_payup_transfer, which asks again.
PayupStepUp(h) ==
  LET r == job[h] IN
  /\ r.op = "limit" /\ r.phase = "confirm" /\ r.left = <<>>
  /\ \E copy \in {r.copy, Rotated(r.copy)} :
       Continue(h, [op |-> "lock", token |-> r.token, copy |-> copy])
     \/ Continue(h, Answers([r.copy EXCEPT !.token = r.token]))
  /\ UNCHANGED <<accountVars, payVars, visit, event, tick>>

\* The pending row is locked and consumed, the recipient looked at once more.
LockDraft(h) ==
  LET t == job[h].token IN
  /\ job[h].op = "lock"
  /\ \A g \in Handlers : ~(job[g].op = "pay" /\ job[g].token = t)
  /\ Continue(h, IF draft[t].consumed \/ tick > draft[t].until THEN Answers(job[h].copy)
                 ELSE [op |-> "pay", token |-> t, at |-> tick, ok |-> draft[t].who \in available, copy |-> job[h].copy])
  /\ UNCHANGED <<accountVars, payVars, visit, event, tick>>

\* Mutant: the policy the route asked is trusted under the lock.
ExecuteAsAllowed(h) ==
  LET t == job[h].token IN
    /\ job[h].op = "pay"
    /\ draft' = [draft EXCEPT ![t].consumed = TRUE]
    /\ payments' = IF ~job[h].ok THEN payments
                   ELSE payments \cup {[token |-> t, who |-> draft[t].who, looked |-> draft[t].looked,
                                        age |-> tick - job[h].copy.since, recent |-> Recent, at |-> job[h].at]}
    /\ Continue(h, Answers(job[h].copy))
    /\ UNCHANGED <<accountVars, visit, available, used, event, tick>>

\* The policy, the payment and their commit under the lock of the sender's users row,
\* which every change of the account needs as well. A refusal commits the consumption.
ExecutePayup(h) ==
  LET t == job[h].token
      since == job[h].copy.since
  IN /\ job[h].op = "pay"
     /\ draft' = [draft EXCEPT ![t].consumed = TRUE]
     /\ payments' = IF ~job[h].ok \/ RiskBlocked(since) THEN payments
                    ELSE payments \cup {[token |-> t, who |-> draft[t].who, looked |-> draft[t].looked,
                                         age |-> tick - since, recent |-> Recent, at |-> job[h].at]}
     /\ Continue(h, Answers(job[h].copy))
     /\ UNCHANGED <<accountVars, visit, available, used, event, tick>>

-----------------------------------------------------------------------------

RecipientChanges(r) ==
  /\ available' = IF r \in available THEN available \ {r} ELSE available \cup {r}
  /\ UNCHANGED <<accountVars, visit, draft, used, event, payments, tick, job>>

\* The session ends (also because an overlapping request moved it to a new id).
SignInAgain ==
  /\ visit' = NewVisit
  /\ UNCHANGED <<accountVars, payVars, event, tick, job>>

\* A wrong code, a failed mail, audit row or worker: nothing is committed.
QuickPayFails(h) ==
  /\ ~Free(h)
  /\ Done(h)
  /\ visit' \in {visit, job[h].copy}
  /\ UNCHANGED <<accountVars, payVars, event, tick>>

TickPasses ==
  /\ tick < MaxTick /\ tick' = tick + 1
  /\ UNCHANGED <<accountVars, payVars, visit, event, job>>

ProfileNext ==
  \E h \in Handlers :
    \/ \E e \in Emails, p \in Phones, n \in {None} \cup {m \in Codes : mailed[m] \in Readable} :
         UpdateProfile(h, e, p, n)
    \/ \E n \in Codes : CreateChallenge(h, n)
    \/ CommitProfileUpdate(h)

PayupNext ==
  \E h \in Handlers :
    \/ \E r \in Recipients : PayupLookup(h, r)
    \/ \E t \in PayTokens : PayupAmount(h, t)
    \/ ConsumeAttempt(h) \/ ResolveRecipient(h) \/ PayupConfirmPage(h) \/ PayupConfirm(h)
    \/ PayupStepUp(h) \/ LockDraft(h) \/ ExecutePayup(h)

QuickPayNext ==
  \/ ProfileNext \/ PayupNext \/ SignInAgain \/ TickPasses
  \/ \E h \in Handlers : StoreVisit(h) \/ QuickPayFails(h)
  \/ \E x \in Emails \cup Phones : OtherTakes(x)
  \/ \E k \in EventKinds \ {"profile_update"} : SensitiveChange(k)
  \/ \E r \in Recipients : RecipientChanges(r)

QuickPaySpec == QuickPayInit /\ [][QuickPayNext]_quickVars

-----------------------------------------------------------------------------

\* Types of the contact details, the codes sent and the session; a pending change expires
\* within its lifetime of the clock's bound.
QuickPayTypeOK ==
  /\ contact \in [email : Emails, phone : Phones]
  /\ mailed \in [Codes -> Emails \cup {None}]
  /\ visit \in Visit
  /\ event \in [EventKinds -> 0..Never]

\* The account's email is one the customer reads, whatever requests for several
\* addresses overlap and whichever session copy survives (_validate_profile_email_change_code).
\* No two customers share an email or a phone number, although the duplicate check is
\* made before the authenticator code and the write after it.
ContactProved ==
  contact.email \in Readable /\ {contact.email, contact.phone} \cap taken = {}

\* "Stale sessions and recent sensitive account changes such as profile email or phone
\* changes fail closed" (OPERATIONS.md:892): also when the change commits between the
\* route's look at the policy and the payment. A payment comes within the lifetimes of
\* its lookup and its confirmation, whatever session copies bring a used recipient or
\* token back, and there are no more of them in a window than attempts, for the sender
\* and for every recipient.
PayupPolicyHeld ==
  /\ \A p \in payments :
       /\ p.age <= MaxAge /\ p.recent \cap {"profile_update", "password_change"} = {}
       /\ p.at <= p.looked + LookupTtl + ConfirmTtl
  /\ Cardinality(payments) <= AttemptLimit.sender
  /\ \A r \in Recipients : Cardinality({p \in payments : p.who = r}) <= AttemptLimit.recipient
=============================================================================
