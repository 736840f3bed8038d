--------------------------- MODULE Registration ---------------------------
(* Registration of a customer: a code is mailed to the address, the visitor    *)
(* proves they read it (app/auth/registration_otp.py), and an account with a   *)
(* welcome credit is created (app/auth/services.py). Requests of one browser   *)
(* may overlap: each works on its own copy of the session and saves it last.   *)
EXTENDS Naturals, FiniteSets, Workers

CONSTANTS Visitors,      \* browser sessions
          Emails,        \* addresses, up to canonicalize_customer_email
          Names,         \* usernames (and phone numbers)
          Reads,         \* the addresses whose mail a visitor reads
          Bindings,      \* REGISTRATION_OTP_SESSION_BINDING_KEY values
          RequestLimit,  \* codes requested per address in an hour
          MaxTries       \* REGISTRATION_OTP_MAX_ATTEMPTS

ASSUME RegistrationAssumption ==
  /\ RequestLimit \in Nat /\ MaxTries \in Nat \ {0}
  /\ Reads \in [Visitors -> SUBSET Emails] /\ None \notin Emails \cup Bindings

VARIABLES web,        \* session data of a browser
          challenge,  \* registration_otp_challenges, by binding and address
          mailed,     \* codes mailed to an address
          asked,      \* durable counter of codes requested for an address
          accounts    \* users; the welcome credit is booked in the transaction that inserts one

registrationVars == <<web, challenge, mailed, asked, accounts, job>>

NoWeb == [binding |-> None, verified |-> None]
WebData == [binding : Bindings \cup {None}, verified : Emails \cup {None}]
Codes == 1..(RequestLimit * Cardinality(Emails))
ChallengeRow == [status : {"row"}, code : Codes, tries : 0..MaxTries, cooling : BOOLEAN, expired : BOOLEAN]
CustomerRow == [name : Names, email : Emails, by : Visitors]

RegistrationInit ==
  /\ web = [v \in Visitors |-> NoWeb]
  /\ challenge = [b \in Bindings |-> [e \in Emails |-> NoRow]]
  /\ mailed = [e \in Emails |-> {}]
  /\ asked = [e \in Emails |-> 0]
  /\ accounts = {}
  /\ job = [h \in Handlers |-> Idle]

EmailTaken(e) == \E a \in accounts : a.email = e
ClearProgress(data) == [data EXCEPT !.verified = None]
SaveWeb(v, data) == web' = [web EXCEPT ![v] = data]

\* _load_otp_challenge deletes an expired row.
LiveChallenge(b, e) ==
  IF b = None THEN NoRow
  ELSE IF challenge[b][e] # NoRow /\ challenge[b][e].expired THEN NoRow ELSE challenge[b][e]

-----------------------------------------------------------------------------
(* The code.                                                                  *)

Unused(b) == \A v \in Visitors : web[v].binding # b
             /\ \A h \in Handlers : job[h].op \in {"send", "verify", "register"} => job[h].data.binding # b
             /\ \A e \in Emails : challenge[b][e] = NoRow

\* request_registration_otp up to the commit of the new code
RequestOtp(h, v, e, b) ==
  /\ Free(h) /\ asked[e] < RequestLimit
  /\ IF web[v].binding = None THEN Unused(b) ELSE b = web[v].binding
  /\ asked' = [asked EXCEPT ![e] = @ + 1]
  /\ LET seen == LiveChallenge(b, e)
         code == 1 + Cardinality(UNION {mailed[x] : x \in Emails})
     IN IF EmailTaken(e)
          THEN UNCHANGED <<challenge, job>>
        ELSE IF seen # NoRow /\ seen.cooling
          THEN UNCHANGED job /\ challenge' = [challenge EXCEPT ![b][e] = seen]
        ELSE /\ code \in Codes
             /\ challenge' = [challenge EXCEPT ![b][e] =
                  [status |-> "row", code |-> code, tries |-> 0, cooling |-> TRUE, expired |-> FALSE]]
             /\ Continue(h, [op |-> "send", by |-> v, email |-> e, code |-> code,
                             data |-> [ClearProgress(web[v]) EXCEPT !.binding = b]])
  /\ UNCHANGED <<web, mailed, accounts>>

\* The mail goes out ...
SendOtp(h) ==
  /\ job[h].op = "send"
  /\ mailed' = [mailed EXCEPT ![job[h].email] = @ \cup {job[h].code}]
  /\ SaveWeb(job[h].by, job[h].data)
  /\ Done(h)
  /\ UNCHANGED <<challenge, asked, accounts>>

\* ... or cannot be sent, and the challenge is deleted.
SendOtpFails(h) ==
  /\ job[h].op = "send"
  /\ challenge' = [challenge EXCEPT ![job[h].data.binding][job[h].email] = NoRow]
  /\ SaveWeb(job[h].by, ClearProgress(job[h].data))
  /\ Done(h)
  /\ UNCHANGED <<mailed, asked, accounts>>

\* verify_registration_otp: the session's challenge for the address is read, without
\* a lock ...
VerifyOtp(h, v, e, right) ==
  /\ Free(h) /\ web[v].binding # None
  /\ LET b == web[v].binding
         seen == LiveChallenge(b, e)
     IN /\ IF seen = NoRow
             THEN challenge' = [challenge EXCEPT ![b][e] = NoRow] /\ UNCHANGED job
             ELSE /\ right => e \in Reads[v] /\ seen.code \in mailed[e]
                  /\ Continue(h, [op |-> "verify", by |-> v, email |-> e, right |-> right,
                                  tries |-> seen.tries, data |-> web[v]])
                  /\ UNCHANGED challenge
  /\ UNCHANGED <<web, mailed, asked, accounts>>

\* ... a wrong code is counted from the count that was read, the last try deletes the
\* challenge, and so does the right code, which marks the address verified.
VerifyOtpCommit(h) ==
  /\ job[h].op = "verify"
  /\ LET e == job[h].email
         b == job[h].data.binding
         tries == job[h].tries + 1
     IN challenge' = [challenge EXCEPT ![b][e] =
          IF job[h].right \/ tries >= MaxTries \/ @ = NoRow THEN NoRow
          ELSE [@ EXCEPT !.tries = tries]]
  /\ SaveWeb(job[h].by, IF job[h].right
                          THEN [job[h].data EXCEPT !.verified = job[h].email]
                          ELSE job[h].data)
  /\ Done(h)
  /\ UNCHANGED <<mailed, asked, accounts>>

-----------------------------------------------------------------------------
(* The account.                                                               *)

\* Mutant: the address of the form is taken as it is.
RegisterUnproved(h, v, e, n) ==
  /\ ~EmailTaken(e) /\ \A a \in accounts : a.name # n
  /\ Begin(h, [op |-> "register", by |-> v, email |-> e, name |-> n, data |-> web[v]])
  /\ UNCHANGED <<web, challenge, mailed, asked, accounts>>

\* register_user: the address was verified in this session less than
\* REGISTRATION_OTP_TTL_SECONDS ago, and username, phone and address are not taken.
RegisterUser(h, v, e, n) ==
  /\ web[v].verified = e
  /\ ~EmailTaken(e) /\ \A a \in accounts : a.name # n
  /\ Begin(h, [op |-> "register", by |-> v, email |-> e, name |-> n, data |-> web[v]])
  /\ UNCHANGED <<web, challenge, mailed, asked, accounts>>

Opened(j) == [name |-> j.name, email |-> j.email, by |-> j.by]

\* The unique indexes refuse a second account of the address or the name, and the
\* credit is rolled back with it; success consumes the verified address.
InsertAccount(h) ==
  /\ job[h].op = "register"
  /\ LET free == \A a \in accounts : a.email # job[h].email /\ a.name # job[h].name IN
       /\ accounts' = IF free THEN accounts \cup {Opened(job[h])} ELSE accounts
       /\ SaveWeb(job[h].by, IF free THEN [ClearProgress(job[h].data) EXCEPT !.binding = None]
                             ELSE job[h].data)
  /\ Done(h)
  /\ UNCHANGED <<challenge, mailed, asked>>

RegistrationFails(h) ==
  /\ job[h].op \in {"send", "verify", "register"}
  /\ Done(h)
  /\ UNCHANGED <<web, challenge, mailed, asked, accounts>>

\* The cooldown of a code is over, the code is, or the verification is, after 5 minutes.
OtpTimePasses ==
  \/ /\ \E b \in Bindings, e \in Emails :
          /\ challenge[b][e] # NoRow /\ ~challenge[b][e].expired
          /\ challenge' = [challenge EXCEPT ![b][e].expired = ~@ /\ ~challenge[b][e].cooling,
                                            ![b][e].cooling = FALSE]
     /\ UNCHANGED <<web, mailed, asked, accounts, job>>
  \/ /\ \E v \in Visitors : web[v].verified # None /\ SaveWeb(v, ClearProgress(web[v]))
     /\ UNCHANGED <<challenge, mailed, asked, accounts, job>>

RegistrationNext ==
  \/ \E h \in Handlers :
       \/ \E v \in Visitors, e \in Emails :
            \/ \E b \in Bindings : RequestOtp(h, v, e, b)
            \/ \E n \in Names : RegisterUser(h, v, e, n)
            \/ \E right \in BOOLEAN : VerifyOtp(h, v, e, right)
       \/ SendOtp(h) \/ SendOtpFails(h) \/ VerifyOtpCommit(h) \/ InsertAccount(h) \/ RegistrationFails(h)
  \/ OtpTimePasses

RegistrationSpec == RegistrationInit /\ [][RegistrationNext]_registrationVars

-----------------------------------------------------------------------------

\* The types of the browsers' session data, the challenges and the accounts.
RegistrationTypeOK ==
  /\ web \in [Visitors -> WebData]
  /\ challenge \in [Bindings -> [Emails -> ChallengeRow \cup {NoRow}]]
  /\ accounts \subseteq CustomerRow

\* An account is opened only under an address whose mail its owner reads, although
\* overlapping requests of one browser overwrite each other's session data; and one
\* address opens one account and is credited once, however many registrations overlap.
RegisteredEmailProved ==
  \A a \in accounts : a.email \in Reads[a.by] /\ \A b \in accounts : b.email = a.email => b = a
=============================================================================
