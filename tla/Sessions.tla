----------------------------- MODULE Sessions -----------------------------
(* Server-side sessions of one account (app/security/sessions.py): a request   *)
(* opens the session of its cookie, runs, and saves the session when it ends.  *)
(* Requests run in several processes; nothing is locked between open and save. *)
EXTENDS Naturals, Workers

CONSTANTS Sids,          \* session ids
          Contexts,      \* what a request shows of its client: network, browser family, user agent
          AdminMode,     \* APP_MODE is "admin"
          Inactivity,    \* SESSION_INACTIVITY_SECONDS
          Lifetime,      \* SESSION_ABSOLUTE_LIFETIME_SECONDS
          PendingAge,    \* PENDING_MFA_MAX_AGE_SECONDS
          MaxClock       \* bound on the clock

ASSUME SessionsAssumption ==
  /\ {Inactivity, Lifetime, PendingAge, MaxClock} \subseteq Nat
  /\ AdminMode \in BOOLEAN /\ None \notin Sids
  /\ \A c \in Contexts : DOMAIN c = {"network", "family", "agent"}

VARIABLES stored,    \* server_side_sessions
          clock,
          touched,   \* history: when a session last served a request other than a poll
          since,     \* history: when the sign-in of a session took place
          place,     \* history: where its owner last proved who they are
          settled    \* history: sessions seen ended with no request in flight

sessionVars == <<stored, clock, touched, since, place, settled, job>>

NoPayload == [stage |-> "none"]
Payload == [stage : {"pending", "auth"}, created : 0..MaxClock, last : 0..MaxClock,
            ctx : Contexts, reauth : BOOLEAN]
SessionRow == [status : {"row"}, ended : BOOLEAN, payload : Payload \cup {NoPayload},
               expires : 0..(MaxClock + Inactivity)]

SessionsInit ==
  /\ stored = [s \in Sids |-> NoRow]
  /\ clock = 0
  /\ touched = [s \in Sids |-> 0] /\ since = [s \in Sids |-> 0]
  /\ place \in [Sids -> {CHOOSE c \in Contexts : TRUE}]
  /\ settled = {}
  /\ job = [h \in Handlers |-> Idle]

Expiry == clock + Inactivity
EndSession(row) == [row EXCEPT !.ended = TRUE, !.payload = NoPayload]

\* _end_session_id of an id that may have no row
Ended(rows, s) == IF rows[s] = NoRow THEN rows ELSE [rows EXCEPT ![s] = EndSession(@)]

\* _active_session_records: a row whose payload is not written yet is not active.
Active(rows, s) == /\ rows[s] # NoRow /\ ~rows[s].ended
                   /\ rows[s].expires > clock /\ rows[s].payload # NoPayload

\* ... and the same call ends the expired ones.
Stale(rows, s) == rows[s] # NoRow /\ ~rows[s].ended /\ rows[s].expires <= clock

EndActive(rows, kept) ==
  [s \in Sids |-> IF s \notin kept /\ (Active(rows, s) \/ Stale(rows, s))
                    THEN EndSession(rows[s]) ELSE rows[s]]

-----------------------------------------------------------------------------
(* The client context.                                                        *)

Differing(then, now) == {k \in DOMAIN now : then[k] # now[k]}

\* Mutant: a change of browser alone is no drift.
SeverityBlind(changes) ==
  IF changes \subseteq {"agent", "family"} THEN "low"
  ELSE IF {"network", "family"} \subseteq changes THEN "high" ELSE "medium"

\* _session_risk_severity
Severity(changes) ==
  IF changes = {} THEN "stable"
  ELSE IF AdminMode THEN "high"
  ELSE IF changes = {"agent"} THEN "low"
  ELSE IF {"network", "family"} \subseteq changes THEN "high"
  ELSE "medium"

-----------------------------------------------------------------------------
(* Opening.                                                                   *)

\* is_session_activity_exempt
Exempt(poll) == poll

\* _pending_mfa_expiry_response, _absolute_lifetime_expiry_response, inactivity
TooOld(data) ==
  \/ data.stage = "pending" /\ clock - data.created > PendingAge
  \/ data.stage = "auth" /\ clock - data.created > Lifetime
  \/ clock - data.last > Inactivity

\* enforce_authenticated_session_context on an authenticated session
InContext(data, ctx) ==
  IF data.stage # "auth" THEN data
  ELSE CASE Severity(Differing(data.ctx, ctx)) = "low"    -> [data EXCEPT !.ctx = ctx, !.reauth = FALSE]
         [] Severity(Differing(data.ctx, ctx)) = "medium" -> [data EXCEPT !.reauth = TRUE]
         [] OTHER                                         -> data

HighRisk(data, ctx) == data.stage = "auth" /\ Severity(Differing(data.ctx, ctx)) = "high"

\* open_session and the hook _enforce_session_activity end the session ...
OpenRefused(h, s, ctx) ==
  /\ Free(h) /\ stored[s] # NoRow /\ ~stored[s].ended
  /\ LET row == stored[s] IN
       IF row.expires <= clock \/ row.payload = NoPayload THEN TRUE
       ELSE TooOld(row.payload) \/ HighRisk(row.payload, ctx)
  /\ stored' = Ended(stored, s)
  /\ UNCHANGED <<clock, touched, since, place, job>>

Admitted(h, s, ctx, poll) ==
  /\ Begin(h, [op |-> "request", sid |-> s, ctx |-> ctx, poll |-> poll, reload |-> poll,
               data |-> LET data == InContext(stored[s].payload, ctx)
                        IN IF Exempt(poll) THEN data ELSE [data EXCEPT !.last = clock]])
  /\ touched' = IF poll THEN touched ELSE [touched EXCEPT ![s] = clock]
  /\ UNCHANGED <<stored, clock, since, place>>

\* Mutant: open_session does not look at revoked_at.
OpenEnded(h, s, ctx, poll) ==
  /\ stored[s] # NoRow
  /\ stored[s].expires > clock /\ stored[s].payload # NoPayload
  /\ ~TooOld(stored[s].payload) /\ ~HighRisk(stored[s].payload, ctx)
  /\ Admitted(h, s, ctx, poll)

\* ... or admit the request, which works on a copy of the payload. `reload': the row
\* will be read afresh when the request saves. A poll leaves its row unchanged, so the
\* ORM drops it; any other request keeps it, changed, until it commits.
OpenSession(h, s, ctx, poll) ==
  /\ stored[s] # NoRow /\ ~stored[s].ended
  /\ stored[s].expires > clock /\ stored[s].payload # NoPayload
  /\ ~TooOld(stored[s].payload) /\ ~HighRisk(stored[s].payload, ctx)
  /\ Admitted(h, s, ctx, poll)

-----------------------------------------------------------------------------
(* What a request does with the session before it ends.                       *)

Serving(h, stage) == job[h].op = "request" /\ ~job[h].poll /\ job[h].data.stage = stage

\* Any commit of the request, such as that of a best-effort audit event.
CommitInRequest(h) ==
  /\ job[h].op = "request" /\ ~job[h].poll /\ ~job[h].reload
  /\ job' = [job EXCEPT ![h].reload = TRUE]
  /\ UNCHANGED <<stored, clock, touched, since, place>>

\* begin_password_authenticated_session, by a visitor or in a pending session
PendingPayload(ctx) ==
  [stage |-> "pending", created |-> clock, last |-> clock, ctx |-> ctx, reauth |-> FALSE]

NewRequest(s, ctx, data) ==
  [op |-> "save", sid |-> s, ctx |-> ctx, poll |-> FALSE, reload |-> TRUE, data |-> data]

SignInAt(s, at, ctx) ==
  /\ since' = [since EXCEPT ![s] = at]
  /\ touched' = [touched EXCEPT ![s] = clock]
  /\ place' = [place EXCEPT ![s] = ctx]

BeginVisitorSession(h, new, ctx) ==
  /\ stored[new] = NoRow
  /\ Begin(h, NewRequest(new, ctx, PendingPayload(ctx)))
  /\ SignInAt(new, clock, ctx)
  /\ UNCHANGED <<stored, clock>>

BeginPasswordSession(h, new) ==
  /\ Serving(h, "pending") /\ stored[new] = NoRow
  /\ stored' = Ended(stored, job[h].sid)
  /\ Continue(h, NewRequest(new, job[h].ctx, PendingPayload(job[h].ctx)))
  /\ SignInAt(new, clock, job[h].ctx)
  /\ UNCHANGED clock

\* register_session_metadata: the row exists, without a payload, from here to the save.
Registered(rows, s) ==
  [rows EXCEPT ![s] = [status |-> "row", ended |-> FALSE, payload |-> NoPayload, expires |-> Expiry]]

\* establish_authenticated_session after the second factor: the id is rotated and
\* enforce_active_session_cap ends every other active session.
EstablishSession(h, new) ==
  /\ Serving(h, "pending") /\ stored[new] = NoRow
  /\ stored' = EndActive(Registered(Ended(stored, job[h].sid), new), {new})
  /\ Continue(h, NewRequest(new, job[h].ctx, [PendingPayload(job[h].ctx) EXCEPT !.stage = "auth"]))
  /\ SignInAt(new, clock, job[h].ctx)
  /\ UNCHANGED clock

\* require_stable_session_for_sensitive_action
StableSession(h) == ~job[h].data.reauth /\ job[h].data.ctx = job[h].ctx

\* Mutant: the rotated session starts a new lifetime.
RotateReborn(h, new) ==
  Continue(h, NewRequest(new, job[h].ctx, [PendingPayload(job[h].ctx) EXCEPT !.stage = "auth"]))

\* rotate_authenticated_session_after_mfa keeps auth_created_at.
RotateSession(h, new) ==
  Continue(h, NewRequest(new, job[h].ctx,
                         [job[h].data EXCEPT !.last = clock, !.ctx = job[h].ctx, !.reauth = FALSE]))

Rotated(h, new, from) ==
  /\ stored[new] = NoRow
  /\ stored' = Registered(Ended(stored, job[h].sid), new)
  /\ RotateSession(h, new)
  /\ SignInAt(new, since[job[h].sid], from)
  /\ UNCHANGED clock

\* verify_high_risk_authorization
StepUp(h, new) == Serving(h, "auth") /\ StableSession(h) /\ Rotated(h, new, place[job[h].sid])

\* verify_mfa_setup and verify_mfa_replacement rotate the session without asking
\* whether its context is stable.
ConfirmAuthenticator(h, new) == Serving(h, "auth") /\ Rotated(h, new, job[h].ctx)

\* revoke_other_sessions, in a request that goes on
RevokeOtherSessions(h) ==
  /\ Serving(h, "auth")
  /\ stored' = EndActive(stored, {job[h].sid})
  /\ job' = [job EXCEPT ![h].op = "save", ![h].reload = TRUE]
  /\ UNCHANGED <<clock, touched, since, place>>

\* revoke_all_sessions, by a lock, a reset, or a decision of staff
RevokeAllSessions ==
  /\ stored' = EndActive(stored, {}) /\ stored' # stored
  /\ UNCHANGED <<clock, touched, since, place, job>>

\* revoke_current_session at logout: the cleared session ends its row and is not saved.
Logout(h) ==
  /\ job[h].op = "request" /\ ~job[h].poll
  /\ stored' = Ended(stored, job[h].sid)
  /\ Done(h)
  /\ UNCHANGED <<clock, touched, since, place>>

-----------------------------------------------------------------------------

\* save_session writes payload and expiry, and sets revoked_at, ended_at to NULL: that
\* is a change, and written, only when the row was read afresh and had ended.
SaveSession(h) ==
  /\ job[h].op \in {"request", "save"}
  /\ LET s == job[h].sid
         row == stored[s]
     IN stored' = [stored EXCEPT ![s] =
          IF row = NoRow
            THEN [status |-> "row", ended |-> FALSE, payload |-> job[h].data, expires |-> Expiry]
            ELSE [row EXCEPT !.payload = job[h].data,
                             !.ended   = @ /\ ~job[h].reload,
                             !.expires = IF Exempt(job[h].poll) THEN @ ELSE Expiry]]
  /\ Done(h)
  /\ UNCHANGED <<clock, touched, since, place>>

RequestDies(h) ==
  /\ job[h].op \in {"request", "save", "sweep"}
  /\ Done(h)
  /\ UNCHANGED <<stored, clock, touched, since, place>>

\* _mark_expired_sessions selects and, in a later statement, ends the rows it read.
SweepSelect(h) ==
  LET due == {s \in Sids : Stale(stored, s)} IN
    /\ due # {}
    /\ Begin(h, [op |-> "sweep", sids |-> due, sid |-> None])
    /\ UNCHANGED <<stored, clock, touched, since, place>>

SweepWrite(h) ==
  /\ job[h].op = "sweep"
  /\ stored' = [s \in Sids |-> IF s \in job[h].sids THEN EndSession(stored[s]) ELSE stored[s]]
  /\ Done(h)
  /\ UNCHANGED <<clock, touched, since, place>>

ClockTicks == /\ clock < MaxClock /\ clock' = clock + 1
              /\ UNCHANGED <<stored, touched, since, place, job>>

SessionStep ==
  \/ \E h \in Handlers :
       \/ \E s \in Sids, ctx \in Contexts :
            \/ OpenRefused(h, s, ctx) \/ BeginVisitorSession(h, s, ctx)
            \/ \E poll \in BOOLEAN : OpenSession(h, s, ctx, poll)
       \/ \E s \in Sids : BeginPasswordSession(h, s) \/ EstablishSession(h, s) \/ StepUp(h, s)
                          \/ ConfirmAuthenticator(h, s)
       \/ CommitInRequest(h) \/ RevokeOtherSessions(h) \/ Logout(h) \/ SaveSession(h)
       \/ RequestDies(h) \/ SweepSelect(h) \/ SweepWrite(h)
  \/ RevokeAllSessions
  \/ ClockTicks

Quiet(s) == stored[s] # NoRow /\ stored[s].ended /\ \A h \in Handlers : job[h] = Idle \/ job[h].sid # s

SessionsNext == SessionStep /\ settled' = settled \cup {s \in Sids : Quiet(s)'}

SessionsSpec == SessionsInit /\ [][SessionsNext]_sessionVars

-----------------------------------------------------------------------------

\* The types of the session rows, the clock and the revoked sessions.
SessionsTypeOK ==
  /\ stored \in [Sids -> SessionRow \cup {NoRow}]
  /\ clock \in 0..MaxClock
  /\ settled \subseteq Sids

\* A request that is not a poll is let into session s in this step.
Opens(h, s) == /\ job[h] = Idle /\ job'[h].op = "request" /\ job'[h].sid = s /\ ~job'[h].poll

\* "Normal activity, CSRF requests, and TOTP step-up rotations do not refresh this
\* timestamp": no request is served later than the absolute lifetime after the
\* sign-in, however often the session was saved by overlapping requests or rotated,
\* nor later than the inactivity time after the last request that was not a poll of
\* /auth/session/status.
SessionsAgeOut ==
  [][\A h \in Handlers, s \in Sids : Opens(h, s) =>
       /\ clock - touched[s] <= Inactivity
       /\ job'[h].data.stage = "auth" => clock - since[s] <= Lifetime]_sessionVars

\* A sensitive action is authorised only on the network and in the browser family of
\* the last sign-in or new authenticator: small changes of the user agent that are
\* accepted one by one, in requests that overlap, never add up to another place.
StepUpFromKnownPlace ==
  [][\A h \in Handlers, new \in Sids :
       StepUp(h, new) => Differing(place[job[h].sid], job[h].ctx) \subseteq {"agent"}]_sessionVars

\* A session that has ended, and that no request in flight still holds, stays ended.
SettledStaysEnded == \A s \in settled : stored[s].ended
=============================================================================
