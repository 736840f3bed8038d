------------------------------ MODULE MCAccess ------------------------------
(* How people get in, for TLC: sessions, registration, the authenticator with *)
(* its codes and passwords, and the password reset. Each behaviour plays one  *)
(* scene and leaves the rest as it started. Model values serve several        *)
(* modules.                                                                   *)
EXTENDS Sessions, Registration, Authenticators, PasswordReset, TLC

CONSTANTS h1, h2, x1, x2, x3, y1, y2, v1, e1, here, there, this, that, old, new

Home == [network |-> here, family |-> this, agent |-> old]
Places == {Home, [Home EXCEPT !.agent = new], [Home EXCEPT !.agent = new, !.family = that],
           [network |-> there, family |-> that, agent |-> new]}
Mailboxes == [v \in {v1} |-> {e1}]

VARIABLE scene

\* What a handler may be about in each scene of the authenticator.
Acts == [logins    |-> {"login", "setup"},
         devices   |-> {"setup", "replace_start", "replace_confirm", "regenerate", "recover"},
         passwords |-> {"own_password"},
         staff     |-> {"own_mfa_start", "own_mfa_confirm", "admin_login"}]

AccessInit ==
  /\ SessionsInit /\ RegistrationInit /\ AuthInit /\ ResetInit
  /\ scene \in {"hours", "places", "registration", "reset"} \cup DOMAIN Acts
  /\ person.staff <=> scene \in {"passwords", "staff"}
  /\ person.password = CHOOSE p \in Passwords : TRUE
  /\ scene # "reset" => ~owner.mfa

\* Two sign-ins under way, all from home; no new ones once time has passed. "hours" is
\* about the clock, "places" about where requests come from.
SessionsBound ==
  LET waiting == {s \in Sids : stored[s] # NoRow /\ stored[s].payload.stage = "pending"}
      busy == {h \in Handlers : job[h] # Idle /\ job[h].op # "sweep"}
      signingIn == {h \in busy : job[h].data.stage = "pending"}
  IN /\ \A s \in waiting : stored[s].payload.ctx = Home
     /\ \A h \in IF scene = "hours" THEN busy ELSE signingIn : job[h].ctx = Home
     /\ Cardinality(waiting) + Cardinality(signingIn) <= 2
     /\ \A s \in Sids : stored[s] # NoRow => since[s] = 0
     /\ scene = "places" => clock = 0

\* One secret at a time while sign-ins are played, and no time before it is set up; the
\* other scenes of the authenticator need one change of the time step or none.
AuthBound ==
  /\ \A h \in Handlers : job[h] # Idle => job[h].act \in Acts[scene]
  /\ scene \in {"devices", "staff"} => step <= 1
  /\ scene = "logins" =>
       /\ ~person.enabled => step = 0
       /\ Cardinality({s \in Secrets : \/ s = person.secret
                                       \/ \E h \in Handlers : job[h] # Idle /\ job[h].secret = s}) <= 1

\* One link is exchanged; it gets late only before that.
ResetBound ==
  /\ Cardinality({l \in Links : link[l] # NoRow /\ link[l].exchanged}) <= 1
  /\ \A l \in Links : link[l] # NoRow /\ link[l].late =>
       ~link[l].exchanged /\ \A k \in Links \ {l} : tx[k] = NoRow

sessionRows == <<stored, clock, touched, since, place, settled>>
registrationRows == <<web, challenge, mailed, asked, accounts>>
authRows == <<person, staged, history, replays, codes, step, spent, past>>
resetRows == <<link, tx, holds, owner, factor, guarded, resets, ended>>

AccessNext ==
  /\ UNCHANGED scene
  /\ \/ /\ scene \in {"hours", "places"} /\ SessionsNext /\ SessionsBound'
        /\ UNCHANGED <<registrationRows, authRows, resetRows>>
     \/ /\ scene = "registration" /\ RegistrationNext
        /\ UNCHANGED <<sessionRows, authRows, resetRows>>
     \/ /\ scene \in DOMAIN Acts /\ AuthNext /\ AuthBound'
        /\ UNCHANGED <<sessionRows, registrationRows, resetRows>>
     \/ /\ scene = "reset" /\ ResetNext /\ ResetBound'
        /\ UNCHANGED <<sessionRows, registrationRows, authRows>>

accessVars == <<sessionRows, registrationRows, authRows, resetRows, job, scene>>

AccessSpec == AccessInit /\ [][AccessNext]_accessVars

Alike == Permutations({h1, h2}) \cup Permutations({x1, x2, x3}) \cup Permutations({y1, y2})

-----------------------------------------------------------------------------

\* Every variable of the scene has its type; the password history keeps no more entries
\* than configured, and the attempts stored with a code stay below its limit.
AccessTypeOK ==
  CASE scene \in {"hours", "places"} -> SessionsTypeOK
    [] scene = "registration" -> RegistrationTypeOK
    [] scene \in DOMAIN Acts -> AuthTypeOK
    [] scene = "reset" -> ResetTypeOK
=============================================================================
