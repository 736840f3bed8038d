--------------------------- MODULE SecurityProofs ---------------------------
(* Proofs about what guards and watches the accounts, for any number of handlers *)
(* and any values of the constants: server-side sessions, known devices, security *)
(* alerts, and the password screening.                                     *)
EXTENDS Sessions, Alerts, Devices, HibpBreaker, FiniteSetTheorems, TLAPS

-----------------------------------------------------------------------------
(* Sessions.                                                               *)

SessionJob ==
  {Idle} \cup [op : {"request", "save"}, sid : Sids, ctx : Contexts, poll : BOOLEAN,
               reload : BOOLEAN, data : Payload]
         \cup [op : {"sweep"}, sids : SUBSET Sids, sid : {None}]

SessionRows == [Sids -> SessionRow \cup {NoRow}]
Instants == [Sids -> 0..MaxClock]

SessionTypes ==
  /\ SessionsTypeOK /\ stored \in SessionRows /\ touched \in Instants /\ since \in Instants
  /\ place = [s \in Sids |-> place[s]] /\ job \in [Handlers -> SessionJob]

\* Rows are only ended between two tables.
EndsOnly(table, now) ==
  \A s \in Sids : now[s] = table[s] \/ (table[s] # NoRow /\ now[s] = EndSession(table[s]))

LEMMA EndedRow ==
  ASSUME NEW row \in SessionRow
  PROVE  /\ EndSession(row) \in SessionRow /\ EndSession(row).ended
         /\ EndSession(row).payload = NoPayload /\ EndSession(row).expires = row.expires
         /\ row # NoRow /\ EndSession(row) # NoRow
  <1> DEFINE P == Payload \cup {NoPayload}
             E == 0..(MaxClock + Inactivity)
  <1>1. SessionRow = [status : {"row"}, ended : BOOLEAN, payload : P, expires : E] /\ NoPayload \in P
    BY DEF SessionRow
  <1> HIDE DEF P, E
  <1>2. EndSession(row) \in SessionRow
    BY Zenon, <1>1 DEF EndSession
  <1>3. EndSession(row).ended
    BY <1>1 DEF EndSession
  <1>4. EndSession(row).payload = NoPayload /\ EndSession(row).expires = row.expires
    BY <1>1 DEF EndSession
  <1>5. \A r \in SessionRow : r # NoRow
    BY <1>1 DEF NoRow
  <1> QED BY <1>2, <1>3, <1>4, <1>5

LEMMA EndedRows ==
  ASSUME NEW table \in SessionRows, NEW s \in Sids, NEW kept
  PROVE  /\ Ended(table, s) \in SessionRows /\ EndsOnly(table, Ended(table, s))
         /\ EndActive(table, kept) \in SessionRows /\ EndsOnly(table, EndActive(table, kept))
         /\ \A k \in kept \cap Sids : EndActive(table, kept)[k] = table[k]
  <1>1. \A k \in Sids : table[k] # NoRow => table[k] \in SessionRow /\ EndSession(table[k]) \in SessionRow
    BY EndedRow DEF SessionRows
  <1>2. Ended(table, s) \in SessionRows /\ EndsOnly(table, Ended(table, s))
    BY <1>1 DEF Ended, SessionRows, EndsOnly
  <1>3. /\ EndActive(table, kept) \in SessionRows /\ EndsOnly(table, EndActive(table, kept))
        /\ \A k \in kept \cap Sids : EndActive(table, kept)[k] = table[k]
    BY <1>1 DEF EndActive, SessionRows, EndsOnly, Active, Stale
  <1> QED BY <1>2, <1>3

LEMMA RegisteredRows ==
  ASSUME NEW table \in SessionRows, NEW s \in Sids, clock \in 0..MaxClock
  PROVE  /\ Registered(table, s) \in SessionRows
         /\ Registered(table, s)[s].payload = NoPayload /\ ~Registered(table, s)[s].ended
         /\ Registered(table, s)[s] # NoRow
         /\ \A k \in Sids \ {s} : Registered(table, s)[k] = table[k]
  BY SessionsAssumption DEF Registered, SessionRows, SessionRow, Expiry, NoRow

\* A request that is let in keeps what it has loaded but for the user agent.
LEMMA ContextKept ==
  ASSUME NEW data \in Payload, NEW ctx \in Contexts
  PROVE  LET new == InContext(data, ctx)
         IN  /\ new \in Payload /\ new.stage = data.stage
             /\ new.created = data.created /\ new.last = data.last
             /\ \A p : Differing(p, data.ctx) \subseteq {"agent"} => Differing(p, new.ctx) \subseteq {"agent"}
  <1> DEFINE how == Severity(Differing(data.ctx, ctx))
  <1>1. CASE data.stage # "auth"
    BY <1>1 DEF InContext
  <1>2. CASE data.stage = "auth" /\ how = "low"
    <2>1. InContext(data, ctx) = [data EXCEPT !.ctx = ctx, !.reauth = FALSE]
      BY <1>2 DEF InContext
    <2>2. Differing(data.ctx, ctx) = {"agent"}
      BY <1>2 DEF Severity
    <2>3. data.ctx \in Contexts /\ DOMAIN data.ctx = {"network", "family", "agent"}
          /\ DOMAIN ctx = {"network", "family", "agent"}
      BY SessionsAssumption DEF Payload
    <2>4. \A p : Differing(p, data.ctx) \subseteq {"agent"} => Differing(p, ctx) \subseteq {"agent"}
      BY <2>2, <2>3 DEF Differing
    <2> QED BY Zenon, <2>1, <2>4 DEF Payload
  <1>3. CASE data.stage = "auth" /\ how = "medium"
    <2>1. InContext(data, ctx) = [data EXCEPT !.reauth = TRUE]
      BY <1>3 DEF InContext
    <2> QED BY Zenon, <2>1 DEF Payload
  <1>4. CASE data.stage = "auth" /\ how \notin {"low", "medium"}
    <2>1. InContext(data, ctx) = data
      BY <1>4 DEF InContext
    <2> QED BY <2>1
  <1> QED BY <1>1, <1>2, <1>3, <1>4

\* A copy of a session, stored or in hand: what it says of its age is what happened, and
\* a signed-in one belongs to a row and to the place of the last proof.
Fits(s, data) ==
  /\ data.last <= touched[s]
  /\ data.stage = "auth" =>
       stored[s] # NoRow /\ data.created <= since[s] /\ Differing(place[s], data.ctx) \subseteq {"agent"}

CopiesFit ==
  /\ \A s \in Sids : touched[s] <= clock
  /\ \A s \in Sids : stored[s] # NoRow /\ stored[s].payload # NoPayload => Fits(s, stored[s].payload)
  /\ \A h \in Handlers : job[h].op \in {"request", "save"} => Fits(job[h].sid, job[h].data)

\* A sweep ends rows that are there.
SweepsRows == \A h \in Handlers : job[h].op = "sweep" => \A s \in job[h].sids : stored[s] # NoRow

SettledQuiet == \A s \in settled : Quiet(s)

SessionsInv == SessionTypes /\ SweepsRows /\ CopiesFit /\ SettledQuiet

Settles == settled' = settled \cup {s \in Sids : Quiet(s)'}

\* Steps that end rows and end requests, or change nothing of a request but its progress.
LEMMA EndingStep ==
  ASSUME SessionsInv, Settles, UNCHANGED <<clock, touched, since, place>>,
         stored' \in SessionRows, EndsOnly(stored, stored'), job' \in [Handlers -> SessionJob],
         \A g \in Handlers : \/ job'[g] \in {job[g], Idle}
                             \/ /\ job[g].op = "request" /\ job'[g].op \in {"request", "save"}
                                /\ job'[g].sid = job[g].sid /\ job'[g].data = job[g].data
  PROVE  SessionsInv'
  <1>1. \A s \in Sids : stored[s] # NoRow =>
          /\ stored'[s] # NoRow /\ (stored[s].ended => stored'[s].ended)
          /\ stored'[s].payload \in {stored[s].payload, NoPayload}
    BY EndedRow DEF EndsOnly, SessionsInv, SessionTypes, SessionRows
  <1>2. \A s \in Sids : stored[s] = NoRow => stored'[s] = NoRow
    BY DEF EndsOnly
  <1>3. SessionTypes'
    BY DEF SessionsInv, SessionTypes, SessionsTypeOK, SessionRows, Settles
  <1>4. SweepsRows'
    <2> SUFFICES ASSUME NEW g \in Handlers, job'[g].op = "sweep", NEW s \in job'[g].sids
                 PROVE  stored'[s] # NoRow
      BY DEF SweepsRows
    <2>1. job'[g] = job[g]
      BY DEF Idle
    <2>2. s \in Sids /\ stored[s] # NoRow
      BY <2>1 DEF SessionsInv, SessionTypes, SessionJob, SweepsRows, Idle
    <2> QED BY <1>1, <2>2
  <1>5. \A s \in Sids : \A data : Fits(s, data) => Fits(s, data)'
    BY <1>1 DEF Fits
  <1>6. CopiesFit'
    <2>1. \A s \in Sids : stored'[s] # NoRow /\ stored'[s].payload # NoPayload => Fits(s, stored'[s].payload)
      BY <1>1, <1>2 DEF SessionsInv, CopiesFit
    <2>2. \A g \in Handlers : job'[g].op \in {"request", "save"} =>
            job'[g].sid \in Sids /\ Fits(job'[g].sid, job'[g].data)
      BY DEF SessionsInv, CopiesFit, SessionTypes, SessionJob, Idle
    <2> QED BY <1>5, <2>1, <2>2 DEF CopiesFit, SessionsInv
  <1>7. ASSUME NEW s \in settled
        PROVE  Quiet(s)'
    <2>1. s \in Sids /\ Quiet(s)
      BY DEF SessionsInv, SettledQuiet, SessionTypes, SessionsTypeOK
    <2>2. \A g \in Handlers : job'[g] = Idle \/ job'[g].sid # s
      BY <2>1 DEF Quiet, Idle
    <2> QED BY <1>1, <2>1, <2>2 DEF Quiet
  <1> QED BY <1>3, <1>4, <1>6, <1>7 DEF SessionsInv, SettledQuiet, Settles

\* Steps that sign in to a new id: the id has no row, and gets one at once if the second
\* factor was shown.
LEMMA SignInStep ==
  ASSUME SessionsInv, Settles, UNCHANGED clock, NEW h \in Handlers, NEW new \in Sids,
         NEW ctx \in Contexts, NEW data \in Payload, NEW at \in 0..MaxClock, NEW from,
         stored[new] = NoRow, stored' \in SessionRows,
         stored'[new] = NoRow \/ (stored'[new].payload = NoPayload /\ ~stored'[new].ended),
         \A s \in Sids \ {new} : \/ stored'[s] = stored[s]
                                 \/ stored[s] # NoRow /\ stored'[s] = EndSession(stored[s]),
         Continue(h, NewRequest(new, ctx, data)), SignInAt(new, at, from), data.last <= clock,
         data.stage = "auth" => /\ stored'[new] # NoRow /\ data.created <= at
                                /\ Differing(from, data.ctx) \subseteq {"agent"}
  PROVE  SessionsInv'
  <1> DEFINE j == NewRequest(new, ctx, data)
  <1>a. /\ j \in SessionJob /\ j # Idle /\ j.op = "save" /\ j.sid = new /\ j.data = data
    BY DEF NewRequest, SessionJob, Idle
  <1> HIDE DEF j
  <1>b. job' = [job EXCEPT ![h] = j] /\ job \in [Handlers -> SessionJob]
    BY DEF Continue, j, SessionsInv, SessionTypes
  <1>c. /\ since' = [since EXCEPT ![new] = at] /\ touched' = [touched EXCEPT ![new] = clock]
        /\ place' = [place EXCEPT ![new] = from]
    BY DEF SignInAt
  <1>d. clock \in 0..MaxClock /\ touched \in Instants /\ since \in Instants /\ stored \in SessionRows
        /\ place = [s \in Sids |-> place[s]]
    BY DEF SessionsInv, SessionTypes, SessionsTypeOK
  <1>1. \A s \in Sids \ {new} :
          /\ stored[s] = NoRow => stored'[s] = NoRow
          /\ stored[s] # NoRow =>
               /\ stored'[s] # NoRow /\ (stored[s].ended => stored'[s].ended)
               /\ stored'[s].payload \in {stored[s].payload, NoPayload}
    BY <1>d, EndedRow DEF SessionRows
  <1>2. SessionTypes'
    BY ZenonT(30), <1>a, <1>b, <1>c, <1>d DEF SessionsInv, SessionTypes, SessionsTypeOK,
       SessionRows, Settles, Instants
  <1>3. SweepsRows'
    <2> SUFFICES ASSUME NEW g \in Handlers, job'[g].op = "sweep", NEW s \in job'[g].sids
                 PROVE  stored'[s] # NoRow
      BY DEF SweepsRows
    <2>1. job'[g] = job[g]
      BY <1>a, <1>b
    <2>2. s \in Sids /\ stored[s] # NoRow
      BY <2>1 DEF SessionsInv, SessionTypes, SessionJob, SweepsRows, Idle
    <2> QED BY <1>1, <2>2
  <1>4. \A s \in Sids : touched'[s] <= clock /\ touched[s] <= touched'[s]
    BY <1>c, <1>d DEF SessionsInv, CopiesFit, Instants
  <1>5. \A s \in Sids, d \in Payload : Fits(s, d) => Fits(s, d)'
    <2> SUFFICES ASSUME NEW s \in Sids, NEW d \in Payload, Fits(s, d) PROVE Fits(s, d)'
      BY Zenon
    <2>1. d.last <= touched'[s]
      BY <1>2, <1>4, <1>d DEF Fits, Payload, Instants, SessionTypes
    <2>2. d.stage = "auth" => s # new
      BY ZenonT(30) DEF Fits
    <2> QED BY ZenonT(30), <1>1, <1>c, <1>d, <2>1, <2>2 DEF Fits, Instants
  <1>6. Fits(new, data)'
    BY ZenonT(30), <1>c, <1>d DEF Fits, Instants
  <1>7. CopiesFit'
    <2>1. \A s \in Sids : stored'[s] # NoRow /\ stored'[s].payload # NoPayload =>
            stored'[s].payload \in Payload /\ Fits(s, stored'[s].payload)
      BY ZenonT(30), <1>1, <1>2 DEF SessionsInv, CopiesFit, SessionTypes, SessionRows, SessionRow
    <2>2. \A g \in Handlers \ {h} : job'[g].op \in {"request", "save"} =>
            job'[g].sid \in Sids /\ job'[g].data \in Payload /\ Fits(job'[g].sid, job'[g].data)
      <3>1. \A g \in Handlers : job[g].op \in {"request", "save"} =>
              job[g].sid \in Sids /\ job[g].data \in Payload
        BY <1>b DEF SessionJob, Idle
      <3>2. \A g \in Handlers \ {h} : job'[g] = job[g]
        BY ZenonT(30), <1>b
      <3> QED BY ZenonT(30), <3>1, <3>2 DEF SessionsInv, CopiesFit
    <2>3. job'[h] = j
      BY ZenonT(30), <1>b
    <2> QED BY ZenonT(30), <1>4, <1>5, <1>6, <1>a, <2>1, <2>2, <2>3 DEF CopiesFit
  <1>8. ASSUME NEW s \in settled
        PROVE  Quiet(s)'
    <2>1. s \in Sids /\ Quiet(s) /\ s # new
      BY ZenonT(30) DEF SessionsInv, SettledQuiet, SessionTypes, SessionsTypeOK, Quiet
    <2>2. \A g \in Handlers : job'[g] = Idle \/ job'[g].sid # s
      BY ZenonT(30), <1>a, <1>b, <2>1 DEF Quiet
    <2> QED BY ZenonT(30), <1>1, <2>1, <2>2 DEF Quiet
  <1> QED BY ZenonT(30), <1>2, <1>3, <1>7, <1>8 DEF SessionsInv, SettledQuiet, Settles

\* A request is let in with a copy of the payload.
LEMMA OpeningStep ==
  ASSUME SessionsInv, Settles, NEW h \in Handlers, NEW s \in Sids, NEW ctx \in Contexts,
         NEW poll \in BOOLEAN, OpenSession(h, s, ctx, poll)
  PROVE  /\ SessionsInv'
         /\ poll \/ clock - touched[s] <= Inactivity
         /\ stored[s].payload.stage = "auth" => clock - since[s] <= Lifetime
         /\ job' = [job EXCEPT ![h] = job'[h]]
         /\ job'[h].data.stage = stored[s].payload.stage
  <1> DEFINE kept == InContext(stored[s].payload, ctx)
             data == IF Exempt(poll) THEN kept ELSE [kept EXCEPT !.last = clock]
             j == [op |-> "request", sid |-> s, ctx |-> ctx, poll |-> poll, reload |-> poll, data |-> data]
  <1>a. /\ clock \in 0..MaxClock /\ touched \in Instants /\ since \in Instants /\ stored \in SessionRows
        /\ place = [t \in Sids |-> place[t]] /\ job \in [Handlers -> SessionJob]
    BY DEF SessionsInv, SessionTypes, SessionsTypeOK
  <1>b. /\ stored[s] # NoRow /\ ~stored[s].ended /\ stored[s].payload \in Payload
        /\ ~TooOld(stored[s].payload) /\ UNCHANGED <<stored, clock, since, place>>
        /\ touched' = IF poll THEN touched ELSE [touched EXCEPT ![s] = clock]
    BY <1>a DEF OpenSession, Admitted, SessionRows, SessionRow
  <1>c. job[h] = Idle /\ job' = [job EXCEPT ![h] = j]
    BY Zenon DEF OpenSession, Admitted, Begin, Free
  <1>d. /\ kept \in Payload /\ kept.stage = stored[s].payload.stage
        /\ kept.created = stored[s].payload.created /\ kept.last = stored[s].payload.last
        /\ \A p : Differing(p, stored[s].payload.ctx) \subseteq {"agent"} => Differing(p, kept.ctx) \subseteq {"agent"}
    BY Zenon, <1>b, ContextKept
  <1> HIDE DEF kept
  <1>e. /\ data \in Payload /\ data.stage = kept.stage /\ data.created = kept.created /\ data.ctx = kept.ctx
        /\ data.last = IF poll THEN kept.last ELSE clock
    BY <1>a, <1>d DEF Payload, Exempt
  <1> HIDE DEF data
  <1>f. j \in SessionJob /\ j # Idle /\ j.op = "request" /\ j.sid = s /\ j.data = data
    BY <1>e DEF SessionJob, Idle
  <1> HIDE DEF j
  <1>g. Fits(s, stored[s].payload) /\ stored[s].payload # NoPayload
    BY <1>b DEF SessionsInv, CopiesFit, Payload, NoPayload
  <1>1. SessionTypes'
    BY <1>a, <1>b, <1>c, <1>f DEF SessionsInv, SessionTypes, SessionsTypeOK, Settles, Instants
  <1>2. SweepsRows'
    BY <1>a, <1>b, <1>c, <1>f DEF SessionsInv, SweepsRows
  <1>3. \A t \in Sids : touched'[t] <= clock /\ touched[t] <= touched'[t]
    BY <1>a, <1>b DEF SessionsInv, CopiesFit, Instants
  <1>4. \A t \in Sids, d \in Payload : Fits(t, d) => Fits(t, d)'
    BY <1>1, <1>3, <1>a, <1>b DEF Fits, Payload, Instants, SessionTypes
  <1>h. PICK d0 \in Payload : d0 = data
    BY ZenonT(30), <1>e
  <1>5. Fits(s, d0)'
    <2>1. d0.last <= touched'[s]
      BY ZenonT(30), <1>1, <1>3, <1>a, <1>b, <1>d, <1>e, <1>g, <1>h DEF Fits, Instants, Payload,
         SessionTypes
    <2> QED BY ZenonT(30), <1>b, <1>d, <1>e, <1>g, <1>h, <2>1 DEF Fits
  <1>6. CopiesFit'
    <2>1. \A t \in Sids : stored'[t] # NoRow /\ stored'[t].payload # NoPayload =>
            stored'[t].payload \in Payload /\ Fits(t, stored'[t].payload)
      BY <1>a, <1>b DEF SessionsInv, CopiesFit, SessionRows, SessionRow
    <2>2. \A g \in Handlers \ {h} : job'[g].op \in {"request", "save"} =>
            job'[g].sid \in Sids /\ job'[g].data \in Payload /\ Fits(job'[g].sid, job'[g].data)
      BY <1>a, <1>c DEF SessionsInv, CopiesFit, SessionJob, Idle
    <2>3. job'[h].sid = s /\ job'[h].data = d0
      BY <1>a, <1>c, <1>f, <1>h
    <2> QED BY ZenonT(30), <1>3, <1>4, <1>5, <1>b, <2>1, <2>2, <2>3 DEF CopiesFit
  <1>7. ASSUME NEW t \in settled
        PROVE  Quiet(t)'
    <2>1. t \in Sids /\ Quiet(t) /\ t # s
      BY <1>b DEF SessionsInv, SettledQuiet, SessionTypes, SessionsTypeOK, Quiet
    <2> QED BY <1>a, <1>b, <1>c, <1>f, <2>1 DEF Quiet
  <1>8. SessionsInv'
    BY <1>1, <1>2, <1>6, <1>7 DEF SessionsInv, SettledQuiet, Settles
  <1>9. clock - touched[s] <= Inactivity /\ (stored[s].payload.stage = "auth" => clock - since[s] <= Lifetime)
    BY <1>a, <1>b, <1>g, SessionsAssumption DEF TooOld, Fits, Payload, Instants
  <1> QED BY <1>8, <1>9, <1>a, <1>c, <1>d, <1>e, <1>f

\* A request ends and its copy becomes the row's payload.
LEMMA SavingStep ==
  ASSUME SessionsInv, Settles, NEW h \in Handlers, SaveSession(h)
  PROVE  SessionsInv'
  <1> DEFINE s == job[h].sid
             row == stored[s]
             new == IF row = NoRow
                      THEN [status |-> "row", ended |-> FALSE, payload |-> job[h].data, expires |-> Expiry]
                      ELSE [row EXCEPT !.payload = job[h].data,
                                       !.ended   = @ /\ ~job[h].reload,
                                       !.expires = IF Exempt(job[h].poll) THEN @ ELSE Expiry]
  <1>a. /\ clock \in 0..MaxClock /\ stored \in SessionRows /\ job \in [Handlers -> SessionJob]
    BY DEF SessionsInv, SessionTypes, SessionsTypeOK
  <1>b. /\ job[h].op \in {"request", "save"} /\ job' = [job EXCEPT ![h] = Idle]
        /\ UNCHANGED <<clock, touched, since, place>> /\ stored' = [stored EXCEPT ![s] = new]
    BY DEF SaveSession, Done
  <1>c. s \in Sids /\ job[h].data \in Payload /\ Fits(s, job[h].data) /\ job[h] # Idle
        /\ job[h].reload \in BOOLEAN
    BY <1>a, <1>b DEF SessionJob, Idle, SessionsInv, CopiesFit
  <1>d. new \in SessionRow /\ new # NoRow /\ new.payload = job[h].data
    <2> DEFINE P == Payload \cup {NoPayload}
               E == 0..(MaxClock + Inactivity)
    <2>1. /\ SessionRow = [status : {"row"}, ended : BOOLEAN, payload : P, expires : E]
          /\ job[h].data \in P /\ Expiry \in E /\ row \in SessionRow \cup {NoRow}
      BY <1>a, <1>c, SessionsAssumption DEF SessionRow, Expiry, SessionRows
    <2> HIDE DEF P, E, row
    <2>2. CASE row = NoRow
      BY <1>c, <2>1, <2>2 DEF NoRow
    <2>3. CASE row # NoRow
      BY Zenon, <1>c, <2>1, <2>3 DEF NoRow, Exempt
    <2> QED BY <2>2, <2>3
  <1> HIDE DEF new, row, s
  <1>1. SessionTypes'
    <2>1. job' \in [Handlers -> SessionJob] /\ stored' \in SessionRows
      BY <1>a, <1>b, <1>c, <1>d DEF SessionRows, SessionJob
    <2> QED BY <1>b, <2>1 DEF SessionsInv, SessionTypes, SessionsTypeOK, SessionRows, Settles
  <1>2. SweepsRows'
    <2> SUFFICES ASSUME NEW g \in Handlers, job'[g].op = "sweep", NEW t \in job'[g].sids
                 PROVE  stored'[t] # NoRow
      BY DEF SweepsRows
    <2>1. job'[g] = job[g]
      BY <1>a, <1>b DEF Idle
    <2>2. t \in Sids /\ stored[t] # NoRow
      BY <1>a, <2>1 DEF SessionsInv, SessionJob, SweepsRows, Idle
    <2> QED BY <1>a, <1>b, <1>d, <2>2 DEF SessionRows
  <1>3. \A t \in Sids : \A d : Fits(t, d) => Fits(t, d)'
    BY <1>a, <1>b, <1>d DEF Fits, SessionRows
  <1>4. CopiesFit'
    <2>1. \A t \in Sids : stored'[t] # NoRow /\ stored'[t].payload # NoPayload => Fits(t, stored'[t].payload)
      BY <1>a, <1>b, <1>c, <1>d DEF SessionsInv, CopiesFit, SessionRows
    <2>2. \A g \in Handlers : job'[g].op \in {"request", "save"} =>
            job'[g].sid \in Sids /\ Fits(job'[g].sid, job'[g].data)
      BY <1>a, <1>b DEF SessionsInv, CopiesFit, SessionJob, Idle
    <2> QED BY ZenonT(30), <1>3, <1>b, <2>1, <2>2 DEF CopiesFit, SessionsInv
  <1>5. ASSUME NEW t \in settled
        PROVE  Quiet(t)'
    <2>1. t \in Sids /\ Quiet(t) /\ t # s
      BY <1>c DEF SessionsInv, SettledQuiet, SessionTypes, SessionsTypeOK, Quiet, s
    <2> QED BY <1>a, <1>b, <2>1 DEF Quiet, SessionRows
  <1> QED BY <1>1, <1>2, <1>4, <1>5 DEF SessionsInv, SettledQuiet, Settles

LEMMA SessionsStep ==
  ASSUME SessionsInv, [SessionsNext]_sessionVars
  PROVE  SessionsInv'
  <1>a. /\ clock \in 0..MaxClock /\ touched \in Instants /\ since \in Instants /\ stored \in SessionRows
        /\ place = [t \in Sids |-> place[t]] /\ job \in [Handlers -> SessionJob]
    BY DEF SessionsInv, SessionTypes, SessionsTypeOK
  <1>b. \A h \in Handlers : job[h].op \in {"request", "save"} =>
          /\ job[h].sid \in Sids /\ job[h].ctx \in Contexts /\ job[h].data \in Payload
          /\ Fits(job[h].sid, job[h].data)
    BY <1>a DEF SessionJob, Idle, SessionsInv, CopiesFit
  <1>c. EndsOnly(stored, stored)
    BY DEF EndsOnly
  <1>1. ASSUME UNCHANGED sessionVars
        PROVE  SessionsInv'
    BY Zenon, <1>1 DEF sessionVars, SessionsInv, SessionTypes, SessionsTypeOK, SweepsRows,
       CopiesFit, Fits, SettledQuiet, Quiet
  <1>2. ASSUME Settles, NEW h \in Handlers, NEW s \in Sids, NEW ctx \in Contexts, OpenRefused(h, s, ctx)
        PROVE  SessionsInv'
    BY ZenonT(30), <1>2, <1>a, EndedRows, EndingStep DEF OpenRefused
  <1>3. ASSUME Settles, NEW h \in Handlers,
               CommitInRequest(h) \/ RevokeOtherSessions(h) \/ Logout(h) \/ RequestDies(h) \/ SweepWrite(h)
        PROVE  SessionsInv'
    <2>1. stored' \in SessionRows /\ EndsOnly(stored, stored')
      <3>1. CASE SweepWrite(h)
        <4>1. \A t \in job[h].sids : t \in Sids /\ stored[t] # NoRow /\ stored[t] \in SessionRow
          BY <1>a, <3>1 DEF SweepWrite, SessionsInv, SweepsRows, SessionJob, Idle, SessionRows
        <4>2. \A t \in job[h].sids : EndSession(stored[t]) \in SessionRow
          BY <4>1, EndedRow
        <4> QED BY <1>a, <3>1, <4>1, <4>2 DEF SweepWrite, SessionRows, EndsOnly
      <3>2. CASE Logout(h) \/ RevokeOtherSessions(h)
        BY <1>a, <1>b, <3>2, EndedRows DEF Logout, RevokeOtherSessions, Serving
      <3>3. CASE CommitInRequest(h) \/ RequestDies(h)
        BY <1>a, <1>c, <3>3 DEF CommitInRequest, RequestDies
      <3> QED BY <1>3, <3>1, <3>2, <3>3
    <2>2. UNCHANGED <<clock, touched, since, place>>
      BY <1>3 DEF CommitInRequest, RevokeOtherSessions, Logout, RequestDies, SweepWrite
    <2>3. /\ job' \in [Handlers -> SessionJob]
          /\ \A g \in Handlers : \/ job'[g] \in {job[g], Idle}
                                 \/ /\ job[g].op = "request" /\ job'[g].op \in {"request", "save"}
                                    /\ job'[g].sid = job[g].sid /\ job'[g].data = job[g].data
      <3>1. CASE CommitInRequest(h) \/ RevokeOtherSessions(h)
        <4>1. job[h].op = "request" /\ job[h] \in SessionJob /\ job[h] # Idle
          BY <1>a, <3>1 DEF CommitInRequest, RevokeOtherSessions, Serving, Idle
        <4>2. /\ job' = [job EXCEPT ![h] = job'[h]]
              /\ job'[h] = [job[h] EXCEPT !.reload = TRUE] \/ job'[h] = [job[h] EXCEPT !.op = "save", !.reload = TRUE]
          BY Zenon, <1>a, <3>1 DEF CommitInRequest, RevokeOtherSessions
        <4>3. /\ job'[h] \in SessionJob /\ job'[h].op \in {"request", "save"}
              /\ job'[h].sid = job[h].sid /\ job'[h].data = job[h].data
          BY Zenon, <4>1, <4>2 DEF SessionJob
        <4> QED BY <1>a, <4>1, <4>2, <4>3
      <3>2. CASE Done(h)
        BY <1>a, <3>2 DEF Done, SessionJob
      <3> QED BY <1>3, <3>1, <3>2 DEF Logout, RequestDies, SweepWrite
    <2> QED BY <1>3, <2>1, <2>2, <2>3, EndingStep
  <1>4. ASSUME Settles, RevokeAllSessions
        PROVE  SessionsInv'
    <2>1. CASE Sids = {}
      BY <1>4, <1>a, <2>1, EndingStep DEF RevokeAllSessions, EndsOnly, EndActive, SessionRows
    <2>2. CASE Sids # {}
      BY <1>4, <1>a, <2>2, EndedRows, EndingStep DEF RevokeAllSessions
    <2> QED BY <2>1, <2>2
  <1>5. ASSUME NEW ctx \in Contexts
        PROVE  /\ PendingPayload(ctx) \in Payload /\ PendingPayload(ctx).last = clock
               /\ PendingPayload(ctx).stage = "pending"
    BY <1>a DEF PendingPayload, Payload
  <1>6. ASSUME Settles, NEW h \in Handlers, NEW new \in Sids, NEW ctx \in Contexts,
               BeginVisitorSession(h, new, ctx)
        PROVE  SessionsInv'
    <2>1. PICK data \in Payload : data = PendingPayload(ctx)
      BY <1>5
    <2>2. /\ stored[new] = NoRow /\ UNCHANGED <<stored, clock>>
          /\ Continue(h, NewRequest(new, ctx, data)) /\ SignInAt(new, clock, ctx)
      BY <1>6, <2>1 DEF BeginVisitorSession, Begin, Continue
    <2>3. data.last <= clock /\ data.stage # "auth"
      BY <1>5, <1>a, <2>1
    <2> QED BY <1>6, <1>a, <2>2, <2>3, SignInStep
  <1>7. ASSUME Settles, NEW h \in Handlers, NEW new \in Sids, BeginPasswordSession(h, new)
        PROVE  SessionsInv'
    <2>1. /\ job[h].op = "request" /\ stored[new] = NoRow /\ stored' = Ended(stored, job[h].sid)
          /\ Continue(h, NewRequest(new, job[h].ctx, PendingPayload(job[h].ctx)))
          /\ SignInAt(new, clock, job[h].ctx) /\ UNCHANGED clock
      BY ZenonT(30), <1>7 DEF BeginPasswordSession, Serving
    <2>2. PICK ctx \in Contexts, data \in Payload : ctx = job[h].ctx /\ data = PendingPayload(ctx)
      BY <1>5, <1>b, <2>1
    <2>3. data.last <= clock /\ data.stage # "auth"
      BY <1>5, <1>a, <2>2
    <2>4. /\ stored' \in SessionRows /\ EndsOnly(stored, stored')
      BY ZenonT(30), <1>a, <1>b, <2>1, EndedRows
    <2>5. stored'[new] = NoRow /\ \A s \in Sids \ {new} :
            stored'[s] = stored[s] \/ (stored[s] # NoRow /\ stored'[s] = EndSession(stored[s]))
      BY ZenonT(30), <2>1, <2>4 DEF EndsOnly
    <2> QED BY ZenonT(30), <1>7, <1>a, <2>1, <2>2, <2>3, <2>4, <2>5, SignInStep
  \* Registering the new id after the old one has ended.
  <1>8. ASSUME NEW old \in Sids, NEW new \in Sids, stored[new] = NoRow, NEW table,
               table \in {Registered(Ended(stored, old), new),
                         EndActive(Registered(Ended(stored, old), new), {new})}
        PROVE  /\ table \in SessionRows
               /\ table[new] # NoRow /\ table[new].payload = NoPayload /\ ~table[new].ended
               /\ \A s \in Sids \ {new} :
                    table[s] = stored[s] \/ (stored[s] # NoRow /\ table[s] = EndSession(stored[s]))
    <2> DEFINE ended == Ended(stored, old)
               made == Registered(ended, new)
    <2>1. ended \in SessionRows /\ EndsOnly(stored, ended)
      BY <1>a, EndedRows
    <2> HIDE DEF ended
    <2>2. /\ made \in SessionRows /\ made[new].payload = NoPayload /\ ~made[new].ended /\ made[new] # NoRow
          /\ \A s \in Sids \ {new} : made[s] = ended[s]
      BY ZenonT(30), <1>a, <2>1, RegisteredRows
    <2> HIDE DEF made
    <2>3. CASE table = made
      BY ZenonT(30), <2>1, <2>2, <2>3 DEF EndsOnly
    <2>4. CASE table = EndActive(made, {new})
      <3>1. table \in SessionRows /\ EndsOnly(made, table) /\ table[new] = made[new]
        BY <2>2, <2>4, EndedRows
      <3>2. \A s \in Sids : stored[s] # NoRow => EndSession(EndSession(stored[s])) = EndSession(stored[s])
        BY Zenon, <1>a DEF EndSession, SessionRows, SessionRow
      <3>3. \A s \in Sids : ended[s] # NoRow => stored[s] # NoRow
        BY <2>1 DEF EndsOnly
      <3> QED BY <2>1, <2>2, <3>1, <3>2, <3>3 DEF EndsOnly
    <2> QED BY <1>8, <2>3, <2>4 DEF made, ended
  <1>9. ASSUME Settles, NEW h \in Handlers, NEW new \in Sids, EstablishSession(h, new)
        PROVE  SessionsInv'
    <2>1. /\ job[h].op = "request" /\ stored[new] = NoRow
          /\ stored' = EndActive(Registered(Ended(stored, job[h].sid), new), {new})
          /\ Continue(h, NewRequest(new, job[h].ctx, [PendingPayload(job[h].ctx) EXCEPT !.stage = "auth"]))
          /\ SignInAt(new, clock, job[h].ctx) /\ UNCHANGED clock
      BY <1>9 DEF EstablishSession, Serving
    <2>2. PICK ctx \in Contexts : ctx = job[h].ctx
      BY <1>b, <2>1
    <2>3. [PendingPayload(ctx) EXCEPT !.stage = "auth"] \in Payload
      BY <1>5 DEF Payload
    <2>4. PICK data \in Payload : data = [PendingPayload(ctx) EXCEPT !.stage = "auth"]
      BY <2>3
    <2>5. data.last = clock /\ data.created = clock /\ data.ctx = ctx
      BY <2>4 DEF PendingPayload
    <2>6. Differing(ctx, ctx) = {}
      BY DEF Differing
    <2>7. /\ stored' \in SessionRows
          /\ stored'[new] # NoRow /\ stored'[new].payload = NoPayload /\ ~stored'[new].ended
          /\ \A s \in Sids \ {new} :
               stored'[s] = stored[s] \/ (stored[s] # NoRow /\ stored'[s] = EndSession(stored[s]))
      BY Zenon, <1>8, <1>b, <2>1
    <2>8. Continue(h, NewRequest(new, ctx, data)) /\ SignInAt(new, clock, ctx)
      BY <2>1, <2>2, <2>4
    <2>9. data.last <= clock /\ data.created <= clock /\ Differing(ctx, data.ctx) \subseteq {"agent"}
      BY <1>a, <2>5, <2>6
    <2> QED BY Zenon, <1>9, <1>a, <2>1, <2>7, <2>8, <2>9, SignInStep
  <1>10. ASSUME Settles, NEW h \in Handlers, NEW new \in Sids, StepUp(h, new) \/ ConfirmAuthenticator(h, new)
         PROVE  SessionsInv'
    <2>1. /\ job[h].op = "request" /\ job[h].data.stage = "auth" /\ stored[new] = NoRow
          /\ stored' = Registered(Ended(stored, job[h].sid), new) /\ UNCHANGED clock
          /\ Continue(h, NewRequest(new, job[h].ctx,
                           [job[h].data EXCEPT !.last = clock, !.ctx = job[h].ctx, !.reauth = FALSE]))
          /\ \/ StableSession(h) /\ SignInAt(new, since[job[h].sid], place[job[h].sid])
             \/ SignInAt(new, since[job[h].sid], job[h].ctx)
      BY <1>10 DEF StepUp, ConfirmAuthenticator, Rotated, RotateSession, Serving
    <2>2. /\ job[h].sid \in Sids /\ job[h].ctx \in Contexts /\ job[h].data \in Payload
          /\ Fits(job[h].sid, job[h].data)
      BY <1>b, <2>1
    <2>3. PICK ctx \in Contexts, at \in 0..MaxClock : ctx = job[h].ctx /\ at = since[job[h].sid]
      BY <1>a, <2>2 DEF Instants
    <2>4. [job[h].data EXCEPT !.last = clock, !.ctx = ctx, !.reauth = FALSE] \in Payload
      BY Zenon, <1>a, <2>2 DEF Payload
    <2>5. PICK data \in Payload : data = [job[h].data EXCEPT !.last = clock, !.ctx = ctx, !.reauth = FALSE]
      BY <2>4
    <2>6. data.last = clock /\ data.created = job[h].data.created /\ data.ctx = ctx
      BY <2>2, <2>5 DEF Payload
    <2>7. data.created <= at
      BY <2>1, <2>2, <2>3, <2>6 DEF Fits
    <2>8. PICK from : /\ from \in {place[job[h].sid], ctx} /\ SignInAt(new, at, from)
                      /\ Differing(from, ctx) \subseteq {"agent"}
      <3>1. CASE StableSession(h) /\ SignInAt(new, since[job[h].sid], place[job[h].sid])
        <4>1. Differing(place[job[h].sid], ctx) \subseteq {"agent"}
          BY <2>1, <2>2, <2>3, <3>1 DEF StableSession, Fits
        <4> QED BY <2>3, <3>1, <4>1
      <3>2. CASE SignInAt(new, since[job[h].sid], job[h].ctx)
        <4>1. Differing(ctx, ctx) = {}
          BY DEF Differing
        <4> QED BY <2>3, <3>2, <4>1
      <3> QED BY <2>1, <3>1, <3>2
    <2>9. /\ stored' \in SessionRows
          /\ stored'[new] # NoRow /\ stored'[new].payload = NoPayload /\ ~stored'[new].ended
          /\ \A s \in Sids \ {new} :
               stored'[s] = stored[s] \/ (stored[s] # NoRow /\ stored'[s] = EndSession(stored[s]))
      BY Zenon, <1>8, <2>1, <2>2
    <2>10. Continue(h, NewRequest(new, ctx, data)) /\ data.last <= clock
           /\ Differing(from, data.ctx) \subseteq {"agent"}
      BY <1>a, <2>1, <2>3, <2>5, <2>6, <2>8
    <2> QED BY <1>10, <2>1, <2>7, <2>8, <2>9, <2>10, SignInStep
  <1>11. ASSUME Settles, NEW h \in Handlers, SweepSelect(h)
         PROVE  SessionsInv'
    <2> DEFINE j == [op |-> "sweep", sids |-> {s \in Sids : Stale(stored, s)}, sid |-> None]
    <2>1. UNCHANGED <<stored, clock, touched, since, place>> /\ job' = [job EXCEPT ![h] = j]
      BY <1>11 DEF SweepSelect, Begin
    <2>2. j \in SessionJob /\ j.op = "sweep" /\ j.sid = None /\ \A s \in j.sids : stored[s] # NoRow
      BY DEF SessionJob, Stale
    <2> HIDE DEF j
    <2>3. SessionTypes' /\ SweepsRows'
      BY <1>11, <1>a, <2>1, <2>2 DEF SessionsInv, SessionTypes, SessionsTypeOK, Settles, SweepsRows
    <2>4. CopiesFit'
      BY Zenon, <1>a, <2>1, <2>2 DEF SessionsInv, CopiesFit, Fits
    <2>5. \A s \in settled : Quiet(s)'
      BY ZenonT(30), <1>a, <2>1, <2>2, SessionsAssumption DEF SessionsInv, SettledQuiet, Quiet,
         SessionTypes, SessionsTypeOK
    <2> QED BY <1>11, <2>3, <2>4, <2>5 DEF SessionsInv, SettledQuiet, Settles
  <1>12. ASSUME Settles, ClockTicks
         PROVE  SessionsInv'
    <2>1. UNCHANGED <<stored, touched, since, place, job>> /\ clock' = clock + 1 /\ clock' \in 0..MaxClock
      BY <1>12, <1>a, SessionsAssumption DEF ClockTicks
    <2>2. SessionTypes' /\ SweepsRows'
      BY <1>12, <2>1 DEF SessionsInv, SessionTypes, SessionsTypeOK, Settles, SweepsRows
    <2>3. CopiesFit'
      <3>1. \A s \in Sids : touched[s] <= clock + 1
        BY <1>a DEF SessionsInv, CopiesFit, Instants
      <3> QED BY ZenonT(30), <2>1, <3>1 DEF SessionsInv, CopiesFit, Fits
    <2> QED BY ZenonT(30), <1>12, <2>1, <2>2, <2>3 DEF SessionsInv, SettledQuiet, Settles, Quiet
  <1>13. CASE SessionsNext
    <2>1. Settles /\ SessionStep
      BY <1>13 DEF SessionsNext, Settles
    <2> QED BY ZenonT(30), <1>2, <1>3, <1>4, <1>6, <1>7, <1>9, <1>10, <1>11, <1>12, <2>1,
               OpeningStep, SavingStep DEF SessionStep
  <1> QED BY <1>1, <1>13

LEMMA SessionsBegin == SessionsInit => SessionsInv
  <1> SUFFICES ASSUME SessionsInit PROVE SessionsInv
    OBVIOUS
  <1>1. job = [h \in Handlers |-> Idle] /\ \A h \in Handlers : job[h].op = "idle"
    BY DEF SessionsInit, Idle
  <1>2. place = [s \in Sids |-> place[s]]
    BY DEF SessionsInit
  <1>3. SessionTypes
    BY <1>1, <1>2, SessionsAssumption DEF SessionsInit, SessionTypes, SessionsTypeOK, SessionRows,
       Instants, SessionJob
  <1>4. SweepsRows /\ CopiesFit /\ SettledQuiet
    BY <1>1 DEF SessionsInit, SweepsRows, CopiesFit, SettledQuiet
  <1> QED BY <1>3, <1>4 DEF SessionsInv

\* _end_session_record and the saves of save_session, for any sessions and handlers: a session
\* that has ended, and that no request in flight still holds, stays ended.
THEOREM SessionsSettled == SessionsSpec => []SettledStaysEnded
  <1>1. SessionsInv => SettledStaysEnded
    BY DEF SessionsInv, SettledQuiet, Quiet, SettledStaysEnded
  <1> QED BY <1>1, SessionsBegin, SessionsStep, PTL DEF SessionsSpec

LEMMA OpensByOpening ==
  ASSUME SessionsInv, SessionsNext, NEW h \in Handlers, NEW s \in Sids, Opens(h, s)
  PROVE  \E ctx \in Contexts : OpenSession(h, s, ctx, FALSE)
  <1>1. job \in [Handlers -> SessionJob] /\ job[h].op = "idle" /\ job'[h].op = "request"
    BY DEF SessionsInv, SessionTypes, Opens, Idle
  <1>2. ASSUME NEW g \in Handlers, NEW j, j.op # "request", job' = [job EXCEPT ![g] = j]
        PROVE  FALSE
    BY <1>1, <1>2
  <1>3. ASSUME NEW g \in Handlers, NEW j, job[g].op = "request", job' = [job EXCEPT ![g] = j]
        PROVE  FALSE
    BY <1>1, <1>3
  <1>4. ASSUME NEW g \in Handlers, NEW t \in Sids, NEW ctx \in Contexts, NEW poll \in BOOLEAN,
               OpenSession(g, t, ctx, poll)
        PROVE  OpenSession(h, s, ctx, FALSE)
    <2> DEFINE data == LET data == InContext(stored[t].payload, ctx)
                       IN IF Exempt(poll) THEN data ELSE [data EXCEPT !.last = clock]
               j == [op |-> "request", sid |-> t, ctx |-> ctx, poll |-> poll, reload |-> poll, data |-> data]
    <2>0. job' = [job EXCEPT ![g] = j]
      BY <1>4, Zenon DEF OpenSession, Admitted, Begin
    <2> HIDE DEF data
    <2>1. j.op = "request" /\ j.sid = t /\ j.poll = poll /\ job' = [job EXCEPT ![g] = j]
      BY <2>0
    <2> HIDE DEF j
    <2>2. g = h
      BY <1>1, <2>1
    <2>3. t = s /\ poll = FALSE
      BY <1>1, <2>1, <2>2 DEF Opens
    <2> QED BY Zenon, <1>4, <2>2, <2>3
  <1>5. \A g \in Handlers, t \in Sids, ctx \in Contexts : ~BeginVisitorSession(g, t, ctx)
    <2>1. \A t, ctx, data : NewRequest(t, ctx, data).op = "save"
      BY DEF NewRequest
    <2> QED BY <1>2, <2>1 DEF BeginVisitorSession, Begin
  <1>6. \A g \in Handlers, t \in Sids : ~BeginPasswordSession(g, t) /\ ~EstablishSession(g, t)
                                         /\ ~StepUp(g, t) /\ ~ConfirmAuthenticator(g, t)
    BY <1>3 DEF BeginPasswordSession, EstablishSession, StepUp, ConfirmAuthenticator, Rotated,
       RotateSession, Serving, Continue
  <1>7. ASSUME NEW g \in Handlers PROVE ~CommitInRequest(g) /\ ~RevokeOtherSessions(g)
    <2>1. CASE job[g].op = "request"
      BY <1>1, <2>1 DEF CommitInRequest, RevokeOtherSessions
    <2> QED BY <2>1 DEF CommitInRequest, RevokeOtherSessions, Serving
  <1>8. \A g \in Handlers : ~Done(g)
    BY <1>1 DEF Done, Idle
  <1>9. \A g \in Handlers : ~SweepSelect(g)
    BY <1>1 DEF SweepSelect, Begin
  <1>10. job' # job
    BY <1>1
  <1> QED BY Zenon, <1>4, <1>5, <1>6, <1>7, <1>8, <1>9, <1>10 DEF SessionsNext, SessionStep,
             OpenRefused, Logout, SaveSession, RequestDies, SweepWrite, RevokeAllSessions,
             ClockTicks

\* open_session and the checks of _enforce_session_activity, for any lifetimes and handlers: no
\* request is let in later than the inactivity time after the last one that was no poll, nor
\* into an authenticated session later than the absolute lifetime after the sign-in.
THEOREM SessionsAge == SessionsSpec => SessionsAgeOut
  <1>1. SessionsInv /\ [SessionsNext]_sessionVars =>
          [\A h \in Handlers, s \in Sids : Opens(h, s) =>
             /\ clock - touched[s] <= Inactivity
             /\ job'[h].data.stage = "auth" => clock - since[s] <= Lifetime]_sessionVars
    <2> SUFFICES ASSUME SessionsInv, SessionsNext, NEW h \in Handlers, NEW s \in Sids, Opens(h, s)
                 PROVE  /\ clock - touched[s] <= Inactivity
                        /\ job'[h].data.stage = "auth" => clock - since[s] <= Lifetime
      OBVIOUS
    <2>1. PICK ctx \in Contexts : OpenSession(h, s, ctx, FALSE)
      BY Zenon, OpensByOpening
    <2> QED BY Zenon, <2>1, OpeningStep DEF SessionsNext, Settles
  <1> QED BY <1>1, SessionsBegin, SessionsStep, PTL DEF SessionsSpec, SessionsAgeOut

\* require_stable_session_for_sensitive_action, for any networks, families and agents: a
\* sensitive action is authorised only where the last sign-in or new authenticator was, up to
\* small changes of the user agent.
THEOREM SessionsPlace == SessionsSpec => StepUpFromKnownPlace
  <1>1. SessionsInv =>
          [\A h \in Handlers, new \in Sids :
             StepUp(h, new) => Differing(place[job[h].sid], job[h].ctx) \subseteq {"agent"}]_sessionVars
    <2> SUFFICES ASSUME SessionsInv, NEW h \in Handlers, NEW new \in Sids, StepUp(h, new)
                 PROVE  Differing(place[job[h].sid], job[h].ctx) \subseteq {"agent"}
      OBVIOUS
    <2>1. Fits(job[h].sid, job[h].data) /\ job[h].data.stage = "auth" /\ job[h].data.ctx = job[h].ctx
      BY DEF StepUp, Serving, StableSession, SessionsInv, CopiesFit
    <2> QED BY <2>1 DEF Fits
  <1> QED BY <1>1, SessionsBegin, SessionsStep, PTL DEF SessionsSpec, StepUpFromKnownPlace

-----------------------------------------------------------------------------
(* The circuit breaker of the password screening.                          *)

\* The checks whose call has failed and is not recorded yet.
Unrecorded == {h \in Handlers : job[h].op = "failed"}

BreakerInv ==
  /\ BreakerTypeOK
  /\ IsFiniteSet(Unrecorded) /\ streak + Cardinality(Unrecorded) <= failures
  /\ lastFailure <= hour
  /\ \A h \in Handlers : job[h].op = "failed" => job[h].at <= lastFailure
  /\ OpensOnlyOnOutage

LEMMA BreakerBegin == BreakerInit => BreakerInv
  <1> SUFFICES ASSUME BreakerInit PROVE BreakerInv
    OBVIOUS
  <1>1. Unrecorded = {}
    BY DEF BreakerInit, Unrecorded, Idle
  <1>2. \A h \in Handlers : job[h].op # "failed"
    BY Zenon DEF BreakerInit, Idle
  <1> QED BY <1>1, <1>2, FS_EmptySet DEF BreakerInit, BreakerInv, BreakerTypeOK, BreakerJob,
             OpensOnlyOnOutage

LEMMA BreakerStep ==
  ASSUME BreakerInv, [BreakerNext]_breakerVars
  PROVE  BreakerInv'
  <1> USE BreakerAssumption
  <1> DEFINE n == Cardinality(Unrecorded)
  <1>a. /\ n \in Nat /\ failures \in Nat /\ hour \in Nat /\ lastFailure \in Nat /\ streak \in Nat
        /\ ClosedRow \in BreakerRow
    BY FS_CardinalityType DEF BreakerInv, BreakerTypeOK, ClosedRow, BreakerRow
  <1>b. ClosedRow.count = 0 /\ ClosedRow.until = 0 /\ ClosedRow.status = "closed" /\ ClosedRow # NoRow
    BY DEF ClosedRow, NoRow
  <1>c. \A row \in BreakerRow : row # NoRow /\ row.count \in Nat /\ row.until \in Nat
    BY DEF BreakerRow, NoRow
  <1>d. streak + n <= failures /\ lastFailure <= hour /\ OpensOnlyOnOutage
    BY Zenon DEF BreakerInv
  \* A check goes on or ends; none is added to the unrecorded ones.
  <1>1. ASSUME NEW h \in Handlers, NEW j \in BreakerJob, j.op # "failed",
               job' = [job EXCEPT ![h] = j]
        PROVE  /\ job' \in [Handlers -> BreakerJob]
               /\ IsFiniteSet(Unrecorded)' /\ Cardinality(Unrecorded)' \in Nat
               /\ Cardinality(Unrecorded)' = IF job[h].op = "failed" THEN n - 1 ELSE n
               /\ lastFailure' = lastFailure =>
                    (\A g \in Handlers : job[g].op = "failed" => job[g].at <= lastFailure)'
    <2>1. job' \in [Handlers -> BreakerJob] /\ \A g \in Handlers : job'[g] = IF g = h THEN j ELSE job[g]
      BY <1>1 DEF BreakerInv, BreakerTypeOK
    <2>2. Unrecorded' = Unrecorded \ {h}
      BY <1>1, <2>1 DEF Unrecorded
    <2>3. h \in Unrecorded <=> job[h].op = "failed"
      BY DEF Unrecorded
    <2>4. IsFiniteSet(Unrecorded)
      BY DEF BreakerInv
    <2>5. /\ IsFiniteSet(Unrecorded \ {h})
          /\ Cardinality(Unrecorded \ {h}) = IF h \in Unrecorded THEN n - 1 ELSE n
      BY Zenon, <2>4, FS_RemoveElement
    <2>6. lastFailure' = lastFailure =>
            (\A g \in Handlers : job[g].op = "failed" => job[g].at <= lastFailure)'
      BY Zenon, <1>1, <2>1 DEF BreakerInv
    <2> QED BY ZenonT(30), <2>1, <2>2, <2>3, <2>5, <2>6, FS_CardinalityType
  \* Steps that write no row.
  <1>2. ASSUME NEW h \in Handlers, NEW j \in BreakerJob, j.op # "failed",
               job' = [job EXCEPT ![h] = j],
               UNCHANGED <<breaker, hour, failures, lastFailure, streak>>
        PROVE  BreakerInv'
    <2>1. BreakerTypeOK'
      BY <1>1, <1>2 DEF BreakerInv, BreakerTypeOK
    <2>a. Cardinality(Unrecorded)' \in Nat /\ Cardinality(Unrecorded)' \in {n, n - 1}
      BY Zenon, <1>1, <1>2
    <2>2. streak' + Cardinality(Unrecorded)' <= failures'
      BY <1>2, <1>a, <1>d, <2>a
    <2>3. lastFailure' <= hour' /\ OpensOnlyOnOutage'
      BY <1>2, <1>d DEF OpensOnlyOnOutage
    <2> QED BY Zenon, <1>1, <1>2, <2>1, <2>2, <2>3 DEF BreakerInv
  \* Steps that close the circuit and start a new count.
  <1>3. ASSUME NEW h \in Handlers, NEW j \in BreakerJob, j.op # "failed",
               job' = [job EXCEPT ![h] = j], UNCHANGED <<hour, failures, lastFailure>>,
               breaker' \in {NoRow, ClosedRow}, streak' = 0
        PROVE  BreakerInv'
    <2>1. BreakerTypeOK'
      BY <1>1, <1>3, <1>a DEF BreakerInv, BreakerTypeOK
    <2>a. Cardinality(Unrecorded)' \in Nat /\ Cardinality(Unrecorded)' \in {n, n - 1}
      BY Zenon, <1>1, <1>3
    <2>2. streak' + Cardinality(Unrecorded)' <= failures'
      BY <1>3, <1>a, <1>d, <2>a
    <2>b. 0 <= failures /\ 0 <= lastFailure + OpenTime /\ ~(0 >= Threshold)
      BY <1>a
    <2>3. lastFailure' <= hour' /\ OpensOnlyOnOutage'
      BY Zenon, <1>3, <1>b, <1>d, <2>b DEF OpensOnlyOnOutage
    <2> QED BY Zenon, <1>1, <1>3, <2>1, <2>2, <2>3 DEF BreakerInv
  <1>4. ASSUME NEW h \in Handlers, ValidatePasswordPolicy(h)
        PROVE  BreakerInv'
    <2> DEFINE j == [op |-> IF RunOut(breaker) THEN "reopen" ELSE "call"]
    <2>1. j \in BreakerJob /\ j.op # "failed"
      BY DEF BreakerJob
    <2>2. job' = [job EXCEPT ![h] = j] /\ UNCHANGED <<breaker, hour, failures, lastFailure, streak>>
      BY <1>4 DEF ValidatePasswordPolicy, Begin
    <2> HIDE DEF j
    <2> QED BY Zenon, <1>2, <2>1, <2>2
  <1>5. ASSUME NEW h \in Handlers, CloseRunOut(h)
        PROVE  BreakerInv'
    <2> DEFINE j == [op |-> "call"]
    <2>1. j \in BreakerJob /\ j.op # "failed"
      BY DEF BreakerJob
    <2>2. /\ job' = [job EXCEPT ![h] = j] /\ UNCHANGED <<hour, failures, lastFailure>>
          /\ breaker' = ClosedRow /\ streak' = 0
      BY <1>5 DEF CloseRunOut, Continue
    <2> HIDE DEF j
    <2> QED BY Zenon, <1>3, <2>1, <2>2
  <1>6. ASSUME NEW h \in Handlers, CallFails(h)
        PROVE  BreakerInv'
    <2>1. /\ UNCHANGED <<breaker, hour, streak>> /\ failures' = failures + 1 /\ lastFailure' = hour
          /\ job[h].op = "call" /\ job' = [job EXCEPT ![h] = [op |-> "failed", at |-> hour]]
      BY <1>6 DEF CallFails, Continue
    <2>2. /\ job' \in [Handlers -> BreakerJob]
          /\ \A g \in Handlers : job'[g] = IF g = h THEN [op |-> "failed", at |-> hour] ELSE job[g]
      BY <2>1, <1>a DEF BreakerInv, BreakerTypeOK, BreakerJob
    <2>3. Unrecorded' = Unrecorded \cup {h} /\ h \notin Unrecorded
      BY <2>1, <2>2 DEF Unrecorded
    <2>4. IsFiniteSet(Unrecorded)
      BY DEF BreakerInv
    <2>5. IsFiniteSet(Unrecorded)' /\ Cardinality(Unrecorded)' = n + 1
      BY <2>3, <2>4, FS_AddElement
    <2>6. BreakerTypeOK'
      BY <1>a, <2>1, <2>2 DEF BreakerInv, BreakerTypeOK
    <2>7. streak' + Cardinality(Unrecorded)' <= failures' /\ lastFailure' <= hour'
      BY <1>a, <1>d, <2>1, <2>5
    <2>8. \A g \in Handlers : job'[g].op = "failed" => job'[g].at <= lastFailure'
      <3> SUFFICES ASSUME NEW g \in Handlers, g # h, job[g].op = "failed"
                   PROVE  job[g].at <= hour
        BY <1>a, <2>1, <2>2
      <3>1. job[g].at \in Nat
        BY DEF BreakerInv, BreakerTypeOK, BreakerJob, Idle
      <3>2. job[g].at <= lastFailure
        BY Zenon DEF BreakerInv
      <3> QED BY <1>a, <1>d, <3>1, <3>2
    <2>9. OpensOnlyOnOutage'
      <3>1. breaker # NoRow => breaker.until \in Nat
        BY Zenon, <1>c DEF BreakerInv, BreakerTypeOK
      <3> QED BY <1>a, <1>d, <2>1, <3>1 DEF OpensOnlyOnOutage
    <2> QED BY Zenon, <2>5, <2>6, <2>7, <2>8, <2>9 DEF BreakerInv
  <1>7. ASSUME NEW h \in Handlers, CallAnswers(h)
        PROVE  BreakerInv'
    <2> DEFINE j == [op |-> "answered"]
    <2>1. j \in BreakerJob /\ j.op # "failed"
      BY DEF BreakerJob
    <2>2. job' = [job EXCEPT ![h] = j] /\ UNCHANGED <<breaker, hour, failures, lastFailure, streak>>
      BY <1>7 DEF CallAnswers, Continue
    <2> HIDE DEF j
    <2> QED BY Zenon, <1>2, <2>1, <2>2
  <1>e. Idle \in BreakerJob /\ Idle.op # "failed"
    BY DEF BreakerJob, Idle
  <1>8. ASSUME NEW h \in Handlers, RecordHibpFailure(h)
        PROVE  BreakerInv'
    <2> DEFINE row == HibpBreaker
               at  == job[h].at
    <2>1. /\ UNCHANGED <<hour, failures, lastFailure>> /\ streak' = streak + 1 /\ job[h].op = "failed"
          /\ job' = [job EXCEPT ![h] = Idle] /\ breaker' = CountFailure(row, at)
      BY <1>8 DEF RecordHibpFailure, Done
    <2>2. /\ job' \in [Handlers -> BreakerJob] /\ IsFiniteSet(Unrecorded)'
          /\ Cardinality(Unrecorded)' \in Nat /\ Cardinality(Unrecorded)' = n - 1
          /\ (\A g \in Handlers : job[g].op = "failed" => job[g].at <= lastFailure)'
      BY Zenon, <1>1, <1>e, <2>1
    <2>3. at \in Nat /\ at <= lastFailure
      <3>1. at \in Nat
        BY <2>1 DEF BreakerInv, BreakerTypeOK, BreakerJob, Idle
      <3> QED BY Zenon, <2>1, <3>1 DEF BreakerInv
    <2>4. /\ row \in BreakerRow /\ row.count = streak
          /\ row.status = "open" <=> streak >= Threshold
          /\ row.until <= lastFailure + OpenTime
      <3>1. CASE breaker = NoRow
        BY <1>a, <1>b, <1>d, <3>1 DEF OpensOnlyOnOutage, HibpBreaker
      <3>2. CASE breaker # NoRow
        BY <1>d, <3>2 DEF OpensOnlyOnOutage, HibpBreaker, BreakerInv, BreakerTypeOK
      <3> QED BY <3>1, <3>2
    <2> HIDE DEF row, at
    <2>5. /\ breaker' \in BreakerRow /\ breaker'.count = streak + 1
          /\ breaker'.status = "open" <=> streak + 1 >= Threshold
          /\ breaker'.until <= lastFailure + OpenTime
      <3>1. CASE streak + 1 >= Threshold
        <4>1. breaker' = [status |-> "open", count |-> streak + 1, until |-> at + OpenTime]
          BY <2>1, <2>4, <3>1 DEF CountFailure, Reached
        <4> QED BY <1>a, <2>3, <3>1, <4>1 DEF BreakerRow
      <3>2. CASE ~(streak + 1 >= Threshold)
        <4>1. breaker' = [row EXCEPT !.count = streak + 1]
          BY <2>1, <2>4, <3>2 DEF CountFailure, Reached
        <4>2. breaker' \in BreakerRow /\ breaker'.count = streak + 1
          BY <1>a, <2>4, <4>1 DEF BreakerRow
        <4>3. breaker'.status = row.status /\ breaker'.until = row.until
          BY <2>4, <4>1 DEF BreakerRow
        <4>4. ~(streak >= Threshold)
          BY <1>a, <3>2
        <4> QED BY Zenon, <2>4, <3>2, <4>2, <4>3, <4>4
      <3> QED BY <3>1, <3>2
    <2>6. BreakerTypeOK'
      BY <1>a, <2>1, <2>2, <2>5 DEF BreakerTypeOK
    <2>7. streak' + Cardinality(Unrecorded)' <= failures' /\ lastFailure' <= hour'
      BY <1>a, <1>d, <2>1, <2>2
    <2>8. OpensOnlyOnOutage'
      BY <1>a, <1>c, <2>1, <2>2, <2>5, <2>7 DEF OpensOnlyOnOutage
    <2> QED BY Zenon, <2>2, <2>6, <2>7, <2>8 DEF BreakerInv
  <1>9. ASSUME NEW h \in Handlers, ClearHibpFailures(h)
        PROVE  BreakerInv'
    <2>1. /\ job' = [job EXCEPT ![h] = Idle] /\ UNCHANGED <<hour, failures, lastFailure>>
          /\ breaker' \in {NoRow, ClosedRow} /\ streak' = 0
      BY <1>9 DEF ClearHibpFailures, Done
    <2> QED BY Zenon, <1>3, <1>e, <2>1
  <1>10. ASSUME NEW h \in Handlers, BreakerUnavailable(h)
         PROVE  BreakerInv'
    <2>1. job' = [job EXCEPT ![h] = Idle] /\ UNCHANGED <<breaker, hour, failures, lastFailure, streak>>
      BY <1>10 DEF BreakerUnavailable, Done
    <2> QED BY Zenon, <1>2, <1>e, <2>1
  <1>11. ASSUME BreakerTimePasses \/ UNCHANGED breakerVars
         PROVE  BreakerInv'
    <2>1. UNCHANGED <<breaker, failures, lastFailure, streak, job>> /\ hour' \in {hour, hour + 1}
      BY <1>11 DEF BreakerTimePasses, breakerVars
    <2>2. Unrecorded' = Unrecorded
      BY <2>1 DEF Unrecorded
    <2>3. BreakerTypeOK' /\ lastFailure' <= hour'
      BY <1>a, <1>d, <2>1 DEF BreakerInv, BreakerTypeOK
    <2>4. OpensOnlyOnOutage'
      BY <1>d, <2>1 DEF OpensOnlyOnOutage
    <2> QED BY <2>1, <2>2, <2>3, <2>4 DEF BreakerInv
  <1> QED BY <1>4, <1>5, <1>6, <1>7, <1>8, <1>9, <1>10, <1>11 DEF BreakerNext

\* _record_hibp_failure and _hibp_circuit_is_open, for any threshold, open time and number of
\* checks: the row counts exactly the failures recorded since the last recorded answer or
\* closing, is open exactly when they reach the threshold, and never for longer than an open
\* time after the last failed call.
THEOREM BreakerOpens == BreakerSpec => []OpensOnlyOnOutage
  <1>1. BreakerInv => OpensOnlyOnOutage
    BY DEF BreakerInv
  <1> QED BY <1>1, BreakerBegin, BreakerStep, PTL DEF BreakerSpec

-----------------------------------------------------------------------------
(* Alerts.                                                                 *)

Figures == [count : Nat, top : Nat]

\* What a check in hand counted and read. Reports read a baseline that had not sunk;
\* while a rebaseline runs no figure is owed anything.
CheckJob(h) ==
  /\ job[h].op \in {"count", "compare", "rebaseline", "write"} => job[h].now \in Figures
  /\ job[h].op = "compare" => job[h].before \in Figures /\ ~Regressed(floor, job[h].before)
  /\ job[h].op \in {"rebaseline", "write"} => floor = NoBaseline
  /\ job[h].op = "write" => job[h].backup \in Figures

AlertsInv ==
  /\ job = [h \in Handlers |-> job[h]]
  /\ {rows, baseline, floor} \subseteq Figures
  /\ rows.count <= rows.top
  /\ \A h \in Handlers : CheckJob(h)
  /\ BaselineNeverRewinds

LEMMA AlertsBegin == AlertsInit => AlertsInv
  BY DEF AlertsInit, AlertsInv, CheckJob, BaselineNeverRewinds, Regressed, NoBaseline, Figures, Idle

LEMMA NotRegressedTransitive ==
  ASSUME NEW a \in Figures, NEW b \in Figures, NEW c \in Figures,
         ~Regressed(a, b), ~Regressed(b, c)
  PROVE  ~Regressed(a, c)
  BY DEF Figures, Regressed, NoBaseline

LEMMA AlertsStep ==
  ASSUME AlertsInv, [AlertsNext]_alertVars
  PROVE  AlertsInv'
  <1> USE DEF AlertsInv
  <1>n. NoBaseline \in Figures /\ (\A x : ~Regressed(NoBaseline, x)) /\ \A y \in Figures : ~Regressed(y, y)
    BY DEF Regressed, NoBaseline, Figures
  <1>1. ASSUME NEW h \in Handlers, NEW by \in {"timer", "browser"}, ReportBegins(h, by)
        PROVE  AlertsInv'
    BY <1>1, <1>n DEF ReportBegins, Begin, Unwatched, CheckJob, BaselineNeverRewinds
  <1>2. ASSUME NEW h \in Handlers, LoadState(h)
        PROVE  AlertsInv'
    BY <1>2, <1>n DEF LoadState, Continue, CheckJob, BaselineNeverRewinds
  <1>3. ASSUME NEW h \in Handlers, DatabaseIntegrityAlerts(h)
        PROVE  AlertsInv'
    BY <1>3, <1>n, NotRegressedTransitive DEF DatabaseIntegrityAlerts, Continue, CheckJob,
       BaselineNeverRewinds
  <1>4. ASSUME NEW h \in Handlers, ReadMarks(h)
        PROVE  AlertsInv'
    BY <1>4 DEF ReadMarks, CheckJob, BaselineNeverRewinds, Idle
  <1>5. ASSUME NEW h \in Handlers, DedupeAlerts(h)
        PROVE  AlertsInv'
    BY <1>5 DEF DedupeAlerts, Done, CheckJob, BaselineNeverRewinds, Idle
  <1>6. ASSUME NEW h \in Handlers, DeliverSecurityAlerts(h)
        PROVE  AlertsInv'
    BY <1>6 DEF DeliverSecurityAlerts, Done, CheckJob, BaselineNeverRewinds, Idle
  <1>7. ASSUME NEW h \in Handlers, RebaselineBegins(h) \/ RebaselineBackup(h)
        PROVE  AlertsInv'
    BY <1>7, <1>n DEF RebaselineBegins, RebaselineBackup, Begin, Continue, CheckJob,
       BaselineNeverRewinds
  <1>8. ASSUME NEW h \in Handlers, NEW written \in BOOLEAN, RebaselineWrite(h, written)
        PROVE  AlertsInv'
    BY <1>8, <1>n DEF RebaselineWrite, Done, CheckJob, BaselineNeverRewinds, Idle
  <1>9. ASSUME NEW kind \in EventKinds, NEW source \in Sources, AuditEventRecorded(kind, source)
        PROVE  AlertsInv'
    BY <1>9 DEF AuditEventRecorded, CheckJob, BaselineNeverRewinds
  <1>10. ASSUME TableChanges
         PROVE  AlertsInv'
    <2>1. rows' \in Figures /\ rows'.count <= rows'.top
      BY <1>10 DEF TableChanges, Figures
    <2> QED BY <1>10, <2>1 DEF TableChanges, CheckJob, BaselineNeverRewinds
  <1>11. ASSUME AlertTimePasses
         PROVE  AlertsInv'
    BY <1>11 DEF AlertTimePasses, CheckJob, BaselineNeverRewinds
  <1>12. ASSUME UNCHANGED alertVars
         PROVE  AlertsInv'
    BY <1>12 DEF alertVars, CheckJob, BaselineNeverRewinds
  <1> QED BY <1>1, <1>2, <1>3, <1>4, <1>5, <1>6, <1>7, <1>8, <1>9, <1>10, <1>11, <1>12
             DEF AlertsNext

\* _database_integrity_alerts and rebaseline_database_integrity_state, for any number of
\* overlapping reports and rebaselines: the state file never sinks below the figures that the
\* reports under way set out from.
THEOREM AlertsBaseline == AlertsSpec => []BaselineNeverRewinds
  <1>1. AlertsInv => BaselineNeverRewinds
    BY DEF AlertsInv
  <1> QED BY AlertsBegin, AlertsStep, <1>1, PTL DEF AlertsSpec

-----------------------------------------------------------------------------

Keys == AlertTypes \X (Sources \cup {Global})

Rules == {<<"account_lock", "account_lock">>, <<"password_reset_failure_burst", "password_reset_failed">>,
          <<"transaction_failure_burst", "banking_outbound_transfer">>}

\* AlertsAttempted asks for an attempt on this alert about what happened last.
Calls(key, last) ==
  \E source \in Sources, rule \in Rules :
    /\ key = <<rule[1], source>> /\ last \in {e.at : e \in trail}
    /\ Warrants(rule[1], rule[2], source, last)

Attempted(key, last) == \E a \in attempts : a.key = key /\ last - a.at <= DedupeTtl

Announced(key, last) ==
  \/ Attempted(key, last)
  \/ \E h \in Handlers : job[h].op = "deliver" /\ key \in job[h].alerts

AttemptTypes ==
  /\ job = [h \in Handlers |-> job[h]]
  /\ time \in Nat /\ time <= MaxTime
  /\ IsFiniteSet(trail) /\ \A e \in trail : e.at \in Nat /\ e.at <= time
  /\ \A a \in attempts : a.at \in Nat /\ a.at <= time
  /\ marks \in [Keys -> Nat]
  /\ \A h \in Handlers : job[h].op \in {"rebaseline", "write"} => job[h].by = "operator"

\* The timer's latest report began at the latest multiple of the period, or is due.
ReportedOnTime ==
  /\ \/ time = 0 /\ reported = MaxTime + 1
     \/ /\ reported \in Nat /\ reported <= time
        /\ time % Period = 0 => reported = time \/ time = reported + Period
        /\ time % Period # 0 => time = reported + (time % Period)
  /\ By("timer") # {} => reported = time

\* A record says when its alert went out, or a handler is about to send it.
MarksKept ==
  \A k \in Keys :
    \/ marks[k] = 0
    \/ \E a \in attempts : a.key = k /\ marks[k] = a.at + DedupeTtl
    \/ marks[k] = time + DedupeTtl /\ \E h \in Handlers : job[h].op = "deliver" /\ k \in job[h].alerts

\* What the reports of this tick may leave to each other.
Owed(key, last) == Calls(key, last) /\ last < time /\ time <= last + Period

OwedAnnounced == \A key, last : Owed(key, last) => Announced(key, last)

\* A report that evaluated the events has every alert owed; when its records have
\* changed since it read them, or it is delivering, a commit has settled them all.
ReportsComplete ==
  \A h \in Handlers :
    /\ job[h].op = "dedupe" =>
         /\ job[h].seen \in [Keys -> Nat] /\ \A k \in Keys : job[h].seen[k] <= marks[k]
         /\ \A key, last : Owed(key, last) => key \in job[h].alerts
         /\ job[h].seen # marks => OwedAnnounced
    /\ job[h].op = "deliver" => OwedAnnounced

\* What happened before the timer's latest report is announced when that is over, and
\* was attempted a tick later; what happened a period earlier was when it began.
ReportsAnnounce ==
  \A key, last :
    Calls(key, last) /\ last < reported /\ reported <= time =>
      /\ By("timer") = {} => Announced(key, last)
      /\ reported < time \/ last + Period < reported => Attempted(key, last)

AttemptInv == AttemptTypes /\ ReportedOnTime /\ MarksKept /\ ReportsComplete /\ ReportsAnnounce

LEMMA CallsTyped ==
  ASSUME AttemptTypes, NEW key, NEW last, Calls(key, last)
  PROVE  last \in Nat /\ key \in Keys
  BY DEF AttemptTypes, Calls, Rules, Keys, AlertTypes, Window

LEMMA WindowTyped == \A alert \in AlertTypes : Window[alert] \in Nat
  BY AlertsAssumption DEF AlertTypes, Window

\* Within a period of the last event the alert is among those evaluated.
LEMMA OwedEvaluated ==
  ASSUME AttemptTypes, NEW key, NEW last, Owed(key, last)
  PROVE  key \in EvaluateSecurityAlerts
  <1>1. PICK source \in Sources, rule \in Rules :
          /\ key = <<rule[1], source>> /\ last \in {e.at : e \in trail}
          /\ Warrants(rule[1], rule[2], source, last)
    BY DEF Owed, Calls
  <1>2. last \in Nat /\ rule[1] \in AlertTypes /\ Window[rule[1]] \in Nat /\ Period \in Nat /\ BurstLimit[rule[1]] \in Nat
    BY <1>1, WindowTyped, AlertsAssumption DEF AttemptTypes, Rules, AlertTypes, Window
  <1> DEFINE S == {e \in OfKind(rule[1], rule[2]) : e.source = source}
  <1>3. PICK events \in SUBSET {e \in trail : e.kind = rule[2] /\ e.source = source /\ e.at <= last
                                        /\ last - e.at <= Window[rule[1]] - 2 * Period} :
           Cardinality(events) >= BurstLimit[rule[1]] /\ \E e \in events : e.at = last
    BY <1>1 DEF Warrants
  <1>4. events \subseteq S
    BY SMTT(30), <1>2, <1>3 DEF OfKind, Recent, AttemptTypes, Owed
  <1>5. IsFiniteSet(S) /\ Cardinality(S) >= BurstLimit[rule[1]] /\ S # {}
    <2>1. IsFiniteSet(S)
      BY FS_Subset DEF OfKind, Recent, AttemptTypes
    <2>2. Cardinality(events) \in Nat /\ Cardinality(S) \in Nat /\ Cardinality(events) <= Cardinality(S)
      BY <1>4, <2>1, FS_Subset, FS_CardinalityType
    <2> QED BY SMTT(30), <2>1, <2>2, <1>2, <1>3, <1>4
  <1> HIDE DEF S
  <1>6. ASSUME rule = <<"account_lock", "account_lock">> PROVE key \in ImmediateAlerts
    <2>1. PICK e \in OfKind("account_lock", "account_lock") : e.source = source
      BY <1>5, <1>6 DEF S
    <2> QED BY <1>1, <1>6, <2>1 DEF ImmediateAlerts
  <1>7. ASSUME rule = <<"password_reset_failure_burst", "password_reset_failed">> PROVE key \in PasswordResetAlerts
    <2>1. S = {e \in OfKind("password_reset_failure_burst", "password_reset_failed") : e.source = source}
      BY <1>7 DEF S
    <2> QED BY <1>1, <1>5, <1>7, <2>1, Zenon DEF PasswordResetAlerts, Burst
  <1>8. ASSUME rule = <<"transaction_failure_burst", "banking_outbound_transfer">>
        PROVE  key \in TransactionFailureAlerts
    <2>1. S = {e \in OfKind("transaction_failure_burst", "banking_outbound_transfer") : e.source = source}
      BY ZenonT(30), <1>8 DEF S
    <2> QED BY <1>1, <1>5, <1>8, <2>1, Zenon DEF TransactionFailureAlerts, Burst
  <1> QED BY <1>6, <1>7, <1>8 DEF Rules, EvaluateSecurityAlerts

LEMMA AttemptTypesStep ==
  ASSUME AttemptTypes, [AlertsNext]_alertVars
  PROVE  AttemptTypes'
  <1> USE AlertsAssumption DEF AttemptTypes
  <1>1. ASSUME NEW h \in Handlers, NEW by \in {"timer", "browser"}, ReportBegins(h, by)
        PROVE  AttemptTypes'
    BY <1>1 DEF ReportBegins, Begin, Free, Idle
  <1>2. ASSUME NEW h \in Handlers, LoadState(h) \/ DatabaseIntegrityAlerts(h)
        PROVE  AttemptTypes'
    BY <1>2 DEF LoadState, DatabaseIntegrityAlerts, Continue
  <1>3. ASSUME NEW h \in Handlers, ReadMarks(h)
        PROVE  AttemptTypes'
    BY <1>3 DEF ReadMarks, Idle
  <1>4. ASSUME NEW h \in Handlers, DedupeAlerts(h)
        PROVE  AttemptTypes'
    BY <1>4 DEF DedupeAlerts, Done, Idle, Keys
  <1>5. ASSUME NEW h \in Handlers, DeliverSecurityAlerts(h)
        PROVE  AttemptTypes'
    BY <1>5 DEF DeliverSecurityAlerts, Done, Idle
  <1>6. ASSUME NEW h \in Handlers, RebaselineBegins(h) \/ RebaselineBackup(h)
        PROVE  AttemptTypes'
    BY <1>6 DEF RebaselineBegins, RebaselineBackup, Begin, Continue, Free, Idle
  <1>7. ASSUME NEW h \in Handlers, NEW written \in BOOLEAN, RebaselineWrite(h, written)
        PROVE  AttemptTypes'
    BY <1>7 DEF RebaselineWrite, Done, Idle
  <1>8. ASSUME NEW kind \in EventKinds, NEW source \in Sources, AuditEventRecorded(kind, source)
        PROVE  AttemptTypes'
    <2> DEFINE e == [n |-> Cardinality(trail), kind |-> kind, source |-> source, at |-> time]
    <2>1. trail' = trail \cup {e} /\ e.at = time /\ UNCHANGED <<marks, time, attempts, job>>
      BY <1>8 DEF AuditEventRecorded
    <2> HIDE DEF e
    <2>2. IsFiniteSet(trail)'
      BY <2>1, FS_AddElement
    <2> QED BY <2>1, <2>2
  <1>9. ASSUME TableChanges
        PROVE  AttemptTypes'
    BY <1>9 DEF TableChanges
  <1>10. ASSUME AlertTimePasses
        PROVE  AttemptTypes'
    BY <1>10 DEF AlertTimePasses, Free, Idle
  <1>11. ASSUME UNCHANGED alertVars
        PROVE  AttemptTypes'
    BY <1>11 DEF alertVars
  <1> QED BY <1>1, <1>2, <1>3, <1>4, <1>5, <1>6, <1>7, <1>8, <1>9, <1>10, <1>11 DEF AlertsNext

LEMMA AnnouncedKept ==
  ASSUME AttemptTypes, [AlertsNext]_alertVars, NEW key, NEW last \in Nat, last < time, Announced(key, last)
  PROVE  Announced(key, last)'
  <1> USE AlertsAssumption DEF AttemptTypes, Announced, Attempted
  <1>1. ASSUME NEW h \in Handlers, NEW by \in {"timer", "browser"}, ReportBegins(h, by)
        PROVE  Announced(key, last)'
    BY <1>1 DEF ReportBegins, Begin, Free, Idle
  <1>2. ASSUME NEW h \in Handlers, LoadState(h) \/ DatabaseIntegrityAlerts(h)
        PROVE  Announced(key, last)'
    BY <1>2 DEF LoadState, DatabaseIntegrityAlerts, Continue
  <1>3. ASSUME NEW h \in Handlers, ReadMarks(h)
        PROVE  Announced(key, last)'
    BY <1>3 DEF ReadMarks, Idle
  <1>4. ASSUME NEW h \in Handlers, DedupeAlerts(h)
        PROVE  Announced(key, last)'
    BY <1>4 DEF DedupeAlerts, Done, Idle
  <1>5. ASSUME NEW h \in Handlers, DeliverSecurityAlerts(h)
        PROVE  Announced(key, last)'
    <2>1. CASE \E a \in attempts : a.key = key /\ last - a.at <= DedupeTtl
      BY <1>5, <2>1 DEF DeliverSecurityAlerts
    <2>2. CASE job[h].op = "deliver" /\ key \in job[h].alerts
      <3> DEFINE a == [key |-> key, at |-> time]
      <3>1. a \in attempts' /\ a.key = key /\ a.at = time
        BY <1>5, <2>2 DEF DeliverSecurityAlerts
      <3> HIDE DEF a
      <3>2. last - a.at <= DedupeTtl
        BY <3>1
      <3> QED BY <3>1, <3>2
    <2>3. CASE \E g \in Handlers \ {h} : job[g].op = "deliver" /\ key \in job[g].alerts
      BY <1>5, <2>3 DEF DeliverSecurityAlerts, Done, Idle
    <2> QED BY <2>1, <2>2, <2>3
  <1>6. ASSUME NEW h \in Handlers, RebaselineBegins(h) \/ RebaselineBackup(h)
        PROVE  Announced(key, last)'
    BY <1>6 DEF RebaselineBegins, RebaselineBackup, Begin, Continue, Free, Idle
  <1>7. ASSUME NEW h \in Handlers, NEW written \in BOOLEAN, RebaselineWrite(h, written)
        PROVE  Announced(key, last)'
    BY <1>7 DEF RebaselineWrite, Done, Idle
  <1>8. ASSUME NEW kind \in EventKinds, NEW source \in Sources, AuditEventRecorded(kind, source)
        PROVE  Announced(key, last)'
    BY <1>8 DEF AuditEventRecorded
  <1>9. ASSUME TableChanges
        PROVE  Announced(key, last)'
    BY <1>9 DEF TableChanges
  <1>10. ASSUME AlertTimePasses
        PROVE  Announced(key, last)'
    BY <1>10 DEF AlertTimePasses, Free, Idle
  <1>11. ASSUME UNCHANGED alertVars
        PROVE  Announced(key, last)'
    BY <1>11 DEF alertVars
  <1> QED BY <1>1, <1>2, <1>3, <1>4, <1>5, <1>6, <1>7, <1>8, <1>9, <1>10, <1>11 DEF AlertsNext

\* Later events do not change what was called for.
LEMMA CallsFixed ==
  ASSUME AttemptTypes, [AlertsNext]_alertVars, NEW key, NEW last, last < time, Calls(key, last)'
  PROVE  Calls(key, last)
  <1>1. CASE trail' = trail
    BY <1>1 DEF Calls, Warrants
  <1>2. ASSUME NEW kind \in EventKinds, NEW source \in Sources, AuditEventRecorded(kind, source)
        PROVE  Calls(key, last)
    <2> DEFINE e == [n |-> Cardinality(trail), kind |-> kind, source |-> source, at |-> time]
    <2>1. trail' = trail \cup {e} /\ e.at = time
      BY <1>2 DEF AuditEventRecorded
    <2> HIDE DEF e
    <2>2. last \in Nat
      BY AttemptTypesStep DEF AttemptTypes, Calls
    <2>3. \A e1 \in trail' : e1.at <= last => e1 \in trail
      BY <2>1, <2>2 DEF AttemptTypes
    <2> QED BY <2>1, <2>2, <2>3 DEF Calls, Warrants
  <1>3. trail' = trail \/ \E kind \in EventKinds, source \in Sources : AuditEventRecorded(kind, source)
    BY Zenon DEF AlertsNext, alertVars, ReportBegins, LoadState, DatabaseIntegrityAlerts, ReadMarks,
       DedupeAlerts, DeliverSecurityAlerts, RebaselineBegins, RebaselineBackup, RebaselineWrite,
       TableChanges, AlertTimePasses
  <1> QED BY <1>1, <1>2, <1>3

LEMMA NextMultiple ==
  ASSUME NEW n \in Nat, NEW p \in Nat, p > 0
  PROVE  /\ n % p \in 0..(p - 1)
         /\ (n + 1) % p = IF n % p = p - 1 THEN 0 ELSE (n % p) + 1
  <1> DEFINE q1 == n \div p
             q2 == (n + 1) \div p
             r1 == n % p
             r2 == (n + 1) % p
  <1>1. /\ q1 \in Nat /\ r1 \in Nat /\ r1 < p /\ n = p * q1 + r1
        /\ q2 \in Nat /\ r2 \in Nat /\ r2 < p /\ n + 1 = p * q2 + r2
    OBVIOUS
  <1> HIDE DEF q1, q2, r1, r2
  <1>2. p * q2 = p * q1 + p * (q2 - q1)
    BY <1>1
  <1>3. q2 - q1 >= 2 => p * (q2 - q1) >= 2 * p
    BY <1>1
  <1>4. q2 - q1 <= -1 => p * (q2 - q1) <= -p
    BY <1>1
  <1>5. q2 - q1 = 0 \/ q2 - q1 = 1
    BY <1>1, <1>2, <1>3, <1>4
  <1>6. r1 \in 0..(p - 1) /\ r2 = IF r1 = p - 1 THEN 0 ELSE r1 + 1
    BY SMTT(30), <1>1, <1>2, <1>5
  <1> QED BY <1>6 DEF r1, r2

LEMMA ReportedOnTimeStep ==
  ASSUME AttemptTypes, ReportedOnTime, [AlertsNext]_alertVars
  PROVE  ReportedOnTime'
  <1> USE AlertsAssumption DEF AttemptTypes, ReportedOnTime, By
  <1>1. ASSUME NEW h \in Handlers, NEW by \in {"timer", "browser"}, ReportBegins(h, by)
        PROVE  ReportedOnTime'
    BY <1>1 DEF ReportBegins, Begin, Free, Idle
  <1>2. ASSUME NEW h \in Handlers, LoadState(h) \/ DatabaseIntegrityAlerts(h)
        PROVE  ReportedOnTime'
    <2>1. /\ \A g \in Handlers \ {h} : job'[g] = job[g]
          /\ job'[h] = Idle \/ job'[h].by = "operator" \/ (job[h] # Idle /\ job'[h].by = job[h].by)
          /\ UNCHANGED <<time, reported>>
      BY <1>2 DEF LoadState, DatabaseIntegrityAlerts, Continue, Idle
    <2>2. By("timer")' \subseteq By("timer")
      BY <2>1
    <2> QED BY <2>1, <2>2
  <1>3. ASSUME NEW h \in Handlers, ReadMarks(h)
        PROVE  ReportedOnTime'
    BY <1>3 DEF ReadMarks, Idle
  <1>4. ASSUME NEW h \in Handlers, DedupeAlerts(h)
        PROVE  ReportedOnTime'
    <2>1. /\ \A g \in Handlers \ {h} : job'[g] = job[g]
          /\ job'[h] = Idle \/ job'[h].by = "operator" \/ (job[h] # Idle /\ job'[h].by = job[h].by)
          /\ UNCHANGED <<time, reported>>
      BY <1>4 DEF DedupeAlerts, Done, Idle
    <2>2. By("timer")' \subseteq By("timer")
      BY <2>1
    <2> QED BY <2>1, <2>2
  <1>5. ASSUME NEW h \in Handlers, DeliverSecurityAlerts(h)
        PROVE  ReportedOnTime'
    BY <1>5 DEF DeliverSecurityAlerts, Done, Idle
  <1>6. ASSUME NEW h \in Handlers, RebaselineBegins(h) \/ RebaselineBackup(h)
        PROVE  ReportedOnTime'
    <2>1. /\ \A g \in Handlers \ {h} : job'[g] = job[g]
          /\ job'[h] = Idle \/ job'[h].by = "operator" \/ (job[h] # Idle /\ job'[h].by = job[h].by)
          /\ UNCHANGED <<time, reported>>
      BY <1>6 DEF RebaselineBegins, RebaselineBackup, Begin, Continue, Free, Idle
    <2>2. By("timer")' \subseteq By("timer")
      BY <2>1
    <2> QED BY <2>1, <2>2
  <1>7. ASSUME NEW h \in Handlers, NEW written \in BOOLEAN, RebaselineWrite(h, written)
        PROVE  ReportedOnTime'
    BY <1>7 DEF RebaselineWrite, Done, Idle
  <1>8. ASSUME NEW kind \in EventKinds, NEW source \in Sources, AuditEventRecorded(kind, source)
        PROVE  ReportedOnTime'
    BY <1>8 DEF AuditEventRecorded
  <1>9. ASSUME TableChanges
        PROVE  ReportedOnTime'
    BY <1>9 DEF TableChanges
  <1>10. ASSUME AlertTimePasses
        PROVE  ReportedOnTime'
    <2>1. By("timer")' = {} /\ reported' = reported /\ time' = time + 1 /\ time < MaxTime
      BY <1>10 DEF AlertTimePasses, Free
    <2>2. reported # MaxTime + 1 /\ reported \in Nat /\ reported <= time /\ time = reported + (time % Period)
      BY <1>10, NextMultiple DEF AlertTimePasses
    <2>3. /\ time % Period \in 0..(Period - 1)
          /\ (time + 1) % Period = IF time % Period = Period - 1 THEN 0 ELSE (time % Period) + 1
      BY ZenonT(30), NextMultiple
    <2>4. PICK r1, r2 : r1 = time % Period /\ r2 = time' % Period
      OBVIOUS
    <2>5. r1 \in 0..(Period - 1) /\ r2 = IF r1 = Period - 1 THEN 0 ELSE r1 + 1
      BY <2>1, <2>3, <2>4
    <2> HIDE DEF By, ReportedOnTime, AttemptTypes
    <2>6. /\ reported' \in Nat /\ reported' <= time'
          /\ r2 = 0 => reported' = time' \/ time' = reported' + Period
          /\ r2 # 0 => time' = reported' + r2
      <3>1. reported \in Nat /\ reported' = reported /\ time = reported + r1 /\ time' = reported + r1 + 1
        BY <2>1, <2>2, <2>4
      <3>2. Period \in Nat \ {0}
        OBVIOUS
      <3> HIDE AlertsAssumption
      <3> QED BY <2>5, <3>1, <3>2
    <2> QED BY <2>1, <2>4, <2>6, Zenon DEF ReportedOnTime
  <1>11. ASSUME UNCHANGED alertVars
        PROVE  ReportedOnTime'
    BY ZenonT(30), <1>11 DEF alertVars
  <1> QED BY <1>1, <1>2, <1>3, <1>4, <1>5, <1>6, <1>7, <1>8, <1>9, <1>10, <1>11 DEF AlertsNext

LEMMA MarksKeptStep ==
  ASSUME AttemptTypes, MarksKept, [AlertsNext]_alertVars
  PROVE  MarksKept'
  <1> USE AlertsAssumption DEF AttemptTypes, MarksKept
  <1>1. ASSUME NEW h \in Handlers, NEW by \in {"timer", "browser"}, ReportBegins(h, by)
        PROVE  MarksKept'
    <2>1. /\ \A g \in Handlers : job[g].op = "deliver" => job'[g] = job[g]
          /\ UNCHANGED <<marks, time, attempts>>
      BY <1>1 DEF ReportBegins, Begin, Free, Idle
    <2> QED BY <2>1
  <1>2. ASSUME NEW h \in Handlers, LoadState(h) \/ DatabaseIntegrityAlerts(h)
        PROVE  MarksKept'
    BY <1>2 DEF LoadState, DatabaseIntegrityAlerts, Continue
  <1>3. ASSUME NEW h \in Handlers, ReadMarks(h)
        PROVE  MarksKept'
    BY Zenon, <1>3 DEF ReadMarks, Idle
  <1>4. ASSUME NEW h \in Handlers, DedupeAlerts(h)
        PROVE  MarksKept'
    BY <1>4 DEF DedupeAlerts, Done, Idle
  <1>5. ASSUME NEW h \in Handlers, DeliverSecurityAlerts(h)
        PROVE  MarksKept'
    <2>1. /\ \A g \in Handlers \ {h} : job'[g] = job[g]
          /\ UNCHANGED <<marks, time>> /\ attempts \subseteq attempts'
          /\ \A k \in job[h].alerts : [key |-> k, at |-> time] \in attempts'
      BY <1>5 DEF DeliverSecurityAlerts, Done
    <2>2. \A k \in job[h].alerts : \E a \in attempts' : a.key = k /\ a.at = time
      BY Zenon, <2>1
    <2> QED BY <2>1, <2>2
  <1>6. ASSUME NEW h \in Handlers, RebaselineBegins(h) \/ RebaselineBackup(h)
        PROVE  MarksKept'
    BY <1>6 DEF RebaselineBegins, RebaselineBackup, Begin, Continue, Free, Idle
  <1>7. ASSUME NEW h \in Handlers, NEW written \in BOOLEAN, RebaselineWrite(h, written)
        PROVE  MarksKept'
    BY Zenon, <1>7 DEF RebaselineWrite, Done, Idle
  <1>8. ASSUME NEW kind \in EventKinds, NEW source \in Sources, AuditEventRecorded(kind, source)
        PROVE  MarksKept'
    BY <1>8 DEF AuditEventRecorded
  <1>9. ASSUME TableChanges
        PROVE  MarksKept'
    BY <1>9 DEF TableChanges
  <1>10. ASSUME AlertTimePasses
        PROVE  MarksKept'
    BY <1>10 DEF AlertTimePasses, Free, Idle
  <1>11. ASSUME UNCHANGED alertVars
        PROVE  MarksKept'
    BY <1>11 DEF alertVars
  <1> QED BY <1>1, <1>2, <1>3, <1>4, <1>5, <1>6, <1>7, <1>8, <1>9, <1>10, <1>11 DEF AlertsNext

LEMMA AttemptedKept ==
  ASSUME [AlertsNext]_alertVars, NEW key, NEW last, Attempted(key, last)
  PROVE  Attempted(key, last)'
  <1>1. attempts \subseteq attempts'
    BY Zenon DEF AlertsNext, alertVars, ReportBegins, LoadState, DatabaseIntegrityAlerts, ReadMarks,
       DedupeAlerts, DeliverSecurityAlerts, RebaselineBegins, RebaselineBackup, RebaselineWrite,
       AuditEventRecorded, TableChanges, AlertTimePasses
  <1> QED BY <1>1 DEF Attempted

LEMMA OwedKept ==
  ASSUME AttemptTypes, [AlertsNext]_alertVars, time' = time, NEW key, NEW last, Owed(key, last)'
  PROVE  Owed(key, last)
  BY CallsFixed DEF Owed

LEMMA OwedAnnouncedKept ==
  ASSUME AttemptTypes, [AlertsNext]_alertVars, time' = time, OwedAnnounced
  PROVE  OwedAnnounced'
  BY OwedKept, AnnouncedKept, CallsTyped DEF OwedAnnounced, Owed

\* Whoever commits the dedupe records, everything owed at this tick is settled.
LEMMA CommitSettles ==
  ASSUME AttemptInv, NEW h \in Handlers, DedupeAlerts(h)
  PROVE  OwedAnnounced'
  <1> USE DEF AttemptInv
  <1>1. [AlertsNext]_alertVars
    BY DEF AlertsNext
  <1>2. time' = time /\ job[h].op = "dedupe"
    BY DEF DedupeAlerts
  <1>3. CASE job[h].seen # marks
    BY <1>1, <1>2, <1>3, OwedAnnouncedKept DEF ReportsComplete
  <1>4. CASE job[h].seen = marks
    <2> SUFFICES ASSUME NEW key, NEW last, Owed(key, last)'
                 PROVE  Announced(key, last)'
      BY ZenonT(30) DEF OwedAnnounced
    <2>1. Owed(key, last) /\ last \in Nat /\ key \in Keys /\ key \in job[h].alerts /\ last < time
      BY <1>1, <1>2, OwedKept, CallsTyped DEF Owed, ReportsComplete
    <2>2. CASE marks[key] <= time
      <3> DEFINE due == {k \in job[h].alerts : job[h].seen[k] <= time}
      <3>1. key \in due
        BY <1>4, <2>1, <2>2
      <3>2. ~ \E k \in due : job[h].seen[k] = 0 /\ marks[k] # 0
        BY <1>4
      <3>3. job' = [job EXCEPT ![h] = [op |-> "deliver", by |-> job[h].by, alerts |-> due]]
        BY ZenonT(30), <3>1, <3>2 DEF DedupeAlerts
      <3> HIDE DEF due
      <3> QED BY <3>1, <3>3 DEF AttemptTypes, Announced
    <2>3. CASE marks[key] > time
      <3>1. Announced(key, last)
        BY <2>1, <2>3, AlertsAssumption DEF MarksKept, Announced, Attempted, AttemptTypes
      <3> QED BY <1>1, <2>1, <3>1, AnnouncedKept
    <2> QED BY <2>1, <2>2, <2>3 DEF AttemptTypes
  <1> QED BY <1>3, <1>4

\* A step that reads and commits no record.
LEMMA CompleteKept ==
  ASSUME AttemptInv, [AlertsNext]_alertVars, UNCHANGED <<time, marks>>,
         \A h \in Handlers : job'[h].op \in {"dedupe", "deliver"} => job'[h] = job[h]
  PROVE  ReportsComplete'
  BY Zenon, OwedKept, OwedAnnouncedKept DEF AttemptInv, ReportsComplete

LEMMA ReportsCompleteStep ==
  ASSUME AttemptInv, [AlertsNext]_alertVars
  PROVE  ReportsComplete'
  <1>t. AttemptTypes
    BY DEF AttemptInv
  <1>1. ASSUME NEW h \in Handlers, ReadMarks(h)
        PROVE  ReportsComplete'
    <2>1. UNCHANGED <<time, marks, trail>>
      BY <1>1 DEF ReadMarks
    <2>2. CASE EvaluateSecurityAlerts = {}
      BY ZenonT(30), <1>1, <1>t, <2>1, <2>2, CompleteKept DEF ReadMarks, AttemptTypes, Idle
    <2>3. CASE EvaluateSecurityAlerts # {}
      <3> DEFINE j == [op |-> "dedupe", by |-> job[h].by, alerts |-> EvaluateSecurityAlerts, seen |-> marks]
      <3>1. job' = [job EXCEPT ![h] = j]
        BY Zenon, <1>1, <2>3 DEF ReadMarks
      <3>2. j.op = "dedupe" /\ j.alerts = EvaluateSecurityAlerts /\ j.seen = marks
        OBVIOUS
      <3> HIDE DEF j
      <3>3. ASSUME NEW g \in Handlers, g # h
            PROVE  job'[g] = job[g]
        BY <1>t, <3>1, <3>3 DEF AttemptTypes
      <3>4. job'[h] = j
        BY <1>t, <3>1 DEF AttemptTypes
      <3>5. \A key, last : Owed(key, last)' => key \in EvaluateSecurityAlerts
        BY <1>t, <2>1, OwedKept, OwedEvaluated
      <3>6. OwedAnnounced => OwedAnnounced'
        BY <1>t, <2>1, OwedAnnouncedKept
      <3>7. \A key, last : Owed(key, last)' => Owed(key, last)
        BY <1>t, <2>1, OwedKept
      <3>8. marks \in [Keys -> Nat] /\ \A k \in Keys : marks[k] <= marks[k]
        BY <1>t DEF AttemptTypes
      <3> QED BY ZenonT(30), <2>1, <3>2, <3>3, <3>4, <3>5, <3>6, <3>7, <3>8 DEF AttemptInv, ReportsComplete
    <2> QED BY <2>2, <2>3
  <1>2. ASSUME NEW h \in Handlers, DedupeAlerts(h)
        PROVE  ReportsComplete'
    <2>1. OwedAnnounced' /\ time' = time
      BY <1>2, CommitSettles DEF DedupeAlerts
    <2>2. \A g \in Handlers : job'[g].op = "dedupe" => job'[g] = job[g]
      BY <1>2, <1>t DEF DedupeAlerts, Done, Idle, AttemptTypes
    <2>3. \A k \in Keys : marks[k] <= time + DedupeTtl
      BY AlertsAssumption DEF AttemptInv, AttemptTypes, MarksKept
    <2>4. \A k \in Keys : marks'[k] \in Nat /\ marks[k] <= marks'[k]
      BY <1>2, <1>t, <2>3, AlertsAssumption DEF DedupeAlerts, AttemptTypes
    <2>5. \A key, last : Owed(key, last)' => Owed(key, last)
      BY <1>t, <2>1, OwedKept
    <2>6. \A g \in Handlers : job[g].op = "dedupe" => \A k \in Keys : job[g].seen[k] <= marks'[k]
      BY <1>t, <2>4 DEF AttemptInv, ReportsComplete, AttemptTypes
    <2> QED BY <2>1, <2>2, <2>5, <2>6 DEF AttemptInv, ReportsComplete
  <1>3. ASSUME AlertTimePasses
        PROVE  ReportsComplete'
    BY <1>3 DEF AlertTimePasses, Free, Idle, ReportsComplete
  <1>4. ASSUME NEW h \in Handlers, NEW by \in {"timer", "browser"}, NEW written \in BOOLEAN,
               \/ ReportBegins(h, by) \/ LoadState(h) \/ DatabaseIntegrityAlerts(h) \/ DeliverSecurityAlerts(h)
               \/ RebaselineBegins(h) \/ RebaselineBackup(h) \/ RebaselineWrite(h, written)
        PROVE  ReportsComplete'
    <2>1. /\ UNCHANGED <<time, marks>>
          /\ \A g \in Handlers : job'[g].op \in {"dedupe", "deliver"} => job'[g] = job[g]
      BY SMTT(30), <1>4, <1>t DEF ReportBegins, LoadState, DatabaseIntegrityAlerts,
         DeliverSecurityAlerts, RebaselineBegins, RebaselineBackup, RebaselineWrite, Begin,
         Continue, Done, Idle, AttemptTypes
    <2> QED BY ZenonT(30), <2>1, CompleteKept
  <1>5. ASSUME \/ \E kind \in EventKinds, source \in Sources : AuditEventRecorded(kind, source)
               \/ TableChanges \/ UNCHANGED alertVars
        PROVE  ReportsComplete'
    BY <1>5, CompleteKept DEF AuditEventRecorded, TableChanges, alertVars
  <1> QED BY ZenonT(30), <1>1, <1>2, <1>3, <1>4, <1>5 DEF AlertsNext

\* Within a tick, unless the timer's report ends, or when it ends with all settled.
LEMMA AnnounceKept ==
  ASSUME AttemptInv, [AlertsNext]_alertVars, UNCHANGED <<time, reported>>,
         By("timer") = {} \/ By("timer")' # {} \/ OwedAnnounced'
  PROVE  ReportsAnnounce'
  <1> USE DEF AttemptInv
  <1> SUFFICES ASSUME NEW key, NEW last, Calls(key, last)', last < reported, reported <= time
               PROVE  /\ By("timer")' = {} => Announced(key, last)'
                      /\ reported < time \/ last + Period < reported => Attempted(key, last)'
    BY DEF ReportsAnnounce
  <1>1. last \in Nat /\ reported \in Nat /\ time \in Nat /\ Period \in Nat
    <2>1. AttemptTypes'
      BY AttemptTypesStep
    <2> QED BY <2>1, AlertsAssumption DEF AttemptTypes, Calls, ReportedOnTime
  <1>2. last < time /\ Calls(key, last)
    BY <1>1, CallsFixed
  <1>3. reported < time \/ last + Period < reported => Attempted(key, last)'
    BY <1>2, AttemptedKept DEF ReportsAnnounce
  <1>4. By("timer") = {} => Announced(key, last)'
    BY <1>1, <1>2, AnnouncedKept DEF ReportsAnnounce
  <1>5. ASSUME By("timer") # {}, By("timer")' = {}
        PROVE  Announced(key, last)'
    <2>1. reported = time /\ OwedAnnounced'
      BY <1>5 DEF ReportedOnTime
    <2>2. CASE last + Period < reported
      BY <1>3, <2>2 DEF Announced
    <2>3. CASE time <= last + Period
      BY <1>2, <2>1, <2>3 DEF OwedAnnounced, Owed
    <2> QED BY <1>1, <2>1, <2>2, <2>3
  <1> QED BY <1>3, <1>4, <1>5

LEMMA ReportsAnnounceStep ==
  ASSUME AttemptInv, [AlertsNext]_alertVars
  PROVE  ReportsAnnounce'
  <1>t. AttemptTypes
    BY DEF AttemptInv
  <1>1. ASSUME NEW h \in Handlers, ReportBegins(h, "timer")
        PROVE  ReportsAnnounce'
    <2>1. reported' = time /\ time' = time /\ By("timer")' # {} /\ time % Period = 0 /\ reported # time
      BY <1>1, <1>t DEF ReportBegins, Begin, By, AttemptTypes, Idle
    <2> SUFFICES ASSUME NEW key, NEW last, Calls(key, last)', last < time, last + Period < time
                 PROVE  Attempted(key, last)'
      BY <1>t, <2>1 DEF ReportsAnnounce, AttemptTypes
    <2>2. last \in Nat
      <3>1. AttemptTypes'
        BY <1>t, AttemptTypesStep
      <3> QED BY <3>1 DEF AttemptTypes, Calls
    <2>3. Calls(key, last) /\ last < reported /\ reported < time /\ reported <= time
      BY <1>t, <2>1, <2>2, CallsFixed, AlertsAssumption DEF AttemptInv, ReportedOnTime, AttemptTypes
    <2> QED BY <2>3, AttemptedKept DEF AttemptInv, ReportsAnnounce
  <1>2. ASSUME AlertTimePasses
        PROVE  ReportsAnnounce'
    <2>1. /\ reported' = reported /\ time' = time + 1 /\ By("timer") = {} /\ reported <= time /\ reported \in Nat
          /\ \A h \in Handlers : job[h].op # "deliver"
      BY SMTT(30), <1>2, <1>t, AlertsAssumption DEF AlertTimePasses, Free, Idle, By, AttemptInv,
         ReportedOnTime, AttemptTypes
    <2> SUFFICES ASSUME NEW key, NEW last, Calls(key, last)', last < reported
                 PROVE  Attempted(key, last)'
      BY <2>1 DEF ReportsAnnounce, Announced
    <2>2. last \in Nat
      <3>1. AttemptTypes'
        BY <1>t, AttemptTypesStep
      <3> QED BY <3>1 DEF AttemptTypes, Calls
    <2>3. Calls(key, last)
      BY <1>t, <2>1, <2>2, CallsFixed DEF AttemptTypes
    <2>4. Attempted(key, last)
      BY <2>1, <2>3 DEF AttemptInv, ReportsAnnounce, Announced
    <2> QED BY <2>4, AttemptedKept
  <1>3. ASSUME NEW h \in Handlers, DedupeAlerts(h)
        PROVE  ReportsAnnounce'
    BY <1>3, CommitSettles, AnnounceKept DEF DedupeAlerts
  <1>4. ASSUME NEW h \in Handlers, DeliverSecurityAlerts(h)
        PROVE  ReportsAnnounce'
    <2>1. OwedAnnounced' /\ UNCHANGED <<time, reported>>
      BY <1>4, <1>t, OwedAnnouncedKept DEF DeliverSecurityAlerts, AttemptInv, ReportsComplete
    <2> QED BY ZenonT(30), <2>1, AnnounceKept
  <1>5. ASSUME NEW h \in Handlers, ReadMarks(h)
        PROVE  ReportsAnnounce'
    <2>1. UNCHANGED <<time, reported>>
      BY <1>5 DEF ReadMarks
    <2>2. CASE EvaluateSecurityAlerts = {}
      <3>1. OwedAnnounced'
        BY <1>t, <2>1, <2>2, OwedKept, OwedEvaluated DEF OwedAnnounced
      <3> QED BY <2>1, <3>1, AnnounceKept
    <2>3. CASE EvaluateSecurityAlerts # {}
      <3> DEFINE j == [op |-> "dedupe", by |-> job[h].by, alerts |-> EvaluateSecurityAlerts, seen |-> marks]
      <3>1. job' = [job EXCEPT ![h] = j]
        BY ZenonT(30), <1>5, <2>3 DEF ReadMarks
      <3>2. j.by = job[h].by /\ j # Idle
        BY DEF Idle
      <3> HIDE DEF j
      <3>3. By("timer") = {} \/ By("timer")' # {}
        BY <1>t, <3>1, <3>2 DEF By, AttemptTypes
      <3> QED BY <2>1, <3>3, AnnounceKept
    <2> QED BY <2>2, <2>3
  <1>6. ASSUME NEW h \in Handlers, NEW written \in BOOLEAN,
               \/ ReportBegins(h, "browser") \/ LoadState(h) \/ DatabaseIntegrityAlerts(h)
               \/ RebaselineBegins(h) \/ RebaselineBackup(h) \/ RebaselineWrite(h, written)
        PROVE  ReportsAnnounce'
    <2>1. /\ UNCHANGED <<time, reported>> /\ \A g \in Handlers \ {h} : job'[g] = job[g]
          /\ job[h] = Idle \/ job[h].by = "operator" \/ (job'[h] # Idle /\ job'[h].by = job[h].by)
      BY SMTT(30), <1>6, <1>t DEF ReportBegins, LoadState, DatabaseIntegrityAlerts,
         RebaselineBegins, RebaselineBackup, RebaselineWrite, Begin, Free, Continue, Done, Idle,
         AttemptTypes
    <2>2. By("timer") = {} \/ By("timer")' # {}
      BY <2>1 DEF By
    <2> QED BY ZenonT(30), <2>1, <2>2, AnnounceKept
  <1>7. ASSUME \/ \E kind \in EventKinds, source \in Sources : AuditEventRecorded(kind, source)
               \/ TableChanges \/ UNCHANGED alertVars
        PROVE  ReportsAnnounce'
    BY <1>7, AnnounceKept DEF AuditEventRecorded, TableChanges, alertVars, By
  <1> QED BY Zenon, <1>1, <1>2, <1>3, <1>4, <1>5, <1>6, <1>7 DEF AlertsNext

LEMMA AttemptBegin == AlertsInit => AttemptInv
  <1> SUFFICES ASSUME AlertsInit PROVE AttemptInv
    OBVIOUS
  <1>1. \A key, last : ~Calls(key, last)
    BY DEF AlertsInit, Calls
  <1>2. AttemptTypes
    BY SMTT(30), AlertsAssumption, FS_EmptySet DEF AlertsInit, AttemptTypes, Keys, Idle
  <1>3. ReportedOnTime /\ MarksKept /\ ReportsComplete
    BY DEF AlertsInit, ReportedOnTime, MarksKept, ReportsComplete, By, Idle, Keys
  <1> QED BY <1>1, <1>2, <1>3 DEF AttemptInv, ReportsAnnounce

\* build_security_alert_report and deliver_security_alerts, for any sources, windows, limits
\* and overlapping runs: what fills an alert's window, less two periods, has had a delivery
\* attempted close to it once two more periods have passed.
THEOREM AlertsDelivered == AlertsSpec => []AlertsAttempted
  <1>1. ASSUME AttemptInv, [AlertsNext]_alertVars
        PROVE  AttemptInv'
    BY ZenonT(30), <1>1, AttemptTypesStep, ReportedOnTimeStep, MarksKeptStep, ReportsCompleteStep,
       ReportsAnnounceStep DEF AttemptInv
  <1>2. ASSUME AttemptInv
        PROVE  AlertsAttempted
    <2> SUFFICES ASSUME NEW source \in Sources, NEW rule \in Rules, NEW last \in {e.at : e \in trail},
                        last + 2 * Period < time, Warrants(rule[1], rule[2], source, last)
                 PROVE  \E a \in attempts : a.key = <<rule[1], source>> /\ last - a.at <= DedupeTtl
      BY ZenonT(30) DEF AlertsAttempted, Rules
    <2>1. Calls(<<rule[1], source>>, last) /\ last \in Nat /\ time \in Nat /\ Period \in Nat /\ Period > 0
      BY <1>2, AlertsAssumption DEF Calls, AttemptInv, AttemptTypes
    <2>2. last < reported /\ reported <= time /\ (reported < time \/ last + Period < reported)
      <3>1. time % Period \in Nat /\ time % Period < Period
        BY <2>1, NextMultiple
      <3>2. ReportedOnTime
        BY Zenon, <1>2 DEF AttemptInv
      <3> HIDE DEF AttemptInv, Rules
      <3> QED BY SMTT(30), <2>1, <3>1, <3>2 DEF ReportedOnTime
    <2> QED BY <1>2, <2>1, <2>2 DEF AttemptInv, ReportsAnnounce, Attempted
  <1> QED BY AttemptBegin, <1>1, <1>2, PTL DEF AlertsSpec

-----------------------------------------------------------------------------
(* Known devices.                                                          *)

\* A browser, or a response on its way to one, has the token.
Carried(t) ==
  \/ \E b \in Browsers : cookie[b] = t /\ t # None
  \/ \E h \in Handlers : job[h].op = "cookie" /\ job[h].token = t

\* Whatever is carried and has a row was told of; a row whose notice is still to be
\* sent is carried by no one.
DevicesInv ==
  /\ DevicesTypeOK
  /\ \A t \in DeviceTokens : Carried(t) /\ devices[t] # 0 => t \in told \cup unforgotten

LEMMA DevicesBegin == DevicesInit => DevicesInv
  <1> SUFFICES ASSUME DevicesInit PROVE DevicesInv
    OBVIOUS
  <1>1. DevicesTypeOK
    <2>1. 0 \in Nat
      OBVIOUS
    <2> QED BY Zenon, <2>1 DEF DevicesInit, DevicesTypeOK, DeviceJob
  <1>2. \A t \in DeviceTokens : devices[t] = 0
    BY Zenon DEF DevicesInit
  <1> QED BY Zenon, <1>1, <1>2 DEF DevicesInv

\* A step of a handler that takes no token from a row nobody was told of.
LEMMA DevicesStep ==
  ASSUME DevicesInv, [DevicesNext]_deviceVars
  PROVE  DevicesInv'
  <1> USE DevicesAssumption DEF DevicesInv
  <1>t. DevicesTypeOK'
    <2>1. ASSUME NEW h \in Handlers, NEW b \in Browsers, CheckKnownDevice(h, b)
          PROVE  DevicesTypeOK'
      BY <2>1 DEF CheckKnownDevice, Recognised, Begin, DevicesTypeOK, DeviceJob
    <2>2. ASSUME NEW h \in Handlers, NEW b \in Browsers, NEW t \in DeviceTokens,
                 RegisterDevice(h, b, t) \/ DeviceCheckFails(h, b, t)
          PROVE  DevicesTypeOK'
      BY <2>2 DEF RegisterDevice, DeviceCheckFails, Begin, DevicesTypeOK, DeviceJob
    <2>3. ASSUME NEW h \in Handlers,
                 \/ NoticeQueued(h) \/ NoticeFails(h) \/ ForgetKnownDeviceToken(h) \/ ForgettingFails(h)
                 \/ ApplyDeviceCookie(h) \/ ResponseLost(h)
          PROVE  DevicesTypeOK'
      BY <2>3 DEF NoticeQueued, NoticeFails, ForgetKnownDeviceToken, ForgettingFails,
         ApplyDeviceCookie, ResponseLost, Continue, Done, DevicesTypeOK, DeviceJob, Idle
    <2>4. ASSUME (\E b \in Browsers : CookieCleared(b)) \/ CleanupDevices \/ DeviceTimePasses \/ UNCHANGED deviceVars
          PROVE  DevicesTypeOK'
      BY <2>4 DEF CookieCleared, CleanupDevices, DeviceTimePasses, deviceVars, DevicesTypeOK
    <2> QED BY <2>1, <2>2, <2>3, <2>4 DEF DevicesNext
  <1> SUFFICES ASSUME NEW t \in DeviceTokens, Carried(t)', devices'[t] # 0
               PROVE  t \in told' \cup unforgotten'
    BY <1>t
  <1> USE DEF DevicesTypeOK, DeviceJob
  <1>1. ASSUME NEW h \in Handlers, NEW b \in Browsers, CheckKnownDevice(h, b)
        PROVE  t \in told' \cup unforgotten'
    BY <1>1 DEF CheckKnownDevice, Recognised, Live, Begin, Carried
  <1>2. ASSUME NEW h \in Handlers, NEW b \in Browsers, NEW u \in DeviceTokens,
               RegisterDevice(h, b, u) \/ DeviceCheckFails(h, b, u)
        PROVE  t \in told' \cup unforgotten'
    BY <1>2 DEF RegisterDevice, DeviceCheckFails, FreshToken, Begin, Carried
  <1>3. ASSUME NEW h \in Handlers,
               \/ NoticeQueued(h) \/ NoticeFails(h) \/ ForgetKnownDeviceToken(h) \/ ForgettingFails(h)
               \/ ApplyDeviceCookie(h) \/ ResponseLost(h)
        PROVE  t \in told' \cup unforgotten'
    BY <1>3 DEF NoticeQueued, NoticeFails, ForgetKnownDeviceToken, ForgettingFails,
       ApplyDeviceCookie, ResponseLost, Continue, Done, Carried, Idle
  <1>4. ASSUME (\E b \in Browsers : CookieCleared(b)) \/ CleanupDevices \/ DeviceTimePasses \/ UNCHANGED deviceVars
        PROVE  t \in told' \cup unforgotten'
    BY <1>4 DEF CookieCleared, CleanupDevices, DeviceTimePasses, deviceVars, Carried, Live
  <1> QED BY <1>1, <1>2, <1>3, <1>4 DEF DevicesNext

\* check_and_register_device and handle_new_device_login, for any browsers, tokens, handlers
\* and ages: a browser is recognised only by a token whose notice was queued, unless both the
\* notice and forget_known_device_token failed.
THEOREM DevicesKnown == DevicesSpec => []KnownMeansTold
  <1>1. DevicesInit => DevicesInv
    BY DevicesBegin
  <1>2. DevicesInv /\ [DevicesNext]_deviceVars => DevicesInv'
    BY DevicesStep
  <1>3. DevicesInv => KnownMeansTold
    BY DEF DevicesInv, DevicesTypeOK, Carried, KnownMeansTold, Recognised, Live
  <1> QED BY <1>1, <1>2, <1>3, PTL DEF DevicesSpec
=============================================================================
