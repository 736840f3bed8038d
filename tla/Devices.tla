------------------------------ MODULE Devices ------------------------------
(* New-device notices at customer sign-in (security/device_recognition.py): a  *)
(* browser whose device cookie matches a live row is known; any other gets a   *)
(* row of its own, a mandatory e-mail and the row's token as cookie.  The row  *)
(* is committed before the e-mail is attempted, and taken back when it fails.  *)
EXTENDS Naturals, Workers
CONSTANTS Browsers, DeviceTokens, DeviceAge, MaxDay
VARIABLES devices,     \* KnownDevice rows of the customer: token -> expiry, or 0
          cookie,      \* the device cookie of each browser
          told,        \* the tokens whose e-mail was queued
          unforgotten, \* the tokens whose row could not be taken back
          day          \* the clock

deviceVars == <<devices, cookie, told, unforgotten, day, job>>

ASSUME DevicesAssumption == DeviceAge \in Nat \ {0} /\ MaxDay \in Nat

DevicesInit ==
  /\ devices = [t \in DeviceTokens |-> 0]
  /\ cookie = [b \in Browsers |-> None]
  /\ told = {} /\ unforgotten = {} /\ day = 0
  /\ job = [h \in Handlers |-> Idle]

Live(t) == devices[t] > day
Recognised(b) == cookie[b] # None /\ Live(cookie[b])

\* A token is random: no row, browser or response has it.
FreshToken(t) ==
  /\ devices[t] = 0
  /\ \A b \in Browsers : cookie[b] # t
  /\ \A h \in Handlers : job[h].op \in {"mail", "forget", "cookie"} => job[h].token # t

CheckKnownDevice(h, b) ==
  /\ Recognised(b)
  /\ devices' = [devices EXCEPT ![cookie[b]] = day + DeviceAge]
  /\ Begin(h, [op |-> "cookie", browser |-> b, token |-> cookie[b]])
  /\ UNCHANGED <<cookie, told, unforgotten, day>>

RegisterDevice(h, b, t) ==
  /\ ~Recognised(b) /\ FreshToken(t)
  /\ devices' = [devices EXCEPT ![t] = day + DeviceAge]
  /\ Begin(h, [op |-> "mail", browser |-> b, token |-> t])
  /\ UNCHANGED <<cookie, told, unforgotten, day>>

\* The check failed on the database: the browser gets a token that no row has.
DeviceCheckFails(h, b, t) ==
  /\ FreshToken(t)
  /\ Begin(h, [op |-> "cookie", browser |-> b, token |-> t])
  /\ UNCHANGED <<devices, cookie, told, unforgotten, day>>

NoticeQueued(h) ==
  /\ job[h].op = "mail"
  /\ told' = told \cup {job[h].token}
  /\ Continue(h, [job[h] EXCEPT !.op = "cookie"])
  /\ UNCHANGED <<devices, cookie, unforgotten, day>>

\* Mutant: a notice that could not be sent leaves the device known.
NoticeDropped(h) ==
  /\ job[h].op = "mail"
  /\ Continue(h, [job[h] EXCEPT !.op = "cookie"])
  /\ UNCHANGED <<devices, cookie, told, unforgotten, day>>

NoticeFails(h) ==
  /\ job[h].op = "mail"
  /\ Continue(h, [job[h] EXCEPT !.op = "forget"])
  /\ UNCHANGED <<devices, cookie, told, unforgotten, day>>

ForgetKnownDeviceToken(h) ==
  /\ job[h].op = "forget"
  /\ devices' = [devices EXCEPT ![job[h].token] = 0]
  /\ Continue(h, [job[h] EXCEPT !.op = "cookie"])
  /\ UNCHANGED <<cookie, told, unforgotten, day>>

ForgettingFails(h) ==
  /\ job[h].op = "forget"
  /\ unforgotten' = unforgotten \cup {job[h].token}
  /\ Continue(h, [job[h] EXCEPT !.op = "cookie"])
  /\ UNCHANGED <<devices, cookie, told, day>>

ApplyDeviceCookie(h) ==
  /\ job[h].op = "cookie"
  /\ cookie' = [cookie EXCEPT ![job[h].browser] = job[h].token]
  /\ Done(h)
  /\ UNCHANGED <<devices, told, unforgotten, day>>

\* A worker that dies, or a response that never arrives, sets no cookie.
ResponseLost(h) ==
  /\ ~Free(h)
  /\ Done(h)
  /\ UNCHANGED <<devices, cookie, told, unforgotten, day>>

CookieCleared(b) ==
  /\ cookie' = [cookie EXCEPT ![b] = None]
  /\ UNCHANGED <<devices, told, unforgotten, day, job>>

\* The retention job deletes rows that have expired.
CleanupDevices ==
  /\ devices' = [t \in DeviceTokens |-> IF Live(t) THEN devices[t] ELSE 0]
  /\ UNCHANGED <<cookie, told, unforgotten, day, job>>

DeviceTimePasses ==
  /\ day < MaxDay
  /\ day' = day + 1
  /\ UNCHANGED <<devices, cookie, told, unforgotten, job>>

DevicesNext ==
  \/ \E h \in Handlers, b \in Browsers :
       \/ CheckKnownDevice(h, b)
       \/ \E t \in DeviceTokens : RegisterDevice(h, b, t) \/ DeviceCheckFails(h, b, t)
  \/ \E h \in Handlers :
       \/ NoticeQueued(h) \/ NoticeFails(h) \/ ForgetKnownDeviceToken(h)
       \/ ForgettingFails(h) \/ ApplyDeviceCookie(h) \/ ResponseLost(h)
  \/ \E b \in Browsers : CookieCleared(b)
  \/ CleanupDevices \/ DeviceTimePasses

DevicesSpec == DevicesInit /\ [][DevicesNext]_deviceVars

-----------------------------------------------------------------------------
DeviceJob ==
  {Idle} \cup [op : {"mail", "forget", "cookie"}, browser : Browsers, token : DeviceTokens]

\* Types of the device rows, the cookies and the requests; an expiry is a day that comes.
DevicesTypeOK ==
  /\ devices \in [DeviceTokens -> Nat]
  /\ cookie \in [Browsers -> DeviceTokens \cup {None}]
  /\ told \subseteq DeviceTokens /\ unforgotten \subseteq DeviceTokens
  /\ day \in Nat
  /\ job \in [Handlers -> DeviceJob]

\* A browser is recognised only by a token whose notice was queued, unless the
\* notice failed and so did taking the row back: overlapping sign-ins, crashes
\* between the row and the e-mail and expired rows leave no silent known device
\* (handle_new_device_login).
KnownMeansTold ==
  \A b \in Browsers : Recognised(b) => cookie[b] \in told \cup unforgotten
=============================================================================
