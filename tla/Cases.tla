------------------------------- MODULE Cases -------------------------------
(* Issue reports on transactions and support tickets: customers file them      *)
(* (app/web/routes.py) and staff decide them (app/admin/services.py).          *)
EXTENDS Naturals, FiniteSets, Workers

CONSTANTS Cases,      \* ids of transaction_disputes and support_tickets
          Reporters,  \* customers
          Payments,   \* transactions both customers are a party of
          Reviewers,  \* plain staff
          DailyLimit  \* reports, and tickets, a customer may file in a day

ASSUME CasesAssumption == DailyLimit \in Nat \ {0}

VARIABLES filed,   \* transaction_disputes and support_tickets
          spent    \* durable rate-limit counters, by customer and kind

caseVars == <<filed, spent, job>>

Kinds == {"dispute", "ticket"}

\* DISPUTE_STATUS_TRANSITIONS and SUPPORT_TICKET_STATUS_TRANSITIONS
DisputeMoves == [open         |-> {"under_review", "resolved", "rejected"},
                 under_review |-> {"resolved", "rejected"},
                 resolved |-> {}, rejected |-> {}]
TicketMoves == [open      |-> {"in_review", "resolved", "closed"},
                in_review |-> {"resolved", "closed"},
                resolved |-> {}, closed |-> {}]
Moves(kind) == IF kind = "dispute" THEN DisputeMoves ELSE TicketMoves

Undecided == {"open", "under_review", "in_review"}
DecidedStatuses == {"resolved", "rejected", "closed"}

DisputeRow == [kind : {"dispute"}, by : Reporters, of : Payments,
               status : DOMAIN DisputeMoves, decider : Reviewers \cup {None}]
TicketRow == [kind : {"ticket"}, by : Reporters, of : {None},
              status : DOMAIN TicketMoves, decider : Reviewers \cup {None}]

CasesInit ==
  /\ filed = [d \in Cases |-> NoRow]
  /\ spent = [u \in Reporters |-> [k \in Kinds |-> 0]]
  /\ job = [h \in Handlers |-> Idle]

\* _open_dispute_for_transaction
OpenOn(p) == {d \in Cases : /\ filed[d] # NoRow /\ filed[d].kind = "dispute"
                            /\ filed[d].of = p /\ filed[d].status \in Undecided}

-----------------------------------------------------------------------------
(* Customers.                                                                 *)

\* transaction_dispute_create up to the rate limit: the transaction has no open
\* report. A support ticket has no such condition.
FileDispute(h, u, p) ==
  /\ OpenOn(p) = {}
  /\ Begin(h, [op |-> "report", kind |-> "dispute", by |-> u, of |-> p])
  /\ UNCHANGED <<filed, spent>>

\* support_contact_submit
FileTicket(h, u) ==
  /\ Begin(h, [op |-> "report", kind |-> "ticket", by |-> u, of |-> None])
  /\ UNCHANGED <<filed, spent>>

\* The limit is consumed, and committed, before the row is inserted.
ConsumeReport(h) ==
  /\ job[h].op = "report"
  /\ LET u == job[h].by
         k == job[h].kind
     IN IF spent[u][k] >= DailyLimit
          THEN Done(h) /\ UNCHANGED spent
          ELSE /\ spent' = [spent EXCEPT ![u][k] = @ + 1]
               /\ job' = [job EXCEPT ![h].op = "file"]
  /\ UNCHANGED filed

NewCase(j) == [kind |-> j.kind, by |-> j.by, of |-> j.of, status |-> "open", decider |-> None]

\* Mutant: no partial unique index on the open reports of a transaction.
InsertUnindexed(h, d) ==
  /\ job[h].op = "file" /\ filed[d] = NoRow
  /\ filed' = [filed EXCEPT ![d] = NewCase(job[h])]
  /\ Done(h)
  /\ UNCHANGED spent

\* ux_transaction_disputes_one_open_per_txn refuses a second open report: the
\* customer is told there is one already.
InsertCase(h, d) ==
  /\ job[h].op = "file" /\ filed[d] = NoRow
  /\ filed' = IF job[h].kind = "dispute" /\ OpenOn(job[h].of) # {} THEN filed
              ELSE [filed EXCEPT ![d] = NewCase(job[h])]
  /\ Done(h)
  /\ UNCHANGED spent

-----------------------------------------------------------------------------
(* Staff.                                                                     *)

\* transition_dispute_status_for_staff and transition_support_ticket_status_for_staff:
\* the row is read without a lock and the step checked against the table ...
ReadCase(h, s, d, to) ==
  /\ filed[d] # NoRow
  /\ to \in Moves(filed[d].kind)[filed[d].status]
  /\ Begin(h, [op |-> "decide", case |-> d, by |-> s, from |-> filed[d].status, to |-> to])
  /\ UNCHANGED <<filed, spent>>

\* Mutant: the UPDATE is not conditional on the status that was read.
DecideBlindly(h) ==
  /\ job[h].op = "decide"
  /\ filed' = [filed EXCEPT ![job[h].case].status = job[h].to, ![job[h].case].decider = job[h].by]
  /\ Done(h)
  /\ UNCHANGED spent

\* ... and the UPDATE names the status that was read: it changes no row, and the
\* reviewer gets a conflict, when another decision came first.
DecideCase(h) ==
  /\ job[h].op = "decide"
  /\ LET d == job[h].case IN
       filed' = IF filed[d].status # job[h].from THEN filed
                ELSE [filed EXCEPT ![d].status = job[h].to, ![d].decider = job[h].by]
  /\ Done(h)
  /\ UNCHANGED spent

\* A failed required audit row or a dying worker: the open transaction is undone.
CaseHandlerFails(h) ==
  /\ job[h].op \in {"report", "file", "decide"}
  /\ Done(h)
  /\ UNCHANGED <<filed, spent>>

\* The day of a counter is over.
DayPasses(u, k) ==
  /\ spent[u][k] > 0
  /\ spent' = [spent EXCEPT ![u][k] = 0]
  /\ UNCHANGED <<filed, job>>

CasesNext ==
  \/ \E h \in Handlers :
       \/ \E u \in Reporters : FileTicket(h, u) \/ \E p \in Payments : FileDispute(h, u, p)
       \/ \E d \in Cases : InsertCase(h, d)
       \/ \E s \in Reviewers, d \in Cases, to \in Undecided \cup DecidedStatuses : ReadCase(h, s, d, to)
       \/ ConsumeReport(h) \/ DecideCase(h) \/ CaseHandlerFails(h)
  \/ \E u \in Reporters, k \in Kinds : DayPasses(u, k)

CasesSpec == CasesInit /\ [][CasesNext]_caseVars

-----------------------------------------------------------------------------

\* The types of disputes and tickets; a reporter files no more than the daily limit.
CasesTypeOK ==
  /\ filed \in [Cases -> DisputeRow \cup TicketRow \cup {NoRow}]
  /\ spent \in [Reporters -> [Kinds -> 0..DailyLimit]]

\* "a stale or concurrent transition cannot overwrite a newer decision, and
\* resolved/rejected disputes are immutable": a decided case keeps its status and the
\* reviewer who decided it, and no case goes back to an earlier status.
DecisionStands ==
  [][\A d \in Cases :
       filed[d] # NoRow /\ filed'[d] # filed[d] =>
         /\ filed[d].status \notin DecidedStatuses
         /\ filed'[d].status \in Moves(filed[d].kind)[filed[d].status]]_caseVars

\* At most one report of a transaction is open or under review, whichever of its two
\* parties files and however the two submissions interleave.
OneOpenReport == \A p \in Payments : Cardinality(OpenOn(p)) <= 1
=============================================================================
