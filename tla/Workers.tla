------------------------------ MODULE Workers ------------------------------
(* Request handlers and what they share: a handler works in transactions, and  *)
(* between two commits keeps in `job' what it has read and has yet to write.   *)
CONSTANT Handlers    \* request handlers that run at the same time
VARIABLE job         \* what each handler has in hand between its commits

Idle == [op |-> "idle"]
Unloaded == [op |-> "unloaded"]
NoRow == [status |-> "none"]
None == "none"

\* None stands for "no handler" where a row lock is kept.
ASSUME HandlersAssumption == None \notin Handlers

Free(h) == job[h] = Idle
Begin(h, j) == Free(h) /\ job' = [job EXCEPT ![h] = j]
Continue(h, j) == job' = [job EXCEPT ![h] = j]
Done(h) == job' = [job EXCEPT ![h] = Idle]

\* The unit of work writes the columns whose new value differs from the loaded
\* one; a column set on an unloaded row is always written.
Flush(now, seen, new) ==
  IF seen = Unloaded
    THEN new
    ELSE [k \in DOMAIN now |-> IF new[k] = seen[k] THEN now[k] ELSE new[k]]
=============================================================================
