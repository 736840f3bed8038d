--------------------------- MODULE PendingTokens ---------------------------
(***************************************************************************)
(* What a pending transfer promises, whatever the requests that confirm it *)
(* do: it is offered once, and it ends once, either spent (exactly one     *)
(* transaction) or void (consumed by a confirmation that was refused).     *)
(***************************************************************************)
CONSTANT Tokens

VARIABLE token

TokenStates == {"absent", "open", "spent", "void"}

TokenInit == token = [t \in Tokens |-> "absent"]

Offer(t) == token[t] = "absent" /\ token' = [token EXCEPT ![t] = "open"]

Spend(t) == token[t] = "open" /\ token' = [token EXCEPT ![t] = "spent"]

Void(t) == token[t] = "open" /\ token' = [token EXCEPT ![t] = "void"]

TokenNext == \E t \in Tokens : Offer(t) \/ Spend(t) \/ Void(t)

TokenSpec == TokenInit /\ [][TokenNext]_token
=============================================================================
