---------------------------- MODULE MCTransfers ----------------------------
(* Instances of Transfers for TLC. *)
EXTENDS Transfers, TLC

CONSTANTS r1, r2, t1, t2, t3, t4

Local(f, t, n) == [chan |-> "local", from |-> f, to |-> t, amount |-> n]
PayUp(f, t, n) == [chan |-> "payup", from |-> f, to |-> t, amount |-> n]

TwoAccounts == {1, 2}
OpenTwo == [a \in TwoAccounts |-> 3]

\* The same limit for both channels.
Flat(n) == [c \in Channels |-> n]
Three == Flat(3)
TwoOrThree == {Flat(2), Three}

\* t1 and t2: two payments of one sender, one in each channel, which the opening
\* balance covers one at a time; t3: a payment back.  t2 and t4: two PayUp payments,
\* each quick on its own, which a limit of 3 lets pass together and one of 2 does not.
Mixed == [t \in Tokens |-> CASE t = t1 -> Local(1, 2, 2)
                             [] t = t2 -> PayUp(1, 2, 2)
                             [] t = t3 -> Local(2, 1, 1)
                             [] t = t4 -> PayUp(1, 2, 1)]

-----------------------------------------------------------------------------
(* One run plays two scenes: "ledger", one day with fixed limits, and "caps", *)
(* where limits change and midnight passes.                                   *)

VARIABLE scene

Played == IF scene = "ledger" THEN {t1, t2, t3} ELSE {t2, t4}

SceneBound ==
    /\ \A t \in Tokens \ Played : pending[t] = "absent"
    /\ scene = "ledger" => day = 0 /\ \A a \in Accounts : users[a].limit = DefaultLimit

MCInit == Init /\ scene \in {"ledger", "caps"}
MCNext == Next /\ UNCHANGED scene /\ SceneBound'
MCSpec == MCInit /\ [][MCNext]_<<vars, scene>>

Alike == Permutations({r1, r2})
=============================================================================
