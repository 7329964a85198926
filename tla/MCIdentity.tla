---------------------------- MODULE MCIdentity ----------------------------
(* One player logs in through both stacks, the other one's name is, or     *)
(* becomes, the name the provider gives.                                   *)
EXTENDS Identity

CONSTANTS a, b, l1, l2

MCPlayer == [l \in {l1, l2} |-> a]
MCFlows == [l \in {l1, l2} |-> IF l = l1 THEN {"passport", "supertokens"} ELSE {"supertokens"}]
MCSupplied == [l \in {l1, l2} |-> 1]
MCChosen == {1, 12}
Complete == {"SUPERTOKENS_CONNECTION_URI", "PUBLIC_ORIGIN", "SUPERTOKENS_API_KEY",
             "DISCORD_CLIENT_ID", "DISCORD_CLIENT_SECRET"}
MCEnvironments == {Complete, Complete \ {"SUPERTOKENS_API_KEY"}}
Good == [health |-> "up", path |-> "/recipe/users/count", keys |-> {"ours"}, versions |-> {5}]
MCCores == {Good, [Good EXCEPT !.keys = {}], [Good EXCEPT !.versions = {4}],
            [Good EXCEPT !.health = "down"]}
===========================================================================
