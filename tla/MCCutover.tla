----------------------------- MODULE MCCutover -----------------------------
(* A deployment that is right, or wrong in one way; a core that is right,  *)
(* or wrong in one way; databases of every kind the audit tells apart.     *)
EXTENDS Cutover

CONSTANTS a, b

Right == {"SUPERTOKENS_CONNECTION_URI", "PUBLIC_ORIGIN", "SUPERTOKENS_API_KEY", "DATABASE_URL",
          "GITHUB_CLIENT_ID", "GITHUB_CLIENT_SECRET"}
MCEnvironments ==
    {Right} \cup {Right \ {x} : x \in Right \ {"GITHUB_CLIENT_ID"}}
            \cup {(Right \ {"SUPERTOKENS_API_KEY"}) \cup {"loopback"}}

Good == [health |-> "up", path |-> "/public/users/count", keys |-> {"ours"},
         versions |-> {5}, tables |-> "its own"]
MCCores ==
    {Good, [Good EXCEPT !.health = "down"], [Good EXCEPT !.health = "sick"],
     [Good EXCEPT !.path = "/recipe/users/count"], [Good EXCEPT !.path = "/count"],
     [Good EXCEPT !.keys = {}], [Good EXCEPT !.keys = {"another"}],
     [Good EXCEPT !.versions = {4}], [Good EXCEPT !.versions = {}],
     [Good EXCEPT !.tables = "ours"]}

\* One of the two is right.
MCDeployments == {<<e, Good>> : e \in MCEnvironments} \cup {<<Right, c>> : c \in MCCores}

Row(ua, ub) == [l \in {a, b} |-> IF l = a THEN ua ELSE ub]
Whole == [present |-> TRUE, split |-> TRUE, users |-> {a}, identity |-> Row(a, None)]
MCDatabases ==
    {Whole, [Whole EXCEPT !.present = FALSE], [Whole EXCEPT !.split = FALSE],
     [Whole EXCEPT !.users = {}, !.identity = Row(None, None)],
     [Whole EXCEPT !.identity = Row(a, a)],
     [Whole EXCEPT !.identity = Row(a, b)]}
===========================================================================
