-------------------------- MODULE MCEventLifecycle --------------------------
(***************************************************************************)
(* EventLifecycle for TLC: a yearly event beside one that coordinators     *)
(* create, in years of four units with one unit of claim grace.            *)
(***************************************************************************)
EXTENDS EventLifecycle

CONSTANTS q1, q2, v1

MCEvents == {1, 2}
MCRecurrence == [e \in {1} |-> [day |-> 1, duration |-> 1]]
TwoRequests == {q1, q2}
OneContent == {v1}

Window(starts, ends) == [starts |-> starts, ends |-> ends, content |-> NoRow]

\* Two windows, one date moved or cleared without the other, another ladder, and
\* a body with none of these.
MCBodies ==
    {Window(1, 3), Window(0, 2), Window(3, NoRow), Window(NoTime, NoRow), Window(NoRow, NoTime),
     Window(NoRow, NoRow), [Window(NoRow, NoRow) EXCEPT !.content = v1]}
=============================================================================
