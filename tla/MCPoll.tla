-------------------------------- MODULE MCPoll --------------------------------
(* Model-checking instance of the poll loop: up to two events a cycle, of two
   ids, one of which changes its content. *)
EXTENDS PollLoop

CONSTANTS i1, i2, x, y, p, r1, r2

MCId == {i1, i2}
MCContent == {x, y}
MCPlace == {p}
MCRef == {r1, r2}

Ev(i, c, r) == [id |-> i, content |-> c, place |-> p, ref |-> r]

MCBatch == { <<>>, << Ev(i1, x, r1) >>, << Ev(i1, y, r2) >>,
             << Ev(i1, x, r1), Ev(i2, x, r1) >> }
===============================================================================
