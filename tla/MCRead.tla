-------------------------------- MODULE MCRead --------------------------------
(* Model-checking instance of the API beside the poll loop: one event, a pool of
   two clients, two cycles that could overlap and two requests. *)
EXTENDS ReadApi

CONSTANTS i1, x, p, r1

MCId == {i1}
MCContent == {x}
MCPlace == {p}
MCRef == {r1}

MCBatch == { <<>>, << [id |-> i1, content |-> x, place |-> p, ref |-> r1] >> }
===============================================================================
