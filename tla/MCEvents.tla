------------------------------- MODULE MCEvents -------------------------------
(* The events of the model-checking instances of the stores: two ids, two
   contents, two places, and the batches that tell the interesting cases apart. *)
EXTENDS DisruptionEvents

CONSTANTS i1, i2, x, y, p, q, r1, r2

MCId == {i1, i2}
MCContent == {x, y}
MCPlace == {p, q}
MCRef == {r1, r2}

Ev(i, c, l, r) == [id |-> i, content |-> c, place |-> l, ref |-> r]

(* The empty batch; one event per id; a content change with a move; the same id
   twice in a batch; two ids in both orders, which can deadlock. *)
MCBatch == { <<>>,
             << Ev(i1, x, p, r1) >>,
             << Ev(i1, y, q, r2), Ev(i1, x, p, r1) >>,
             << Ev(i1, x, p, r1), Ev(i2, x, p, r2) >>,
             << Ev(i2, y, p, r2), Ev(i1, x, q, r2) >> }
===============================================================================
