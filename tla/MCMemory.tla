------------------------------- MODULE MCMemory -------------------------------
(* Model-checking instance of the in-memory event store and of the requests it
   answers: three ids, a mild and a severe content, and parameters below, at and
   above every bound. *)
EXTENDS MemoryEventStore

CONSTANTS i1, i2, i3, p, q, r1, r2

Mild == [severity |-> 2, category |-> "labor"]
Severe == [severity |-> 5, category |-> "other"]

MCId == {i1, i2, i3}
MCContent == {Mild, Severe}
MCPlace == {p, q}
MCRef == {r1, r2}

Ev(i, c, l, r) == [id |-> i, content |-> c, place |-> l, ref |-> r]

(* The empty batch; one event of any id and content; the same id twice, changed
   and moved; two ids that share a stamp. *)
MCBatch == { <<>> } \cup { << Ev(i, c, p, r1) >> : i \in MCId, c \in MCContent }
           \cup { << Ev(i1, Severe, q, r2), Ev(i1, Mild, p, r1) >>,
                  << Ev(i3, Severe, p, r1), Ev(i2, Mild, p, r1) >> }

MCQuery == [severity : {3, 6, None}, since : {1, 2, None},
            category : {"labor", None}, limit : {0, 1, 9, None}]
===============================================================================
