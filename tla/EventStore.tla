------------------------------ MODULE EventStore ------------------------------
(***************************************************************************)
(* The event-store contract (upsertEvents / pruneOlderThan) that           *)
(* MemoryEventStore states in its comments and that pollOnce relies on: a  *)
(* batch is stored as a whole or not at all, and pruning deletes exactly   *)
(* the rows last updated before the cutoff.  Both stores are shown to      *)
(* implement this module.                                                  *)
(***************************************************************************)
EXTENDS DisruptionEvents

VARIABLE rows

TypeOK == rows \in Rows

Init == rows = [id \in Id |-> NoRow]

UpsertEvents(b, t) ==
    /\ rows' \in Rows
    /\ \A id \in Id : Upserted(rows[id], rows'[id], b, Len(b), id, t)

PruneOlderThan(cutoff) == rows' = Without(rows, Expired(rows, cutoff))

Next == \/ \E b \in Batch, t \in Time : UpsertEvents(b, t)
        \/ \E cutoff \in Time : PruneOlderThan(cutoff)

Spec == Init /\ [][Next]_rows
===============================================================================
