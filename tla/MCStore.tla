------------------------------- MODULE MCStore --------------------------------
(* Model-checking instance of the PostgreSQL event store. *)
EXTENDS PostgresEventStore, MCEvents
===============================================================================
