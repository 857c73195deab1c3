-------------------------------- MODULE ReadApi --------------------------------
(***************************************************************************)
(* The read API beside the poll loop, in one process and over one pg Pool: *)
(* GET /api/v1/health and GET /api/v1/disruptions each make one pooled     *)
(* query of the store (countAll, listAll) and answer with its rows, or     *)
(* with a 500 when it rejects.  The pool has no connectionTimeoutMillis, so *)
(* a request waits for a client for as long as it takes.                   *)
(***************************************************************************)
EXTENDS PollLoop

CONSTANT Request   \* the requests in flight at once

ASSUME RequestAssumption == Request \cap Caller = {}

VARIABLE request   \* what each request awaits, "none" when it is answered

readVars == <<pollVars, request>>

ReadInit == PollInit /\ request = [r \in Request |-> "none"]

-------------------------------------------------------------------------------
(* The handler runs up to its await of the store. *)
Arrive(r) ==
    /\ up
    /\ request[r] = "none"
    /\ request' = [request EXCEPT ![r] = "connecting"]
    /\ UNCHANGED pollVars

QueryConnect(r) ==
    /\ request[r] = "connecting"
    /\ Cardinality(held) < PoolSize
    /\ held' = held \cup {r}
    /\ request' = [request EXCEPT ![r] = "querying"]
    /\ UNCHANGED <<rows, now, stage, batch, pos, began, work, cutoff, result, procVars>>

Answers(r, clients) ==
    /\ request[r] = "querying"
    /\ held' = clients
    /\ request' = [request EXCEPT ![r] = "none"]
    /\ UNCHANGED <<rows, now, stage, batch, pos, began, work, cutoff, result, procVars>>

(* Mutant: the client of an answered query is kept. *)
QuerySettlesKeepsClient(r) == Answers(r, held)

(* The query answers or rejects, pool.query releases its client, and the
   handler answers the request. *)
QuerySettles(r) == Answers(r, held \ {r})

(* No connection can be opened: the request is answered with a 500. *)
QueryConnectFails(r) ==
    /\ request[r] = "connecting"
    /\ request' = [request EXCEPT ![r] = "none"]
    /\ UNCHANGED pollVars

(* The process dies with its requests. *)
ProcessDies == Crash /\ request' = [r \in Request |-> "none"]

(* Every other step of the process and the store. *)
IngestStep ==
    /\ \/ Boot \/ Start \/ Stop \/ TickSkipped \/ TimePasses
       \/ \E c \in Caller : TickRuns(c) \/ CycleStep(c) \/ StoreStep(c)
    /\ UNCHANGED request

ReadNext ==
    \/ ProcessDies \/ IngestStep
    \/ \E r \in Request : \/ Arrive(r) \/ QueryConnect(r)
                          \/ QueryConnectFails(r) \/ QuerySettles(r)

(* A read is answered or rejected by the database, and pg-pool serves those who
   wait for a client in order.  Nothing is assumed of ingest: its query
   may stand still for good. *)
ReadFairness ==
    \A r \in Request : WF_readVars(QuerySettles(r)) /\ SF_readVars(QueryConnect(r))

ReadSpec == ReadInit /\ [][ReadNext]_readVars /\ ReadFairness

-------------------------------------------------------------------------------
(* No more clients are out than the pool has, and when all are out, all but at
   most one are out for requests that query: ingest, its transactions and its
   DELETE together, never has two, and a pool of two or more always has one for
   the API (scheduler.js, createPoller). *)
IngestLeavesClients ==
    /\ held \cap Request = {r \in Request : request[r] = "querying"}
    /\ Cardinality(held) <= PoolSize
    /\ Cardinality(held) = PoolSize => Cardinality(held \cap Request) >= PoolSize - 1

(* Every request is answered, even while an ingest query never ends: the
   overlap guard keeps ingest from starving the API of pooled clients
   (scheduler.js, RUNBOOK "Poll loop hangs"). *)
ReadsServed == \A r \in Request : request[r] = "connecting" ~> request[r] = "none"
===============================================================================
