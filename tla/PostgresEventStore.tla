-------------------------- MODULE PostgresEventStore --------------------------
(***************************************************************************)
(* lib/store/postgresEventStore.js over a pg Pool.  upsertEvents is one    *)
(* transaction: check out a pooled client, BEGIN, one INSERT ... ON        *)
(* CONFLICT per event, COMMIT; any query that rejects leads to ROLLBACK,   *)
(* and the client is released either way.  pruneOlderThan is one           *)
(* autocommitted DELETE by pool.query, which has a client of the pool from *)
(* before the DELETE until its answer.  Every await is a step of its own,  *)
(* so calls of several callers interleave.  The database (READ COMMITTED,  *)
(* row locks, now() fixed at BEGIN) and the pool are modelled from how the *)
(* code uses them.                                                         *)
(***************************************************************************)
EXTENDS DisruptionEvents, FiniteSets

CONSTANTS
    Caller,    \* concurrent callers of the store
    PoolSize   \* connections in the pool

ASSUME PoolAssumption == PoolSize \in Nat \ {0}

VARIABLES
    rows,      \* the committed table disruption_events
    now,       \* the clock of the database and the application
    stage,     \* where each caller's call is
    batch,     \* the events argument of its upsertEvents call
    pos,       \* the index of the event its loop is at
    began,     \* now() of its transaction
    work,      \* the rows its transaction has written (and locked)
    cutoff,    \* the argument of its pruneOlderThan call
    held,      \* callers holding a pooled client
    result     \* how its last call settled

txnVars == <<stage, batch, pos, began, work, cutoff, held, result>>
pgVars  == <<rows, now, txnVars>>

(* upsertEvents and pruneOlderThan under way, from the wait for a client on. *)
Upserting == {"connecting", "begin", "insert", "commit", "committed", "rollback"}
Pruning == {"pruning", "delete", "deleted"}

Stage == {"idle"} \cup Upserting \cup Pruning

(* The stages at which a call has its client. *)
HoldsClient == (Upserting \cup Pruning) \ {"connecting", "pruning"}

NoRows == [id \in Id |-> NoRow]

PgTypeOK ==
    /\ rows \in Rows
    /\ now \in Time
    /\ stage \in [Caller -> Stage]
    /\ batch \in [Caller -> Batch \cup {<<>>}]
    /\ pos \in [Caller -> Nat]
    /\ began \in [Caller -> Time]
    /\ work \in [Caller -> Rows]
    /\ cutoff \in [Caller -> Time]
    /\ held \subseteq Caller
    /\ result \in [Caller -> {"none", "ok", "error"}]

PgInit ==
    /\ rows = NoRows
    /\ now = 0
    /\ stage = [c \in Caller |-> "idle"]
    /\ batch = [c \in Caller |-> <<>>]
    /\ pos = [c \in Caller |-> 1]
    /\ began = [c \in Caller |-> 0]
    /\ work = [c \in Caller |-> NoRows]
    /\ cutoff = [c \in Caller |-> 0]
    /\ held = {}
    /\ result = [c \in Caller |-> "none"]

-------------------------------------------------------------------------------
(* The call settles, its locals are gone, and clients are out. *)
Release(c, outcome, clients) ==
    /\ stage' = [stage EXCEPT ![c] = "idle"]
    /\ batch' = [batch EXCEPT ![c] = <<>>]
    /\ pos' = [pos EXCEPT ![c] = 1]
    /\ began' = [began EXCEPT ![c] = 0]
    /\ cutoff' = [cutoff EXCEPT ![c] = 0]
    /\ held' = clients
    /\ result' = [result EXCEPT ![c] = outcome]

(* Mutant: no finally, so the client is never released. *)
SettleKeepsClient(c, outcome) == Release(c, outcome, held)

(* The client, if any, is released. *)
Settle(c, outcome) == Release(c, outcome, held \ {c})

(* No client can be had: pool.connect() rejects, before upsertEvents' try block
   or inside pool.query, and there is nothing to roll back or release. *)
ConnectFails(c) ==
    /\ stage[c] \in {"connecting", "pruning"}
    /\ Settle(c, "error")
    /\ UNCHANGED <<rows, now, work>>

-------------------------------------------------------------------------------
(* upsertEvents *)

(* An empty batch resolves at once, before a client is asked for. *)
UpsertCall(c, b) ==
    /\ stage[c] = "idle" /\ result[c] = "none"
    /\ IF b = <<>>
         THEN /\ result' = [result EXCEPT ![c] = "ok"]
              /\ UNCHANGED <<stage, batch>>
         ELSE /\ stage' = [stage EXCEPT ![c] = "connecting"]
              /\ batch' = [batch EXCEPT ![c] = b]
              /\ UNCHANGED result
    /\ UNCHANGED <<rows, now, pos, began, work, cutoff, held>>

Connect(c) ==
    /\ stage[c] = "connecting"
    /\ Cardinality(held) < PoolSize
    /\ held' = held \cup {c}
    /\ stage' = [stage EXCEPT ![c] = "begin"]
    /\ UNCHANGED <<rows, now, batch, pos, began, work, cutoff, result>>

Begin(c) ==
    /\ stage[c] = "begin"
    /\ stage' = [stage EXCEPT ![c] = "insert"]
    /\ began' = [began EXCEPT ![c] = now]
    /\ pos' = [pos EXCEPT ![c] = 1]
    /\ UNCHANGED <<rows, now, batch, work, cutoff, held, result>>

(* The row a statement of c's transaction finds: its own write, else the
   committed row. *)
Seen(c, id) == IF work[c][id] # NoRow THEN work[c][id] ELSE rows[id]

LockedByOther(c, id) == \E d \in Caller \ {c} : work[d][id] # NoRow

(* Mutant: two parameters of the INSERT swapped. *)
OnConflictSwapped(old, e, t) ==
    IF old = NoRow
      THEN [content |-> e.place, place |-> e.content, refs |-> {e.ref},
            firstSeenAt |-> t, lastUpdatedAt |-> t]
      ELSE [old EXCEPT !.content = e.place, !.refs = @ \cup {e.ref}]

(* INSERT ... ON CONFLICT (id) DO UPDATE at time t: the update leaves lat, lon
   and location alone and stamps only a change of content. *)
Written(old, e, t, refs) ==
    IF old = NoRow
      THEN [content |-> e.content, place |-> e.place, refs |-> {e.ref},
            firstSeenAt |-> t, lastUpdatedAt |-> t]
      ELSE [old EXCEPT !.content = e.content,
                       !.refs = refs,
                       !.lastUpdatedAt = IF e.content # old.content THEN t ELSE @]

(* Mutant: raw_refs overwritten instead of merged. *)
OnConflictReplacesRefs(old, e, t) == Written(old, e, t, {e.ref})

OnConflict(old, e, t) == Written(old, e, t, old.refs \cup {e.ref})

(* One iteration of the loop; it waits for a row another transaction has
   written. *)
Insert(c) ==
    LET e == batch[c][pos[c]] IN
    /\ stage[c] = "insert"
    /\ ~ LockedByOther(c, e.id)
    /\ work' = [work EXCEPT ![c][e.id] = OnConflict(Seen(c, e.id), e, began[c])]
    /\ pos' = [pos EXCEPT ![c] = @ + 1]
    /\ stage' = [stage EXCEPT ![c] = IF pos[c] = Len(batch[c]) THEN "commit" ELSE "insert"]
    /\ UNCHANGED <<rows, now, batch, began, cutoff, held, result>>

(* The server applies COMMIT; the answer is still on its way. *)
Commit(c) ==
    /\ stage[c] = "commit"
    /\ rows' = [id \in Id |-> Seen(c, id)]
    /\ work' = [work EXCEPT ![c] = NoRows]
    /\ stage' = [stage EXCEPT ![c] = "committed"]
    /\ UNCHANGED <<now, batch, pos, began, cutoff, held, result>>

(* COMMIT answers. *)
Ack(c) ==
    /\ stage[c] = "committed"
    /\ Settle(c, "ok")
    /\ UNCHANGED <<rows, now, work>>

(* The connection breaks before COMMIT's answer arrives. *)
LoseAck(c) ==
    /\ stage[c] = "committed"
    /\ stage' = [stage EXCEPT ![c] = "rollback"]
    /\ UNCHANGED <<rows, now, batch, pos, began, work, cutoff, held, result>>

(* A query rejects: a database error (a deadlock's victim included), which
   keeps the locks until ROLLBACK, or a lost connection, which frees them. *)
QueryFails(c) ==
    /\ stage[c] \in {"begin", "insert", "commit"}
    /\ stage' = [stage EXCEPT ![c] = "rollback"]
    /\ \E kept \in {work[c], NoRows} : work' = [work EXCEPT ![c] = kept]
    /\ UNCHANGED <<rows, now, batch, pos, began, cutoff, held, result>>

(* Mutant: the catch block rethrows without ROLLBACK, and the client goes back
   to the pool with its transaction open. *)
RollbackForgotten(c) ==
    /\ stage[c] = "rollback"
    /\ Settle(c, "error")
    /\ UNCHANGED <<rows, now, work>>

(* ROLLBACK answers or itself rejects: either way the transaction is over,
   finally releases the client and the call rejects. *)
Rollback(c) ==
    /\ stage[c] = "rollback"
    /\ Settle(c, "error")
    /\ work' = [work EXCEPT ![c] = NoRows]
    /\ UNCHANGED <<rows, now>>

-------------------------------------------------------------------------------
(* pruneOlderThan *)

(* The caller goes on with the outcome of its last call, if any, and prunes. *)
PruneCall(c, t) ==
    /\ stage[c] = "idle"
    /\ stage' = [stage EXCEPT ![c] = "pruning"]
    /\ cutoff' = [cutoff EXCEPT ![c] = t]
    /\ result' = [result EXCEPT ![c] = "none"]
    /\ UNCHANGED <<rows, now, batch, pos, began, work, held>>

(* pool.query has a client and sends the DELETE. *)
PruneConnect(c) ==
    /\ stage[c] = "pruning"
    /\ Cardinality(held) < PoolSize
    /\ held' = held \cup {c}
    /\ stage' = [stage EXCEPT ![c] = "delete"]
    /\ UNCHANGED <<rows, now, batch, pos, began, work, cutoff, result>>

(* The server applies the DELETE, which waits for the locks on the rows it
   removes; the answer is still on its way. *)
Delete(c) ==
    LET gone == Expired(rows, cutoff[c]) IN
    /\ stage[c] = "delete"
    /\ \A id \in gone, d \in Caller : work[d][id] = NoRow
    /\ rows' = Without(rows, gone)
    /\ stage' = [stage EXCEPT ![c] = "deleted"]
    /\ UNCHANGED <<now, batch, pos, began, work, cutoff, held, result>>

(* The DELETE answers and pool.query releases its client. *)
PruneAnswers(c) ==
    /\ stage[c] = "deleted"
    /\ Settle(c, "ok")
    /\ UNCHANGED <<rows, now, work>>

(* The DELETE rejects, or its answer is lost after it took effect. *)
PruneFails(c) ==
    /\ stage[c] \in {"delete", "deleted"}
    /\ Settle(c, "error")
    /\ UNCHANGED <<rows, now, work>>

-------------------------------------------------------------------------------
(* The awaiting caller goes on with the outcome. *)
Return(c, outcome) ==
    /\ stage[c] = "idle" /\ result[c] = outcome
    /\ result' = [result EXCEPT ![c] = "none"]
    /\ UNCHANGED <<rows, now, stage, batch, pos, began, work, cutoff, held>>

Tick ==
    /\ now + 1 \in Time
    /\ now' = now + 1
    /\ UNCHANGED <<rows, txnVars>>

(* The process with all callers dies: its connections close and the server
   aborts their open transactions. *)
Disconnect ==
    /\ stage' = [c \in Caller |-> "idle"]
    /\ batch' = [c \in Caller |-> <<>>]
    /\ pos' = [c \in Caller |-> 1]
    /\ began' = [c \in Caller |-> 0]
    /\ work' = [c \in Caller |-> NoRows]
    /\ cutoff' = [c \in Caller |-> 0]
    /\ held' = {}
    /\ result' = [c \in Caller |-> "none"]
    /\ UNCHANGED <<rows, now>>

(* The steps by which a call that has started goes on. *)
Respond(c) == \/ Begin(c) \/ Insert(c) \/ Commit(c) \/ Ack(c) \/ LoseAck(c)
              \/ QueryFails(c) \/ Rollback(c)
              \/ Delete(c) \/ PruneAnswers(c) \/ PruneFails(c)

CallStep(c) == Connect(c) \/ PruneConnect(c) \/ ConnectFails(c) \/ Respond(c)

PgNext == \/ \E c \in Caller : \/ \E b \in Batch : UpsertCall(c, b)
                               \/ \E t \in Time : PruneCall(c, t)
                               \/ CallStep(c)
                               \/ \E outcome \in {"ok", "error"} : Return(c, outcome)
          \/ Tick
          \/ Disconnect

(* Every statement is answered or rejected (no statement timeout is set: this
   is the database's part), and pg-pool serves waiting connects in order, so
   one that could be served again and again is served. *)
PgFairness == \A c \in Caller :
    WF_pgVars(Respond(c)) /\ SF_pgVars(Connect(c) \/ PruneConnect(c))

PgSpec == PgInit /\ [][PgNext]_pgVars

PgFairSpec == PgSpec /\ PgFairness

-------------------------------------------------------------------------------
(* A call past its early return has events, and its loop stays inside them. *)
LoopInBatch ==
    \A c \in Caller :
        /\ stage[c] \in Upserting => batch[c] \in Batch /\ batch[c] # <<>>
        /\ stage[c] = "insert" => pos[c] \in 1 .. Len(batch[c])
        /\ stage[c] = "commit" => pos[c] = Len(batch[c]) + 1

(* Uncommitted rows belong to one open transaction. *)
RowLocks ==
    \A c \in Caller, id \in Id : work[c][id] # NoRow =>
        /\ stage[c] \in {"insert", "commit", "rollback"}
        /\ ~ LockedByOther(c, id)

(* What a transaction has written so far is what the contract makes of the
   events its loop has passed, against the table as it is now. *)
PrefixWritten(c) ==
    \A id \in Id :
        /\ work[c][id] = NoRow <=> Hits(batch[c], pos[c] - 1, id) = {}
        /\ Upserted(rows[id], Seen(c, id), batch[c], pos[c] - 1, id, began[c])

UncommittedMatchesPrefix ==
    \A c \in Caller : stage[c] \in {"insert", "commit"} => PrefixWritten(c)

(* No commit, rollback, failure or DELETE of another caller pulls the rows out
   from under a transaction between its BEGIN and its COMMIT (the loop of
   upsertEvents).  This is the inductive invariant behind the refinement. *)
TransactionsIsolated == LoopInBatch /\ RowLocks /\ UncommittedMatchesPrefix

(* A pooled client is out exactly while its call is between connect() and the
   finally block, or has its DELETE at the database, on the error paths too: no
   sequence of failures leaks one. *)
NoClientLeak == held = {c \in Caller : stage[c] \in HoldsClient}

(* The table changes only as the event-store contract allows: each commit is a
   whole batch, however the transactions interleave and fail. *)
ES == INSTANCE EventStore
ImplementsEventStore == ES!Spec

(* Every upsertEvents and pruneOlderThan call settles: no failure of another
   call keeps the pool's clients from those who wait for one. *)
EveryCallSettles == \A c \in Caller : stage[c] # "idle" ~> stage[c] = "idle"
===============================================================================
