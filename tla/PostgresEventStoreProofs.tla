----------------------- MODULE PostgresEventStoreProofs -----------------------
(***************************************************************************)
(* What PostgresEventStore guarantees for every set of callers, ids and    *)
(* batches, every pool size and every bound on the clock.                  *)
(***************************************************************************)
EXTENDS PostgresEventStore, TLAPS

-------------------------------------------------------------------------------
(* Lemmas on the rows an upsert produces *)

LEMMA HitsStep ==
  ASSUME NEW b, NEW n \in Nat \ {0}, NEW id
  PROVE  Hits(b, n, id) = Hits(b, n - 1, id) \cup (IF b[n].id = id THEN {n} ELSE {})
BY DEF Hits

(* An event of another id does not touch the row. *)
LEMMA UpsertedSkips ==
  ASSUME NEW b, NEW n \in Nat \ {0}, NEW id, NEW old, NEW new, NEW t,
         b[n].id # id, Upserted(old, new, b, n - 1, id, t)
  PROVE  Upserted(old, new, b, n, id, t)
<1>1. Hits(b, n, id) = Hits(b, n - 1, id)
  BY DEF Hits
<1> QED BY <1>1 DEF Upserted

(* One iteration of upsertEvents' loop extends the prefix by one event. *)
LEMMA OnConflictExtends ==
  ASSUME NEW b \in Batch, NEW n \in 1 .. Len(b), NEW t \in Time,
         NEW old \in Row \cup {NoRow}, NEW seen \in Row \cup {NoRow},
         Upserted(old, seen, b, n - 1, b[n].id, t)
  PROVE  /\ OnConflict(seen, b[n], t) \in Row
         /\ Upserted(old, OnConflict(seen, b[n], t), b, n, b[n].id, t)
<1> DEFINE id == b[n].id
           before == Hits(b, n - 1, id)
           new == OnConflict(seen, b[n], t)
<1>1. b \in Seq(Event) /\ n \in Nat \ {0} /\ b[n] \in Event
  BY EventsAssumption
<1>2. Hits(b, n, id) = before \cup {n} /\ \A i \in before : i <= n
  BY <1>1, HitsStep DEF Hits
<1>3. new \in Row
  BY <1>1 DEF OnConflict, Written, Row, Event
<1>4. new.content = b[n].content
  BY <1>1 DEF OnConflict, Written, Row
<1>5. CASE before = {}
  <2>1. seen = old
    BY <1>5 DEF Upserted
  <2> QED BY <1>1, <1>2, <1>3, <1>4, <1>5, <2>1 DEF Upserted, OnConflict, Written, Row
<1>6. CASE before # {}
  <2>1. seen \in Row /\ seen # NoRow
    BY <1>6, EventsAssumption DEF Upserted
  <2>2. new = [seen EXCEPT !.content = b[n].content,
                           !.refs = @ \cup {b[n].ref},
                           !.lastUpdatedAt = IF b[n].content # seen.content THEN t ELSE @]
    BY <2>1 DEF OnConflict, Written
  <2>3. /\ new.refs = seen.refs \cup {b[n].ref}
        /\ new.place = seen.place
        /\ new.firstSeenAt = seen.firstSeenAt
        /\ new.lastUpdatedAt = IF b[n].content # seen.content THEN t ELSE seen.lastUpdatedAt
    BY <2>1, <2>2 DEF Row
  <2>4. new.refs = {b[i].ref : i \in before \cup {n}} \cup (IF old # NoRow THEN old.refs ELSE {})
    <3>1. seen.refs = {b[i].ref : i \in before} \cup (IF old # NoRow THEN old.refs ELSE {})
      BY <1>6 DEF Upserted
    <3> QED BY <3>1, <2>3
  <2>5. \/ \E i \in before \cup {n} : new.place = b[i].place
        \/ old # NoRow /\ new.place = old.place
    BY <1>6, <2>3 DEF Upserted
  <2>6. new.firstSeenAt = IF old # NoRow THEN old.firstSeenAt ELSE t
    BY <1>6, <2>3 DEF Upserted
  <2>7. new.lastUpdatedAt = IF old # NoRow /\ \A i \in before \cup {n} : b[i].content = old.content
                              THEN old.lastUpdatedAt ELSE t
    <3>1. seen.lastUpdatedAt = IF old # NoRow /\ \A i \in before : b[i].content = old.content
                                 THEN old.lastUpdatedAt ELSE t
      BY <1>6 DEF Upserted
    <3>2. \E last \in before : seen.content = b[last].content
      BY <1>6 DEF Upserted
    <3> QED BY <3>1, <3>2, <2>3
  <2>8. \E last \in before \cup {n} : /\ \A i \in before \cup {n} : i <= last
                                      /\ new.content = b[last].content
    BY <1>1, <1>2, <1>4
  <2> QED BY <1>2, <1>3, <2>4, <2>5, <2>6, <2>7, <2>8 DEF Upserted
<1> QED BY <1>3, <1>5, <1>6

-------------------------------------------------------------------------------
(* Type correctness *)

LEMMA InsertWritesRow ==
  ASSUME PgTypeOK, LoopInBatch, NEW c \in Caller, stage[c] = "insert"
  PROVE  LET e == batch[c][pos[c]] IN
           /\ batch[c] \in Batch /\ pos[c] \in 1 .. Len(batch[c])
           /\ e \in Event
           /\ Seen(c, e.id) \in Row \cup {NoRow}
           /\ OnConflict(Seen(c, e.id), e, began[c]) \in Row
<1> DEFINE e == batch[c][pos[c]]
<1>1. batch[c] \in Batch /\ pos[c] \in 1 .. Len(batch[c])
  BY DEF LoopInBatch, Upserting
<1>2. e \in Event
  BY <1>1, EventsAssumption
<1>3. Seen(c, e.id) \in Row \cup {NoRow}
  BY <1>2 DEF PgTypeOK, Rows, Seen, Event
<1>4. began[c] \in Time
  BY DEF PgTypeOK
<1>5. OnConflict(Seen(c, e.id), e, began[c]) \in Row
  BY <1>2, <1>3, <1>4 DEF OnConflict, Written, Row, Event
<1> QED BY <1>1, <1>2, <1>3, <1>5

(* The early return and the loop bound of upsertEvents keep every event access
   inside the batch. *)
LEMMA LoopInBatchStep ==
  ASSUME PgTypeOK, LoopInBatch, [PgNext]_pgVars
  PROVE  LoopInBatch'
<1> USE DEF PgTypeOK, LoopInBatch
<1>1. ASSUME NEW c \in Caller, NEW b \in Batch, UpsertCall(c, b)
      PROVE  LoopInBatch'
  BY <1>1 DEF UpsertCall, Upserting
<1>2. ASSUME NEW c \in Caller, Connect(c) \/ Begin(c)
      PROVE  LoopInBatch'
  <2>1. CASE Connect(c)
    BY <2>1 DEF Connect, Upserting
  <2>2. CASE Begin(c)
    <3>1. batch[c] \in Seq(Event) /\ batch[c] # <<>> /\ batch[c] \in Batch
      BY <2>2, EventsAssumption DEF Begin, Upserting
    <3>2. 1 \in 1 .. Len(batch[c])
      BY <3>1
    <3> QED BY <2>2, <3>1, <3>2 DEF Begin, Upserting
  <2> QED BY <1>2, <2>1, <2>2
<1>3. ASSUME NEW c \in Caller,
             ConnectFails(c) \/ Ack(c) \/ Rollback(c) \/ PruneAnswers(c) \/ PruneFails(c)
      PROVE  LoopInBatch'
  BY <1>3 DEF ConnectFails, Ack, Rollback, PruneAnswers, PruneFails, Settle, Release, Upserting
<1>4. ASSUME NEW c \in Caller, Insert(c)
      PROVE  LoopInBatch'
  <2>1. batch[c] \in Seq(Event) /\ pos[c] \in 1 .. Len(batch[c])
    BY <1>4, EventsAssumption DEF Insert
  <2>2. Len(batch[c]) \in Nat
    BY <2>1
  <2> QED BY <1>4, <2>1, <2>2 DEF Insert, Upserting
<1>5. ASSUME NEW c \in Caller, Commit(c) \/ LoseAck(c) \/ QueryFails(c)
      PROVE  LoopInBatch'
  BY <1>5 DEF Commit, LoseAck, QueryFails, Upserting
<1>6. ASSUME NEW c \in Caller, (\E t \in Time : PruneCall(c, t)) \/ PruneConnect(c) \/ Delete(c)
      PROVE  LoopInBatch'
  BY <1>6 DEF PruneCall, PruneConnect, Delete, Upserting
<1>7. CASE Tick \/ UNCHANGED pgVars
  BY <1>7 DEF Tick, pgVars, txnVars
<1>8. CASE Disconnect
  BY <1>8 DEF Disconnect, Upserting
<1>9. ASSUME NEW c \in Caller, NEW outcome \in {"ok", "error"}, Return(c, outcome)
      PROVE  LoopInBatch'
  BY <1>9 DEF Return
<1> QED BY <1>1, <1>2, <1>3, <1>4, <1>5, <1>6, <1>7, <1>8, <1>9 DEF PgNext, CallStep, Respond

LEMMA PgTypeStep ==
  ASSUME PgTypeOK, LoopInBatch, [PgNext]_pgVars
  PROVE  PgTypeOK'
<1> USE DEF PgTypeOK
<1>1. ASSUME NEW c \in Caller, NEW b \in Batch, UpsertCall(c, b)
      PROVE  PgTypeOK'
  BY <1>1 DEF UpsertCall, Stage, Upserting
<1>2. ASSUME NEW c \in Caller, Connect(c) \/ Begin(c)
      PROVE  PgTypeOK'
  <2>1. CASE Connect(c)
    BY <2>1 DEF Connect, Stage, Upserting
  <2>2. CASE Begin(c)
    BY <2>2 DEF Begin, Stage, Upserting
  <2> QED BY <1>2, <2>1, <2>2
<1>3. ASSUME NEW c \in Caller,
             ConnectFails(c) \/ Ack(c) \/ Rollback(c) \/ PruneAnswers(c) \/ PruneFails(c)
      PROVE  PgTypeOK'
  <2>1. ASSUME NEW r \in {"ok", "error"}, Settle(c, r)
        PROVE  /\ stage' \in [Caller -> Stage] /\ batch' \in [Caller -> Batch \cup {<<>>}]
               /\ pos' \in [Caller -> Nat] /\ began' \in [Caller -> Time]
               /\ cutoff' \in [Caller -> Time]
               /\ held' \subseteq Caller /\ result' \in [Caller -> {"none", "ok", "error"}]
    BY <2>1, EventsAssumption DEF Settle, Release, Stage, Time
  <2>2. CASE ConnectFails(c)
    BY <2>1, <2>2 DEF ConnectFails
  <2>3. CASE Ack(c)
    BY <2>1, <2>3 DEF Ack
  <2>4. CASE Rollback(c)
    BY <2>1, <2>4 DEF Rollback, Rows, NoRows
  <2>5. CASE PruneAnswers(c) \/ PruneFails(c)
    BY <2>1, <2>5 DEF PruneAnswers, PruneFails
  <2> QED BY <1>3, <2>2, <2>3, <2>4, <2>5
<1>4. ASSUME NEW c \in Caller, Insert(c)
      PROVE  PgTypeOK'
  <2> DEFINE e == batch[c][pos[c]]
             row == OnConflict(Seen(c, e.id), e, began[c])
  <2>1. /\ batch[c] \in Batch /\ pos[c] \in 1 .. Len(batch[c])
        /\ e.id \in Id
        /\ row \in Row
    BY <1>4, InsertWritesRow DEF Insert, Event
  <2>2. work' \in [Caller -> Rows]
    <3>1. work' = [work EXCEPT ![c] = [work[c] EXCEPT ![e.id] = row]]
      BY <1>4 DEF Insert
    <3>2. [work[c] EXCEPT ![e.id] = row] \in Rows
      BY <2>1 DEF Rows
    <3> QED BY <3>1, <3>2
  <2>3. pos' \in [Caller -> Nat] /\ stage' \in [Caller -> Stage]
    BY <1>4 DEF Insert, Stage, Upserting
  <2> QED BY <1>4, <2>2, <2>3 DEF Insert
<1>5. ASSUME NEW c \in Caller, Commit(c) \/ LoseAck(c) \/ QueryFails(c)
      PROVE  PgTypeOK'
  <2>1. CASE Commit(c)
    BY <2>1 DEF Commit, Stage, Upserting, Rows, NoRows, Seen
  <2>2. CASE LoseAck(c)
    BY <2>2 DEF LoseAck, Stage, Upserting
  <2>3. CASE QueryFails(c)
    BY <2>3 DEF QueryFails, Stage, Upserting, Rows, NoRows
  <2> QED BY <1>5, <2>1, <2>2, <2>3
<1>6. ASSUME NEW c \in Caller, (\E t \in Time : PruneCall(c, t)) \/ PruneConnect(c) \/ Delete(c)
      PROVE  PgTypeOK'
  <2>1. CASE \E t \in Time : PruneCall(c, t)
    BY <2>1 DEF PruneCall, Stage, Pruning
  <2>2. CASE PruneConnect(c)
    BY <2>2 DEF PruneConnect, Stage, Pruning
  <2>3. CASE Delete(c)
    BY <2>3 DEF Delete, Stage, Pruning, Rows, Without
  <2> QED BY <1>6, <2>1, <2>2, <2>3
<1>7. CASE Tick \/ UNCHANGED pgVars
  BY <1>7 DEF Tick, pgVars, txnVars
<1>8. CASE Disconnect
  BY <1>8, EventsAssumption DEF Disconnect, Stage, Time, Rows, NoRows
<1>9. ASSUME NEW c \in Caller, NEW outcome \in {"ok", "error"}, Return(c, outcome)
      PROVE  PgTypeOK'
  BY <1>9 DEF Return
<1> QED BY <1>1, <1>2, <1>3, <1>4, <1>5, <1>6, <1>7, <1>8, <1>9 DEF PgNext, CallStep, Respond

(* Types are kept and no statement reads past its batch (upsertEvents). *)
THEOREM PgTypeCorrect == PgSpec => [](PgTypeOK /\ LoopInBatch)
<1>1. PgInit => PgTypeOK /\ LoopInBatch
  BY EventsAssumption DEF PgInit, PgTypeOK, LoopInBatch, Rows, NoRows, Time, Stage, Upserting
<1>2. PgTypeOK /\ LoopInBatch /\ [PgNext]_pgVars => (PgTypeOK /\ LoopInBatch)'
  BY LoopInBatchStep, PgTypeStep
<1> QED BY <1>1, <1>2, PTL DEF PgSpec

-------------------------------------------------------------------------------
(* Transactions do not disturb each other *)

(* A row is written by one open transaction at a time. *)
LEMMA RowLocksStep ==
  ASSUME PgTypeOK, LoopInBatch, RowLocks, [PgNext]_pgVars
  PROVE  RowLocks'
<1> USE DEF PgTypeOK, RowLocks, LockedByOther
<1>1. ASSUME NEW c \in Caller, NEW b \in Batch, UpsertCall(c, b)
      PROVE  RowLocks'
  BY <1>1 DEF UpsertCall
<1>2. ASSUME NEW c \in Caller, Connect(c) \/ Begin(c)
      PROVE  RowLocks'
  BY <1>2 DEF Connect, Begin
<1>3. ASSUME NEW c \in Caller,
             ConnectFails(c) \/ Ack(c) \/ Rollback(c) \/ PruneAnswers(c) \/ PruneFails(c)
      PROVE  RowLocks'
  <2>1. \A id \in Id : ~ Rollback(c) => work[c][id] = NoRow
    BY <1>3 DEF ConnectFails, Ack, PruneAnswers, PruneFails
  <2>2. \A d \in Caller, id \in Id :
          work'[d][id] = IF d = c THEN NoRow ELSE work[d][id]
    BY <1>3, <2>1 DEF ConnectFails, Ack, Rollback, PruneAnswers, PruneFails, NoRows
  <2>3. \A d \in Caller \ {c} : stage'[d] = stage[d]
    BY <1>3 DEF ConnectFails, Ack, Rollback, PruneAnswers, PruneFails, Settle, Release
  <2> SUFFICES ASSUME NEW d \in Caller, NEW id \in Id, work'[d][id] # NoRow
               PROVE  /\ stage'[d] \in {"insert", "commit", "rollback"}
                      /\ \A f \in Caller \ {d} : work'[f][id] = NoRow
    OBVIOUS
  <2>4. d # c /\ work[d][id] # NoRow
    BY <2>2
  <2> QED BY <2>2, <2>3, <2>4
<1>4. ASSUME NEW c \in Caller, Insert(c)
      PROVE  RowLocks'
  <2> DEFINE e == batch[c][pos[c]]
             row == OnConflict(Seen(c, e.id), e, began[c])
  <2>1. e.id \in Id /\ row \in Row /\ row # NoRow
    BY <1>4, InsertWritesRow, EventsAssumption DEF Insert, Event
  <2>2. \A d \in Caller, id \in Id :
          work'[d][id] = IF d = c /\ id = e.id THEN row ELSE work[d][id]
    BY <1>4, <2>1 DEF Insert, Rows
  <2>3. stage[c] = "insert" /\ stage'[c] \in {"insert", "commit"}
    BY <1>4 DEF Insert
  <2>4. \A d \in Caller \ {c} : work[d][e.id] = NoRow /\ stage'[d] = stage[d]
    BY <1>4 DEF Insert
  <2> SUFFICES ASSUME NEW d \in Caller, NEW id \in Id, work'[d][id] # NoRow
               PROVE  /\ stage'[d] \in {"insert", "commit", "rollback"}
                      /\ \A f \in Caller \ {d} : work'[f][id] = NoRow
    OBVIOUS
  <2> HIDE DEF e, row
  <2>5. CASE id = e.id
    <3>1. d = c
      BY <2>2, <2>4, <2>5
    <3>2. \A f \in Caller \ {c} : work'[f][id] = NoRow
      BY <2>2, <2>4, <2>5
    <3> QED BY <2>3, <3>1, <3>2
  <2>6. CASE id # e.id
    <3>1. \A f \in Caller : work'[f][id] = work[f][id]
      BY <2>2, <2>6
    <3>2. /\ stage[d] \in {"insert", "commit", "rollback"}
          /\ \A f \in Caller \ {d} : work[f][id] = NoRow
      BY <3>1
    <3>3. stage'[d] \in {"insert", "commit", "rollback"}
      BY <2>3, <2>4, <3>2
    <3> QED BY <3>1, <3>2, <3>3
  <2> QED BY <2>5, <2>6
<1>5. ASSUME NEW c \in Caller, Commit(c) \/ LoseAck(c) \/ QueryFails(c)
      PROVE  RowLocks'
  <2>1. CASE Commit(c)
    BY <2>1 DEF Commit, NoRows
  <2>2. CASE LoseAck(c)
    BY <2>2 DEF LoseAck
  <2>3. CASE QueryFails(c)
    BY <2>3 DEF QueryFails, NoRows
  <2> QED BY <1>5, <2>1, <2>2, <2>3
<1>6. ASSUME NEW c \in Caller, (\E t \in Time : PruneCall(c, t)) \/ PruneConnect(c) \/ Delete(c)
      PROVE  RowLocks'
  BY <1>6 DEF PruneCall, PruneConnect, Delete
<1>7. CASE Tick \/ UNCHANGED pgVars
  BY <1>7 DEF Tick, pgVars, txnVars
<1>8. CASE Disconnect
  BY <1>8 DEF Disconnect, NoRows
<1>9. ASSUME NEW c \in Caller, NEW outcome \in {"ok", "error"}, Return(c, outcome)
      PROVE  RowLocks'
  BY <1>9 DEF Return
<1> QED BY <1>1, <1>2, <1>3, <1>4, <1>5, <1>6, <1>7, <1>8, <1>9 DEF PgNext, CallStep, Respond

(* A step that leaves d's transaction and the rows it has written alone leaves
   its prefix as it was, whatever it does to other rows. *)
LEMMA PrefixKept ==
  ASSUME NEW d \in Caller, PrefixWritten(d),
         batch'[d] = batch[d], pos'[d] = pos[d], began'[d] = began[d],
         work'[d] = work[d],
         \A id \in Id : work[d][id] # NoRow => rows'[id] = rows[id]
  PROVE  PrefixWritten(d)'
<1> SUFFICES ASSUME NEW id \in Id
             PROVE  /\ work'[d][id] = NoRow <=> Hits(batch'[d], pos'[d] - 1, id) = {}
                    /\ Upserted(rows'[id], Seen(d, id)', batch'[d], pos'[d] - 1, id, began'[d])
  BY DEF PrefixWritten
<1>1. work'[d][id] = NoRow <=> Hits(batch'[d], pos'[d] - 1, id) = {}
  BY DEF PrefixWritten
<1>2. CASE work[d][id] = NoRow
  <2>1. Seen(d, id)' = rows'[id]
    BY <1>2 DEF Seen
  <2> QED BY <1>1, <1>2, <2>1 DEF Upserted
<1>3. CASE work[d][id] # NoRow
  <2>1. Seen(d, id)' = Seen(d, id) /\ rows'[id] = rows[id]
    BY <1>3 DEF Seen
  <2> QED BY <2>1 DEF PrefixWritten
<1> QED BY <1>1, <1>2, <1>3

(* BEGIN starts with nothing written. *)
LEMMA BeginStartsPrefix ==
  ASSUME PgTypeOK, RowLocks, NEW c \in Caller, Begin(c)
  PROVE  PrefixWritten(c)'
<1>1. pos'[c] = 1 /\ work' = work /\ rows' = rows
  BY DEF Begin, PgTypeOK
<1>2. \A id \in Id : work[c][id] = NoRow
  BY DEF Begin, RowLocks
<1>3. \A id \in Id : Hits(batch'[c], pos'[c] - 1, id) = {}
  BY <1>1 DEF Hits
<1>4. \A id \in Id : Seen(c, id)' = rows'[id]
  BY <1>1, <1>2 DEF Seen
<1> QED BY <1>1, <1>2, <1>3, <1>4 DEF PrefixWritten, Upserted

(* One INSERT ... ON CONFLICT adds its event to the prefix. *)
LEMMA InsertExtendsPrefix ==
  ASSUME PgTypeOK, LoopInBatch, NEW c \in Caller, PrefixWritten(c), Insert(c)
  PROVE  PrefixWritten(c)'
<1> DEFINE b == batch[c]
           n == pos[c]
           e == b[n]
           row == OnConflict(Seen(c, e.id), e, began[c])
<1>1. /\ stage[c] = "insert" /\ b \in Batch /\ n \in 1 .. Len(b) /\ n \in Nat \ {0}
      /\ e.id \in Id /\ began[c] \in Time
      /\ Seen(c, e.id) \in Row \cup {NoRow}
      /\ rows[e.id] \in Row \cup {NoRow}
  <2>1. stage[c] = "insert"
    BY DEF Insert
  <2>2. b \in Batch /\ n \in 1 .. Len(b) /\ e \in Event /\ Seen(c, e.id) \in Row \cup {NoRow}
    BY <2>1, InsertWritesRow
  <2>3. e.id \in Id
    BY <2>2 DEF Event
  <2>4. n \in Nat \ {0} /\ began[c] \in Time /\ rows[e.id] \in Row \cup {NoRow}
    BY <2>2, <2>3 DEF PgTypeOK, Rows
  <2> QED BY <2>1, <2>2, <2>3, <2>4
<1>2. /\ row \in Row /\ row # NoRow
      /\ Upserted(rows[e.id], row, b, n, e.id, began[c])
  BY <1>1, OnConflictExtends, EventsAssumption DEF PrefixWritten
<1>3. /\ batch' = batch /\ began' = began /\ rows' = rows
      /\ pos'[c] = n + 1
      /\ \A id \in Id : work'[c][id] = IF id = e.id THEN row ELSE work[c][id]
  BY <1>1 DEF Insert, PgTypeOK, Rows
<1>4. pos'[c] - 1 = n
  BY <1>1, <1>3
<1> SUFFICES ASSUME NEW id \in Id
             PROVE  /\ work'[c][id] = NoRow <=> Hits(b, n, id) = {}
                    /\ Upserted(rows[id], Seen(c, id)', b, n, id, began[c])
  BY <1>3, <1>4 DEF PrefixWritten
<1>5. CASE id = e.id
  <2>1. n \in Hits(b, n, id)
    BY <1>1, <1>5 DEF Hits
  <2>2. work'[c][id] = row /\ Seen(c, id)' = row
    BY <1>2, <1>3, <1>5 DEF Seen
  <2> QED BY <1>2, <1>5, <2>1, <2>2
<1>6. CASE id # e.id
  <2>1. Hits(b, n, id) = Hits(b, n - 1, id)
    BY <1>1, <1>6 DEF Hits
  <2>2. work'[c][id] = work[c][id] /\ Seen(c, id)' = Seen(c, id)
    BY <1>3, <1>6 DEF Seen
  <2> QED BY <1>1, <1>6, <2>1, <2>2, UpsertedSkips DEF PrefixWritten
<1> QED BY <1>5, <1>6

LEMMA UncommittedStep ==
  ASSUME PgTypeOK, TransactionsIsolated, [PgNext]_pgVars
  PROVE  UncommittedMatchesPrefix'
<1> SUFFICES ASSUME NEW d \in Caller, stage'[d] \in {"insert", "commit"}
             PROVE  PrefixWritten(d)'
  BY DEF UncommittedMatchesPrefix
<1> USE DEF PgTypeOK, TransactionsIsolated
<1> DEFINE Kept == /\ stage[d] \in {"insert", "commit"}
                   /\ batch'[d] = batch[d] /\ pos'[d] = pos[d]
                   /\ began'[d] = began[d] /\ work'[d] = work[d]
                   /\ \A id \in Id : work[d][id] # NoRow => rows'[id] = rows[id]
<1>1. Kept => PrefixWritten(d)'
  BY PrefixKept DEF UncommittedMatchesPrefix
<1>2. ASSUME NEW c \in Caller, NEW b \in Batch, UpsertCall(c, b)
      PROVE  Kept
  BY <1>2 DEF UpsertCall
<1>3. ASSUME NEW c \in Caller, Connect(c)
      PROVE  Kept
  BY <1>3 DEF Connect
<1>4. ASSUME NEW c \in Caller, Begin(c)
      PROVE  PrefixWritten(d)'
  <2>1. CASE c = d
    BY <1>4, <2>1, BeginStartsPrefix
  <2>2. CASE c # d
    BY <1>1, <1>4, <2>2 DEF Begin
  <2> QED BY <2>1, <2>2
<1>5. ASSUME NEW c \in Caller, Insert(c)
      PROVE  PrefixWritten(d)'
  <2>1. CASE c = d
    <3>1. PrefixWritten(d)
      BY <1>5, <2>1 DEF Insert, UncommittedMatchesPrefix
    <3> QED BY <1>5, <2>1, <3>1, InsertExtendsPrefix
  <2>2. CASE c # d
    BY <1>1, <1>5, <2>2 DEF Insert
  <2> QED BY <2>1, <2>2
<1>6. ASSUME NEW c \in Caller,
             ConnectFails(c) \/ Ack(c) \/ Rollback(c) \/ PruneAnswers(c) \/ PruneFails(c)
      PROVE  Kept
  <2>1. c # d
    BY <1>6 DEF ConnectFails, Ack, Rollback, PruneAnswers, PruneFails, Settle, Release
  <2> QED BY <1>6, <2>1 DEF ConnectFails, Ack, Rollback, PruneAnswers, PruneFails, Settle, Release
<1>7. ASSUME NEW c \in Caller, Commit(c)
      PROVE  Kept
  <2>1. c # d
    BY <1>7 DEF Commit
  <2>2. \A id \in Id : work[d][id] # NoRow => rows'[id] = rows[id]
    BY <1>7, <2>1 DEF Commit, Seen, RowLocks, LockedByOther
  <2> QED BY <1>7, <2>1, <2>2 DEF Commit
<1>8. ASSUME NEW c \in Caller, LoseAck(c)
      PROVE  Kept
  BY <1>8 DEF LoseAck
<1>9. ASSUME NEW c \in Caller, QueryFails(c)
      PROVE  Kept
  <2>1. c # d
    BY <1>9 DEF QueryFails
  <2> QED BY <1>9, <2>1 DEF QueryFails
<1>10. ASSUME NEW c \in Caller, (\E t \in Time : PruneCall(c, t)) \/ PruneConnect(c)
       PROVE  Kept
  BY <1>10 DEF PruneCall, PruneConnect
<1>11. ASSUME NEW c \in Caller, Delete(c)
       PROVE  Kept
  <2>1. \A id \in Id : work[d][id] # NoRow => rows'[id] = rows[id]
    BY <1>11 DEF Delete, Without
  <2> QED BY <1>11, <2>1 DEF Delete
<1>12. CASE Tick \/ UNCHANGED pgVars
  <2>1. Kept
    BY <1>12 DEF Tick, pgVars, txnVars
  <2> QED BY <1>1, <2>1
<1>13. ~ Disconnect
  BY DEF Disconnect
<1>14. ASSUME NEW c \in Caller, NEW outcome \in {"ok", "error"}, Return(c, outcome)
       PROVE  Kept
  BY <1>14 DEF Return
<1> QED BY <1>1, <1>2, <1>3, <1>4, <1>5, <1>6, <1>7, <1>8, <1>9, <1>10, <1>11, <1>12, <1>13,
           <1>14
        DEF PgNext, CallStep, Respond

(* No interleaving of callers, failures and deletes disturbs an open
   transaction (upsertEvents between BEGIN and COMMIT). *)
THEOREM PgTransactionsIsolated == PgSpec => [](PgTypeOK /\ TransactionsIsolated)
<1>1. PgInit => PgTypeOK /\ TransactionsIsolated
  BY EventsAssumption DEF PgInit, PgTypeOK, TransactionsIsolated, LoopInBatch, RowLocks,
     LockedByOther, UncommittedMatchesPrefix, Rows, NoRows, Time, Stage, Upserting
<1>2. PgTypeOK /\ TransactionsIsolated /\ [PgNext]_pgVars => (PgTypeOK /\ TransactionsIsolated)'
  BY PgTypeStep, LoopInBatchStep, RowLocksStep, UncommittedStep DEF TransactionsIsolated
<1> QED BY <1>1, <1>2, PTL DEF PgSpec

-------------------------------------------------------------------------------
(* The finally block of upsertEvents and pool.query give every client back: a
   client is out exactly while its call is between connect() and its end. *)
THEOREM PgNoClientLeak == PgSpec => []NoClientLeak
<1>1. PgInit => NoClientLeak
  BY DEF PgInit, NoClientLeak, HoldsClient, Upserting, Pruning
<1>2. PgTypeOK /\ NoClientLeak /\ [PgNext]_pgVars => NoClientLeak'
  <2> SUFFICES ASSUME PgTypeOK, NoClientLeak, [PgNext]_pgVars
               PROVE  NoClientLeak'
    OBVIOUS
  <2> USE DEF PgTypeOK, NoClientLeak, HoldsClient, Upserting, Pruning
  <2>1. ASSUME NEW c \in Caller, NEW b \in Batch, UpsertCall(c, b)
        PROVE  NoClientLeak'
    BY <2>1 DEF UpsertCall
  <2>2. ASSUME NEW c \in Caller, Connect(c)
        PROVE  NoClientLeak'
    BY <2>2 DEF Connect
  <2>3. ASSUME NEW c \in Caller,
               ConnectFails(c) \/ Ack(c) \/ Rollback(c) \/ PruneAnswers(c) \/ PruneFails(c)
        PROVE  NoClientLeak'
    BY <2>3 DEF ConnectFails, Ack, Rollback, PruneAnswers, PruneFails, Settle, Release
  <2>4. ASSUME NEW c \in Caller, Begin(c)
        PROVE  NoClientLeak'
    BY <2>4 DEF Begin
  <2>5. ASSUME NEW c \in Caller, Insert(c)
        PROVE  NoClientLeak'
    BY <2>5 DEF Insert
  <2>6. ASSUME NEW c \in Caller, Commit(c) \/ LoseAck(c) \/ QueryFails(c)
        PROVE  NoClientLeak'
    BY <2>6 DEF Commit, LoseAck, QueryFails
  <2>7. ASSUME NEW c \in Caller, (\E t \in Time : PruneCall(c, t)) \/ PruneConnect(c) \/ Delete(c)
        PROVE  NoClientLeak'
    <3>1. CASE \E t \in Time : PruneCall(c, t)
      BY <3>1 DEF PruneCall
    <3>2. CASE PruneConnect(c)
      BY <3>2 DEF PruneConnect
    <3>3. CASE Delete(c)
      BY <3>3 DEF Delete
    <3> QED BY <2>7, <3>1, <3>2, <3>3
  <2>8. CASE Tick \/ UNCHANGED pgVars
    BY <2>8 DEF Tick, pgVars, txnVars
  <2>9. CASE Disconnect
    BY <2>9 DEF Disconnect
  <2>10. ASSUME NEW c \in Caller, NEW outcome \in {"ok", "error"}, Return(c, outcome)
         PROVE  NoClientLeak'
    BY <2>10 DEF Return
  <2> QED BY <2>1, <2>2, <2>3, <2>4, <2>5, <2>6, <2>7, <2>8, <2>9, <2>10 DEF PgNext, CallStep, Respond
<1> QED BY <1>1, <1>2, PgTypeCorrect, PTL DEF PgSpec

-------------------------------------------------------------------------------
(* PostgresEventStore implements the contract *)

LEMMA CommitStoresBatch ==
  ASSUME PgTypeOK, TransactionsIsolated, NEW c \in Caller, Commit(c), PgTypeOK'
  PROVE  ES!UpsertEvents(batch[c], began[c])
<1>1. batch[c] \in Seq(Event) /\ pos[c] - 1 = Len(batch[c])
  <2>1. batch[c] \in Batch /\ pos[c] = Len(batch[c]) + 1
    BY DEF Commit, TransactionsIsolated, LoopInBatch, Upserting
  <2>2. Len(batch[c]) \in Nat
    BY <2>1, EventsAssumption
  <2> QED BY <2>1, <2>2, EventsAssumption
<1>2. \A id \in Id : Upserted(rows[id], rows'[id], batch[c], Len(batch[c]), id, began[c])
  BY <1>1 DEF Commit, TransactionsIsolated, UncommittedMatchesPrefix, PrefixWritten
<1>3. rows' \in Rows
  BY DEF PgTypeOK
<1> QED BY <1>2, <1>3 DEF ES!UpsertEvents, ES!Upserted, ES!Hits, Upserted, Hits,
           ES!Rows, ES!Row, ES!Time, Rows, Row, Time

(* Every commit stores a whole batch as the contract says, every DELETE prunes
   as it says, and no other step touches the table: the SQL implementation
   implements the event-store contract. *)
THEOREM PgImplementsEventStore == PgSpec => ImplementsEventStore
<1>1. PgInit => ES!Init
  BY DEF PgInit, NoRows, ES!Init
<1>2. PgTypeOK /\ TransactionsIsolated /\ PgTypeOK' /\ [PgNext]_pgVars => [ES!Next]_rows
  <2> SUFFICES ASSUME PgTypeOK, TransactionsIsolated, PgTypeOK', [PgNext]_pgVars
               PROVE  [ES!Next]_rows
    OBVIOUS
  <2>1. ASSUME NEW c \in Caller, Commit(c)
        PROVE  ES!Next
    <3>1. ES!UpsertEvents(batch[c], began[c])
      BY <2>1, CommitStoresBatch
    <3>2. batch[c] \in Batch /\ began[c] \in ES!Time
      BY <2>1 DEF Commit, PgTypeOK, TransactionsIsolated, LoopInBatch, Upserting, Time,
                  ES!Time
    <3> QED BY <3>1, <3>2 DEF ES!Next
  <2>2. ASSUME NEW c \in Caller, Delete(c)
        PROVE  ES!Next
    <3>1. cutoff[c] \in Time
      BY DEF PgTypeOK
    <3>2. rows' = Without(rows, Expired(rows, cutoff[c]))
      BY <2>2 DEF Delete
    <3> QED BY <3>1, <3>2 DEF Without, Expired, Time, ES!Next, ES!PruneOlderThan, ES!Without,
                ES!Expired, ES!Time
  <2>3. ASSUME NEW c \in Caller, ~ Commit(c), ~ Delete(c), CallStep(c)
        PROVE  UNCHANGED rows
    BY <2>3 DEF CallStep, Respond, Connect, ConnectFails, Begin, Insert, Ack, LoseAck,
                QueryFails, Rollback, PruneConnect, PruneAnswers, PruneFails
  <2>4. ASSUME NEW c \in Caller, NEW b \in Batch, UpsertCall(c, b)
        PROVE  UNCHANGED rows
    BY <2>4 DEF UpsertCall
  <2>7. ASSUME NEW c \in Caller, NEW t \in Time, PruneCall(c, t)
        PROVE  UNCHANGED rows
    BY <2>7 DEF PruneCall
  <2>5. CASE Tick \/ Disconnect \/ UNCHANGED pgVars
    BY <2>5 DEF Tick, Disconnect, pgVars
  <2>6. ASSUME NEW c \in Caller, NEW outcome \in {"ok", "error"}, Return(c, outcome)
        PROVE  UNCHANGED rows
    BY <2>6 DEF Return
  <2> QED BY <2>1, <2>2, <2>3, <2>4, <2>5, <2>6, <2>7 DEF PgNext
<1> QED BY <1>1, <1>2, PgTransactionsIsolated, PTL DEF PgSpec, ImplementsEventStore, ES!Spec
===============================================================================
