---------------------------- MODULE PollLoopProofs ----------------------------
(***************************************************************************)
(* What the poll loop guarantees for every set of cycles, every interval,  *)
(* retention and pool size, and every content of the feed.                 *)
(***************************************************************************)
EXTENDS PollLoop, PostgresEventStoreProofs, FiniteSetTheorems

(* The part of the type invariant the store's arguments depend on. *)
CycleTyped == /\ pc \in [Caller -> Phase]
              /\ enriched \in [Caller -> Batch]

-------------------------------------------------------------------------------
(* The poll loop is a client of the store *)

LEMMA CycleTypedStep ==
  ASSUME now \in Time, CycleTyped, [PollNext]_pollVars
  PROVE  CycleTyped'
<1> USE DEF CycleTyped, Phase
<1>1. CASE Boot \/ Start \/ Stop \/ TickSkipped \/ TimePasses
  BY <1>1 DEF Boot, Start, Stop, Stops, TickSkipped, TimePasses, procVars, cycleVars
<1>2. CASE Crash
  BY <1>2, PollAssumption, EventsAssumption DEF Crash, Time
<1>3. ASSUME NEW c \in Caller, EndCycle(c)
      PROVE  CycleTyped'
  BY <1>3, PollAssumption, EventsAssumption DEF EndCycle, Settles, Time
<1>4. ASSUME NEW c \in Caller, TickRuns(c) \/ StoreStep(c)
      PROVE  CycleTyped'
  BY <1>4 DEF TickRuns, StartsCycle, StoreStep, procVars, cycleVars
<1>5. ASSUME NEW c \in Caller, FetchFails(c) \/ FetchWithoutKey(c) \/ UpsertRejected(c)
                               \/ PruneRejected(c) \/ PruneAnswered(c)
      PROVE  CycleTyped'
  BY <1>3, <1>5 DEF FetchFails, FetchWithoutKey, UpsertRejected, PruneRejected, PruneAnswered,
                    CycleFails, CycleSucceeds
<1>6. ASSUME NEW c \in Caller, Fetch(c) \/ StoreBatch(c) \/ UpsertResolved(c)
      PROVE  CycleTyped'
  BY <1>6 DEF Fetch, StoreBatch, UpsertResolved
<1>7. ASSUME NEW c \in Caller, Enrich(c)
      PROVE  CycleTyped'
  BY <1>7 DEF Enrich, Enriches
<1>8. CASE UNCHANGED pollVars
  BY <1>8 DEF pollVars, procVars, cycleVars
<1> QED BY <1>1, <1>2, <1>4, <1>5, <1>6, <1>7, <1>8 DEF PollNext, CycleStep

(* Every step of the loop is a step of the store or leaves the store alone. *)
LEMMA PollStepIsStoreStep ==
  ASSUME now \in Time, CycleTyped, [PollNext]_pollVars
  PROVE  [PgNext]_pgVars
<1> USE DEF CycleTyped
<1>1. CASE Boot \/ Start \/ Stop \/ TickSkipped \/ UNCHANGED pollVars
  BY <1>1 DEF Boot, Start, Stop, Stops, TickSkipped, pollVars
<1>2. CASE Crash
  BY <1>2 DEF Crash, PgNext
<1>3. CASE TimePasses
  BY <1>3 DEF TimePasses, PgNext
<1>4. ASSUME NEW c \in Caller, TickRuns(c) \/ FetchFails(c) \/ FetchWithoutKey(c) \/ Fetch(c)
                               \/ Enrich(c)
      PROVE  UNCHANGED pgVars
  BY <1>4 DEF TickRuns, StartsCycle, FetchFails, FetchWithoutKey, Fetch, Enrich, Enriches
<1>5. ASSUME NEW c \in Caller, StoreStep(c)
      PROVE  PgNext
  BY <1>5 DEF StoreStep, PgNext
<1>6. ASSUME NEW c \in Caller, StoreBatch(c)
      PROVE  PgNext
  BY <1>6 DEF StoreBatch, PgNext
<1>7. ASSUME NEW c \in Caller, UpsertRejected(c) \/ PruneRejected(c) \/ PruneAnswered(c)
      PROVE  PgNext
  BY <1>7 DEF UpsertRejected, PruneRejected, PruneAnswered, PgNext
<1>8. ASSUME NEW c \in Caller, UpsertResolved(c)
      PROVE  PgNext
  <2>1. Cutoff \in Time
    BY PollAssumption, EventsAssumption DEF Time, Cutoff
  <2> QED BY <1>8, <2>1 DEF UpsertResolved, PgNext
<1> QED BY <1>1, <1>2, <1>3, <1>4, <1>5, <1>6, <1>7, <1>8 DEF PollNext, CycleStep

(* pollOnce uses the store as its specification allows, so everything proved of
   the store holds in the running service. *)
THEOREM PollUsesStore == PollSpec => PgSpec /\ [](PgTypeOK /\ CycleTyped)
<1>1. PollInit => PgInit /\ PgTypeOK /\ CycleTyped
  <2>1. PgInit => PgTypeOK
    BY EventsAssumption DEF PgInit, PgTypeOK, Rows, NoRows, Time, Stage
  <2> QED BY <2>1, PollAssumption, EventsAssumption DEF PollInit, CycleTyped, Phase, Time
<1>2. PgTypeOK /\ LoopInBatch /\ CycleTyped /\ [PollNext]_pollVars
        => [PgNext]_pgVars /\ PgTypeOK' /\ LoopInBatch' /\ CycleTyped'
  BY PollStepIsStoreStep, CycleTypedStep, PgTypeStep, LoopInBatchStep DEF PgTypeOK
<1>3. PollInit => LoopInBatch
  BY DEF PollInit, PgInit, LoopInBatch, Upserting
<1> QED BY <1>1, <1>2, <1>3, PTL DEF PollSpec, PgSpec

-------------------------------------------------------------------------------
(* Cycles never overlap *)

LEMMA AtMostOneCycleStep ==
  ASSUME CycleTyped, AtMostOneCycle, [PollNext]_pollVars
  PROVE  AtMostOneCycle'
<1> USE DEF CycleTyped, AtMostOneCycle
<1>1. CASE Boot \/ Start \/ Stop \/ TickSkipped \/ TimePasses \/ UNCHANGED pollVars
  BY <1>1 DEF Boot, Start, Stop, Stops, TickSkipped, TimePasses, pollVars, procVars, cycleVars
<1>2. CASE Crash
  BY <1>2 DEF Crash
<1>3. ASSUME NEW c \in Caller, pc[c] # "none", EndCycle(c)
      PROVE  AtMostOneCycle'
  BY <1>3 DEF EndCycle, Settles
<1>4. ASSUME NEW c \in Caller, TickRuns(c)
      PROVE  AtMostOneCycle'
  BY <1>4 DEF TickRuns, StartsCycle
<1>5. ASSUME NEW c \in Caller, StoreStep(c) \/ Enrich(c)
      PROVE  AtMostOneCycle'
  BY <1>5 DEF StoreStep, Enrich, Enriches
<1>6. ASSUME NEW c \in Caller, FetchFails(c) \/ FetchWithoutKey(c) \/ UpsertRejected(c)
                               \/ PruneRejected(c) \/ PruneAnswered(c)
      PROVE  AtMostOneCycle'
  BY <1>3, <1>6 DEF FetchFails, FetchWithoutKey, UpsertRejected, PruneRejected, PruneAnswered,
                    CycleFails, CycleSucceeds
<1>7. ASSUME NEW c \in Caller, Fetch(c) \/ StoreBatch(c) \/ UpsertResolved(c)
      PROVE  AtMostOneCycle'
  <2>1. running' = running /\ pc[c] # "none"
    BY <1>7 DEF Fetch, StoreBatch, UpsertResolved
  <2>2. \E p \in Phase \ {"none"} : pc' = [pc EXCEPT ![c] = p]
    BY <1>7 DEF Fetch, StoreBatch, UpsertResolved, Phase
  <2> QED BY <2>1, <2>2
<1> QED BY <1>1, <1>2, <1>4, <1>5, <1>6, <1>7 DEF PollNext, CycleStep

(* createPoller's flag keeps pollOnce calls from overlapping, whatever the order
   of ticks, stop(), start(), failures and crashes. *)
THEOREM PollNeverOverlaps == PollSpec => []AtMostOneCycle
<1>1. PollInit => AtMostOneCycle
  BY DEF PollInit, AtMostOneCycle
<1>2. CycleTyped /\ AtMostOneCycle /\ [PollNext]_pollVars => AtMostOneCycle'
  BY AtMostOneCycleStep
<1> QED BY <1>1, <1>2, PollUsesStore, PTL DEF PollSpec

-------------------------------------------------------------------------------
(* One call of the store at a time *)

CycleAwaitsStore ==
    \A c \in Caller : /\ stage[c] \in Upserting => pc[c] = "upsert"
                      /\ stage[c] \in Pruning => pc[c] = "prune"

(* A step of a call keeps to it until the call settles, and to itself. *)
LEMMA StoreStepStages ==
  ASSUME stage \in [Caller -> Stage], NEW c \in Caller, StoreStep(c)
  PROVE  /\ stage[c] # "idle" /\ now' = now
         /\ UNCHANGED <<up, running, lastIngestAt, pc, enriched, startedAt>>
         /\ \A d \in Caller \ {c} : stage'[d] = stage[d]
         /\ \/ stage'[c] = "idle"
            \/ stage[c] \in Upserting /\ stage'[c] \in Upserting
            \/ stage[c] \in Pruning /\ stage'[c] \in Pruning
<1> USE DEF Upserting, Pruning
<1>1. UNCHANGED <<up, running, lastIngestAt, pc, enriched, startedAt>>
  BY DEF StoreStep
<1>2. CASE Connect(c) \/ Begin(c) \/ Insert(c) \/ Commit(c) \/ LoseAck(c) \/ QueryFails(c)
  BY <1>1, <1>2 DEF Connect, Begin, Insert, Commit, LoseAck, QueryFails
<1>3. CASE PruneConnect(c) \/ Delete(c)
  BY <1>1, <1>3 DEF PruneConnect, Delete
<1>4. CASE ConnectFails(c) \/ Ack(c) \/ Rollback(c) \/ PruneAnswers(c) \/ PruneFails(c)
  BY <1>1, <1>4 DEF ConnectFails, Ack, Rollback, PruneAnswers, PruneFails, Settle, Release
<1> QED BY <1>2, <1>3, <1>4 DEF StoreStep, CallStep, Respond

(* The cycle of a call under way is the only one. *)
LEMMA CallerIsTheCycle ==
  ASSUME stage \in [Caller -> Stage], AtMostOneCycle, CycleAwaitsStore,
         NEW c \in Caller, stage[c] # "idle"
  PROVE  /\ stage[c] \in Upserting => pc[c] = "upsert"
         /\ stage[c] \in Pruning => pc[c] = "prune"
         /\ \A d \in Caller \ {c} : pc[d] = "none" /\ stage[d] = "idle"
<1>1. \A d \in Caller : stage[d] = "idle" \/ stage[d] \in Upserting \/ stage[d] \in Pruning
  BY DEF Stage, Upserting, Pruning
<1>2. /\ stage[c] \in Upserting => pc[c] = "upsert"
      /\ stage[c] \in Pruning => pc[c] = "prune"
  BY DEF CycleAwaitsStore
<1>3. pc[c] # "none"
  BY <1>1, <1>2
<1>4. \A d \in Caller \ {c} : pc[d] = "none"
  BY <1>3 DEF AtMostOneCycle
<1>5. \A d \in Caller \ {c} : stage[d] = "idle"
  BY <1>1, <1>4 DEF CycleAwaitsStore
<1> QED BY <1>2, <1>4, <1>5

(* A cycle that is not at its upsert or its prune has no call under way. *)
LEMMA NoCallElsewhere ==
  ASSUME stage \in [Caller -> Stage], CycleAwaitsStore, NEW c \in Caller,
         pc[c] \notin {"upsert", "prune"}
  PROVE  stage[c] = "idle"
<1>1. stage[c] = "idle" \/ stage[c] \in Upserting \/ stage[c] \in Pruning
  BY DEF Stage, Upserting, Pruning
<1> QED BY <1>1 DEF CycleAwaitsStore

LEMMA CycleAwaitsStoreStep ==
  ASSUME stage \in [Caller -> Stage], CycleTyped, CycleAwaitsStore, [PollNext]_pollVars
  PROVE  CycleAwaitsStore'
<1> USE DEF CycleTyped, CycleAwaitsStore
<1>1. CASE Boot \/ Start \/ Stop \/ TickSkipped \/ TimePasses \/ UNCHANGED pollVars
  BY <1>1 DEF Boot, Start, Stop, Stops, TickSkipped, TimePasses, Tick, pollVars, procVars, cycleVars,
              pgVars, txnVars
<1>2. CASE Crash
  BY <1>2 DEF Crash, Disconnect, Upserting, Pruning
<1>3. ASSUME NEW c \in Caller, pc[c] \notin {"upsert", "prune"} \/ stage[c] = "idle", EndCycle(c),
             UNCHANGED stage
      PROVE  CycleAwaitsStore'
  BY <1>3 DEF EndCycle, Settles, Upserting, Pruning
<1>4. ASSUME NEW c \in Caller, TickRuns(c) \/ Fetch(c) \/ Enrich(c)
      PROVE  CycleAwaitsStore'
  BY <1>4 DEF TickRuns, StartsCycle, Fetch, Enrich, Enriches, pgVars, txnVars
<1>5. ASSUME NEW c \in Caller, FetchFails(c) \/ FetchWithoutKey(c) \/ UpsertRejected(c)
                               \/ PruneRejected(c) \/ PruneAnswered(c)
      PROVE  CycleAwaitsStore'
  BY <1>3, <1>5 DEF FetchFails, FetchWithoutKey, UpsertRejected, PruneRejected, PruneAnswered,
                    CycleFails, CycleSucceeds, Return, pgVars, txnVars
<1>6. ASSUME NEW c \in Caller, StoreBatch(c)
      PROVE  CycleAwaitsStore'
  BY <1>6 DEF StoreBatch, UpsertCall, Upserting, Pruning
<1>7. ASSUME NEW c \in Caller, UpsertResolved(c)
      PROVE  CycleAwaitsStore'
  BY <1>7 DEF UpsertResolved, PruneCall, Upserting, Pruning
<1>8. ASSUME NEW c \in Caller, StoreStep(c)
      PROVE  CycleAwaitsStore'
  <2>1. "idle" \notin Upserting /\ "idle" \notin Pruning /\ Upserting \cap Pruning = {}
    BY DEF Upserting, Pruning
  <2> QED BY <1>8, <2>1, StoreStepStages
<1> QED BY <1>1, <1>2, <1>4, <1>5, <1>6, <1>7, <1>8 DEF PollNext, CycleStep

(* Ingest never has two of the pool's clients out, be it for a transaction or for
   a DELETE: a client is out only for a cycle at its upsert or its prune (RUNBOOK
   "Poll loop hangs": pool exhaustion from several calls in flight). *)
THEOREM PollOneClient == PollSpec => []OneClientForIngest
<1>1. PollInit => CycleAwaitsStore
  BY DEF PollInit, PgInit, CycleAwaitsStore, Upserting, Pruning
<1>2. PgTypeOK /\ CycleTyped /\ CycleAwaitsStore /\ [PollNext]_pollVars => CycleAwaitsStore'
  BY CycleAwaitsStoreStep DEF PgTypeOK
<1>3. PgTypeOK /\ CycleAwaitsStore /\ AtMostOneCycle /\ NoClientLeak => OneClientForIngest
  <2> SUFFICES ASSUME PgTypeOK, CycleAwaitsStore, AtMostOneCycle, NoClientLeak
               PROVE  Cardinality(held) <= 1
    BY DEF OneClientForIngest, CycleAwaitsStore
  <2>1. ASSUME NEW c \in held
        PROVE  c \in Caller /\ pc[c] # "none"
    <3>1. c \in Caller /\ (stage[c] \in Upserting \/ stage[c] \in Pruning)
      BY DEF NoClientLeak, HoldsClient
    <3> QED BY <3>1 DEF CycleAwaitsStore
  <2>2. \A c, d \in held : c = d
    BY <2>1 DEF AtMostOneCycle
  <2>3. CASE held = {}
    BY <2>3, FS_EmptySet
  <2>4. CASE held # {}
    <3>1. PICK c \in held : held = {c}
      BY <2>2, <2>4
    <3> QED BY <3>1, FS_Singleton
  <2> QED BY <2>3, <2>4
<1> QED BY <1>1, <1>2, <1>3, PollUsesStore, PollNeverOverlaps, PgNoClientLeak, PTL DEF PollSpec

-------------------------------------------------------------------------------
(* Stamps never regress *)

OneTransaction == \A c, d \in Caller : stage[c] # "idle" /\ stage[d] # "idle" => c = d

(* No committed stamp is ahead of the clock, and none is later than the BEGIN of
   a transaction that may still write. *)
StampsBehind ==
    /\ \A id \in Id : rows[id] # NoRow => rows[id].lastUpdatedAt <= now
    /\ \A c \in Caller : stage[c] \in {"insert", "commit"} =>
          /\ began[c] <= now
          /\ \A id \in Id : rows[id] # NoRow => rows[id].lastUpdatedAt <= began[c]

StampsAdvance ==
    \A id \in Id : rows[id] # NoRow /\ rows'[id] # NoRow =>
        /\ rows'[id].lastUpdatedAt >= rows[id].lastUpdatedAt
        /\ rows'[id].firstSeenAt = rows[id].firstSeenAt

(* A commit's stamps are those of the rows it replaces or its BEGIN. *)
LEMMA CommitStamps ==
  ASSUME PgTypeOK, TransactionsIsolated, StampsBehind, NEW c \in Caller, Commit(c), NEW id \in Id,
         rows'[id] # NoRow
  PROVE  /\ rows'[id].lastUpdatedAt \in Nat
         /\ rows'[id].lastUpdatedAt <= began[c]
         /\ rows[id] # NoRow => /\ rows'[id].lastUpdatedAt >= rows[id].lastUpdatedAt
                                /\ rows'[id].firstSeenAt = rows[id].firstSeenAt
<1> DEFINE old == rows[id]
           new == rows'[id]
<1>1. new = Seen(c, id) /\ stage[c] = "commit"
  BY DEF Commit
<1>2. Upserted(old, new, batch[c], pos[c] - 1, id, began[c])
  BY <1>1 DEF TransactionsIsolated, UncommittedMatchesPrefix, PrefixWritten
<1>3. /\ began[c] \in Nat
      /\ old # NoRow => old \in Row /\ old.lastUpdatedAt \in Nat /\ old.lastUpdatedAt <= began[c]
  BY <1>1, EventsAssumption DEF PgTypeOK, StampsBehind, Rows, Row, Time
<1>4. CASE Hits(batch[c], pos[c] - 1, id) = {}
  <2>1. new = old
    BY <1>2, <1>4 DEF Upserted
  <2> QED BY <1>3, <2>1
<1>5. CASE Hits(batch[c], pos[c] - 1, id) # {}
  <2>1. /\ new.lastUpdatedAt = began[c] \/ (old # NoRow /\ new.lastUpdatedAt = old.lastUpdatedAt)
        /\ old # NoRow => new.firstSeenAt = old.firstSeenAt
    BY <1>2, <1>5 DEF Upserted
  <2> HIDE DEF old, new
  <2>2. /\ new.lastUpdatedAt \in Nat /\ new.lastUpdatedAt <= began[c]
        /\ old # NoRow => new.lastUpdatedAt >= old.lastUpdatedAt
    BY <1>3, <2>1
  <2> QED BY <2>1, <2>2 DEF old, new
<1> QED BY <1>4, <1>5

LEMMA StampsStep ==
  ASSUME PgTypeOK, TransactionsIsolated, OneTransaction, StampsBehind, [PgNext]_pgVars
  PROVE  StampsBehind' /\ StampsAdvance
<1>1. ASSUME UNCHANGED <<rows, now>>,
             \A d \in Caller : stage'[d] \in {"insert", "commit"} =>
                 stage[d] \in {"insert", "commit"} /\ began'[d] = began[d]
      PROVE  StampsBehind' /\ StampsAdvance
  <2>1. StampsBehind'
    BY <1>1 DEF StampsBehind
  <2>2. \A id \in Id : rows[id] # NoRow => rows[id].lastUpdatedAt \in Nat
    BY EventsAssumption DEF PgTypeOK, Rows, Row, Time
  <2> QED BY <1>1, <2>1, <2>2 DEF StampsAdvance
<1>2. CASE UNCHANGED pgVars
  BY <1>1, <1>2 DEF pgVars, txnVars
<1>3. ASSUME NEW c \in Caller, NEW b \in Batch, UpsertCall(c, b)
      PROVE  StampsBehind' /\ StampsAdvance
  BY <1>1, <1>3 DEF UpsertCall, PgTypeOK
<1>4. ASSUME NEW c \in Caller, Connect(c) \/ Insert(c) \/ LoseAck(c) \/ QueryFails(c)
      PROVE  StampsBehind' /\ StampsAdvance
  BY <1>1, <1>4 DEF Connect, Insert, LoseAck, QueryFails, PgTypeOK
<1>5. ASSUME NEW c \in Caller,
             ConnectFails(c) \/ Ack(c) \/ Rollback(c) \/ PruneAnswers(c) \/ PruneFails(c)
      PROVE  StampsBehind' /\ StampsAdvance
  BY <1>1, <1>5 DEF ConnectFails, Ack, Rollback, PruneAnswers, PruneFails, Settle, Release, PgTypeOK
<1>6. ASSUME NEW c \in Caller, NEW outcome, Return(c, outcome)
      PROVE  StampsBehind' /\ StampsAdvance
  BY <1>1, <1>6 DEF Return
<1>7. CASE Disconnect
  BY <1>1, <1>7 DEF Disconnect
<1>8. \A id \in Id : rows[id] # NoRow => rows[id].lastUpdatedAt \in Nat
  BY EventsAssumption DEF PgTypeOK, Rows, Row, Time
<1>9. ASSUME NEW c \in Caller, Begin(c)
      PROVE  StampsBehind' /\ StampsAdvance
  <2>1. /\ UNCHANGED <<rows, now>> /\ began'[c] = now /\ now \in Nat
        /\ \A d \in Caller \ {c} : stage'[d] = stage[d] /\ began'[d] = began[d]
    BY <1>9, EventsAssumption DEF Begin, PgTypeOK, Time
  <2> QED BY <1>8, <2>1 DEF StampsBehind, StampsAdvance
<1>10. ASSUME NEW c \in Caller, Commit(c)
       PROVE  StampsBehind' /\ StampsAdvance
  <2>1. stage[c] = "commit" /\ now' = now /\ began[c] \in Nat /\ now \in Nat /\ began[c] <= now
    BY <1>10, EventsAssumption DEF Commit, PgTypeOK, Time, StampsBehind
  <2>2. \A d \in Caller : stage'[d] \notin {"insert", "commit"}
    BY <1>10 DEF Commit, OneTransaction, PgTypeOK
  <2>3. \A id \in Id : rows'[id] # NoRow =>
           /\ rows'[id].lastUpdatedAt \in Nat /\ rows'[id].lastUpdatedAt <= began[c]
           /\ rows[id] # NoRow => /\ rows'[id].lastUpdatedAt >= rows[id].lastUpdatedAt
                                  /\ rows'[id].firstSeenAt = rows[id].firstSeenAt
    BY <1>10, CommitStamps
  <2>4. \A id \in Id : rows'[id] # NoRow => rows'[id].lastUpdatedAt <= now'
    BY <2>1, <2>3
  <2> QED BY <2>2, <2>3, <2>4 DEF StampsBehind, StampsAdvance
<1>11. ASSUME NEW c \in Caller, Delete(c)
       PROVE  StampsBehind' /\ StampsAdvance
  <2>1. /\ UNCHANGED <<now, began>>
        /\ \A d \in Caller : stage'[d] \in {"insert", "commit"} => stage[d] \in {"insert", "commit"}
        /\ \A id \in Id : rows'[id] # NoRow => rows'[id] = rows[id]
    BY <1>11 DEF Delete, Without, PgTypeOK
  <2> QED BY <1>8, <2>1 DEF StampsBehind, StampsAdvance
<1>12. CASE Tick
  <2>1. /\ UNCHANGED <<rows, stage, began>> /\ now \in Nat /\ now' = now + 1
        /\ \A c \in Caller : began[c] \in Nat
    BY <1>12, EventsAssumption DEF Tick, txnVars, PgTypeOK, Time
  <2> QED BY <1>8, <2>1 DEF StampsBehind, StampsAdvance
<1>13. ASSUME NEW c \in Caller, (\E t \in Time : PruneCall(c, t)) \/ PruneConnect(c)
       PROVE  StampsBehind' /\ StampsAdvance
  BY <1>1, <1>13 DEF PruneCall, PruneConnect, PgTypeOK
<1> QED BY <1>2, <1>3, <1>4, <1>5, <1>6, <1>7, <1>9, <1>10, <1>11, <1>12, <1>13
        DEF PgNext, CallStep, Respond

(* Sequential cycles give later transactions later stamps, so lastUpdatedAt never
   goes back and firstSeenAt never moves, for every interval and every batch. *)
THEOREM PollStampsNeverRegress == PollSpec => StampsNeverRegress
<1>1. PollInit => StampsBehind
  BY DEF PollInit, PgInit, NoRows, StampsBehind
<1>2. PgTypeOK /\ AtMostOneCycle /\ OneClientForIngest => OneTransaction
  BY DEF AtMostOneCycle, OneClientForIngest, OneTransaction, PgTypeOK, Stage
<1>3. /\ PgTypeOK /\ TransactionsIsolated /\ CycleTyped /\ OneTransaction /\ StampsBehind
      /\ [PollNext]_pollVars
      => StampsBehind' /\ [StampsAdvance]_pollVars
  BY PollStepIsStoreStep, StampsStep DEF PgTypeOK
<1>4. PollSpec => [][StampsAdvance]_pollVars
  BY <1>1, <1>2, <1>3, PollUsesStore, PollNeverOverlaps, PollOneClient, PgTransactionsIsolated,
     PTL DEF PollSpec
<1>5. [StampsAdvance]_pollVars => [\A id \in Id : rows[id] # NoRow /\ rows'[id] # NoRow =>
          /\ rows'[id].lastUpdatedAt >= rows[id].lastUpdatedAt
          /\ rows'[id].firstSeenAt = rows[id].firstSeenAt]_pollVars
  BY DEF StampsAdvance
<1> QED BY <1>4, <1>5, PTL DEF StampsNeverRegress

-------------------------------------------------------------------------------
(* Retention *)

(* A cycle's cutoff is at least the retention period ago, from the step that takes
   it to the one that uses it. *)
CutoffBehind == \A c \in Caller : cutoff[c] = 0 \/ cutoff[c] + Retention <= now

ExpiredOnly ==
    \A id \in Id : rows[id] # NoRow /\ rows'[id] = NoRow =>
        rows[id].lastUpdatedAt + Retention < now

LEMMA RetentionStep ==
  ASSUME PgTypeOK, CycleTyped, CutoffBehind, [PollNext]_pollVars
  PROVE  CutoffBehind' /\ ExpiredOnly
<1> USE DEF CutoffBehind
<1>1. /\ now \in Nat /\ Retention \in Nat /\ cutoff \in [Caller -> Nat]
      /\ \A id \in Id : rows[id] # NoRow => rows[id].lastUpdatedAt \in Nat
  BY EventsAssumption, PollAssumption DEF PgTypeOK, CycleTyped, Rows, Row, Time
<1>2. ASSUME now' = now, \A c \in Caller : cutoff'[c] \in {0, cutoff[c]},
             \A id \in Id : rows[id] # NoRow => rows'[id] # NoRow
      PROVE  CutoffBehind' /\ ExpiredOnly
  BY <1>2 DEF ExpiredOnly
<1>3. CASE Boot \/ Start \/ Stop \/ TickSkipped \/ UNCHANGED pollVars
  BY <1>2, <1>3 DEF Boot, Start, Stop, Stops, TickSkipped, pollVars, pgVars, txnVars
<1>4. CASE Crash
  BY <1>2, <1>4 DEF Crash, Disconnect
<1>5. CASE TimePasses
  BY <1>1, <1>5 DEF TimePasses, Tick, txnVars, ExpiredOnly
<1>6. ASSUME NEW c \in Caller, FetchFails(c) \/ FetchWithoutKey(c) \/ UpsertRejected(c)
                               \/ PruneRejected(c) \/ PruneAnswered(c)
      PROVE  CutoffBehind' /\ ExpiredOnly
  <2>1. UNCHANGED <<rows, now, cutoff>>
    BY <1>6 DEF FetchFails, FetchWithoutKey, UpsertRejected, PruneRejected, PruneAnswered, Return,
                pgVars, txnVars
  <2> QED BY <1>2, <2>1
<1>7. ASSUME NEW c \in Caller, Settle(c, "ok") \/ Settle(c, "error"), UNCHANGED <<rows, now>>
      PROVE  CutoffBehind' /\ ExpiredOnly
  BY <1>1, <1>2, <1>7 DEF Settle, Release
<1>8. ASSUME NEW c \in Caller, TickRuns(c) \/ Fetch(c) \/ Enrich(c) \/ StoreBatch(c)
      PROVE  CutoffBehind' /\ ExpiredOnly
  BY <1>2, <1>8 DEF TickRuns, StartsCycle, Fetch, Enrich, Enriches, StoreBatch, UpsertCall, pgVars,
                    txnVars
<1>9. ASSUME NEW c \in Caller, StoreStep(c)
      PROVE  CutoffBehind' /\ ExpiredOnly
  <2>1. CASE Commit(c)
    BY <1>2, <2>1 DEF Commit, Seen
  <2>2. CASE Delete(c)
    <3>1. UNCHANGED <<now, cutoff>> /\ rows' = Without(rows, Expired(rows, cutoff[c]))
      BY <2>2 DEF Delete
    <3>2. ASSUME NEW id \in Id, rows[id] # NoRow, rows'[id] = NoRow
          PROVE  rows[id].lastUpdatedAt + Retention < now
      <4>1. rows[id].lastUpdatedAt < cutoff[c]
        BY <3>1, <3>2 DEF Without, Expired
      <4> QED BY <1>1, <3>2, <4>1
    <3> QED BY <3>1, <3>2 DEF ExpiredOnly
  <2>3. CASE Connect(c) \/ PruneConnect(c) \/ Begin(c) \/ Insert(c) \/ LoseAck(c) \/ QueryFails(c)
    BY <1>2, <2>3 DEF Connect, PruneConnect, Begin, Insert, LoseAck, QueryFails
  <2>4. CASE ConnectFails(c) \/ Ack(c) \/ Rollback(c) \/ PruneAnswers(c) \/ PruneFails(c)
    BY <1>7, <2>4 DEF ConnectFails, Ack, Rollback, PruneAnswers, PruneFails
  <2> QED BY <1>9, <2>1, <2>2, <2>3, <2>4 DEF StoreStep, CallStep, Respond
<1>10. ASSUME NEW c \in Caller, UpsertResolved(c)
       PROVE  CutoffBehind' /\ ExpiredOnly
  <2>1. Cutoff = 0 \/ Cutoff + Retention <= now
    BY <1>1 DEF Cutoff
  <2>2. UNCHANGED <<rows, now>> /\ cutoff' = [cutoff EXCEPT ![c] = Cutoff]
    BY <1>10 DEF UpsertResolved, PruneCall
  <2> QED BY <1>1, <2>1, <2>2 DEF ExpiredOnly
<1> QED BY <1>3, <1>4, <1>5, <1>6, <1>8, <1>9, <1>10 DEF PollNext, CycleStep

(* Whatever the retention period, and however long the DELETE waits for a client
   or a lock, it removes only rows that are past retention when it runs. *)
THEOREM PollDeletesOnlyExpired == PollSpec => OnlyExpiredDeleted
<1>1. PollInit => CutoffBehind
  BY DEF PollInit, PgInit, CutoffBehind
<1>2. PgTypeOK /\ CycleTyped /\ CutoffBehind /\ [PollNext]_pollVars
        => CutoffBehind' /\ [ExpiredOnly]_pollVars
  BY RetentionStep
<1>3. PollSpec => [][ExpiredOnly]_pollVars
  BY <1>1, <1>2, PollUsesStore, PTL DEF PollSpec
<1>4. [ExpiredOnly]_pollVars => [\A id \in Id : rows[id] # NoRow /\ rows'[id] = NoRow =>
          rows[id].lastUpdatedAt + Retention < now]_pollVars
  BY DEF ExpiredOnly
<1> QED BY <1>3, <1>4, PTL DEF OnlyExpiredDeleted

-------------------------------------------------------------------------------
(* Type correctness *)

ProcessTyped ==
    /\ up \in BOOLEAN /\ hasKey \in BOOLEAN /\ running \in BOOLEAN
    /\ handle \in Nat \cup {None}
    /\ left \in [Caller -> 0 .. MaxRaw]
    /\ counter \in [Caller -> Nat]
    /\ startedAt \in [Caller -> Time]
    /\ removed \in [Caller -> Rows]
    /\ {monthKey, callsThisMonth, made, rolledOver} \subseteq Nat
    /\ lastIngestAt \in Time \cup {None}

LEMMA ProcessTypedStep ==
  ASSUME PgTypeOK, ProcessTyped, [PollNext]_pollVars
  PROVE  ProcessTyped'
<1> USE DEF ProcessTyped
<1>1. now \in Time /\ now \in Nat /\ now + Interval \in Nat /\ MonthOf(now) \in Nat
  <2>1. now \in Time /\ now \in Nat /\ Interval \in Nat /\ MonthLength \in Nat \ {0}
    BY PollAssumption, EventsAssumption DEF PgTypeOK, Time
  <2>2. now \div MonthLength \in Nat
    BY <2>1
  <2> QED BY <2>1, <2>2 DEF MonthOf
<1>2. 0 \in Time /\ 0 \in 0 .. MaxRaw /\ NoRows \in Rows
  BY PollAssumption, EventsAssumption DEF Time, NoRows, Rows
<1>3. CASE Boot \/ Start \/ Stop \/ TickSkipped \/ TimePasses \/ UNCHANGED pollVars
  BY <1>1, <1>3 DEF Boot, Start, Stop, Stops, TickSkipped, TimePasses, pollVars, procVars, cycleVars,
                    costVars
<1>4. CASE Crash
  <2>1. up' \in BOOLEAN /\ hasKey' \in BOOLEAN /\ running' \in BOOLEAN
    BY <1>4, Zenon DEF Crash
  <2>2. /\ left' \in [Caller -> 0 .. MaxRaw] /\ counter' \in [Caller -> Nat]
        /\ startedAt' \in [Caller -> Time] /\ removed' \in [Caller -> Rows]
    BY <1>2, <1>4 DEF Crash
  <2>3. /\ handle' \in Nat \cup {None} /\ lastIngestAt' \in Time \cup {None}
        /\ {monthKey', callsThisMonth', made', rolledOver'} \subseteq Nat
    BY <1>4 DEF Crash
  <2> QED BY <2>1, <2>2, <2>3
<1>5. ASSUME NEW c \in Caller, TickRuns(c)
      PROVE  ProcessTyped'
  BY <1>1, <1>5 DEF TickRuns, StartsCycle, costVars
<1>6. ASSUME NEW c \in Caller, EndCycle(c), lastIngestAt' \in {lastIngestAt, now},
             UNCHANGED <<up, hasKey, handle, made, costVars>>
      PROVE  ProcessTyped'
  BY <1>1, <1>2, <1>6, PollAssumption DEF EndCycle, Settles, costVars
<1>7. ASSUME NEW c \in Caller, FetchFails(c) \/ FetchWithoutKey(c) \/ UpsertRejected(c)
                               \/ PruneRejected(c) \/ PruneAnswered(c)
      PROVE  ProcessTyped'
  BY <1>6, <1>7 DEF FetchFails, FetchWithoutKey, UpsertRejected, PruneRejected, PruneAnswered,
                    CycleFails, CycleSucceeds
<1>8. ASSUME NEW c \in Caller, Fetch(c) \/ UpsertResolved(c) \/ StoreStep(c)
      PROVE  ProcessTyped'
  <2>1. CASE Fetch(c) \/ UpsertResolved(c)
    BY <2>1 DEF Fetch, UpsertResolved, costVars
  <2>2. CASE StoreStep(c)
    <3>1. removed' \in [Caller -> Rows]
      <4>1. Removal(removed[c]) \in Rows
        BY DEF Removal, PgTypeOK, Rows
      <4> QED BY <2>2, <4>1 DEF StoreStep
    <3> QED BY <2>2, <3>1 DEF StoreStep, costVars
  <2> QED BY <1>8, <2>1, <2>2
<1>9. ASSUME NEW c \in Caller, Enrich(c)
      PROVE  ProcessTyped'
  <2>1. PICK n \in CallCounts : Enriches(c, n)
    BY <1>9 DEF Enrich
  <2>2. left[c] - 1 \in 0 .. MaxRaw /\ counter[c] + n \in Nat /\ made + n \in Nat
    BY <2>1, PollAssumption DEF Enriches
  <2> QED BY <2>1, <2>2 DEF Enriches, costVars
<1>10. ASSUME NEW c \in Caller, StoreBatch(c)
       PROVE  ProcessTyped'
  <2>1. {monthKey', callsThisMonth', rolledOver'} \subseteq Nat
    BY <1>1, <1>10 DEF StoreBatch, RecordCalls, Rollover
  <2> QED BY <1>10, <2>1 DEF StoreBatch
<1> QED BY <1>3, <1>4, <1>5, <1>7, <1>8, <1>9, <1>10 DEF PollNext, CycleStep

(* Type correctness of the poll loop; a cycle's batch is one the store is made for
   at every step of its enrichment. *)
THEOREM PollTypeCorrect == PollSpec => []PollTypeOK
<1>1. PollInit => ProcessTyped
  <2>1. 0 \in Time /\ 0 \in 0 .. MaxRaw /\ NoRows \in Rows
    BY PollAssumption, EventsAssumption DEF Time, NoRows, Rows
  <2> SUFFICES ASSUME PollInit
               PROVE  ProcessTyped
    OBVIOUS
  <2>2. up \in BOOLEAN /\ hasKey \in BOOLEAN /\ running \in BOOLEAN
    BY Zenon DEF PollInit
  <2>3. /\ left \in [Caller -> 0 .. MaxRaw] /\ counter \in [Caller -> Nat]
        /\ startedAt \in [Caller -> Time] /\ removed \in [Caller -> Rows]
    BY <2>1 DEF PollInit
  <2>4. /\ handle \in Nat \cup {None} /\ lastIngestAt \in Time \cup {None}
        /\ {monthKey, callsThisMonth, made, rolledOver} \subseteq Nat
    BY DEF PollInit
  <2> QED BY <2>2, <2>3, <2>4 DEF ProcessTyped
<1>2. PgTypeOK /\ ProcessTyped /\ [PollNext]_pollVars => ProcessTyped'
  BY ProcessTypedStep
<1>3. CycleTyped /\ ProcessTyped => PollTypeOK
  BY DEF CycleTyped, ProcessTyped, PollTypeOK
<1> QED BY <1>1, <1>2, <1>3, PollUsesStore, PTL DEF PollSpec
-------------------------------------------------------------------------------
(* What a reported ingest promises *)

(* Only a prune that resolved moves lastIngestAt of a service with a key. *)
LEMMA ReportedAfterPrune ==
  ASSUME CycleTyped, [PollNext]_pollVars, NEW c \in Caller, Reported(c)
  PROVE  pc[c] = "prune" /\ stage[c] = "idle" /\ result[c] = "ok"
<1> USE DEF Reported, CycleTyped
<1>1. CASE Boot \/ Start \/ Stop \/ TickSkipped \/ TimePasses \/ UNCHANGED pollVars
  BY <1>1 DEF Boot, Start, Stop, Stops, TickSkipped, TimePasses, pollVars, procVars, cycleVars
<1>2. CASE Crash
  BY <1>2 DEF Crash
<1>3. ASSUME NEW d \in Caller, FetchWithoutKey(d)
      PROVE  FALSE
  BY <1>3 DEF FetchWithoutKey
<1>4. ASSUME NEW d \in Caller, FetchFails(d) \/ UpsertRejected(d) \/ PruneRejected(d)
      PROVE  FALSE
  BY <1>4 DEF FetchFails, UpsertRejected, PruneRejected, CycleFails
<1>5. ASSUME NEW d \in Caller, TickRuns(d) \/ Fetch(d) \/ Enrich(d) \/ StoreBatch(d)
                               \/ UpsertResolved(d) \/ StoreStep(d)
      PROVE  FALSE
  BY <1>5 DEF TickRuns, StartsCycle, Fetch, Enrich, Enriches, StoreBatch, UpsertResolved, StoreStep
<1>6. ASSUME NEW d \in Caller, PruneAnswered(d)
      PROVE  pc[c] = "prune" /\ stage[c] = "idle" /\ result[c] = "ok"
  <2>1. c = d
    BY <1>6 DEF PruneAnswered, CycleSucceeds, EndCycle, Settles
  <2> QED BY <1>6, <2>1 DEF PruneAnswered, Return
<1> QED BY <1>1, <1>2, <1>3, <1>4, <1>5, <1>6 DEF PollNext, CycleStep

(* c's DELETE is still to come; it has taken effect, and if it has settled it
   resolved. *)
BeforeDelete(c) == stage[c] \in {"pruning", "delete"}
AfterDelete(c) ==
    /\ pc[c] = "prune"
    /\ stage[c] = "deleted" \/ (stage[c] = "idle" /\ result[c] = "ok")

(* The cutoff is no earlier than the retention period before the cycle's start;
   and once the DELETE has run no row is older than that. *)
PrunedSinceStart ==
    \A c \in Caller :
        /\ startedAt[c] <= now
        /\ BeforeDelete(c) => startedAt[c] <= cutoff[c] + Retention
        /\ AfterDelete(c) =>
              \A id \in Id : rows[id] # NoRow => rows[id].lastUpdatedAt + Retention >= startedAt[c]

LEMMA PrunedSinceStartStep ==
  ASSUME PgTypeOK, CycleTyped, startedAt \in [Caller -> Time], AtMostOneCycle, CycleAwaitsStore,
         PrunedSinceStart, [PollNext]_pollVars
  PROVE  PrunedSinceStart'
<1> USE DEF PrunedSinceStart, BeforeDelete, AfterDelete
<1>1. /\ now \in Nat /\ Retention \in Nat
      /\ cutoff \in [Caller -> Nat] /\ startedAt \in [Caller -> Nat]
      /\ pc \in [Caller -> Phase] /\ stage \in [Caller -> Stage]
      /\ result \in [Caller -> {"none", "ok", "error"}]
      /\ \A id \in Id : rows[id] # NoRow => rows[id].lastUpdatedAt \in Nat
  BY EventsAssumption, PollAssumption DEF PgTypeOK, CycleTyped, Rows, Row, Time
<1>2. CASE Boot \/ Start \/ Stop \/ TickSkipped \/ UNCHANGED pollVars
  BY <1>2 DEF Boot, Start, Stop, Stops, TickSkipped, pollVars, pgVars, txnVars, procVars, cycleVars
<1>3. CASE Crash
  BY <1>1, <1>3 DEF Crash, Disconnect
<1>4. CASE TimePasses
  BY <1>1, <1>4 DEF TimePasses, Tick, txnVars, procVars, cycleVars
<1>5. ASSUME NEW c \in Caller, EndCycle(c), UNCHANGED <<rows, now, stage, cutoff>>, stage[c] = "idle",
             \A d \in Caller \ {c} : result'[d] = result[d]
      PROVE  PrunedSinceStart'
  BY <1>1, <1>5 DEF EndCycle, Settles
<1>6. ASSUME NEW c \in Caller, FetchFails(c) \/ FetchWithoutKey(c) \/ UpsertRejected(c)
                               \/ PruneRejected(c) \/ PruneAnswered(c)
      PROVE  PrunedSinceStart'
  <2>1. EndCycle(c)
    BY <1>6 DEF FetchFails, FetchWithoutKey, UpsertRejected, PruneRejected, PruneAnswered,
                CycleFails, CycleSucceeds
  <2>2. stage[c] = "idle"
    BY <1>1, <1>6, NoCallElsewhere DEF FetchFails, FetchWithoutKey, UpsertRejected, PruneRejected,
                                       PruneAnswered, Return
  <2>3. UNCHANGED <<rows, now, stage, cutoff>> /\ \A d \in Caller \ {c} : result'[d] = result[d]
    BY <1>1, <1>6 DEF FetchFails, FetchWithoutKey, UpsertRejected, PruneRejected, PruneAnswered,
                      Return, pgVars, txnVars
  <2> QED BY <1>5, <2>1, <2>2, <2>3
<1>7. ASSUME NEW c \in Caller, TickRuns(c)
      PROVE  PrunedSinceStart'
  <2>1. stage[c] = "idle"
    BY <1>1, <1>7, NoCallElsewhere DEF TickRuns, StartsCycle
  <2> QED BY <1>1, <1>7, <2>1 DEF TickRuns, StartsCycle, pgVars, txnVars
<1>8. ASSUME NEW c \in Caller, Fetch(c) \/ Enrich(c) \/ StoreBatch(c)
      PROVE  PrunedSinceStart'
  <2>1. /\ UNCHANGED <<rows, now, startedAt, cutoff>>
        /\ pc'[c] # "prune" /\ \A d \in Caller \ {c} : pc'[d] = pc[d]
        /\ stage'[c] \in {stage[c], "connecting"}
        /\ \A d \in Caller \ {c} : stage'[d] = stage[d] /\ result'[d] = result[d]
    BY <1>1, <1>8 DEF Fetch, Enrich, Enriches, StoreBatch, UpsertCall, pgVars, txnVars
  <2> QED BY <1>1, <2>1
<1>9. ASSUME NEW c \in Caller, StoreStep(c)
      PROVE  PrunedSinceStart'
  <2>1. /\ stage[c] # "idle" /\ UNCHANGED <<pc, now, startedAt>>
        /\ \A d \in Caller \ {c} : stage'[d] = "idle" /\ pc[d] = "none"
        /\ stage[c] \in Upserting => pc[c] = "upsert" /\ stage'[c] \notin {"pruning", "delete"}
    BY <1>1, <1>9, StoreStepStages, CallerIsTheCycle DEF Upserting, Pruning
  <2>2. SUFFICES /\ BeforeDelete(c)' => startedAt[c] <= cutoff'[c] + Retention
                 /\ AfterDelete(c)' =>
                       \A id \in Id : rows'[id] # NoRow =>
                                          rows'[id].lastUpdatedAt + Retention >= startedAt[c]
    BY <2>1
  <2>3. CASE stage[c] \in Upserting
    BY <2>1, <2>3
  <2>4. CASE stage[c] \in Pruning
    <3>1. CASE PruneConnect(c)
      BY <1>1, <3>1 DEF PruneConnect
    <3>2. CASE Delete(c)
      <4>1. startedAt[c] <= cutoff[c] + Retention /\ stage'[c] = "deleted"
        BY <1>1, <3>2 DEF Delete
      <4>2. ASSUME NEW id \in Id, rows'[id] # NoRow
            PROVE  rows'[id].lastUpdatedAt + Retention >= startedAt[c]
        <5>1. rows[id] # NoRow /\ rows'[id] = rows[id] /\ ~ (rows[id].lastUpdatedAt < cutoff[c])
          BY <3>2, <4>2 DEF Delete, Without, Expired
        <5> QED BY <1>1, <4>1, <5>1
      <4> QED BY <4>1, <4>2
    <3>3. CASE PruneAnswers(c)
      <4>1. rows' = rows /\ stage[c] = "deleted" /\ stage'[c] = "idle"
        BY <1>1, <3>3 DEF PruneAnswers, Settle, Release
      <4> QED BY <1>1, <2>1, <4>1
    <3>4. CASE ConnectFails(c) \/ PruneFails(c)
      BY <1>1, <3>4 DEF ConnectFails, PruneFails, Settle, Release
    <3> QED BY <1>9, <2>4, <3>1, <3>2, <3>3, <3>4
            DEF StoreStep, CallStep, Respond, Connect, Begin, Insert, Commit, Ack, LoseAck,
                QueryFails, Rollback, Pruning
  <2> QED BY <1>1, <2>1, <2>3, <2>4 DEF Stage
<1>10. ASSUME NEW c \in Caller, UpsertResolved(c)
       PROVE  PrunedSinceStart'
  <2>1. Cutoff \in Nat /\ startedAt[c] <= Cutoff + Retention
    BY <1>1 DEF Cutoff
  <2>2. /\ UNCHANGED <<rows, now, startedAt>> /\ stage'[c] = "pruning" /\ cutoff'[c] = Cutoff
        /\ \A d \in Caller \ {c} : /\ pc'[d] = pc[d] /\ cutoff'[d] = cutoff[d]
                                   /\ stage'[d] = stage[d] /\ result'[d] = result[d]
    BY <1>1, <1>10 DEF UpsertResolved, PruneCall, PgTypeOK
  <2> QED BY <1>1, <2>1, <2>2
<1> QED BY <1>2, <1>3, <1>4, <1>6, <1>7, <1>8, <1>9, <1>10 DEF PollNext, CycleStep

(* A reported ingest has pruned: the DELETE came after the cycle's start, and no
   transaction has put an older row back since. *)
THEOREM PollReportsPruned == PollSpec => ReportedIngestIsPruned
<1> DEFINE Kept(c) == \A id \in Id : rows[id] # NoRow =>
                         rows[id].lastUpdatedAt + Retention >= startedAt[c]
<1>1. PollInit => CycleAwaitsStore /\ PrunedSinceStart
  BY EventsAssumption, SMT DEF PollInit, PgInit, CycleAwaitsStore, PrunedSinceStart, BeforeDelete,
     AfterDelete, Upserting, Pruning
<1>2. PgTypeOK /\ CycleTyped /\ CycleAwaitsStore /\ [PollNext]_pollVars => CycleAwaitsStore'
  BY CycleAwaitsStoreStep DEF PgTypeOK
<1>3. PollTypeOK => startedAt \in [Caller -> Time]
  BY DEF PollTypeOK
<1>4. /\ PgTypeOK /\ CycleTyped /\ startedAt \in [Caller -> Time] /\ AtMostOneCycle
      /\ CycleAwaitsStore /\ PrunedSinceStart /\ [PollNext]_pollVars
      => PrunedSinceStart'
  BY PrunedSinceStartStep
<1>5. /\ PgTypeOK /\ CycleTyped /\ startedAt \in [Caller -> Time] /\ PrunedSinceStart
      /\ [PollNext]_pollVars
      => [\A c \in Caller : Reported(c) => Kept(c)]_pollVars
  BY ReportedAfterPrune DEF PrunedSinceStart, AfterDelete
<1>6. PollSpec => [][\A c \in Caller : Reported(c) => Kept(c)]_pollVars
  BY <1>1, <1>2, <1>3, <1>4, <1>5, PollUsesStore, PollNeverOverlaps, PollTypeCorrect,
     PTL DEF PollSpec
<1> QED BY <1>6, PTL DEF ReportedIngestIsPruned

(* The table has e under its id and with its reference. *)
Stored(e) == rows[e.id] # NoRow /\ e.ref \in rows[e.id].refs

(* The store is given the cycle's events; they are in the table from the COMMIT
   on, also after the call has resolved, and until the cycle's DELETE. *)
CycleStored(c) ==
    /\ stage[c] \in Upserting => batch[c] = enriched[c]
    /\ pc[c] = "upsert" /\ (stage[c] = "committed" \/ (stage[c] = "idle" /\ result[c] = "ok"))
          => \A i \in DOMAIN enriched[c] : Stored(enriched[c][i])
    /\ BeforeDelete(c) => \A i \in DOMAIN enriched[c] : Stored(enriched[c][i])
    /\ AfterDelete(c) => \A i \in DOMAIN enriched[c] : StoredOrRemoved(c, enriched[c][i])

BatchStored == \A c \in Caller : CycleStored(c)

(* A commit leaves every event of its batch in the table. *)
LEMMA CommitStores ==
  ASSUME PgTypeOK, TransactionsIsolated, NEW c \in Caller, Commit(c), NEW i \in DOMAIN batch[c]
  PROVE  LET e == batch[c][i] IN rows'[e.id] # NoRow /\ e.ref \in rows'[e.id].refs
<1> DEFINE b  == batch[c]
           id == b[i].id
<1>1. /\ stage[c] = "commit" /\ b \in Batch /\ b \in Seq(Event) /\ pos[c] - 1 = Len(b)
      /\ \A j \in Id : rows'[j] = Seen(c, j)
  BY EventsAssumption DEF Commit, TransactionsIsolated, LoopInBatch, Upserting
<1>2. id \in Id /\ i \in Hits(b, pos[c] - 1, id)
  <2>1. i \in 1 .. Len(b) /\ b[i] \in Event
    BY <1>1
  <2> QED BY <1>1, <2>1 DEF Hits, Event
<1>3. Upserted(rows[id], rows'[id], b, pos[c] - 1, id, began[c])
  BY <1>1, <1>2 DEF TransactionsIsolated, UncommittedMatchesPrefix, PrefixWritten
<1>4. rows'[id] \in Row /\ b[i].ref \in rows'[id].refs
  <2> HIDE DEF b, id
  <2> QED BY <1>2, <1>3 DEF Upserted
<1> QED BY <1>4, EventsAssumption

(* A step that leaves the rows and the cycle alone keeps what is known of it. *)
LEMMA CycleStoredKept ==
  ASSUME now \in Nat, Retention \in Nat, removed \in [Caller -> Rows], enriched \in [Caller -> Batch],
         NEW c \in Caller, CycleStored(c), rows' = rows, now' = now \/ now' = now + 1,
         UNCHANGED <<pc[c], stage[c], batch[c], result[c], enriched[c], removed[c]>>
  PROVE  CycleStored(c)'
<1>1. ASSUME NEW i \in DOMAIN enriched[c], StoredOrRemoved(c, enriched[c][i])
      PROVE  StoredOrRemoved(c, enriched[c][i])'
  <2> DEFINE id == enriched[c][i].id
             r == removed[c][id]
  <2>1. id \in Id
    <3>1. enriched[c] \in Seq(Event)
      BY EventsAssumption
    <3>2. enriched[c][i] \in Event
      BY <1>1, <3>1
    <3> QED BY <3>2 DEF Event
  <2>2. r # NoRow => r.lastUpdatedAt \in Nat
    BY <2>1, EventsAssumption DEF Rows, Row, Time
  <2>3. r # NoRow /\ r.lastUpdatedAt + Retention < now => r.lastUpdatedAt + Retention < now'
    <3> HIDE DEF r
    <3> QED BY <2>2
  <2> QED BY <1>1, <2>3 DEF StoredOrRemoved
<1> QED BY <1>1 DEF CycleStored, BeforeDelete, AfterDelete, Stored

(* Nothing is claimed of a slot that is not at its upsert or its prune. *)
LEMMA NothingStored ==
  ASSUME NEW c \in Caller, pc'[c] \notin {"upsert", "prune"}, stage'[c] = "idle"
  PROVE  CycleStored(c)'
BY DEF CycleStored, BeforeDelete, AfterDelete, Upserting

(* The steps of the store on behalf of the cycle. *)
LEMMA StoreStepStored ==
  ASSUME PgTypeOK, TransactionsIsolated, CycleTyped, removed \in [Caller -> Rows],
         now \in Nat, Retention \in Nat, CycleAwaitsStore, CutoffBehind, NEW c \in Caller,
         CycleStored(c), StoreStep(c)
  PROVE  CycleStored(c)'
<1> USE DEF CycleStored, BeforeDelete, AfterDelete
<1>1. UNCHANGED <<pc, enriched>> /\ c \in Caller
  BY DEF StoreStep
<1>2. stage \in [Caller -> Stage] /\ batch \in [Caller -> Batch \cup {<<>>}]
      /\ result \in [Caller -> {"none", "ok", "error"}]
  BY DEF PgTypeOK
<1>3. removed'[c] = Removal(removed[c])
  <2>1. removed' = [removed EXCEPT ![c] = Removal(@)]
    BY DEF StoreStep
  <2> QED BY <2>1
<1>4. CASE Connect(c) \/ Begin(c) \/ Insert(c) \/ LoseAck(c) \/ QueryFails(c)
  <2>1. /\ batch' = batch /\ stage[c] \in Upserting
        /\ stage'[c] \in {"begin", "insert", "commit", "rollback"}
    BY <1>2, <1>4 DEF Connect, Begin, Insert, LoseAck, QueryFails, Upserting
  <2> QED BY <1>1, <2>1
<1>5. CASE Commit(c)
  <2>1. stage[c] \in Upserting /\ batch' = batch /\ stage'[c] = "committed"
    BY <1>2, <1>5 DEF Commit, Upserting
  <2>2. batch[c] = enriched[c]
    BY <2>1
  <2>3. \A i \in DOMAIN enriched[c] : Stored(enriched[c][i])'
    BY <1>1, <1>5, <2>2, CommitStores DEF Stored
  <2> QED BY <1>1, <2>1, <2>2, <2>3
<1>6. CASE Ack(c)
  <2>1. rows' = rows /\ stage[c] = "committed" /\ stage'[c] = "idle"
    BY <1>2, <1>6 DEF Ack, Settle, Release
  <2>2. pc[c] = "upsert"
    BY <2>1 DEF CycleAwaitsStore, Upserting
  <2>3. \A i \in DOMAIN enriched[c] : Stored(enriched[c][i])'
    BY <1>1, <2>1, <2>2 DEF Stored
  <2> QED BY <1>1, <2>1, <2>2, <2>3 DEF Upserting
<1>7. CASE ConnectFails(c) \/ Rollback(c) \/ PruneFails(c)
  <2>1. stage'[c] = "idle" /\ result'[c] = "error"
    BY <1>2, <1>7 DEF ConnectFails, Rollback, PruneFails, Settle, Release
  <2> QED BY <2>1 DEF Upserting
<1>8. CASE PruneConnect(c)
  <2>1. rows' = rows /\ stage[c] = "pruning" /\ stage'[c] = "delete"
    BY <1>2, <1>8 DEF PruneConnect
  <2>2. \A i \in DOMAIN enriched[c] : Stored(enriched[c][i])'
    BY <1>1, <2>1 DEF Stored
  <2> QED BY <1>1, <2>1, <2>2 DEF Upserting
<1>9. CASE Delete(c)
  <2>1. /\ now' = now /\ stage[c] = "delete" /\ stage'[c] = "deleted"
        /\ rows' = Without(rows, Expired(rows, cutoff[c]))
    BY <1>2, <1>9 DEF Delete
  <2>2. ASSUME NEW i \in DOMAIN enriched[c]
        PROVE  StoredOrRemoved(c, enriched[c][i])'
    <3> DEFINE e == enriched[c][i]
    <3>1. e.id \in Id
      <4>1. enriched[c] \in Seq(Event)
        BY EventsAssumption DEF CycleTyped
      <4>2. e \in Event
        BY <2>2, <4>1
      <4> QED BY <4>2 DEF Event
    <3>2. rows[e.id] # NoRow /\ e.ref \in rows[e.id].refs
      BY <2>1, <2>2 DEF Stored
    <3>3. CASE rows'[e.id] = NoRow
      <4>1. rows[e.id].lastUpdatedAt < cutoff[c]
        BY <2>1, <3>1, <3>2, <3>3 DEF Without, Expired
      <4>2. rows[e.id].lastUpdatedAt \in Nat /\ cutoff[c] \in Nat
        BY <3>1, <3>2, EventsAssumption DEF PgTypeOK, Rows, Row, Time
      <4>3. rows[e.id].lastUpdatedAt + Retention < now
        BY <4>1, <4>2 DEF CutoffBehind
      <4>4. removed'[c][e.id] = rows[e.id]
        BY <1>3, <3>1, <3>2, <3>3 DEF Removal
      <4> QED BY <1>1, <2>1, <3>2, <3>3, <4>3, <4>4 DEF StoredOrRemoved
    <3>4. CASE rows'[e.id] # NoRow
      <4>1. rows'[e.id] = rows[e.id]
        BY <2>1, <3>1, <3>4 DEF Without
      <4> QED BY <1>1, <3>2, <4>1 DEF StoredOrRemoved
    <3> QED BY <3>3, <3>4
  <2> QED BY <1>1, <2>1, <2>2 DEF Upserting
<1>10. CASE PruneAnswers(c)
  <2>1. /\ rows' = rows /\ now' = now /\ stage[c] = "deleted" /\ stage'[c] = "idle"
    BY <1>2, <1>10 DEF PruneAnswers, Settle, Release
  <2>2. pc[c] = "prune"
    BY <2>1 DEF CycleAwaitsStore, Pruning
  <2>3. removed'[c] = removed[c]
    <3>1. removed[c] \in [Id -> Row \cup {NoRow}]
      BY DEF Rows
    <3>2. removed'[c] = [id \in Id |-> removed[c][id]]
      BY <1>3, <2>1 DEF Removal
    <3> QED BY <3>1, <3>2
  <2>4. \A i \in DOMAIN enriched[c] : StoredOrRemoved(c, enriched[c][i])'
    BY <1>1, <2>1, <2>2, <2>3 DEF StoredOrRemoved
  <2> QED BY <1>1, <2>1, <2>2, <2>4 DEF Upserting
<1> QED BY <1>4, <1>5, <1>6, <1>7, <1>8, <1>9, <1>10 DEF StoreStep, CallStep, Respond

LEMMA BatchStoredStep ==
  ASSUME PgTypeOK, TransactionsIsolated, CycleTyped, removed \in [Caller -> Rows], AtMostOneCycle,
         CycleAwaitsStore, CutoffBehind, BatchStored, [PollNext]_pollVars
  PROVE  BatchStored'
<1> DEFINE Same(d) == /\ rows' = rows /\ (now' = now \/ now' = now + 1)
                      /\ UNCHANGED <<pc[d], stage[d], batch[d], result[d], enriched[d], removed[d]>>
           Elsewhere(d) == pc'[d] \notin {"upsert", "prune"} /\ stage'[d] = "idle"
<1>1. /\ pc \in [Caller -> Phase] /\ enriched \in [Caller -> Batch] /\ stage \in [Caller -> Stage]
      /\ batch \in [Caller -> Batch \cup {<<>>}]
      /\ result \in [Caller -> {"none", "ok", "error"}]
      /\ now \in Nat /\ Retention \in Nat
  BY EventsAssumption, PollAssumption DEF PgTypeOK, CycleTyped, Time
<1>2. \A d \in Caller : Same(d) \/ Elsewhere(d) => CycleStored(d)'
  BY <1>1, CycleStoredKept, NothingStored DEF BatchStored
<1>3. CASE Boot \/ Start \/ Stop \/ TickSkipped \/ TimePasses \/ UNCHANGED pollVars
  <2>1. \A d \in Caller : Same(d)
    BY <1>3 DEF Boot, Start, Stop, Stops, TickSkipped, TimePasses, Tick, pollVars, pgVars, txnVars,
                procVars, cycleVars
  <2> QED BY <1>2, <2>1 DEF BatchStored
<1>4. CASE Crash
  <2>1. \A d \in Caller : Elsewhere(d)
    BY <1>4 DEF Crash, Disconnect
  <2> QED BY <1>2, <2>1 DEF BatchStored
<1>5. ASSUME NEW c \in Caller, FetchFails(c) \/ FetchWithoutKey(c) \/ UpsertRejected(c)
                               \/ PruneRejected(c) \/ PruneAnswered(c)
      PROVE  BatchStored'
  <2>1. EndCycle(c)
    BY <1>5 DEF FetchFails, FetchWithoutKey, UpsertRejected, PruneRejected, PruneAnswered,
                CycleFails, CycleSucceeds
  <2>2. stage[c] = "idle"
    BY <1>1, <1>5, NoCallElsewhere DEF FetchFails, FetchWithoutKey, UpsertRejected, PruneRejected,
                                       PruneAnswered, Return
  <2>3. UNCHANGED <<rows, now, stage, batch>> /\ \A d \in Caller \ {c} : result'[d] = result[d]
    BY <1>1, <1>5 DEF FetchFails, FetchWithoutKey, UpsertRejected, PruneRejected, PruneAnswered,
                      Return, pgVars, txnVars
  <2>4. Elsewhere(c) /\ \A d \in Caller \ {c} : Same(d)
    BY <1>1, <2>1, <2>2, <2>3 DEF EndCycle, Settles
  <2> QED BY <1>2, <2>4 DEF BatchStored
<1>6. ASSUME NEW c \in Caller, TickRuns(c) \/ Fetch(c) \/ Enrich(c)
      PROVE  BatchStored'
  <2>1. UNCHANGED pgVars /\ {pc[c], pc'[c]} \cap {"upsert", "prune"} = {}
    BY <1>1, <1>6 DEF TickRuns, StartsCycle, Fetch, Enrich, Enriches
  <2>2. \A d \in Caller \ {c} : UNCHANGED <<pc[d], enriched[d], removed[d]>>
    BY <1>1, <1>6 DEF TickRuns, StartsCycle, Fetch, Enrich, Enriches
  <2>3. stage[c] = "idle"
    BY <1>1, <2>1, NoCallElsewhere
  <2>4. Elsewhere(c) /\ \A d \in Caller \ {c} : Same(d)
    BY <2>1, <2>2, <2>3 DEF pgVars, txnVars
  <2> QED BY <1>2, <2>4 DEF BatchStored
<1>7. ASSUME NEW c \in Caller, StoreBatch(c)
      PROVE  BatchStored'
  <2>1. /\ UNCHANGED <<rows, now, enriched, removed>> /\ pc' = [pc EXCEPT ![c] = "upsert"]
        /\ UpsertCall(c, enriched[c])
    BY <1>7 DEF StoreBatch, UpsertCall
  <2>2. \A d \in Caller \ {c} : Same(d)
    BY <1>1, <2>1 DEF UpsertCall
  <2>3. CycleStored(c)'
    <3>1. CASE enriched[c] = <<>>
      <4>1. DOMAIN enriched[c] = {}
        BY <3>1
      <4> QED BY <1>1, <2>1, <3>1, <4>1
              DEF UpsertCall, CycleStored, BeforeDelete, AfterDelete, Upserting
    <3>2. CASE enriched[c] # <<>>
      BY <1>1, <2>1, <3>2 DEF UpsertCall, CycleStored, BeforeDelete, AfterDelete
    <3> QED BY <3>1, <3>2
  <2> QED BY <1>2, <2>2, <2>3 DEF BatchStored
<1>8. ASSUME NEW c \in Caller, StoreStep(c)
      PROVE  BatchStored'
  <2>1. \A d \in Caller \ {c} : Elsewhere(d)
    BY <1>1, <1>8, StoreStepStages, CallerIsTheCycle
  <2>2. CycleStored(c)'
    BY <1>1, <1>8, StoreStepStored DEF BatchStored
  <2> QED BY <1>2, <2>1, <2>2 DEF BatchStored
<1>9. ASSUME NEW c \in Caller, UpsertResolved(c)
      PROVE  BatchStored'
  <2>1. /\ UNCHANGED <<rows, now, enriched, removed, batch>> /\ pc[c] = "upsert"
        /\ stage[c] = "idle" /\ result[c] = "ok" /\ stage'[c] = "pruning"
        /\ \A d \in Caller \ {c} : UNCHANGED <<pc[d], stage[d], result[d]>>
    BY <1>1, <1>9 DEF UpsertResolved, PruneCall
  <2>2. CycleStored(c)'
    BY <2>1 DEF BatchStored, CycleStored, BeforeDelete, AfterDelete, Stored, Upserting
  <2>3. \A d \in Caller \ {c} : Same(d)
    BY <2>1
  <2> QED BY <1>2, <2>2, <2>3 DEF BatchStored
<1> QED BY <1>3, <1>4, <1>5, <1>6, <1>7, <1>8, <1>9 DEF PollNext, CycleStep

(* A failed, half-done or forgotten upsert is never reported: when lastIngestAt
   moves, the transaction of the cycle's own events has committed, and an event
   whose row is gone was removed by the cycle's own DELETE, past retention. *)
THEOREM PollReportsStored == PollSpec => ReportedIngestIsStored
<1>1. PollInit => CycleAwaitsStore /\ CutoffBehind /\ BatchStored
  BY DEF PollInit, PgInit, CycleAwaitsStore, CutoffBehind, BatchStored, CycleStored, BeforeDelete,
         AfterDelete, Upserting, Pruning
<1>2. PgTypeOK /\ CycleTyped /\ CycleAwaitsStore /\ [PollNext]_pollVars => CycleAwaitsStore'
  BY CycleAwaitsStoreStep DEF PgTypeOK
<1>3. PgTypeOK /\ CycleTyped /\ CutoffBehind /\ [PollNext]_pollVars => CutoffBehind'
  BY RetentionStep
<1>4. PollTypeOK => removed \in [Caller -> Rows]
  BY DEF PollTypeOK
<1>5. /\ PgTypeOK /\ TransactionsIsolated /\ CycleTyped /\ removed \in [Caller -> Rows]
      /\ AtMostOneCycle /\ CycleAwaitsStore /\ CutoffBehind /\ BatchStored /\ [PollNext]_pollVars
      => BatchStored'
  BY BatchStoredStep
<1>6. CycleTyped /\ BatchStored /\ [PollNext]_pollVars
      => [\A c \in Caller : Reported(c) =>
             \A i \in DOMAIN enriched[c] : StoredOrRemoved(c, enriched[c][i])]_pollVars
  BY ReportedAfterPrune DEF BatchStored, CycleStored, AfterDelete
<1> QED BY <1>1, <1>2, <1>3, <1>4, <1>5, <1>6, PollUsesStore, PollNeverOverlaps, PollTypeCorrect,
           PgTransactionsIsolated, PTL DEF PollSpec, ReportedIngestIsStored

-------------------------------------------------------------------------------
(* The month's spend *)

(* Calls that are not recorded yet belong to a cycle that still enriches. *)
UnrecordedWhileEnriching ==
    /\ CallsAccounted
    /\ \A c \in Caller : pc[c] # "enrich" => counter[c] = 0

LEMMA CallsAccountedStep ==
  ASSUME now \in Time, CycleTyped, ProcessTyped, AtMostOneCycle, UnrecordedWhileEnriching,
         [PollNext]_pollVars
  PROVE  UnrecordedWhileEnriching'
<1> USE DEF UnrecordedWhileEnriching, CallsAccounted
<1>1. /\ pc \in [Caller -> Phase] /\ counter \in [Caller -> Nat]
      /\ made \in Nat /\ rolledOver \in Nat /\ callsThisMonth \in Nat
  BY DEF CycleTyped, ProcessTyped
<1>2. CASE Boot \/ Start \/ Stop \/ TickSkipped \/ TimePasses \/ UNCHANGED pollVars
  BY <1>2 DEF Boot, Start, Stop, Stops, TickSkipped, TimePasses, pollVars, procVars, cycleVars,
              costVars
<1>3. CASE Crash
  BY <1>3 DEF Crash
<1>4. ASSUME NEW c \in Caller, pc[c] \notin {"none", "enrich"}, EndCycle(c),
             UNCHANGED <<made, costVars>>
      PROVE  UnrecordedWhileEnriching'
  <2>1. /\ UNCHANGED <<made, callsThisMonth, rolledOver>> /\ counter[c] = 0
        /\ pc' = [pc EXCEPT ![c] = "none"] /\ counter' = [counter EXCEPT ![c] = 0]
    BY <1>4 DEF EndCycle, Settles, costVars
  <2>2. made = rolledOver + callsThisMonth /\ \A d \in Caller \ {c} : pc[d] = "none"
    BY <1>1, <1>4, <2>1 DEF AtMostOneCycle
  <2> QED BY <1>1, <2>1, <2>2
<1>5. ASSUME NEW c \in Caller, FetchFails(c) \/ FetchWithoutKey(c) \/ UpsertRejected(c)
                               \/ PruneRejected(c) \/ PruneAnswered(c)
      PROVE  UnrecordedWhileEnriching'
  <2>1. EndCycle(c) /\ pc[c] \notin {"none", "enrich"} /\ UNCHANGED <<made, costVars>>
    BY <1>5 DEF FetchFails, FetchWithoutKey, UpsertRejected, PruneRejected, PruneAnswered, CycleFails,
                CycleSucceeds
  <2> QED BY <1>4, <2>1
<1>6. ASSUME NEW c \in Caller, TickRuns(c)
      PROVE  UnrecordedWhileEnriching'
  <2>1. ~ running /\ pc' = [pc EXCEPT ![c] = "fetch"] /\ counter[c] = 0 /\ running'
        /\ UNCHANGED <<made, callsThisMonth, rolledOver, counter>>
    BY <1>6 DEF TickRuns, StartsCycle, costVars
  <2>2. \A d \in Caller : pc[d] = "none"
    BY <2>1 DEF AtMostOneCycle
  <2> QED BY <1>1, <2>1, <2>2
<1>7. ASSUME NEW c \in Caller, Fetch(c) \/ UpsertResolved(c) \/ StoreStep(c)
      PROVE  UnrecordedWhileEnriching'
  <2>1. /\ UNCHANGED <<made, callsThisMonth, rolledOver, counter, running>>
        /\ \/ pc' = pc
           \/ pc[c] \notin {"none", "enrich"} /\ \E p \in Phase \ {"none"} : pc' = [pc EXCEPT ![c] = p]
    BY <1>7 DEF Fetch, UpsertResolved, StoreStep, costVars, Phase
  <2> QED BY <1>1, <2>1
<1>8. ASSUME NEW c \in Caller, Enrich(c)
      PROVE  UnrecordedWhileEnriching'
  <2>1. PICK n \in CallCounts : Enriches(c, n)
    BY <1>8 DEF Enrich
  <2>2. /\ UNCHANGED <<callsThisMonth, rolledOver, pc, running>> /\ pc[c] = "enrich" /\ n \in Nat
        /\ made' = made + n /\ counter' = [counter EXCEPT ![c] = counter[c] + n]
    BY <2>1, PollAssumption DEF Enriches, costVars
  <2>3. running /\ \A d \in Caller \ {c} : pc[d] = "none"
    BY <2>2 DEF AtMostOneCycle
  <2> QED BY <1>1, <2>2, <2>3
<1>9. ASSUME NEW c \in Caller, StoreBatch(c)
      PROVE  UnrecordedWhileEnriching'
  <2>1. /\ UNCHANGED <<made, running>> /\ pc[c] = "enrich" /\ pc' = [pc EXCEPT ![c] = "upsert"]
        /\ counter' = [counter EXCEPT ![c] = 0]
        /\ rolledOver' + callsThisMonth' = rolledOver + callsThisMonth + counter[c]
    BY <1>1, <1>9 DEF StoreBatch, RecordCalls, Rollover
  <2>2. running /\ \A d \in Caller \ {c} : pc[d] = "none"
    BY <2>1 DEF AtMostOneCycle
  <2>3. rolledOver' \in Nat /\ callsThisMonth' \in Nat
    BY <1>1, <1>9 DEF StoreBatch, RecordCalls, Rollover
  <2> QED BY <1>1, <2>1, <2>2, <2>3
<1> QED BY <1>2, <1>3, <1>5, <1>6, <1>7, <1>8, <1>9 DEF PollNext, CycleStep

(* No counted call is lost to a failed cycle or to the month's rollover. *)
THEOREM PollAccountsCalls == PollSpec => []CallsAccounted
<1>1. PollInit => UnrecordedWhileEnriching
  BY DEF PollInit, UnrecordedWhileEnriching, CallsAccounted
<1>2. PgTypeOK => now \in Time
  BY DEF PgTypeOK
<1>3. PollTypeOK => ProcessTyped
  BY DEF PollTypeOK, ProcessTyped
<1>4. /\ now \in Time /\ CycleTyped /\ ProcessTyped /\ AtMostOneCycle /\ UnrecordedWhileEnriching
      /\ [PollNext]_pollVars
      => UnrecordedWhileEnriching'
  BY CallsAccountedStep
<1>5. UnrecordedWhileEnriching => CallsAccounted
  BY DEF UnrecordedWhileEnriching
<1> QED BY <1>1, <1>2, <1>3, <1>4, <1>5, PollUsesStore, PollTypeCorrect, PollNeverOverlaps,
           PTL DEF PollSpec
===============================================================================
