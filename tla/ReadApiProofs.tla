----------------------------- MODULE ReadApiProofs -----------------------------
(***************************************************************************)
(* What ingest leaves of the pool to the API, for every number of cycles   *)
(* and requests and every size of the pool.  Requests hold clients of the  *)
(* pool too, so the type invariant of the store alone does not hold here:  *)
(* the poll loop's step lemmas are used with the parts of it they need.    *)
(***************************************************************************)
EXTENDS ReadApi, PollLoopProofs

StoreTyped == now \in Time /\ stage \in [Caller -> Stage]

LoopInv == StoreTyped /\ CycleTyped /\ AtMostOneCycle /\ CycleAwaitsStore

(* Who holds the clients that are out. *)
ClientsOut ==
    /\ held \cap Request = {r \in Request : request[r] = "querying"}
    /\ held \cap Caller = {c \in Caller : stage[c] \in HoldsClient}
    /\ held \subseteq Caller \cup Request

(* A client is taken only while the pool has one. *)
PoolBounded == IsFiniteSet(held) /\ Cardinality(held) <= PoolSize

ReadTyped == request \in [Request -> {"none", "connecting", "querying"}]

-------------------------------------------------------------------------------
(* The requests leave the loop alone, and the loop the requests. *)
LEMMA ReadStepKinds ==
  ASSUME [ReadNext]_readVars
  PROVE  \/ [PollNext]_pollVars
         \/ UNCHANGED <<rows, now, stage, batch, pos, began, work, cutoff, result, procVars>>
<1>1. CASE ProcessDies
  BY <1>1 DEF ProcessDies, PollNext
<1>2. CASE IngestStep
  BY <1>2 DEF IngestStep, PollNext
<1>3. CASE UNCHANGED readVars
  BY <1>3 DEF readVars
<1>4. ASSUME NEW r \in Request, Arrive(r) \/ QueryConnectFails(r)
      PROVE  UNCHANGED pollVars
  BY <1>4 DEF Arrive, QueryConnectFails
<1>5. ASSUME NEW r \in Request, QueryConnect(r) \/ QuerySettles(r)
      PROVE  UNCHANGED <<rows, now, stage, batch, pos, began, work, cutoff, result, procVars>>
  BY <1>5 DEF QueryConnect, QuerySettles, Answers
<1> QED BY <1>1, <1>2, <1>3, <1>4, <1>5 DEF ReadNext

LEMMA StoreTypedStep ==
  ASSUME StoreTyped, CycleTyped, [PollNext]_pollVars
  PROVE  StoreTyped'
<1> USE DEF StoreTyped, Stage, Upserting, Pruning
<1>1. [PgNext]_pgVars
  BY PollStepIsStoreStep
<1>2. CASE UNCHANGED pgVars
  BY <1>2 DEF pgVars, txnVars
<1>3. ASSUME NEW c \in Caller, NEW b \in Batch, UpsertCall(c, b)
      PROVE  StoreTyped'
  BY <1>3 DEF UpsertCall
<1>4. ASSUME NEW c \in Caller, CallStep(c)
      PROVE  StoreTyped'
  BY <1>4 DEF CallStep, Respond, Connect, ConnectFails, Begin, Insert, Commit, Ack, LoseAck,
              QueryFails, Rollback, PruneConnect, Delete, PruneAnswers, PruneFails, Settle, Release
<1>5. ASSUME NEW c \in Caller, NEW outcome, Return(c, outcome)
      PROVE  StoreTyped'
  BY <1>5 DEF Return
<1>6. ASSUME NEW c \in Caller, NEW t \in Time, PruneCall(c, t)
      PROVE  StoreTyped'
  BY <1>6 DEF PruneCall
<1>7. CASE Tick
  BY <1>7 DEF Tick, txnVars
<1>8. CASE Disconnect
  BY <1>8 DEF Disconnect
<1> QED BY <1>1, <1>2, <1>3, <1>4, <1>5, <1>6, <1>7, <1>8 DEF PgNext

LEMMA LoopInvStep ==
  ASSUME LoopInv, [ReadNext]_readVars
  PROVE  LoopInv'
<1>1. CASE [PollNext]_pollVars
  <2>1. StoreTyped' /\ CycleTyped'
    BY <1>1, StoreTypedStep, CycleTypedStep DEF LoopInv, StoreTyped
  <2>2. AtMostOneCycle' /\ CycleAwaitsStore'
    BY <1>1, AtMostOneCycleStep, CycleAwaitsStoreStep DEF LoopInv, StoreTyped
  <2> QED BY <2>1, <2>2 DEF LoopInv
<1>2. CASE UNCHANGED <<rows, now, stage, batch, pos, began, work, cutoff, result, procVars>>
  BY <1>2 DEF LoopInv, StoreTyped, CycleTyped, AtMostOneCycle, CycleAwaitsStore, procVars, cycleVars
<1> QED BY <1>1, <1>2, ReadStepKinds

-------------------------------------------------------------------------------
(* A step of the loop takes and returns clients for cycles only. *)
LEMMA LoopKeepsClients ==
  ASSUME StoreTyped, CycleTyped, ClientsOut, IngestStep
  PROVE  ClientsOut'
<1> USE DEF StoreTyped, ClientsOut, HoldsClient, Upserting, Pruning
<1>0. request' = request
  BY DEF IngestStep
<1>1. ASSUME UNCHANGED <<stage, held>>
      PROVE  ClientsOut'
  BY <1>0, <1>1
<1>2. CASE Boot \/ Start \/ Stop \/ TickSkipped \/ TimePasses
  BY <1>1, <1>2 DEF Boot, Start, Stop, Stops, TickSkipped, TimePasses, Tick, pgVars, txnVars
<1>3. ASSUME NEW c \in Caller, TickRuns(c) \/ FetchFails(c) \/ FetchWithoutKey(c) \/ Fetch(c)
                               \/ Enrich(c)
      PROVE  ClientsOut'
  BY <1>1, <1>3 DEF TickRuns, StartsCycle, FetchFails, FetchWithoutKey, Fetch, Enrich, Enriches,
                    pgVars, txnVars
<1>4. ASSUME NEW c \in Caller, UpsertRejected(c) \/ PruneRejected(c) \/ PruneAnswered(c)
      PROVE  ClientsOut'
  BY <1>1, <1>4 DEF UpsertRejected, PruneRejected, PruneAnswered, Return
<1>5. ASSUME NEW c \in Caller, NEW s \in Stage, stage' = [stage EXCEPT ![c] = s],
             s \in HoldsClient <=> stage[c] \in HoldsClient, held' = held
      PROVE  ClientsOut'
  BY <1>0, <1>5
<1>6. ASSUME NEW c \in Caller, StoreBatch(c) \/ UpsertResolved(c)
      PROVE  ClientsOut'
  BY <1>0, <1>6 DEF StoreBatch, UpsertCall, UpsertResolved, PruneCall
<1>7. ASSUME NEW c \in Caller, Begin(c) \/ Insert(c) \/ Commit(c) \/ LoseAck(c) \/ QueryFails(c)
                               \/ Delete(c)
      PROVE  ClientsOut'
  BY <1>5, <1>7 DEF Begin, Insert, Commit, LoseAck, QueryFails, Delete, Stage
<1>8. ASSUME NEW c \in Caller, Connect(c) \/ PruneConnect(c)
      PROVE  ClientsOut'
  BY <1>0, <1>8, RequestAssumption DEF Connect, PruneConnect
<1>9. ASSUME NEW c \in Caller,
             ConnectFails(c) \/ Ack(c) \/ Rollback(c) \/ PruneAnswers(c) \/ PruneFails(c)
      PROVE  ClientsOut'
  BY <1>0, <1>9, RequestAssumption DEF ConnectFails, Ack, Rollback, PruneAnswers, PruneFails, Settle,
                                       Release
<1> QED BY <1>2, <1>3, <1>4, <1>6, <1>7, <1>8, <1>9
        DEF IngestStep, CycleStep, StoreStep, CallStep, Respond

LEMMA ClientsOutStep ==
  ASSUME StoreTyped, CycleTyped, ReadTyped, ClientsOut, [ReadNext]_readVars
  PROVE  ReadTyped' /\ ClientsOut'
<1> USE DEF ReadTyped
<1>1. CASE ProcessDies
  BY <1>1 DEF ProcessDies, Crash, Disconnect, ClientsOut, HoldsClient, Upserting, Pruning
<1>2. CASE IngestStep
  BY <1>2, LoopKeepsClients DEF IngestStep
<1>3. CASE UNCHANGED readVars
  BY <1>3 DEF readVars, pollVars, pgVars, txnVars, ClientsOut
<1>4. ASSUME NEW r \in Request, Arrive(r) \/ QueryConnectFails(r)
      PROVE  ReadTyped' /\ ClientsOut'
  BY <1>4 DEF Arrive, QueryConnectFails, pollVars, pgVars, txnVars, ClientsOut
<1>5. ASSUME NEW r \in Request, QueryConnect(r)
      PROVE  ReadTyped' /\ ClientsOut'
  BY <1>5, RequestAssumption DEF QueryConnect, ClientsOut
<1>6. ASSUME NEW r \in Request, QuerySettles(r)
      PROVE  ReadTyped' /\ ClientsOut'
  BY <1>6, RequestAssumption DEF QuerySettles, Answers, ClientsOut
<1> QED BY <1>1, <1>2, <1>3, <1>4, <1>5, <1>6 DEF ReadNext

(* A step takes one client at most, and only one the pool has left. *)
LEMMA PoolBoundedStep ==
  ASSUME PoolBounded, [ReadNext]_readVars
  PROVE  PoolBounded'
<1> DEFINE Takes(x) == held' = held \cup {x} /\ Cardinality(held) < PoolSize
<1>1. held' \subseteq held \/ \E x : Takes(x)
  <2>1. CASE ProcessDies
    BY <2>1 DEF ProcessDies, Crash, Disconnect
  <2>2. CASE IngestStep
    <3>1. ASSUME NEW c \in Caller, CycleStep(c) \/ TickRuns(c)
          PROVE  held' = held
      BY <3>1 DEF CycleStep, TickRuns, StartsCycle, FetchFails, FetchWithoutKey, Fetch, Enrich,
           Enriches, StoreBatch, UpsertCall, UpsertResolved, UpsertRejected, Return, PruneCall,
           PruneRejected, PruneAnswered, pgVars, txnVars
    <3>2. ASSUME NEW c \in Caller, StoreStep(c)
          PROVE  held' \subseteq held \/ Takes(c)
      BY <3>2 DEF StoreStep, CallStep, Respond, Connect, ConnectFails, Begin, Insert, Commit, Ack,
           LoseAck, QueryFails, Rollback, PruneConnect, Delete, PruneAnswers, PruneFails, Settle,
           Release
    <3>3. CASE Boot \/ Start \/ Stop \/ TickSkipped \/ TimePasses
      BY <3>3 DEF Boot, Start, Stop, Stops, TickSkipped, TimePasses, Tick, pgVars, txnVars
    <3> QED BY <2>2, <3>1, <3>2, <3>3 DEF IngestStep
  <2>3. ASSUME NEW r \in Request,
               Arrive(r) \/ QueryConnectFails(r) \/ QueryConnect(r) \/ QuerySettles(r)
        PROVE  held' \subseteq held \/ Takes(r)
    BY <2>3 DEF Arrive, QueryConnectFails, QueryConnect, QuerySettles, Answers, pollVars, pgVars,
                txnVars
  <2>4. CASE UNCHANGED readVars
    BY <2>4 DEF readVars, pollVars, pgVars, txnVars
  <2> QED BY <2>1, <2>2, <2>3, <2>4 DEF ReadNext
<1>2. CASE held' \subseteq held
  <2>1. IsFiniteSet(held') /\ Cardinality(held') <= Cardinality(held)
    BY <1>2, FS_Subset DEF PoolBounded
  <2>2. Cardinality(held') \in Nat /\ Cardinality(held) \in Nat
    BY <2>1, FS_CardinalityType DEF PoolBounded
  <2> QED BY <2>1, <2>2, PoolAssumption DEF PoolBounded
<1>3. ASSUME NEW x, Takes(x)
      PROVE  PoolBounded'
  <2>1. Cardinality(held) \in Nat
    BY FS_CardinalityType DEF PoolBounded
  <2>2. /\ IsFiniteSet(held \cup {x})
        /\ Cardinality(held \cup {x}) \in {Cardinality(held), Cardinality(held) + 1}
    BY FS_AddElement DEF PoolBounded
  <2> QED BY <1>3, <2>1, <2>2, PoolAssumption DEF PoolBounded
<1> QED BY <1>1, <1>2, <1>3

(* Clients are taken only from what the pool has, and when none is left all but at
   most one are with requests that query: with a pool of two or more, ingest and
   its DELETE leave the API one, however many cycles were ever started. *)
THEOREM ReadIngestLeavesClients == ReadSpec => []IngestLeavesClients
<1>1. ReadInit => LoopInv /\ ReadTyped /\ ClientsOut /\ PoolBounded
  <2> SUFFICES ASSUME ReadInit
               PROVE  LoopInv /\ ReadTyped /\ ClientsOut /\ PoolBounded
    OBVIOUS
  <2>1. LoopInv
    BY PollAssumption, EventsAssumption
       DEF ReadInit, PollInit, PgInit, LoopInv, StoreTyped, CycleTyped, AtMostOneCycle,
           CycleAwaitsStore, Stage, Upserting, Pruning, Phase, Time
  <2>2. ReadTyped /\ ClientsOut
    BY DEF ReadInit, PollInit, PgInit, ReadTyped, ClientsOut, HoldsClient, Upserting, Pruning
  <2>3. PoolBounded
    BY FS_EmptySet, PoolAssumption DEF ReadInit, PollInit, PgInit, PoolBounded
  <2> QED BY <2>1, <2>2, <2>3
<1>2. LoopInv /\ ReadTyped /\ ClientsOut /\ PoolBounded /\ [ReadNext]_readVars
        => LoopInv' /\ ReadTyped' /\ ClientsOut' /\ PoolBounded'
  BY LoopInvStep, ClientsOutStep, PoolBoundedStep DEF LoopInv
<1>3. LoopInv /\ ClientsOut /\ PoolBounded => IngestLeavesClients
  <2> SUFFICES ASSUME LoopInv, ClientsOut, PoolBounded, Cardinality(held) = PoolSize
               PROVE  Cardinality(held \cap Request) >= PoolSize - 1
    BY DEF IngestLeavesClients, ClientsOut, PoolBounded
  <2> DEFINE ours == held \cap Caller
             theirs == held \cap Request
  <2>1. held = theirs \cup ours
    BY DEF ClientsOut
  <2>2. IsFiniteSet(theirs) /\ Cardinality(theirs) \in Nat
    BY FS_Subset, FS_CardinalityType DEF PoolBounded
  <2>3. ASSUME NEW c \in ours
        PROVE  c \in Caller /\ pc[c] # "none"
    <3>1. c \in Caller /\ (stage[c] \in Upserting \/ stage[c] \in Pruning)
      BY DEF ClientsOut, HoldsClient
    <3> QED BY <3>1 DEF LoopInv, CycleAwaitsStore
  <2>4. \A c, d \in ours : c = d
    BY <2>3 DEF LoopInv, AtMostOneCycle
  <2> HIDE DEF ours, theirs
  <2>5. CASE ours = {}
    <3>1. Cardinality(theirs) = PoolSize
      BY <2>1, <2>5
    <3>2. Cardinality(theirs) >= PoolSize - 1
      BY <3>1, PoolAssumption
    <3> QED BY <3>2 DEF theirs
  <2>6. CASE ours # {}
    <3>1. PICK c \in ours : ours = {c}
      BY <2>4, <2>6
    <3>2. held = theirs \cup {c}
      BY <2>1, <3>1
    <3>3. Cardinality(theirs \cup {c}) \in {Cardinality(theirs), Cardinality(theirs) + 1}
      BY <2>2, FS_AddElement
    <3>4. Cardinality(theirs) >= PoolSize - 1
      BY <2>2, <3>2, <3>3, PoolAssumption
    <3> QED BY <3>4 DEF theirs
  <2> QED BY <2>5, <2>6
<1> QED BY <1>1, <1>2, <1>3, PTL DEF ReadSpec

-------------------------------------------------------------------------------
(* The poll loop, without the clients that are out for requests *)
Loop == INSTANCE PollLoopProofs WITH held <- held \cap Caller

(* A client the pool has left is left when requests' clients are not counted. *)
LEMMA SpareClient ==
  ASSUME IsFiniteSet(held), Cardinality(held) < PoolSize
  PROVE  Loop!Cardinality(held \cap Caller) < PoolSize
<1>1. /\ Cardinality(held \cap Caller) <= Cardinality(held)
      /\ IsFiniteSet(held \cap Caller)
  BY FS_Subset
<1>2. Cardinality(held \cap Caller) \in Nat /\ Cardinality(held) \in Nat
  BY <1>1, FS_CardinalityType
<1>3. Loop!Cardinality(held \cap Caller) = Cardinality(held \cap Caller)
  BY DEF Loop!Cardinality, Cardinality
<1> QED BY <1>1, <1>2, <1>3, PoolAssumption

(* None of the data depends on who holds clients. *)
LEMMA SameRows ==
  /\ Loop!Rows = Rows /\ Loop!Row = Row /\ Loop!NoRows = NoRows
  /\ Loop!Time = Time /\ Loop!Event = Event
BY DEF Loop!Rows, Loop!Row, Loop!Time, Loop!Event, Loop!NoRows, Rows, Row, Time, Event, NoRows

(* Each step is the loop's, with the requests' clients hidden. *)
LEMMA ProcessSteps ==
  /\ Boot => Loop!Boot
  /\ Start => Loop!Start
  /\ Stop => Loop!Stop
  /\ TickSkipped => Loop!TickSkipped
  /\ TimePasses => Loop!TimePasses
  /\ \A c \in Caller : TickRuns(c) => Loop!TickRuns(c)
<1> USE SameRows DEF pgVars, txnVars, cycleVars, costVars, procVars,
        Loop!pgVars, Loop!txnVars, Loop!cycleVars, Loop!costVars, Loop!procVars
<1>1. Boot => Loop!Boot
  BY DEF Boot, Loop!Boot, MonthOf, Loop!MonthOf
<1>2. Start => Loop!Start
  BY DEF Start, Loop!Start
<1>3. Stop => Loop!Stop
  BY DEF Stop, Loop!Stop, Stops, Loop!Stops
<1>4. TickSkipped => Loop!TickSkipped
  BY DEF TickSkipped, Loop!TickSkipped, TimerDue, Loop!TimerDue
<1>5. TimePasses => Loop!TimePasses
  BY DEF TimePasses, Loop!TimePasses, Tick, Loop!Tick
<1>6. \A c \in Caller : TickRuns(c) => Loop!TickRuns(c)
  BY DEF TickRuns, Loop!TickRuns, StartsCycle, Loop!StartsCycle, TimerDue, Loop!TimerDue
<1> QED BY <1>1, <1>2, <1>3, <1>4, <1>5, <1>6

LEMMA CycleSteps ==
  ASSUME NEW c \in Caller, CycleStep(c)
  PROVE  Loop!CycleStep(c)
<1> USE SameRows DEF pgVars, txnVars, cycleVars, costVars, procVars,
        Loop!pgVars, Loop!txnVars, Loop!cycleVars, Loop!costVars, Loop!procVars
<1>0. /\ CycleFails(c) => Loop!CycleFails(c)
      /\ CycleSucceeds(c) => Loop!CycleSucceeds(c)
  BY DEF CycleFails, CycleSucceeds, EndCycle, Settles,
         Loop!CycleFails, Loop!CycleSucceeds, Loop!EndCycle, Loop!Settles
<1>1. FetchFails(c) => Loop!FetchFails(c)
  BY <1>0 DEF FetchFails, Loop!FetchFails
<1>2. FetchWithoutKey(c) => Loop!FetchWithoutKey(c)
  BY <1>0 DEF FetchWithoutKey, Loop!FetchWithoutKey
<1>3. Fetch(c) => Loop!Fetch(c)
  BY DEF Fetch, Loop!Fetch
<1>4. Enrich(c) => Loop!Enrich(c)
  BY DEF Enrich, Loop!Enrich, Enriches, Loop!Enriches
<1>5. StoreBatch(c) => Loop!StoreBatch(c)
  BY DEF StoreBatch, Loop!StoreBatch, RecordCalls, Loop!RecordCalls, Rollover, Loop!Rollover,
         SameMonth, Loop!SameMonth, MonthOf, Loop!MonthOf, UpsertCall, Loop!UpsertCall
<1>6. UpsertResolved(c) => Loop!UpsertResolved(c)
  BY DEF UpsertResolved, Loop!UpsertResolved, PruneCall, Loop!PruneCall, Cutoff, Loop!Cutoff
<1>7. UpsertRejected(c) => Loop!UpsertRejected(c)
  BY <1>0 DEF UpsertRejected, Loop!UpsertRejected, Return, Loop!Return
<1>8. PruneRejected(c) => Loop!PruneRejected(c)
  BY <1>0 DEF PruneRejected, Loop!PruneRejected, Return, Loop!Return
<1>9. PruneAnswered(c) => Loop!PruneAnswered(c)
  BY <1>0 DEF PruneAnswered, Loop!PruneAnswered, Return, Loop!Return
<1> QED BY <1>1, <1>2, <1>3, <1>4, <1>5, <1>6, <1>7, <1>8, <1>9
        DEF CycleStep, Loop!CycleStep

LEMMA StoreSteps ==
  ASSUME NEW c \in Caller, IsFiniteSet(held), StoreStep(c)
  PROVE  Loop!StoreStep(c)
<1> USE SameRows DEF cycleVars, costVars, procVars, Loop!cycleVars, Loop!costVars, Loop!procVars
<1>1. /\ Connect(c) => Loop!Connect(c)
      /\ PruneConnect(c) => Loop!PruneConnect(c)
  <2>1. ASSUME Connect(c) \/ PruneConnect(c)
        PROVE  /\ Loop!Cardinality(held \cap Caller) < PoolSize
               /\ held' \cap Caller = (held \cap Caller) \cup {c}
    <3>1. Cardinality(held) < PoolSize /\ held' = held \cup {c}
      BY <2>1 DEF Connect, PruneConnect
    <3>2. Loop!Cardinality(held \cap Caller) < PoolSize
      BY <3>1, SpareClient
    <3>3. held' \cap Caller = (held \cap Caller) \cup {c}
      BY <3>1
    <3> QED BY <3>2, <3>3
  <2>2. ASSUME Connect(c)
        PROVE  Loop!Connect(c)
    BY <2>1, <2>2 DEF Connect, Loop!Connect
  <2>3. ASSUME PruneConnect(c)
        PROVE  Loop!PruneConnect(c)
    BY <2>1, <2>3 DEF PruneConnect, Loop!PruneConnect
  <2> QED BY <2>2, <2>3
<1>2. /\ ConnectFails(c) => Loop!ConnectFails(c)
      /\ Ack(c) => Loop!Ack(c)
      /\ Rollback(c) => Loop!Rollback(c)
      /\ PruneAnswers(c) => Loop!PruneAnswers(c)
      /\ PruneFails(c) => Loop!PruneFails(c)
  BY DEF ConnectFails, Ack, Rollback, PruneAnswers, PruneFails, Settle, Release,
         Loop!ConnectFails, Loop!Ack, Loop!Rollback, Loop!PruneAnswers, Loop!PruneFails,
         Loop!Settle, Loop!Release
<1>3. Begin(c) => Loop!Begin(c)
  BY DEF Begin, Loop!Begin
<1>4. Insert(c) => Loop!Insert(c)
  BY DEF Insert, Loop!Insert, Seen, Loop!Seen, LockedByOther, Loop!LockedByOther,
         OnConflict, Loop!OnConflict, Written, Loop!Written
<1>5. Commit(c) => Loop!Commit(c)
  BY DEF Commit, Loop!Commit, Seen, Loop!Seen
<1>6. /\ LoseAck(c) => Loop!LoseAck(c)
      /\ QueryFails(c) => Loop!QueryFails(c)
  BY DEF LoseAck, Loop!LoseAck, QueryFails, Loop!QueryFails
<1>7. Delete(c) => Loop!Delete(c)
  <2>1. Loop!Expired(rows, cutoff[c]) = Expired(rows, cutoff[c])
    BY DEF Expired, Loop!Expired
  <2>2. \A gone : Loop!Without(rows, gone) = Without(rows, gone)
    BY DEF Without, Loop!Without
  <2> QED BY <2>1, <2>2 DEF Delete, Loop!Delete
<1>8. CallStep(c) => Loop!CallStep(c)
  BY <1>1, <1>2, <1>3, <1>4, <1>5, <1>6, <1>7 DEF CallStep, Loop!CallStep, Respond, Loop!Respond
<1> QED BY <1>8 DEF StoreStep, Loop!StoreStep, Removal, Loop!Removal

(* What the requests do, the loop does not see. *)
LEMMA ReadStepIsLoopStep ==
  ASSUME IsFiniteSet(held), [ReadNext]_readVars
  PROVE  [Loop!PollNext]_(Loop!pollVars)
<1>1. CASE ProcessDies
  <2>1. Loop!Crash
    BY <1>1, SameRows DEF ProcessDies, Crash, Loop!Crash, Disconnect, Loop!Disconnect
  <2> QED BY <2>1 DEF Loop!PollNext
<1>2. CASE IngestStep
  <2>1. CASE Boot \/ Start \/ Stop \/ TickSkipped \/ TimePasses
    BY <2>1, ProcessSteps DEF Loop!PollNext
  <2>2. ASSUME NEW c \in Caller, TickRuns(c) \/ CycleStep(c) \/ StoreStep(c)
        PROVE  Loop!PollNext
    <3>1. Loop!TickRuns(c) \/ Loop!CycleStep(c) \/ Loop!StoreStep(c)
      BY <2>2, ProcessSteps, CycleSteps, StoreSteps
    <3> QED BY <3>1 DEF Loop!PollNext
  <2> QED BY <1>2, <2>1, <2>2 DEF IngestStep
<1>3. ASSUME NEW r \in Request,
             Arrive(r) \/ QueryConnectFails(r) \/ QueryConnect(r) \/ QuerySettles(r)
      PROVE  UNCHANGED Loop!pollVars
  BY <1>3, RequestAssumption
     DEF Arrive, QueryConnectFails, QueryConnect, QuerySettles, Answers, Loop!pollVars, pollVars,
         pgVars, txnVars, cycleVars, costVars, procVars,
         Loop!pgVars, Loop!txnVars, Loop!cycleVars, Loop!costVars, Loop!procVars
<1>4. CASE UNCHANGED readVars
  BY <1>4 DEF readVars, Loop!pollVars, pollVars, pgVars, txnVars, cycleVars, costVars, procVars,
              Loop!pgVars, Loop!txnVars, Loop!cycleVars, Loop!costVars, Loop!procVars
<1> QED BY <1>1, <1>2, <1>3, <1>4 DEF ReadNext

(* The requests only compete with the loop for the pool: with their clients hidden,
   the process does what the poll loop does alone. *)
THEOREM ReadImplementsPollLoop == ReadSpec => Loop!PollSpec
<1>1. ReadInit => Loop!PollInit /\ PoolBounded
  BY FS_EmptySet, PoolAssumption
     DEF ReadInit, PollInit, PgInit, NoRows, Loop!PollInit, Loop!PgInit, Loop!NoRows, PoolBounded
<1>2. PoolBounded /\ [ReadNext]_readVars => PoolBounded'
  BY PoolBoundedStep
<1>3. PoolBounded /\ [ReadNext]_readVars => [Loop!PollNext]_(Loop!pollVars)
  BY ReadStepIsLoopStep DEF PoolBounded
<1> QED BY <1>1, <1>2, <1>3, PTL DEF ReadSpec, Loop!PollSpec

(* The loop's assumptions. *)
LEMMA LoopConstants ==
  /\ {Interval, MonthLength} \subseteq Nat \ {0} /\ {Retention, MaxRaw} \subseteq Nat
  /\ CallCounts \subseteq Nat /\ None \notin Nat /\ <<>> \in Batch
  /\ PoolSize \in Nat \ {0} /\ MaxTime \in Nat
  /\ NoRow \notin Loop!Row /\ Batch \subseteq Seq(Loop!Event)
BY SameRows, PollAssumption, PoolAssumption, EventsAssumption

(* So whatever the API serves meanwhile, cycles do not overlap, no counted call is
   lost, stamps never regress, only expired rows are deleted, what health reports
   is stored and pruned, and the table changes as the contract allows. *)
THEOREM ReadKeepsPromises ==
  ReadSpec => /\ []Loop!AtMostOneCycle /\ []Loop!CallsAccounted
              /\ Loop!StampsNeverRegress /\ Loop!OnlyExpiredDeleted
              /\ Loop!ReportedIngestIsStored /\ Loop!ReportedIngestIsPruned
              /\ Loop!ImplementsEventStore
<1> USE LoopConstants
<1>1. Loop!PollSpec => []Loop!AtMostOneCycle
  BY Loop!PollNeverOverlaps, Zenon DEF Loop!PollNeverOverlaps
<1>2. Loop!PollSpec => []Loop!CallsAccounted
  BY Loop!PollAccountsCalls, Zenon DEF Loop!PollAccountsCalls
<1>3. Loop!PollSpec => Loop!StampsNeverRegress
  BY Loop!PollStampsNeverRegress, Zenon DEF Loop!PollStampsNeverRegress
<1>4. Loop!PollSpec => Loop!OnlyExpiredDeleted
  BY Loop!PollDeletesOnlyExpired, Zenon DEF Loop!PollDeletesOnlyExpired
<1>5. Loop!PollSpec => Loop!ReportedIngestIsStored
  BY Loop!PollReportsStored, Zenon DEF Loop!PollReportsStored
<1>6. Loop!PollSpec => Loop!ReportedIngestIsPruned
  BY Loop!PollReportsPruned, Zenon DEF Loop!PollReportsPruned
<1>7. Loop!PollSpec => Loop!PgSpec /\ [](Loop!PgTypeOK /\ Loop!CycleTyped)
  BY Loop!PollUsesStore, Zenon DEF Loop!PollUsesStore
<1>8. Loop!PgSpec => Loop!ImplementsEventStore
  BY Loop!PgImplementsEventStore, Zenon DEF Loop!PgImplementsEventStore
<1> QED BY ReadImplementsPollLoop, <1>7, <1>8, <1>1, <1>2, <1>3, <1>4, <1>5, <1>6, PTL
===============================================================================
