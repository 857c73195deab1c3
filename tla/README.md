# Verification of the Norvenzia Intelligence Service (MIS)

TLA+ models of the service in `src/`, model-checked with TLC on small instances
and, for the properties that matter most, proved with TLAPS for every value of
the constants. `PROJECT.json` lists the runs, the source lines behind each
definition, the mutants each property catches, the hazards and the findings.

## The system

MIS is one Node.js process. A poll loop fetches GDELT's newest export, enriches
its rows with an LLM, stores the results and prunes old ones; an Express API
serves the store; an optional AIS stream feeds a map of vessels.

| Component | State | Operations | What makes it correct |
|---|---|---|---|
| Poll loop (`server.js`, `lib/scheduler.js`) | `handle`, `running`, the locals of a running `pollOnce`, `health.lastIngestAt` | boot, `start`, `stop`, tick, `pollOnce`, crash | cycles never overlap and always end; a reported ingest is stored and pruned |
| Cost monitor (`lib/costMonitor.js`) | `monthKey`, `callsThisMonth` | `recordCalls`, rollover | no counted call is lost, whatever fails |
| PostgreSQL store (`lib/store/postgresEventStore.js`, `db/schema.sql`) | the table, the pool, open transactions | `upsertEvents`, `pruneOlderThan`, `listAll`, `countAll` | each batch is all or nothing; transactions isolated; no client leaks; every call settles |
| In-memory store (`lib/store/memoryEventStore.js`) | a Map | the same | it is the contract the other store promises to translate |
| GDELT ingest (`lib/gdelt/ingest.js`, `unzip.js`) | the await of a fetch and its timeout | `fetchRecentEvents` | bounded time; exports in order |
| Event identity (`lib/gdelt/parseEvents.js`, `lib/enrich/clusterKey.js`) | none of its own; ids key the store | parse a row, make its id | an id never merges reports that are far apart |
| Local models (`lib/ml/`) | none: weights checked in | veto a row, rate its severity, judge a summary | the veto spares keyworded rows; attention alone makes nothing severe; filler is not out-voted |
| Enrichment (`lib/enrich/`) | the locals of `enrichEvent` | veto, four prompts, severity blend | never a half-enriched event; what is emitted keeps the consumer's contract (`lib/api/contractRules.js`) |
| LLM resilience (`lib/llm/`) | two nested retry loops, open requests, the call counter | attempt, timeout, retry | each loop is a `withResilience` call though nested and abandoned; settles in time on a current answer; bounded spend |
| Read API (`lib/api/createApp.js`) | requests waiting for the pool | health, disruptions, vessels | served beside ingest; newest matching rows within the limit |
| AIS feed (`lib/ais/`) | socket, backoff, timer, vessel map | socket events and messages, reconnect, `stop`, `pruneStale`, `listAll` | one connection; final stop; bounded staleness |

**Interaction.** The poll loop calls ingest, enrichment and store in sequence,
each behind an `await`; the API and the loop share only the store, its pg `Pool`
and `health`; the AIS feed shares only the vessel map with the API. Everything
runs on one event loop, so code between two awaits is atomic and what interleaves
are awaits, timers and the database's own steps. **Hard behaviours**: overlapping
cycles; transactions and DELETEs that interleave, fail at any query or lose the
answer to one that took effect; crashes; late answers to abandoned requests; nested
retry loops; an endpoint that never answers; reconnect racing `stop()`.

## Modules

| Module | Models |
|---|---|
| `DisruptionEvents` | the data of both stores: event, row, what a batch may make of a row |
| `EventStore` | the abstract contract: a batch is stored whole, pruning deletes the rows updated before the cutoff |
| `PostgresEventStore` | `upsertEvents` as the stages idle, connecting, begin, insert, commit, committed, rollback for each caller; `pruneOlderThan` as the stages pruning, delete, deleted; pool and row locks as the code uses them |
| `PollLoop` | extends `PostgresEventStore`; main's boot, `createPoller`, `pollOnce`, `CostMonitor`; a cycle is a caller of the store |
| `ReadApi` | extends `PollLoop`; API requests that take clients from the same pool |
| `WithResilience` | the abstract contract of one `withResilience` call: attempts one after another, each given up after the timeout, a final outcome |
| `LlmResilience` | one prompt through both `withResilience` loops and the requests they send |
| `Scoring` | the three models of `lib/ml/` in fixed point, with the weights checked in |
| `Enrichment` | extends `Clustering` and `Scoring`; `enrichEvent` on one row, with every reply class of every prompt |
| `GdeltIngest` | `fetchRecentEvents` await by await against a publishing feed |
| `Clustering` | operators only: which rows are kept, as which raw event, and an event's id |
| `ListEvents` | `parseQueryFilters`, and PostgreSQL's `listAll` as the answers its SELECT may give |
| `MemoryEventStore` | extends `ListEvents`; `upsertEvents`, `pruneOlderThan` and `listAll` over a Map with its insertion order, the sequence of its keys; a sort puts each position at its rank |
| `AisFeed` | the reconnecting stream and the vessel map |
| `*Proofs` | the theorems on `PostgresEventStore`, `PollLoop`, `ReadApi`, `MemoryEventStore`, `LlmResilience`, `Enrichment` (with the lemmas on `Clustering`), `GdeltIngest`, `AisFeed` |
| `MC*` | instances for TLC |

How state and actions correspond to the code:

- `stage[c]` is the await `upsertEvents` is at; `Connect` is `pool.connect()`,
  `Begin`/`Insert`/`Commit` the queries, `QueryFails` any query that rejects,
  `Commit` and `Ack` the two halves of COMMIT (applied, then answered) so that
  `LoseAck` can come between, `Rollback` the catch and finally blocks. `pool.query` of
  `pruneOlderThan` is `PruneCall` (with the `cutoff[c]` it is given), `PruneConnect`
  (from here it holds a client), `Delete` (applied) and `PruneAnswers` or `PruneFails`
  (answered, rejected, or the answer lost). `work[c]` is what the transaction has written
  and locked, `held` the checked-out clients, the DELETE's included.
- A row keeps apart what the code treats differently: `content` (the six fields
  whose change counts), `place` (set by INSERT only), `refs`, and the two stamps.
  `source_count` and `relevance_score` are overwritten with no further effect.
- `pc[c]` is where `pollOnce` is. Each step runs to the next await: recording the
  calls and entering `upsertEvents` is one step (`StoreBatch`), taking the cutoff from
  the clock and entering `pruneOlderThan` is one too (`UpsertResolved`). `StoreStep` is
  the store's own steps; `PruneAnswered` and `PruneRejected` are what `pollOnce` does
  with the outcome. `Crash` forgets all memory and closes all connections.
- `made`, `rolledOver`, `startedAt`, `removed`, `elapsed`, `newest`, `cycles` are
  history variables; no guard reads them, except that `cycles` counts up to a bound.
  `removed[c]` has the rows the store's steps of a cycle took out of the table.
- In `LlmResilience` every outer attempt has an inner loop of its own, and every
  inner attempt a request of its own, which stays open when it is timed out. The
  mapping of either loop to `WithResilience` is its own record of attempt, deadline
  and outcome; the requests and the other loops are forgotten.
- `Scoring` computes what the JavaScript computes in doubles with integers: features
  in thousandths, weights as checked in, `Math.log1p` as a table. A text is what the
  models count in it: a row's positive and negative keywords, a summary's share of
  the event's names, its markers and its signal; the naive Bayes probability is any
  percentage. Rounding could only matter next to a
  threshold; on every row of `MCEnrich` the verdicts of the veto and of the regressor are
  those of the weights as checked in, the rows of 463 and 464 sources included, between
  which a row of one keyword and no mentions begins to be vetoed.
- In `AisFeed` a socket's `close` arms a countdown; `timer` is the variable that
  `stop()` clears, `socket` the one it closes. A message is what decides whether
  `parsePositionReport` makes a report of it.
- A date column is what is made of it: the day `bucketDate` reads, and `sqlDate`, whether
  it is eight digits, eight other characters, or of another length, which is what
  `toIsoDate` and the contract's rule tell apart. `assertValidDisruptionEvent` is the set
  of rules an event breaks, empty where the code does not throw.
- `Clustering` takes coordinates in the feed's smallest unit. Whether a coordinate
  half way between two cells rounds up depends on the double its quotient is, so
  `RoundsUp`, the set of those that do, is a constant of any value.

Mutants of the mapped definitions (a dropped guard, a missing release, a swapped
order) stand beside the definitions they vary, marked `Mutant:`; no specification
uses them.

## Runs

| Run | Question | Bounds |
|---|---|---|
| `PgStore` | Do interleaved, failing transactions implement the contract, isolated and without a client leak, and does every call settle? | 2 callers, pool of 2, 5 batches over 2 ids (one repeats an id, two cross), 2 stamps, any cutoff |
| `Memory` | Does the Map implement the contract, and does the API list what SQL would? | 3 ids, 2 contents, 9 batches (one repeats an id, one shares a stamp), 3 stamps, parameters around each bound |
| `Poll` | Are the poll loop's guarantees kept across failures, crashes, stop and start, and does every cycle end? | 2 cycle slots, 2 events a cycle, clock to 3 with interval 1, retention 1, month 2 |
| `Read` | Is every API request answered while ingest may stand still? | 2 requests, 2 cycle slots, pool of 2 |
| `Llm` | Is either nested loop a `withResilience` call, does a prompt settle in time on a current answer, and is the spend bounded? | 3 attempts in both loops (the code's), timeout 2 |
| `Enrich` | Can an event that is half-enriched, over-rated, vacuous or against the contract be emitted, a keyworded row be vetoed, an id be shared by rows far apart? | 336 rows around zero, cell and window edges and ties, with dates of every shape; rows of 1 to 500 mentions and of 463 and 464 sources; replies at, below and above each threshold; summaries on both sides of the groundedness threshold |
| `Gdelt` | Does a fetch settle and take exports in order? | 4 exports, timeout 2 |
| `Ais` | One connection, final stop, bounded age, reconnect? | 3 sockets, 2 vessels, backoff 1 to 3 |

Why the bounds are enough. Two callers suffice for every pairwise conflict (in
this program they are the cycles, of which one runs at a time; the store module assumes
no such caller); waiting for a client of the pool is what `Read` exercises, where
queries of the API compete with ingest. Two ids make a
crossed lock order possible, a repeated id and two contents a change undone within
a batch; a third id lets the limit of two rows cut a listing. `Poll`'s clock lets a row expire, a month roll over and two ticks fall
into one cycle. A second cycle slot is there so that an overlap would be possible.
`MaxTime`, `MaxRaw` and `MaxExport` bound counters in guards;
`AgeCap` in `AisFeed` joins ages beyond the largest that matters. The clock of
`LlmResilience` runs past the last possible retry.

In `Enrich` the counts are those of a quiet row and of viral ones, with the columns
GDELT leaves empty; the boundaries of the models are crossed by some pair of them.
`OnlyNoiseVetoed` takes the rows of one place only.

`CHECK_DEADLOCK FALSE` is set where the system really stops: a prompt that settled
(`Llm`, `LlmCount`) and an event that settled (`Enrich`, `OnlyNoiseVetoed`,
`EmittedKeepsContract`).

## Findings

Each is a run that TLC ends with a counterexample.

| Run | The code | What is said of it |
|---|---|---|
| `LlmCount` | the inner retry loop's requests are not counted | `server.js:41` |
| `GdeltRebuild` | a cycle reads the newest export only, so a wiped store is not rebuilt | `RUNBOOK.md:199` |
| `OnlyNoiseVetoed` | a row is vetoed for its counts alone: the weight of the sources is negative, so 200 mentions in 200 sources are too many | `relevanceClassifier.js:96` |
| `EmittedKeepsContract` | `toIsoDate` puts hyphens into any eight characters, so a SQLDATE that cannot be parsed becomes an `eventDate` that breaks the contract: the in-memory store serves it, PostgreSQL refuses it with the whole batch | `contractRules.js:22`, `README.md:185` |

Seen while modelling, without a run of their own:

- The UPDATE leaves lat, lon and location alone (`postgresEventStore.js:73`) where
  the Map replaces the event (`memoryEventStore.js:41`), though
  `postgresEventStore.js:11` calls it a mechanical translation. `Upserted` in
  `DisruptionEvents` allows either place.
- One id twice in a batch, changed and restored, advances `last_updated_at`
  (`postgresEventStore.js:86`; the comment at line 60 says only changes do).
- A pruned story that is re-emitted unchanged returns with fresh stamps
  (`server.js:83`; compare `RUNBOOK.md:108`).
- A severity filter beyond SMALLINT is an error in one store and an empty list in
  the other (`memoryEventStore.js:62` says they behave identically).
- Two actors with the same first word share an id (`clusterKey.js:37`): by design, but
  "German Navy" and "German Railways" are one actor to it.
- The regressor that is to damp attention (`severityRegressor.js:154`) gives positive
  weights to the article count and the mentions per source (`severityRegressor.js:125`);
  only the mention and source counts weigh against a severity.
- A story of 464 sources with a supply-chain keyword is vetoed when its mentions column is
  empty (`relevanceClassifier.js:82`); with a mention for each source, none of up to a
  million is (`KeywordsAreNotVetoed`).
- `health` reads the row count, awaits, and then reads `lastIngestAt`: the two may be of
  different cycles (`createApp.js:90`).
- A row with one empty coordinate is kept, at zero (`parseEvents.js:34`; compare
  `test/gdelt-parse.test.js:23`).

## Fairness

Nothing is assumed of GDELT, DeepSeek, the AIS network, operators or crashes.

- `PgFairness`: the database answers or rejects every statement (weak fairness of
  `Respond`; the code sets no statement timeout, so this is the database's part),
  and pg-pool serves its queue in order, so a `Connect` that is possible again and
  again happens (strong fairness).
- `PollFairness`: every await of a cycle settles. `GdeltIngest` and `LlmResilience`
  show this for fetches and prompts from their timers alone; the store's part is
  the database's.
- `ReadFairness`: only the reads' own queries are answered and only their place in
  the pool's queue is respected; ingest gets no fairness, so `ReadsServed` holds
  even when its transaction never ends.
- `GdeltIngest`, `LlmResilience`, `AisFeed`: time passes and due timers fire.

## Proofs

All theorems hold for any values of the constants under the modules' named
assumptions (`EventsAssumption`, `PoolAssumption`, `PollAssumption`,
`RequestAssumption`, `ListAssumption`, `ResilienceAssumption`, `ReplyAssumption`,
`ScoringAssumption`, `IngestAssumption`, `ClusteringAssumption`, `AisAssumption`).
`ListAssumption` asks of the limits what `createApp.js` has: a default of 100 within a
maximum of 500, and a parsed limit that is an integer or absent.

- **`PgImplementsEventStore`** (`PgSpec => ES!Spec`). The refinement mapping is the
  identity on `rows`; every step but `Commit` and `Delete` stutters. That a commit
  is one `UpsertEvents` of the whole batch needs more than the table: the inductive
  invariant `TransactionsIsolated` says that at every step between BEGIN and COMMIT
  the transaction's writes are what the contract makes of the prefix of the batch
  its loop has passed, *against the table as it is now*. It is inductive because
  `RowLocks` keeps every other commit, and `Delete`'s wait for locks every DELETE,
  away from the rows that were written. Lemmas about `Upserted` on a prefix one
  event longer carry the `Insert` step.
- **`PgTypeCorrect`**, **`PgTransactionsIsolated`**, **`PgNoClientLeak`**: the parts.
- **`PollUsesStore`**: a poll-loop step is a store step or leaves the store alone,
  so the store's theorems hold of `PollSpec`.
- **`PollNeverOverlaps`**: `AtMostOneCycle` is inductive with type correctness.
- **`PollOneClient`**: a transaction is under way only for a cycle at its upsert and a
  DELETE only for one at its prune (`CycleAwaitsStore`); with `NoClientLeak`, whose clients
  count the DELETE's, one cycle means one client at most.
- **`PollStampsNeverRegress`**: a row's last-updated stamp never goes back. The
  inductive `StampsBehind` says no committed stamp is ahead of the clock, and none
  is later than the BEGIN of a transaction that is open. The second half needs
  `AtMostOneCycle`: no other commit can come between a transaction's BEGIN and its
  COMMIT. The store alone does not guarantee it to overlapping callers.
- **`PollDeletesOnlyExpired`**: `CutoffBehind` says a cycle's cutoff stays at least the
  retention period ago however long its DELETE waits.
- **`PollReportsStored`**, **`PollReportsPruned`**: only the answer to the DELETE moves
  `lastIngestAt` of a service with a key (`ReportedAfterPrune`). `CycleStored` follows the
  cycle's events from `upsertEvents`' argument through COMMIT (what `TransactionsIsolated`
  says of the whole batch) to the DELETE, after which each is in the table or in `removed`:
  it was there with its reference, the cycle's own DELETE took it out, and it was past
  retention. `PrunedSinceStart` follows the cutoff from the step that takes it to the rows
  the DELETE leaves. Both need that the cycle of a call is the only one (`CallerIsTheCycle`): no other commit
  and no other DELETE comes in between.
- **`PollAccountsCalls`**: calls not yet recorded belong to the cycle that enriches.
- **`PollTypeCorrect`**: `PollTypeOK`.
- **`ReadIngestLeavesClients`**: requests hold clients too, so the store's invariant
  about `held` is split into cycles' and requests' clients (`ClientsOut`), and the
  poll loop's step lemmas are used with the part of the type invariant they need. With
  one client for ingest at most, a pool that is all out is out for requests but for one.
- **`ReadImplementsPollLoop`** (`ReadSpec => Loop!PollSpec`): the loop beside the API is
  a poll loop. The mapping hides the clients that requests hold; an action of ingest is
  then the same action of the loop, with at least as many clients to spare, and an action
  of a request stutters. One lemma per group of actions says so; the guards of `Connect`
  and `PruneConnect` count the clients out, so the mapping also needs of `PoolBounded`
  that only finitely many are.
  **`ReadKeepsPromises`** then transfers the theorems on `PollLoop` to the service with its
  API: no overlap, every call counted, stamps that never regress, only expired rows
  deleted, reported ingests stored and pruned, and the contract of the store.
- **`MemImplements`** (`MemSpec => ES!Spec`): the Map's loop over a batch adds up to the
  contract's one `UpsertEvents`, repeated ids included. `StoredAll` is a recursive
  function of the loop's counter; `StoredAllUpserts` says that after `n` iterations the
  table is what the contract makes of the first `n` events and that the keys are still
  in step with it. It is proved by the least iteration that would be wrong (`LeastNat`,
  from the well-foundedness of `<` on the naturals), and so is that the recursive function
  exists (`LoopExists`). **`MemTypeCorrect`**: the sequence of keys has each key once.
- **`MemListsAsSql`**, **`MemAnswerBounded`**: the ranks of a finite set of positions
  in a strict total order are a bijection onto `1 .. n` (`RankGrows`, `RankTaken`), so the
  sorted listing has every match once, in order (`PositionsSorted`, `AllFound`), and the
  limit keeps a prefix of it: at most `MAX_LIMIT` rows, and none only if none match.
- **`StoresStayAlike`**: `memoryEventStore.js:62-64` says that both stores behave
  identically from the API's point of view. Two tables that agree on all but the place of
  a row (`AlikeTables`) still do after each store did with the same batch what the contract
  allows (which `MemImplements` and `PgImplementsEventStore` say both do), prune the same
  ids, and may list the same. Place is the one column where the two
  differ (see Findings), so it is the one the theorem leaves out.
- **`LoopsImplementWithResilience`**: the outer loop and every inner loop implement
  `WithResilience`. The inductive `IInv` says which loops have started, which requests
  each has sent, and bounds each deadline by the attempts already used, so that an
  inner loop is called within `a - 1` timeouts. From the same invariant
  **`PromptSettlesInTime`**, **`ZombieLoopsEnd`**, **`AnswersAreCurrent`**,
  **`LlmTypeCorrect`** and, by counting the requests between a column and a
  rectangle, **`CounterWithinFactor`**.
- **`EmittedEvents`**, **`MarginalEventsNeedRegressor`**: from a phase invariant and
  lemmas on the ranges of `computeSeverity` and `blendSeverity`. Of the five rules of the
  contract `EmittedEvents` excepts one for one kind of row, the one the finding
  `EmittedKeepsContract` shows to be broken.
- **`RowsOfOneIdAreNear`**: `bucketCoordinate` is within half a cell of its argument,
  whatever the ties do.
- **`KeywordsAreNotVetoed`**: for every feed. Up to 463 sources one keyword is enough
  against the negative weight of the sources whatever else the row counts; with a mention
  for each source (`OneMentionPerSource`) the weight of the mentions per source makes it
  enough up to a million. Of the logarithm only what `ScoringAssumption` says is used: that it
  grows, and its values at these two counts.
- **`TellsDecide`**: with one stock phrase the statistical component alone stays below the
  threshold.
- **`FetchSettlesInTime`**, **`FetchReturnsNewest`**, **`IngestTypeCorrect`**: the
  elapsed time is bounded by the awaits already passed plus the used part of the
  current timeout; the export in hand lies between the newest at the call and the
  newest now.
- **`StreamIsOne`**, **`StopHolds`**: the inductive invariant names one current socket: it is
  alive, recorded and no timer is armed, or it is closed and its timer is the one armed
  and recorded. **`ServedPositionsAreFresh`**:
  the age of a vessel and the time to the next prune add up to a bound.
  **`AisTypeCorrect`**: `TypeOK` of the feed.

Only model-checked: liveness (`EveryCallSettles`, `CycleEnds`, `ReadsServed`,
`PromptSettles`, `StreamReconnects`, `CallSettles`), which is out of the prover's reach.
Every invariant and every action property of a passing run has a theorem.

## Not modelled

- Word lists and word counts (`lib/ml/features.js`, `severityFeatures.js`,
  `summaryGroundedness.js`): how many keywords or stock phrases a text has is an input;
  what the models make of the counts is modelled. The naive Bayes probability is any
  percentage.
- Prompt texts and the CAMEO descriptions in them: a reply is arbitrary whatever the
  prompt says.
- `lib/eval/` and `scripts/`: offline tools run by hand, the training functions of the
  models among them.
- The rate limiter, compression, security and caching headers: middleware of libraries.
- Eight digits that are no calendar day: the contract's pattern passes them, and what
  PostgreSQL makes of such a value is one of the failing queries of `PgStore`.
- Port parsing and logging.

Year-month-day arithmetic of `bucketDate` is a day number; the SHA-1 prefix of an
id is taken to be injective.

## Plan

Built in this order: stores and contract, poll loop, LLM resilience, enrichment,
AIS feed, GDELT ingest, listing, read API, identity; then the refinement of
`WithResilience`, the local models, and the proofs of the poll loop's promises, the
LLM loops, the AIS feed and the read API; then the proofs about the Map and its listing,
the likeness of the stores, and the poll loop's promises beside the API. Left, most important first:

1. `PollLoop` over `MemoryEventStore`, the local-development configuration;
2. a composition of `GdeltIngest` with the poll loop's clock: which exports a loop
   that skips ticks and fails fetches can miss;
3. the `since` cursor of a polling consumer against stamps taken at BEGIN;
4. column values as PostgreSQL types them, for the batch one date that is no calendar day
   rejects and the severity filter beyond SMALLINT.
