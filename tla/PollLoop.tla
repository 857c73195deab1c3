------------------------------- MODULE PollLoop -------------------------------
(***************************************************************************)
(* The ingest side of server.js over the PostgreSQL store: main() boots    *)
(* the process, lib/scheduler.js's poller starts a cycle on a timer tick   *)
(* unless one is running, and the cycle (pollOnce) fetches the latest GDELT *)
(* export, enriches its events one by one, records the LLM calls with      *)
(* CostMonitor, upserts the batch and prunes.  The process may crash and   *)
(* be booted again at any point.  A cycle is a Caller of the store.        *)
(***************************************************************************)
EXTENDS PostgresEventStore

CONSTANTS
    None,        \* null: no timer handle, no ingest yet
    Interval,    \* the poll interval, in ticks of the clock
    Retention,   \* RETENTION_DAYS, in ticks
    MonthLength, \* a calendar month, in ticks
    MaxRaw,      \* bound on the raw events in one export
    CallCounts   \* the LLM calls enriching one event may take

ASSUME PollAssumption == /\ {Interval, MonthLength} \subseteq Nat \ {0}
                         /\ {Retention, MaxRaw} \subseteq Nat
                         /\ CallCounts \subseteq Nat
                         /\ None \notin Nat
                         /\ <<>> \in Batch

VARIABLES
    up,             \* the process is running
    hasKey,         \* it was booted with a DEEPSEEK_API_KEY
    handle,         \* when setInterval fires next, None when stopped
    running,        \* createPoller's overlap guard
    pc,             \* where each cycle's pollOnce is, "none" for a free slot
    left,           \* raw events it has yet to enrich
    enriched,       \* the events it will store
    counter,        \* counter.count of its LLM calls
    monthKey,       \* CostMonitor's month
    callsThisMonth, \* CostMonitor's count
    lastIngestAt,   \* health.lastIngestAt
    startedAt,      \* when each cycle started (history)
    removed,        \* the rows each cycle's prune has removed (history)
    made,           \* LLM calls counted since the boot (history)
    rolledOver      \* calls of the months CostMonitor has closed (history)

cycleVars == <<pc, left, enriched, counter, startedAt, removed>>
costVars  == <<monthKey, callsThisMonth, rolledOver>>
procVars  == <<up, hasKey, handle, running, lastIngestAt, made, cycleVars, costVars>>
pollVars  == <<pgVars, procVars>>

Phase == {"none", "fetch", "enrich", "upsert", "prune"}

PollTypeOK ==
    /\ up \in BOOLEAN /\ hasKey \in BOOLEAN /\ running \in BOOLEAN
    /\ handle \in Nat \cup {None}
    /\ pc \in [Caller -> Phase]
    /\ left \in [Caller -> 0 .. MaxRaw]
    /\ enriched \in [Caller -> Batch]
    /\ counter \in [Caller -> Nat]
    /\ startedAt \in [Caller -> Time]
    /\ removed \in [Caller -> Rows]
    /\ {monthKey, callsThisMonth, made, rolledOver} \subseteq Nat
    /\ lastIngestAt \in Time \cup {None}

MonthOf(t) == t \div MonthLength

PollInit ==
    /\ PgInit
    /\ pc = [c \in Caller |-> "none"]
    /\ left = [c \in Caller |-> 0]
    /\ enriched = [c \in Caller |-> <<>>]
    /\ counter = [c \in Caller |-> 0]
    /\ startedAt = [c \in Caller |-> 0]
    /\ removed = [c \in Caller |-> NoRows]
    /\ up = FALSE /\ hasKey = FALSE /\ running = FALSE
    /\ handle = None
    /\ monthKey = 0 /\ callsThisMonth = 0 /\ rolledOver = 0 /\ made = 0
    /\ lastIngestAt = None

-------------------------------------------------------------------------------
(* The process *)

(* main(): migrate() succeeds (it leaves the rows alone; when it fails the
   process exits), all in-memory state is new and the poller starts. *)
Boot ==
    /\ ~ up
    /\ up' = TRUE
    /\ hasKey' \in BOOLEAN
    /\ handle' = now + Interval
    /\ monthKey' = MonthOf(now)
    /\ UNCHANGED <<pgVars, running, lastIngestAt, made, callsThisMonth, rolledOver, cycleVars>>

(* The process dies: memory is lost, the server aborts open transactions. *)
Crash ==
    /\ up
    /\ up' = FALSE /\ hasKey' = FALSE /\ running' = FALSE
    /\ handle' = None
    /\ pc' = [c \in Caller |-> "none"]
    /\ left' = [c \in Caller |-> 0]
    /\ enriched' = [c \in Caller |-> <<>>]
    /\ counter' = [c \in Caller |-> 0]
    /\ startedAt' = [c \in Caller |-> 0]
    /\ removed' = [c \in Caller |-> NoRows]
    /\ monthKey' = 0 /\ callsThisMonth' = 0 /\ rolledOver' = 0 /\ made' = 0
    /\ lastIngestAt' = None
    /\ Disconnect

-------------------------------------------------------------------------------
(* createPoller *)

Start ==
    /\ up /\ handle = None
    /\ handle' = now + Interval
    /\ UNCHANGED <<pgVars, up, hasKey, running, lastIngestAt, made, cycleVars, costVars>>

Stops(guard) ==
    /\ up /\ handle # None
    /\ handle' = None /\ running' = guard
    /\ UNCHANGED <<pgVars, up, hasKey, lastIngestAt, made, cycleVars, costVars>>

(* Mutant: stop() also clears the overlap guard. *)
StopClearsGuard == Stops(FALSE)

(* stop() clears the interval only: a cycle in flight goes on. *)
Stop == Stops(running)

TimerDue == up /\ handle # None /\ handle <= now

TickSkipped ==
    /\ TimerDue
    /\ running
    /\ handle' = now + Interval
    /\ UNCHANGED <<pgVars, up, hasKey, running, lastIngestAt, made, cycleVars, costVars>>

(* A due tick starts a cycle; by itself, a mutant: the poller without the guard. *)
StartsCycle(c) ==
    /\ TimerDue
    /\ pc[c] = "none"
    /\ handle' = now + Interval
    /\ running' = TRUE
    /\ pc' = [pc EXCEPT ![c] = "fetch"]
    /\ startedAt' = [startedAt EXCEPT ![c] = now]
    /\ UNCHANGED <<pgVars, up, hasKey, lastIngestAt, made, left, enriched, counter, removed,
                   costVars>>

TickRuns(c) == ~ running /\ StartsCycle(c)

(* The task settles: its locals are gone. *)
Settles(c) ==
    /\ pc' = [pc EXCEPT ![c] = "none"]
    /\ left' = [left EXCEPT ![c] = 0]
    /\ enriched' = [enriched EXCEPT ![c] = <<>>]
    /\ counter' = [counter EXCEPT ![c] = 0]
    /\ startedAt' = [startedAt EXCEPT ![c] = 0]
    /\ removed' = [removed EXCEPT ![c] = NoRows]

(* finally clears the guard. *)
EndCycle(c) == running' = FALSE /\ Settles(c)

(* Mutant: then() instead of finally(), so a failed cycle leaves the guard up. *)
CycleFailsKeepsGuard(c) == Settles(c) /\ UNCHANGED <<running, lastIngestAt>>

(* pollOnce resolved. *)
CycleSucceeds(c) == EndCycle(c) /\ lastIngestAt' = now

(* Mutant: a failure in the cycle is swallowed. *)
CycleFailsSilently(c) == CycleSucceeds(c)

(* pollOnce rejected: logged, and health keeps the last good ingest. *)
CycleFails(c) == EndCycle(c) /\ UNCHANGED lastIngestAt

-------------------------------------------------------------------------------
(* pollOnce *)

(* fetchRecentEvents: a timeout, a bad status, a missing or foreign URL, an
   oversized or broken export. *)
FetchFails(c) ==
    /\ pc[c] = "fetch"
    /\ CycleFails(c)
    /\ UNCHANGED <<pgVars, up, hasKey, handle, made, costVars>>

(* Without a key the cycle ends here: nothing is stored, nothing pruned. *)
FetchWithoutKey(c) ==
    /\ pc[c] = "fetch"
    /\ ~ hasKey
    /\ CycleSucceeds(c)
    /\ UNCHANGED <<pgVars, up, hasKey, handle, made, costVars>>

Fetch(c) ==
    /\ pc[c] = "fetch"
    /\ hasKey
    /\ pc' = [pc EXCEPT ![c] = "enrich"]
    /\ \E n \in 0 .. MaxRaw : left' = [left EXCEPT ![c] = n]
    /\ UNCHANGED <<pgVars, up, hasKey, handle, running, lastIngestAt, made, enriched, counter,
                   startedAt, removed, costVars>>

(* The event of one more raw event, after n counted LLM calls. *)
Enriches(c, n) ==
    /\ pc[c] = "enrich" /\ left[c] > 0
    /\ left' = [left EXCEPT ![c] = @ - 1]
    /\ counter' = [counter EXCEPT ![c] = @ + n]
    /\ made' = made + n
    /\ UNCHANGED <<pgVars, up, hasKey, handle, running, lastIngestAt, pc, startedAt, removed,
                   costVars>>

(* Mutant: the null of a dropped event is pushed too. *)
EnrichPushesNull(c) ==
    \E n \in CallCounts : Enriches(c, n) /\ enriched' = [enriched EXCEPT ![c] = Append(@, None)]

(* enrichEvent on the next raw event: an event or a drop; it never rejects.  An
   event of the result took at least one call. *)
Enrich(c) ==
    \E n \in CallCounts :
        /\ Enriches(c, n)
        /\ \/ UNCHANGED enriched
           \/ n > 0 /\ \E e \in Event : /\ Append(enriched[c], e) \in Batch
                                        /\ enriched' = [enriched EXCEPT ![c] = Append(@, e)]

SameMonth == MonthOf(now) = monthKey

(* CostMonitor.rolloverIfNewMonth. *)
Rollover ==
    /\ monthKey' = MonthOf(now)
    /\ rolledOver' = rolledOver + (IF SameMonth THEN 0 ELSE callsThisMonth)

(* Mutant: the rollover comes after the count is added. *)
RecordCallsThenRollover(count) ==
    Rollover /\ callsThisMonth' = IF SameMonth THEN callsThisMonth + count ELSE 0

(* CostMonitor.recordCalls. *)
RecordCalls(count) ==
    Rollover /\ callsThisMonth' = count + (IF SameMonth THEN callsThisMonth ELSE 0)

(* All events are enriched: the calls are recorded and store.upsertEvents is
   entered, without an await between. *)
StoreBatch(c) ==
    /\ pc[c] = "enrich" /\ left[c] = 0
    /\ RecordCalls(counter[c])
    /\ counter' = [counter EXCEPT ![c] = 0]
    /\ UpsertCall(c, enriched[c])
    /\ pc' = [pc EXCEPT ![c] = "upsert"]
    /\ UNCHANGED <<up, hasKey, handle, running, lastIngestAt, made, left, enriched, startedAt,
                   removed>>

(* The rows a step takes out of the table. *)
Removal(before) == [id \in Id |-> IF rows[id] # NoRow /\ rows'[id] = NoRow THEN rows[id]
                                 ELSE before[id]]

(* The store's own steps. *)
StoreStep(c) ==
    /\ CallStep(c)
    /\ removed' = [removed EXCEPT ![c] = Removal(@)]
    /\ UNCHANGED <<up, hasKey, handle, running, lastIngestAt, made, pc, left, enriched, counter,
                   startedAt, costVars>>

(* Mutant: the cutoff forgets the retention period. *)
CutoffNow == now

(* Date.now() minus the retention period. *)
Cutoff == IF now > Retention THEN now - Retention ELSE 0

(* upsertEvents resolved; the cutoff is taken from the clock after it and
   store.pruneOlderThan is entered, without an await between. *)
UpsertResolved(c) ==
    /\ pc[c] = "upsert" /\ result[c] = "ok"
    /\ PruneCall(c, Cutoff)
    /\ pc' = [pc EXCEPT ![c] = "prune"]
    /\ UNCHANGED <<up, hasKey, handle, running, lastIngestAt, made, left, enriched, counter,
                   startedAt, removed, costVars>>

UpsertRejected(c) ==
    /\ pc[c] = "upsert"
    /\ Return(c, "error")
    /\ CycleFails(c)
    /\ UNCHANGED <<up, hasKey, handle, made, costVars>>

PruneRejected(c) ==
    /\ pc[c] = "prune"
    /\ Return(c, "error")
    /\ CycleFails(c)
    /\ UNCHANGED <<up, hasKey, handle, made, costVars>>

PruneAnswered(c) ==
    /\ pc[c] = "prune"
    /\ Return(c, "ok")
    /\ CycleSucceeds(c)
    /\ UNCHANGED <<up, hasKey, handle, made, costVars>>

TimePasses == Tick /\ UNCHANGED procVars

CycleStep(c) == \/ FetchFails(c) \/ FetchWithoutKey(c) \/ Fetch(c) \/ Enrich(c)
                \/ StoreBatch(c) \/ UpsertResolved(c) \/ UpsertRejected(c)
                \/ PruneRejected(c) \/ PruneAnswered(c)

PollNext == \/ Boot \/ Crash \/ Start \/ Stop \/ TickSkipped \/ TimePasses
            \/ \E c \in Caller : TickRuns(c) \/ CycleStep(c) \/ StoreStep(c)

(* Every await of a cycle settles: GDELT fetches and LLM calls are bounded by
   withTimeout, database queries are answered or rejected by the database. *)
PollFairness ==
    \A c \in Caller : /\ WF_pollVars(CycleStep(c))
                      /\ WF_pollVars(StoreStep(c))

PollSpec == PollInit /\ [][PollNext]_pollVars

PollFairSpec == PollSpec /\ PollFairness

-------------------------------------------------------------------------------
(* Cycles never overlap, not even across stop() and start(), and the guard is
   up exactly while one is in flight (createPoller's running flag). *)
AtMostOneCycle ==
    /\ running <=> \E c \in Caller : pc[c] # "none"
    /\ \A c, d \in Caller : pc[c] # "none" /\ pc[d] # "none" => c = d

(* A transaction or a DELETE is under way only for the cycle that awaits it,
   and no two clients are out at once: ingest takes at most one, with its
   DELETE counted, from the pool the read API shares. *)
OneClientForIngest ==
    /\ \A c \in Caller : /\ stage[c] \in Upserting => pc[c] = "upsert"
                         /\ stage[c] \in Pruning => pc[c] = "prune"
    /\ Cardinality(held) <= 1

(* Every counted LLM call is in CostMonitor's count or in the running cycle's
   counter, whatever fails after the calls were made, and a month's rollover
   drops only calls of months before. *)
CallsAccounted ==
    LET recorded == rolledOver + callsThisMonth IN
    /\ ~ running => made = recorded
    /\ \A c \in Caller : pc[c] # "none" => made = recorded + counter[c]

(* A row's last-updated stamp never goes back and its first-seen stamp never
   moves: sequential cycles make later transactions carry later stamps, which
   the store alone does not guarantee its callers. *)
StampsNeverRegress ==
    [][\A id \in Id : rows[id] # NoRow /\ rows'[id] # NoRow =>
          /\ rows'[id].lastUpdatedAt >= rows[id].lastUpdatedAt
          /\ rows'[id].firstSeenAt = rows[id].firstSeenAt]_pollVars

(* A row is deleted only when its last update is more than the retention
   period ago at that moment, though the cutoff is computed earlier. *)
OnlyExpiredDeleted ==
    [][\A id \in Id : rows[id] # NoRow /\ rows'[id] = NoRow =>
          rows[id].lastUpdatedAt + Retention < now]_pollVars

Reported(c) == pc[c] # "none" /\ pc'[c] = "none" /\ up' /\ hasKey /\ lastIngestAt' # lastIngestAt

(* When health reports a cycle's ingest, the table had every event it enriched
   under the event's id and with its reference, and has it still unless the
   cycle's own prune has removed that row, expired: a failed or half-done upsert
   is never reported as an ingest. *)
StoredOrRemoved(c, e) ==
    \/ rows[e.id] # NoRow /\ e.ref \in rows[e.id].refs
    \/ /\ rows[e.id] = NoRow
       /\ removed[c][e.id] # NoRow /\ e.ref \in removed[c][e.id].refs
       /\ removed[c][e.id].lastUpdatedAt + Retention < now

ReportedIngestIsStored ==
    [][\A c \in Caller : Reported(c) =>
          \A i \in DOMAIN enriched[c] : StoredOrRemoved(c, enriched[c][i])]_pollVars

(* When health reports a cycle's ingest, no row is left that was already past
   retention when the cycle started. *)
ReportedIngestIsPruned ==
    [][\A c \in Caller : Reported(c) =>
          \A id \in Id : rows[id] # NoRow =>
              rows[id].lastUpdatedAt + Retention >= startedAt[c]]_pollVars

(* A cycle always ends, so the overlap guard never blocks polling for good
   (RUNBOOK "Poll loop hangs"). *)
CycleEnds == running ~> ~ running
===============================================================================
