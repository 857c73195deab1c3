--------------------------- MODULE MemoryEventStore ---------------------------
(***************************************************************************)
(* lib/store/memoryEventStore.js, the reference implementation of the      *)
(* contract: every method runs to completion without an await, over a Map  *)
(* from id to event.  A Map keeps the order in which its keys were first   *)
(* set, which is unrelated to the stamps: an update keeps a row's place.   *)
(***************************************************************************)
EXTENDS ListEvents

VARIABLES
    rows,   \* this.events
    order,  \* its keys in the order of their insertion
    now     \* the clock new Date() reads

memVars == <<rows, order, now>>

MemTypeOK == /\ rows \in Rows
             /\ now \in Time
             /\ order \in Seq(Id)
             /\ IsInjective(order) /\ ToSet(order) = {id \in Id : rows[id] # NoRow}

MemInit == rows = [id \in Id |-> NoRow] /\ order = <<>> /\ now = 0

(* {...event, rawRefs, firstSeenAt, lastUpdatedAt} *)
Merged(old, e, t, refs) ==
    LET known == old # NoRow
    IN  [content       |-> e.content,
         place         |-> e.place,
         refs          |-> refs,
         firstSeenAt   |-> IF known THEN old.firstSeenAt ELSE t,
         lastUpdatedAt |-> IF known /\ old.content = e.content
                             THEN old.lastUpdatedAt ELSE t]

(* Mutant: refs overwritten instead of merged. *)
ReplacedDropsRefs(old, e, t) == Merged(old, e, t, {e.ref})

(* this.events.set(event.id, ...): unlike SQL's UPDATE it replaces lat, lon and
   location too. *)
Replaced(old, e, t) == Merged(old, e, t, {e.ref} \cup (IF old # NoRow THEN old.refs ELSE {}))

(* Mutant: an updated row goes to the end of the list, and stays where it was. *)
SetAgain(m, id, row) ==
    [rows |-> [m.rows EXCEPT ![id] = row], order |-> Append(m.order, id)]

(* Map.prototype.set: a new key goes to the end, a known one keeps its place. *)
Set(m, id, row) ==
    [rows  |-> [m.rows EXCEPT ![id] = row],
     order |-> IF m.rows[id] = NoRow THEN Append(m.order, id) ELSE m.order]

(* for (const event of events) *)
StoredAll(m, b, t) ==
    LET loop[n \in 0 .. Len(b)] ==
          IF n = 0 THEN m
                   ELSE LET seen == loop[n - 1]
                            e    == b[n]
                        IN  Set(seen, e.id, Replaced(seen.rows[e.id], e, t))
    IN  loop[Len(b)]

upsertEvents(b) ==
    /\ LET stored == StoredAll([rows |-> rows, order |-> order], b, now)
       IN  rows' = stored.rows /\ order' = stored.order
    /\ UNCHANGED now

(* Orders of the positions, each the set of its pairs: the Map's, and the one by
   stamp, in which Array.prototype.sort keeps the Map's for equal stamps. *)
Inserted == {p \in (DOMAIN order) \X (DOMAIN order) : p[1] < p[2]}

NewestFirst ==
    LET stamp(i) == rows[order[i]].lastUpdatedAt
    IN  {p \in (DOMAIN order) \X (DOMAIN order) :
            \/ stamp(p[1]) > stamp(p[2])
            \/ (stamp(p[1]) = stamp(p[2]) /\ p[1] < p[2])}

(* The k-th of the positions P in the order R: the one that R puts k - 1 of them
   before. *)
Position(P, R, k) == CHOOSE i \in P : Cardinality({j \in P : <<j, i>> \in R}) = k - 1

Keys(P, R) == [k \in 1 .. Cardinality(P) |-> order[Position(P, R, k)]]

pruneOlderThan(cutoff) ==
    LET gone == Expired(rows, cutoff) IN
    /\ rows' = Without(rows, gone)
    /\ order' = Keys({i \in DOMAIN order : order[i] \notin gone}, Inserted)
    /\ UNCHANGED now

Tick == now + 1 \in Time /\ now' = now + 1 /\ UNCHANGED <<rows, order>>

MemNext == \/ \E b \in Batch : upsertEvents(b)
           \/ \E cutoff \in Time : pruneOlderThan(cutoff)
           \/ Tick

MemSpec == MemInit /\ [][MemNext]_memVars

-------------------------------------------------------------------------------
Found(f) == {i \in DOMAIN order : Matches(rows[order[i]], f)}

Shortened(n, s) == SubSeq(s, 1, IF Len(s) < n THEN Len(s) ELSE n)

(* Mutant: the limit is applied before the sort. *)
listAllCutFirst(f) ==
    Keys({i \in Found(f) : Cardinality({j \in Found(f) : j < i}) < f.limit}, NewestFirst)

listAll(f) == Shortened(f.limit, Keys(Found(f), NewestFirst))

(* GET /api/v1/disruptions *)
disruptions(q) == listAll(parseQueryFilters(q))

-------------------------------------------------------------------------------
(* The loop over the batch adds up to what the contract says of the whole
   batch, repeated ids included. *)
ES == INSTANCE EventStore
MemImplementsEventStore == ES!Spec

(* Both stores behave identically from createApp.js's point of view: what this
   one lists is what PostgreSQL's SELECT may return, the newest rows that match,
   each once, as many as the limit allows, in whatever order batches inserted
   them and however many share a stamp. *)
ListsAsSql == \A q \in Query : SqlMayReturn(rows, parseQueryFilters(q), disruptions(q))

(* A request gets between one row and MAX_LIMIT rows of those that match: a limit
   of zero or less does not hide the feed and a large one does not dump it. *)
AnswerBounded ==
    \A q \in Query :
        /\ Len(disruptions(q)) <= MAX_LIMIT
        /\ disruptions(q) = <<>> => Matching(rows, parseQueryFilters(q)) = {}
===============================================================================
