------------------------------- MODULE ListEvents -------------------------------
(***************************************************************************)
(* What GET /api/v1/disruptions may answer: parseQueryFilters of           *)
(* lib/api/createApp.js and the SELECT of PostgresEventStore.listAll.      *)
(* Rows updated by one batch share a stamp, and SQL leaves their order     *)
(* open, so the SELECT is a relation between a table and the ids of the    *)
(* rows listed.                                                            *)
(***************************************************************************)
EXTENDS DisruptionEvents, Integers, SequencesExt

CONSTANTS
    Query,          \* the parameters of a request, as parsed numbers and dates
    None,           \* a parameter that is absent or does not parse
    MAX_LIMIT,
    DEFAULT_LIMIT

ASSUME ListAssumption ==
    /\ \A c \in Content : c.severity \in Int /\ "category" \in DOMAIN c
    /\ {MAX_LIMIT, DEFAULT_LIMIT} \subseteq Nat \ {0} /\ DEFAULT_LIMIT <= MAX_LIMIT
    /\ None \notin Int
    /\ \A q \in Query : q.limit \in Int \cup {None}

Clamp(lo, n, hi) == IF n < lo THEN lo ELSE IF n > hi THEN hi ELSE n

Filters(q, least) ==
    [minSeverity |-> q.severity, since |-> q.since, category |-> q.category,
     limit |-> IF q.limit = None THEN DEFAULT_LIMIT ELSE Clamp(least, q.limit, MAX_LIMIT)]

(* Mutant: the limit has no lower bound. *)
parseQueryFiltersUnbounded(q) == Filters(q, 0)

(* What does not parse is no filter; the limit is always there. *)
parseQueryFilters(q) == Filters(q, 1)

(* WHERE, and the filters of MemoryEventStore.listAll. *)
Matches(row, f) ==
    /\ f.minSeverity # None => row.content.severity >= f.minSeverity
    /\ f.category # None => row.content.category = f.category
    /\ f.since # None => row.lastUpdatedAt >= f.since

Matching(rs, f) == {id \in Id : rs[id] # NoRow /\ Matches(rs[id], f)}

(* The rows the SELECT may return: ORDER BY leaves the order of equal stamps, and
   so the choice at the LIMIT, open. *)
SqlMayReturn(rs, f, listed) ==
    LET stamp(id) == rs[id].lastUpdatedAt
        matching  == Matching(rs, f)
        omitted   == matching \ ToSet(listed)
        all       == Cardinality(matching)
    IN  /\ IsInjective(listed) /\ ToSet(listed) \subseteq matching
        /\ Len(listed) = IF all < f.limit THEN all ELSE f.limit
        /\ \A i \in DOMAIN listed :
              /\ \A j \in i .. Len(listed) : stamp(listed[i]) >= stamp(listed[j])
              /\ \A id \in omitted : stamp(listed[i]) >= stamp(id)
===============================================================================
