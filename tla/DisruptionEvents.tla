--------------------------- MODULE DisruptionEvents ---------------------------
(***************************************************************************)
(* The data the event stores share: an enriched event as pollOnce hands it *)
(* over, the row a store keeps for its id, and what one upsert batch may   *)
(* make of one row.  A row keeps apart what the code treats differently:   *)
(* content (title, summary, category, severity, source_url, event_date:    *)
(* the fields whose change counts as an update), place (lat, lon,          *)
(* location), refs, and the two timestamps.  source_count and              *)
(* relevance_score are overwritten without any further effect and are left *)
(* out.                                                                    *)
(***************************************************************************)
EXTENDS Naturals, Sequences

CONSTANTS
    Id,        \* clusterKey values
    Content,   \* the six fields compared for a change, as one value
    Place,     \* lat, lon and location, as one value
    Ref,       \* GDELT event ids (raw_refs)
    NoRow,     \* no row is stored under this id
    MaxTime,   \* bound on the clock
    Batch      \* the event sequences an upsertEvents call may receive

Time == 0 .. MaxTime

Event == [id : Id, content : Content, place : Place, ref : Ref]

Row == [content : Content, place : Place, refs : SUBSET Ref,
        firstSeenAt : Time, lastUpdatedAt : Time]

Rows == [Id -> Row \cup {NoRow}]

ASSUME EventsAssumption == /\ MaxTime \in Nat
                           /\ NoRow \notin Row
                           /\ Batch \subseteq Seq(Event)

-------------------------------------------------------------------------------
(* The positions among the first n events of batch b that carry id. *)
Hits(b, n, id) == {i \in 1 .. n : b[i].id = id}

(* What the first n events of batch b, stored at time t, make of the row under
   id: nothing without a hit; otherwise the last hit's content, every ref, a
   place that is the stored one or one of the hits', the first-seen stamp of a
   known row, and t as the last-updated stamp unless every hit repeats the
   content the row had. *)
Upserted(old, new, b, n, id, t) ==
    LET hits  == Hits(b, n, id)
        known == old # NoRow
    IN  IF hits = {}
          THEN new = old
          ELSE /\ new \in Row
               /\ \E last \in hits : /\ \A i \in hits : i <= last
                                     /\ new.content = b[last].content
               /\ new.refs = {b[i].ref : i \in hits} \cup (IF known THEN old.refs ELSE {})
               /\ \/ \E i \in hits : new.place = b[i].place
                  \/ known /\ new.place = old.place
               /\ new.firstSeenAt = IF known THEN old.firstSeenAt ELSE t
               /\ new.lastUpdatedAt =
                    IF known /\ \A i \in hits : b[i].content = old.content
                      THEN old.lastUpdatedAt
                      ELSE t

(* The rows DELETE ... WHERE last_updated_at < cutoff removes. *)
Expired(rs, cutoff) ==
    {id \in Id : rs[id] # NoRow /\ rs[id].lastUpdatedAt < cutoff}

Without(rs, gone) == [id \in Id |-> IF id \in gone THEN NoRow ELSE rs[id]]
===============================================================================
