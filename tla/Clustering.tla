------------------------------- MODULE Clustering -------------------------------
(***************************************************************************)
(* Which GDELT rows are kept, as which raw event, and the id               *)
(* lib/enrich/clusterKey.js makes of an event, by which the store          *)
(* collapses rows about one incident.  Coordinates are in the feed's       *)
(* smallest unit, dates in days; an actor is its sequence of words, a word *)
(* standing for all its spellings in upper and lower case.  The column of  *)
(* the date is what is made of it: the day clusterKey.js reads, and in     *)
(* sqlDate whether it has eight digits, is eight other characters, or has  *)
(* another length.  The SHA-1 prefix in an id is taken to be injective.    *)
(***************************************************************************)
EXTENDS Integers, Sequences

CONSTANTS
    Line,       \* the rows GDELT may export: their columns by name
    Cell,       \* GEO_BUCKET_DEGREES, in units
    Window,     \* DATE_BUCKET_DAYS
    RoundsUp,   \* coordinates half way between two cells whose quotient, a
                \* double, does not come out below the half
    EmptyDay,   \* the day bucketDate makes of '': Date.UTC(0, -1, 0)
    Blank,      \* an empty column
    NaN,        \* a column that is no number, and NaN
    Dropped,    \* null
    NoToken     \* the token of no actor

ASSUME ClusteringAssumption ==
    /\ {Cell, Window} \subseteq Nat \ {0}
    /\ EmptyDay \in Int
    /\ Blank \notin Int /\ NaN \notin Int /\ Blank # NaN
    /\ \A line \in Line :
         /\ {line.lat, line.lon, line.date} \subseteq Int \cup {Blank, NaN}
         /\ line.sqlDate \in {"digits", "eight", "other"}
         /\ line.sqlDate = "digits" => line.date \in Int
         /\ line.date = Blank => line.sqlDate = "other"
         /\ {line.mentions, line.sources, line.articles} \subseteq Nat \cup {Blank, NaN}
         /\ {line.goldstein, line.tone} \subseteq Int \cup {Blank, NaN}
         /\ line.actor \in Seq(STRING)
         /\ {line.positive, line.negative} \subseteq Nat /\ line.named \in BOOLEAN

-------------------------------------------------------------------------------
(* Number(column), and Number(column) || 0 *)
Number(column) == IF column = Blank THEN 0 ELSE column
NumberOrZero(column) == IF column \in {Blank, NaN} THEN 0 ELSE column

(* The raw event of a row that is not dropped; positive and negative are the
   keywords features.js will find in its names, named whether they have a token. *)
RawEvent(line) ==
    [ lat |-> Number(line.lat), lon |-> Number(line.lon), date |-> line.date,
      sqlDate |-> line.sqlDate, actor |-> line.actor, positive |-> line.positive, negative |-> line.negative,
      named |-> line.named,
      mentions |-> NumberOrZero(line.mentions), sources |-> NumberOrZero(line.sources),
      articles |-> NumberOrZero(line.articles),
      goldstein |-> NumberOrZero(line.goldstein), tone |-> NumberOrZero(line.tone) ]

(* A row GDELT could not place is dropped: a coordinate is no number, or both are
   zero, its placeholder. *)
parseGdeltEventLine(line) ==
    LET event == RawEvent(line)
    IN  IF event.lat = NaN \/ event.lon = NaN \/ (event.lat = 0 /\ event.lon = 0)
          THEN Dropped ELSE event

(* Mutant: Math.trunc for Math.round, so two cells meet in one at zero. *)
bucketTruncated(v) == IF v < 0 THEN - ((- v) \div Cell) ELSE v \div Cell

(* Math.round(value / GEO_BUCKET_DEGREES) *)
bucketCoordinate(v) ==
    LET over == 2 * (v % Cell)
        up   == over > Cell \/ (over = Cell /\ v \in RoundsUp)
    IN  (v \div Cell) + (IF up THEN 1 ELSE 0)

(* A date that is no number gives a NaN bucket, an empty one a fixed day's. *)
bucketDate(date) ==
    CASE date = NaN   -> NaN
      [] date = Blank -> EmptyDay \div Window
      [] OTHER        -> date \div Window

normalizeActorToken(actor) == IF actor = <<>> THEN NoToken ELSE Head(actor)

clusterKey(category, e) ==
    << category, bucketCoordinate(e.lat), bucketCoordinate(e.lon), bucketDate(e.date),
       normalizeActorToken(e.actor) >>

Within(a, b, distance) == a - b <= distance /\ b - a <= distance

(* Events a and b lie within one cell of each other in latitude and in longitude
   and, when both are dated, within one window of days. *)
Near(a, b) ==
    /\ Within(a.lat, b.lat, Cell)
    /\ Within(a.lon, b.lon, Cell)
    /\ a.date \in Int /\ b.date \in Int => Within(a.date, b.date, Window - 1)
===============================================================================
