--------------------------- MODULE EnrichmentProofs ---------------------------
(***************************************************************************)
(* What enrichEvent emits and what it vetoes, for every feed, every reply  *)
(* of the LLM, every grid and every window.                                *)
(***************************************************************************)
EXTENDS Enrichment, TLAPS

-------------------------------------------------------------------------------
(* What a kept row holds, and how far apart two events with one id can be *)

LEMMA FloorDivision ==
  ASSUME NEW a \in Int, NEW d \in Nat \ {0}
  PROVE  /\ a \div d \in Int
         /\ a % d \in 0 .. d - 1
         /\ a = d * (a \div d) + (a % d)
  OBVIOUS

(* Math.round puts a coordinate in the cell whose middle is at most half a cell
   away. *)
LEMMA BucketIsNearest ==
  ASSUME NEW v \in Int
  PROVE  /\ bucketCoordinate(v) \in Int
         /\ 2 * (v - Cell * bucketCoordinate(v)) <= Cell
         /\ 2 * (Cell * bucketCoordinate(v) - v) <= Cell
<1> DEFINE q == v \div Cell
           over == v % Cell
<1>1. Cell \in Nat \ {0}
  BY ClusteringAssumption
<1>2. q \in Int /\ over \in 0 .. Cell - 1 /\ v = Cell * q + over
  BY <1>1, FloorDivision
<1>3. Cell * (q + 1) = Cell * q + Cell
  BY <1>1, <1>2
<1>4. CASE bucketCoordinate(v) = q /\ 2 * over <= Cell
  BY <1>1, <1>2, <1>4
<1>5. CASE bucketCoordinate(v) = q + 1 /\ 2 * over >= Cell
  BY <1>1, <1>2, <1>3, <1>5
<1>6. \/ bucketCoordinate(v) = q /\ 2 * over <= Cell
      \/ bucketCoordinate(v) = q + 1 /\ 2 * over >= Cell
  BY <1>1, <1>2 DEF bucketCoordinate
<1> QED BY <1>4, <1>5, <1>6

LEMMA SameBucketIsNear ==
  ASSUME NEW v \in Int, NEW w \in Int, bucketCoordinate(v) = bucketCoordinate(w)
  PROVE  Within(v, w, Cell)
<1> DEFINE m == Cell * bucketCoordinate(v)
<1>1. m \in Int /\ Cell \in Nat
  BY BucketIsNearest, ClusteringAssumption
<1>2. 2 * (v - m) <= Cell /\ 2 * (m - v) <= Cell /\ 2 * (w - m) <= Cell /\ 2 * (m - w) <= Cell
  BY BucketIsNearest
<1> HIDE DEF m
<1> QED BY <1>1, <1>2 DEF Within

LEMMA SameDateBucketIsNear ==
  ASSUME NEW d \in Int, NEW e \in Int, bucketDate(d) = bucketDate(e)
  PROVE  Within(d, e, Window - 1)
<1>1. Window \in Nat \ {0}
  BY ClusteringAssumption
<1> DEFINE q == d \div Window
<1>2. q = e \div Window
  BY ClusteringAssumption DEF bucketDate
<1>3. /\ q \in Int /\ d % Window \in 0 .. Window - 1 /\ d = Window * q + (d % Window)
  BY <1>1, FloorDivision
<1>4. /\ e % Window \in 0 .. Window - 1 /\ e = Window * (e \div Window) + (e % Window)
  BY <1>1, FloorDivision
<1>5. Window * q \in Int
  BY <1>1, <1>3
<1>6. e = Window * q + (e % Window)
  BY <1>2, <1>4
<1> HIDE DEF q
<1> QED BY <1>1, <1>3, <1>4, <1>5, <1>6 DEF Within

(* A row that is not dropped can be plotted, and its columns are numbers. *)
LEMMA ParsedRow ==
  ASSUME NEW line \in Line, NEW e, e = parseGdeltEventLine(line), e # Dropped
  PROVE  /\ e = RawEvent(line)
         /\ {e.lat, e.lon} \subseteq Int
         /\ e.date \in Int \cup {Blank, NaN}
         /\ {e.mentions, e.sources, e.articles} \subseteq Nat
         /\ {e.goldstein, e.tone} \subseteq Int
<1>1. e = RawEvent(line) /\ e.lat # NaN /\ e.lon # NaN
  BY DEF parseGdeltEventLine
<1>2. /\ e.lat = Number(line.lat) /\ e.lon = Number(line.lon) /\ e.date = line.date
      /\ e.mentions = NumberOrZero(line.mentions) /\ e.sources = NumberOrZero(line.sources)
      /\ e.articles = NumberOrZero(line.articles)
      /\ e.goldstein = NumberOrZero(line.goldstein) /\ e.tone = NumberOrZero(line.tone)
  BY <1>1 DEF RawEvent
<1>3. {e.lat, e.lon} \subseteq Int
  BY <1>1, <1>2, ClusteringAssumption DEF Number
<1>4. {e.mentions, e.sources, e.articles} \subseteq Nat /\ {e.goldstein, e.tone} \subseteq Int
  BY <1>2, ClusteringAssumption DEF NumberOrZero
<1>5. e.date \in Int \cup {Blank, NaN}
  BY <1>2, ClusteringAssumption
<1> QED BY <1>1, <1>3, <1>4, <1>5

(* Two events with one id lie within a cell and a window of each other. *)
LEMMA SameKeyIsNear ==
  ASSUME NEW a, NEW b, NEW c, NEW d,
         {a.lat, a.lon, b.lat, b.lon} \subseteq Int,
         clusterKey(c, a) = clusterKey(d, b)
  PROVE  Near(a, b)
<1>1. /\ bucketCoordinate(a.lat) = bucketCoordinate(b.lat)
      /\ bucketCoordinate(a.lon) = bucketCoordinate(b.lon)
      /\ bucketDate(a.date) = bucketDate(b.date)
  BY DEF clusterKey
<1> QED BY <1>1, SameBucketIsNear, SameDateBucketIsNear DEF Near

-------------------------------------------------------------------------------
(* What enrichEvent makes of a row *)

(* The floored LLM severity stays between the category's floor and 5. *)
LEMMA ComputeSeverityRange ==
  ASSUME NEW c \in CATEGORY_ENUM, NEW reply \in Int \cup {NaN}
  PROVE  computeSeverity(c, reply) \in SEVERITY_FLOOR[c] .. 5
BY ClusteringAssumption DEF computeSeverity, clampSeverity, SEVERITY_FLOOR, Larger, Smaller

(* Blending with the regressor's prediction keeps that range. *)
LEMMA BlendSeverityRange ==
  ASSUME NEW floor \in 1 .. 2, NEW llm \in floor .. 5, NEW predicted \in Int, NEW rel \in Int
  PROVE  blendSeverity(llm, predicted, rel, floor) \in floor .. 5
BY DEF blendSeverity, clampSeverity, RELEVANCE_TRUST_THRESHOLD, Larger, Smaller

LEMMA BlendNeedsRegressor ==
  ASSUME NEW floor \in 1 .. 2, NEW llm \in floor .. 5, NEW predicted \in Int, NEW rel \in Int,
         rel < RELEVANCE_TRUST_THRESHOLD, blendSeverity(llm, predicted, rel, floor) >= 4
  PROVE  predicted >= 4
BY DEF blendSeverity, clampSeverity, RELEVANCE_TRUST_THRESHOLD, Larger, Smaller

(* The regressor and the classifier give every raw event a number. *)
LEMMA EventFields ==
  ASSUME NEW e \in Event
  PROVE  /\ {e.lat, e.lon} \subseteq Int
         /\ {e.mentions, e.sources, e.articles} \subseteq Nat
         /\ {e.mentions, e.sources, e.articles} \subseteq DOMAIN Log1p
         /\ {Log1p[e.mentions], Log1p[e.sources], Log1p[e.articles]} \subseteq Nat
         /\ {e.goldstein, e.tone} \subseteq Int
         /\ {e.positive, e.negative} \subseteq Nat /\ e.named \in BOOLEAN
<1>1. PICK line \in Line : e = parseGdeltEventLine(line) /\ e # Dropped
  BY DEF Event
<1>2. /\ e = RawEvent(line) /\ {e.lat, e.lon} \subseteq Int
      /\ {e.mentions, e.sources, e.articles} \subseteq Nat /\ {e.goldstein, e.tone} \subseteq Int
  BY <1>1, ParsedRow
<1>3. /\ e.mentions = NumberOrZero(line.mentions) /\ e.sources = NumberOrZero(line.sources)
      /\ e.articles = NumberOrZero(line.articles)
      /\ e.positive = line.positive /\ e.negative = line.negative /\ e.named = line.named
  BY <1>2 DEF RawEvent
<1>4. {e.mentions, e.sources, e.articles} \subseteq DOMAIN Log1p
  BY <1>3, ReplyAssumption
<1>5. {e.positive, e.negative} \subseteq Nat /\ e.named \in BOOLEAN
  BY <1>3, ClusteringAssumption
<1> QED BY <1>2, <1>4, <1>5, ScoringAssumption

LEMMA PerSource ==
  ASSUME NEW e \in Event
  PROVE  mentionsPerSource(e) \in Nat
<1> DEFINE m == e.mentions
           d == Larger(e.sources, 1)
<1>1. m \in Nat /\ d \in Nat \ {0}
  BY EventFields DEF Larger
<1>2. (1000 * m) \div d \in Nat
  <2> HIDE DEF m, d
  <2> QED BY <1>1
<1> QED BY <1>2 DEF mentionsPerSource

(* With a mention for each source there is at least one mention per source. *)
LEMMA OneMentionPerSource ==
  ASSUME NEW m \in Nat, NEW d \in Nat \ {0}, d <= m
  PROVE  (1000 * m) \div d >= 1000
<1> DEFINE a == 1000 * m
           q == a \div d
<1>1. a \in Int /\ a >= 1000 * d
  OBVIOUS
<1> HIDE DEF a
<1>2. q \in Int /\ a % d \in 0 .. d - 1 /\ a = d * q + (a % d)
  BY <1>1, FloorDivision
<1> HIDE DEF q
<1>3. q >= 1000
  <2>1. SUFFICES ASSUME q + 1 <= 1000
                 PROVE  FALSE
    BY <1>2
  <2>2. d * (q + 1) = d * q + d
    BY <1>2
  <2>3. d * (q + 1) <= d * 1000
    BY <1>2, <2>1
  <2> QED BY <1>1, <1>2, <2>2, <2>3
<1> QED BY <1>3 DEF q, a

LEMMA PredictionIsNumber ==
  ASSUME NEW e \in Event, NEW c \in CATEGORY_ENUM
  PROVE  Rounded(predictSeverity(e, c)) \in Int
<1>1. CategoryWeight[c] \in Int
  BY DEF CategoryWeight, CATEGORY_ENUM
<1>2. predictSeverity(e, c) \in Int
  BY <1>1, EventFields, PerSource, SMT DEF predictSeverity, extractSeverityFeatures
<1> QED BY <1>2, SMT DEF Rounded

-------------------------------------------------------------------------------
(* What holds of the fields at each prompt: the part of an emitted event that the
   prompts before have settled, and why the event was vetoed or let through. *)
Settled ==
    /\ phase \in {"category", "severity", "summary", "emitted"} => relevance >= RELEVANCE_THRESHOLD
    /\ phase \in {"severity", "summary", "emitted"} => category \in CATEGORY_ENUM
    /\ phase \in {"summary", "emitted"} =>
         /\ severity \in SEVERITY_FLOOR[category] .. 5
         /\ relevance < RELEVANCE_TRUST_THRESHOLD /\ severity >= 4 => RatedSevere(raw)
    /\ phase = "vetoed" => isConfidentlyIrrelevant(raw)
    /\ phase = "emitted" => summary \in SummaryReply /\ ~isObviouslyVacuous(raw, summary)

LEMMA SettledStep ==
  ASSUME TypeOK, Settled, [Next]_vars
  PROVE  TypeOK' /\ Settled'
<1> USE DEF TypeOK, Settled, Prompt, RatedSevere
<1>1. CASE Prefilter
  BY <1>1 DEF Prefilter
<1>2. CASE CallFails
  BY <1>2 DEF CallFails
<1>3. CASE ScoreRelevance
  <2>1. \A reply \in RelevanceReply : parseRelevanceScore(reply) \in 0 .. 100
    BY ReplyAssumption DEF parseRelevanceScore, Larger, Smaller
  <2>2. relevance' \in 0 .. 100
    BY <1>3, <2>1 DEF ScoreRelevance
  <2> QED BY <1>3, <2>2 DEF ScoreRelevance, RELEVANCE_THRESHOLD
<1>4. CASE Classify
  BY <1>4 DEF Classify
<1>5. CASE ScoreSeverity
  <2> DEFINE prediction == Rounded(predictSeverity(raw, category))
  <2>1. category \in CATEGORY_ENUM /\ SEVERITY_FLOOR[category] \in 1 .. 2
    BY <1>5 DEF ScoreSeverity, SEVERITY_FLOOR
  <2>2. prediction \in Int
    BY <2>1, PredictionIsNumber
  <2>3. PICK reply \in SeverityReply :
          severity' = blendSeverity(computeSeverity(category, reply), prediction, relevance,
                                    SEVERITY_FLOOR[category])
    BY <1>5 DEF ScoreSeverity
  <2>4. computeSeverity(category, reply) \in SEVERITY_FLOOR[category] .. 5
    BY <2>1, ComputeSeverityRange, ReplyAssumption
  <2>5. severity' \in SEVERITY_FLOOR[category] .. 5
    BY <2>1, <2>2, <2>3, <2>4, BlendSeverityRange
  <2>6. relevance < RELEVANCE_TRUST_THRESHOLD /\ severity' >= 4 => prediction >= 4
    BY <2>1, <2>2, <2>3, <2>4, BlendNeedsRegressor
  <2>7. relevance >= RELEVANCE_THRESHOLD
    BY <1>5 DEF ScoreSeverity
  <2> QED BY <1>5, <2>1, <2>5, <2>6, <2>7 DEF ScoreSeverity
<1>6. CASE Summarise
  BY <1>6 DEF Summarise
<1>7. CASE UNCHANGED vars
  BY <1>7 DEF vars
<1> QED BY <1>1, <1>2, <1>3, <1>4, <1>5, <1>6, <1>7 DEF Next

LEMMA SettledInvariant == Spec => [](TypeOK /\ Settled)
<1>1. Init => TypeOK /\ Settled
  BY DEF Init, TypeOK, Settled
<1>2. TypeOK /\ Settled /\ [Next]_vars => (TypeOK /\ Settled)'
  BY SettledStep
<1> QED BY <1>1, <1>2, PTL DEF Spec

(* Type correctness of enrichEvent. *)
THEOREM EnrichmentTypeCorrect == Spec => []TypeOK
BY SettledInvariant, PTL

(* enrichEvent never emits a half-enriched event, one rated below its category's
   floor, or one that breaks a rule of the contract, but for the date of a row whose
   SQLDATE is eight characters that are not all digits. *)
THEOREM EmittedEvents == Spec => []EmittedIsComplete
<1>1. TypeOK /\ Settled => EmittedIsComplete
  <2> SUFFICES ASSUME TypeOK, Settled, phase = "emitted"
               PROVE  EmittedIsComplete
    BY DEF EmittedIsComplete
  <2> DEFINE e == Emitted
  <2>1. category \in CATEGORY_ENUM /\ severity \in SEVERITY_FLOOR[category] .. 5
    BY DEF Settled
  <2>2. SEVERITY_FLOOR[category] \in 1 .. 2
    BY <2>1 DEF SEVERITY_FLOOR
  <2>3. e.severity \in 1 .. 5 /\ e.category \in CATEGORY_ENUM
    BY <2>1, <2>2 DEF Emitted
  <2>4. {e.lat, e.lon} \subseteq Int
    BY EventFields DEF TypeOK, Emitted
  <2>5. e.id # <<>>
    BY DEF Emitted, clusterKey
  <2>6. raw.sqlDate = "eight" \/ e.eventDate \in {None, "YYYY-MM-DD"}
    BY DEF Emitted, toIsoDate
  <2> HIDE DEF e
  <2>7. assertValidDisruptionEvent(e) \subseteq (IF raw.sqlDate = "eight" THEN {"eventDate"} ELSE {})
    BY <2>3, <2>4, <2>5, <2>6 DEF assertValidDisruptionEvent, Failing
  <2>8. assertValidDisruptionEvent(Emitted)
          \subseteq (IF raw.sqlDate = "eight" THEN {"eventDate"} ELSE {})
    BY <2>7 DEF e
  <2> QED BY <2>1, <2>2, <2>8 DEF Settled, EmittedIsComplete
<1> QED BY <1>1, SettledInvariant, PTL

(* No reply of the LLM gets a marginal event a 4 or 5 that the regressor does not
   share. *)
THEOREM MarginalEventsNeedRegressor == Spec => []MarginalNeedsRegressor
<1>1. TypeOK /\ Settled => MarginalNeedsRegressor
  BY DEF Settled, MarginalNeedsRegressor, Marginal
<1> QED BY <1>1, SettledInvariant, PTL

(* Rows that share an emitted event's id lie within a cell and a window of it,
   for every width of either and every rounding of ties. *)
THEOREM RowsOfOneIdAreNear == Spec => []SameIdIsNear
<1>1. TypeOK => SameIdIsNear
  <2> SUFFICES ASSUME TypeOK, NEW e \in Event, clusterKey(category, e) = clusterKey(category, raw)
               PROVE  Near(e, raw)
    BY DEF SameIdIsNear
  <2>1. {e.lat, e.lon, raw.lat, raw.lon} \subseteq Int
    BY EventFields DEF TypeOK
  <2> QED BY <2>1, SameKeyIsNear
<1> QED BY <1>1, SettledInvariant, PTL

(* However an unkeyworded text scores with the naive Bayes model, a summary with
   one of the vacuous phrases is not emitted for a named event unless it repeats a
   name or has a concrete signal. *)
THEOREM TellsDecide == Spec => []TellsNotOutvoted
<1>1. TypeOK /\ Settled => TellsNotOutvoted
  <2> SUFFICES ASSUME TypeOK, Settled, phase = "emitted", raw.named, summary.markers > 0,
                      ~ (summary.overlap > 0), ~ summary.signal
               PROVE  FALSE
    BY DEF TellsNotOutvoted
  <2>1. summary \in SummaryReply /\ ~isObviouslyVacuous(raw, summary)
    BY DEF Settled
  <2>2. summary.overlap = 0 /\ summary.nb \in 0 .. 100 /\ summary.markers \in Nat
    BY <2>1, ReplyAssumption
  <2>3. scoreGroundedness(raw, summary) <= 300
    BY <2>2 DEF scoreGroundedness, overlapScore, Larger, Smaller
  <2>4. scoreGroundedness(raw, summary) \in Int
    BY <2>2 DEF scoreGroundedness, overlapScore, Larger, Smaller
  <2> QED BY <2>1, <2>3, <2>4 DEF isObviouslyVacuous, isVacuous
<1> QED BY <1>1, SettledInvariant, PTL

(* The keyword of an event outweighs its counts, unless they are OutweighsKeyword's:
   the weight of the sources takes less than the keyword adds up to 463 of them, and
   with a mention for each up to a million. *)
LEMMA KeywordOutweighs ==
  ASSUME NEW e \in Event, e.positive # 0, e.negative = 0, ~ OutweighsKeyword(e)
  PROVE  ~ isConfidentlyIrrelevant(e)
<1> DEFINE m == Log1p[e.mentions]
           s == Log1p[e.sources]
           per == mentionsPerSource(e)
           positive == e.positive
           logit == relevanceLogit(e)
<1>1. /\ e.mentions \in Nat /\ e.sources \in Nat
      /\ e.mentions \in DOMAIN Log1p /\ e.sources \in DOMAIN Log1p
      /\ m \in Nat /\ s \in Nat /\ per \in Nat /\ positive \in Nat \ {0}
  BY EventFields, PerSource
<1>2. logit = 90 * m - 262 * s + 858 * per + 1707 * (1000 * positive)
                - 2953 * (1000 * 0) - 1832857
  BY DEF relevanceLogit, extractRelevanceFeatures
<1>3. CASE e.sources <= 463
  <2>1. s <= 6140
    BY <1>1, <1>3, ScoringAssumption
  <2> HIDE DEF m, s, per, positive, logit
  <2>2. logit >= -1734601 /\ logit \in Int
    BY <1>1, <1>2, <2>1, SMT
  <2> QED BY <2>2, SMT DEF logit, isConfidentlyIrrelevant
<1>4. CASE ~ (e.sources <= 463)
  <2>1. e.sources <= e.mentions /\ e.sources <= 1000000 /\ e.sources > 0
    BY <1>1, <1>4 DEF OutweighsKeyword
  <2>2. s <= m
    BY <1>1, <2>1, ScoringAssumption
  <2>3. s <= 13816
    BY <1>1, <2>1, ScoringAssumption
  <2>4. per >= 1000
    BY <1>1, <2>1, OneMentionPerSource DEF mentionsPerSource, Larger
  <2> HIDE DEF m, s, per, positive, logit
  <2>5. logit >= -1734601 /\ logit \in Int
    BY <1>1, <1>2, <2>2, <2>3, <2>4, SMT
  <2> QED BY <2>5, SMT DEF logit, isConfidentlyIrrelevant
<1> QED BY <1>3, <1>4

(* An event with a supply-chain keyword and no negative-domain wording is never
   vetoed, whatever else it counts, unless it has more than 463 sources without a
   mention for each, or more than a million. *)
THEOREM KeywordsAreNotVetoed == Spec => []KeywordsReachTheLlm
<1>1. TypeOK /\ Settled => KeywordsReachTheLlm
  <2> SUFFICES ASSUME TypeOK, Settled, phase = "vetoed", raw.positive # 0, ~ (raw.negative > 0),
                      ~ OutweighsKeyword(raw)
               PROVE  FALSE
    BY DEF KeywordsReachTheLlm
  <2>1. raw \in Event /\ isConfidentlyIrrelevant(raw)
    BY DEF TypeOK, Settled
  <2>2. raw.negative = 0
    BY <2>1, EventFields
  <2> QED BY <2>1, <2>2, KeywordOutweighs
<1> QED BY <1>1, SettledInvariant, PTL
===============================================================================
