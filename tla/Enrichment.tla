------------------------------ MODULE Enrichment ------------------------------
(***************************************************************************)
(* enrichEvent of lib/enrich/pipeline.js on one row of an export: the      *)
(* local relevance veto, then four LLM prompts, each of which may drop the *)
(* event.  A reply is what the code makes of the text: a number, or NaN    *)
(* when it holds none, a word, a summary.  Relevance is in hundredths.     *)
(***************************************************************************)
EXTENDS Clustering, Scoring

CONSTANTS
    RelevanceReply,   \* what a relevance reply may parse to
    SeverityReply,    \* what a severity reply may parse to
    CategoryReply,    \* normalised classifier replies, in the enum or not
    SummaryReply,     \* trimmed summaries, as Scoring describes them
    None              \* a field not yet filled

Event == {parseGdeltEventLine(line) : line \in Line} \ {Dropped}

ASSUME ReplyAssumption ==
    /\ RelevanceReply \cup SeverityReply \subseteq Int \cup {NaN}
    /\ \A line \in Line : {NumberOrZero(line.mentions), NumberOrZero(line.sources),
                           NumberOrZero(line.articles)} \subseteq DOMAIN Log1p
    /\ \A s \in SummaryReply : /\ {s.nb, s.overlap} \subseteq 0 .. 100 /\ s.markers \in Nat
                               /\ {s.long, s.signal} \subseteq BOOLEAN
    /\ None \notin CATEGORY_ENUM

VARIABLES
    raw,         \* the raw event
    phase,       \* the prompt enrichEvent is at, or how it settled
    relevance, category, severity, summary

vars == <<raw, phase, relevance, category, severity, summary>>

SEVERITY_FLOOR ==
    [c \in CATEGORY_ENUM |->
        IF c \in {"geopolitical", "labor", "logistics", "regulatory"} THEN 2 ELSE 1]

RELEVANCE_THRESHOLD == 65
RELEVANCE_TRUST_THRESHOLD == 75

parseRelevanceScore(reply) == IF reply = NaN THEN 0 ELSE Smaller(100, Larger(0, reply))

clampSeverity(v) == Smaller(5, Larger(1, v))

(* A reply without a number falls back to the category's floor. *)
computeSeverity(c, proposed) ==
    Larger(SEVERITY_FLOOR[c],
           IF proposed = NaN THEN SEVERITY_FLOOR[c] ELSE clampSeverity(proposed))

(* Mutant: the blend forgets the category's floor. *)
blendWithoutFloor(llmFloorSeverity, predicted, rel, categoryFloor) ==
    IF rel >= RELEVANCE_TRUST_THRESHOLD
      THEN llmFloorSeverity
      ELSE Smaller(llmFloorSeverity, clampSeverity(predicted))

(* Mutant: the cap falls with the larger of two severities. *)
blendTakesLarger(llmFloorSeverity, predicted, rel, categoryFloor) ==
    IF rel >= RELEVANCE_TRUST_THRESHOLD
      THEN llmFloorSeverity
      ELSE Larger(llmFloorSeverity, Larger(clampSeverity(predicted), categoryFloor))

blendSeverity(llmFloorSeverity, predicted, rel, categoryFloor) ==
    IF rel >= RELEVANCE_TRUST_THRESHOLD
      THEN llmFloorSeverity
      ELSE Smaller(llmFloorSeverity, Larger(clampSeverity(predicted), categoryFloor))

Prompt == {"relevance", "category", "severity", "summary"}

TypeOK == /\ raw \in Event
          /\ phase \in Prompt \cup {"prefilter", "vetoed", "emitted", "dropped"}
          /\ relevance \in 0 .. 100
          /\ category \in CATEGORY_ENUM \cup {None}
          /\ severity \in 0 .. 5
          /\ summary \in SummaryReply \cup {None}

(* The shape of what toIsoDate makes of a date: hyphens are put between the parts
   of any eight characters. *)
toIsoDate(sqlDate) ==
    CASE sqlDate = "digits" -> "YYYY-MM-DD"
      [] sqlDate = "eight"  -> "hyphenated"
      [] OTHER              -> None

(* What enrichEvent returns of an emitted event, as far as a rule is about it. *)
Emitted ==
    [ id |-> clusterKey(category, raw), category |-> category, severity |-> severity,
      lat |-> raw.lat, lon |-> raw.lon, eventDate |-> toIsoDate(raw.sqlDate) ]

Failing(rule, field) == IF rule THEN {} ELSE {field}

(* The rules of the contract that an event breaks. *)
assertValidDisruptionEvent(e) ==
    Failing(e.severity \in 1 .. 5, "severity")
      \cup Failing(e.category \in CATEGORY_ENUM, "category")
      \cup Failing({e.lat, e.lon} \subseteq Int, "lat/lon")
      \cup Failing(e.id # <<>>, "id")
      \cup Failing(e.eventDate \in {None, "YYYY-MM-DD"}, "eventDate")

Init == /\ raw \in Event
        /\ phase = "prefilter"
        /\ relevance = 0 /\ severity = 0
        /\ category = None /\ summary = None

-------------------------------------------------------------------------------
Prefilter == /\ phase = "prefilter"
             /\ phase' = IF isConfidentlyIrrelevant(raw) THEN "vetoed" ELSE "relevance"
             /\ UNCHANGED <<raw, relevance, category, severity, summary>>

(* All attempts of a prompt fail: the catch block drops the event. *)
CallFails == /\ phase \in Prompt
             /\ phase' = "dropped"
             /\ UNCHANGED <<raw, relevance, category, severity, summary>>

ScoreRelevance ==
    /\ phase = "relevance"
    /\ \E reply \in RelevanceReply : relevance' = parseRelevanceScore(reply)
    /\ phase' = IF relevance' < RELEVANCE_THRESHOLD THEN "dropped" ELSE "category"
    /\ UNCHANGED <<raw, category, severity, summary>>

Classify ==
    /\ phase = "category"
    /\ \E reply \in CategoryReply :
         IF reply \in CATEGORY_ENUM
           THEN phase' = "severity" /\ category' = reply
           ELSE phase' = "dropped" /\ UNCHANGED category
    /\ UNCHANGED <<raw, relevance, severity, summary>>

ScoreSeverity ==
    /\ phase = "severity"
    /\ \E reply \in SeverityReply :
         severity' = blendSeverity(computeSeverity(category, reply),
                                   Rounded(predictSeverity(raw, category)), relevance,
                                   SEVERITY_FLOOR[category])
    /\ phase' = "summary"
    /\ UNCHANGED <<raw, relevance, category, summary>>

Summarise ==
    /\ phase = "summary"
    /\ summary' \in SummaryReply
    /\ phase' = IF isObviouslyVacuous(raw, summary') THEN "dropped" ELSE "emitted"
    /\ UNCHANGED <<raw, relevance, category, severity>>

Next == Prefilter \/ CallFails \/ ScoreRelevance \/ Classify \/ ScoreSeverity \/ Summarise

Spec == Init /\ [][Next]_vars

-------------------------------------------------------------------------------
(* "Never returns a half-enriched event": whatever the row and the replies, an
   emitted event has passed the relevance threshold, is not rated below its
   category's floor, and keeps every rule of the contract of the consuming site,
   but for the date of a row whose SQLDATE is eight characters and no date. *)
EmittedIsComplete ==
    phase = "emitted" =>
        /\ relevance >= RELEVANCE_THRESHOLD
        /\ severity >= SEVERITY_FLOOR[category]
        /\ assertValidDisruptionEvent(Emitted)
             \subseteq (IF raw.sqlDate = "eight" THEN {"eventDate"} ELSE {})

(* README and contractRules.js: every event keeps the contract, and its date is
   null when SQLDATE cannot be parsed. *)
EmittedKeepsContract == phase = "emitted" => assertValidDisruptionEvent(Emitted) = {}

RatedSevere(e) == Rounded(predictSeverity(e, category)) >= 4

Marginal == phase = "emitted" /\ relevance < RELEVANCE_TRUST_THRESHOLD

(* RUNBOOK, "Severity 4-5 on trivial events": a marginally relevant event is
   rated 4 or 5 only when the regressor rates it so. *)
MarginalNeedsRegressor == Marginal /\ severity >= 4 => RatedSevere(raw)

(* An emitted event shares its id only with rows within one cell of it and, when
   both are dated, within one window of days, on either side of zero
   (clusterKey.js: narrow buckets, so unrelated stories do not share an id). *)
SameIdIsNear ==
    phase = "emitted" =>
        LET id == clusterKey(category, raw)
        IN  \A e \in Event : clusterKey(category, e) = id => Near(e, raw)

(* A story with more sources than one keyword outweighs: 463 of them, or a million
   when each source has a mention, the least a true row can have. *)
OutweighsKeyword(e) == e.sources > (IF e.mentions < e.sources THEN 463 ELSE 1000000)

(* isConfidentlyIrrelevant keeps from the LLM only what has no supply-chain keyword
   or has negative-domain wording, however little attention it got and however
   large it is, unless its counts outweigh a keyword. *)
KeywordsReachTheLlm ==
    phase = "vetoed" => raw.positive = 0 \/ raw.negative > 0 \/ OutweighsKeyword(raw)

(* summaryGroundedness.js: one of the vacuous phrases need not be out-voted by the
   statistical component: with such a phrase, the summary of an event with names
   is kept only if it repeats one of them or has a concrete signal. *)
TellsNotOutvoted ==
    phase = "emitted" /\ raw.named /\ summary.markers > 0 => summary.overlap > 0 \/ summary.signal

(* relevanceClassifier.js, isConfidentlyIrrelevant: what it vetoes has
   negative-domain wording. *)
OnlyNoiseVetoed == phase = "vetoed" => raw.negative > 0
===============================================================================
