-------------------------------- MODULE Scoring --------------------------------
(***************************************************************************)
(* The three local models of lib/ml that enrichEvent consults, with the    *)
(* weights checked in, in fixed point: a feature is in thousandths.        *)
(* Math.log1p is a table.  The words of a text are abstracted to what the  *)
(* models count in them: a raw event has as many positive and negative     *)
(* keywords as features.js finds, and a summary is a record of             *)
(*   long     it has MIN_SUMMARY_LENGTH characters                         *)
(*   nb       the naive Bayes probability that it is concrete, in percent  *)
(*   overlap  the share of the event's tokens found in it, in percent      *)
(*   signal   it has a digit or a CONCRETE_ACTION_VERB                     *)
(*   markers  the VACUOUS_PHRASE_MARKERS found in it                       *)
(***************************************************************************)
EXTENDS Integers

CONSTANT Log1p   \* [a set of counts -> thousandths]

(* What is used of the logarithm: it grows, ln(464) < 6.1405, ln(1000001) < 13.8165. *)
ASSUME ScoringAssumption ==
    /\ DOMAIN Log1p \subseteq Nat
    /\ \A n \in DOMAIN Log1p :
         /\ Log1p[n] \in Nat
         /\ n <= 463 => Log1p[n] <= 6140
         /\ n <= 1000000 => Log1p[n] <= 13816
    /\ \A n, k \in DOMAIN Log1p : n <= k => Log1p[n] <= Log1p[k]

Larger(a, b) == IF a >= b THEN a ELSE b
Smaller(a, b) == IF a <= b THEN a ELSE b

mentionsPerSource(e) == (1000 * e.mentions) \div Larger(e.sources, 1)

extractRelevanceFeatures(e) ==
    [ logNumMentions |-> Log1p[e.mentions], logNumSources |-> Log1p[e.sources],
      logNumArticles |-> Log1p[e.articles], mentionsPerSource |-> mentionsPerSource(e),
      goldsteinScale |-> 100 * e.goldstein, avgTone |-> 100 * e.tone,
      positive |-> 1000 * e.positive, negative |-> 1000 * e.negative ]

-------------------------------------------------------------------------------
(* Mutant: the two keyword counts are in each other's place in the weights. *)
relevanceKeywordsSwapped(e) ==
    LET f == extractRelevanceFeatures(e)
    IN  90 * f.logNumMentions - 262 * f.logNumSources + 858 * f.mentionsPerSource
          + 1707 * f.negative - 2953 * f.positive - 1832857

(* What scoreRelevance takes the sigmoid of, in millionths.  The weights of the
   articles, the Goldstein scale and the tone are zero. *)
relevanceLogit(e) ==
    LET f == extractRelevanceFeatures(e)
    IN  90 * f.logNumMentions - 262 * f.logNumSources + 858 * f.mentionsPerSource
          + 1707 * f.positive - 2953 * f.negative - 1832857

(* The sigmoid is below 0.15 where its argument is below ln(0.15 / 0.85). *)
isConfidentlyIrrelevant(e) == relevanceLogit(e) < -1734601

-------------------------------------------------------------------------------
CATEGORY_ENUM ==
    {"weather", "geopolitical", "labor", "logistics", "regulatory", "supplier", "other"}

CategoryWeight ==
    [ weather |-> 723, geopolitical |-> -5097, labor |-> -4240, logistics |-> 6042,
      regulatory |-> 1100, supplier |-> 7060, other |-> 2121 ]

extractSeverityFeatures(e, category) ==
    [ logNumMentions |-> Log1p[e.mentions], logNumSources |-> Log1p[e.sources],
      logNumArticles |-> Log1p[e.articles], mentionsPerSource |-> mentionsPerSource(e),
      goldsteinScale |-> 100 * e.goldstein, avgTone |-> 100 * e.tone,
      category |-> category ]

(* The regressor's dot product and bias, in ten-millionths. *)
predictSeverity(e, category) ==
    LET f == extractSeverityFeatures(e, category)
    IN  22721 * f.logNumArticles - 14517 * f.logNumMentions - 10669 * f.logNumSources
          + 245 * f.mentionsPerSource - 65909 * f.goldsteinScale + 5466 * f.avgTone
          + 1000 * (CategoryWeight[f.category] + 22960)

(* Math.round of a prediction *)
Rounded(prediction) == (prediction + 5000000) \div 10000000

-------------------------------------------------------------------------------
(* Mutant: an event whose names the summary does not repeat counts as unnamed. *)
overlapNeutral(e, s) == IF ~e.named \/ s.overlap = 0 THEN 50 ELSE s.overlap

overlapScore(e, s) == IF e.named THEN s.overlap ELSE 50

scoreGroundedness(e, s) ==
    LET base == 5 * s.nb + 3 * overlapScore(e, s) + (IF s.signal THEN 200 ELSE 0)
    IN  Larger(0, Smaller(1000, base - Smaller(600, 200 * s.markers)))

isVacuous(e, s) == scoreGroundedness(e, s) < 350

isObviouslyVacuous(e, s) == ~s.long \/ isVacuous(e, s)
===============================================================================
