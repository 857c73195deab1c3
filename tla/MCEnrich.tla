------------------------------- MODULE MCEnrich -------------------------------
(* Model-checking instance of enrichEvent: rows on both sides of every cell and
   window boundary, rows whose counts range from none to a viral story, replies
   around every threshold, and summaries around the groundedness threshold. *)
EXTENDS Enrichment, TLC

(* 1899-11-30, in a scale of days of its own. *)
MCEmptyDay == -40

(* Many places, one quiet story. *)
Elsewhere ==
    { row \in
        [lat : {-3, -2, 0, 2, 5, Blank, NaN}, lon : {0, 3}, date : {0, 1, 2, Blank, NaN},
         sqlDate : {"digits", "eight", "other"}, actor : {<<>>, <<"german", "navy">>},
         named : {TRUE}, mentions : {3}, sources : {3}, articles : {3}, goldstein : {0},
         tone : {Blank}, positive : {1}, negative : {0}] :
      /\ row.sqlDate = "digits" <=> row.date \in 0 .. 2
      /\ row.date = Blank => row.sqlDate = "other" }

(* One place, stories of every size: each source and each article has a mention,
   but the column of the sources may be empty. *)
Attention ==
    { row \in
        [lat : {3}, lon : {3}, date : {0}, sqlDate : {"digits"}, actor : {<<>>},
         named : {FALSE}, mentions : {1, 200, 500}, sources : {Blank, 3, 200, 500},
         articles : {1, 200}, goldstein : {-10, 0}, tone : {NaN},
         positive : 0 .. 1, negative : 0 .. 1] :
      NumberOrZero(row.sources) <= row.mentions /\ row.articles <= row.mentions }

(* Stories of many sources whose column of mentions is empty. *)
Unmentioned ==
    [lat : {3}, lon : {3}, date : {0}, sqlDate : {"digits"}, actor : {<<>>}, named : {FALSE},
     mentions : {Blank}, sources : {463, 464}, articles : {1}, goldstein : {0}, tone : {NaN},
     positive : {1}, negative : {0}]

MCLine == Elsewhere \cup Attention \cup Unmentioned

MCLog1p == (0 :> 0 @@ 1 :> 693 @@ 3 :> 1386 @@ 200 :> 5303 @@ 463 :> 6140 @@ 464 :> 6142
              @@ 500 :> 6217)

MCRelevanceReply == {-5, 64, 65, 74, 75, 130, NaN}
MCSeverityReply == {-1, 3, 4, 7, NaN}
MCCategoryReply == {"weather", "geopolitical", "labor", "banana"}
MCSummaryReply ==
    [long : {TRUE}, nb : {30, 100}, overlap : {0, 50}, signal : BOOLEAN, markers : {0, 1}]
      \cup [long : {FALSE}, nb : {100}, overlap : {100}, signal : {TRUE}, markers : {0}]
===============================================================================
