--------------------------- MODULE GdeltIngestProofs ---------------------------
(***************************************************************************)
(* Theorems about GdeltIngest: how long a fetchRecentEvents call may take, *)
(* and which export it returns, for every timeout and any number of        *)
(* exports.                                                                *)
(***************************************************************************)
EXTENDS GdeltIngest, TLAPS

(* The timeouts a call may have begun by the time it is at await p. *)
Begun(p) == CASE p = "listing" -> 1 [] p = "listingBody" -> 2
              [] p = "export" -> 3 [] p = "exportBody" -> 4

(* The time a call has used and the time its await may still take are covered
   by the timeouts begun. *)
WithinTimeouts ==
    /\ phase \in Await \cup {"idle"}
    /\ timer \in 0 .. Timeout
    /\ elapsed \in Nat
    /\ phase = "idle" => elapsed = 0
    /\ phase # "idle" => elapsed + timer <= Begun(phase) * Timeout

THEOREM WithinTimeoutsInvariant == Spec => []WithinTimeouts
<1> USE IngestAssumption
<1>1. Init => WithinTimeouts
  BY DEF Init, WithinTimeouts
<1>2. WithinTimeouts /\ [Next]_vars => WithinTimeouts'
  <2> SUFFICES ASSUME WithinTimeouts, [Next]_vars PROVE WithinTimeouts'
    OBVIOUS
  <2> USE DEF WithinTimeouts, Begun, Await
  <2>1. CASE Call
    BY <2>1 DEF Call, Awaiting
  <2>2. CASE ListingAnswers
    BY <2>2 DEF ListingAnswers, Awaiting
  <2>3. CASE ListingRead
    BY <2>3 DEF ListingRead, Listed, Awaiting
  <2>4. CASE ExportAnswers
    BY <2>4 DEF ExportAnswers, Awaiting
  <2>5. CASE ExportRead \/ Rejects \/ TimesOut
    BY <2>5 DEF ExportRead, Rejects, TimesOut, Ended
  <2>6. CASE Publish \/ Wipe \/ UNCHANGED vars
    BY <2>6 DEF Publish, Wipe, vars, callVars
  <2>7. CASE Tick
    BY <2>7 DEF Tick
  <2> QED
    BY <2>1, <2>2, <2>3, <2>4, <2>5, <2>6, <2>7 DEF Next
<1> QED
  BY <1>1, <1>2, PTL DEF Spec

(* A fetchRecentEvents call is over after four timeouts at most: no stall of
   GDELT at any of its awaits hangs the poll loop. *)
THEOREM FetchSettlesInTime == Spec => []SettlesInTime
<1>1. WithinTimeouts => SettlesInTime
  BY IngestAssumption DEF WithinTimeouts, SettlesInTime, Begun, Await
<1> QED
  BY <1>1, WithinTimeoutsInvariant, PTL

(* Export numbers, and how a running call stands to them: nothing returned so far
   is newer than the call's start, and what the listing named is not older. *)
ExportsInOrder ==
    /\ latest \in Nat /\ newest \in Nat /\ exportUrl \in Nat
    /\ \A e \in ingested : e \in Nat /\ e <= latest
    /\ phase # "idle" => newest <= latest /\ \A e \in ingested : e <= newest
    /\ phase \in {"export", "exportBody"} => newest <= exportUrl /\ exportUrl <= latest

THEOREM ExportsInOrderInvariant == Spec => []ExportsInOrder
<1> USE IngestAssumption
<1>1. Init => ExportsInOrder
  BY DEF Init, ExportsInOrder
<1>2. ExportsInOrder /\ [Next]_vars => ExportsInOrder'
  <2> SUFFICES ASSUME ExportsInOrder, [Next]_vars PROVE ExportsInOrder'
    OBVIOUS
  <2> USE DEF ExportsInOrder
  <2>1. CASE Call
    BY <2>1 DEF Call, Awaiting, feedVars
  <2>2. CASE ListingAnswers \/ ListingRead \/ ExportAnswers
    BY <2>2 DEF ListingAnswers, ListingRead, Listed, ExportAnswers, Awaiting, feedVars
  <2>3. CASE ExportRead
    BY <2>3 DEF ExportRead, Ended
  <2>4. CASE Rejects \/ TimesOut
    BY <2>4 DEF Rejects, TimesOut, Ended, feedVars
  <2>5. CASE Publish
    BY <2>5 DEF Publish, feedVars, callVars
  <2>6. CASE Wipe \/ Tick \/ UNCHANGED vars
    BY <2>6 DEF Wipe, Tick, vars, feedVars, callVars
  <2> QED
    BY <2>1, <2>2, <2>3, <2>4, <2>5, <2>6 DEF Next
<1> QED
  BY <1>1, <1>2, PTL DEF Spec

(* Every call returns an export that was the newest at some moment of it and is
   not older than those returned before. *)
THEOREM FetchReturnsNewest == Spec => ReturnsNewest
<1>1. ExportsInOrder /\ [Next]_vars
        => [\A e \in ingested' \ ingested :
              e \in newest .. latest /\ \A older \in ingested : older <= e]_vars
  <2> SUFFICES ASSUME ExportsInOrder, Next, NEW e \in ingested' \ ingested
               PROVE  e \in newest .. latest /\ \A older \in ingested : older <= e
    BY DEF vars
  <2>1. ExportRead
    BY DEF Next, Call, ListingAnswers, ListingRead, Listed, ExportAnswers, Rejects, TimesOut, Publish,
           Wipe, Tick, feedVars
  <2> QED
    BY <2>1 DEF ExportRead, ExportsInOrder
<1> QED
  BY <1>1, ExportsInOrderInvariant, PTL DEF Spec, ReturnsNewest

Typed == TypeOK /\ (phase \in {"export", "exportBody"} => exportUrl # 0)

(* Type correctness; in particular only exports that were published are ever
   taken. *)
THEOREM IngestTypeCorrect == Spec => []TypeOK
<1> USE IngestAssumption DEF TypeOK, Typed
<1>1. Init => Typed
  BY DEF Init
<1>2. Typed /\ [Next]_vars => Typed'
  <2> SUFFICES ASSUME Typed, [Next]_vars PROVE Typed'
    OBVIOUS
  <2>1. CASE Call
    BY <2>1 DEF Call, Awaiting, Await, feedVars
  <2>2. CASE ListingAnswers
    BY <2>2 DEF ListingAnswers, Awaiting, Await, feedVars
  <2>3. CASE ListingRead
    BY <2>3 DEF ListingRead, Listed, Awaiting, Await, feedVars
  <2>4. CASE ExportAnswers
    BY <2>4 DEF ExportAnswers, Awaiting, Await, feedVars
  <2>5. CASE ExportRead
    BY <2>5 DEF ExportRead, Ended
  <2>6. CASE Rejects
    BY <2>6 DEF Rejects, Ended, feedVars
  <2>7. CASE TimesOut
    BY <2>7 DEF TimesOut, Ended, feedVars
  <2>8. CASE Publish
    BY <2>8 DEF Publish, feedVars, callVars
  <2>9. CASE Wipe
    BY <2>9 DEF Wipe, callVars
  <2>10. CASE Tick
    BY <2>10 DEF Tick, feedVars
  <2>11. CASE UNCHANGED vars
    BY <2>11 DEF vars, feedVars, callVars
  <2> QED
    BY <2>1, <2>2, <2>3, <2>4, <2>5, <2>6, <2>7, <2>8, <2>9, <2>10, <2>11 DEF Next
<1>3. Typed => TypeOK
  OBVIOUS
<1> HIDE DEF TypeOK, Typed
<1> QED
  BY <1>1, <1>2, <1>3, PTL DEF Spec
===============================================================================
