------------------------------ MODULE GdeltIngest ------------------------------
(***************************************************************************)
(* lib/gdelt: one fetchRecentEvents call after another, as the poll loop   *)
(* makes them, against a feed that goes on publishing.  lastupdate.txt     *)
(* names the newest export only; exports are numbered in the order of      *)
(* their publication.  Each of the call's four awaits has a withTimeout of *)
(* its own.  timer is a countdown, so time is unbounded.                   *)
(***************************************************************************)
EXTENDS Integers, FiniteSets

CONSTANTS
    Timeout,    \* FETCH_TIMEOUT_MS, in ticks
    Retained,   \* exports of the last RETENTION_DAYS
    Few,        \* how many cycles "the next few" are
    MaxExport   \* bound on the exports published

ASSUME IngestAssumption ==
    /\ Timeout \in Nat \ {0}
    /\ {Retained, Few} \subseteq Nat
    /\ MaxExport \in Nat \ {0}

VARIABLES
    latest,    \* the newest export, named by lastupdate.txt
    phase,     \* what the call awaits, "idle" between calls
    timer,     \* what is left of that await's timeout
    exportUrl, \* the export the listing named
    ingested,  \* exports whose events have been returned since the store was last wiped
    cycles,    \* calls that resolved since then, up to Few (history)
    elapsed,   \* ticks since the call began (history)
    newest     \* latest when the call began (history)

feedVars == <<ingested, cycles>>
callVars == <<phase, timer, exportUrl, elapsed, newest>>
vars == <<latest, feedVars, callVars>>

Await == {"listing", "listingBody", "export", "exportBody"}

TypeOK == /\ latest \in 1 .. MaxExport
          /\ phase \in Await \cup {"idle"}
          /\ timer \in 0 .. Timeout
          /\ exportUrl \in 0 .. MaxExport
          /\ ingested \subseteq 1 .. MaxExport
          /\ cycles \in 0 .. Few
          /\ elapsed \in Nat
          /\ newest \in 0 .. MaxExport

Init == /\ latest \in 1 .. MaxExport
        /\ phase = "idle" /\ timer = 0 /\ exportUrl = 0 /\ elapsed = 0 /\ newest = 0
        /\ ingested = {} /\ cycles = 0

-------------------------------------------------------------------------------
(* The call goes on to its next await, with a fresh timeout. *)
Awaiting(p) == phase' = p /\ timer' = Timeout

Ended == phase' = "idle" /\ timer' = 0 /\ exportUrl' = 0 /\ elapsed' = 0 /\ newest' = 0

Call == /\ phase = "idle"
        /\ Awaiting("listing")
        /\ newest' = latest
        /\ UNCHANGED <<latest, feedVars, exportUrl, elapsed>>

ListingAnswers == /\ phase = "listing"
                  /\ Awaiting("listingBody")
                  /\ UNCHANGED <<latest, feedVars, exportUrl, elapsed, newest>>

Listed(export) == /\ phase = "listingBody"
                  /\ Awaiting("export")
                  /\ exportUrl' = export
                  /\ UNCHANGED <<latest, feedVars, elapsed, newest>>

(* Mutants: the URL of the next export is guessed; the first one listed is taken. *)
ListingGuessed == Listed(latest + 1)
ListingReadFirst == Listed(1)

(* pickExportUrl takes the line of the newest export. *)
ListingRead == Listed(latest)

ExportAnswers == /\ phase = "export"
                 /\ Awaiting("exportBody")
                 /\ UNCHANGED <<latest, feedVars, exportUrl, elapsed, newest>>

(* The body is unzipped and parsed; every usable row is an event. *)
ExportRead == /\ phase = "exportBody"
              /\ ingested' = ingested \cup {exportUrl}
              /\ cycles' = IF cycles < Few THEN cycles + 1 ELSE cycles
              /\ Ended
              /\ UNCHANGED latest

(* The network fails, a status is not ok, the listing names no export or one
   elsewhere, the export is too large or not a zip. *)
Rejects == phase # "idle" /\ Ended /\ UNCHANGED <<latest, feedVars>>

(* Mutant: an await that timed out is tried again. *)
TimesOutRetries == /\ phase # "idle" /\ timer = 0
                   /\ timer' = Timeout
                   /\ UNCHANGED <<latest, feedVars, phase, exportUrl, elapsed, newest>>

(* Mutant: reading a body has no timeout. *)
TimesOutHeadersOnly == phase \in {"listing", "export"} /\ timer = 0 /\ Ended
                       /\ UNCHANGED <<latest, feedVars>>

(* withTimeout rejects. *)
TimesOut == phase # "idle" /\ timer = 0 /\ Ended /\ UNCHANGED <<latest, feedVars>>

(* GDELT publishes another export. *)
Publish == /\ latest < MaxExport
           /\ latest' = latest + 1
           /\ UNCHANGED <<feedVars, callVars>>

(* RUNBOOK "Rollback": the stored events are wiped. *)
Wipe == /\ ingested' = {} /\ cycles' = 0
        /\ UNCHANGED <<latest, callVars>>

(* Time passes only when no timeout is due: the event loop is not kept busy. *)
Tick == /\ phase # "idle" /\ timer > 0
        /\ timer' = timer - 1
        /\ elapsed' = elapsed + 1
        /\ UNCHANGED <<latest, feedVars, phase, exportUrl, newest>>

Next == \/ Call \/ ListingAnswers \/ ListingRead \/ ExportAnswers \/ ExportRead
        \/ Rejects \/ TimesOut \/ Publish \/ Wipe \/ Tick

Spec == Init /\ [][Next]_vars

(* Time passes and timers fire.  Nothing is assumed of GDELT, which may stall
   at any request and at any body. *)
FairSpec == Spec /\ WF_vars(Tick) /\ WF_vars(TimesOut)

-------------------------------------------------------------------------------
(* A call takes four timeouts at most, wherever GDELT stalls: it cannot hang the
   poll loop (ingest.js FETCH_TIMEOUT_MS, RUNBOOK "Poll loop hangs"). *)
SettlesInTime == phase # "idle" => elapsed <= 4 * Timeout

(* Every call ends, though GDELT may never answer. *)
CallSettles == phase # "idle" ~> phase = "idle"

(* A call returns an export that was the newest at some moment of the call, and
   never one older than an earlier call returned: exports are not taken out of
   order, though new ones appear between the listing and the download. *)
ReturnsNewest ==
    [][\A e \in ingested' \ ingested :
          e \in newest .. latest /\ \A older \in ingested : older <= e]_vars

(* RUNBOOK, "Rollback": once the store was wiped, the next few ingest cycles
   rebuild the last 14 days from GDELT. *)
RebuildsAfterWipe == cycles = Few => \A e \in 1 .. latest : latest - e < Retained => e \in ingested
===============================================================================
