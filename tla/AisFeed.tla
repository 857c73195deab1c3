-------------------------------- MODULE AisFeed --------------------------------
(***************************************************************************)
(* The optional AIS side of server.js: lib/ais/reconnectingAisStream.js    *)
(* keeps one WebSocket to aisstream.io alive with exponential backoff,     *)
(* lib/ais/aisStreamClient.js hands every usable position report to        *)
(* VesselStore, and a timer of main() prunes vessels gone silent.  Timers  *)
(* are countdowns and vessels carry ages, so time is unbounded.            *)
(***************************************************************************)
EXTENDS Naturals, FiniteSets

CONSTANTS
    Vessel,      \* MMSI numbers
    Socket,      \* identities for the sockets that exist at a time
    None,        \* no timer armed, no socket, no position
    MinDelay,    \* MIN_RECONNECT_DELAY_MS, in ticks
    MaxDelay,    \* MAX_RECONNECT_DELAY_MS
    StaleAfter,  \* DEFAULT_STALE_AFTER_MS
    PruneEvery   \* VESSEL_PRUNE_INTERVAL_MS

ASSUME AisAssumption == /\ {MinDelay, MaxDelay, PruneEvery} \subseteq Nat \ {0}
                        /\ MinDelay <= MaxDelay
                        /\ StaleAfter \in Nat
                        /\ None \notin Nat \cup Socket \cup Vessel

VARIABLES
    stopped,   \* stop() was called
    delay,     \* the next reconnect's delay
    sockets,   \* the state of each socket, "closed" when there is none
    socket,    \* the socket variable: the one stop() closes
    armed,     \* countdown of the reconnect timer each socket's close armed
    timer,     \* the timer variable: whose timer stop() clears
    vessels,   \* the age of each vessel's last position
    pruneIn    \* countdown to the next pruneStale

streamVars == <<stopped, delay, sockets, socket, armed, timer>>
vars == <<streamVars, vessels, pruneIn>>

(* Ages beyond the oldest a vessel may reach are not told apart. *)
AgeCap == StaleAfter + PruneEvery + 1

Live(s) == sockets[s] # "closed"

TypeOK == /\ stopped \in BOOLEAN
          /\ delay \in MinDelay .. MaxDelay
          /\ sockets \in [Socket -> {"connecting", "open", "closing", "closed"}]
          /\ socket \in Socket
          /\ armed \in [Socket -> (0 .. MaxDelay) \cup {None}]
          /\ timer \in Socket \cup {None}
          /\ vessels \in [Vessel -> (0 .. AgeCap) \cup {None}]
          /\ pruneIn \in 0 .. PruneEvery

(* main() has connected the stream and started the prune interval. *)
Init == /\ stopped = FALSE
        /\ delay = MinDelay
        /\ socket \in Socket
        /\ sockets = [s \in Socket |-> IF s = socket THEN "connecting" ELSE "closed"]
        /\ armed = [s \in Socket |-> None]
        /\ timer = None
        /\ vessels = [v \in Vessel |-> None]
        /\ pruneIn = PruneEvery

-------------------------------------------------------------------------------
(* 'open': the client subscribes and the backoff starts over. *)
Open(s) ==
    /\ sockets[s] = "connecting"
    /\ sockets' = [sockets EXCEPT ![s] = "open"]
    /\ delay' = MinDelay
    /\ UNCHANGED <<stopped, socket, armed, timer, vessels, pruneIn>>

(* What may come over the socket. *)
Message == [type : {"PositionReport", "other"}, complete : BOOLEAN, finite : BOOLEAN,
            mmsi : Vessel \cup {None}]

(* The vessel of a message, if it is a position report with finite coordinates and
   an MMSI number. *)
parsePositionReport(m) ==
    IF m.type = "PositionReport" /\ m.complete /\ m.finite THEN m.mmsi ELSE None

(* 'message': upsert sets a vessel's position and its time.  A message may still
   arrive while the socket closes. *)
Receive(s, m) ==
    LET vessel == parsePositionReport(m) IN
    /\ sockets[s] \in {"open", "closing"}
    /\ vessel # None
    /\ vessels' = [vessels EXCEPT ![vessel] = 0]
    /\ UNCHANGED <<streamVars, pruneIn>>

(* setTimeout of scheduleReconnect, when it is called for s. *)
Arm(s, called) ==
    IF called THEN armed' = [armed EXCEPT ![s] = delay] /\ timer' = s
              ELSE UNCHANGED <<armed, timer>>

(* Mutant: the reconnect is armed on 'error', when the socket is still there. *)
ErrorReconnects(s) ==
    /\ Live(s)
    /\ Arm(s, ~ stopped)
    /\ UNCHANGED <<stopped, delay, sockets, socket, vessels, pruneIn>>

Closes(s, reconnects) ==
    /\ Live(s)
    /\ sockets' = [sockets EXCEPT ![s] = "closed"]
    /\ Arm(s, reconnects)
    /\ UNCHANGED <<stopped, delay, socket, vessels, pruneIn>>

(* Mutant: only a socket that had opened is reconnected. *)
CloseOpened(s) == Closes(s, ~ stopped /\ sockets[s] # "connecting")

(* 'close', after an 'error' or not: scheduleReconnect. *)
Close(s) == Closes(s, ~ stopped)

(* The reconnect timer of s fires, and connect() opens a new socket unless the
   stream was stopped. *)
Reconnects(s, next) ==
    /\ armed[s] = 0
    /\ armed' = [armed EXCEPT ![s] = None]
    /\ delay' = next
    /\ IF stopped
         THEN UNCHANGED <<sockets, socket>>
         ELSE \E n \in Socket : /\ ~ Live(n)
                                /\ sockets' = [sockets EXCEPT ![n] = "connecting"]
                                /\ socket' = n
    /\ UNCHANGED <<stopped, timer, vessels, pruneIn>>

(* Mutant: the backoff has no maximum. *)
ReconnectUncapped(s) == Reconnects(s, 2 * delay)

(* The delay doubles up to its maximum. *)
Reconnect(s) == Reconnects(s, IF 2 * delay < MaxDelay THEN 2 * delay ELSE MaxDelay)

Stops(timers) ==
    /\ ~ stopped
    /\ stopped' = TRUE
    /\ armed' = timers
    /\ sockets' = IF Live(socket) THEN [sockets EXCEPT ![socket] = "closing"] ELSE sockets
    /\ UNCHANGED <<delay, socket, timer, vessels, pruneIn>>

(* Mutant: stop() leaves an armed reconnect timer running. *)
StopKeepsTimer == Stops(armed)

(* stop(): the recorded timer is cleared and the recorded socket closed. *)
StopStream == Stops(IF timer = None THEN armed ELSE [armed EXCEPT ![timer] = None])

Prune(staleAfter) ==
    /\ pruneIn = 0
    /\ vessels' = [v \in Vessel |->
                     IF vessels[v] # None /\ vessels[v] > staleAfter THEN None ELSE vessels[v]]
    /\ pruneIn' = PruneEvery
    /\ UNCHANGED streamVars

(* Mutant: twice the stale limit. *)
PruneStaleLate == Prune(2 * StaleAfter)

(* main()'s interval: vesselStore.pruneStale(). *)
PruneStale == Prune(StaleAfter)

(* GET /api/v1/vessels: VesselStore.listAll. *)
listAll == {v \in Vessel : vessels[v] # None}

(* Time passes only when no timer is due: the event loop is not kept busy. *)
Tick ==
    /\ pruneIn > 0 /\ \A s \in Socket : armed[s] # 0
    /\ pruneIn' = pruneIn - 1
    /\ armed' = [s \in Socket |-> IF armed[s] = None THEN None ELSE armed[s] - 1]
    /\ vessels' = [v \in Vessel |-> IF vessels[v] \in {None, AgeCap}
                                      THEN vessels[v] ELSE vessels[v] + 1]
    /\ UNCHANGED <<stopped, delay, sockets, socket, timer>>

Next == \/ \E s \in Socket : \/ Open(s) \/ Close(s) \/ Reconnect(s)
                             \/ \E m \in Message : Receive(s, m)
        \/ StopStream \/ PruneStale \/ Tick

Spec == Init /\ [][Next]_vars

(* Time passes and timers fire.  Nothing is assumed of the network. *)
FairSpec == Spec /\ WF_vars(Tick) /\ WF_vars(PruneStale)
                 /\ \A s \in Socket : WF_vars(Reconnect(s))

-------------------------------------------------------------------------------
(* Until it is stopped the stream is one socket or one armed timer: it neither
   forks into two connections nor dies with nothing left to reconnect it. *)
OneConnection ==
    ~ stopped => Cardinality({s \in Socket : Live(s)}) + Cardinality({s \in Socket : armed[s] # None}) = 1

(* stop() at any point, between a close and its reconnect too, leaves no timer
   that could fire and no socket but one that is closing. *)
StopIsFinal ==
    stopped => \A s \in Socket : armed[s] = None /\ sockets[s] \in {"closing", "closed"}

(* No position older than the stale limit plus one prune interval is served,
   though the prune timer and the reports are not aligned. *)
VesselAgeBounded ==
    \A v \in listAll : vessels[v] <= StaleAfter + PruneEvery

(* A stream that lost its socket tries again, unless it is stopped first. *)
StreamReconnects ==
    (\A s \in Socket : ~ Live(s)) ~> (stopped \/ \E s \in Socket : Live(s))
===============================================================================
