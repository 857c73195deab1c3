---------------------------- MODULE AisFeedProofs ----------------------------
(***************************************************************************)
(* The AIS stream for any number of vessels, any delays and any prune      *)
(* interval: one connection or one timer until stop(), nothing after it,   *)
(* and positions no older than the stale limit and one prune interval.     *)
(***************************************************************************)
EXTENDS AisFeed, FiniteSetTheorems, TLAPS

(* The one socket of the stream is connected, connecting, or to be replaced when
   the one armed timer fires, and stop() knows it. *)
Current(c) ==
    /\ \A s \in Socket \ {c} : ~ Live(s) /\ armed[s] = None
    /\ \/ Live(c) /\ armed[c] = None /\ socket = c
       \/ ~ Live(c) /\ armed[c] # None /\ timer = c

Ages == \A v \in Vessel : vessels[v] # None => vessels[v] + pruneIn <= StaleAfter + PruneEvery

IInv == /\ TypeOK
        /\ ~ stopped => \E c \in Socket : Current(c)
        /\ StopIsFinal
        /\ Ages

(* Steps of the stream leave the vessels alone. *)
LEMMA StreamStep ==
  ASSUME IInv, UNCHANGED <<vessels, pruneIn>>
  PROVE  Ages'
BY DEF IInv, Ages

LEMMA InitHolds == Init => IInv
<1> SUFFICES ASSUME Init
             PROVE  IInv
  OBVIOUS
<1>1. TypeOK
  <2>1. MinDelay \in MinDelay .. MaxDelay /\ PruneEvery \in 0 .. PruneEvery
    BY AisAssumption
  <2> QED BY <2>1 DEF Init, TypeOK
<1>2. Current(socket) /\ socket \in Socket
  BY DEF Init, Current, Live
<1>3. StopIsFinal /\ Ages
  BY DEF Init, StopIsFinal, Ages
<1> QED BY <1>1, <1>2, <1>3 DEF IInv

LEMMA OpenKeeps ==
  ASSUME IInv, NEW s \in Socket, Open(s)
  PROVE  IInv'
<1> USE DEF IInv, Open
<1>1. TypeOK'
  BY AisAssumption DEF TypeOK
<1>2. ASSUME ~ stopped'
      PROVE  \E c \in Socket : Current(c)'
  <2>1. PICK c \in Socket : Current(c)
    BY <1>2
  <2>2. Current(c)'
    BY <2>1 DEF Current, Live, TypeOK
  <2> QED BY <2>2
<1>3. StopIsFinal'
  BY DEF StopIsFinal, TypeOK
<1> QED BY <1>1, <1>2, <1>3, StreamStep

LEMMA CloseKeeps ==
  ASSUME IInv, NEW s \in Socket, Close(s)
  PROVE  IInv'
<1> USE DEF IInv, Close, Closes, Arm
<1>1. TypeOK'
  BY AisAssumption DEF TypeOK
<1>2. ASSUME ~ stopped'
      PROVE  \E c \in Socket : Current(c)'
  <2>1. PICK c \in Socket : Current(c)
    BY <1>2
  <2>2. s = c
    BY <2>1 DEF Current
  <2>3. delay # None
    BY AisAssumption DEF TypeOK
  <2>4. Current(c)'
    BY <1>2, <2>1, <2>2, <2>3 DEF Current, Live, TypeOK
  <2> QED BY <2>4
<1>3. StopIsFinal'
  BY DEF StopIsFinal, TypeOK
<1> QED BY <1>1, <1>2, <1>3, StreamStep

LEMMA ReconnectKeeps ==
  ASSUME IInv, NEW s \in Socket, Reconnect(s)
  PROVE  IInv'
<1> USE DEF IInv, Reconnect, Reconnects
<1>1. ~ stopped
  BY AisAssumption DEF StopIsFinal
<1>2. PICK n \in Socket : /\ ~ Live(n) /\ socket' = n
                          /\ sockets' = [sockets EXCEPT ![n] = "connecting"]
  BY <1>1
<1>3. TypeOK'
  <2>1. delay' \in MinDelay .. MaxDelay
    BY AisAssumption DEF TypeOK
  <2> QED BY <1>2, <2>1 DEF TypeOK
<1>4. Current(n)'
  <2>1. PICK c \in Socket : Current(c)
    BY <1>1
  <2>2. s = c /\ ~ Live(c)
    BY <2>1, AisAssumption DEF Current
  <2> QED BY <1>2, <2>1, <2>2 DEF Current, Live, TypeOK
<1>5. StopIsFinal'
  BY <1>1 DEF StopIsFinal
<1> QED BY <1>2, <1>3, <1>4, <1>5, StreamStep

LEMMA StopKeeps ==
  ASSUME IInv, StopStream
  PROVE  IInv'
<1> USE DEF IInv, StopStream, Stops
<1>1. TypeOK'
  BY DEF TypeOK
<1>2. PICK c \in Socket : Current(c)
  OBVIOUS
<1>3. StopIsFinal'
  <2>1. CASE Live(c) /\ armed[c] = None /\ socket = c
    <3>1. \A s \in Socket : armed[s] = None
      BY <1>2, <2>1 DEF Current
    <3>2. \A s \in Socket : armed'[s] = None
      BY <3>1 DEF TypeOK
    <3>3. \A s \in Socket : sockets'[s] \in {"closing", "closed"}
      BY <1>2, <2>1 DEF Current, Live, TypeOK
    <3> QED BY <3>2, <3>3 DEF StopIsFinal
  <2>2. CASE ~ Live(c) /\ armed[c] # None /\ timer = c
    <3>1. c # None
      BY AisAssumption
    <3>2. \A s \in Socket : armed'[s] = None
      BY <1>2, <2>2, <3>1 DEF Current, TypeOK
    <3>3. \A s \in Socket : sockets'[s] \in {"closing", "closed"}
      BY <1>2, <2>2 DEF Current, Live, TypeOK
    <3> QED BY <3>2, <3>3 DEF StopIsFinal
  <2> QED BY <1>2, <2>1, <2>2 DEF Current
<1> QED BY <1>1, <1>3, StreamStep

(* A step of the vessels leaves the stream alone. *)
LEMMA VesselStep ==
  ASSUME IInv, UNCHANGED streamVars
  PROVE  /\ ~ stopped' => \E c \in Socket : Current(c)'
         /\ StopIsFinal'
BY DEF IInv, streamVars, Current, Live, StopIsFinal

LEMMA ReceiveKeeps ==
  ASSUME IInv, NEW s \in Socket, NEW m \in Message, Receive(s, m)
  PROVE  IInv'
<1>1. PICK v \in Vessel : vessels' = [vessels EXCEPT ![v] = 0]
  BY DEF Receive, parsePositionReport, Message
<1>2. UNCHANGED streamVars /\ pruneIn' = pruneIn
  BY DEF Receive
<1>3. TypeOK'
  BY <1>1, <1>2, AisAssumption DEF IInv, TypeOK, streamVars, AgeCap
<1>4. Ages'
  BY <1>1, <1>2, AisAssumption DEF IInv, TypeOK, Ages
<1> QED BY <1>2, <1>3, <1>4, VesselStep DEF IInv

LEMMA PruneKeeps ==
  ASSUME IInv, PruneStale
  PROVE  IInv'
<1> USE DEF IInv, PruneStale, Prune
<1>1. TypeOK'
  BY AisAssumption DEF TypeOK, streamVars
<1>2. Ages'
  BY AisAssumption DEF TypeOK, Ages, AgeCap
<1> QED BY <1>1, <1>2, VesselStep

LEMMA TickKeeps ==
  ASSUME IInv, Tick
  PROVE  IInv'
<1> USE DEF IInv, Tick
<1>1. armed' \in [Socket -> (0 .. MaxDelay) \cup {None}]
      /\ \A s \in Socket : armed'[s] = None <=> armed[s] = None
  BY AisAssumption DEF TypeOK
<1>2. pruneIn \in Nat /\ pruneIn > 0 /\ pruneIn' = pruneIn - 1 /\ pruneIn' \in 0 .. PruneEvery
  BY AisAssumption DEF TypeOK
<1>3. \A v \in Vessel :
        /\ vessels[v] = None => vessels'[v] = None
        /\ vessels[v] # None => vessels[v] \in Nat /\ vessels'[v] = vessels[v] + 1
                                /\ vessels'[v] \in 0 .. AgeCap
  BY <1>2, AisAssumption DEF TypeOK, Ages, AgeCap
<1>4. TypeOK'
  BY <1>1, <1>2, <1>3 DEF TypeOK
<1>5. Ages'
  BY <1>2, <1>3, AisAssumption DEF Ages
<1>6. ~ stopped' => \E c \in Socket : Current(c)'
  BY <1>1 DEF Current, Live
<1>7. StopIsFinal'
  BY <1>1 DEF StopIsFinal
<1> QED BY <1>4, <1>5, <1>6, <1>7

LEMMA InvariantHolds == Spec => []IInv
<1>1. IInv /\ [Next]_vars => IInv'
  <2> SUFFICES ASSUME IInv, [Next]_vars
               PROVE  IInv'
    OBVIOUS
  <2>1. CASE UNCHANGED vars
    <3>1. UNCHANGED streamVars /\ UNCHANGED <<vessels, pruneIn>>
      BY <2>1 DEF vars
    <3>2. TypeOK'
      BY <3>1 DEF IInv, TypeOK, streamVars
    <3> QED BY <3>1, <3>2, StreamStep, VesselStep DEF IInv
  <2> QED BY <2>1, OpenKeeps, CloseKeeps, ReconnectKeeps, StopKeeps, ReceiveKeeps, PruneKeeps,
             TickKeeps DEF Next
<1> QED BY <1>1, InitHolds, PTL DEF Spec

-------------------------------------------------------------------------------
(* Type correctness; with it, the backoff never leaves its two bounds. *)
THEOREM AisTypeCorrect == Spec => []TypeOK
<1>1. IInv => TypeOK
  BY DEF IInv
<1> QED BY <1>1, InvariantHolds, PTL

(* The stream neither forks into two connections nor dies, in whatever order its
   sockets open, fail and close. *)
THEOREM StreamIsOne == Spec => []OneConnection
<1>1. IInv => OneConnection
  <2> SUFFICES ASSUME IInv, ~ stopped
               PROVE  Cardinality({s \in Socket : Live(s)})
                        + Cardinality({s \in Socket : armed[s] # None}) = 1
    BY DEF OneConnection
  <2>1. PICK c \in Socket : Current(c)
    BY DEF IInv
  <2>2. CASE Live(c) /\ armed[c] = None
    <3>1. {s \in Socket : Live(s)} = {c} /\ {s \in Socket : armed[s] # None} = {}
      BY <2>1, <2>2 DEF Current
    <3>2. Cardinality({c}) = 1 /\ Cardinality({}) = 0
      BY FS_Singleton, FS_EmptySet
    <3> QED BY <3>1, <3>2
  <2>3. CASE ~ Live(c) /\ armed[c] # None
    <3>1. {s \in Socket : Live(s)} = {} /\ {s \in Socket : armed[s] # None} = {c}
      BY <2>1, <2>3 DEF Current
    <3>2. Cardinality({c}) = 1 /\ Cardinality({}) = 0
      BY FS_Singleton, FS_EmptySet
    <3> QED BY <3>1, <3>2
  <2> QED BY <2>1, <2>2, <2>3 DEF Current
<1> QED BY <1>1, InvariantHolds, PTL

(* stop() at any point leaves nothing that could reconnect. *)
THEOREM StopHolds == Spec => []StopIsFinal
<1>1. IInv => StopIsFinal
  BY DEF IInv
<1> QED BY <1>1, InvariantHolds, PTL

(* No position served is older than the stale limit and one prune interval. *)
THEOREM ServedPositionsAreFresh == Spec => []VesselAgeBounded
<1>1. IInv => VesselAgeBounded
  <2> SUFFICES ASSUME IInv, NEW v \in listAll
               PROVE  vessels[v] <= StaleAfter + PruneEvery
    BY DEF VesselAgeBounded
  <2>1. vessels[v] \in Nat /\ pruneIn \in Nat /\ vessels[v] + pruneIn <= StaleAfter + PruneEvery
    BY AisAssumption DEF IInv, TypeOK, Ages, AgeCap, listAll
  <2> QED BY <2>1, AisAssumption
<1> QED BY <1>1, InvariantHolds, PTL
===============================================================================
