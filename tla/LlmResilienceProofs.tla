------------------------- MODULE LlmResilienceProofs -------------------------
(***************************************************************************)
(* The nested retry loops for any number of attempts and any timeout: one  *)
(* invariant of loops, requests and counter gives the bounds in time, the  *)
(* bounds of the counter, and the refinement of withResilience's contract  *)
(* by both loops.                                                          *)
(***************************************************************************)
EXTENDS LlmResilience, FiniteSetTheorems, TLAPS

ReqState == {"unsent", "open", "settled"}

(* A loop called by latest, at time t. *)
LoopOK(t, loop, latest) ==
    /\ loop \in Loop
    /\ loop.outcome = "unstarted" => loop = Unstarted
    /\ loop.outcome # "unstarted" => loop.attempt \in Attempt
    /\ loop.outcome = "pending" => t <= loop.due /\ loop.due <= latest + loop.attempt * Timeout

(* The answer o has is that of the request its last inner attempt awaited. *)
Answered(o, in, rq) == LET last == in[o.attempt]
                       IN  last.outcome = "answered" /\ rq[o.attempt][last.attempt] = "settled"

(* Of a state, or of one between the settling of a request and its consequence. *)
Inv(t, o, in, rq, c) ==
    /\ t \in 0 .. MaxTime
    /\ LoopOK(t, o, 0)
    /\ in \in [Attempt -> Loop]
    /\ \A a \in Attempt : LoopOK(t, in[a], (a - 1) * Timeout)
    /\ \A a \in Attempt : a > o.attempt <=> in[a] = Unstarted
    /\ rq \in [Attempt -> [Attempt -> ReqState]]
    /\ \A a, i \in Attempt : rq[a][i] = "unsent" <=> i > in[a].attempt
    /\ c = o.attempt
    /\ o.outcome = "unstarted" => t = 0
    /\ o.outcome = "answered" => Answered(o, in, rq)

IInv == Inv(now, outer, inner, req, counted)

LEMMA NextTimeout ==
  ASSUME NEW k \in Nat
  PROVE  /\ k * Timeout \in Nat
         /\ (k + 1) * Timeout = k * Timeout + Timeout
BY ResilienceAssumption

LEMMA TimeoutsMonotone ==
  ASSUME NEW j \in Nat, NEW k \in Nat, j <= k
  PROVE  j * Timeout <= k * Timeout
BY ResilienceAssumption

LEMMA AttemptNat == /\ Attempt \subseteq Nat /\ Attempts \in Attempt /\ 1 \in Attempt
                    /\ \A a \in Attempt : a - 1 \in Nat
BY ResilienceAssumption DEF Attempt

(* Awaiting an attempt one timeout from now, when now is within the timeouts of
   the attempts before it. *)
LEMMA AwaitingOK ==
  ASSUME NEW latest \in Nat, NEW k \in Attempt, now \in Nat, now <= latest + (k - 1) * Timeout
  PROVE  LoopOK(now, Awaiting(k), latest)
<1>1. k - 1 \in Nat /\ (k - 1) + 1 = k
  BY AttemptNat
<1>2. k * Timeout = (k - 1) * Timeout + Timeout /\ (k - 1) * Timeout \in Nat /\ Timeout \in Nat
  BY <1>1, NextTimeout, ResilienceAssumption
<1>3. now + Timeout \in Nat /\ now + Timeout <= latest + k * Timeout /\ now <= now + Timeout
  BY <1>2
<1> QED BY <1>3 DEF LoopOK, Awaiting, Loop, Attempt

LEMMA StartKeeps ==
  ASSUME NEW in, NEW rq, NEW k \in Attempt, Inv(now, outer, in, rq, counted),
         outer.attempt = k - 1, now <= (k - 1) * Timeout,
         StartOuter(k, in, rq), now' = now
  PROVE  IInv'
<1> USE DEF Inv
<1>1. /\ outer' = Awaiting(k) /\ inner' = [in EXCEPT ![k] = Awaiting(1)]
      /\ req' = [rq EXCEPT ![k][1] = "open"] /\ counted' = counted + 1
  BY DEF StartOuter
<1>2. now \in Nat /\ (k - 1) * Timeout \in Nat /\ in[k] = Unstarted
  BY AttemptNat, NextTimeout
<1>3. LoopOK(now, Awaiting(k), 0)
  BY <1>2, AwaitingOK
<1>4. LoopOK(now, Awaiting(1), (k - 1) * Timeout)
  <2>1. now <= (k - 1) * Timeout + (1 - 1) * Timeout
    BY <1>2, NextTimeout
  <2> QED BY <1>2, <2>1, AwaitingOK, AttemptNat
<1>5. LoopOK(now', outer', 0)
  BY <1>1, <1>3
<1>6. Awaiting(1) \in Loop /\ Awaiting(k).attempt = k /\ Awaiting(1).attempt = 1
      /\ Awaiting(k).outcome = "pending" /\ Awaiting(1) # Unstarted
  BY <1>4 DEF LoopOK, Awaiting, Unstarted
<1>7. inner' \in [Attempt -> Loop] /\ req' \in [Attempt -> [Attempt -> ReqState]]
  BY <1>1, <1>6, AttemptNat DEF ReqState
<1>8. \A a \in Attempt : LoopOK(now', inner'[a], (a - 1) * Timeout)
  BY <1>1, <1>4
<1>9. \A a \in Attempt : a > outer'.attempt <=> inner'[a] = Unstarted
  <2> SUFFICES ASSUME NEW a \in Attempt
               PROVE  a > k <=> inner'[a] = Unstarted
    BY <1>1, <1>6
  <2>1. CASE a = k
    BY <1>1, <1>6, <2>1, AttemptNat
  <2>2. CASE a # k
    <3>1. inner'[a] = in[a] /\ a \in Nat /\ k \in Nat
      BY <1>1, <2>2, AttemptNat
    <3> QED BY <2>2, <3>1
  <2> QED BY <2>1, <2>2
<1>10. \A a, i \in Attempt : req'[a][i] = "unsent" <=> i > inner'[a].attempt
  <2> SUFFICES ASSUME NEW a \in Attempt, NEW i \in Attempt
               PROVE  req'[a][i] = "unsent" <=> i > inner'[a].attempt
    OBVIOUS
  <2>1. CASE a # k
    BY <1>1, <2>1
  <2>2. CASE a = k
    <3>1. rq[k][i] = "unsent" /\ inner'[k].attempt = 1
      BY <1>1, <1>2, <1>6, AttemptNat DEF Unstarted
    <3> QED BY <1>1, <2>2, <3>1, AttemptNat
  <2> QED BY <2>1, <2>2
<1>11. counted' = outer'.attempt
  BY <1>1, <1>6, AttemptNat
<1> QED BY <1>1, <1>5, <1>6, <1>7, <1>8, <1>9, <1>10, <1>11 DEF IInv

LEMMA OuterFailsKeeps ==
  ASSUME NEW in, NEW rq, Inv(now, outer, in, rq, counted),
         outer.outcome = "pending", OuterFails(in, rq), now' = now
  PROVE  IInv'
<1>1. outer.attempt \in Attempt /\ now <= outer.attempt * Timeout /\ now \in Nat
  <2>1. /\ now \in Nat /\ outer \in Loop /\ outer.attempt \in Attempt
        /\ now <= outer.due /\ outer.due <= 0 + outer.attempt * Timeout
    BY DEF Inv, LoopOK
  <2>2. outer.attempt * Timeout \in Nat /\ outer.due \in Nat
    BY <2>1, NextTimeout, AttemptNat DEF Loop
  <2> QED BY <2>1, <2>2
<1>2. CASE outer.attempt < Attempts
  <2> DEFINE k == outer.attempt + 1
  <2>1. k \in Attempt /\ k - 1 = outer.attempt
    BY <1>1, <1>2, AttemptNat DEF Attempt
  <2>2. StartOuter(k, in, rq)
    BY <1>2 DEF OuterFails
  <2> HIDE DEF k
  <2> QED BY <1>1, <2>1, <2>2, StartKeeps
<1>3. CASE ~ (outer.attempt < Attempts)
  <2>1. /\ outer' = [outer EXCEPT !.outcome = "failed"]
        /\ inner' = in /\ req' = rq /\ counted' = counted
    BY <1>3 DEF OuterFails
  <2>2. outer \in Loop
    BY DEF Inv, LoopOK
  <2>3. outer' \in Loop /\ outer'.attempt = outer.attempt /\ outer'.outcome = "failed"
    BY <2>1, <2>2 DEF Loop
  <2>4. LoopOK(now', outer', 0)
    BY <1>1, <2>3 DEF LoopOK
  <2> QED BY <2>1, <2>3, <2>4 DEF Inv, IInv
<1> QED BY <1>2, <1>3

(* Settling a request, by itself or with its inner loop, keeps the invariant. *)
LEMMA SettleKeeps ==
  ASSUME IInv, NEW a \in Attempt, NEW i \in Attempt, req[a][i] = "open"
  PROVE  /\ Inv(now, outer, inner, Settled(a, i), counted)
         /\ Settled(a, i) \in [Attempt -> [Attempt -> ReqState]] /\ Settled(a, i)[a][i] = "settled"
<1> DEFINE rq == Settled(a, i)
<1>1. rq \in [Attempt -> [Attempt -> ReqState]] /\ rq[a][i] = "settled"
  BY DEF IInv, Inv, Settled, ReqState
<1>2. \A b, j \in Attempt : rq[b][j] = req[b][j] \/ (rq[b][j] = "settled" /\ req[b][j] = "open")
  BY DEF IInv, Inv, Settled
<1>3. outer.outcome = "answered" => Answered(outer, inner, rq)
  <2> SUFFICES ASSUME outer.outcome = "answered"
               PROVE  Answered(outer, inner, rq)
    OBVIOUS
  <2>1. Answered(outer, inner, req) /\ outer.attempt \in Attempt
    BY DEF IInv, Inv, LoopOK
  <2>2. inner[outer.attempt].attempt \in Attempt
    BY <2>1 DEF IInv, Inv, LoopOK, Answered
  <2> QED BY <1>2, <2>1, <2>2 DEF Answered
<1>4. \A b, j \in Attempt : rq[b][j] = "unsent" <=> j > inner[b].attempt
  BY <1>2 DEF IInv, Inv
<1> QED BY <1>1, <1>3, <1>4 DEF IInv, Inv

(* An inner loop that settles keeps the invariant. *)
LEMMA InnerSettles ==
  ASSUME NEW rq, Inv(now, outer, inner, rq, counted), NEW a \in Attempt,
         inner[a].outcome = "pending", NEW result \in {"answered", "failed"},
         NEW in, in = [inner EXCEPT ![a].outcome = result]
  PROVE  /\ Inv(now, outer, in, rq, counted)
         /\ in[a].attempt = inner[a].attempt /\ in[a].outcome = result
<1> USE DEF Inv
<1>1. inner[a] \in Loop /\ inner[a].attempt \in Attempt
  BY DEF LoopOK
<1>2. in = [inner EXCEPT ![a] = [inner[a] EXCEPT !.outcome = result]]
  OBVIOUS
<1>3. in[a] = [inner[a] EXCEPT !.outcome = result] /\ \A b \in Attempt : b # a => in[b] = inner[b]
  BY <1>2
<1>4. in[a] \in Loop /\ in[a].attempt = inner[a].attempt /\ in[a].outcome = result
  BY <1>1, <1>3 DEF Loop
<1>5. in \in [Attempt -> Loop]
  BY <1>2, <1>4, <1>3
<1>6. LoopOK(now, in[a], (a - 1) * Timeout)
  BY <1>1, <1>4 DEF LoopOK
<1>7. a <= outer.attempt
  BY AttemptNat DEF LoopOK, Loop, Unstarted
<1>8. outer.outcome = "answered" => Answered(outer, in, rq)
  BY <1>3 DEF Answered
<1>9. \A b \in Attempt : LoopOK(now, in[b], (b - 1) * Timeout)
  BY <1>3, <1>6
<1>10. \A b \in Attempt : b > outer.attempt <=> in[b] = Unstarted
  BY <1>3, <1>4, <1>7, AttemptNat DEF LoopOK, Loop, Unstarted
<1>11. \A b, j \in Attempt : rq[b][j] = "unsent" <=> j > in[b].attempt
  BY <1>3, <1>4
<1> QED BY <1>4, <1>5, <1>8, <1>9, <1>10, <1>11

LEMMA InnerFailsKeeps ==
  ASSUME NEW rq, Inv(now, outer, inner, rq, counted), NEW a \in Attempt,
         inner[a].outcome = "pending", InnerFails(a, rq), now' = now
  PROVE  IInv'
<1> DEFINE i == inner[a].attempt
           givesUp == [inner EXCEPT ![a].outcome = "failed"]
<1>1. i \in Attempt /\ now <= (a - 1) * Timeout + i * Timeout /\ now \in Nat
  <2>1. LoopOK(now, inner[a], (a - 1) * Timeout) /\ now \in Nat
    BY DEF Inv
  <2>2. (a - 1) * Timeout \in Nat /\ i \in Attempt
    BY <2>1, NextTimeout, AttemptNat DEF LoopOK
  <2>3. i * Timeout \in Nat /\ inner[a].due \in Nat
    BY <2>1, <2>2, NextTimeout, AttemptNat DEF LoopOK, Loop
  <2> QED BY <2>1, <2>2, <2>3 DEF LoopOK
<1>2. Inv(now, outer, givesUp, rq, counted)
  BY InnerSettles
<1>3. CASE i < Attempts /\ inner' = [inner EXCEPT ![a] = Awaiting(i + 1)]
           /\ req' = [rq EXCEPT ![a][i + 1] = "open"] /\ UNCHANGED <<outer, counted>>
  <2> USE DEF Inv
  <2> DEFINE k == i + 1
  <2>1. k \in Attempt /\ k - 1 = i
    BY <1>1, <1>3, AttemptNat DEF Attempt
  <2>2. LoopOK(now, Awaiting(k), (a - 1) * Timeout)
    BY <1>1, <2>1, AwaitingOK, NextTimeout, AttemptNat
  <2>3. Awaiting(k) \in Loop /\ Awaiting(k).attempt = k
    BY <2>2 DEF LoopOK, Awaiting
  <2>4. inner' = [inner EXCEPT ![a] = Awaiting(k)] /\ req' = [rq EXCEPT ![a][k] = "open"]
    BY <1>3
  <2>5. \A b, j \in Attempt : req'[b][j] = "unsent" <=> j > inner'[b].attempt
    <3> SUFFICES ASSUME NEW b \in Attempt, NEW j \in Attempt
                 PROVE  req'[b][j] = "unsent" <=> j > inner'[b].attempt
      OBVIOUS
    <3>1. CASE b # a
      BY <2>4, <3>1
    <3>2. CASE b = a
      <4>1. inner'[a].attempt = k /\ (rq[a][j] = "unsent" <=> j > i)
        BY <2>3, <2>4
      <4>2. req'[a][j] = IF j = k THEN "open" ELSE rq[a][j]
        BY <2>1, <2>4
      <4>3. i \in Nat /\ j \in Nat /\ k = i + 1
        BY <1>1, AttemptNat
      <4> HIDE DEF i, k
      <4> QED BY <3>2, <4>1, <4>2, <4>3
    <3> QED BY <3>1, <3>2
  <2>6. a <= outer.attempt
    BY AttemptNat DEF LoopOK, Loop, Unstarted
  <2>7. \A b \in Attempt : LoopOK(now', inner'[b], (b - 1) * Timeout)
    BY <2>2, <2>4
  <2>8. \A b \in Attempt : b > outer'.attempt <=> inner'[b] = Unstarted
    BY <1>3, <2>3, <2>4, <2>6, AttemptNat DEF LoopOK, Loop, Unstarted, Awaiting
  <2>9. outer'.outcome = "answered" => Answered(outer', inner', req')
    <3> SUFFICES ASSUME outer.outcome = "answered"
                 PROVE  Answered(outer, inner', req')
      BY <1>3
    <3>1. Answered(outer, inner, rq) /\ outer.attempt \in Attempt
      BY DEF LoopOK
    <3>2. outer.attempt # a
      BY <3>1 DEF Answered
    <3> QED BY <2>4, <3>1, <3>2 DEF Answered
  <2>10. inner' \in [Attempt -> Loop] /\ req' \in [Attempt -> [Attempt -> ReqState]]
    BY <2>3, <2>4 DEF ReqState
  <2> QED BY <1>3, <2>5, <2>7, <2>8, <2>9, <2>10 DEF IInv
<1>4. CASE Awaited(a) /\ OuterFails(givesUp, rq)
  BY <1>2, <1>4, OuterFailsKeeps DEF Awaited
<1>5. CASE inner' = givesUp /\ req' = rq /\ UNCHANGED <<outer, counted>>
  BY <1>2, <1>5 DEF Inv, IInv
<1> QED BY <1>3, <1>4, <1>5 DEF InnerFails

-------------------------------------------------------------------------------
LEMMA NextKeeps == IInv /\ [Next]_vars => IInv'
<1> SUFFICES ASSUME IInv, [Next]_vars
             PROVE  IInv'
  OBVIOUS
<1> USE DEF IInv
<1>1. CASE Issue
  <2>1. now = 0 /\ outer.attempt = 0 /\ StartOuter(1, inner, req) /\ now' = now
    BY <1>1 DEF Issue, Inv, LoopOK, Unstarted
  <2>2. now <= (1 - 1) * Timeout
    BY <2>1, NextTimeout
  <2> QED BY <2>1, <2>2, AttemptNat, StartKeeps
<1>2. CASE OuterTimeout
  BY <1>2, OuterFailsKeeps DEF OuterTimeout, Due
<1>3. CASE Tick
  <2>1. now' = now + 1 /\ now < MaxTime /\ UNCHANGED <<outer, inner, req, counted>>
        /\ outer.outcome # "unstarted" /\ ~ Due(outer) /\ \A a \in Attempt : ~ Due(inner[a])
    BY <1>3 DEF Tick
  <2>2. \A loop \in Loop : \A latest : LoopOK(now, loop, latest) /\ ~ Due(loop)
                                          => LoopOK(now + 1, loop, latest)
    BY DEF LoopOK, Due, Loop, Inv
  <2>3. now + 1 \in 0 .. MaxTime
    BY <2>1, ResilienceAssumption DEF Inv
  <2>4. LoopOK(now', outer', 0)
    BY <2>1, <2>2 DEF Inv, LoopOK
  <2>5. \A a \in Attempt : LoopOK(now', inner'[a], (a - 1) * Timeout)
    BY <2>1, <2>2 DEF Inv
  <2> QED BY <2>1, <2>3, <2>4, <2>5 DEF Inv
<1>4. ASSUME NEW a \in Attempt, InnerTimeout(a)
      PROVE  IInv'
  BY <1>4, InnerFailsKeeps DEF InnerTimeout, Due
<1>5. ASSUME NEW a \in Attempt, NEW i \in Attempt, Answer(a, i)
      PROVE  IInv'
  <2>1. /\ req[a][i] = "open" /\ req' = Settled(a, i) /\ UNCHANGED <<now, counted>>
        /\ Inv(now, outer, inner, req', counted) /\ req'[a][i] = "settled"
    BY <1>5, SettleKeeps DEF Answer
  <2>2. CASE ~ Current(a, i)
    BY <1>5, <2>1, <2>2 DEF Answer
  <2>3. CASE Current(a, i)
    <3>1. inner' = [inner EXCEPT ![a].outcome = "answered"] /\ inner[a].outcome = "pending"
          /\ inner[a].attempt = i
      BY <1>5, <2>3 DEF Answer, Current
    <3>2. Inv(now, outer, inner', req', counted)
          /\ inner'[a].attempt = i /\ inner'[a].outcome = "answered"
      <4>1. \A rq, in : /\ Inv(now, outer, inner, rq, counted)
                        /\ in = [inner EXCEPT ![a].outcome = "answered"]
                        => /\ Inv(now, outer, in, rq, counted)
                           /\ in[a].attempt = i /\ in[a].outcome = "answered"
        BY <3>1, InnerSettles
      <4> QED BY <2>1, <3>1, <4>1
    <3>3. CASE ~ Awaited(a)
      BY <1>5, <2>1, <3>2, <3>3 DEF Answer
    <3>4. CASE Awaited(a)
      <4>1. outer' = [outer EXCEPT !.outcome = "answered"]
            /\ outer.attempt = a /\ outer.outcome = "pending" /\ outer \in Loop
        BY <1>5, <2>3, <3>4 DEF Answer, Awaited, Inv, LoopOK
      <4>2. outer' \in Loop /\ outer'.attempt = a /\ outer'.outcome = "answered"
        BY <4>1 DEF Loop
      <4>3. LoopOK(now', outer', 0) /\ Answered(outer', inner', req')
        BY <2>1, <3>2, <4>2 DEF LoopOK, Answered
      <4> QED BY <2>1, <3>2, <4>1, <4>2, <4>3 DEF Inv
    <3> QED BY <3>3, <3>4
  <2> QED BY <2>2, <2>3
<1>6. ASSUME NEW a \in Attempt, NEW i \in Attempt, Reject(a, i)
      PROVE  IInv'
  <2>1. req[a][i] = "open" /\ now' = now /\ Inv(now, outer, inner, Settled(a, i), counted)
    BY <1>6, SettleKeeps DEF Reject
  <2>2. CASE Current(a, i)
    BY <1>6, <2>1, <2>2, InnerFailsKeeps DEF Reject, Current
  <2>3. CASE ~ Current(a, i)
    BY <1>6, <2>1, <2>3 DEF Reject
  <2> QED BY <2>2, <2>3
<1>7. CASE UNCHANGED vars
  BY <1>7 DEF vars, Inv
<1> QED BY <1>1, <1>2, <1>3, <1>4, <1>5, <1>6, <1>7 DEF Next

LEMMA InvariantHolds == Spec => []IInv
<1>1. Init => IInv
  BY ResilienceAssumption, AttemptNat DEF Init, IInv, Inv, LoopOK, Loop, Unstarted, ReqState, Attempt
<1> QED BY <1>1, NextKeeps, PTL DEF Spec

(* Type correctness, for any number of attempts and any timeout. *)
THEOREM LlmTypeCorrect == Spec => []TypeOK
<1>1. IInv => TypeOK
  BY AttemptNat DEF IInv, Inv, TypeOK, LoopOK, Loop, ReqState
<1> QED BY <1>1, InvariantHolds, PTL

(* A prompt settles within one timeout for each attempt of enrichEvent, for every
   number of attempts, every timeout and whatever DeepSeek does. *)
THEOREM PromptSettlesInTime == Spec => []SettlesInTime
<1>1. IInv => SettlesInTime
  <2> SUFFICES ASSUME IInv, outer.outcome = "pending"
               PROVE  now <= Attempts * Timeout
    BY DEF SettlesInTime
  <2> DEFINE k == outer.attempt
  <2>1. now \in Nat /\ outer.due \in Nat /\ k \in Attempt /\ now <= outer.due
        /\ outer.due <= 0 + k * Timeout
    BY DEF IInv, Inv, LoopOK, Loop
  <2>2. k * Timeout <= Attempts * Timeout /\ k * Timeout \in Nat /\ Attempts * Timeout \in Nat
    BY <2>1, TimeoutsMonotone, NextTimeout, AttemptNat DEF Attempt
  <2> HIDE DEF k
  <2> QED BY <2>1, <2>2
<1> QED BY <1>1, InvariantHolds, PTL

(* An abandoned inner loop has sent its last request 2 * Attempts - 1 timeouts
   after the prompt was issued. *)
THEOREM ZombieLoopsEnd == Spec => []ZombiesEnd
<1>1. IInv => ZombiesEnd
  <2> SUFFICES ASSUME IInv, NEW a \in Attempt, inner[a].outcome = "pending"
               PROVE  now <= (2 * Attempts - 1) * Timeout
    BY DEF ZombiesEnd
  <2> DEFINE k == inner[a].attempt
  <2>1. /\ now \in Nat /\ inner[a].due \in Nat /\ k \in Attempt /\ now <= inner[a].due
        /\ inner[a].due <= (a - 1) * Timeout + k * Timeout
    BY DEF IInv, Inv, LoopOK, Loop
  <2>2. (a - 1) * Timeout + k * Timeout <= (Attempts - 1) * Timeout + Attempts * Timeout
    <3>1. /\ k \in Nat /\ k <= Attempts /\ a - 1 \in Nat /\ a - 1 <= Attempts - 1
          /\ Attempts - 1 \in Nat /\ Attempts \in Nat
      BY <2>1, ResilienceAssumption DEF Attempt
    <3> HIDE DEF k
    <3>2. k * Timeout <= Attempts * Timeout /\ (a - 1) * Timeout <= (Attempts - 1) * Timeout
      BY <3>1, TimeoutsMonotone
    <3>3. {k * Timeout, Attempts * Timeout, (a - 1) * Timeout, (Attempts - 1) * Timeout} \subseteq Nat
      BY <3>1, NextTimeout
    <3> QED BY <3>2, <3>3
  <2>3. (Attempts - 1) * Timeout + Attempts * Timeout = (2 * Attempts - 1) * Timeout
    BY ResilienceAssumption
  <2>4. (a - 1) * Timeout \in Nat /\ k * Timeout \in Nat /\ (2 * Attempts - 1) * Timeout \in Nat
    <3>1. 2 * Attempts - 1 \in Nat
      BY ResilienceAssumption
    <3>2. a - 1 \in Nat /\ k \in Nat
      BY <2>1, AttemptNat
    <3> HIDE DEF k
    <3> QED BY <3>1, <3>2, NextTimeout
  <2> HIDE DEF k
  <2> QED BY <2>1, <2>2, <2>3, <2>4
<1> QED BY <1>1, InvariantHolds, PTL

(* Late answers are ignored: the text enrichEvent goes on with answers the last
   request of its last attempt. *)
THEOREM AnswersAreCurrent == Spec => []AnswerIsCurrent
<1>1. IInv => AnswerIsCurrent
  BY DEF IInv, Inv, AnswerIsCurrent, Answered
<1> QED BY <1>1, InvariantHolds, PTL

(* The spend counter never overstates the requests sent and understates them at
   most by the factor of the inner loop's attempts. *)
THEOREM CounterWithinFactor == Spec => []UndercountBounded
<1>1. IInv => UndercountBounded
  <2> SUFFICES ASSUME IInv
               PROVE  UndercountBounded
    OBVIOUS
  <2>1. counted \in 0 .. Attempts /\ Attempts \in Nat /\ counted \in Nat
    BY ResilienceAssumption DEF IInv, Inv, LoopOK, Loop
  <2> DEFINE counting == 1 .. counted
             least    == counting \X {1}
             most     == counting \X Attempt
  <2>2. counting \subseteq Attempt
    BY <2>1 DEF Attempt
  <2>3. IsFiniteSet(counting) /\ Cardinality(counting) = counted
    BY <2>1, FS_Interval
  <2>4. IsFiniteSet(Attempt) /\ Cardinality(Attempt) = Attempts
    BY <2>1, FS_Interval DEF Attempt
  <2>5. IsFiniteSet(least) /\ Cardinality(least) = counted * 1
    <3>1. IsFiniteSet({1}) /\ Cardinality({1}) = 1
      BY FS_Singleton
    <3> HIDE DEF counting
    <3> QED BY <2>3, <3>1, FS_Product
  <2>6. IsFiniteSet(most) /\ Cardinality(most) = counted * Attempts
    BY <2>3, <2>4, FS_Product
  <2>7. \A a, i \in Attempt : req[a][i] # "unsent" <=> i <= inner[a].attempt
    BY AttemptNat DEF IInv, Inv, LoopOK, Loop
  <2>8. \A a \in Attempt : /\ a \in counting => inner[a].attempt >= 1
                           /\ a \notin counting => inner[a].attempt = 0
    BY <2>1 DEF IInv, Inv, LoopOK, Loop, Unstarted, Attempt
  <2>9. least \subseteq Sent
    BY <2>2, <2>7, <2>8, AttemptNat DEF Sent
  <2>10. Sent \subseteq most
    <3> SUFFICES ASSUME NEW a \in Attempt, NEW i \in Attempt, req[a][i] # "unsent",
                        a \notin counting
                 PROVE  FALSE
      BY DEF Sent
    <3>1. i <= inner[a].attempt /\ i \in Nat /\ i > 0
      BY <2>7, AttemptNat DEF Attempt
    <3>2. inner[a].attempt = 0
      BY <2>8
    <3> QED BY <3>1, <3>2
  <2>11. /\ IsFiniteSet(Sent) /\ Cardinality(Sent) \in Nat
         /\ Cardinality(least) <= Cardinality(Sent) /\ Cardinality(Sent) <= Cardinality(most)
    BY <2>5, <2>6, <2>9, <2>10, FS_Subset, FS_CardinalityType
  <2> QED BY <2>1, <2>5, <2>6, <2>11 DEF UndercountBounded
<1> QED BY <1>1, InvariantHolds, PTL

-------------------------------------------------------------------------------
(* The step as the contract of the inner loop of a sees it. *)
InnerStep(a) == Inner(a)!Next \/ UNCHANGED <<now, inner[a]>>

(* A failed outer attempt is a step of the outer loop, and of the inner loops it
   has not just settled itself (in). *)
LEMMA OuterFailsSteps ==
  ASSUME NEW in, NEW rq, Inv(now, outer, in, rq, counted),
         outer.outcome = "pending", OuterFails(in, rq), now' = now
  PROVE  /\ Outer!Next
         /\ \A b \in Attempt : /\ in[b] = inner[b] => InnerStep(b)
                               /\ in[b] # Unstarted => inner'[b] = in[b]
<1>1. /\ outer \in Loop /\ outer.attempt \in Attempt /\ in \in [Attempt -> Loop]
      /\ now <= outer.attempt * Timeout
  <2>1. /\ outer \in Loop /\ outer.attempt \in Attempt /\ in \in [Attempt -> Loop]
        /\ now \in Nat /\ now <= outer.due /\ outer.due <= 0 + outer.attempt * Timeout
    BY DEF Inv, LoopOK
  <2>2. outer.attempt * Timeout \in Nat /\ outer.due \in Nat
    BY <2>1, NextTimeout, AttemptNat DEF Loop
  <2> QED BY <2>1, <2>2
<1>2. CASE outer.attempt < Attempts
  <2>1. PICK k \in Attempt : k = outer.attempt + 1
    BY <1>1, <1>2, AttemptNat DEF Attempt
  <2>2. k - 1 = outer.attempt /\ k > outer.attempt
    <3>1. outer.attempt \in Nat
      BY <1>1, AttemptNat
    <3> QED BY <2>1, <3>1
  <2>3. outer' = Awaiting(k) /\ inner' = [in EXCEPT ![k] = Awaiting(1)]
    BY <1>2, <2>1 DEF OuterFails, StartOuter
  <2>4. in[k] = Unstarted
    BY <2>2 DEF Inv
  <2>5. Outer!Retry
    BY <1>2, <2>1, <2>3 DEF Outer!Retry, Outer!Pending, Outer!Awaiting, Awaiting
  <2>6. now <= (k - 1) * Timeout
    BY <1>1, <2>2
  <2>7. in[k] = inner[k] => Inner(k)!Call
    <3>1. inner'[k] = Awaiting(1)
      BY <1>1, <2>3
    <3> QED BY <2>4, <2>6, <3>1 DEF Inner!Call, Inner!Awaiting, Awaiting, Unstarted
  <2>8. \A b \in Attempt : b # k => inner'[b] = in[b]
    BY <2>3
  <2> QED BY <2>4, <2>5, <2>7, <2>8 DEF Outer!Next, Inner!Next, InnerStep
<1>3. CASE ~ (outer.attempt < Attempts)
  <2>1. outer' = [outer EXCEPT !.outcome = "failed"] /\ inner' = in
    BY <1>3 DEF OuterFails
  <2>2. outer.attempt = Attempts
    BY <1>1, <1>3, ResilienceAssumption DEF Attempt
  <2>3. Outer!Throw
    BY <2>1, <2>2 DEF Outer!Throw, Outer!Pending
  <2> QED BY <2>1, <2>3 DEF Outer!Next, InnerStep
<1> QED BY <1>2, <1>3

LEMMA InnerFailsSteps ==
  ASSUME NEW rq, Inv(now, outer, inner, rq, counted), NEW a \in Attempt,
         inner[a].outcome = "pending", InnerFails(a, rq), now' = now
  PROVE  /\ Outer!Next \/ UNCHANGED <<now, outer>>
         /\ \A b \in Attempt : InnerStep(b)
<1> DEFINE i == inner[a].attempt
           givesUp == [inner EXCEPT ![a].outcome = "failed"]
<1>1. inner \in [Attempt -> Loop] /\ i \in Attempt
  BY DEF Inv, LoopOK
<1>2. givesUp[a] = [inner[a] EXCEPT !.outcome = "failed"]
      /\ \A b \in Attempt : b # a => givesUp[b] = inner[b]
  BY <1>1
<1>3. ASSUME i = Attempts, NEW b \in Attempt, b = a, inner'[b] = givesUp[b]
      PROVE  InnerStep(b)
  BY <1>2, <1>3 DEF Inner!Throw, Inner!Pending, Inner!Next, InnerStep
<1>4. CASE i < Attempts /\ inner' = [inner EXCEPT ![a] = Awaiting(i + 1)] /\ UNCHANGED outer
  <2>1. Inner(a)!Retry
    BY <1>1, <1>4 DEF Inner!Retry, Inner!Pending, Inner!Awaiting, Awaiting
  <2>2. \A b \in Attempt : b # a => inner'[b] = inner[b]
    BY <1>1, <1>4
  <2> QED BY <1>4, <2>1, <2>2 DEF Inner!Next, InnerStep
<1>5. CASE i = Attempts /\ Awaited(a) /\ OuterFails(givesUp, rq)
  <2>1. Inv(now, outer, givesUp, rq, counted) /\ givesUp[a].outcome = "failed"
    BY InnerSettles
  <2>2. givesUp[a] # Unstarted
    BY <2>1 DEF Unstarted
  <2>3. /\ Outer!Next
        /\ \A b \in Attempt : /\ givesUp[b] = inner[b] => InnerStep(b)
                              /\ givesUp[b] # Unstarted => inner'[b] = givesUp[b]
    BY <1>5, <2>1, OuterFailsSteps DEF Awaited
  <2> HIDE DEF givesUp
  <2>4. ASSUME NEW b \in Attempt
        PROVE  InnerStep(b)
    <3>1. CASE b = a
      <4>1. inner'[b] = givesUp[b]
        BY <2>2, <2>3, <3>1
      <4> QED BY <1>3, <1>5, <3>1, <4>1
    <3>2. CASE b # a
      BY <1>2, <2>3, <3>2
    <3> QED BY <3>1, <3>2
  <2> QED BY <2>3, <2>4
<1>6. CASE i = Attempts /\ inner' = givesUp /\ UNCHANGED outer
  <2>1. \A b \in Attempt : b = a => InnerStep(b)
    BY <1>3, <1>6
  <2>2. \A b \in Attempt : b # a => InnerStep(b)
    BY <1>2, <1>6 DEF InnerStep
  <2> QED BY <1>6, <2>1, <2>2
<1> QED BY <1>4, <1>5, <1>6 DEF InnerFails

LEMMA NextImplements ==
  ASSUME IInv, [Next]_vars
  PROVE  /\ Outer!Next \/ UNCHANGED <<now, outer>>
         /\ \A b \in Attempt : InnerStep(b)
<1>1. CASE Issue
  <2>1. /\ now = 0 /\ outer.outcome = "unstarted" /\ inner[1] = Unstarted
        /\ outer' = Awaiting(1) /\ inner' = [inner EXCEPT ![1] = Awaiting(1)] /\ now' = now
        /\ inner \in [Attempt -> Loop]
    BY <1>1, AttemptNat DEF Issue, StartOuter, IInv, Inv, LoopOK, Unstarted
  <2>2. now <= (1 - 1) * Timeout
    BY <2>1, NextTimeout
  <2>3. Outer!Call
    BY <2>1 DEF Outer!Call, Outer!Awaiting, Awaiting
  <2>4. Inner(1)!Call
    BY <2>1, <2>2, AttemptNat DEF Inner!Call, Inner!Awaiting, Awaiting, Unstarted
  <2>5. \A b \in Attempt : b # 1 => inner'[b] = inner[b]
    BY <2>1
  <2> QED BY <2>1, <2>3, <2>4, <2>5 DEF Outer!Next, Inner!Next, InnerStep
<1>2. CASE OuterTimeout
  <2>1. outer.outcome = "pending" /\ OuterFails(inner, req) /\ now' = now
    BY <1>2 DEF OuterTimeout, Due
  <2>2. /\ Outer!Next
        /\ \A b \in Attempt : /\ inner[b] = inner[b] => InnerStep(b)
                              /\ inner[b] # Unstarted => inner'[b] = inner[b]
    BY <2>1, OuterFailsSteps DEF IInv
  <2>3. \A b \in Attempt : InnerStep(b)
    BY <2>2
  <2> QED BY <2>2, <2>3
<1>3. CASE Tick
  <2>1. now' = now + 1 /\ UNCHANGED <<outer, inner>>
        /\ ~ Due(outer) /\ \A a \in Attempt : ~ Due(inner[a])
    BY <1>3 DEF Tick
  <2>2. now \in Nat /\ outer.due \in Nat /\ \A a \in Attempt : inner[a].due \in Nat
    BY DEF IInv, Inv, LoopOK, Loop
  <2>3. Outer!Tick
    BY <2>1, <2>2 DEF Outer!Tick, Outer!Pending, Due
  <2>4. \A a \in Attempt : Inner(a)!Tick
    BY <2>1, <2>2 DEF Inner!Tick, Inner!Pending, Due
  <2> QED BY <2>3, <2>4 DEF Outer!Next, Inner!Next, InnerStep
<1>4. ASSUME NEW a \in Attempt, InnerTimeout(a)
      PROVE  /\ Outer!Next \/ UNCHANGED <<now, outer>>
             /\ \A b \in Attempt : InnerStep(b)
  BY <1>4, InnerFailsSteps DEF InnerTimeout, Due, IInv
<1>5. ASSUME NEW a \in Attempt, NEW i \in Attempt, Answer(a, i)
      PROVE  /\ Outer!Next \/ UNCHANGED <<now, outer>>
             /\ \A b \in Attempt : InnerStep(b)
  <2>1. /\ now' = now
        /\ inner' = inner \/ /\ inner[a].outcome = "pending"
                             /\ inner' = [inner EXCEPT ![a].outcome = "answered"]
        /\ outer' = outer \/ /\ outer.outcome = "pending"
                             /\ outer' = [outer EXCEPT !.outcome = "answered"]
    BY <1>5 DEF Answer, Current, Awaited
  <2>2. Outer!Next \/ UNCHANGED <<now, outer>>
    BY <2>1 DEF Outer!Next, Outer!Resolve, Outer!Pending
  <2>3. inner \in [Attempt -> Loop]
    BY DEF IInv, Inv
  <2>4. CASE inner' = inner
    BY <2>1, <2>2, <2>4 DEF InnerStep
  <2>5. CASE inner[a].outcome = "pending" /\ inner' = [inner EXCEPT ![a].outcome = "answered"]
    <3>1. Inner(a)!Resolve
      BY <2>1, <2>3, <2>5 DEF Inner!Resolve, Inner!Pending
    <3>2. \A b \in Attempt : b # a => inner'[b] = inner[b]
      BY <2>3, <2>5
    <3> QED BY <2>1, <2>2, <3>1, <3>2 DEF Inner!Next, InnerStep
  <2> QED BY <2>1, <2>4, <2>5
<1>6. ASSUME NEW a \in Attempt, NEW i \in Attempt, Reject(a, i)
      PROVE  /\ Outer!Next \/ UNCHANGED <<now, outer>>
             /\ \A b \in Attempt : InnerStep(b)
  <2>1. req[a][i] = "open" /\ now' = now /\ Inv(now, outer, inner, Settled(a, i), counted)
    BY <1>6, SettleKeeps DEF Reject
  <2>2. CASE Current(a, i)
    BY <1>6, <2>1, <2>2, InnerFailsSteps DEF Reject, Current
  <2>3. CASE ~ Current(a, i)
    BY <1>6, <2>1, <2>3 DEF Reject, InnerStep
  <2> QED BY <2>2, <2>3
<1>7. CASE UNCHANGED vars
  BY <1>7 DEF vars, InnerStep
<1> QED BY <1>1, <1>2, <1>3, <1>4, <1>5, <1>6, <1>7 DEF Next

(* Both loops keep withResilience's contract, nested as they are. *)
THEOREM LoopsImplementWithResilience == Spec => ImplementsWithResilience
<1> DEFINE InnerSteps == \A a \in Attempt : Inner(a)!Next \/ UNCHANGED <<now, inner[a]>>
           InnerInits == \A a \in Attempt : Inner(a)!Init
<1>1. Init => Outer!Init /\ InnerInits
  BY DEF Init, Outer!Init, Inner!Init, Unstarted
<1>2. IInv /\ [Next]_vars => [Outer!Next]_<<now, outer>> /\ [InnerSteps]_vars
  BY NextImplements DEF InnerStep
<1>3. ImplementsWithResilience
        <=> /\ Outer!Init /\ [][Outer!Next]_<<now, outer>>
            /\ InnerInits /\ [][InnerSteps]_vars
  BY DEF ImplementsWithResilience, Outer!Spec
<1> HIDE DEF InnerSteps, InnerInits
<1> QED BY <1>1, <1>2, <1>3, InvariantHolds, PTL DEF Spec
===============================================================================
