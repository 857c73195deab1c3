----------------------------- MODULE LlmResilience -----------------------------
(***************************************************************************)
(* One LLM prompt on its way from enrichEvent to DeepSeek.  Two retry      *)
(* loops of lib/llm/withResilience.js are nested: enrichEvent wraps the    *)
(* counted llmCall, and createLlmCall in server.js wraps callDeepSeek      *)
(* again.  withTimeout stops waiting but cancels nothing, so a request may *)
(* outlive its attempt, and an inner loop may outlive the outer attempt    *)
(* that started it and go on sending requests.                             *)
(***************************************************************************)
EXTENDS Naturals, FiniteSets

CONSTANTS
    Attempts,  \* retries + 1, of either loop
    Timeout,   \* timeoutMs of either loop, in ticks
    MaxTime    \* bound on the clock

ASSUME ResilienceAssumption == {Attempts, Timeout} \subseteq Nat \ {0} /\ MaxTime \in Nat

VARIABLES
    now,      \* time since the prompt was issued, in ticks
    outer,    \* enrichEvent's loop
    inner,    \* createLlmCall's loop for each outer attempt
    req,      \* the API request of each inner attempt
    counted   \* counter.count

vars == <<now, outer, inner, req, counted>>

Attempt == 1 .. Attempts

(* A loop awaits its attempt-th call until due. *)
Loop == [attempt : 0 .. Attempts, due : Nat,
         outcome : {"unstarted", "pending", "answered", "failed"}]

Unstarted == [attempt |-> 0, due |-> 0, outcome |-> "unstarted"]

(* Mutant: the timeout grows with each attempt. *)
AwaitingWithBackoff(k) ==
    [attempt |-> k, due |-> now + k * Timeout, outcome |-> "pending"]

Awaiting(k) == [attempt |-> k, due |-> now + Timeout, outcome |-> "pending"]

TypeOK == /\ now \in 0 .. MaxTime
          /\ outer \in Loop
          /\ inner \in [Attempt -> Loop]
          /\ req \in [Attempt -> [Attempt -> {"unsent", "open", "settled"}]]
          /\ counted \in Nat

Init == /\ now = 0
        /\ outer = Unstarted
        /\ inner = [a \in Attempt |-> Unstarted]
        /\ req = [a \in Attempt |-> [i \in Attempt |-> "unsent"]]
        /\ counted = 0

-------------------------------------------------------------------------------
(* Mutant: the counter wraps the retry loop instead of the call. *)
StartOuterUncounted(k, in, rq) ==
    /\ outer' = Awaiting(k)
    /\ inner' = [in EXCEPT ![k] = Awaiting(1)]
    /\ req' = [rq EXCEPT ![k][1] = "open"]
    /\ counted' = IF k = 1 THEN counted + 1 ELSE counted

(* Outer attempt k: the call is counted, then the inner loop sends its first
   request.  in and rq are the inner loops and requests the step leaves. *)
StartOuter(k, in, rq) ==
    /\ outer' = Awaiting(k)
    /\ inner' = [in EXCEPT ![k] = Awaiting(1)]
    /\ req' = [rq EXCEPT ![k][1] = "open"]
    /\ counted' = counted + 1

(* The outer attempt failed: the next one, or the prompt has failed. *)
OuterFails(in, rq) ==
    IF outer.attempt < Attempts
      THEN StartOuter(outer.attempt + 1, in, rq)
      ELSE /\ outer' = [outer EXCEPT !.outcome = "failed"]
           /\ inner' = in
           /\ req' = rq
           /\ UNCHANGED counted

(* The outer loop still waits for the inner loop of attempt a. *)
Awaited(a) == outer.outcome = "pending" /\ outer.attempt = a

(* Mutant: attempt <= retries + 1 instead of attempt <= retries. *)
InnerFailsOnceMore(a, rq) ==
    LET i == inner[a].attempt
    IN  /\ i <= Attempts
        /\ inner' = [inner EXCEPT ![a] = Awaiting(i + 1)]
        /\ req' = IF i < Attempts THEN [rq EXCEPT ![a][i + 1] = "open"] ELSE rq
        /\ UNCHANGED <<outer, counted>>

(* The inner attempt of a failed: the next one, awaited or not, or the inner
   loop rejects, which counts only if it is still awaited. *)
InnerFails(a, rq) ==
    LET i       == inner[a].attempt
        givesUp == [inner EXCEPT ![a].outcome = "failed"]
    IN  \/ /\ i < Attempts
           /\ inner' = [inner EXCEPT ![a] = Awaiting(i + 1)]
           /\ req' = [rq EXCEPT ![a][i + 1] = "open"]
           /\ UNCHANGED <<outer, counted>>
        \/ /\ i = Attempts /\ Awaited(a)
           /\ OuterFails(givesUp, rq)
        \/ /\ i = Attempts /\ ~ Awaited(a)
           /\ inner' = givesUp
           /\ req' = rq
           /\ UNCHANGED <<outer, counted>>

-------------------------------------------------------------------------------
(* enrichEvent issues the prompt. *)
Issue == /\ outer.outcome = "unstarted"
         /\ StartOuter(1, inner, req)
         /\ UNCHANGED now

(* The inner loop of a still waits for its attempt i. *)
Current(a, i) == inner[a].outcome = "pending" /\ inner[a].attempt = i

Settled(a, i) == [req EXCEPT ![a][i] = "settled"]

(* Mutant: a late answer is taken for the attempt in progress. *)
AnswerLate(a, i) ==
    /\ req[a][i] = "open"
    /\ req' = Settled(a, i)
    /\ inner' = [inner EXCEPT ![a].outcome = "answered"]
    /\ outer' = IF Awaited(a) THEN [outer EXCEPT !.outcome = "answered"] ELSE outer
    /\ UNCHANGED <<now, counted>>

(* DeepSeek answers with a text. *)
Answer(a, i) ==
    /\ req[a][i] = "open"
    /\ req' = Settled(a, i)
    /\ inner' = IF Current(a, i) THEN [inner EXCEPT ![a].outcome = "answered"] ELSE inner
    /\ outer' = IF Current(a, i) /\ Awaited(a)
                  THEN [outer EXCEPT !.outcome = "answered"] ELSE outer
    /\ UNCHANGED <<now, counted>>

(* callDeepSeek rejects: the network, a bad status, a response without text. *)
Reject(a, i) ==
    /\ req[a][i] = "open"
    /\ IF Current(a, i)
         THEN InnerFails(a, Settled(a, i))
         ELSE req' = Settled(a, i) /\ UNCHANGED <<outer, inner, counted>>
    /\ UNCHANGED now

(* Mutant: withTimeout arms no timer. *)
NeverDue(loop) == FALSE

Due(loop) == loop.outcome = "pending" /\ loop.due <= now

(* A timed-out request is left running. *)
InnerTimeout(a) ==
    /\ Due(inner[a])
    /\ InnerFails(a, req)
    /\ UNCHANGED now

(* The inner timer was set first, so when both are due it fires first. *)
OuterTimeout ==
    /\ Due(outer)
    /\ ~ Due(inner[outer.attempt])
    /\ OuterFails(inner, req)
    /\ UNCHANGED now

(* The clock runs from the prompt on.  Timers fire when they are due: the event
   loop is not kept busy. *)
Tick ==
    /\ outer.outcome # "unstarted"
    /\ now < MaxTime
    /\ ~ Due(outer) /\ \A a \in Attempt : ~ Due(inner[a])
    /\ now' = now + 1
    /\ UNCHANGED <<outer, inner, req, counted>>

Next == \/ Issue \/ OuterTimeout \/ Tick
        \/ \E a \in Attempt : InnerTimeout(a) \/ \E i \in Attempt : Answer(a, i) \/ Reject(a, i)

Spec == Init /\ [][Next]_vars

(* Time passes and timers fire; nothing is assumed of DeepSeek, which may never
   answer. *)
FairSpec == Spec /\ WF_vars(Tick) /\ WF_vars(OuterTimeout)
                 /\ \A a \in Attempt : WF_vars(InnerTimeout(a))

-------------------------------------------------------------------------------
Sent == {ai \in Attempt \X Attempt : req[ai[1]][ai[2]] # "unsent"}

(* Either loop keeps the contract of withResilience by itself, though they share
   requests and clock, and though the inner loops may be abandoned: the outer one
   is called at once, that of attempt a within a - 1 timeouts. *)
Outer == INSTANCE WithResilience WITH loop <- outer, Latest <- 0
Inner(a) == INSTANCE WithResilience WITH loop <- inner[a], Latest <- (a - 1) * Timeout

ImplementsWithResilience ==
    /\ Outer!Spec
    /\ \A a \in Attempt : Inner(a)!Init
    /\ [][\A a \in Attempt : Inner(a)!Next \/ UNCHANGED <<now, inner[a]>>]_vars

(* The prompt settles within one timeout per outer attempt, whatever the inner
   loops do: the 3 x 8 s a cycle may wait for each prompt. *)
SettlesInTime == outer.outcome = "pending" => now <= Attempts * Timeout

(* Inner loops that nobody awaits any more send their last request before the
   last of them runs out of attempts, 2 * Attempts - 1 timeouts after the
   prompt was issued. *)
ZombiesEnd ==
    \A a \in Attempt :
        inner[a].outcome = "pending" => now <= (2 * Attempts - 1) * Timeout

(* The cost counter never overstates and understates at most by the factor of
   the inner loop's attempts (countingLlmCall). *)
UndercountBounded ==
    /\ counted <= Cardinality(Sent)
    /\ Cardinality(Sent) <= Attempts * counted

(* The text enrichEvent goes on with is the answer its last attempt is waiting
   for: late answers to earlier requests are ignored. *)
AnswerIsCurrent ==
    outer.outcome = "answered" =>
        LET last == inner[outer.attempt]
        IN  /\ last.outcome = "answered"
            /\ req[outer.attempt][last.attempt] = "settled"
            /\ counted = outer.attempt

(* The prompt settles even if DeepSeek never answers. *)
PromptSettles == outer.outcome = "pending" ~> outer.outcome \in {"answered", "failed"}

(* server.js says of the counter that it counts every actual call made. *)
CountsEveryCall == counted = Cardinality(Sent)
===============================================================================
