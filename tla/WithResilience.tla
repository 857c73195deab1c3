---------------------------- MODULE WithResilience ----------------------------
(***************************************************************************)
(* What one call of withResilience (lib/llm/withResilience.js) promises,   *)
(* whatever it wraps and whoever waits for it: a bounded number of         *)
(* attempts one after another, each given up after the timeout, and an     *)
(* outcome that is final.                                                  *)
(***************************************************************************)
EXTENDS Naturals

CONSTANTS
    Attempts,  \* retries + 1
    Timeout,   \* timeoutMs, in ticks
    Latest     \* the call is made by this time

VARIABLES now, loop

Awaiting(k) == [attempt |-> k, due |-> now + Timeout, outcome |-> "pending"]

Init == now = 0 /\ loop = [attempt |-> 0, due |-> 0, outcome |-> "unstarted"]

Pending == loop.outcome = "pending"

Call == /\ loop.outcome = "unstarted" /\ now <= Latest
        /\ loop' = Awaiting(1)
        /\ UNCHANGED now

(* The awaited promise resolves. *)
Resolve == /\ Pending
           /\ loop' = [loop EXCEPT !.outcome = "answered"]
           /\ UNCHANGED now

(* It rejects or times out: the next attempt, or the last error is thrown. *)
Retry == /\ Pending /\ loop.attempt < Attempts
         /\ loop' = Awaiting(loop.attempt + 1)
         /\ UNCHANGED now

Throw == /\ Pending /\ loop.attempt = Attempts
         /\ loop' = [loop EXCEPT !.outcome = "failed"]
         /\ UNCHANGED now

(* The timer is never late: the event loop is not kept busy. *)
Tick == /\ Pending => now < loop.due
        /\ now' = now + 1
        /\ UNCHANGED loop

Next == Call \/ Resolve \/ Retry \/ Throw \/ Tick

Spec == Init /\ [][Next]_<<now, loop>>

===============================================================================
