---------------------------- MODULE WeightedCap ----------------------------
(***************************************************************************)
(* What a shared capacity scope promises: a weighted semaphore that never  *)
(* waits.  An admission takes its weight at once if it fits, and is        *)
(* refused at a moment when it does not; a release gives it back.          *)
(***************************************************************************)
EXTENDS Integers

CONSTANTS
    Threads,  \* who asks
    Scopes,   \* independent caps
    Cap,      \* the cap of each scope
    Weights   \* the weights an admission may ask for

VARIABLES
    used,     \* weight admitted in each scope
    refusals  \* how often each scope said Full

Init ==
    /\ used = [s \in Scopes |-> 0]
    /\ refusals = [s \in Scopes |-> 0]

Admit(s, w) ==
    /\ used[s] + w <= Cap[s]
    /\ used' = [used EXCEPT ![s] = @ + w]
    /\ UNCHANGED refusals

Refuse(s, w) ==
    /\ used[s] + w > Cap[s]
    /\ refusals' = [refusals EXCEPT ![s] = @ + 1]
    /\ UNCHANGED used

Release(s, w) ==
    /\ used[s] >= w
    /\ used' = [used EXCEPT ![s] = @ - w]
    /\ UNCHANGED refusals

Next == \E s \in Scopes, w \in Weights : Admit(s, w) \/ Refuse(s, w) \/ Release(s, w)

Spec == Init /\ [][Next]_<<used, refusals>>
=============================================================================
