------------------------------ MODULE Permits ------------------------------
(***************************************************************************)
(* In-flight permits (tina-runtime, local_permit.rs and the                *)
(* ConcurrencyLimit of admission.rs).  A gate counts the permits it issued *)
(* and not got back; a limit adds the gate's identity to its permits,      *)
(* charges a shared scope along with the gate, and may be closed.  Permits *)
(* travel in messages, so a handler can show one to the wrong gate, drop   *)
(* it, or bring it back after the gate was reset.                          *)
(***************************************************************************)
EXTENDS Integers, FiniteSets

CONSTANTS
    Gates,
    GateCapacity,  \* of each gate
    ScopeMax,      \* the shared scope the limits are bound to
    Weight,        \* what one admission charges there
    MaxIds,        \* bound: permits issued by a service of each kind
    MaxGeneration  \* bound: resets of a gate

\* What the code asks of the constants.
PermitAssumption == /\ GateCapacity \in Nat \ {0}
                    /\ ScopeMax \in Nat /\ Weight \in Nat
                    /\ MaxIds \in [{"gates", "limits"} -> Nat]
                    /\ MaxGeneration \in Nat

VARIABLES
    service,     \* does the service keep gates as they are, or limits
    current,     \* LocalPermitGate::current
    generation,  \* LocalPermitGate::generation
    limitClosed, \* ConcurrencyLimit::closed
    scope,       \* weight charged to the shared scope
    permits,     \* permits in somebody's hands
    lost,        \* permits dropped without release or retire
    issued       \* ghost: permits issued in all

permitVars == <<service, current, generation, limitClosed, scope, permits, lost, issued>>

Permit == [id : Nat, gate : Gates, generation : Nat]

PermitInit ==
    /\ service \in {"gates", "limits"}
    /\ current = [g \in Gates |-> 0]
    /\ generation = [g \in Gates |-> 0]
    /\ limitClosed = [g \in Gates |-> FALSE]
    /\ scope = 0
    /\ permits = {}
    /\ lost = {}
    /\ issued = 0

-----------------------------------------------------------------------------
(* LocalPermitGate.                                                        *)

GateFull(g) == current[g] >= GateCapacity

\* try_admit charges the gate and stamps the permit with its generation.
Issue(g) ==
    /\ issued < MaxIds[service]
    /\ issued' = issued + 1
    /\ current' = [current EXCEPT ![g] = @ + 1]
    /\ permits' = permits \cup {[id |-> issued + 1, gate |-> g, generation |-> generation[g]]}

Saturating(n) == IF n < 0 THEN 0 ELSE n

\* Mutant: a permit of an earlier generation is credited.
TakeBackAnyGeneration(g, p) == current' = [current EXCEPT ![g] = Saturating(@ - 1)]

\* release and retire consume the permit; only its generation is compared.
TakeBack(g, p) ==
    current' = IF p.generation = generation[g]
               THEN [current EXCEPT ![g] = Saturating(@ - 1)] ELSE current

GateAdmit(g) ==
    /\ ~GateFull(g)
    /\ Issue(g)
    /\ UNCHANGED <<generation, limitClosed, scope, lost>>

GateRelease(g, p) ==
    /\ TakeBack(g, p)
    /\ permits' = permits \ {p}
    /\ UNCHANGED <<generation, limitClosed, scope, lost, issued>>

GateDrop(p) ==
    /\ permits' = permits \ {p}
    /\ lost' = lost \cup {p}
    /\ UNCHANGED <<current, generation, limitClosed, scope, issued>>

\* reset: the outstanding permits are disowned.
GateReset(g) ==
    /\ generation[g] < MaxGeneration
    /\ generation' = [generation EXCEPT ![g] = @ + 1]
    /\ current' = [current EXCEPT ![g] = 0]
    /\ UNCHANGED <<limitClosed, scope, permits, lost, issued>>

GateNext ==
    \/ \E g \in Gates : GateAdmit(g) \/ GateReset(g)
    \/ \E g \in Gates, p \in permits : GateRelease(g, p)
    \/ \E p \in permits : GateDrop(p)

\* Services that use gates as they are.
GateSpec == PermitInit /\ [][GateNext /\ UNCHANGED service]_permitVars

\* Services that bring each permit back to the gate it came from.
OwnGateNext ==
    \/ \E g \in Gates : GateAdmit(g) \/ GateReset(g)
    \/ \E p \in permits : GateRelease(p.gate, p) \/ GateDrop(p)

-----------------------------------------------------------------------------
(* ConcurrencyLimit.                                                       *)

\* The gate admitted and the scope has no room: the local permit is retired.
ScopeRefuses(g) ==
    /\ scope + Weight > ScopeMax
    /\ issued < MaxIds[service]
    /\ issued' = issued + 1
    /\ UNCHANGED <<current, scope, permits>>

ScopeCharges(g) ==
    /\ scope + Weight <= ScopeMax
    /\ scope' = scope + Weight
    /\ Issue(g)

\* try_admit: closed, then the gate, then the scope.  A limit may be
\* configured to close itself on a refusal.
LimitAdmit(g) ==
    /\ ~limitClosed[g]
    /\ ~GateFull(g)
    /\ \/ ScopeCharges(g) /\ UNCHANGED limitClosed
       \/ ScopeRefuses(g) /\ limitClosed' \in {limitClosed, [limitClosed EXCEPT ![g] = TRUE]}
    /\ UNCHANGED <<generation, lost>>

\* refuse on a full gate, and close.
LimitClose(g) ==
    /\ ~limitClosed[g]
    /\ limitClosed' = [limitClosed EXCEPT ![g] = TRUE]
    /\ UNCHANGED <<current, generation, scope, permits, lost, issued>>

\* consume: WrongGate hands the permit back untouched; otherwise the lease is
\* dropped first and then the gate takes its permit.
Consume(g, p) ==
    /\ p.gate = g
    /\ TakeBack(g, p)
    /\ scope' = scope - Weight
    /\ permits' = permits \ {p}
    /\ UNCHANGED <<generation, limitClosed, lost, issued>>

\* A dropped permit gives its lease back and leaves the gate charged.
LimitDrop(p) ==
    /\ permits' = permits \ {p}
    /\ lost' = lost \cup {p}
    /\ scope' = scope - Weight
    /\ UNCHANGED <<current, generation, limitClosed, issued>>

LimitNext ==
    \/ \E g \in Gates : LimitAdmit(g) \/ LimitClose(g)
    \/ \E g \in Gates, p \in permits : Consume(g, p)
    \/ \E p \in permits : LimitDrop(p)

PermitNext ==
    /\ \/ service = "gates" /\ OwnGateNext
       \/ service = "limits" /\ LimitNext
    /\ UNCHANGED service

PermitSpec == PermitInit /\ [][PermitNext]_permitVars

-----------------------------------------------------------------------------
(* Properties.                                                             *)

\* Type correctness.
PermitTypeOK ==
    /\ service \in {"gates", "limits"}
    /\ current \in [Gates -> Nat]
    /\ generation \in [Gates -> 0 .. MaxGeneration]
    /\ limitClosed \in [Gates -> BOOLEAN]
    /\ scope \in Nat
    /\ permits \subseteq Permit /\ lost \subseteq Permit
    /\ issued \in 0 .. MaxIds[service]

Outstanding(g) == {p \in permits \cup lost : p.gate = g /\ p.generation = generation[g]}

\* A gate is charged for the permits of its present generation that are still
\* out, the dropped ones for good, and never for more than its capacity: no
\* sequence of releases, drops and resets frees a place that is taken.
GateExact ==
    \A g \in Gates : current[g] = Cardinality(Outstanding(g)) /\ current[g] <= GateCapacity

\* The shared scope is charged for exactly the permits in somebody's hands, over
\* all limits, and never beyond its maximum: a refused admission, a release and
\* a drop each give the scope back what the permit held.  A release gives the
\* gate its place back too; a drop does not (GateExact counts it among the lost).
ScopeExact ==
    /\ scope = (IF service = "limits" THEN Weight * Cardinality(permits) ELSE 0)
    /\ scope <= ScopeMax

\* What LocalPermitReleaseError promises: a permit that "was issued by a
\* different gate" leaves `current' alone.
ForeignPermitRejected ==
    [][\A g \in Gates : current'[g] = current[g] - 1 =>
          \E p \in permits \ permits' : p.gate = g]_permitVars

\* What ConcurrencyLimit::with_shared_scope promises of a permit, "releasing or
\* dropping it releases both": a limit's gate is charged for the permits in
\* somebody's hands only.
DropReleasesBoth ==
    service = "limits" =>
        \A g \in Gates : current[g] = Cardinality({p \in permits : p.gate = g})

\* Gates and the shared scope are charged for what is out, and for nothing else.
ChargesExact == PermitTypeOK /\ GateExact /\ ScopeExact
=============================================================================
