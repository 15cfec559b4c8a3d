-------------------------- MODULE SharedScopeProof --------------------------
(***************************************************************************)
(* The lock-free capacity scopes, for any number of threads, scopes and    *)
(* charges: ScopeSound is inductive, and every step of the loops of        *)
(* try_admit and SharedLease::drop is a step of WeightedCap or none.       *)
(*                                                                         *)
(* The counter is compared with the number of units of weight that are     *)
(* charged, a cardinality: a compare-exchange that succeeds adds or takes  *)
(* away the units of one charge, which AllOrNothing shows to be new, or to *)
(* be there.  The statistics are counted after the exchange, so the same   *)
(* argument is made a second time for the charges that are in them.        *)
(***************************************************************************)
EXTENDS SharedScope, FiniteSetTheorems, WellFoundedInduction, TLAPS

\* Min returns a member of its set.
LEMMA MinIn ==
    ASSUME NEW S \in SUBSET Nat, S # {}
    PROVE  Min(S) \in S
  <1>1. PICK x \in S : \A y \in S : ~ (<<y, x>> \in OpToRel(<, Nat))
    BY WFMin, NatLessThanWellFounded, Zenon
  <1>2. \A y \in Nat : y < x => <<y, x>> \in OpToRel(<, Nat)
    BY Zenon DEF OpToRel
  <1>3. \A y \in S : ~ (y < x)
    BY <1>1, <1>2
  <1>4. \A y \in S : x <= y
    BY <1>3
  <1>5. QED
    BY <1>4 DEF Min

\* The larger of two numbers.
LEMMA MaxOfTwo ==
    ASSUME NEW a \in Nat, NEW b \in Nat
    PROVE  Max({a, b}) \in {a, b} /\ a <= Max({a, b}) /\ b <= Max({a, b})
  <1>1. \E x \in {a, b} : \A y \in {a, b} : x >= y
    OBVIOUS
  <1>2. QED
    BY <1>1 DEF Max

\* What a thread charges next is a weight of one of the scopes.
LEMMA ChargeTyped ==
    ASSUME ScopeAssumption, TypeOK, NEW t \in Threads
    PROVE  /\ ScopeOf(t) \in Scopes /\ WeightOf(t) \in Nat /\ WeightOf(t) > 0
           /\ Cap[ScopeOf(t)] \in Nat /\ Len(Charges[t]) \in Nat /\ Len(Charges[t]) > 0
  <1>1. Charges[t] \in Seq([scope : Scopes, weight : Nat \ {0}]) /\ Charges[t] # <<>>
    BY DEF ScopeAssumption
  <1>2. at[t] \in 1 .. Len(Charges[t])
    BY DEF TypeOK
  <1> DEFINE R == [scope : Scopes, weight : Nat \ {0}]
  <1> HIDE DEF R
  <1>6. Charges[t] \in Seq(R)
    BY <1>1 DEF R
  <1>7. Charges[t][at[t]] \in R /\ Len(Charges[t]) \in Nat
    BY <1>2, <1>6
  <1>8. Len(Charges[t]) > 0
    BY <1>2, <1>7
  <1>3. Charges[t][at[t]] \in [scope : Scopes, weight : Nat \ {0}]
    BY <1>7 DEF R
  <1>4. Cap[ScopeOf(t)] \in Nat
    BY <1>3 DEF ScopeOf, ScopeAssumption
  <1>5. QED
    BY <1>3, <1>4, <1>7, <1>8 DEF ScopeOf, WeightOf

-----------------------------------------------------------------------------
(* Units of weight.                                                        *)

\* One more charge adds its weight.
LEMMA UnitsAdd ==
    ASSUME NEW C, NEW tk, tk \notin C, IsFiniteSet(Units(C)),
           Charges[tk[1]][tk[2]].weight \in Nat
    PROVE  /\ IsFiniteSet(Units(C \cup {tk}))
           /\ Cardinality(Units(C \cup {tk})) = Cardinality(Units(C)) + Charges[tk[1]][tk[2]].weight
  <1> DEFINE w == Charges[tk[1]][tk[2]].weight
             U == {tk} \X (1 .. w)
  <1>0. w \in Nat
    OBVIOUS
  <1>1. Units(C \cup {tk}) = Units(C) \cup U
    BY DEF Units
  <1>5. Units(C) \cap U = {}
    BY DEF Units
  <1>2. IsFiniteSet({tk}) /\ Cardinality({tk}) = 1
    BY FS_Singleton
  <1> HIDE DEF w
  <1>3. IsFiniteSet(1 .. w) /\ Cardinality(1 .. w) = w
    <2>1. 1 \in Int /\ w \in Int
      BY <1>0
    <2>2. /\ IsFiniteSet(1 .. w)
          /\ Cardinality(1 .. w) = IF 1 > w THEN 0 ELSE w - 1 + 1
      BY <2>1, FS_Interval, Zenon
    <2>3. QED
      BY <1>0, <2>2
  <1>4. IsFiniteSet(U) /\ Cardinality(U) = w
    <2>1. IsFiniteSet(U) /\ Cardinality(U) = Cardinality({tk}) * Cardinality(1 .. w)
      BY <1>2, <1>3, FS_Product, Zenon
    <2>2. QED
      BY <1>0, <1>2, <1>3, <2>1
  <1> HIDE DEF U
  <1>6. /\ IsFiniteSet(Units(C) \cup U)
        /\ Cardinality(Units(C) \cup U) = Cardinality(Units(C)) + Cardinality(U) - Cardinality(Units(C) \cap U)
    BY <1>4, FS_Union
  <1>7. Cardinality(Units(C) \cap U) = 0
    BY <1>5, FS_EmptySet
  <1>8. Cardinality(Units(C)) \in Nat
    BY FS_CardinalityType
  <1>9. QED
    <2>1. Cardinality(Units(C) \cup U) = Cardinality(Units(C)) + w
      BY <1>0, <1>4, <1>6, <1>7, <1>8
    <2>2. QED
      BY <1>1, <1>6, <2>1 DEF w

\* One charge less takes its weight away, and the weight was there.
LEMMA UnitsRemove ==
    ASSUME NEW C, NEW tk \in C, IsFiniteSet(Units(C)), Charges[tk[1]][tk[2]].weight \in Nat
    PROVE  /\ IsFiniteSet(Units(C \ {tk})) /\ Cardinality(Units(C \ {tk})) \in Nat
           /\ Cardinality(Units(C)) = Cardinality(Units(C \ {tk})) + Charges[tk[1]][tk[2]].weight
  <1>1. Units(C \ {tk}) \subseteq Units(C)
    BY DEF Units
  <1>2. IsFiniteSet(Units(C \ {tk}))
    BY <1>1, FS_Subset
  <1>3. tk \notin C \ {tk} /\ (C \ {tk}) \cup {tk} = C
    OBVIOUS
  <1>4. QED
    BY <1>2, <1>3, UnitsAdd, FS_CardinalityType

-----------------------------------------------------------------------------
(* Types, and the order in which a thread takes its leases.                *)

\* Every step keeps the types.
LEMMA TypeKept ==
    ASSUME ScopeAssumption, TypeOK, AllOrNothing, [Next]_vars
    PROVE  TypeOK'
  <1>1. ASSUME NEW t \in Threads, Reserve(t) PROVE TypeOK'
    <2>0. ScopeOf(t) \in Scopes /\ WeightOf(t) \in Nat /\ Len(Charges[t]) \in Nat /\ Len(Charges[t]) > 0
      BY <1>1, ChargeTyped
    <2>1. rounds[t] + 1 \in 0 .. MaxRounds
      BY <1>1 DEF Reserve, TypeOK, ScopeAssumption
    <2>2. 1 \in 1 .. Len(Charges[t])
      BY <2>0
    <2>3. QED
      BY <1>1, <2>1, <2>2 DEF Reserve, TypeOK, Places, Goto
  <1>2. ASSUME NEW t \in Threads, Drop(t) PROVE TypeOK'
    <2>1. Min(leases[t]) \in leases[t]
      BY <1>2, MinIn, ChargeTyped DEF Drop, TypeOK, AllOrNothing
    <2>2. QED
      BY <1>2, <2>1 DEF Drop, TypeOK, Places, Goto
  <1>3. ASSUME NEW t \in Threads, Load(t) PROVE TypeOK'
    BY <1>3, ChargeTyped DEF Load, TypeOK, Places, Goto, Sees
  <1>4. ASSUME NEW t \in Threads, ObserveFull(t) PROVE TypeOK'
    <2>1. leases[t] # {} => Min(leases[t]) \in leases[t]
      BY <1>4, MinIn DEF TypeOK
    <2>0. ScopeOf(t) \in Scopes /\ WeightOf(t) \in Nat /\ Len(Charges[t]) \in Nat /\ Len(Charges[t]) > 0
      BY <1>4, ChargeTyped
    <2>2. current[ScopeOf(t)] \in Nat /\ fullCount[ScopeOf(t)] + 1 \in Nat
      BY <1>4, <2>0 DEF TypeOK
    <2>3. /\ pc' \in [Threads -> Places]
          /\ leases' = leases /\ at' \in [Threads -> Nat]
          /\ \A u \in Threads : at'[u] \in 1 .. Len(Charges[u])
      <3>1. /\ leases' = leases
            /\ \/ at' = at
               \/ leases[t] # {} /\ at' = [at EXCEPT ![t] = Min(leases[t])]
        BY <1>4 DEF ObserveFull, RollBack
      <3>4. /\ at \in [Threads -> Nat] /\ leases[t] \subseteq Nat /\ leases[t] \subseteq 1 .. Len(Charges[t])
            /\ \A u \in Threads : at[u] \in 1 .. Len(Charges[u])
        BY <1>4 DEF TypeOK
      <3>2. pc' \in [Threads -> Places]
        BY <1>4 DEF ObserveFull, RollBack, TypeOK, Goto, Places
      <3>3. QED
        BY <1>4, <2>1, <3>1, <3>2, <3>4
    <2>4. cur' \in [Threads -> Nat] /\ fullCount' \in [Scopes -> Nat]
      BY <1>4, <2>0, <2>2 DEF ObserveFull, TypeOK, Sees
    <2>5. QED
      BY <1>4, <2>3, <2>4 DEF ObserveFull, TypeOK
  <1>5. ASSUME NEW t \in Threads, Admit(t) PROVE TypeOK'
    <2>0. ScopeOf(t) \in Scopes /\ WeightOf(t) \in Nat /\ Len(Charges[t]) \in Nat /\ Len(Charges[t]) > 0
      BY <1>5, ChargeTyped
    <2>1. cur[t] + WeightOf(t) \in Nat
      BY <1>5, <2>0 DEF TypeOK
    <2>4. peak[ScopeOf(t)] \in Nat
      BY <1>5, <2>0 DEF TypeOK
    <2>2. Max({peak[ScopeOf(t)], cur[t] + WeightOf(t)}) \in Nat
      BY <2>1, <2>4, MaxOfTwo
    <2>3. QED
      BY <1>5, <2>1, <2>2 DEF Admit, Charge, TypeOK, Places, Goto
  <1>6. ASSUME NEW t \in Threads, AdmitMissed(t) PROVE TypeOK'
    BY <1>6, ChargeTyped DEF AdmitMissed, TypeOK, Places, Goto, Sees
  <1>7. ASSUME NEW t \in Threads, BumpLoad(t) PROVE TypeOK'
    BY <1>7, ChargeTyped DEF BumpLoad, TypeOK, Places, Goto, Sees
  <1>8. ASSUME NEW t \in Threads, Bump(t) PROVE TypeOK'
    <2>0. ScopeOf(t) \in Scopes /\ WeightOf(t) \in Nat /\ Len(Charges[t]) \in Nat /\ Len(Charges[t]) > 0
      BY <1>8, ChargeTyped
    <2>1. at[t] < Len(Charges[t]) => at[t] + 1 \in 1 .. Len(Charges[t])
      BY <1>8, <2>0 DEF TypeOK
    <2>2. leases[t] \cup {at[t]} \subseteq 1 .. Len(Charges[t])
      BY <1>8 DEF TypeOK
    <2>7. at' \in [Threads -> Nat] /\ \A u \in Threads : at'[u] \in 1 .. Len(Charges[u])
      <3>1. \/ at' = at
            \/ at[t] < Len(Charges[t]) /\ at' = [at EXCEPT ![t] = at[t] + 1]
        BY <1>8 DEF Bump, Granted
      <3>2. at[t] \in Nat /\ at \in [Threads -> Nat] /\ \A u \in Threads : at[u] \in 1 .. Len(Charges[u])
        BY <1>8 DEF TypeOK
      <3>3. QED
        BY <1>8, <2>1, <3>1, <3>2
    <2>8. /\ leases' \in [Threads -> SUBSET Nat]
          /\ \A u \in Threads : leases'[u] \subseteq 1 .. Len(Charges[u])
      BY <1>8, <2>2 DEF Bump, Granted, TypeOK
    <2>3. /\ at' \in [Threads -> Nat] /\ leases' \in [Threads -> SUBSET Nat]
          /\ \A u \in Threads : at'[u] \in 1 .. Len(Charges[u]) /\ leases'[u] \subseteq 1 .. Len(Charges[u])
      BY <2>7, <2>8
    <2>4. highWater' \in [Scopes -> Nat]
      BY <1>8, <2>0 DEF Bump, TypeOK
    <2>5. pc' \in [Threads -> Places]
      BY <1>8 DEF Bump, Granted, TypeOK, Goto, Places
    <2>6. QED
      BY <1>8, <2>3, <2>4, <2>5 DEF Bump, TypeOK
  <1>9. ASSUME NEW t \in Threads, BumpMissed(t) PROVE TypeOK'
    BY <1>9, ChargeTyped DEF BumpMissed, TypeOK, Places, Goto, Sees
  <1>10. ASSUME NEW t \in Threads, DropLoad(t) PROVE TypeOK'
    BY <1>10, ChargeTyped DEF DropLoad, TypeOK, Places, Goto, Sees
  <1>11. ASSUME NEW t \in Threads, Release(t) PROVE TypeOK'
    <2>0. ScopeOf(t) \in Scopes /\ WeightOf(t) \in Nat
      BY <1>11, ChargeTyped
    <2>1. Saturating(cur[t] - WeightOf(t)) \in Nat
      BY <1>11, <2>0 DEF TypeOK, Saturating
    <2>2. QED
      BY <1>11, <2>0, <2>1 DEF Release, TypeOK, Places, Goto
  <1>12. ASSUME NEW t \in Threads, ReleaseMissed(t) PROVE TypeOK'
    BY <1>12, ChargeTyped DEF ReleaseMissed, TypeOK, Places, Goto, Sees
  <1>13. CASE UNCHANGED vars
    BY <1>13 DEF vars, TypeOK
  <1>14. ASSUME NEW t \in Threads, CountIn(t) PROVE TypeOK'
    <2>0. ScopeOf(t) \in Scopes /\ WeightOf(t) \in Nat
      BY <1>14, ChargeTyped
    <2>1. admitted[ScopeOf(t)] + WeightOf(t) \in Nat
      BY <1>14, <2>0 DEF TypeOK
    <2>2. QED
      BY <1>14, <2>0, <2>1 DEF CountIn, TypeOK, Places, Goto
  <1>15. ASSUME NEW t \in Threads, CountOut(t) PROVE TypeOK'
    <2>0. ScopeOf(t) \in Scopes /\ WeightOf(t) \in Nat
      BY <1>15, ChargeTyped
    <2>1. leases[t] # {} => Min(leases[t]) \in leases[t]
      BY <1>15, MinIn DEF TypeOK
    <2>2. released[ScopeOf(t)] + WeightOf(t) \in Nat
      BY <1>15, <2>0 DEF TypeOK
    <2>3. /\ leases' = leases
          /\ \/ at' = at
             \/ leases[t] # {} /\ at' = [at EXCEPT ![t] = Min(leases[t])]
      BY <1>15 DEF CountOut, RollBack
    <2>4. /\ at \in [Threads -> Nat] /\ leases[t] \subseteq Nat /\ leases[t] \subseteq 1 .. Len(Charges[t])
          /\ \A u \in Threads : at[u] \in 1 .. Len(Charges[u])
      BY <1>15 DEF TypeOK
    <2>5. at' \in [Threads -> Nat] /\ \A u \in Threads : at'[u] \in 1 .. Len(Charges[u])
      BY <1>15, <2>1, <2>3, <2>4
    <2>6. pc' \in [Threads -> Places]
      BY <1>15 DEF CountOut, RollBack, TypeOK, Places, Goto
    <2>7. QED
      BY <1>15, <2>0, <2>2, <2>3, <2>5, <2>6 DEF CountOut, TypeOK
  <1>16. QED
    BY <1>1, <1>2, <1>3, <1>4, <1>5, <1>6, <1>7, <1>8, <1>9, <1>10, <1>11, <1>12, <1>13,
       <1>14, <1>15 DEF Next

\* Every step keeps AllOrNothing.
LEMMA AllOrNothingKept ==
    ASSUME ScopeAssumption, TypeOK, AllOrNothing, [Next]_vars
    PROVE  AllOrNothing'
  <1>1. ASSUME NEW t \in Threads, Reserve(t) PROVE AllOrNothing'
    BY <1>1 DEF Reserve, TypeOK, AllOrNothing, Goto, Sees
  <1>2. ASSUME NEW t \in Threads, Drop(t) PROVE AllOrNothing'
    <2>0. ScopeOf(t) \in Scopes /\ WeightOf(t) \in Nat /\ Len(Charges[t]) \in Nat /\ Len(Charges[t]) > 0
      BY <1>2, ChargeTyped
    <2>1. Min(leases[t]) \in leases[t]
      BY <1>2, <2>0, MinIn DEF Drop, TypeOK, AllOrNothing
    <2>2. QED
      BY <1>2, <2>1 DEF Drop, TypeOK, AllOrNothing, Goto
  <1>3. ASSUME NEW t \in Threads, Load(t) PROVE AllOrNothing'
    BY <1>3 DEF Load, TypeOK, AllOrNothing, Goto, Sees
  <1>4. ASSUME NEW t \in Threads, ObserveFull(t) PROVE AllOrNothing'
    <2>1. leases[t] # {} => Min(leases[t]) \in leases[t]
      BY <1>4, MinIn DEF TypeOK
    <2>2. QED
      BY <1>4, <2>1 DEF ObserveFull, RollBack, TypeOK, AllOrNothing, Goto
  <1>5. ASSUME NEW t \in Threads, Admit(t) PROVE AllOrNothing'
    BY <1>5 DEF Admit, Charge, TypeOK, AllOrNothing, Goto
  <1>6. ASSUME NEW t \in Threads, AdmitMissed(t) PROVE AllOrNothing'
    BY <1>6 DEF AdmitMissed, TypeOK, AllOrNothing, Goto, Sees
  <1>7. ASSUME NEW t \in Threads, BumpLoad(t) PROVE AllOrNothing'
    BY <1>7 DEF BumpLoad, TypeOK, AllOrNothing, Goto, Sees
  <1>8. ASSUME NEW t \in Threads, Bump(t) PROVE AllOrNothing'
    <2>1. leases[t] = 1 .. (at[t] - 1) /\ at[t] \in 1 .. Len(Charges[t]) /\ Len(Charges[t]) \in Nat
      BY <1>8, ChargeTyped DEF Bump, TypeOK, AllOrNothing
    <2>2. leases'[t] = 1 .. at[t]
      BY <1>8, <2>1 DEF Bump, Granted, TypeOK
    <2>3. \A u \in Threads \ {t} : pc'[u] = pc[u] /\ at'[u] = at[u] /\ leases'[u] = leases[u]
      BY <1>8 DEF Bump, Granted, TypeOK, Goto
    <2>4. \/ pc'[t] = "load" /\ at'[t] = at[t] + 1
          \/ pc'[t] = "held" /\ at[t] = Len(Charges[t])
      BY <1>8, <2>1 DEF Bump, Granted, TypeOK, Goto
    <2>5. \/ leases'[t] = 1 .. (at'[t] - 1) /\ pc'[t] = "load"
          \/ leases'[t] = 1 .. Len(Charges[t]) /\ pc'[t] = "held"
      BY <2>1, <2>2, <2>4
    <2>6. QED
      BY <2>3, <2>5 DEF AllOrNothing
  <1>9. ASSUME NEW t \in Threads, BumpMissed(t) PROVE AllOrNothing'
    BY <1>9 DEF BumpMissed, TypeOK, AllOrNothing, Goto, Sees
  <1>10. ASSUME NEW t \in Threads, DropLoad(t) PROVE AllOrNothing'
    BY <1>10 DEF DropLoad, TypeOK, AllOrNothing, Goto, Sees
  <1>11. ASSUME NEW t \in Threads, Release(t) PROVE AllOrNothing'
    BY <1>11 DEF Release, TypeOK, AllOrNothing, Goto
  <1>12. ASSUME NEW t \in Threads, ReleaseMissed(t) PROVE AllOrNothing'
    BY <1>12 DEF ReleaseMissed, TypeOK, AllOrNothing, Goto, Sees
  <1>13. CASE UNCHANGED vars
    BY <1>13 DEF vars, AllOrNothing
  <1>14. ASSUME NEW t \in Threads, CountIn(t) PROVE AllOrNothing'
    BY <1>14 DEF CountIn, TypeOK, AllOrNothing, Goto
  <1>15. ASSUME NEW t \in Threads, CountOut(t) PROVE AllOrNothing'
    <2>1. leases[t] # {} => Min(leases[t]) \in leases[t]
      BY <1>15, MinIn DEF TypeOK
    <2>2. /\ leases' = leases /\ \A u \in Threads \ {t} : pc'[u] = pc[u] /\ at'[u] = at[u]
          /\ \/ pc'[t] = "idle" /\ leases[t] = {}
             \/ pc'[t] = "dropLoad" /\ leases[t] # {} /\ at'[t] = Min(leases[t])
      BY <1>15 DEF CountOut, RollBack, TypeOK, Goto
    <2>3. \/ pc'[t] = "idle" /\ leases'[t] = {}
          \/ pc'[t] = "dropLoad" /\ at'[t] \in leases'[t]
      BY <2>1, <2>2
    <2>4. QED
      BY <2>2, <2>3 DEF AllOrNothing
  <1>16. QED
    BY <1>1, <1>2, <1>3, <1>4, <1>5, <1>6, <1>7, <1>8, <1>9, <1>10, <1>11, <1>12, <1>13,
       <1>14, <1>15 DEF Next

-----------------------------------------------------------------------------
(* The counters.                                                           *)

\* From F to G thread t gets charge k, or gives it back.
Gets(F, G, t, k) ==
    /\ t \in Threads /\ k \notin F[t] /\ G[t] = F[t] \cup {k}
    /\ \A u \in Threads \ {t} : G[u] = F[u]
Loses(F, G, t, k) ==
    /\ t \in Threads /\ k \in F[t] /\ G[t] = F[t] \ {k}
    /\ \A u \in Threads \ {t} : G[u] = F[u]

\* What that does to the charges of each scope.
LEMMA ChargedMoves ==
    ASSUME NEW F, NEW G, NEW t, NEW k, NEW s
    PROVE  /\ Gets(F, G, t, k) =>
                 /\ <<t, k>> \notin To(s, F)
                 /\ To(s, G) = IF Charges[t][k].scope = s THEN To(s, F) \cup {<<t, k>>} ELSE To(s, F)
           /\ Loses(F, G, t, k) =>
                 /\ Charges[t][k].scope = s => <<t, k>> \in To(s, F)
                 /\ To(s, G) = IF Charges[t][k].scope = s THEN To(s, F) \ {<<t, k>>} ELSE To(s, F)
  <1>1. \A tk : tk \in To(s, F) <=>
           \E u \in Threads : \E n \in F[u] : Charges[u][n].scope = s /\ tk = <<u, n>>
    BY DEF To
  <1>2. \A tk : tk \in To(s, G) <=>
           \E u \in Threads : \E n \in G[u] : Charges[u][n].scope = s /\ tk = <<u, n>>
    BY DEF To
  <1>3. ASSUME Gets(F, G, t, k)
        PROVE  /\ <<t, k>> \notin To(s, F)
               /\ To(s, G) = IF Charges[t][k].scope = s THEN To(s, F) \cup {<<t, k>>} ELSE To(s, F)
    <2>1. <<t, k>> \notin To(s, F)
      BY <1>1, <1>3 DEF Gets
    <2>2. Charges[t][k].scope = s => To(s, G) = To(s, F) \cup {<<t, k>>}
      <3>1. ASSUME Charges[t][k].scope = s, NEW tk
            PROVE  tk \in To(s, G) <=> tk \in To(s, F) \cup {<<t, k>>}
        BY <1>1, <1>2, <1>3, <3>1 DEF Gets
      <3>2. QED
        BY <3>1
    <2>3. Charges[t][k].scope # s => To(s, G) = To(s, F)
      <3>1. ASSUME Charges[t][k].scope # s, NEW tk
            PROVE  tk \in To(s, G) <=> tk \in To(s, F)
        BY <1>1, <1>2, <1>3, <3>1 DEF Gets
      <3>2. QED
        BY <3>1
    <2>4. QED
      BY <2>1, <2>2, <2>3
  <1>4. ASSUME Loses(F, G, t, k)
        PROVE  /\ Charges[t][k].scope = s => <<t, k>> \in To(s, F)
               /\ To(s, G) = IF Charges[t][k].scope = s THEN To(s, F) \ {<<t, k>>} ELSE To(s, F)
    <2>1. Charges[t][k].scope = s => <<t, k>> \in To(s, F)
      BY <1>1, <1>4 DEF Loses
    <2>2. Charges[t][k].scope = s => To(s, G) = To(s, F) \ {<<t, k>>}
      <3>1. ASSUME Charges[t][k].scope = s, NEW tk
            PROVE  tk \in To(s, G) <=> tk \in To(s, F) \ {<<t, k>>}
        BY <1>1, <1>2, <1>4, <3>1 DEF Loses
      <3>2. QED
        BY <3>1
    <2>3. Charges[t][k].scope # s => To(s, G) = To(s, F)
      <3>1. ASSUME Charges[t][k].scope # s, NEW tk
            PROVE  tk \in To(s, G) <=> tk \in To(s, F)
        BY <1>1, <1>2, <1>4, <3>1 DEF Loses
      <3>2. QED
        BY <3>1
    <2>4. QED
      BY <2>1, <2>2, <2>3
  <1>5. QED
    BY <1>3, <1>4

\* The weight of charge k of thread t, as far as it is a charge to scope s.
Share(t, k, s) == IF Charges[t][k].scope = s THEN Charges[t][k].weight ELSE 0

\* And to their units: a charge more,
LEMMA UnitsGet ==
    ASSUME NEW F, NEW G, NEW t, NEW k, NEW s, Gets(F, G, t, k),
           IsFiniteSet(Units(To(s, F))), Charges[t][k].weight \in Nat
    PROVE  /\ IsFiniteSet(Units(To(s, G))) /\ Cardinality(Units(To(s, F))) \in Nat
           /\ Cardinality(Units(To(s, G))) = Cardinality(Units(To(s, F))) + Share(t, k, s)
  <1> DEFINE tk == <<t, k>>
  <1>1. Charges[tk[1]][tk[2]].weight = Charges[t][k].weight
    OBVIOUS
  <1>2. Cardinality(Units(To(s, F))) \in Nat
    BY FS_CardinalityType
  <1>3. /\ tk \notin To(s, F)
        /\ Charges[t][k].scope = s => To(s, G) = To(s, F) \cup {tk}
        /\ Charges[t][k].scope # s => To(s, G) = To(s, F)
    BY ChargedMoves
  <1> HIDE DEF tk
  <1>4. CASE Charges[t][k].scope # s
    <2>1. Share(t, k, s) = 0
      BY <1>4 DEF Share
    <2>2. QED
      BY <1>2, <1>3, <1>4, <2>1
  <1>5. CASE Charges[t][k].scope = s
    <2>1. Share(t, k, s) = Charges[t][k].weight
      BY <1>5 DEF Share
    <2>2. QED
      BY <1>1, <1>2, <1>3, <1>5, <2>1, UnitsAdd
  <1>6. QED
    BY <1>4, <1>5

\* or a charge less.
LEMMA UnitsLose ==
    ASSUME NEW F, NEW G, NEW t, NEW k, NEW s, Loses(F, G, t, k),
           IsFiniteSet(Units(To(s, F))), Charges[t][k].weight \in Nat
    PROVE  /\ IsFiniteSet(Units(To(s, G))) /\ Cardinality(Units(To(s, G))) \in Nat
           /\ Cardinality(Units(To(s, F))) = Cardinality(Units(To(s, G))) + Share(t, k, s)
  <1> DEFINE tk == <<t, k>>
  <1>1. Charges[tk[1]][tk[2]].weight = Charges[t][k].weight
    OBVIOUS
  <1>2. Cardinality(Units(To(s, F))) \in Nat
    BY FS_CardinalityType
  <1>3. /\ Charges[t][k].scope = s => tk \in To(s, F) /\ To(s, G) = To(s, F) \ {tk}
        /\ Charges[t][k].scope # s => To(s, G) = To(s, F)
    BY ChargedMoves
  <1> HIDE DEF tk
  <1>4. CASE Charges[t][k].scope # s
    <2>1. Share(t, k, s) = 0
      BY <1>4 DEF Share
    <2>2. QED
      BY <1>2, <1>3, <1>4, <2>1
  <1>5. CASE Charges[t][k].scope = s
    <2>1. Share(t, k, s) = Charges[t][k].weight
      BY <1>5 DEF Share
    <2>2. QED
      BY <1>1, <1>3, <1>5, <2>1, UnitsRemove
  <1>6. QED
    BY <1>4, <1>5

\* A compare-exchange on `current' that succeeds charges or releases what the
\* thread works on; no other step moves that counter or the charges.
CountStep ==
    \/ UNCHANGED <<current, Charged>>
    \/ \E t \in Threads :
          /\ Gets(Charged, Charged', t, at[t])
          /\ current[ScopeOf(t)] + WeightOf(t) <= Cap[ScopeOf(t)]
          /\ current' = [current EXCEPT ![ScopeOf(t)] = @ + WeightOf(t)]
    \/ \E t \in Threads :
          /\ Loses(Charged, Charged', t, at[t])
          /\ current' = [current EXCEPT ![ScopeOf(t)] = Saturating(@ - WeightOf(t))]

\* A fetch_add on the statistics counts a charge in or out; no other step moves
\* them or what is counted.
StatisticsStep ==
    \/ UNCHANGED <<admitted, released, Counted>>
    \/ \E t \in Threads :
          /\ Gets(Counted, Counted', t, at[t])
          /\ admitted' = [admitted EXCEPT ![ScopeOf(t)] = @ + WeightOf(t)]
          /\ UNCHANGED released
    \/ \E t \in Threads :
          /\ Loses(Counted, Counted', t, at[t])
          /\ released' = [released EXCEPT ![ScopeOf(t)] = @ + WeightOf(t)]
          /\ UNCHANGED admitted

\* Every step is one of each.
LEMMA CountMoves ==
    ASSUME ScopeAssumption, TypeOK, AllOrNothing, [Next]_vars
    PROVE  CountStep /\ StatisticsStep
  <1> USE DEF CountStep, StatisticsStep
  <1>1. ASSUME NEW t \in Threads, Reserve(t) PROVE CountStep /\ StatisticsStep
    BY <1>1 DEF Reserve, TypeOK, Charged, Counted, Bumping, Goto
  <1>2. ASSUME NEW t \in Threads, Drop(t) PROVE CountStep /\ StatisticsStep
    BY <1>2 DEF Drop, TypeOK, Charged, Counted, Bumping, Goto
  <1>3. ASSUME NEW t \in Threads, Load(t) PROVE CountStep /\ StatisticsStep
    BY <1>3 DEF Load, TypeOK, Charged, Counted, Bumping, Goto
  <1>4. ASSUME NEW t \in Threads, ObserveFull(t) PROVE CountStep /\ StatisticsStep
    BY <1>4 DEF ObserveFull, TypeOK, Charged, Counted, Bumping, Goto, RollBack
  <1>5. ASSUME NEW t \in Threads, Admit(t) PROVE CountStep /\ StatisticsStep
    <2>1. Gets(Charged, Charged', t, at[t])
      BY <1>5 DEF Admit, Charge, Goto, TypeOK, AllOrNothing, Charged, Bumping, Gets
    <2>2. UNCHANGED Counted
      BY <1>5 DEF Admit, Charge, Goto, TypeOK, Counted
    <2>3. QED
      BY <1>5, <2>1, <2>2 DEF Admit, Charge, Fits
  <1>6. ASSUME NEW t \in Threads, AdmitMissed(t) PROVE CountStep /\ StatisticsStep
    BY <1>6 DEF AdmitMissed, TypeOK, Charged, Counted, Bumping, Goto
  <1>7. ASSUME NEW t \in Threads, BumpLoad(t) PROVE CountStep /\ StatisticsStep
    BY <1>7 DEF BumpLoad, TypeOK, Charged, Counted, Bumping, Goto
  <1>8. ASSUME NEW t \in Threads, Bump(t) PROVE CountStep /\ StatisticsStep
    <2>1. /\ pc[t] = "bump" /\ leases'[t] = leases[t] \cup {at[t]} /\ pc'[t] \in {"load", "held"}
          /\ \A u \in Threads \ {t} : pc'[u] = pc[u] /\ at'[u] = at[u] /\ leases'[u] = leases[u]
      BY <1>8 DEF Bump, Granted, Goto, TypeOK
    <2>2. UNCHANGED <<Charged, Counted>>
      BY <2>1 DEF Charged, Counted, Bumping
    <2>3. QED
      BY <1>8, <2>2 DEF Bump
  <1>9. ASSUME NEW t \in Threads, BumpMissed(t) PROVE CountStep /\ StatisticsStep
    BY <1>9 DEF BumpMissed, TypeOK, Charged, Counted, Bumping, Goto
  <1>10. ASSUME NEW t \in Threads, DropLoad(t) PROVE CountStep /\ StatisticsStep
    BY <1>10 DEF DropLoad, TypeOK, Charged, Counted, Bumping, Goto
  <1>11. ASSUME NEW t \in Threads, Release(t) PROVE CountStep /\ StatisticsStep
    <2>1. /\ pc[t] = "drop" /\ at[t] \in leases[t] /\ leases'[t] = leases[t] \ {at[t]}
          /\ pc'[t] = "countOut" /\ at' = at
          /\ \A u \in Threads \ {t} : pc'[u] = pc[u] /\ leases'[u] = leases[u]
      BY <1>11 DEF Release, Goto, TypeOK, AllOrNothing
    <2>2. Loses(Charged, Charged', t, at[t])
      BY <1>11, <2>1 DEF Loses, Charged, Bumping
    <2>3. UNCHANGED Counted
      BY <2>1 DEF Counted
    <2>4. QED
      BY <1>11, <2>2, <2>3 DEF Release
  <1>12. ASSUME NEW t \in Threads, ReleaseMissed(t) PROVE CountStep /\ StatisticsStep
    BY <1>12 DEF ReleaseMissed, TypeOK, Charged, Counted, Bumping, Goto
  <1>13. CASE UNCHANGED vars
    BY <1>13 DEF vars, Charged, Counted, Bumping
  <1>14. ASSUME NEW t \in Threads, CountIn(t) PROVE CountStep /\ StatisticsStep
    <2>1. UNCHANGED Charged
      BY <1>14 DEF CountIn, Goto, TypeOK, Charged, Bumping
    <2>2. Gets(Counted, Counted', t, at[t])
      BY <1>14 DEF CountIn, Goto, TypeOK, AllOrNothing, Counted, Gets
    <2>3. QED
      BY <1>14, <2>1, <2>2 DEF CountIn
  <1>15. ASSUME NEW t \in Threads, CountOut(t) PROVE CountStep /\ StatisticsStep
    <2>1. /\ pc[t] = "countOut" /\ leases' = leases /\ pc'[t] \in {"idle", "dropLoad"}
          /\ \A u \in Threads \ {t} : pc'[u] = pc[u] /\ at'[u] = at[u]
      BY <1>15 DEF CountOut, RollBack, Goto, TypeOK
    <2>2. UNCHANGED Charged
      BY <2>1 DEF Charged, Bumping
    <2>3. at[t] \notin leases[t]
      BY <2>1 DEF AllOrNothing
    <2>4. Loses(Counted, Counted', t, at[t])
      BY <1>15, <2>1, <2>3 DEF Counted, Loses
    <2>5. QED
      BY <1>15, <2>2, <2>4 DEF CountOut
  <1>16. QED
    BY <1>1, <1>2, <1>3, <1>4, <1>5, <1>6, <1>7, <1>8, <1>9, <1>10, <1>11, <1>12, <1>13,
       <1>14, <1>15 DEF Next

\* The counter agrees with the charges after every step.
LEMMA ChargesExactKept ==
    ASSUME ScopeAssumption, TypeOK, ChargesExact, CountStep
    PROVE  ChargesExact'
  <1> DEFINE Exact(s, n, C) ==
                /\ IsFiniteSet(Units(To(s, C))) /\ n = Cardinality(Units(To(s, C))) /\ n <= Cap[s]
  <1> SUFFICES ASSUME NEW s \in Scopes
               PROVE  Exact(s, current'[s], Charged')
    BY DEF ChargesExact, Units, To
  <1>1. Exact(s, current[s], Charged)
    BY DEF ChargesExact
  <1>2. current \in [Scopes -> Nat] /\ current[s] \in Nat /\ Cap[s] \in Nat
    BY DEF TypeOK, ScopeAssumption
  <1>3. CASE UNCHANGED <<current, Charged>>
    BY <1>1, <1>3
  <1>4. ASSUME NEW t \in Threads, Gets(Charged, Charged', t, at[t]),
               current[ScopeOf(t)] + WeightOf(t) <= Cap[ScopeOf(t)],
               current' = [current EXCEPT ![ScopeOf(t)] = @ + WeightOf(t)]
        PROVE  Exact(s, current'[s], Charged')
    <2>1. WeightOf(t) \in Nat /\ Charges[t][at[t]].weight \in Nat
      BY <1>4, ChargeTyped DEF WeightOf
    <2>2. /\ IsFiniteSet(Units(To(s, Charged')))
          /\ Cardinality(Units(To(s, Charged'))) = Cardinality(Units(To(s, Charged))) + Share(t, at[t], s)
      BY <1>1, <1>4, <2>1, UnitsGet
    <2>3. current'[s] = current[s] + Share(t, at[t], s) /\ current'[s] <= Cap[s]
      BY <1>1, <1>2, <1>4, <2>1 DEF Share, ScopeOf, WeightOf
    <2>4. QED
      BY <1>1, <2>2, <2>3
  <1>5. ASSUME NEW t \in Threads, Loses(Charged, Charged', t, at[t]),
               current' = [current EXCEPT ![ScopeOf(t)] = Saturating(@ - WeightOf(t))]
        PROVE  Exact(s, current'[s], Charged')
    <2>1. WeightOf(t) \in Nat /\ Charges[t][at[t]].weight \in Nat
      BY <1>5, ChargeTyped DEF WeightOf
    <2>2. /\ IsFiniteSet(Units(To(s, Charged'))) /\ Cardinality(Units(To(s, Charged'))) \in Nat
          /\ Cardinality(Units(To(s, Charged))) = Cardinality(Units(To(s, Charged'))) + Share(t, at[t], s)
      BY <1>1, <1>5, <2>1, UnitsLose
    <2>3. /\ ScopeOf(t) = s => current'[s] = Saturating(current[s] - WeightOf(t)) /\ Share(t, at[t], s) = WeightOf(t)
          /\ ScopeOf(t) # s => current'[s] = current[s] /\ Share(t, at[t], s) = 0
      BY <1>2, <1>5 DEF Share, ScopeOf, WeightOf
    <2>4. QED
      BY <1>1, <1>2, <2>1, <2>2, <2>3 DEF Saturating
  <1>6. QED
    BY <1>3, <1>4, <1>5 DEF CountStep

\* And the statistics with what they have counted.
LEMMA StatisticsExactKept ==
    ASSUME ScopeAssumption, TypeOK, StatisticsExact, StatisticsStep
    PROVE  StatisticsExact'
  <1> DEFINE Exact(s, a, r, C) ==
                /\ IsFiniteSet(Units(To(s, C))) /\ a - r = Cardinality(Units(To(s, C)))
  <1> SUFFICES ASSUME NEW s \in Scopes
               PROVE  Exact(s, admitted'[s], released'[s], Counted')
    BY DEF StatisticsExact, Units, To
  <1>1. Exact(s, admitted[s], released[s], Counted)
    BY DEF StatisticsExact
  <1>2. /\ admitted \in [Scopes -> Nat] /\ released \in [Scopes -> Nat]
        /\ admitted[s] \in Nat /\ released[s] \in Nat
    BY DEF TypeOK
  <1>3. CASE UNCHANGED <<admitted, released, Counted>>
    BY <1>1, <1>3
  <1>4. ASSUME NEW t \in Threads, Gets(Counted, Counted', t, at[t]),
               admitted' = [admitted EXCEPT ![ScopeOf(t)] = @ + WeightOf(t)], UNCHANGED released
        PROVE  Exact(s, admitted'[s], released'[s], Counted')
    <2>1. WeightOf(t) \in Nat /\ Charges[t][at[t]].weight \in Nat
      BY <1>4, ChargeTyped DEF WeightOf
    <2>2. /\ IsFiniteSet(Units(To(s, Counted'))) /\ Cardinality(Units(To(s, Counted))) \in Nat
          /\ Cardinality(Units(To(s, Counted'))) = Cardinality(Units(To(s, Counted))) + Share(t, at[t], s)
      BY <1>1, <1>4, <2>1, UnitsGet
    <2>3. /\ Share(t, at[t], s) \in Nat
          /\ admitted'[s] = admitted[s] + Share(t, at[t], s) /\ released'[s] = released[s]
      BY <1>2, <1>4, <2>1 DEF Share, ScopeOf, WeightOf
    <2>4. QED
      BY <1>1, <1>2, <2>2, <2>3
  <1>5. ASSUME NEW t \in Threads, Loses(Counted, Counted', t, at[t]),
               released' = [released EXCEPT ![ScopeOf(t)] = @ + WeightOf(t)], UNCHANGED admitted
        PROVE  Exact(s, admitted'[s], released'[s], Counted')
    <2>1. WeightOf(t) \in Nat /\ Charges[t][at[t]].weight \in Nat
      BY <1>5, ChargeTyped DEF WeightOf
    <2>2. /\ IsFiniteSet(Units(To(s, Counted'))) /\ Cardinality(Units(To(s, Counted'))) \in Nat
          /\ Cardinality(Units(To(s, Counted))) = Cardinality(Units(To(s, Counted'))) + Share(t, at[t], s)
      BY <1>1, <1>5, <2>1, UnitsLose
    <2>3. /\ Share(t, at[t], s) \in Nat
          /\ released'[s] = released[s] + Share(t, at[t], s) /\ admitted'[s] = admitted[s]
      BY <1>2, <1>5, <2>1 DEF Share, ScopeOf, WeightOf
    <2>4. QED
      BY <1>1, <1>2, <2>2, <2>3
  <1>6. QED
    BY <1>3, <1>4, <1>5 DEF StatisticsStep

-----------------------------------------------------------------------------
(* The high-water mark.                                                    *)

\* A step that moves no mark and no thread on the way to raise one.
MarksSame(T) ==
    /\ UNCHANGED <<highWater, peak>>
    /\ \A u \in T :
          /\ Bumping(u)' <=> Bumping(u)
          /\ Bumping(u) => at'[u] = at[u] /\ next'[u] = next[u]
          /\ pc'[u] = "bump" => pc[u] = "bump" /\ cur'[u] = cur[u]

\* Such a step keeps HighWaterTrue.
LEMMA MarksKept ==
    ASSUME HighWaterTrue, MarksSame(Threads)
    PROVE  HighWaterTrue'
  <1>1. \A u \in Threads : Bumping(u) => ScopeOf(u)' = ScopeOf(u)
    BY DEF MarksSame, ScopeOf
  <1>2. \A u \in Threads : pc[u] = "bump" => Bumping(u)
    BY DEF Bumping
  <1>3. QED
    BY <1>1, <1>2 DEF HighWaterTrue, MarksSame

\* Every step keeps HighWaterTrue.
LEMMA HighWaterKept ==
    ASSUME ScopeAssumption, TypeOK, TypeOK', HighWaterTrue, [Next]_vars
    PROVE  HighWaterTrue'
  <1>1. ASSUME NEW t \in Threads, Reserve(t) PROVE HighWaterTrue'
    <2>1. MarksSame(Threads)
      BY <1>1 DEF Reserve, TypeOK, MarksSame, Bumping, Goto, Sees
    <2>2. QED
      BY <2>1, MarksKept
  <1>2. ASSUME NEW t \in Threads, Drop(t) PROVE HighWaterTrue'
    <2>1. MarksSame(Threads)
      BY <1>2 DEF Drop, TypeOK, MarksSame, Bumping, Goto, Sees
    <2>2. QED
      BY <2>1, MarksKept
  <1>3. ASSUME NEW t \in Threads, Load(t) PROVE HighWaterTrue'
    <2>1. MarksSame(Threads)
      BY <1>3 DEF Load, TypeOK, MarksSame, Bumping, Goto, Sees
    <2>2. QED
      BY <2>1, MarksKept
  <1>4. ASSUME NEW t \in Threads, ObserveFull(t) PROVE HighWaterTrue'
    <2>1. MarksSame(Threads)
      BY <1>4 DEF ObserveFull, TypeOK, MarksSame, Bumping, Goto, Sees, RollBack
    <2>2. QED
      BY <2>1, MarksKept
  <1>5. ASSUME NEW t \in Threads, Admit(t) PROVE HighWaterTrue'
    <2>0. /\ ScopeOf(t) \in Scopes /\ WeightOf(t) \in Nat /\ \A u \in Threads : ScopeOf(u) \in Scopes
          /\ highWater \in [Scopes -> Nat] /\ peak \in [Scopes -> Nat] /\ next[t] \in Nat /\ cur[t] \in Nat
      BY <1>5, ChargeTyped DEF TypeOK

    <2> DEFINE n == cur[t] + WeightOf(t)
               s == ScopeOf(t)
    <2>1. /\ ~Bumping(t) /\ Bumping(t)' /\ pc'[t] # "bump" /\ next'[t] = n /\ at' = at
          /\ \A u \in Threads \ {t} : pc'[u] = pc[u] /\ next'[u] = next[u] /\ cur'[u] = cur[u]
          /\ highWater' = highWater /\ peak' = [peak EXCEPT ![s] = Max({@, n})]
      BY <1>5 DEF Admit, Charge, Goto, TypeOK, Bumping
    <2>2. n \in Nat /\ peak[s] \in Nat
      BY <2>0
    <2>3. peak'[s] \in {peak[s], n} /\ peak[s] <= peak'[s] /\ n <= peak'[s] /\ peak'[s] \in Nat
      <3> HIDE DEF n, s
      <3>1. s \in Scopes
        BY <2>0 DEF s
      <3>2. peak'[s] = Max({peak[s], n})
        BY <2>0, <2>1, <3>1
      <3>3. QED
        BY <2>2, <3>2, MaxOfTwo
    <2>4. \A r \in Scopes \ {s} : peak'[r] = peak[r]
      BY <2>0, <2>1
    <2>5. \A u \in Threads : ScopeOf(u)' = ScopeOf(u)
      BY <2>1 DEF ScopeOf
    <2>6. \A u \in Threads \ {t} : Bumping(u)' <=> Bumping(u)
      BY <2>1 DEF Bumping
    <2>7. ASSUME NEW r \in Scopes
          PROVE  /\ highWater'[r] <= peak'[r]
                 /\ \/ highWater'[r] = peak'[r]
                    \/ \E u \in Threads : Bumping(u)' /\ ScopeOf(u)' = r /\ next'[u] = peak'[r]
      <3>1. CASE r # s \/ peak'[s] = peak[s]
        <4>1. peak'[r] = peak[r]
          BY <2>4, <3>1
        <4>2. /\ highWater[r] <= peak[r]
              /\ \/ highWater[r] = peak[r]
                 \/ \E u \in Threads : Bumping(u) /\ ScopeOf(u) = r /\ next[u] = peak[r]
          BY DEF HighWaterTrue
        <4>3. QED
          BY <2>1, <2>5, <2>6, <4>1, <4>2
      <3>2. CASE r = s /\ peak'[s] = n
        <4>1. highWater[s] <= peak[s] /\ highWater[s] \in Nat
          BY <2>0 DEF HighWaterTrue
        <4>2. highWater'[s] <= peak'[s]
          BY <2>1, <2>2, <2>3, <4>1
        <4>3. Bumping(t)' /\ ScopeOf(t)' = s /\ next'[t] = peak'[s]
          BY <2>1, <2>5, <3>2
        <4>4. QED
          BY <3>2, <4>2, <4>3
      <3>3. QED
        BY <2>3, <3>1, <3>2
    <2>8. ASSUME NEW u \in Threads, Bumping(u)'
          PROVE  next'[u] <= peak'[ScopeOf(u)']
      <3>1. CASE u = t
        BY <2>1, <2>3, <2>5, <3>1
      <3>2. CASE u # t
        <4>1. next[u] <= peak[ScopeOf(u)] /\ next[u] \in Nat /\ peak[ScopeOf(u)] \in Nat
          BY <2>0, <2>6, <2>8, <3>2 DEF HighWaterTrue, TypeOK
        <4>2. peak[ScopeOf(u)] <= peak'[ScopeOf(u)] /\ peak'[ScopeOf(u)] \in Nat
          BY <2>0, <2>3, <2>4, <4>1
        <4>3. QED
          BY <2>1, <2>5, <3>2, <4>1, <4>2
      <3>3. QED
        BY <3>1, <3>2
    <2>9. ASSUME NEW u \in Threads, pc'[u] = "bump"
          PROVE  cur'[u] <= highWater'[ScopeOf(u)']
      BY <2>1, <2>5, <2>9 DEF HighWaterTrue
    <2>10. QED
      BY <2>7, <2>8, <2>9 DEF HighWaterTrue
  <1>6. ASSUME NEW t \in Threads, AdmitMissed(t) PROVE HighWaterTrue'
    <2>1. MarksSame(Threads)
      BY <1>6 DEF AdmitMissed, TypeOK, MarksSame, Bumping, Goto, Sees
    <2>2. QED
      BY <2>1, MarksKept
  <1>7. ASSUME NEW t \in Threads, BumpLoad(t) PROVE HighWaterTrue'
    <2>0. /\ ScopeOf(t) \in Scopes /\ WeightOf(t) \in Nat /\ \A u \in Threads : ScopeOf(u) \in Scopes
          /\ highWater \in [Scopes -> Nat] /\ peak \in [Scopes -> Nat] /\ next[t] \in Nat /\ cur[t] \in Nat
      BY <1>7, ChargeTyped DEF TypeOK

    <2>1. /\ UNCHANGED <<highWater, peak, at, next>> /\ cur'[t] = highWater[ScopeOf(t)]
          /\ \A u \in Threads \ {t} : pc'[u] = pc[u] /\ cur'[u] = cur[u]
          /\ \A u \in Threads : Bumping(u)' <=> Bumping(u)
      BY <1>7 DEF BumpLoad, Goto, Sees, TypeOK, Bumping
    <2>2. QED
      BY <2>0, <2>1 DEF HighWaterTrue, ScopeOf
  <1>8. ASSUME NEW t \in Threads, Bump(t) PROVE HighWaterTrue'
    <2>0. /\ ScopeOf(t) \in Scopes /\ WeightOf(t) \in Nat /\ \A u \in Threads : ScopeOf(u) \in Scopes
          /\ highWater \in [Scopes -> Nat] /\ peak \in [Scopes -> Nat] /\ next[t] \in Nat /\ cur[t] \in Nat
      BY <1>8, ChargeTyped DEF TypeOK

    <2> DEFINE s == ScopeOf(t)
    <2>1. /\ UNCHANGED <<peak, next, cur>> /\ Bumping(t) /\ ~Bumping(t)' /\ pc[t] = "bump" /\ pc'[t] # "bump"
          /\ \A u \in Threads \ {t} : pc'[u] = pc[u] /\ at'[u] = at[u]
      BY <1>8 DEF Bump, Granted, Goto, TypeOK, Bumping
    <2>2. \A u \in Threads \ {t} : (Bumping(u)' <=> Bumping(u)) /\ ScopeOf(u)' = ScopeOf(u)
      BY <2>1 DEF Bumping, ScopeOf
    <2>3. /\ next[t] <= peak[s] /\ cur[t] <= highWater[s] /\ highWater[s] <= peak[s]
          /\ highWater[s] \in Nat /\ peak[s] \in Nat
      BY <1>8, <2>0, <2>1 DEF HighWaterTrue
    <2>4. /\ \A r \in Scopes \ {s} : highWater'[r] = highWater[r]
          /\ \/ next[t] <= cur[t] /\ highWater'[s] = highWater[s]
             \/ next[t] > cur[t] /\ highWater[s] = cur[t] /\ highWater'[s] = next[t]
      BY <1>8, <2>0 DEF Bump
    <2> HIDE DEF s
    <2>5. /\ highWater[s] <= highWater'[s] /\ highWater'[s] <= peak[s] /\ highWater'[s] \in Nat
          /\ next[t] <= highWater'[s]
          /\ highWater[s] = peak[s] => highWater'[s] = peak[s]
      BY <2>0, <2>3, <2>4
    <2>6. s \in Scopes /\ s = ScopeOf(t)
      BY <2>0 DEF s
    <2>7. ASSUME NEW r \in Scopes
          PROVE  /\ highWater'[r] <= peak[r]
                 /\ \/ highWater'[r] = peak[r]
                    \/ \E u \in Threads : Bumping(u)' /\ ScopeOf(u)' = r /\ next[u] = peak[r]
      <3>1. highWater'[r] <= peak[r]
        BY <2>4, <2>5 DEF HighWaterTrue
      <3>2. CASE highWater[r] = peak[r]
        BY <2>4, <2>5, <3>1, <3>2
      <3>3. ASSUME NEW u \in Threads, Bumping(u), ScopeOf(u) = r, next[u] = peak[r]
            PROVE  \/ highWater'[r] = peak[r]
                   \/ Bumping(u)' /\ ScopeOf(u)' = r /\ next[u] = peak[r]
        <4>1. CASE u = t
          <5>1. r = s /\ next[t] = peak[s]
            BY <2>6, <3>3, <4>1
          <5>2. QED
            BY <2>3, <2>5, <5>1
        <4>2. CASE u # t
          BY <2>2, <3>3, <4>2
        <4>3. QED
          BY <4>1, <4>2
      <3>4. QED
        BY <3>1, <3>2, <3>3 DEF HighWaterTrue
    <2>8. ASSUME NEW u \in Threads, Bumping(u)'
          PROVE  next[u] <= peak[ScopeOf(u)']
      BY <2>1, <2>2, <2>8 DEF HighWaterTrue
    <2>9. ASSUME NEW u \in Threads, pc'[u] = "bump"
          PROVE  cur[u] <= highWater'[ScopeOf(u)']
      <3>1. u # t /\ ScopeOf(u)' = ScopeOf(u) /\ ScopeOf(u) \in Scopes
        BY <2>0, <2>1, <2>2, <2>9
      <3>2. cur[u] <= highWater[ScopeOf(u)] /\ cur[u] \in Nat /\ highWater[ScopeOf(u)] \in Nat
        BY <2>0, <2>1, <2>9, <3>1 DEF HighWaterTrue, TypeOK
      <3>3. highWater[ScopeOf(u)] <= highWater'[ScopeOf(u)] /\ highWater'[ScopeOf(u)] \in Nat
        BY <2>4, <2>5, <3>1, <3>2
      <3>4. QED
        BY <3>1, <3>2, <3>3
    <2>10. QED
      BY <2>1, <2>7, <2>8, <2>9 DEF HighWaterTrue
  <1>9. ASSUME NEW t \in Threads, BumpMissed(t) PROVE HighWaterTrue'
    <2>0. /\ ScopeOf(t) \in Scopes /\ WeightOf(t) \in Nat /\ \A u \in Threads : ScopeOf(u) \in Scopes
          /\ highWater \in [Scopes -> Nat] /\ peak \in [Scopes -> Nat] /\ next[t] \in Nat /\ cur[t] \in Nat
      BY <1>9, ChargeTyped DEF TypeOK

    <2>1. /\ UNCHANGED <<highWater, peak, at, next>> /\ cur'[t] = highWater[ScopeOf(t)]
          /\ \A u \in Threads \ {t} : pc'[u] = pc[u] /\ cur'[u] = cur[u]
          /\ \A u \in Threads : Bumping(u)' <=> Bumping(u)
      BY <1>9 DEF BumpMissed, Sees, TypeOK, Bumping
    <2>2. QED
      BY <2>0, <2>1 DEF HighWaterTrue, ScopeOf
  <1>10. ASSUME NEW t \in Threads, DropLoad(t) PROVE HighWaterTrue'
    <2>1. MarksSame(Threads)
      BY <1>10 DEF DropLoad, TypeOK, MarksSame, Bumping, Goto, Sees
    <2>2. QED
      BY <2>1, MarksKept
  <1>11. ASSUME NEW t \in Threads, Release(t) PROVE HighWaterTrue'
    <2>1. MarksSame(Threads)
      BY <1>11 DEF Release, TypeOK, MarksSame, Bumping, Goto, Sees
    <2>2. QED
      BY <2>1, MarksKept
  <1>12. ASSUME NEW t \in Threads, ReleaseMissed(t) PROVE HighWaterTrue'
    <2>1. MarksSame(Threads)
      BY <1>12 DEF ReleaseMissed, TypeOK, MarksSame, Bumping, Goto, Sees
    <2>2. QED
      BY <2>1, MarksKept
  <1>13. CASE UNCHANGED vars
    BY <1>13, MarksKept DEF vars, MarksSame, Bumping
  <1>14. ASSUME NEW t \in Threads, CountIn(t) PROVE HighWaterTrue'
    <2>1. MarksSame(Threads)
      BY <1>14 DEF CountIn, TypeOK, MarksSame, Bumping, Goto
    <2>2. QED
      BY <2>1, MarksKept
  <1>15. ASSUME NEW t \in Threads, CountOut(t) PROVE HighWaterTrue'
    <2>1. MarksSame(Threads)
      BY <1>15 DEF CountOut, RollBack, TypeOK, MarksSame, Bumping, Goto
    <2>2. QED
      BY <2>1, MarksKept
  <1>16. QED
    BY <1>1, <1>2, <1>3, <1>4, <1>5, <1>6, <1>7, <1>8, <1>9, <1>10, <1>11, <1>12, <1>13,
       <1>14, <1>15 DEF Next

-----------------------------------------------------------------------------
(* The invariant.                                                          *)

\* Nothing is charged at the start.
LEMMA ScopeInit ==
    ASSUME ScopeAssumption, Init
    PROVE  ScopeSound
  <1>1. \A t \in Threads : Len(Charges[t]) \in Nat /\ Len(Charges[t]) > 0
    BY DEF ScopeAssumption
  <1>2. TypeOK
    BY <1>1 DEF Init, TypeOK, ScopeAssumption, Places
  <1>3. AllOrNothing
    BY DEF Init, AllOrNothing
  <1>4. ChargesExact
    <2>1. \A t \in Threads : Charged[t] = {}
      BY DEF Init, Charged, Bumping
    <2>2. ASSUME NEW s \in Scopes PROVE Units(To(s, Charged)) = {}
      BY <2>1 DEF Units, To
    <2>3. IsFiniteSet({}) /\ Cardinality({}) = 0
      BY FS_EmptySet
    <2>4. ASSUME NEW s \in Scopes
          PROVE  current[s] = 0 /\ 0 <= Cap[s]
      BY DEF Init, ScopeAssumption
    <2>5. QED
      BY <2>2, <2>3, <2>4 DEF ChargesExact
  <1>7. StatisticsExact
    <2>1. \A t \in Threads : Counted[t] = {}
      BY DEF Init, Counted
    <2>2. ASSUME NEW s \in Scopes PROVE Units(To(s, Counted)) = {}
      BY <2>1 DEF Units, To
    <2>3. IsFiniteSet({}) /\ Cardinality({}) = 0
      BY FS_EmptySet
    <2>4. ASSUME NEW s \in Scopes PROVE admitted[s] = 0 /\ released[s] = 0
      BY DEF Init
    <2>5. QED
      BY <2>2, <2>3, <2>4 DEF StatisticsExact
  <1>5. HighWaterTrue
    BY DEF Init, HighWaterTrue, Bumping
  <1>6. QED
    BY <1>2, <1>3, <1>4, <1>5, <1>7 DEF ScopeSound

\* Every step keeps the invariant.
LEMMA ScopeStep ==
    ASSUME ScopeAssumption, ScopeSound, [Next]_vars
    PROVE  ScopeSound'
  <1>1. TypeOK'
    BY TypeKept DEF ScopeSound
  <1>2. AllOrNothing'
    BY AllOrNothingKept DEF ScopeSound
  <1>3. ChargesExact'
    BY CountMoves, ChargesExactKept DEF ScopeSound
  <1>4. HighWaterTrue'
    BY <1>1, HighWaterKept DEF ScopeSound
  <1>5. StatisticsExact'
    BY CountMoves, StatisticsExactKept DEF ScopeSound
  <1>6. QED
    BY <1>1, <1>2, <1>3, <1>4, <1>5 DEF ScopeSound

\* In every behaviour of try_admit, bump_high_water and SharedLease::drop, by
\* any number of threads, a scope's counter is the weight that is charged to
\* it and never above its cap, the statistics differ from it only by the threads
\* between an exchange and its fetch_add, a failed reservation keeps nothing, and the
\* high-water mark is the peak once nobody is on the way to raise it.
THEOREM ScopesSound == ScopeAssumption => (Spec => []ScopeSound)
  <1> SUFFICES ASSUME ScopeAssumption
               PROVE  Spec => []ScopeSound
    OBVIOUS
  <1>1. Init => ScopeSound
    BY ScopeInit
  <1>2. ScopeSound /\ [Next]_vars => ScopeSound'
    BY ScopeStep
  <1>3. QED
    BY <1>1, <1>2, PTL DEF Spec

-----------------------------------------------------------------------------
(* The atomic semaphore.                                                   *)

\* A thread's weight is one of those the semaphore is asked for.
LEMMA WeightKnown ==
    ASSUME TypeOK, NEW t \in Threads
    PROVE  WeightOf(t) \in UNION {{Charges[u][k].weight : k \in 1 .. Len(Charges[u])} : u \in Threads}
  BY DEF TypeOK, WeightOf

\* The weight a lease gives back was counted.
LEMMA ReleaseCovered ==
    ASSUME ScopeAssumption, TypeOK, ChargesExact, NEW t \in Threads, at[t] \in leases[t]
    PROVE  current[ScopeOf(t)] >= WeightOf(t)
  <1> DEFINE s == ScopeOf(t)
             tk == <<t, at[t]>>
  <1>1. WeightOf(t) \in Nat /\ s \in Scopes
    BY ChargeTyped
  <1>2. tk \in To(s, Charged)
    BY DEF To, Charged, ScopeOf
  <1>3. Charges[tk[1]][tk[2]].weight = WeightOf(t)
    BY DEF WeightOf
  <1>4. IsFiniteSet(Units(To(s, Charged))) /\ current[s] = Cardinality(Units(To(s, Charged)))
    BY <1>1 DEF ChargesExact
  <1> HIDE DEF tk, s
  <1>5. /\ Cardinality(Units(To(s, Charged) \ {tk})) \in Nat
        /\ Cardinality(Units(To(s, Charged))) = Cardinality(Units(To(s, Charged) \ {tk})) + WeightOf(t)
    BY <1>1, <1>2, <1>3, <1>4, UnitsRemove
  <1>6. current[s] >= WeightOf(t)
    BY <1>1, <1>4, <1>5
  <1>7. QED
    BY <1>6 DEF s

\* Every atomic access is one operation of the semaphore, or none.
LEMMA CapStep ==
    ASSUME ScopeAssumption, ScopeSound, [Next]_vars
    PROVE  [Abstract!Next]_<<current, fullCount>>
  <1> USE DEF ScopeSound
  <1>1. ASSUME NEW t \in Threads, Reserve(t) PROVE [Abstract!Next]_<<current, fullCount>>
    BY <1>1 DEF Reserve
  <1>2. ASSUME NEW t \in Threads, Drop(t) PROVE [Abstract!Next]_<<current, fullCount>>
    BY <1>2 DEF Drop
  <1>3. ASSUME NEW t \in Threads, Load(t) PROVE [Abstract!Next]_<<current, fullCount>>
    BY <1>3 DEF Load
  <1>4. ASSUME NEW t \in Threads, ObserveFull(t) PROVE [Abstract!Next]_<<current, fullCount>>
    <2>1. WeightOf(t) \in Nat /\ ScopeOf(t) \in Scopes /\ Cap[ScopeOf(t)] \in Nat /\ current[ScopeOf(t)] \in Nat
      BY <1>4, ChargeTyped DEF TypeOK
    <2>2. CASE Fits(t, current[ScopeOf(t)])
      BY <1>4, <2>2 DEF ObserveFull
    <2>3. CASE ~Fits(t, current[ScopeOf(t)])
      <3>1. Abstract!Refuse(ScopeOf(t), WeightOf(t))
        BY <1>4, <2>1, <2>3 DEF ObserveFull, Fits, Abstract!Refuse
      <3>2. QED
        BY <1>4, <2>1, <3>1, WeightKnown DEF Abstract!Next
    <2>4. QED
      BY <2>2, <2>3
  <1>5. ASSUME NEW t \in Threads, Admit(t) PROVE [Abstract!Next]_<<current, fullCount>>
    <2>1. WeightOf(t) \in Nat /\ ScopeOf(t) \in Scopes /\ current \in [Scopes -> Nat]
      BY <1>5, ChargeTyped DEF TypeOK
    <2>2. Abstract!Admit(ScopeOf(t), WeightOf(t))
      BY <1>5, <2>1 DEF Admit, Fits, Charge, Abstract!Admit
    <2>3. QED
      BY <1>5, <2>1, <2>2, WeightKnown DEF Abstract!Next
  <1>6. ASSUME NEW t \in Threads, AdmitMissed(t) PROVE [Abstract!Next]_<<current, fullCount>>
    BY <1>6 DEF AdmitMissed
  <1>7. ASSUME NEW t \in Threads, BumpLoad(t) PROVE [Abstract!Next]_<<current, fullCount>>
    BY <1>7 DEF BumpLoad
  <1>8. ASSUME NEW t \in Threads, Bump(t) PROVE [Abstract!Next]_<<current, fullCount>>
    BY <1>8 DEF Bump
  <1>9. ASSUME NEW t \in Threads, BumpMissed(t) PROVE [Abstract!Next]_<<current, fullCount>>
    BY <1>9 DEF BumpMissed
  <1>10. ASSUME NEW t \in Threads, DropLoad(t) PROVE [Abstract!Next]_<<current, fullCount>>
    BY <1>10 DEF DropLoad
  <1>11. ASSUME NEW t \in Threads, Release(t) PROVE [Abstract!Next]_<<current, fullCount>>
    <2>1. WeightOf(t) \in Nat /\ ScopeOf(t) \in Scopes /\ current \in [Scopes -> Nat]
      BY <1>11, ChargeTyped DEF TypeOK
    <2>2. at[t] \in leases[t]
      BY <1>11 DEF Release, AllOrNothing
    <2>3. current[ScopeOf(t)] >= WeightOf(t)
      BY <1>11, <2>2, ReleaseCovered
    <2>4. Abstract!Release(ScopeOf(t), WeightOf(t))
      <3>1. Saturating(current[ScopeOf(t)] - WeightOf(t)) = current[ScopeOf(t)] - WeightOf(t)
        BY <2>1, <2>3 DEF Saturating
      <3>2. current' = [current EXCEPT ![ScopeOf(t)] = current[ScopeOf(t)] - WeightOf(t)] /\ UNCHANGED fullCount
        BY <1>11, <3>1 DEF Release
      <3>3. QED
        BY <2>1, <2>3, <3>2 DEF Abstract!Release
    <2>5. QED
      BY <1>11, <2>1, <2>4, WeightKnown DEF Abstract!Next
  <1>12. ASSUME NEW t \in Threads, ReleaseMissed(t) PROVE [Abstract!Next]_<<current, fullCount>>
    BY <1>12 DEF ReleaseMissed
  <1>13. CASE UNCHANGED vars
    BY <1>13 DEF vars
  <1>14. ASSUME NEW t \in Threads, CountIn(t) PROVE [Abstract!Next]_<<current, fullCount>>
    BY <1>14 DEF CountIn
  <1>15. ASSUME NEW t \in Threads, CountOut(t) PROVE [Abstract!Next]_<<current, fullCount>>
    BY <1>15 DEF CountOut
  <1>16. QED
    BY <1>1, <1>2, <1>3, <1>4, <1>5, <1>6, <1>7, <1>8, <1>9, <1>10, <1>11, <1>12, <1>13,
       <1>14, <1>15 DEF Next

\* A step of the loops is a step of WeightedCap: an admission takes effect at
\* its successful compare-exchange, a release at its own, and every Full that
\* is counted is a moment at which the weight really did not fit.
THEOREM ScopesRefineCap == ScopeAssumption => (Spec => ImplementsCap)
  <1> SUFFICES ASSUME ScopeAssumption
               PROVE  Spec => Abstract!Spec
    BY DEF ImplementsCap
  <1>1. Init => Abstract!Init
    BY DEF Init, Abstract!Init
  <1>2. ScopeSound /\ [Next]_vars => [Abstract!Next]_<<current, fullCount>>
    BY CapStep
  <1>3. Spec => []ScopeSound
    BY ScopesSound
  <1>4. QED
    BY <1>1, <1>2, <1>3, PTL DEF Spec, Abstract!Spec
=============================================================================
