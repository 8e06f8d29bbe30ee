---------------------------- MODULE MoneyProofs ----------------------------
(***************************************************************************)
(* What SUM computes, for any finite set of rows: facts about Total that   *)
(* the proofs about the ledger and about the holds rest on.                *)
(***************************************************************************)
EXTENDS Money, FiniteSetTheorems, TLAPS

(* Amounts on a finite set of rows are finitely many coins. *)
LEMMA CoinsFinite ==
  ASSUME NEW f, NEW S, IsFiniteSet(S), \A x \in S : f[x] \in Nat
  PROVE  IsFiniteSet(Coins(f, S))
<1> DEFINE stack == [x \in S |-> {x} \X (1 .. f[x])]
           T == {{x} \X (1 .. f[x]) : x \in S}
<1>1. stack \in Surjection(S, T)
  BY DEF Surjection
<1>2. IsFiniteSet(T)
  BY <1>1, FS_Surjection
<1>3. ASSUME NEW x \in S PROVE IsFiniteSet({x} \X (1 .. f[x]))
  <2>1. IsFiniteSet({x}) BY FS_Singleton
  <2>2. IsFiniteSet(1 .. f[x]) BY FS_Interval
  <2> QED BY <2>1, <2>2, FS_Product
<1>4. \A t \in T : IsFiniteSet(t)
  BY <1>3
<1>5. IsFiniteSet(UNION T)
  BY <1>2, <1>4, FS_UNION
<1> QED BY <1>5 DEF Coins

(* A sum of natural amounts is a natural number. *)
LEMMA TotalNat ==
  ASSUME NEW f, NEW S, IsFiniteSet(S), \A x \in S : f[x] \in Nat
  PROVE  Total(f, S) \in Nat
BY CoinsFinite, FS_CardinalityType DEF Total

(* SUM over no row is 0 (COALESCE). *)
LEMMA TotalEmpty == ASSUME NEW f PROVE Total(f, {}) = 0
<1>1. Coins(f, {}) = {} BY DEF Coins
<1> QED BY <1>1, FS_EmptySet DEF Total

(* Only the amounts of the rows summed over matter. *)
LEMMA TotalEqual ==
  ASSUME NEW f, NEW g, NEW S, \A x \in S : f[x] = g[x]
  PROVE  Total(f, S) = Total(g, S)
<1>1. {{x} \X (1 .. f[x]) : x \in S} = {{x} \X (1 .. g[x]) : x \in S}
  OBVIOUS
<1> QED BY <1>1 DEF Coins, Total

(* Fewer rows, no larger sum. *)
LEMMA TotalSubset ==
  ASSUME NEW f, NEW S, IsFiniteSet(S), \A x \in S : f[x] \in Nat,
         NEW T \in SUBSET S
  PROVE  Total(f, T) <= Total(f, S)
<1>1. Coins(f, T) \subseteq Coins(f, S)
  BY DEF Coins
<1>2. IsFiniteSet(Coins(f, S))
  BY CoinsFinite
<1> QED BY <1>1, <1>2, FS_Subset DEF Total

(* One more row adds its amount. *)
LEMMA TotalAdd ==
  ASSUME NEW f, NEW S, IsFiniteSet(S), NEW x, x \notin S,
         \A y \in S \cup {x} : f[y] \in Nat
  PROVE  Total(f, S \cup {x}) = Total(f, S) + f[x]
<1> DEFINE pile == {x} \X (1 .. f[x])
<1>1. Coins(f, S \cup {x}) = Coins(f, S) \cup pile
  BY DEF Coins
<1>2. Coins(f, S) \cap pile = {}
  BY DEF Coins
<1>3. IsFiniteSet(Coins(f, S))
  BY CoinsFinite
<1>4. IsFiniteSet(pile) /\ Cardinality(pile) = f[x]
  <2>1. IsFiniteSet({x}) /\ Cardinality({x}) = 1 BY FS_Singleton
  <2>2. f[x] \in Nat OBVIOUS
  <2>3. IsFiniteSet(1 .. f[x]) /\ Cardinality(1 .. f[x]) = f[x]
    BY <2>2, FS_Interval
  <2>4. IsFiniteSet(pile) /\ Cardinality(pile) = 1 * f[x]
    BY <2>1, <2>3, FS_Product
  <2> QED BY <2>2, <2>4
<1>5. Cardinality(Coins(f, S) \cup pile)
        = Cardinality(Coins(f, S)) + Cardinality(pile) - Cardinality({})
  BY <1>2, <1>3, <1>4, FS_Union
<1>6. Cardinality({}) = 0 BY FS_EmptySet
<1>7. Cardinality(Coins(f, S)) \in Nat BY <1>3, FS_CardinalityType
<1>8. f[x] \in Nat OBVIOUS
<1> HIDE DEF pile
<1>9. Cardinality(Coins(f, S) \cup pile) = Cardinality(Coins(f, S)) + f[x]
  BY <1>4, <1>5, <1>6, <1>7, <1>8
<1>10. Cardinality(Coins(f, S \cup {x})) = Cardinality(Coins(f, S) \cup pile)
  BY <1>1, Zenon
<1> QED BY <1>9, <1>10 DEF Total

(* One row less takes its amount away. *)
LEMMA TotalRemove ==
  ASSUME NEW f, NEW S, IsFiniteSet(S), NEW x \in S, \A y \in S : f[y] \in Nat
  PROVE  Total(f, S) = Total(f, S \ {x}) + f[x]
<1>1. IsFiniteSet(S \ {x}) BY FS_RemoveElement
<1>2. (S \ {x}) \cup {x} = S OBVIOUS
<1>3. Total(f, (S \ {x}) \cup {x}) = Total(f, S \ {x}) + f[x]
  BY <1>1, TotalAdd
<1> QED BY <1>2, <1>3
=============================================================================
