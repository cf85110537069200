------------------------- MODULE CommandLineProofs -------------------------
(***************************************************************************)
(* The wrappers together implement a store with remove, for every set of   *)
(* keys and values, any number of shards, and any hash functions, of the   *)
(* shards and of the filter, however many keys collide under them.         *)
(*                                                                         *)
(* On top of them the dialogue is consistent, for every set of lines that  *)
(* may be typed; and the bound that the shards give for their size holds   *)
(* for the whole.                                                          *)
(***************************************************************************)
EXTENDS CommandLine, NaturalsInduction, WellFoundedInduction,
        FiniteSetTheorems, TLAPS

-----------------------------------------------------------------------------
(* The wrappers. *)

(* The wrapped stores and the filter have their shapes. *)
Shapes ==
    /\ shards \in [ShardIds -> [Keys -> MaybeRemovedValues \cup {NoValue}]]
    /\ filter = [seed |-> filter.seed, size |-> filter.size, bits |-> filter.bits]

(* No false negatives: the filter denies no key that can be read below it.  *)
NoFalseNegatives ==
    \A k \in Keys : RemovableGetValue(k) # NoValue => MightContain(filter, k)

Inv == Shapes /\ NoFalseNegatives

-----------------------------------------------------------------------------

(* Every key has a shard. *)
LEMMA ShardIdInRange ==
    ASSUME NEW k \in Keys PROVE ShardId(k) \in ShardIds
<1>1. Shards \in Nat \ {0} /\ HashOf(k) \in Nat
  BY ShardsAssumption
<1>2. HashOf(k) % Shards \in 0 .. Shards - 1
  BY <1>1, SMT
<1> QED BY <1>2 DEF ShardId, ShardIds

(* Adding to a filter keeps its seed and its size, and so the positions of  *)
(* every element; what it might contain it still might, and what was added  *)
(* it might from then on.                                                   *)
LEMMA AddAllProperties ==
    ASSUME NEW f, NEW S, NEW x,
           f = [seed |-> f.seed, size |-> f.size, bits |-> f.bits]
    PROVE  LET g == AddAll(f, S)
           IN  /\ g = [seed |-> g.seed, size |-> g.size, bits |-> g.bits]
               /\ MightContain(f, x) => MightContain(g, x)
               /\ x \in S => MightContain(g, x)
<1> DEFINE g == AddAll(f, S)
<1> DEFINE added == UNION {Positions(f, y) : y \in S}
<1>1. g = [seed |-> f.seed, size |-> f.size, bits |-> f.bits \cup added]
  <2>1. PICK s, z, b : f = [seed |-> s, size |-> z, bits |-> b]
    OBVIOUS
  <2>2. g = [f EXCEPT !.bits = f.bits \cup added]
    BY DEF AddAll
  <2> HIDE DEF g, added
  <2> QED BY <2>1, <2>2
<1>2. Positions(g, x) = Positions(f, x)
  BY <1>1 DEF Positions
<1>3. g.bits = f.bits \cup added
  BY <1>1
<1>4. x \in S => Positions(f, x) \subseteq added
  OBVIOUS
<1>5. g = [seed |-> g.seed, size |-> g.size, bits |-> g.bits]
  BY <1>1
<1> HIDE DEF g, added
<1>6. /\ MightContain(f, x) => MightContain(g, x)
      /\ x \in S => MightContain(g, x)
  BY <1>2, <1>3, <1>4 DEF MightContain
<1> QED BY <1>5, <1>6 DEF g

(* As long as the filter denies nothing, it can be forgotten. *)
LEMMA FilterIsTransparent ==
    ASSUME NoFalseNegatives, NEW k \in Keys
    PROVE  GetValue(k) = RemovableGetValue(k)
BY DEF NoFalseNegatives, GetValue

(* What an inner add changes, below the filter. *)
LEMMA ShardHoldsProperties ==
    ASSUME Shapes, NEW k \in Keys, NEW e \in MaybeRemovedValues, NEW n, ShardHolds(k, e, n)
    PROVE  /\ shards' \in [ShardIds -> [Keys -> MaybeRemovedValues \cup {NoValue}]]
           /\ \A x \in Keys : RemovableGetValue(x)' =
                 IF x # k THEN RemovableGetValue(x)
                 ELSE IF e.removed THEN NoValue ELSE e.value
<1> DEFINE i == ShardId(k)
<1>1. i \in ShardIds
  BY ShardIdInRange
<1>2. shards' = [shards EXCEPT ![i] = [@ EXCEPT ![k] = e]]
  BY DEF ShardHolds
<1>3. shards \in [ShardIds -> [Keys -> MaybeRemovedValues \cup {NoValue}]]
  BY DEF Shapes
<1> HIDE DEF i
<1>4. shards' \in [ShardIds -> [Keys -> MaybeRemovedValues \cup {NoValue}]]
  BY <1>1, <1>2, <1>3
<1>5. ASSUME NEW x \in Keys
      PROVE  shards'[ShardId(x)][x] = IF x = k THEN e ELSE shards[ShardId(x)][x]
  <2>1. ShardId(x) \in ShardIds
    BY ShardIdInRange
  <2>2. x = k => ShardId(x) = i
    BY DEF i
  <2> QED BY <2>1, <2>2, <1>1, <1>2, <1>3
<1>6. e # NoValue
  BY ValuesAssumption
<1>7. ASSUME NEW x \in Keys
      PROVE  ShardedGetValue(x)' = IF x = k THEN e ELSE ShardedGetValue(x)
  BY <1>5 DEF ShardedGetValue, ShardId
<1> QED BY <1>4, <1>6, <1>7 DEF RemovableGetValue

LEMMA ShardAddProperties ==
    ASSUME Shapes, NEW k \in Keys, NEW e \in MaybeRemovedValues, ShardAdd(k, e)
    PROVE  /\ shards' \in [ShardIds -> [Keys -> MaybeRemovedValues \cup {NoValue}]]
           /\ \A x \in Keys : RemovableGetValue(x)' =
                 IF x # k THEN RemovableGetValue(x)
                 ELSE IF e.removed THEN NoValue ELSE e.value
BY ShardHoldsProperties DEF ShardAdd, ShardAppends, ShardShrinks

(* A call that throws does the same or nothing to the records. *)
LEMMA ShardThrowsProperties ==
    ASSUME Shapes, NEW k \in Keys, NEW e \in MaybeRemovedValues, ShardThrows(k, e)
    PROVE  /\ shards' \in [ShardIds -> [Keys -> MaybeRemovedValues \cup {NoValue}]]
           /\ \/ \A x \in Keys : RemovableGetValue(x)' =
                    IF x # k THEN RemovableGetValue(x)
                    ELSE IF e.removed THEN NoValue ELSE e.value
              \/ \A x \in Keys : RemovableGetValue(x)' = RemovableGetValue(x)
<1>1. CASE UNCHANGED shards
  BY <1>1 DEF Shapes, RemovableGetValue, ShardedGetValue, ShardId
<1>2. CASE \E n : ShardHolds(k, e, n)
  BY <1>2, ShardHoldsProperties
<1> QED BY <1>1, <1>2 DEF ShardThrows, ShardAppends, ShardShrinks

LEMMA EntryTypes ==
    /\ \A v \in Values : Present(v) \in MaybeRemovedValues
    /\ Tombstone \in MaybeRemovedValues
BY ValuesAssumption DEF Present, Tombstone, MaybeRemovedValues

-----------------------------------------------------------------------------
(* The invariant. *)

LEMMA InvInitially == Init => Inv
<1> SUFFICES ASSUME Init PROVE Inv
  OBVIOUS
<1>1. shards \in [ShardIds -> [Keys -> MaybeRemovedValues \cup {NoValue}]]
  BY DEF Init
<1>2. filter = [seed |-> filter.seed, size |-> filter.size, bits |-> filter.bits]
  BY DEF Init, NewFilter, Reserve
<1>3. \A k \in Keys : RemovableGetValue(k) = NoValue
  BY ShardIdInRange DEF Init, RemovableGetValue, ShardedGetValue
<1> QED BY <1>1, <1>2, <1>3 DEF Inv, Shapes, NoFalseNegatives

(* Steps of the stack keep the invariant.  A call that returns is a step of *)
(* the promise, and one that throws is one or none, as seen below the       *)
(* filter.                                                                  *)
Changes(k, v) ==
    \A x \in Keys : RemovableGetValue(x)' = IF x = k THEN v ELSE RemovableGetValue(x)

ChangesNothing == \A x \in Keys : RemovableGetValue(x)' = RemovableGetValue(x)

(* What the outer wrappers do to the filter keeps the invariant if the      *)
(* filter learns a key before it has a value.                               *)
LEMMA WrapperStep ==
    ASSUME Inv, NEW k \in Keys, NEW v,
           shards' \in [ShardIds -> [Keys -> MaybeRemovedValues \cup {NoValue}]],
           Changes(k, v) \/ ChangesNothing,
           \/ filter' = AddAll(filter, {k})
           \/ filter' = filter /\ v = NoValue
    PROVE  Inv'
<1> USE DEF Inv
<1>1. CASE filter' = AddAll(filter, {k})
  <2>1. filter' = [seed |-> filter'.seed, size |-> filter'.size, bits |-> filter'.bits]
    BY <1>1, AddAllProperties DEF Shapes
  <2>2. \A x \in Keys : /\ MightContain(filter, x) => MightContain(filter', x)
                        /\ x = k => MightContain(filter', x)
    BY <1>1, AddAllProperties DEF Shapes
  <2>3. NoFalseNegatives'
    <3> SUFFICES ASSUME NEW x \in Keys, RemovableGetValue(x)' # NoValue
                 PROVE  MightContain(filter', x)
      BY DEF NoFalseNegatives, MightContain, Positions
    <3>1. x = k \/ RemovableGetValue(x) # NoValue
      BY DEF Changes, ChangesNothing
    <3> QED BY <2>2, <3>1 DEF NoFalseNegatives
  <2> QED BY <2>1, <2>3 DEF Shapes
<1>2. CASE filter' = filter /\ v = NoValue
  <2>1. \A x \in Keys : RemovableGetValue(x)' # NoValue => RemovableGetValue(x) # NoValue
    BY <1>2 DEF Changes, ChangesNothing
  <2>2. NoFalseNegatives'
    BY <1>2, <2>1 DEF NoFalseNegatives, MightContain, Positions
  <2> QED BY <1>2, <2>2 DEF Shapes
<1> QED BY <1>1, <1>2

LEMMA AddStep ==
    ASSUME Inv, NEW k \in Keys, NEW v \in Values, Add(k, v)
    PROVE  Inv' /\ Changes(k, v)
<1>1. filter' = AddAll(filter, {k}) /\ ShardAdd(k, Present(v))
  BY DEF Add
<1>2. /\ shards' \in [ShardIds -> [Keys -> MaybeRemovedValues \cup {NoValue}]]
      /\ Changes(k, v)
  BY <1>1, EntryTypes, ShardAddProperties DEF Inv, Present, Changes
<1> QED BY <1>1, <1>2, WrapperStep

LEMMA AddThrowsStep ==
    ASSUME Inv, NEW k \in Keys, NEW v \in Values, AddThrows(k, v)
    PROVE  Inv' /\ (Changes(k, v) \/ ChangesNothing)
<1>1. filter' = AddAll(filter, {k}) /\ ShardThrows(k, Present(v))
  BY DEF AddThrows
<1>2. /\ shards' \in [ShardIds -> [Keys -> MaybeRemovedValues \cup {NoValue}]]
      /\ Changes(k, v) \/ ChangesNothing
  BY <1>1, EntryTypes, ShardThrowsProperties DEF Inv, Present, Changes, ChangesNothing
<1> QED BY <1>1, <1>2, WrapperStep

LEMMA RemoveStep ==
    ASSUME Inv, NEW k \in Keys, Remove(k)
    PROVE  Inv' /\ Changes(k, NoValue)
<1>1. filter' = filter /\ ShardAdd(k, Tombstone)
  BY DEF Remove
<1>2. /\ shards' \in [ShardIds -> [Keys -> MaybeRemovedValues \cup {NoValue}]]
      /\ Changes(k, NoValue)
  BY <1>1, EntryTypes, ShardAddProperties DEF Inv, Tombstone, Changes
<1> QED BY <1>1, <1>2, WrapperStep

LEMMA RemoveThrowsStep ==
    ASSUME Inv, NEW k \in Keys, RemoveThrows(k)
    PROVE  Inv' /\ (Changes(k, NoValue) \/ ChangesNothing)
<1>1. filter' = filter /\ ShardThrows(k, Tombstone)
  BY DEF RemoveThrows
<1>2. /\ shards' \in [ShardIds -> [Keys -> MaybeRemovedValues \cup {NoValue}]]
      /\ Changes(k, NoValue) \/ ChangesNothing
  BY <1>1, EntryTypes, ShardThrowsProperties DEF Inv, Tombstone, Changes, ChangesNothing
<1> QED BY <1>1, <1>2, WrapperStep

LEMMA InvStep == Inv /\ [Next]_vars => Inv'
<1> SUFFICES ASSUME Inv, [Next]_vars PROVE Inv'
  OBVIOUS
<1>1. CASE Next
  BY <1>1, AddStep, AddThrowsStep, RemoveStep, RemoveThrowsStep DEF Next
<1>2. CASE UNCHANGED vars
  BY <1>2 DEF vars, Inv, Shapes, NoFalseNegatives, RemovableGetValue,
              ShardedGetValue, ShardId, MightContain, Positions
<1> QED BY <1>1, <1>2

(* The filter never has a false negative: whatever value the stores below   *)
(* it would return, it lets the call of getValue through to them.           *)
THEOREM FilterIsSafe == Spec => []NoFalseNegatives
<1>1. Inv => NoFalseNegatives
  BY DEF Inv
<1> QED BY <1>1, InvInitially, InvStep, PTL DEF Spec

-----------------------------------------------------------------------------
(* The refinement. *)

LEMMA PromiseInit == Init => Promise!Init
<1> SUFFICES ASSUME Init, NEW k \in Keys PROVE GetValue(k) = NoValue
  BY DEF Promise!Init
<1>1. RemovableGetValue(k) = NoValue
  BY ShardIdInRange DEF Init, RemovableGetValue, ShardedGetValue
<1> QED BY <1>1 DEF GetValue

LEMMA PromiseStep ==
    Inv /\ Inv' /\ [Next]_vars =>
        [Promise!RemovableNext]_([k \in Keys |-> GetValue(k)])
<1> SUFFICES ASSUME Inv, Inv', [Next]_vars
             PROVE  [Promise!RemovableNext]_([k \in Keys |-> GetValue(k)])
  OBVIOUS
<1>1. \A x \in Keys : GetValue(x) = RemovableGetValue(x)
  BY FilterIsTransparent DEF Inv
<1>2. \A x \in Keys : GetValue(x)' = RemovableGetValue(x)'
  <2>1. NoFalseNegatives'
    BY DEF Inv
  <2> QED BY <2>1 DEF NoFalseNegatives, GetValue
<1> DEFINE store == [x \in Keys |-> GetValue(x)]
<1>3. ASSUME ChangesNothing PROVE store' = store
  BY <1>1, <1>2, <1>3 DEF ChangesNothing
<1>4. ASSUME NEW k \in Keys, NEW v, Changes(k, v)
      PROVE  store' = [store EXCEPT ![k] = v]
  <2>1. \A x \in Keys : GetValue(x)' = IF x = k THEN v ELSE GetValue(x)
    BY <1>1, <1>2, <1>4 DEF Changes
  <2> QED BY <2>1
<1>5. ASSUME NEW k \in Keys, NEW v \in Values, Add(k, v) \/ AddThrows(k, v)
      PROVE  Promise!Add(k, v) \/ store' = store
  BY <1>3, <1>4, <1>5, AddStep, AddThrowsStep DEF Promise!Add
<1>6. ASSUME NEW k \in Keys, Remove(k) \/ RemoveThrows(k)
      PROVE  Promise!Remove(k) \/ store' = store
  BY <1>3, <1>4, <1>6, RemoveStep, RemoveThrowsStep DEF Promise!Remove
<1>7. CASE UNCHANGED vars
  <2>1. ChangesNothing
    BY <1>7 DEF vars, RemovableGetValue, ShardedGetValue, ShardId, ChangesNothing
  <2> QED BY <2>1, <1>3
<1>8. CASE Next
  <2> HIDE DEF store
  <2>1. PICK k \in Keys : \/ \E v \in Values : Add(k, v) \/ AddThrows(k, v)
                         \/ Remove(k) \/ RemoveThrows(k)
    BY <1>8 DEF Next
  <2>2. CASE \E v \in Values : Add(k, v) \/ AddThrows(k, v)
    BY <2>2, <1>5 DEF Promise!RemovableNext, Promise!Next, store
  <2>3. CASE Remove(k) \/ RemoveThrows(k)
    BY <2>3, <1>6 DEF Promise!RemovableNext, store
  <2> QED BY <2>1, <2>2, <2>3
<1> QED BY <1>7, <1>8

(* Filtered, removable and sharded, the stores implement a store with       *)
(* remove.  The values are those of the records, which are read whenever    *)
(* the index of a shard is intact; calls that throw may cost a shard        *)
(* entries of its index, but to the records they happened or did not.       *)
THEOREM Implementation == Spec => ImplementsRemovableStore
<1> QED BY InvInitially, InvStep, PromiseInit, PromiseStep, PTL
        DEF Spec, ImplementsRemovableStore, Promise!RemovableSpec

-----------------------------------------------------------------------------
(* The size of the stack. *)

(* A set of numbers has a smallest one: what is missing for some number is  *)
(* missing for a first one.                                                 *)
LEMMA LeastNumber ==
    ASSUME NEW S \in SUBSET Nat, S # {}
    PROVE  \E n \in S : \A m \in S : n <= m
<1> DEFINE Less == OpToRel(<, Nat)
<1>1. ASSUME NEW x \in Nat, NEW y \in Nat, <<x, y>> \notin Less
      PROVE  y <= x
  BY <1>1 DEF OpToRel
<1>2. IsWellFoundedOn(Less, Nat)
  BY NatLessThanWellFounded
<1> HIDE DEF Less
<1>3. PICK n \in S : \A m \in S : <<m, n>> \notin Less
  BY <1>2, WFMin
<1>4. \A m \in S : n <= m
  BY <1>1, <1>3
<1> QED
  BY <1>4

(* The element of a set that a fold takes next. *)
Chosen(s) == CHOOSE x \in s : TRUE

(* F has the sum of r over each of the subsets of S, as the fold has it.    *)
SumsOf(F, r, S) ==
    F = [s \in SUBSET S |-> IF s = {} THEN 0 ELSE r[Chosen(s)] + F[s \ {Chosen(s)}]]

LEMMA ChosenProperties ==
    ASSUME NEW S, IsFiniteSet(S), NEW s \in SUBSET S
    PROVE  /\ IsFiniteSet(s) /\ Cardinality(s) \in Nat
           /\ s = {} <=> Cardinality(s) = 0
           /\ s # {} => /\ Chosen(s) \in s
                        /\ s \ {Chosen(s)} \in SUBSET S
                        /\ Cardinality(s \ {Chosen(s)}) = Cardinality(s) - 1
<1>1. IsFiniteSet(s) /\ Cardinality(s) \in Nat /\ (s = {} <=> Cardinality(s) = 0)
  BY FS_Subset, FS_CardinalityType, FS_EmptySet
<1>2. s # {} => Chosen(s) \in s
  BY DEF Chosen
<1> QED
  BY <1>1, <1>2, FS_RemoveElement

(* There is such a function: a fold over a finite set is defined.  It is    *)
(* put together from those that are right up to some cardinality.           *)
LEMMA SumsExist ==
    ASSUME NEW S, IsFiniteSet(S), NEW r
    PROVE  \E F : SumsOf(F, r, S)
<1> DEFINE Sum(F, s) == IF s = {} THEN 0 ELSE r[Chosen(s)] + F[s \ {Chosen(s)}]
           RightUpTo(n, F) == \A s \in SUBSET S : Cardinality(s) <= n => F[s] = Sum(F, s)
           Missing == {n \in Nat : \A F : ~ RightUpTo(n, F)}
<1>1. ASSUME Missing # {} PROVE FALSE
  <2>1. PICK n \in Missing : n \in Nat /\ \A m \in Missing : n <= m
    <3>1. Missing \in SUBSET Nat
      OBVIOUS
    <3> HIDE DEF Missing
    <3> QED
      BY <1>1, <3>1, LeastNumber
  <2>2. CASE n = 0
    <3> DEFINE G == [s \in SUBSET S |-> 0]
    <3>1. ASSUME NEW s \in SUBSET S, Cardinality(s) <= 0 PROVE G[s] = Sum(G, s)
      <4>1. Cardinality(s) \in Nat /\ (s = {} <=> Cardinality(s) = 0)
        BY ChosenProperties
      <4>2. s = {}
        BY <3>1, <4>1
      <4> QED
        BY <4>2
    <3> HIDE DEF G, Sum
    <3>2. RightUpTo(0, G)
      BY <3>1
    <3> QED
      BY <2>1, <2>2, <3>2
  <2>3. CASE n # 0
    <3>1. n - 1 \in Nat /\ n - 1 \notin Missing
      <4> HIDE DEF Missing
      <4> QED
        BY <2>1, <2>3
    <3>2. PICK F : RightUpTo(n - 1, F)
      <4> HIDE DEF RightUpTo
      <4> QED
        BY <3>1
    <3> DEFINE G == [s \in SUBSET S |-> Sum(F, s)]
    <3>3. \A s \in SUBSET S : G[s] = Sum(F, s)
      OBVIOUS
    <3> HIDE DEF G
    <3>4. ASSUME NEW s \in SUBSET S, Cardinality(s) <= n PROVE G[s] = Sum(G, s)
      <4>1. CASE s = {}
        BY <3>3, <4>1
      <4>2. CASE s # {}
        <5> DEFINE t == s \ {Chosen(s)}
        <5>1. t \in SUBSET S /\ Cardinality(t) = Cardinality(s) - 1 /\ Cardinality(s) \in Nat
          BY <4>2, ChosenProperties
        <5> HIDE DEF t, Sum
        <5>2. Cardinality(t) <= n - 1
          BY <2>1, <3>4, <5>1
        <5>3. F[t] = Sum(F, t)
          BY <3>2, <5>1, <5>2
        <5>4. G[t] = F[t]
          BY <3>3, <5>1, <5>3
        <5>5. Sum(F, s) = r[Chosen(s)] + F[t] /\ Sum(G, s) = r[Chosen(s)] + G[t]
          BY <4>2 DEF Sum, t
        <5> QED
          BY <3>3, <5>4, <5>5
      <4> QED
        BY <4>1, <4>2
    <3> HIDE DEF Sum
    <3>5. RightUpTo(n, G)
      BY <3>4
    <3> QED
      BY <2>1, <3>5
  <2> QED
    BY <2>2, <2>3
<1>2. Cardinality(S) \in Nat
  BY FS_CardinalityType
<1>3. PICK F : RightUpTo(Cardinality(S), F)
  BY <1>1, <1>2
<1> DEFINE H == [s \in SUBSET S |-> F[s]]
<1>4. ASSUME NEW s \in SUBSET S PROVE H[s] = Sum(H, s)
  <2>1. Cardinality(s) <= Cardinality(S)
    BY FS_Subset
  <2>2. F[s] = Sum(F, s)
    BY <1>3, <2>1
  <2>3. s # {} => s \ {Chosen(s)} \in SUBSET S
    OBVIOUS
  <2> QED
    BY <2>2, <2>3
<1>5. H = [s \in SUBSET S |-> Sum(H, s)]
  <2>1. DOMAIN H = SUBSET S /\ H = [s \in DOMAIN H |-> H[s]]
    OBVIOUS
  <2> HIDE DEF H, Sum
  <2> QED
    BY <1>4, <2>1
<1>6. SumsOf(H, r, S)
  <2> HIDE DEF H
  <2> QED
    BY <1>5 DEF SumsOf
<1> QED
  BY <1>6

(* The sum of bounds is a bound of the union.                               *)
LEMMA SumBoundsUnion ==
    ASSUME NEW S, IsFiniteSet(S), NEW r, NEW F, SumsOf(F, r, S),
           NEW C, \A i \in S : /\ IsFiniteSet(C[i])
                               /\ r[i] \in Nat
                               /\ Cardinality(C[i]) <= r[i]
    PROVE  /\ IsFiniteSet(UNION {C[i] : i \in S})
           /\ F[S] \in Nat
           /\ Cardinality(UNION {C[i] : i \in S}) <= F[S]
<1> DEFINE All(s) == UNION {C[i] : i \in s}
           Bounded(s) == IsFiniteSet(All(s)) /\ F[s] \in Nat /\ Cardinality(All(s)) <= F[s]
           Bad == {n \in Nat : \E s \in SUBSET S : Cardinality(s) = n /\ ~ Bounded(s)}
<1>1. \A s \in SUBSET S : F[s] = IF s = {} THEN 0 ELSE r[Chosen(s)] + F[s \ {Chosen(s)}]
  BY DEF SumsOf
<1>2. ASSUME Bad # {} PROVE FALSE
  <2>1. PICK n \in Bad : n \in Nat /\ \A m \in Bad : n <= m
    <3>1. Bad \in SUBSET Nat
      OBVIOUS
    <3> HIDE DEF Bad
    <3> QED
      BY <1>2, <3>1, LeastNumber
  <2>2. PICK s \in SUBSET S : Cardinality(s) = n /\ ~ Bounded(s)
    BY <2>1
  <2>3. s # {}
    <3>1. ASSUME s = {} PROVE Bounded(s)
      <4>1. All(s) = {} /\ F[s] = 0
        BY <1>1, <3>1
      <4> QED
        BY <4>1, FS_EmptySet
    <3> QED
      BY <2>2, <3>1
  <2> DEFINE x == Chosen(s)
             t == s \ {x}
  <2>4. x \in s /\ t \in SUBSET S /\ Cardinality(t) = n - 1 /\ n - 1 \in Nat
    <3>1. /\ x \in s /\ t \in SUBSET S /\ Cardinality(t) = Cardinality(s) - 1
          /\ Cardinality(s) \in Nat /\ Cardinality(s) # 0
      BY <2>3, ChosenProperties
    <3> HIDE DEF x, t
    <3> QED
      BY <2>2, <3>1
  <2>5. F[s] = r[x] + F[t]
    BY <1>1, <2>3
  <2>6. Bounded(t)
    <3> HIDE DEF t, Bounded
    <3>1. n - 1 \notin Bad
      <4> HIDE DEF Bad
      <4> QED
        BY <2>1, <2>4
    <3> QED
      BY <2>4, <3>1
  <2>7. All(s) = C[x] \cup All(t)
    BY <2>4
  <2> HIDE DEF x, t, All
  <2>8. /\ IsFiniteSet(C[x]) /\ r[x] \in Nat /\ Cardinality(C[x]) <= r[x]
        /\ Cardinality(C[x]) \in Nat
    BY <2>4, FS_CardinalityType
  <2>9. /\ IsFiniteSet(All(t)) /\ F[t] \in Nat /\ Cardinality(All(t)) <= F[t]
        /\ Cardinality(All(t)) \in Nat
    BY <2>6, FS_CardinalityType
  <2>10. /\ IsFiniteSet(All(s))
         /\ Cardinality(All(s)) = Cardinality(C[x]) + Cardinality(All(t))
                                    - Cardinality(C[x] \cap All(t))
    BY <2>7, <2>8, <2>9, FS_Union
  <2>11. Cardinality(C[x] \cap All(t)) \in Nat
    BY <2>8, FS_Subset, FS_CardinalityType
  <2>12. F[s] \in Nat /\ Cardinality(All(s)) <= F[s]
    BY <2>5, <2>8, <2>9, <2>10, <2>11
  <2> QED
    BY <2>2, <2>10, <2>12
<1>3. S \in SUBSET S /\ Cardinality(S) \in Nat
  BY FS_CardinalityType
<1>4. Bounded(S)
  <2> HIDE DEF Bounded
  <2> QED
    BY <1>2, <1>3
<1> QED
  BY <1>4

(* What getUpperSizeBound returns is such a sum. *)
LEMMA UpperSizeBoundIsSum ==
    \E F : SumsOf(F, records, ShardIds) /\ UpperSizeBound = F[ShardIds]
<1>1. IsFiniteSet(ShardIds)
  BY ShardsAssumption, FS_Interval DEF ShardIds
<1>2. \E F : SumsOf(F, records, ShardIds)
  BY <1>1, SumsExist
<1>3. UpperSizeBound = (CHOOSE F : SumsOf(F, records, ShardIds))[ShardIds]
  BY DEF UpperSizeBound, MapThenSumSet, MapThenFoldSet, SumsOf, Chosen
<1> QED
  BY <1>2, <1>3

-----------------------------------------------------------------------------
(* Every shard counts at least the keys that it holds. *)

SizeInv ==
    /\ shards \in [ShardIds -> [Keys -> MaybeRemovedValues \cup {NoValue}]]
    /\ records \in [ShardIds -> Nat]
    /\ \A i \in ShardIds :
          /\ IsFiniteSet(StoredKeys(shards[i]))
          /\ Cardinality(StoredKeys(shards[i])) <= records[i]

LEMMA SizeInitially == Init => SizeInv
<1> SUFFICES ASSUME Init PROVE SizeInv
  OBVIOUS
<1>1. \A i \in ShardIds : shards[i] = [k \in Keys |-> NoValue] /\ records[i] = 0
  BY DEF Init
<1>2. \A i \in ShardIds : StoredKeys(shards[i]) = {}
  BY <1>1 DEF StoredKeys
<1>3. IsFiniteSet({}) /\ Cardinality({}) = 0
  BY FS_EmptySet
<1>4. \A i \in ShardIds : /\ IsFiniteSet(StoredKeys(shards[i]))
                          /\ Cardinality(StoredKeys(shards[i])) <= records[i]
  BY <1>1, <1>2, <1>3
<1>5. /\ shards \in [ShardIds -> [Keys -> MaybeRemovedValues \cup {NoValue}]]
      /\ records \in [ShardIds -> Nat]
  BY DEF Init
<1> QED
  BY <1>4, <1>5 DEF SizeInv

(* An inner add: the shard holds at most one key more, and counts one       *)
(* record more or exactly its keys.                                         *)
LEMMA ShardHoldsKeepsSizes ==
    ASSUME SizeInv, NEW k \in Keys, NEW e \in MaybeRemovedValues, NEW n, ShardHolds(k, e, n),
           n \in {records[ShardId(k)] + 1,
                  Cardinality(StoredKeys(shards[ShardId(k)]) \cup {k})}
    PROVE  SizeInv'
<1> DEFINE s == ShardId(k)
           old == StoredKeys(shards[s])
           new == StoredKeys(shards'[s])
<1>1. s \in ShardIds
  BY ShardIdInRange
<1>2. shards' = [shards EXCEPT ![s] = [@ EXCEPT ![k] = e]]
  BY DEF ShardHolds
<1>3. /\ n \in {records[s] + 1, Cardinality(old \cup {k})}
      /\ records' = [records EXCEPT ![s] = n]
  BY DEF ShardHolds
<1>4. /\ shards \in [ShardIds -> [Keys -> MaybeRemovedValues \cup {NoValue}]]
      /\ records \in [ShardIds -> Nat]
  BY DEF SizeInv
<1>5. IsFiniteSet(old) /\ Cardinality(old) <= records[s]
  BY <1>1 DEF SizeInv
<1>6. new \subseteq old \cup {k}
  <2> HIDE DEF s
  <2> QED
    BY <1>1, <1>2, <1>4 DEF StoredKeys
<1> HIDE DEF s, old, new
<1>7. /\ IsFiniteSet(old \cup {k})
      /\ Cardinality(old \cup {k}) <= Cardinality(old) + 1
  <2>1. /\ IsFiniteSet(old \cup {k})
        /\ Cardinality(old \cup {k}) =
              IF k \in old THEN Cardinality(old) ELSE Cardinality(old) + 1
    BY <1>5, FS_AddElement
  <2> QED
    BY <1>5, <2>1, FS_CardinalityType
<1>8. /\ IsFiniteSet(new)
      /\ Cardinality(new) <= Cardinality(old \cup {k})
  BY <1>6, <1>7, FS_Subset
<1>9. /\ Cardinality(old) \in Nat /\ Cardinality(new) \in Nat
      /\ Cardinality(old \cup {k}) \in Nat
  BY <1>5, <1>7, <1>8, FS_CardinalityType
<1>10. records[s] \in Nat
  BY <1>1, <1>4
<1>11. n \in Nat /\ Cardinality(new) <= n
  BY <1>3, <1>5, <1>7, <1>8, <1>9, <1>10
<1>12. records' \in [ShardIds -> Nat] /\ records'[s] = n
  BY <1>1, <1>3, <1>4, <1>11
<1>13. shards' \in [ShardIds -> [Keys -> MaybeRemovedValues \cup {NoValue}]]
  BY <1>1, <1>2, <1>4
<1>14. ASSUME NEW i \in ShardIds
       PROVE  /\ IsFiniteSet(StoredKeys(shards'[i]))
              /\ Cardinality(StoredKeys(shards'[i])) <= records'[i]
  <2>1. CASE i = s
    BY <2>1, <1>8, <1>11, <1>12 DEF new
  <2>2. CASE i # s
    <3>1. shards'[i] = shards[i] /\ records'[i] = records[i]
      BY <2>2, <1>2, <1>3, <1>4
    <3> QED
      BY <3>1 DEF SizeInv
  <2> QED
    BY <2>1, <2>2
<1> QED
  BY <1>12, <1>13, <1>14 DEF SizeInv, StoredKeys, ShardIds

LEMMA UnchangedKeepsSizes ==
    ASSUME SizeInv, UNCHANGED <<shards, records>> PROVE SizeInv'
BY DEF SizeInv, StoredKeys, ShardIds

LEMMA ShardCallKeepsSizes ==
    ASSUME SizeInv, NEW k \in Keys, NEW e \in MaybeRemovedValues,
           ShardAdd(k, e) \/ ShardThrows(k, e)
    PROVE  SizeInv'
<1>1. CASE UNCHANGED <<shards, records>>
  BY <1>1, UnchangedKeepsSizes
<1>2. CASE ShardAppends(k, e) \/ ShardShrinks(k, e)
  BY <1>2, ShardHoldsKeepsSizes DEF ShardAppends, ShardShrinks
<1> QED
  BY <1>1, <1>2 DEF ShardAdd, ShardThrows

LEMMA SizeStep == SizeInv /\ [Next]_vars => SizeInv'
<1> SUFFICES ASSUME SizeInv, [Next]_vars PROVE SizeInv'
  OBVIOUS
<1>1. CASE UNCHANGED vars
  BY <1>1, UnchangedKeepsSizes DEF vars
<1>2. CASE Next
  BY <1>2, EntryTypes, ShardCallKeepsSizes DEF Next, Add, AddThrows, Remove, RemoveThrows
<1> QED
  BY <1>1, <1>2

(* Whatever can be read is stored in the shard of its key, so that the      *)
(* shards together hold it.                                                 *)
LEMMA SizesBoundReads == SizeInv => SizeBoundHolds
<1> SUFFICES ASSUME SizeInv PROVE SizeBoundHolds
  OBVIOUS
<1> DEFINE C == [i \in ShardIds |-> StoredKeys(shards[i])]
           Stored == UNION {C[i] : i \in ShardIds}
           Readable == {k \in Keys : MayHaveValue(k)}
<1>1. PICK F : SumsOf(F, records, ShardIds) /\ UpperSizeBound = F[ShardIds]
  BY UpperSizeBoundIsSum
<1>2. IsFiniteSet(ShardIds)
  BY ShardsAssumption, FS_Interval DEF ShardIds
<1>3. \A i \in ShardIds : /\ IsFiniteSet(C[i])
                          /\ records[i] \in Nat
                          /\ Cardinality(C[i]) <= records[i]
  BY DEF SizeInv
<1>4. Readable \subseteq Stored
  <2> SUFFICES ASSUME NEW k \in Keys, MayHaveValue(k)
               PROVE  \E i \in ShardIds : k \in StoredKeys(shards[i])
    OBVIOUS
  <2>1. shards[ShardId(k)][k] # NoValue
    BY DEF MayHaveValue, GetValue, RemovableGetValue, ShardedGetValue
  <2> QED
    BY <2>1, ShardIdInRange DEF StoredKeys
<1> HIDE DEF C
<1>5. /\ IsFiniteSet(Stored)
      /\ F[ShardIds] \in Nat
      /\ Cardinality(Stored) <= F[ShardIds]
  BY <1>1, <1>2, <1>3, SumBoundsUnion
<1> HIDE DEF Stored, Readable
<1>6. Cardinality(Readable) <= Cardinality(Stored) /\ IsFiniteSet(Readable)
  BY <1>4, <1>5, FS_Subset
<1>7. Cardinality(Readable) \in Nat /\ Cardinality(Stored) \in Nat
  BY <1>5, <1>6, FS_CardinalityType
<1>8. Cardinality(Readable) <= UpperSizeBound
  BY <1>1, <1>5, <1>6, <1>7
<1> QED
  BY <1>8 DEF SizeBoundHolds, Readable

(* getUpperSizeBound is an upper bound: no more keys can be read than it    *)
(* says, however many shards there are, wherever the hash function puts the *)
(* keys, and whichever calls threw and made shards return foreign values.   *)
THEOREM SizeBoundAlwaysHolds == Spec => []SizeBoundHolds
<1> QED
  BY SizeInitially, SizeStep, SizesBoundReads, PTL DEF Spec

-----------------------------------------------------------------------------
(* The command line. *)

(* What the user thinks possible is a set for each key, and the value that  *)
(* the key has is in it.                                                    *)
KnownIsRight ==
    /\ known \in [Keys -> SUBSET (Values \cup {NoValue})]
    /\ \A k \in Keys : RemovableGetValue(k) \in known[k]

DialogueInv == Inv /\ KnownIsRight

-----------------------------------------------------------------------------
(* The answers. *)

LEMMA AnswerType ==
    ASSUME Shapes, NEW k \in Keys
    PROVE  RemovableGetValue(k) \in Values \cup {NoValue}
<1>1. ShardedGetValue(k) \in MaybeRemovedValues \cup {NoValue}
  BY ShardIdInRange DEF Shapes, ShardedGetValue
<1> QED BY <1>1 DEF RemovableGetValue, MaybeRemovedValues

(* A call that leaves the store alone and tells the user what is true.      *)
LEMMA TrueAnswer ==
    ASSUME DialogueInv, NEW k \in Keys, NEW S,
           UNCHANGED vars, LearnAnswer(k, S), RemovableGetValue(k) \in S
    PROVE  DialogueInv'
<1>1. Inv'
  <2>1. [Next]_vars
    OBVIOUS
  <2> QED BY <2>1, InvStep DEF DialogueInv
<1>2. known' = [known EXCEPT ![k] = known[k] \cap S]
  BY DEF LearnAnswer
<1>3. known \in [Keys -> SUBSET (Values \cup {NoValue})]
  BY DEF DialogueInv, KnownIsRight
<1>4. \A x \in Keys : RemovableGetValue(x)' = RemovableGetValue(x)
  BY DEF vars, RemovableGetValue, ShardedGetValue, ShardId
<1>5. \A x \in Keys : RemovableGetValue(x) \in known[x]
  BY DEF DialogueInv, KnownIsRight
<1>6. known' \in [Keys -> SUBSET (Values \cup {NoValue})]
  BY <1>2, <1>3
<1>7. \A x \in Keys : RemovableGetValue(x) \in known'[x]
  BY <1>2, <1>3, <1>5
<1> QED BY <1>1, <1>4, <1>6, <1>7 DEF DialogueInv, KnownIsRight

LEMMA NothingChanges ==
    ASSUME DialogueInv, UNCHANGED vars, LearnNothing
    PROVE  DialogueInv'
<1>1. Inv'
  <2>1. [Next]_vars
    OBVIOUS
  <2> QED BY <2>1, InvStep DEF DialogueInv
<1>2. \A x \in Keys : RemovableGetValue(x)' = RemovableGetValue(x)
  BY DEF vars, RemovableGetValue, ShardedGetValue, ShardId
<1> QED BY <1>1, <1>2 DEF DialogueInv, KnownIsRight, LearnNothing

(* A call that has changed one key to v, or has thrown before it did: the   *)
(* user takes v for the value in the first case only, and otherwise for     *)
(* one of the possible ones.                                                *)
LEMMA ChangeIsExplained ==
    ASSUME DialogueInv, Inv', NEW k \in Keys, NEW v \in Values \cup {NoValue},
           \/ Changes(k, v) /\ LearnChange(k, v)
           \/ (Changes(k, v) \/ ChangesNothing) /\ LearnMaybe(k, v)
    PROVE  DialogueInv'
<1>1. known \in [Keys -> SUBSET (Values \cup {NoValue})]
  BY DEF DialogueInv, KnownIsRight
<1>2. \A x \in Keys : RemovableGetValue(x) \in known[x]
  BY DEF DialogueInv, KnownIsRight
<1>3. CASE Changes(k, v) /\ LearnChange(k, v)
  <2>1. known' = [known EXCEPT ![k] = {v}]
    BY <1>3 DEF LearnChange
  <2>2. known' \in [Keys -> SUBSET (Values \cup {NoValue})]
    BY <2>1, <1>1
  <2>3. \A x \in Keys : known'[x] = IF x = k THEN {v} ELSE known[x]
    BY <2>1, <1>1
  <2>4. \A x \in Keys : RemovableGetValue(x)' \in known'[x]
    BY <2>3, <1>2, <1>3 DEF Changes
  <2> QED BY <2>2, <2>4 DEF DialogueInv, KnownIsRight
<1>4. CASE (Changes(k, v) \/ ChangesNothing) /\ LearnMaybe(k, v)
  <2>1. known' = [known EXCEPT ![k] = known[k] \cup {v}]
    BY <1>4 DEF LearnMaybe
  <2>2. known' \in [Keys -> SUBSET (Values \cup {NoValue})]
    BY <2>1, <1>1
  <2>3. \A x \in Keys : known'[x] = IF x = k THEN known[x] \cup {v} ELSE known[x]
    BY <2>1, <1>1
  <2>4. \A x \in Keys : RemovableGetValue(x)' \in known'[x]
    BY <2>3, <1>2, <1>4 DEF Changes, ChangesNothing
  <2> QED BY <2>2, <2>4 DEF DialogueInv, KnownIsRight
<1> QED BY <1>3, <1>4

-----------------------------------------------------------------------------
(* The handlers. *)

LEMMA HandleAddStep ==
    ASSUME DialogueInv, NEW args, args[1] \in Keys, args[2] \in Values, HandleAdd(args)
    PROVE  DialogueInv'
<1> DEFINE k == args[1]
           v == args[2]
<1>1. k \in Keys /\ v \in Values /\ Inv
  BY DEF DialogueInv
<1>2. \/ Add(k, v) /\ LearnChange(k, v)
      \/ AddThrows(k, v) /\ LearnMaybe(k, v)
  BY DEF HandleAdd
<1> HIDE DEF k, v
<1> QED BY <1>1, <1>2, AddStep, AddThrowsStep, ChangeIsExplained

LEMMA HandleRemoveStep ==
    ASSUME DialogueInv, NEW args, args[1] \in Keys, HandleRemove(args)
    PROVE  DialogueInv'
<1> DEFINE k == args[1]
<1>1. k \in Keys /\ Inv
  BY DEF DialogueInv
<1>2. \/ Remove(k) /\ LearnChange(k, NoValue)
      \/ RemoveThrows(k) /\ LearnMaybe(k, NoValue)
  BY DEF HandleRemove
<1> HIDE DEF k
<1> QED BY <1>1, <1>2, RemoveStep, RemoveThrowsStep, ChangeIsExplained

LEMMA HandleContainsStep ==
    ASSUME DialogueInv, NEW args, args[1] \in Keys, HandleContains(args)
    PROVE  DialogueInv'
<1> DEFINE k == args[1]
<1>1. GetValue(k) = RemovableGetValue(k)
  BY FilterIsTransparent DEF DialogueInv, Inv
<1>2. RemovableGetValue(k) \in Values \cup {NoValue}
  BY AnswerType DEF DialogueInv, Inv
<1>3. UNCHANGED vars
  BY DEF HandleContains
<1>4. CASE Contains(k) /\ LearnAnswer(k, Values)
  BY <1>1, <1>2, <1>3, <1>4, TrueAnswer DEF Contains
<1>5. CASE ~ Contains(k) /\ LearnAnswer(k, {NoValue})
  BY <1>1, <1>3, <1>5, TrueAnswer DEF Contains
<1>6. CASE LearnNothing
  BY <1>3, <1>6, NothingChanges
<1> QED BY <1>4, <1>5, <1>6 DEF HandleContains

LEMMA HandleGetStep ==
    ASSUME DialogueInv, NEW args, args[1] \in Keys, HandleGet(args)
    PROVE  DialogueInv'
<1> DEFINE k == args[1]
<1>1. GetValue(k) = RemovableGetValue(k)
  BY FilterIsTransparent DEF DialogueInv, Inv
<1>2. UNCHANGED vars
  BY DEF HandleGet
<1>3. CASE LearnAnswer(k, {GetValue(k)})
  BY <1>1, <1>2, <1>3, TrueAnswer
<1>4. CASE LearnNothing
  BY <1>2, <1>4, NothingChanges
<1> QED BY <1>3, <1>4 DEF HandleGet

LEMMA HandleKvsStep ==
    ASSUME DialogueInv, NEW name, NEW args, HandleKvs(name, args)
    PROVE  DialogueInv'
<1>1. CASE HandleInvalid
  BY <1>1, NothingChanges DEF HandleInvalid
<1>2. CASE ValidArguments(name, args) /\ name = "add" /\ HandleAdd(args)
  BY <1>2, HandleAddStep DEF ValidArguments, IsKey, IsValue
<1>3. CASE ValidArguments(name, args) /\ HandleRemove(args)
  BY <1>3, HandleRemoveStep DEF ValidArguments, IsKey
<1>4. CASE ValidArguments(name, args) /\ HandleContains(args)
  BY <1>4, HandleContainsStep DEF ValidArguments, IsKey
<1>5. CASE ValidArguments(name, args) /\ HandleGet(args)
  BY <1>5, HandleGetStep DEF ValidArguments, IsKey
<1> QED BY <1>1, <1>2, <1>3, <1>4, <1>5 DEF HandleKvs

-----------------------------------------------------------------------------
(* The loop. *)

LEMMA DialogueInitially == CommandInit => DialogueInv
<1> SUFFICES ASSUME CommandInit PROVE DialogueInv
  OBVIOUS
<1>1. Inv
  BY InvInitially DEF CommandInit
<1>2. \A k \in Keys : RemovableGetValue(k) = NoValue
  BY ShardIdInRange DEF CommandInit, Init, RemovableGetValue, ShardedGetValue
<1>3. known = [k \in Keys |-> {NoValue}]
  BY DEF CommandInit
<1> QED BY <1>1, <1>2, <1>3 DEF DialogueInv, KnownIsRight

LEMMA DialogueStep == DialogueInv /\ [CommandNext]_commandVars => DialogueInv'
<1> SUFFICES ASSUME DialogueInv, [CommandNext]_commandVars PROVE DialogueInv'
  OBVIOUS
<1>1. ASSUME UNCHANGED <<vars, known>> PROVE DialogueInv'
  BY <1>1, NothingChanges DEF LearnNothing
<1>2. ASSUME NEW words \in Lines, ReadUnknown(words) PROVE DialogueInv'
  BY <1>1, <1>2 DEF ReadUnknown
<1>3. ASSUME NEW words \in Lines, Help(words) PROVE DialogueInv'
  BY <1>1, <1>3 DEF Help
<1>4. ASSUME NEW words \in Lines, Stop(words) PROVE DialogueInv'
  BY <1>1, <1>4 DEF Stop
<1>5. ASSUME NEW words \in Lines, RunHandler(words) PROVE DialogueInv'
  BY <1>5, HandleKvsStep DEF RunHandler
<1>6. CASE EndOfInput
  BY <1>1, <1>6 DEF EndOfInput
<1>7. CASE UNCHANGED commandVars
  BY <1>1, <1>7 DEF commandVars
<1>8. CASE ReadAfterEnd
  BY <1>7, <1>8 DEF ReadAfterEnd
<1> QED BY <1>2, <1>3, <1>4, <1>5, <1>6, <1>7, <1>8 DEF CommandNext

(* For any lines typed, and whichever calls threw with whatever effect on   *)
(* the records and the index of a shard: what the user is told by shards    *)
(* whose index is intact never contradicts what such shards told before,    *)
(* also when the index was lost and built anew in between.                  *)
THEOREM DialogueCorrect == CommandSpec => []DialogueIsConsistent
<1>1. DialogueInv => DialogueIsConsistent
  BY DEF DialogueInv, KnownIsRight, DialogueIsConsistent
<1> QED BY <1>1, DialogueInitially, DialogueStep, PTL DEF CommandSpec

-----------------------------------------------------------------------------
(* The program is one of the stacks. *)

(* Every command is a call of the stack, or none: what holds of the stack   *)
(* holds while the program runs.                                            *)
LEMMA CommandCalls == [CommandNext]_commandVars => [Next]_vars
<1> SUFFICES ASSUME CommandNext, ~ UNCHANGED vars PROVE Next
  BY DEF commandVars
<1>1. PICK words \in Lines : RunHandler(words)
  BY DEF CommandNext, ReadUnknown, Help, Stop, EndOfInput, ReadAfterEnd, commandVars
<1> DEFINE name == Command(words)
           args == Tail(words)
<1>2. HandleKvs(name, args)
  BY <1>1 DEF RunHandler
<1> HIDE DEF name, args
<1>3. CASE HandleAdd(args) /\ ValidArguments(name, args) /\ name = "add"
  BY <1>3 DEF HandleAdd, ValidArguments, IsKey, IsValue, Next
<1>4. CASE HandleRemove(args) /\ ValidArguments(name, args)
  BY <1>4 DEF HandleRemove, ValidArguments, IsKey, Next
<1> QED
  BY <1>2, <1>3, <1>4 DEF HandleKvs, HandleInvalid, HandleContains, HandleGet

(* The dialogue is one of those of the stack, so that the three results     *)
(* above hold for the program that main runs.                               *)
THEOREM ProgramIsStack ==
    CommandSpec =>
        []NoFalseNegatives /\ ImplementsRemovableStore /\ []SizeBoundHolds
<1>1. CommandInit => Init
  BY DEF CommandInit
<1>2. CommandSpec => Spec
  BY <1>1, CommandCalls, PTL DEF CommandSpec, Spec
<1> QED
  BY <1>2, FilterIsSafe, Implementation, SizeBoundAlwaysHolds, PTL

=============================================================================
