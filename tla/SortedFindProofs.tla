-------------------------- MODULE SortedFindProofs --------------------------
(***************************************************************************)
(* Theorems about SortedFind: the binary search is exact for every file    *)
(* that has at most half as many items as there are positions.             *)
(***************************************************************************)
EXTENDS SortedFind, SequenceTheorems, TLAPS

(* Adding two positions in a file does not wrap. *)
NoOverflow == \A f \in Files : 2 * Len(f) <= IndexMod

LEMMA FileProperties ==
    ASSUME NEW f \in Files
    PROVE  /\ f \in Seq(Keys)
           /\ Len(f) \in Nat
           /\ DOMAIN f = 1 .. Len(f)
           /\ Len(f) < IndexMod
           /\ \A n \in 1 .. Len(f) : f[n] \in Nat
           /\ \A m, n \in 1 .. Len(f) : m < n => f[m] < f[n]
BY FilesAssumption, KeysAreNumbers, LenProperties, ElementOfSeq

(* The interval always brackets the pattern: nothing below firstLeq, and    *)
(* nothing from lastGt on, is equal to it.                                  *)
Brackets ==
    /\ firstLeq > 0 => KeyOfItem(firstLeq) <= pattern
    /\ lastGt < ItemsCount => KeyOfItem(lastGt) > pattern

Inv == TypeOK /\ Brackets /\ FindIsExact

LEMMA InvInit == Init => Inv
<1> SUFFICES ASSUME Init PROVE Inv
  OBVIOUS
<1>1. Len(file) \in Nat /\ (file = << >> \/ Len(file) > 0)
  BY FileProperties, EmptySeq DEF Init
<1>2. TypeOK
  BY <1>1, EmptySeq DEF Init, TypeOK, ItemsCount, NotFound
<1> QED
  BY <1>1, <1>2 DEF Init, Inv, Brackets, FindIsExact, ItemsCount

(* Inside the loop nothing wraps: the probe is strictly inside the interval. *)
LEMMA ProbeInside ==
    ASSUME NoOverflow, TypeOK, pc = "loop"
    PROVE  /\ Width = lastGt - firstLeq
           /\ Width > 1 => Middle \in firstLeq + 1 .. lastGt - 1
<1>1. /\ Len(file) \in Nat /\ Len(file) < IndexMod /\ 2 * Len(file) <= IndexMod
      /\ IndexMod \in Nat \ {0}
      /\ firstLeq \in 0 .. Len(file) /\ lastGt \in 0 .. Len(file)
  BY FileProperties, WidthAssumption DEF TypeOK, NoOverflow, ItemsCount
<1>2. firstLeq <= lastGt
  <2>1. file = << >> => Len(file) = 0
    OBVIOUS
  <2> QED
    BY <1>1, <2>1 DEF TypeOK
<1>3. (lastGt - firstLeq) % IndexMod = lastGt - firstLeq
  BY <1>1, <1>2, Z3
<1>4. ASSUME lastGt - firstLeq > 1
      PROVE  Middle \in firstLeq + 1 .. lastGt - 1
  <2>1. (firstLeq + lastGt) % IndexMod = firstLeq + lastGt
    BY <1>1, <1>4, Z3
  <2>2. (firstLeq + lastGt) \div 2 \in firstLeq + 1 .. lastGt - 1
    BY <1>1, <1>4, Z3
  <2> QED
    BY <2>1, <2>2 DEF Middle, Wrapped
<1> QED
  BY <1>3, <1>4 DEF Width, Wrapped

LEMMA InvStep == NoOverflow /\ Inv /\ [Next]_vars => Inv'
<1> SUFFICES ASSUME NoOverflow, Inv, [Next]_vars PROVE Inv'
  OBVIOUS
<1>1. /\ file \in Files /\ pattern \in Nat
      /\ Len(file) \in Nat /\ DOMAIN file = 1 .. Len(file)
      /\ \A n \in 1 .. Len(file) : file[n] \in Nat
      /\ \A m, n \in 1 .. Len(file) : m < n => file[m] < file[n]
      /\ firstLeq \in 0 .. Len(file) /\ lastGt \in 0 .. Len(file)
      /\ file # << >> => firstLeq < lastGt
  BY FileProperties, KeysAreNumbers DEF Inv, TypeOK, ItemsCount
<1>2. CASE ProbeLow
  <2>1. Middle \in firstLeq + 1 .. lastGt - 1
    BY <1>2, ProbeInside DEF ProbeLow, Inv
  <2>2. /\ firstLeq' = Middle /\ KeyOfItem(Middle) <= pattern
        /\ pc = "loop" /\ pc' = "loop"
        /\ UNCHANGED <<file, pattern, lastGt, pc, result>>
    BY <1>2 DEF ProbeLow
  <2> HIDE DEF Middle
  <2>3. TypeOK'
    BY <1>1, <2>1, <2>2 DEF Inv, TypeOK, ItemsCount
  <2>4. Brackets'
    BY <1>1, <2>1, <2>2 DEF Inv, Brackets, ItemsCount, KeyOfItem
  <2> QED
    BY <2>2, <2>3, <2>4 DEF Inv, FindIsExact
<1>3. CASE ProbeHigh
  <2>1. Middle \in firstLeq + 1 .. lastGt - 1
    BY <1>3, ProbeInside DEF ProbeHigh, Inv
  <2>2. /\ lastGt' = Middle /\ KeyOfItem(Middle) > pattern
        /\ pc = "loop" /\ pc' = "loop"
        /\ UNCHANGED <<file, pattern, firstLeq, pc, result>>
    BY <1>3 DEF ProbeHigh
  <2>3. TypeOK'
    BY <1>1, <2>1, <2>2 DEF Inv, TypeOK, ItemsCount
  <2>4. Brackets'
    BY <1>1, <2>1, <2>2 DEF Inv, Brackets, ItemsCount, KeyOfItem
  <2> QED
    BY <2>2, <2>3, <2>4 DEF Inv, FindIsExact
<1>4. CASE Answer
  <2>1. Width = lastGt - firstLeq
    BY <1>4, ProbeInside DEF Answer, Inv
  <2>2. lastGt <= firstLeq + 1
    BY <1>1, <1>4, <2>1 DEF Answer
  <2> DEFINE found == firstLeq < Len(file) /\ file[firstLeq + 1] = pattern
  <2>3. /\ UNCHANGED <<file, pattern, firstLeq, lastGt>> /\ pc' = "done"
        /\ result' = IF found THEN firstLeq ELSE NotFound
    BY <1>4 DEF Answer, ItemsCount, KeyOfItem
  <2>4. ASSUME NEW n \in 1 .. Len(file), file[n] = pattern
        PROVE  n = firstLeq + 1 /\ found
    <3>1. file # << >> /\ lastGt = firstLeq + 1
      <4>1. file # << >>
        BY <1>1, EmptySeq
      <4> QED
        BY <1>1, <2>2, <4>1
    <3>2. ~ (n < firstLeq + 1)
      <4> SUFFICES ASSUME n < firstLeq + 1 PROVE FALSE
        OBVIOUS
      <4>1. firstLeq > 0 /\ firstLeq + 1 \in 1 .. Len(file)
        BY <1>1, <3>1
      <4>2. file[firstLeq + 1] <= pattern
        BY <4>1 DEF Inv, Brackets, KeyOfItem
      <4> QED
        BY <1>1, <2>4, <4>1, <4>2
    <3>3. ~ (n > firstLeq + 1)
      <4> SUFFICES ASSUME n > firstLeq + 1 PROVE FALSE
        OBVIOUS
      <4>1. lastGt < Len(file) /\ lastGt + 1 \in 1 .. Len(file) /\ lastGt + 1 <= n
        BY <1>1, <3>1
      <4>2. file[lastGt + 1] > pattern
        BY <4>1 DEF Inv, Brackets, KeyOfItem, ItemsCount
      <4> QED
        BY <1>1, <2>4, <4>1, <4>2
    <3>4. n = firstLeq + 1
      BY <1>1, <3>2, <3>3
    <3> QED
      BY <1>1, <2>4, <3>4
  <2>5. found => firstLeq \in 0 .. Len(file) - 1 /\ firstLeq + 1 \in 1 .. Len(file)
    BY <1>1
  <2>6. TypeOK'
    BY <1>1, <2>3, <2>5 DEF Inv, TypeOK, ItemsCount
  <2>7. Brackets'
    BY <2>3 DEF Inv, Brackets, ItemsCount, KeyOfItem
  <2>8. FindIsExact'
    BY <1>1, <2>3, <2>4, <2>5 DEF FindIsExact, KeyOfItem, NotFound
  <2> QED
    BY <2>6, <2>7, <2>8 DEF Inv
<1>5. CASE UNCHANGED vars
  BY <1>5 DEF vars, Inv, TypeOK, Brackets, FindIsExact, ItemsCount, KeyOfItem
<1> QED
  BY <1>2, <1>3, <1>4, <1>5 DEF Next

LEMMA InvAlways == NoOverflow /\ Spec => []Inv
<1>1. NoOverflow /\ Inv /\ [Next]_vars => Inv'
  BY InvStep
<1>2. CASE NoOverflow
  <2>1. Inv /\ [Next]_vars => Inv'
    BY <1>1, <1>2
  <2> QED
    BY <2>1, InvInit, PTL DEF Spec
<1> QED
  BY <1>2

(* The search interval stays inside the file, for every file that has at    *)
(* most half as many items as IndexT has values.                            *)
THEOREM TypeCorrect == NoOverflow /\ Spec => []TypeOK
<1>1. Inv => TypeOK
  BY DEF Inv
<1> QED
  BY <1>1, InvAlways, PTL

(* For every such file find returns nothing iff no item equals the pattern, *)
(* and otherwise an item that does.                                         *)
THEOREM FindCorrect == NoOverflow /\ Spec => []FindIsExact
<1>1. Inv => FindIsExact
  BY DEF Inv
<1> QED
  BY <1>1, InvAlways, PTL

=============================================================================
