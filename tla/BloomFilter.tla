---------------------------- MODULE BloomFilter ----------------------------
(***************************************************************************)
(* BloomFilter: a vector of bits, at first empty, and the hash seeds that  *)
(* the constructor draws at random.  Two filters have seeds of their own,  *)
(* so that the bits of one say nothing to the other.                       *)
(***************************************************************************)
EXTENDS Naturals, FiniteSets

CONSTANTS
    Seeds,          \* What the constructor may draw: a vector of seeds.
    Hashes(_, _),   \* The hash values of an element, one for each seed.
    SizeMultiplier  \* Bits for each element reserved (sizeMultiplier_).

ASSUME SizeMultiplierAssumption == SizeMultiplier \in Nat \ {0}

NewFilter(seed) == [seed |-> seed, size |-> 0, bits |-> {}]

(* reserve: called once for each filter, before anything is added. *)
Reserve(filter, n) == [filter EXCEPT !.size = n * SizeMultiplier]

(* The indexes of an element.  The size must not be zero: add and           *)
(* mightContain throw when the filter has no bits.                          *)
Positions(filter, x) == {h % filter.size : h \in Hashes(filter.seed, x)}

AddAll(filter, S) ==
    [filter EXCEPT !.bits = @ \cup UNION {Positions(filter, x) : x \in S}]

MightContain(filter, x) == Positions(filter, x) \subseteq filter.bits

=============================================================================
