-------------------------------- MODULE Shard --------------------------------
(***************************************************************************)
(* What a store promises of its records when calls of add throw: a record  *)
(* that was appended is never lost, and an index that no longer leads to   *)
(* the last records is built anew by the next shrink that returns.  The    *)
(* wrappers above a store (StoreStack) rely on this and on no more.        *)
(***************************************************************************)
EXTENDS Integers, FiniteSets

CONSTANTS
    Keys,       \* The keys a client may use.
    Values,     \* The values a client may store.
    NoValue     \* What the record of an absent key would have.

VARIABLES
    store,      \* The value that the last record of each key has.
    records,    \* What getUpperSizeBound returns: the number of records.
    lost,       \* Whether the index does not lead to all last records.
    found       \* The keys for which getValue returns or throws something.

vars == <<store, records, lost, found>>

StoredKeys == {k \in Keys : store[k] # NoValue}

Init ==
    /\ store = [k \in Keys |-> NoValue]
    /\ records = 0
    /\ lost = FALSE
    /\ found = {}

Stores(k, v) == store' = [store EXCEPT ![k] = v]

Appends == records' = records + 1

(* One record for each key is left. *)
Shrinks(k) == records' = Cardinality(StoredKeys \cup {k})

(* add returns.  A shrink builds the index anew. *)
Returns(k) ==
    \/ Appends /\ UNCHANGED lost
    \/ Shrinks(k) /\ lost' = FALSE

(* add throws when the record has been appended, and may have lost entries  *)
(* of any keys; the data may be shrunk, with the old positions indexed.     *)
Throws(k) ==
    \/ Appends /\ lost' \in {lost, TRUE}
    \/ Shrinks(k) /\ lost' = TRUE

(* Entries that were lost hide records, but make none up. *)
Leads ==
    /\ found \subseteq StoredKeys
    /\ lost \/ found = StoredKeys

Add(k, v) ==
    /\ Stores(k, v)
    /\ Returns(k) \/ Throws(k)

Next == Leads' /\ \E k \in Keys, v \in Values : Add(k, v)

Spec == Init /\ [][Next]_vars

=============================================================================
