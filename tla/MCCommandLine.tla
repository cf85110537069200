--------------------------- MODULE MCCommandLine ---------------------------
(* Instances of CommandLine for TLC. *)
EXTENDS CommandLine

MCKeys == {"a", "b", "c"}

(* Two letters are keys and values, one can not be a value. *)
MCValues == {"a", "b"}

MCSeeds == {1, 2}

Number == "a" :> 1 @@ "b" :> 2 @@ "c" :> 3

(* Keys share bits of the filter under one seed or both. *)
MCHashes(seed, k) == {seed * Number[k], seed + Number[k] * Number[k]}

MCHashOf(k) == Number[k]

(* Every command on every key, and every way to get it wrong: no word, an   *)
(* unknown command, too few words, one too many, and words of another       *)
(* length.  One key has two values; two keys that share bits differ.        *)
MCLines ==
    {<<"add", "a", "a">>, <<"add", "a", "b">>, <<"add", "b", "b">>, <<"add", "c", "a">>}
        \cup {<<c, k>> : c \in {"remove", "contains", "get"}, k \in MCKeys}
        \cup {<< >>, <<"drop", "a">>, <<"help", "a">>, <<"stop">>, <<"add", "a">>,
              <<"add", "ab", "a">>, <<"add", "a", "ab">>, <<"remove">>,
              <<"remove", "ab">>, <<"contains", "ab">>, <<"get", "a", "b">>,
              <<"get", "">>}

=============================================================================
