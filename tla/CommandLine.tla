---------------------------- MODULE CommandLine ----------------------------
(***************************************************************************)
(* The loop of CommandLineInterface and the handlers of KvsCommandHandler, *)
(* over the stack of wrappers.  main builds the stack of one shard and no  *)
(* filter, which is one of those that StoreStack describes.                *)
(*                                                                         *)
(* A line is the sequence of its words.  A word is a key if it has the     *)
(* length of a key and a value if it has the length of a value; a word of  *)
(* one letter is both in the program that main builds.                     *)
(***************************************************************************)
EXTENDS StoreStack, Sequences, TLC

CONSTANTS
    Lines   \* What the user may type: sequences of words.

ASSUME LinesAssumption == \A words \in Lines : words \in Seq(STRING)

VARIABLES
    running,    \* running_
    atEnd,      \* The input has ended: getline fails and leaves the line empty.
    known       \* History: the values that each key may have, as far as the
                \* user can tell from the answers so far, leaving out those of
                \* shards that had lost entries.

commandVars == <<vars, running, atEnd, known>>

(* argsLen_ of the handlers of the store; they use no further argument. *)
ArgsLen == "add" :> 2 @@ "remove" :> 1 @@ "contains" :> 1 @@ "get" :> 1

(* The handlers that main adds to help and stop. *)
StoreCommands == DOMAIN ArgsLen

CommandInit ==
    /\ Init
    /\ running = TRUE
    /\ atEnd = FALSE
    /\ known = [k \in Keys |-> {NoValue}]

-----------------------------------------------------------------------------
(* What the user learns: an answer narrows what the key may have, a call    *)
(* that returned replaces it, and one that threw adds to it.                *)

LearnNothing == UNCHANGED known

LearnAnswer(k, S) == known' = [known EXCEPT ![k] = @ \cap S]

LearnChange(k, v) == known' = [known EXCEPT ![k] = {v}]

LearnMaybe(k, v) == known' = [known EXCEPT ![k] = @ \cup {v}]

Contains(k) == GetValue(k) # NoValue

(* fromString takes the words of the right length and throws on others. *)
IsKey(word) == word \in Keys

IsValue(word) == word \in Values

EnoughArguments(name, args) == Len(args) >= ArgsLen[name]

(* The arguments are counted and converted before the store is called. *)
ValidArguments(name, args) ==
    /\ EnoughArguments(name, args)
    /\ IsKey(args[1])
    /\ name = "add" => IsValue(args[2])

(* A handler that does not return has printed what was thrown. *)
HandleAdd(args) ==
    LET k == args[1]
        v == args[2]
    IN  \/ Add(k, v) /\ LearnChange(k, v)
        \/ AddThrows(k, v) /\ LearnMaybe(k, v)

HandleRemove(args) ==
    LET k == args[1]
    IN  \/ Remove(k) /\ LearnChange(k, NoValue)
        \/ RemoveThrows(k) /\ LearnMaybe(k, NoValue)

(* "true" or "false"; or what the read of a record has thrown, or any of    *)
(* them if the shard has lost entries.                                      *)
HandleContains(args) ==
    LET k == args[1]
    IN  /\ \/ Intact(k) /\ Contains(k) /\ LearnAnswer(k, Values)
           \/ Intact(k) /\ ~ Contains(k) /\ LearnAnswer(k, {NoValue})
           \/ LearnNothing
        /\ UNCHANGED vars

(* The value or "Not found"; or what the read of a record has thrown, or    *)
(* any answer if the shard has lost entries.                                *)
HandleGet(args) ==
    LET k == args[1]
    IN  /\ \/ Intact(k) /\ LearnAnswer(k, {GetValue(k)})
           \/ LearnNothing
        /\ UNCHANGED vars

(* handle: too few arguments or words of another length change nothing. *)
HandleInvalid == LearnNothing /\ UNCHANGED vars

HandleKvs(name, args) ==
    \/ ~ ValidArguments(name, args) /\ HandleInvalid
    \/ /\ ValidArguments(name, args)
       /\ \/ name = "add" /\ HandleAdd(args)
          \/ name = "remove" /\ HandleRemove(args)
          \/ name = "contains" /\ HandleContains(args)
          \/ name = "get" /\ HandleGet(args)

-----------------------------------------------------------------------------
(* run *)

Command(words) == IF words = << >> THEN "" ELSE Head(words)

Read ==
    /\ running
    /\ ~ atEnd
    /\ UNCHANGED atEnd

(* A line of no words, or an unknown command. *)
ReadUnknown(words) ==
    /\ Read
    /\ Command(words) \notin StoreCommands \cup {"help", "stop"}
    /\ UNCHANGED <<vars, running, known>>

Help(words) ==
    /\ Read
    /\ Command(words) = "help"
    /\ UNCHANGED <<vars, running, known>>

Stop(words) ==
    /\ Read
    /\ Command(words) = "stop"
    /\ running' = FALSE
    /\ UNCHANGED <<vars, known>>

(* handle catches everything, so that the loop goes on. *)
RunHandler(words) ==
    /\ Read
    /\ Command(words) \in StoreCommands
    /\ HandleKvs(Command(words), Tail(words))
    /\ UNCHANGED running

(* The input ends: from now on getline fails and leaves the line empty. *)
EndOfInput ==
    /\ running
    /\ ~ atEnd
    /\ atEnd' = TRUE
    /\ UNCHANGED <<vars, running, known>>

(* An empty line is no reason to leave the loop. *)
ReadAfterEnd ==
    /\ running
    /\ atEnd
    /\ UNCHANGED commandVars

CommandNext ==
    \/ \E words \in Lines :
          \/ ReadUnknown(words)
          \/ Help(words)
          \/ Stop(words)
          \/ RunHandler(words)
    \/ EndOfInput
    \/ ReadAfterEnd

CommandSpec == CommandInit /\ [][CommandNext]_commandVars

-----------------------------------------------------------------------------
(* Properties. *)

(* The answers of a dialogue never contradict each other: whatever calls    *)
(* failed, whatever was typed wrongly, and whatever the wrappers had        *)
(* already done when a shard threw, some history of the keys explains all   *)
(* that the user was told by shards whose index was intact.  In between,    *)
(* calls that threw may have cost a shard entries of other keys; when a     *)
(* shrink has mended the index, the answers agree again with those before.  *)
DialogueIsConsistent == \A k \in Keys : known[k] # {}

=============================================================================
