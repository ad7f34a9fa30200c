----------------------------- MODULE MCCommands -----------------------------
(***************************************************************************)
(* Instances of Migrator and DlqReplay for TLC.  The two commands share no *)
(* state, so a behaviour runs instances of one of them and leaves the      *)
(* state of the other alone.                                               *)
(***************************************************************************)
EXTENDS Migrator, TLC

CONSTANTS m1, Matches, NoMatch, MatchOf, Cmds, Limit, MaxFaults

VARIABLES command, dlq, arrived, guard, cmd, faults, copies, purged, replays

Dlq == INSTANCE DlqReplay

dlqVars == <<dlq, arrived, guard, cmd, faults, copies, purged, replays>>

ASSUME DlqConstants == Dlq!ConstantsOK

\* Three versions, two files of the third: a merge of two branches.
MCFiles == {[version |-> 1, name |-> "schema"], [version |-> 2, name |-> "index"],
            [version |-> 3, name |-> "chat"], [version |-> 3, name |-> "teams"]}

\* Two messages of one match around one whose payload has no match_id.
ThreeMessages == (1 :> m1) @@ (2 :> NoMatch) @@ (3 :> m1)

MCInit == command \in {"migrator", "dlq"} /\ Init /\ Dlq!Init

MigratorStep == command = "migrator" /\ Next /\ UNCHANGED <<command, dlqVars>>

DlqStep == command = "dlq" /\ Dlq!Next /\ UNCHANGED <<command, vars>>

MCNext == MigratorStep \/ DlqStep

MCSpec == MCInit /\ [][MCNext]_<<command, vars, dlqVars>> /\ Dlq!Fairness

-----------------------------------------------------------------------------
(* The properties of the dead-letter command, as DlqReplay states them.    *)

\* Types, and a message leaves the dead-letter stream only copied to its queue or purged.
DlqInv == Dlq!TypeOK /\ Dlq!NoneLost

\* A match is replayed at most once while its guard key lives.
GuardedOnce == Dlq!GuardedOnce

\* No message is kept in the dead-letter stream for ever by its guard key.
Drains == Dlq!Drains

=============================================================================
