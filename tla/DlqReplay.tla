------------------------------ MODULE DlqReplay ------------------------------
(***************************************************************************)
(* cmd/dlq: an operator moves messages of a dead-letter stream back to     *)
(* their queue or deletes them.  A command reads the newest messages once  *)
(* and then works through what it read, while workers dead-letter more and *)
(* other commands do the same; Redis forgets a guard key after seven days. *)
(* Only list is left out: it changes nothing.  A dry run reads and stops.  *)
(***************************************************************************)
EXTENDS Integers, SequencesExt, SortedSets

CONSTANTS
    Matches, NoMatch,
    MatchOf,       \* message ID -> extractMatchID of its payload
    Cmds,          \* running commands
    Limit,         \* -limit
    MaxFaults      \* bound: failed calls and killed commands

Ids == DOMAIN MatchOf

\* What the models of this module assume of its parameters.
ConstantsOK ==
    /\ Ids \subseteq Nat /\ NoMatch \notin Matches
    /\ MatchOf \in [Ids -> Matches \union {NoMatch}]
    /\ Limit \in Nat \ {0} /\ MaxFaults \in Nat

VARIABLES
    dlq,           \* messages of the dead-letter stream
    arrived,       \* messages that were ever dead-lettered
    guard,         \* matches with a guard key
    cmd,           \* per command: position, messages read and not handled yet
    faults,
    copies,        \* per message: how often it was appended to its queue
    purged,        \* messages an operator deleted
    replays        \* per match: messages replayed under the present guard key

vars == <<dlq, arrived, guard, cmd, faults, copies, purged, replays>>

Idle == [pc |-> "idle", todo |-> <<>>]

TypeOK ==
    /\ dlq \subseteq arrived /\ arrived \subseteq Ids /\ purged \subseteq arrived
    /\ guard \subseteq Matches
    /\ cmd \in [Cmds -> [pc : {"idle", "replay", "script", "purge"}, todo : Seq(Ids)]]
    /\ \A c \in Cmds : cmd[c].todo = <<>> <=> cmd[c].pc = "idle"
    /\ faults \in 0..MaxFaults
    /\ copies \in [Ids -> Nat] /\ replays \in [Matches -> Nat]

Init ==
    /\ dlq = {} /\ arrived = {} /\ guard = {} /\ purged = {}
    /\ cmd = [c \in Cmds |-> Idle]
    /\ faults = 0
    /\ copies = [i \in Ids |-> 0]
    /\ replays = [m \in Matches |-> 0]

Fault == faults < MaxFaults /\ faults' = faults + 1

\* routeDLQ of a worker: IDs grow.
DeadLetter(i) ==
    /\ i \notin arrived /\ \A j \in arrived : j < i
    /\ arrived' = arrived \union {i}
    /\ dlq' = dlq \union {i}
    /\ UNCHANGED <<guard, cmd, faults, copies, purged, replays>>

\* XREVRANGE + - COUNT limit: the newest first.
XRevRange ==
    LET n == Cardinality(dlq)
    IN  [k \in 1 .. IF n < Limit THEN n ELSE Limit |-> Ascending(dlq)[n + 1 - k]]

Read(c, action) ==
    /\ cmd[c].pc = "idle" /\ dlq # {}
    /\ cmd' = [cmd EXCEPT ![c] = [pc |-> action, todo |-> XRevRange]]
    /\ UNCHANGED <<dlq, arrived, guard, faults, copies, purged, replays>>

-----------------------------------------------------------------------------
(* cmdReplay, one message.                                                 *)

Done(c) == IF Len(cmd[c].todo) = 1 THEN Idle ELSE [pc |-> "replay", todo |-> Tail(cmd[c].todo)]

\* Mutant of Guard: SET instead of SETNX.
GuardOverwrites(c) ==
    LET m == MatchOf[Head(cmd[c].todo)] IN
    /\ cmd[c].pc = "replay"
    /\ guard' = IF m = NoMatch THEN guard ELSE guard \union {m}
    /\ cmd' = [cmd EXCEPT ![c].pc = "script"]
    /\ UNCHANGED <<dlq, arrived, faults, copies, purged, replays>>

\* SETNX of the guard key.  A key that is there, and an error, skip the message,
\* the latter whether or not the server has set the key.
Guard(c) ==
    LET m == MatchOf[Head(cmd[c].todo)] IN
    /\ cmd[c].pc = "replay"
    /\ \/ /\ m = NoMatch
          /\ cmd' = [cmd EXCEPT ![c].pc = "script"]
          /\ UNCHANGED <<guard, faults>>
       \/ /\ m # NoMatch /\ m \notin guard
          /\ guard' = guard \union {m}
          /\ cmd' = [cmd EXCEPT ![c].pc = "script"]
          /\ UNCHANGED faults
       \/ /\ m \in guard
          /\ cmd' = [cmd EXCEPT ![c] = Done(c)]
          /\ UNCHANGED <<guard, faults>>
       \/ /\ m # NoMatch /\ Fault
          /\ guard' \in {guard, guard \union {m}}
          /\ cmd' = [cmd EXCEPT ![c] = Done(c)]
    /\ UNCHANGED <<dlq, arrived, copies, purged, replays>>

\* luaReplayAtomic: XADD to the queue, XDEL from the dead-letter stream.  It adds
\* the copy also when the message is gone from the stream by now.
Script(c) ==
    LET i == Head(cmd[c].todo) IN
    /\ cmd[c].pc = "script"
    /\ dlq' = dlq \ {i}
    /\ copies' = [copies EXCEPT ![i] = @ + 1]
    /\ replays' = [m \in Matches |-> IF m = MatchOf[i] THEN replays[m] + 1 ELSE replays[m]]
    /\ cmd' = [cmd EXCEPT ![c] = Done(c)]
    /\ UNCHANGED <<arrived, guard, faults, purged>>

\* Mutant of ScriptFails: the message is deleted although nothing was appended.
ScriptFailsDeletes(c) ==
    /\ cmd[c].pc = "script"
    /\ Fault
    /\ dlq' = dlq \ {Head(cmd[c].todo)}
    /\ cmd' = [cmd EXCEPT ![c] = Done(c)]
    /\ UNCHANGED <<arrived, guard, copies, purged, replays>>

\* The script call fails: the message stays, and so does its guard key.
ScriptFails(c) ==
    /\ cmd[c].pc = "script"
    /\ Fault
    /\ cmd' = [cmd EXCEPT ![c] = Done(c)]
    /\ UNCHANGED <<dlq, arrived, guard, copies, purged, replays>>

-----------------------------------------------------------------------------
\* cmdPurge: one XDEL of all that was read.
Purge(c) ==
    /\ cmd[c].pc = "purge"
    /\ dlq' = dlq \ ToSet(cmd[c].todo)
    /\ purged' = purged \union ToSet(cmd[c].todo)
    /\ cmd' = [cmd EXCEPT ![c] = Idle]
    /\ UNCHANGED <<arrived, guard, faults, copies, replays>>

\* An error of XREVRANGE or XDEL, or a signal, ends the command.
Abort(c) ==
    /\ cmd[c].pc # "idle"
    /\ Fault
    /\ cmd' = [cmd EXCEPT ![c] = Idle]
    /\ UNCHANGED <<dlq, arrived, guard, copies, purged, replays>>

\* Mutant of GuardExpires: the key is set without a TTL.
GuardNeverExpires(m) == m \in guard /\ FALSE /\ UNCHANGED vars

\* After seven days, which no command spends between SETNX and the script.
GuardExpires(m) ==
    /\ m \in guard
    /\ \A c \in Cmds : cmd[c].pc = "script" => MatchOf[Head(cmd[c].todo)] # m
    /\ guard' = guard \ {m}
    /\ replays' = [replays EXCEPT ![m] = 0]
    /\ UNCHANGED <<dlq, arrived, cmd, faults, copies, purged>>

-----------------------------------------------------------------------------
CmdStep(c) == Guard(c) \/ Script(c) \/ ScriptFails(c) \/ Purge(c) \/ Abort(c)

Next ==
    \/ \E i \in Ids : DeadLetter(i)
    \/ \E c \in Cmds : Read(c, "replay") \/ Read(c, "purge") \/ CmdStep(c)
    \/ \E m \in Matches : GuardExpires(m)

\* An operator who runs replay until the stream is empty; Redis expires keys.
Fairness ==
    /\ \A c \in Cmds : WF_vars(Read(c, "replay")) /\ WF_vars(CmdStep(c))
    /\ \A m \in Matches : WF_vars(GuardExpires(m))

Spec == Init /\ [][Next]_vars /\ Fairness

-----------------------------------------------------------------------------
(* Properties.                                                             *)

\* Whatever fails or is interrupted, a message stays in the stream until a copy of
\* it is in its queue or an operator deleted it.
NoneLost == \A i \in arrived : i \in dlq \/ copies[i] > 0 \/ i \in purged

\* Commands that run at the same time, or again after a failure, replay a match at
\* most once while its guard key lives.
GuardedOnce == \A m \in guard : replays[m] <= 1

\* What makes NoneLost and GuardedOnce inductive: a command works on messages that were
\* dead-lettered; a command between SETNX and the script holds the key of its match,
\* alone and with nothing replayed under it, and without a key nothing counts as replayed.
AtScript(c, m) == cmd[c].pc = "script" /\ MatchOf[Head(cmd[c].todo)] = m

ReplayInv ==
    /\ TypeOK /\ NoneLost /\ GuardedOnce
    /\ IsFiniteSet(arrived)
    /\ \A c \in Cmds : ToSet(cmd[c].todo) \subseteq arrived
    /\ \A m \in Matches : m \notin guard => replays[m] = 0
    /\ \A c \in Cmds, m \in Matches : AtScript(c, m) => m \in guard /\ replays[m] = 0
    /\ \A c, d \in Cmds, m \in Matches : c # d /\ AtScript(c, m) => ~AtScript(d, m)

\* The guard key is set before the script runs, so a replay that fails blocks its
\* message for as long as the key lives, and newer messages of the same match stand
\* before it; but no message is blocked for ever.
Drains == \A i \in Ids : i \in dlq ~> i \notin dlq

=============================================================================
