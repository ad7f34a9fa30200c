------------------------------ MODULE Migrator ------------------------------
(***************************************************************************)
(* cmd/migrator: instances started by deployments, perhaps at the same     *)
(* time, each apply the pending files of the migrations directory under a  *)
(* session advisory lock, one transaction per file.  An instance is one    *)
(* process and runs once.  Files may be added while instances run, an      *)
(* instance may die at any step, and the server may lose a session whose   *)
(* process is still running.                                               *)
(***************************************************************************)
EXTENDS Integers, SequencesExt, SortedSets

CONSTANTS
    Instances,
    Files,         \* migration files, [version, name]; other names are not matched
    Nobody

ASSUME ConstantsAssumption ==
    /\ \A f \in Files : f.version \in Nat
    /\ Nobody \notin Instances

Versions == {f.version : f \in Files}

VARIABLES
    dir,           \* files of the migrations directory
    lock,          \* the instance whose session holds the advisory lock
    pc,
    todo,          \* per instance: versions still to look at
    applied,       \* per instance: what loadApplied read
    recorded,      \* rows of schema_migrations
    schema,        \* per version: how often its SQL took effect
    found          \* ghost, per instance: versions loadMigrations returned

vars == <<dir, lock, pc, todo, applied, recorded, schema, found>>

\* Positions after the lock was obtained, up to the end of the loop of main.
Locked == {"table", "load", "applied", "loop", "apply"}
Ended == {"done", "failed"}

Init ==
    /\ dir = {}
    /\ lock = Nobody
    /\ pc = [i \in Instances |-> "open"]
    /\ todo = [i \in Instances |-> <<>>]
    /\ applied = [i \in Instances |-> {}]
    /\ recorded = {}
    /\ schema = [v \in Versions |-> 0]
    /\ found = [i \in Instances |-> {}]

Goto(i, from, to) == pc[i] = from /\ pc' = [pc EXCEPT ![i] = to]

\* A release adds a file.
Deploy(f) ==
    /\ f \notin dir
    /\ dir' = dir \union {f}
    /\ UNCHANGED <<lock, pc, todo, applied, recorded, schema, found>>

-----------------------------------------------------------------------------
\* openWithRetry reaches the database before its deadline, and db.Conn a session.
OpenWithRetry(i) ==
    /\ Goto(i, "open", "lock")
    /\ UNCHANGED <<dir, lock, todo, applied, recorded, schema, found>>

\* pg_try_advisory_lock does not wait; the loser exits with an error.
TryAdvisoryLock(i) ==
    /\ \/ lock = Nobody /\ lock' = i /\ Goto(i, "lock", "table")
       \/ lock # Nobody /\ Goto(i, "lock", "failed") /\ UNCHANGED lock
    /\ UNCHANGED <<dir, todo, applied, recorded, schema, found>>

\* Every later statement runs in the session of the instance, which holds the
\* lock as long as it exists.
InSession(i) == lock = i

\* CREATE TABLE IF NOT EXISTS: rows that are there stay.
EnsureTable(i) ==
    /\ InSession(i) /\ Goto(i, "table", "load")
    /\ UNCHANGED <<dir, lock, todo, applied, recorded, schema, found>>

Duplicates(fs) == \E f, g \in fs : f # g /\ f.version = g.version

\* The directory is read without the database; two files of a version are an error.
LoadMigrations(i) ==
    /\ \/ Duplicates(dir) /\ Goto(i, "load", "failed") /\ UNCHANGED <<todo, found>>
       \/ /\ ~Duplicates(dir) /\ Goto(i, "load", "applied")
          /\ found' = [found EXCEPT ![i] = {f.version : f \in dir}]
          /\ todo' = [todo EXCEPT ![i] = Ascending(found'[i])]
    /\ UNCHANGED <<dir, lock, applied, recorded, schema>>

LoadApplied(i) ==
    /\ InSession(i) /\ Goto(i, "applied", "loop")
    /\ applied' = [applied EXCEPT ![i] = recorded]
    /\ UNCHANGED <<dir, lock, todo, recorded, schema, found>>

\* The loop of main: an applied version is skipped.
NextMigration(i) ==
    /\ \/ todo[i] = <<>> /\ Goto(i, "loop", "done") /\ UNCHANGED todo
       \/ /\ todo[i] # <<>> /\ Head(todo[i]) \in applied[i]
          /\ Goto(i, "loop", "loop")
          /\ todo' = [todo EXCEPT ![i] = Tail(@)]
       \/ /\ todo[i] # <<>> /\ Head(todo[i]) \notin applied[i]
          /\ Goto(i, "loop", "apply")
          /\ UNCHANGED todo
    /\ UNCHANGED <<dir, lock, applied, recorded, schema, found>>

\* Mutant of Apply: the statements of the file are not part of the transaction.
ApplyOutsideTx(i) ==
    /\ InSession(i)
    /\ \/ Goto(i, "apply", "loop") /\ recorded' = recorded \union {Head(todo[i])}
       \/ Goto(i, "apply", "failed") /\ UNCHANGED recorded
    /\ todo' = [todo EXCEPT ![i] = Tail(@)]
    /\ schema' = [schema EXCEPT ![Head(todo[i])] = @ + 1]
    /\ UNCHANGED <<dir, lock, applied, found>>

\* The transaction of apply commits: the effects of the file and its row (ON CONFLICT
\* DO NOTHING) become visible together.  The process may not live to see the reply.
Apply(i) ==
    /\ InSession(i)
    /\ Goto(i, "apply", "loop") \/ Goto(i, "apply", "failed")
    /\ todo' = [todo EXCEPT ![i] = Tail(@)]
    /\ schema' = [schema EXCEPT ![Head(todo[i])] = @ + 1]
    /\ recorded' = recorded \union {Head(todo[i])}
    /\ UNCHANGED <<dir, lock, applied, found>>

\* A statement fails, the deadline of openWithRetry passes or the process dies:
\* exit 1, the open transaction is rolled back.
Fail(i) ==
    /\ pc[i] \notin Ended
    /\ pc' = [pc EXCEPT ![i] = "failed"]
    /\ UNCHANGED <<dir, lock, todo, applied, recorded, schema, found>>

\* The server ends a session: its process is gone, or the connection broke under it.
EndSession(i) ==
    /\ lock = i
    /\ lock' = Nobody
    /\ UNCHANGED <<dir, pc, todo, applied, recorded, schema, found>>

-----------------------------------------------------------------------------
Step(i) ==
    \/ OpenWithRetry(i) \/ TryAdvisoryLock(i) \/ EnsureTable(i) \/ LoadMigrations(i)
    \/ LoadApplied(i) \/ NextMigration(i) \/ Apply(i) \/ Fail(i)

Next ==
    \/ \E f \in Files : Deploy(f)
    \/ \E i \in Instances : Step(i) \/ EndSession(i)

Spec == Init /\ [][Next]_vars

-----------------------------------------------------------------------------
(* Properties.                                                             *)

\* Types; what an instance still has to do is part of what it found in the directory.
TypeOK ==
    /\ dir \subseteq Files
    /\ lock \in Instances \union {Nobody}
    /\ pc \in [Instances -> Locked \union Ended \union {"open", "lock"}]
    /\ todo \in [Instances -> Seq(Versions)]
    /\ applied \in [Instances -> SUBSET Versions]
    /\ recorded \subseteq Versions
    /\ schema \in [Versions -> Nat]
    /\ found \in [Instances -> SUBSET Versions]
    /\ \A i \in Instances : ToSet(todo[i]) \subseteq found[i] /\ (pc[i] = "apply" => todo[i] # <<>>)

\* However many instances run at once, die, lose their session or are started
\* again, the SQL of a version takes effect at most once, and it has taken effect
\* exactly if schema_migrations lists the version.
AppliedOnce == \A v \in Versions : schema[v] = IF v \in recorded THEN 1 ELSE 0

\* Of the files an instance found, it has applied those below the one it has come
\* to and, beyond what it found applied, no others: lower versions come first.
InOrder ==
    \A i \in Instances : InSession(i) /\ pc[i] \in {"loop", "apply"} /\ todo[i] # <<>> =>
        \A v \in found[i] : v \in recorded <=> (v \in applied[i] \/ v < Head(todo[i]))

\* An instance that reports success leaves nothing it found in the directory pending.
DoneMeansApplied ==
    \A i \in Instances : pc[i] = "done" => found[i] \subseteq recorded

\* The migrations of a database that several instances work on: each takes effect once,
\* in the order of the versions, and none that was found is left out.
MigratorInv == TypeOK /\ AppliedOnce /\ InOrder /\ DoneMeansApplied

\* What makes it inductive, per instance.  The versions to do are the upper end of those
\* found, in order, and what is no longer among them is recorded; nobody records a
\* version of the holder of the lock behind its back; the lock is not taken twice.
InstanceInv(i) ==
    /\ applied[i] \subseteq recorded
    /\ \A j, k \in 1 .. Len(todo[i]) : j < k => todo[i][j] < todo[i][k]
    /\ \A v \in found[i] \ ToSet(todo[i]), w \in ToSet(todo[i]) : v < w
    /\ pc[i] = "applied" => found[i] \subseteq ToSet(todo[i])
    /\ pc[i] \in {"loop", "apply"} => found[i] \ ToSet(todo[i]) \subseteq recorded
    /\ pc[i] = "apply" => Head(todo[i]) \notin applied[i]
    /\ lock = i => pc[i] \in Locked \union Ended
    /\ lock = i /\ pc[i] \in {"loop", "apply"} => recorded \cap ToSet(todo[i]) \subseteq applied[i]

MigratorIInv ==
    /\ TypeOK /\ AppliedOnce /\ DoneMeansApplied
    /\ IsFiniteSet(dir)
    /\ \A i \in Instances : InstanceInv(i)

=============================================================================
