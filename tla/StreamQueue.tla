----------------------------- MODULE StreamQueue -----------------------------
(***************************************************************************)
(* A Redis-Streams work queue (internal/queue/redisstreams) and the        *)
(* processes that consume it (internal/worker/runner.go).  Each process    *)
(* runs two goroutines: the loop of Run, which pops a batch and handles it *)
(* task by task, and staleRecoveryLoop, which takes over messages that     *)
(* have been pending for too long.                                         *)
(*                                                                         *)
(* Every Redis command is one step; Retry, routeDLQ, requeue and the stale *)
(* recovery each append a copy first and acknowledge the original after,   *)
(* so a crash, an error or the other goroutine can come in between.        *)
(***************************************************************************)
EXTENDS Integers, Sequences, FiniteSets

CONSTANTS
    Tasks,           \* task payloads
    Workers,         \* consumer processes of the group
    Batch,           \* messages per Pop
    MaxRetries,      \* RetryPolicy.MaxRetries, 0 = retry for ever
    MaxLen,          \* QUEUE_MAX_LEN: approximate trimming, 0 = none
    GroupFirst,      \* TRUE: the group exists before the first Push
    MaxMsgs,         \* bound: messages ever added to the stream
    MaxFaults        \* bound: crashes, failed calls and premature claims

ASSUME ConstantsAssumption ==
    /\ Batch \in Nat \ {0}
    /\ MaxRetries \in Nat /\ MaxLen \in Nat
    /\ GroupFirst \in BOOLEAN
    /\ MaxMsgs \in Nat /\ MaxFaults \in Nat

VARIABLES
    log,             \* the stream: message number i is the i-th XADD
    trimmed,         \* messages up to this number were trimmed away
    groupUp,         \* the consumer group exists
    cursor,          \* last message delivered to the group
    pel,             \* pending entries list: delivered, not acknowledged
    dlq,             \* the dead-letter stream
    work,            \* per worker: the loop of Run
    claim,           \* per worker: staleRecoveryLoop
    faults,          \* faults so far
    (* history, read by the properties only *)
    skipped,         \* messages that were already there when the group was created
    latest,          \* per task, its newest message (0: never pushed)
    fails,           \* per task, how often a handler answered Retry or panicked
    settled          \* tasks a handler finished (Success, Drop) or the DLQ received

streamVars  == <<log, trimmed, latest>>
groupVars   == <<groupUp, cursor, skipped>>
vars == <<log, trimmed, groupUp, cursor, pel, dlq, work, claim, faults,
          skipped, latest, fails, settled>>

Max2(a, b) == IF a >= b THEN a ELSE b

\* A message: its task, the field "r" and the "_retry" member that stale recovery
\* writes into the payload (0: absent).  "from" is history: the message it copies.
Message == [task : Tasks, r : Nat, p : Nat, from : Nat]

\* Run: the larger of the two counters is the task's retry count.
RetryCount(i) == Max2(log[i].r, log[i].p)

ShouldDLQ(n) == MaxRetries > 0 /\ n > MaxRetries

\* Messages are handled in stream order.
IsFirst(i, S) == i \in S /\ \A j \in S : i <= j

Free == [pc |-> "idle", ids |-> {}]

-----------------------------------------------------------------------------
Init ==
    /\ log = <<>> /\ trimmed = 0
    /\ groupUp = GroupFirst /\ cursor = 0 /\ skipped = 0
    /\ pel = {} /\ dlq = {}
    /\ work = [w \in Workers |-> Free]
    /\ claim = [w \in Workers |-> Free]
    /\ faults = 0
    /\ latest = [t \in Tasks |-> 0]
    /\ fails = [t \in Tasks |-> 0]
    /\ settled = {}

\* XADD, with MAXLEN ~ when configured: Redis may trim the oldest messages, delivered
\* or not, as long as MaxLen remain.
XAdd(msg) ==
    /\ Len(log) < MaxMsgs                                  \* bound
    /\ log' = Append(log, msg)
    /\ latest' = [latest EXCEPT ![msg.task] = Len(log) + 1]
    /\ trimmed' \in IF MaxLen = 0 THEN {trimmed}
                    ELSE trimmed .. Max2(trimmed, Len(log) + 1 - MaxLen)

\* Some step failed or came at a bad moment; there are at most MaxFaults of them.
Fault == faults < MaxFaults /\ faults' = faults + 1

-----------------------------------------------------------------------------
(* Producers and the group.                                                *)

Push(t) ==
    /\ latest[t] = 0
    /\ XAdd([task |-> t, r |-> 0, p |-> 0, from |-> 0])
    /\ UNCHANGED <<groupVars, pel, dlq, work, claim, faults, fails, settled>>

\* ensureGroup: XGROUP CREATE ... "$" starts after the messages already present.
EnsureGroup ==
    /\ ~groupUp
    /\ groupUp' = TRUE
    /\ cursor' = Len(log) /\ skipped' = Len(log)
    /\ UNCHANGED <<streamVars, pel, dlq, work, claim, faults, fails, settled>>

-----------------------------------------------------------------------------
(* The loop of Run.                                                        *)

\* XREADGROUP ">": the next messages after the cursor that still exist.
Pop(w) ==
    LET from == Max2(cursor, trimmed)
        upto == IF from + Batch < Len(log) THEN from + Batch ELSE Len(log)
    IN
    /\ groupUp
    /\ work[w].pc = "idle"
    /\ from < Len(log)
    /\ work' = [work EXCEPT ![w] = [pc |-> "process", ids |-> from + 1 .. upto]]
    /\ pel' = pel \union (from + 1 .. upto)
    /\ cursor' = upto
    /\ UNCHANGED <<streamVars, groupUp, skipped, dlq, claim, faults, fails, settled>>

\* The worker is done with message i of its batch.
Finish(w, i) ==
    LET rest == work[w].ids \ {i}
    IN  work' = [work EXCEPT ![w] = [pc |-> IF rest = {} THEN "idle" ELSE "process", ids |-> rest]]

\* Process returns Success or Drop, which Run acknowledges alike.
HandleOK(w, i) ==
    /\ work[w].pc = "process" /\ IsFirst(i, work[w].ids)
    /\ settled' = settled \union {log[i].task}
    /\ work' = [work EXCEPT ![w].pc = "ack"]
    /\ UNCHANGED <<streamVars, groupVars, pel, dlq, claim, faults, fails>>

\* Process returns Retry or panics; Retry counts it and either sleeps before the
\* requeue or routes to the DLQ.
HandleRetry(w, i) ==
    /\ work[w].pc = "process" /\ IsFirst(i, work[w].ids)
    /\ fails' = [fails EXCEPT ![log[i].task] = fails[log[i].task] + 1]
    /\ work' = [work EXCEPT ![w].pc = IF ShouldDLQ(RetryCount(i) + 1) THEN "dlq" ELSE "backoff"]
    /\ UNCHANGED <<streamVars, groupVars, pel, dlq, claim, faults, settled>>

\* requeue: the copy carries the new count in "r" and the payload unchanged.
Requeue(w, i) ==
    /\ work[w].pc = "backoff" /\ IsFirst(i, work[w].ids)
    /\ XAdd([task |-> log[i].task, r |-> RetryCount(i) + 1, p |-> log[i].p, from |-> i])
    /\ work' = [work EXCEPT ![w].pc = "ack"]
    /\ UNCHANGED <<groupVars, pel, dlq, claim, faults, fails, settled>>

\* routeDLQ: XADD to the dead-letter stream.
RouteDLQ(w, i) ==
    /\ work[w].pc = "dlq" /\ IsFirst(i, work[w].ids)
    /\ dlq' = dlq \union {[task |-> log[i].task, r |-> RetryCount(i) + 1]}
    /\ settled' = settled \union {log[i].task}
    /\ work' = [work EXCEPT ![w].pc = "ack"]
    /\ UNCHANGED <<streamVars, groupVars, pel, claim, faults, fails>>

\* XACK, the last command on every path.
Ack(w, i) ==
    /\ work[w].pc = "ack" /\ IsFirst(i, work[w].ids)
    /\ pel' = pel \ {i}
    /\ Finish(w, i)
    /\ UNCHANGED <<streamVars, groupVars, dlq, claim, faults, fails, settled>>

\* A Redis error, or cancellation during the backoff: Run ignores it and goes on with
\* the next task; the message stays pending.
CallFails(w, i) ==
    /\ work[w].pc \in {"backoff", "dlq", "ack"} /\ IsFirst(i, work[w].ids)
    /\ Fault
    /\ Finish(w, i)
    /\ UNCHANGED <<streamVars, groupVars, pel, dlq, claim, fails, settled>>

-----------------------------------------------------------------------------
(* staleRecoveryLoop.                                                      *)

\* Nobody in memory will ever acknowledge message i.
Orphaned(i) == \A w \in Workers : i \notin work[w].ids /\ i \notin claim[w].ids

\* Mutant of RecoverStale: the messages are acknowledged before they are pushed again.
RecoverStaleAcksFirst(w, S) ==
    /\ claim[w].pc = "idle"
    /\ S # {} /\ S \cap (1 .. trimmed) = {}
    /\ IF \A i \in S : Orphaned(i) THEN UNCHANGED faults ELSE Fault
    /\ claim' = [claim EXCEPT ![w] = [pc |-> "ack", ids |-> S]]
    /\ UNCHANGED <<streamVars, groupVars, pel, dlq, work, fails, settled>>

\* Mutant of RecoverStale: the claim always comes back empty.
RecoverStaleEmpty(w, S) == S = {} /\ UNCHANGED vars

\* RecoverStale: XAUTOCLAIM takes pending messages that have been idle for ten minutes
\* and forgets those that were trimmed.  A message that a slow batch is still going to
\* handle can be idle that long too: that is a premature claim.
RecoverStale(w, S) ==
    /\ claim[w].pc = "idle"
    /\ S # {}
    /\ IF \A i \in S : Orphaned(i) THEN UNCHANGED faults ELSE Fault
    /\ pel' = pel \ (S \cap (1 .. trimmed))
    /\ claim' = [claim EXCEPT ![w] =
                    LET ids == S \ (1 .. trimmed)
                    IN  [pc |-> IF ids = {} THEN "idle" ELSE "push", ids |-> ids]]
    /\ UNCHANGED <<streamVars, groupVars, dlq, work, fails, settled>>

\* Mutant of Carried: the new message starts with a full budget.
CarriedNothing(m) == m.p

\* withRetryCount: a positive "r" is written into the payload, because Push resets "r".
Carried(m) == IF m.r > 0 THEN m.r ELSE m.p

RecoverPush(w, i) ==
    /\ claim[w].pc = "push" /\ IsFirst(i, claim[w].ids)
    /\ XAdd([task |-> log[i].task, r |-> 0, p |-> Carried(log[i]), from |-> i])
    /\ claim' = [claim EXCEPT ![w].pc = "ack"]
    /\ UNCHANGED <<groupVars, pel, dlq, work, faults, fails, settled>>

FinishClaim(w, i) ==
    LET rest == claim[w].ids \ {i}
    IN  claim' = [claim EXCEPT ![w] = [pc |-> IF rest = {} THEN "idle" ELSE "push", ids |-> rest]]

RecoverAck(w, i) ==
    /\ claim[w].pc = "ack" /\ IsFirst(i, claim[w].ids)
    /\ pel' = pel \ {i}
    /\ FinishClaim(w, i)
    /\ UNCHANGED <<streamVars, groupVars, dlq, work, faults, fails, settled>>

\* The Push or the Ack fails: the loop goes on, the message stays pending.
RecoverFails(w, i) ==
    /\ claim[w].pc \in {"push", "ack"} /\ IsFirst(i, claim[w].ids)
    /\ Fault
    /\ FinishClaim(w, i)
    /\ UNCHANGED <<streamVars, groupVars, pel, dlq, work, fails, settled>>

\* The process dies with its memory and starts again.
Crash(w) ==
    /\ work[w] # Free \/ claim[w] # Free
    /\ Fault
    /\ work' = [work EXCEPT ![w] = Free]
    /\ claim' = [claim EXCEPT ![w] = Free]
    /\ UNCHANGED <<streamVars, groupVars, pel, dlq, fails, settled>>

-----------------------------------------------------------------------------
RunStep(w) ==
    \/ Pop(w)
    \/ \E i \in work[w].ids :
          HandleOK(w, i) \/ HandleRetry(w, i) \/ Requeue(w, i) \/ RouteDLQ(w, i) \/ Ack(w, i)

RecoveryStep(w) ==
    \/ \E S \in SUBSET pel : RecoverStale(w, S)
    \/ \E i \in claim[w].ids : RecoverPush(w, i) \/ RecoverAck(w, i)

FaultStep(w) ==
    \/ \E i \in work[w].ids : CallFails(w, i)
    \/ \E i \in claim[w].ids : RecoverFails(w, i)
    \/ Crash(w)

Next ==
    \/ \E t \in Tasks : Push(t)
    \/ EnsureGroup
    \/ \E w \in Workers : RunStep(w) \/ RecoveryStep(w) \/ FaultStep(w)

Spec == Init /\ [][Next]_vars

\* Go schedules both goroutines of a process, Redis answers all but finitely many
\* calls, and the ticker of staleRecoveryLoop keeps firing.
Fairness ==
    /\ WF_vars(EnsureGroup)
    /\ \A w \in Workers : WF_vars(RunStep(w)) /\ WF_vars(RecoveryStep(w))

FairSpec == Spec /\ Fairness

-----------------------------------------------------------------------------
(* Properties                                                              *)

Loop == [pc : {"idle", "process", "backoff", "dlq", "ack", "push"}, ids : SUBSET (1 .. Len(log))]

\* Stream, group and workers hold what the code expects; pending messages have been
\* delivered, and a goroutine only ever works on messages of the stream.
TypeOK ==
    /\ log \in Seq(Message) /\ trimmed \in 0 .. Len(log)
    /\ groupUp \in BOOLEAN
    /\ cursor \in 0 .. Len(log) /\ skipped \in 0 .. cursor
    /\ pel \in SUBSET (1 .. cursor)
    /\ dlq \in SUBSET [task : Tasks, r : Nat]
    /\ work \in [Workers -> Loop] /\ claim \in [Workers -> Loop]
    /\ faults \in Nat
    /\ latest \in [Tasks -> 0 .. Len(log)]
    /\ fails \in [Tasks -> Nat]
    /\ settled \in SUBSET Tasks

\* A consumer will see message i again: it is undelivered, or pending.
Alive(i) == i > cursor \/ i \in pel

\* No crash, failed call, premature claim or race between Run and staleRecoveryLoop
\* loses a task: once pushed it is settled, or its newest message is still undelivered
\* or pending.  The only ways out are the two the configuration opens: MAXLEN trimming,
\* and a group created (at "$") after the Push.
NoLoss ==
    \A t \in Tasks : latest[t] > 0 =>
        \/ t \in settled
        \/ Alive(latest[t])
        \/ latest[t] <= trimmed
        \/ latest[t] <= skipped

\* Message i may be forgotten: its task is settled or has a newer message.
Covered(i) == log[i].task \in settled \/ i < latest[log[i].task]

\* Whoever is about to acknowledge a message has either settled its task or appended a
\* newer copy of it: the order XADD, then XACK of requeue, routeDLQ and stale recovery.
AckAfterCopy ==
    \A w \in Workers : \A i \in 1 .. Len(log) :
        /\ work[w].pc = "ack" /\ IsFirst(i, work[w].ids) => Covered(i)
        /\ claim[w].pc = "ack" /\ IsFirst(i, claim[w].ids) => Covered(i)

\* What makes NoLoss inductive: latest really is the newest message of its task.
LatestIsNewest ==
    /\ \A t \in Tasks : latest[t] > 0 => log[latest[t]].task = t
    /\ \A i \in 1 .. Len(log) : i <= latest[log[i].task]

QueueInv == TypeOK /\ LatestIsNewest /\ AckAfterCopy /\ NoLoss

\* Stale recovery resets the field "r" of the copy but never its retry budget: a copy
\* counts at least as many attempts as the message it was made from.
BudgetKept == \A i \in 1 .. Len(log) : log[i].from > 0 => RetryCount(i) >= RetryCount(log[i].from)

\* Only a task whose handler failed more than MaxRetries times reaches the DLQ, however
\* often its messages were duplicated, recovered or lost on the way.  ShouldDLQ is strict:
\* a task gets one attempt more than the "QUEUE_MAX_RETRIES attempts" of ARCHITECTURE.md.
DLQEarned == \A d \in dlq : d.r = MaxRetries + 1 /\ fails[d.task] >= d.r

\* No message of the stream counts more attempts than its task's handler has failed or
\* is over the limit; "r" is either reset or above the count carried in the payload, and
\* copies point backwards.
CountsEarned ==
    \A i \in 1 .. Len(log) :
        /\ log[i].r = 0 \/ log[i].r > log[i].p
        /\ log[i].from < i
        /\ ~ShouldDLQ(RetryCount(i))
        /\ RetryCount(i) <= fails[log[i].task]

\* A loop that is about to requeue or to dead-letter has one more failure to show than
\* the message counts, and goes to the DLQ exactly when that exceeds the limit.
VerdictEarned ==
    \A w \in Workers : \A i \in 1 .. Len(log) :
        work[w].pc \in {"backoff", "dlq"} /\ IsFirst(i, work[w].ids) =>
           /\ RetryCount(i) < fails[log[i].task]
           /\ work[w].pc = "dlq" <=> ShouldDLQ(RetryCount(i) + 1)

\* BudgetKept and DLQEarned with what makes them inductive.
BudgetInv == CountsEarned /\ VerdictEarned /\ BudgetKept /\ DLQEarned

\* A task pushed to an existing group is outstanding while a consumer will still see
\* its newest message.
Outstanding == {t \in Tasks : groupUp /\ latest[t] > skipped /\ t \notin settled /\ Alive(latest[t])}

Ledger == INSTANCE TaskLedger WITH outstanding <- Outstanding, done <- settled

\* Without trimming, the queue with its workers is the durable work queue of TaskLedger:
\* nothing accepted disappears, and all of it is settled, whichever fault comes where.
ImplementsLedger == Ledger!Spec

\* What makes the mapping work without trimming: whatever is pending or in the memory of a
\* goroutine was delivered by the group, so it came after the messages the group skipped.
DeliveredInv ==
    /\ trimmed = 0
    /\ \A i \in pel \union UNION {work[w].ids \union claim[w].ids : w \in Workers} : groupUp /\ i > skipped

=============================================================================
