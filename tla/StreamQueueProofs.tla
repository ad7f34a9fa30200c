-------------------------- MODULE StreamQueueProofs --------------------------
(***************************************************************************)
(* Proofs about StreamQueue, for any tasks, workers, batch size, retry     *)
(* limit, trimming bound and number of faults: the queue never loses a     *)
(* task to a crash, a failed call or a race, and neither grants nor takes  *)
(* attempts from its retry budget.                                         *)
(***************************************************************************)
EXTENDS StreamQueue, TLAPS

(***************************************************************************)
(* XADD appends one message, keeps the others where they are, makes the    *)
(* new one its task's newest and trims at most what it may.                *)
(***************************************************************************)
LEMMA XAddEffect ==
  ASSUME TypeOK, NEW msg \in Message, XAdd(msg)
  PROVE  /\ log' \in Seq(Message)
         /\ Len(log') = Len(log) + 1
         /\ \A i \in 1 .. Len(log) : log'[i] = log[i]
         /\ log'[Len(log) + 1] = msg
         /\ latest' \in [Tasks -> 0 .. Len(log')]
         /\ latest'[msg.task] = Len(log) + 1
         /\ \A t \in Tasks : t # msg.task => latest'[t] = latest[t]
         /\ trimmed' \in trimmed .. Len(log')
<1>1. log \in Seq(Message) /\ Len(log) \in Nat /\ trimmed \in 0 .. Len(log) /\ msg.task \in Tasks
  BY DEF TypeOK, Message
<1>2. log' = Append(log, msg) /\ latest' = [latest EXCEPT ![msg.task] = Len(log) + 1]
  BY DEF XAdd
<1>3. log' \in Seq(Message) /\ Len(log') = Len(log) + 1 /\ log'[Len(log) + 1] = msg
  BY <1>1, <1>2
<1>4. \A i \in 1 .. Len(log) : log'[i] = log[i]
  BY <1>1, <1>2
<1>5. latest' \in [Tasks -> 0 .. Len(log')]
  BY <1>1, <1>2, <1>3 DEF TypeOK
<1>6. latest'[msg.task] = Len(log) + 1 /\ \A t \in Tasks : t # msg.task => latest'[t] = latest[t]
  BY <1>1, <1>2 DEF TypeOK
<1>7. trimmed' \in trimmed .. Len(log')
  BY <1>1, <1>3, ConstantsAssumption DEF XAdd, Max2
<1>. QED BY <1>3, <1>4, <1>5, <1>6, <1>7

\* What the messages of the stream and the goroutines' memories hold.
LEMMA MessageAt ==
  ASSUME TypeOK, NEW i \in 1 .. Len(log)
  PROVE  /\ log[i] \in Message /\ log[i].task \in Tasks
         /\ log[i].r \in Nat /\ log[i].p \in Nat /\ log[i].from \in Nat
<1>1. log \in Seq(Message)
  BY DEF TypeOK
<1>2. log[i] \in Message
  BY <1>1
<1>. QED BY <1>2 DEF Message

LEMMA RetryCountNat ==
  ASSUME TypeOK, NEW i \in 1 .. Len(log)
  PROVE  RetryCount(i) \in Nat /\ Carried(log[i]) \in Nat
BY MessageAt DEF RetryCount, Carried, Max2

LEMMA WorksOnStream ==
  ASSUME TypeOK, NEW w \in Workers
  PROVE  /\ \A i \in work[w].ids : i \in 1 .. Len(log)
         /\ \A i \in claim[w].ids : i \in 1 .. Len(log)
<1>1. work[w] \in Loop /\ claim[w] \in Loop
  BY DEF TypeOK
<1>. QED BY <1>1 DEF Loop

\* A longer stream only widens what a goroutine may work on.
LEMMA LoopGrows ==
  ASSUME TypeOK, Len(log') \in Nat, Len(log') >= Len(log)
  PROVE  Loop \subseteq Loop'
<1>1. Len(log) \in Nat
  BY DEF TypeOK
<1>. QED BY <1>1 DEF Loop

\* The conjuncts of TypeOK that an XADD can disturb.
LEMMA TypeAfterXAdd ==
  ASSUME TypeOK, NEW msg \in Message, XAdd(msg), UNCHANGED <<cursor, skipped, pel>>,
         work' \in [Workers -> Loop], claim' \in [Workers -> Loop]
  PROVE  /\ log' \in Seq(Message) /\ trimmed' \in 0 .. Len(log')
         /\ cursor' \in 0 .. Len(log') /\ skipped' \in 0 .. cursor'
         /\ pel' \in SUBSET (1 .. cursor')
         /\ work' \in [Workers -> Loop'] /\ claim' \in [Workers -> Loop']
         /\ latest' \in [Tasks -> 0 .. Len(log')]
<1>1. Len(log) \in Nat /\ cursor \in 0 .. Len(log) /\ skipped \in 0 .. cursor
        /\ pel \in SUBSET (1 .. cursor) /\ trimmed \in 0 .. Len(log)
  BY DEF TypeOK
<1>2. /\ log' \in Seq(Message) /\ Len(log') = Len(log) + 1
      /\ latest' \in [Tasks -> 0 .. Len(log')] /\ trimmed' \in trimmed .. Len(log')
  BY XAddEffect
<1>3. Loop \subseteq Loop'
  BY <1>1, <1>2, LoopGrows
<1>. QED BY <1>1, <1>2, <1>3

LEMMA TypeInit == Init => TypeOK
<1> SUFFICES ASSUME Init PROVE TypeOK
  OBVIOUS
<1>1. log = <<>> /\ Len(log) = 0 /\ log \in Seq(Message)
  BY DEF Init
<1>. QED BY <1>1, ConstantsAssumption DEF Init, TypeOK, Loop, Free

LEMMA TypeStep == TypeOK /\ [Next]_vars => TypeOK'
<1> SUFFICES ASSUME TypeOK, [Next]_vars PROVE TypeOK'
  OBVIOUS
<1> USE ConstantsAssumption DEF streamVars, groupVars
<1>0. log \in Seq(Message) /\ Len(log) \in Nat
  BY DEF TypeOK
<1>1. ASSUME NEW t \in Tasks, Push(t) PROVE TypeOK'
  <2> DEFINE msg == [task |-> t, r |-> 0, p |-> 0, from |-> 0]
  <2>1. msg \in Message
    BY DEF Message
  <2>2. XAdd(msg) /\ UNCHANGED <<groupVars, pel, dlq, work, claim, faults, fails, settled>>
    BY <1>1 DEF Push
  <2> HIDE DEF msg
  <2>. QED BY <2>1, <2>2, TypeAfterXAdd DEF TypeOK
<1>2. ASSUME EnsureGroup PROVE TypeOK'
  BY <1>0, <1>2 DEF EnsureGroup, TypeOK, Loop
<1>3. ASSUME NEW w \in Workers, Pop(w) PROVE TypeOK'
  <2> DEFINE lo == Max2(cursor, trimmed)
             hi == IF lo + Batch < Len(log) THEN lo + Batch ELSE Len(log)
  <2>1. lo \in Nat /\ lo >= cursor /\ lo < Len(log)
    BY <1>0, <1>3 DEF Pop, Max2, TypeOK
  <2>2. hi \in lo + 1 .. Len(log)
    BY <1>0, <2>1
  <2>3. /\ work' = [work EXCEPT ![w] = [pc |-> "process", ids |-> lo + 1 .. hi]]
        /\ pel' = pel \union (lo + 1 .. hi)
        /\ cursor' = hi
        /\ UNCHANGED <<streamVars, groupUp, skipped, dlq, claim, faults, fails, settled>>
    BY <1>3 DEF Pop
  <2> HIDE DEF lo, hi
  <2>4. work' \in [Workers -> Loop']
    BY <1>0, <2>1, <2>2, <2>3 DEF TypeOK, Loop
  <2>5. pel' \in SUBSET (1 .. cursor') /\ cursor' \in 0 .. Len(log') /\ skipped' \in 0 .. cursor'
    BY <1>0, <2>1, <2>2, <2>3 DEF TypeOK
  <2>. QED BY <1>0, <2>3, <2>4, <2>5 DEF TypeOK, Loop
<1>4. ASSUME NEW w \in Workers, NEW i \in work[w].ids, HandleOK(w, i) PROVE TypeOK'
  <2>1. i \in 1 .. Len(log) /\ log[i].task \in Tasks
    BY WorksOnStream, MessageAt
  <2>. QED BY <1>0, <1>4, <2>1, ZenonT(30) DEF HandleOK, TypeOK, Loop
<1>5. ASSUME NEW w \in Workers, NEW i \in work[w].ids, HandleRetry(w, i) PROVE TypeOK'
  <2>1. i \in 1 .. Len(log) /\ log[i].task \in Tasks
    BY WorksOnStream, MessageAt
  <2>2. fails' \in [Tasks -> Nat]
    <3>1. fails' = [fails EXCEPT ![log[i].task] = fails[log[i].task] + 1]
      BY <1>5 DEF HandleRetry
    <3>. QED BY <2>1, <3>1 DEF TypeOK
  <2>3. work' \in [Workers -> Loop']
    <3>1. PICK pc \in {"dlq", "backoff"} : work' = [work EXCEPT ![w].pc = pc]
      BY <1>5 DEF HandleRetry
    <3>2. work' \in [Workers -> Loop]
      BY <3>1 DEF TypeOK, Loop
    <3>. QED BY <1>5, <3>2 DEF HandleRetry, Loop
  <2>. QED BY <1>0, <1>5, <2>2, <2>3 DEF HandleRetry, TypeOK, Loop
<1>6. ASSUME NEW w \in Workers, NEW i \in work[w].ids, Requeue(w, i) PROVE TypeOK'
  <2> DEFINE msg == [task |-> log[i].task, r |-> RetryCount(i) + 1, p |-> log[i].p, from |-> i]
  <2>1. i \in 1 .. Len(log)
    BY WorksOnStream
  <2>2. msg \in Message
    BY <2>1, RetryCountNat, MessageAt DEF Message
  <2>3. /\ XAdd(msg) /\ work' = [work EXCEPT ![w].pc = "ack"]
        /\ UNCHANGED <<groupVars, pel, dlq, claim, faults, fails, settled>>
    BY <1>6 DEF Requeue
  <2> HIDE DEF msg
  <2>4. work' \in [Workers -> Loop]
    BY <2>3, ZenonT(30) DEF TypeOK, Loop
  <2>. QED BY <2>2, <2>3, <2>4, TypeAfterXAdd DEF TypeOK
<1>7. ASSUME NEW w \in Workers, NEW i \in work[w].ids, RouteDLQ(w, i) PROVE TypeOK'
  <2>1. i \in 1 .. Len(log) /\ log[i].task \in Tasks
    BY WorksOnStream, MessageAt
  <2>2. RetryCount(i) + 1 \in Nat
    BY <2>1, RetryCountNat
  <2>3. work' \in [Workers -> Loop']
    <3>1. work' = [work EXCEPT ![w].pc = "ack"] /\ log' = log
      BY <1>7 DEF RouteDLQ
    <3>. QED BY <3>1, ZenonT(30) DEF TypeOK, Loop
  <2>4. dlq' \in SUBSET [task : Tasks, r : Nat] /\ settled' \in SUBSET Tasks
    <3>1. dlq' = dlq \union {[task |-> log[i].task, r |-> RetryCount(i) + 1]}
            /\ settled' = settled \union {log[i].task}
      BY <1>7 DEF RouteDLQ
    <3>. QED BY <2>1, <2>2, <3>1 DEF TypeOK
  <2>5. UNCHANGED <<streamVars, groupVars, pel, claim, faults, fails>>
    BY <1>7 DEF RouteDLQ
  <2>. QED BY <2>3, <2>4, <2>5 DEF TypeOK, Loop
<1>8. ASSUME NEW w \in Workers, NEW i \in work[w].ids, Ack(w, i) \/ CallFails(w, i) PROVE TypeOK'
  <2>1. work' \in [Workers -> Loop]
    <3>1. Finish(w, i)
      BY <1>8 DEF Ack, CallFails
    <3>. QED BY <3>1 DEF Finish, TypeOK, Loop
  <2>2. pel' \in SUBSET (1 .. cursor) /\ faults' \in Nat
    <3>1. CASE Ack(w, i)
      BY <3>1 DEF Ack, TypeOK
    <3>2. CASE CallFails(w, i)
      BY <3>2 DEF CallFails, Fault, TypeOK
    <3>. QED BY <1>8, <3>1, <3>2
  <2>. QED BY <1>0, <1>8, <2>1, <2>2 DEF Ack, CallFails, TypeOK, Loop
<1>9. ASSUME NEW w \in Workers, NEW S \in SUBSET pel, RecoverStale(w, S) PROVE TypeOK'
  <2>1. S \subseteq 1 .. Len(log)
    BY <1>0 DEF TypeOK
  <2>2. claim' \in [Workers -> Loop]
    BY <1>9, <2>1 DEF RecoverStale, TypeOK, Loop
  <2>3. faults' \in Nat /\ pel' \in SUBSET (1 .. cursor)
    BY <1>9 DEF RecoverStale, Fault, TypeOK
  <2>. QED BY <1>0, <1>9, <2>2, <2>3 DEF RecoverStale, TypeOK, Loop
<1>10. ASSUME NEW w \in Workers, NEW i \in claim[w].ids, RecoverPush(w, i) PROVE TypeOK'
  <2> DEFINE msg == [task |-> log[i].task, r |-> 0, p |-> Carried(log[i]), from |-> i]
  <2>1. i \in 1 .. Len(log)
    BY WorksOnStream
  <2>2. msg \in Message
    BY <2>1, RetryCountNat, MessageAt DEF Message
  <2>3. /\ XAdd(msg) /\ claim' = [claim EXCEPT ![w].pc = "ack"]
        /\ UNCHANGED <<groupVars, pel, dlq, work, faults, fails, settled>>
    BY <1>10 DEF RecoverPush
  <2> HIDE DEF msg
  <2>4. claim' \in [Workers -> Loop]
    BY <2>3 DEF TypeOK, Loop
  <2>. QED BY <2>2, <2>3, <2>4, TypeAfterXAdd DEF TypeOK
<1>11. ASSUME NEW w \in Workers, NEW i \in claim[w].ids, RecoverAck(w, i) \/ RecoverFails(w, i)
       PROVE TypeOK'
  <2>1. claim' \in [Workers -> Loop]
    <3>1. FinishClaim(w, i)
      BY <1>11 DEF RecoverAck, RecoverFails
    <3>. QED BY <3>1 DEF FinishClaim, TypeOK, Loop
  <2>2. pel' \in SUBSET (1 .. cursor) /\ faults' \in Nat
    <3>1. CASE RecoverAck(w, i)
      BY <3>1 DEF RecoverAck, TypeOK
    <3>2. CASE RecoverFails(w, i)
      BY <3>2 DEF RecoverFails, Fault, TypeOK
    <3>. QED BY <1>11, <3>1, <3>2
  <2>. QED BY <1>0, <1>11, <2>1, <2>2 DEF RecoverAck, RecoverFails, TypeOK, Loop
<1>12. ASSUME NEW w \in Workers, Crash(w) PROVE TypeOK'
  BY <1>0, <1>12 DEF Crash, Free, Fault, TypeOK, Loop
<1>13. ASSUME UNCHANGED vars PROVE TypeOK'
  BY <1>13 DEF vars, TypeOK, Loop
<1>. QED
  BY <1>1, <1>2, <1>3, <1>4, <1>5, <1>6, <1>7, <1>8, <1>9, <1>10, <1>11, <1>12, <1>13
     DEF Next, RunStep, RecoveryStep, FaultStep

(***************************************************************************)
(* Type correctness of the stream, the group and the workers.              *)
(***************************************************************************)
THEOREM TypeCorrect == Spec => []TypeOK
BY TypeInit, TypeStep, PTL DEF Spec

-----------------------------------------------------------------------------
(* No task is lost.                                                        *)

LEMMA FirstUnique ==
  ASSUME NEW S, S \subseteq Nat, NEW i, NEW j, IsFirst(i, S), IsFirst(j, S)
  PROVE  i = j
<1>1. i \in Nat /\ j \in Nat /\ i <= j /\ j <= i
  BY DEF IsFirst
<1>. QED BY <1>1

\* Appending a copy keeps the bookkeeping of the newest message, leaves covered
\* messages covered and puts the task of the copy out of danger.
LEMMA AfterXAdd ==
  ASSUME QueueInv, NEW msg \in Message, XAdd(msg),
         UNCHANGED <<cursor, skipped, pel, settled>>
  PROVE  /\ LatestIsNewest'
         /\ NoLoss'
         /\ \A i \in 1 .. Len(log) : Covered(i) => Covered(i)'
         /\ \A i \in 1 .. Len(log) : log[i].task = msg.task => Covered(i)'
         /\ Len(log') = Len(log) + 1
<1> DEFINE n == Len(log)
<1>1. TypeOK /\ LatestIsNewest /\ NoLoss
  BY DEF QueueInv
<1>2. /\ n \in Nat /\ cursor \in 0 .. n /\ trimmed \in 0 .. n /\ skipped \in 0 .. cursor
      /\ latest \in [Tasks -> 0 .. n] /\ msg.task \in Tasks
  BY <1>1 DEF TypeOK, Message
<1>3. /\ Len(log') = n + 1
      /\ \A i \in 1 .. n : log'[i] = log[i]
      /\ log'[n + 1] = msg
      /\ latest' \in [Tasks -> 0 .. n + 1]
      /\ latest'[msg.task] = n + 1
      /\ \A t \in Tasks : t # msg.task => latest'[t] = latest[t]
      /\ trimmed' \in trimmed .. n + 1
  BY <1>1, XAddEffect
<1>4. \A i \in 1 .. n : log[i].task \in Tasks
  BY <1>1, MessageAt
<1> HIDE DEF n
<1>5. \A t \in Tasks : latest'[t] > 0 => log'[latest'[t]].task = t
  <2> SUFFICES ASSUME NEW t \in Tasks, latest'[t] > 0 PROVE log'[latest'[t]].task = t
    OBVIOUS
  <2>1. CASE t = msg.task
    BY <1>3, <2>1
  <2>2. CASE t # msg.task
    <3>1. latest'[t] = latest[t] /\ latest[t] \in 1 .. n
      BY <1>2, <1>3, <2>2
    <3>. QED BY <1>1, <1>3, <3>1 DEF LatestIsNewest
  <2>. QED BY <2>1, <2>2
<1>6. \A i \in 1 .. n + 1 : i <= latest'[log'[i].task]
  <2> SUFFICES ASSUME NEW i \in 1 .. n + 1 PROVE i <= latest'[log'[i].task]
    OBVIOUS
  <2>1. CASE i = n + 1
    BY <1>2, <1>3, <2>1
  <2>2. CASE i # n + 1
    <3>1. i \in 1 .. n /\ log'[i] = log[i] /\ i <= latest[log[i].task]
      BY <1>1, <1>2, <1>3, <2>2 DEF LatestIsNewest, n
    <3>2. CASE log[i].task = msg.task
      BY <1>2, <1>3, <3>1, <3>2
    <3>3. CASE log[i].task # msg.task
      BY <1>2, <1>3, <1>4, <3>1, <3>3
    <3>. QED BY <3>2, <3>3
  <2>. QED BY <2>1, <2>2
<1>7. LatestIsNewest'
  BY <1>3, <1>5, <1>6 DEF LatestIsNewest
<1>8. NoLoss'
  <2> SUFFICES ASSUME NEW t \in Tasks, latest'[t] > 0
               PROVE  \/ t \in settled \/ Alive(latest[t])'
                      \/ latest'[t] <= trimmed' \/ latest'[t] <= skipped
    BY DEF NoLoss
  <2>1. CASE t = msg.task
    BY <1>2, <1>3, <2>1 DEF Alive
  <2>2. CASE t # msg.task
    BY <1>1, <1>2, <1>3, <2>2 DEF NoLoss, Alive
  <2>. QED BY <2>1, <2>2
<1>9. \A i \in 1 .. n : log[i].task = msg.task => Covered(i)'
  BY <1>2, <1>3 DEF Covered
<1>10. \A i \in 1 .. n : Covered(i) => Covered(i)'
  BY <1>2, <1>3, <1>4, <1>9 DEF Covered
<1>. QED BY <1>3, <1>7, <1>8, <1>9, <1>10 DEF n

\* Acknowledging a covered message loses nothing: it is not the newest of an
\* unsettled task.
LEMMA AckIsSafe ==
  ASSUME QueueInv, NEW i \in 1 .. Len(log), Covered(i), pel' = pel \ {i},
         UNCHANGED <<log, trimmed, latest, cursor, skipped, settled>>
  PROVE  NoLoss'
<1>1. \A t \in Tasks : latest[t] > 0 /\ t \notin settled => latest[t] # i
  <2> SUFFICES ASSUME NEW t \in Tasks, latest[t] > 0, t \notin settled, latest[t] = i PROVE FALSE
    OBVIOUS
  <2>1. log[i].task = t
    BY DEF QueueInv, LatestIsNewest
  <2>2. i < latest[t]
    BY <2>1 DEF Covered
  <2>. QED BY <2>2
<1>. QED BY <1>1 DEF QueueInv, NoLoss, Alive

LEMMA QueueInit == Init => QueueInv
<1> SUFFICES ASSUME Init PROVE QueueInv
  OBVIOUS
<1>1. log = <<>> /\ Len(log) = 0 /\ \A t \in Tasks : latest[t] = 0
  BY DEF Init
<1>. QED BY <1>1, TypeInit DEF QueueInv, LatestIsNewest, AckAfterCopy, NoLoss

LEMMA QueueStep == QueueInv /\ [Next]_vars => QueueInv'
<1> SUFFICES ASSUME QueueInv, [Next]_vars PROVE QueueInv'
  OBVIOUS
<1> USE DEF streamVars, groupVars
<1>0. TypeOK /\ TypeOK' /\ LatestIsNewest /\ AckAfterCopy /\ NoLoss /\ Len(log) \in Nat
  <2>1. TypeOK /\ LatestIsNewest /\ AckAfterCopy /\ NoLoss
    BY DEF QueueInv
  <2>2. TypeOK'
    BY <2>1, TypeStep
  <2>3. Len(log) \in Nat
    BY <2>1 DEF TypeOK
  <2>. QED BY <2>1, <2>2, <2>3
\* A step that appends nothing and settles at least what was settled.
<1>A. ASSUME UNCHANGED <<log, latest>>, settled \subseteq settled'
      PROVE  LatestIsNewest' /\ \A i \in 1 .. Len(log) : Covered(i) => Covered(i)'
  BY <1>0, <1>A DEF LatestIsNewest, Covered
<1>1. ASSUME NEW t \in Tasks, Push(t) PROVE QueueInv'
  <2> DEFINE msg == [task |-> t, r |-> 0, p |-> 0, from |-> 0]
  <2>1. msg \in Message /\ XAdd(msg)
    BY <1>1 DEF Message, Push
  <2>2. UNCHANGED <<cursor, skipped, pel, settled, work, claim>>
    BY <1>1 DEF Push
  <2> HIDE DEF msg
  <2>3. AckAfterCopy'
    <3> SUFFICES ASSUME NEW v \in Workers, NEW j \in 1 .. Len(log'),
                        \/ work'[v].pc = "ack" /\ IsFirst(j, work'[v].ids)
                        \/ claim'[v].pc = "ack" /\ IsFirst(j, claim'[v].ids)
                 PROVE  Covered(j)'
      BY DEF AckAfterCopy
    <3>1. j \in 1 .. Len(log)
      BY <1>0, <2>2, WorksOnStream DEF IsFirst
    <3>. QED BY <1>0, <2>1, <2>2, <3>1, AfterXAdd DEF AckAfterCopy
  <2>. QED BY <1>0, <2>1, <2>2, <2>3, AfterXAdd DEF QueueInv
<1>2. ASSUME EnsureGroup PROVE QueueInv'
  <2>1. UNCHANGED <<log, latest, settled, work, claim, pel, trimmed>>
          /\ cursor' = Len(log) /\ skipped' = Len(log)
    BY <1>2 DEF EnsureGroup
  <2>2. NoLoss'
    BY <1>0, <2>1 DEF NoLoss, TypeOK
  <2>3. AckAfterCopy'
    BY <1>0, <1>A, <2>1 DEF AckAfterCopy
  <2>. QED BY <1>0, <1>A, <2>1, <2>2, <2>3 DEF QueueInv
<1>3. ASSUME NEW w \in Workers, Pop(w) PROVE QueueInv'
  <2> DEFINE lo == Max2(cursor, trimmed)
             hi == IF lo + Batch < Len(log) THEN lo + Batch ELSE Len(log)
  <2>1. /\ work' = [work EXCEPT ![w] = [pc |-> "process", ids |-> lo + 1 .. hi]]
        /\ pel' = pel \union (lo + 1 .. hi)
        /\ cursor' = hi
        /\ UNCHANGED <<log, latest, trimmed, skipped, claim, settled>>
    BY <1>3 DEF Pop
  <2>2. lo \in Nat /\ lo >= cursor /\ hi \in Nat /\ (lo = cursor \/ lo = trimmed)
    BY <1>0, ConstantsAssumption DEF Max2, TypeOK
  <2> HIDE DEF lo, hi
  <2>3. NoLoss'
    <3> SUFFICES ASSUME NEW t \in Tasks, latest[t] > 0, t \notin settled,
                        ~(latest[t] <= trimmed), ~(latest[t] <= skipped)
                 PROVE  latest[t] > cursor' \/ latest[t] \in pel'
      BY <2>1 DEF NoLoss, Alive
    <3>1. latest[t] \in Nat /\ trimmed \in Nat /\ (latest[t] > cursor \/ latest[t] \in pel)
      BY <1>0 DEF NoLoss, Alive, TypeOK
    <3>2. CASE latest[t] \in pel
      BY <2>1, <3>2
    <3>3. CASE latest[t] > cursor
      BY <2>1, <2>2, <3>1, <3>3
    <3>. QED BY <3>1, <3>2, <3>3
  <2>4. AckAfterCopy'
    <3>1. \A v \in Workers : work'[v].pc = "ack" => work'[v] = work[v]
      BY <1>0, <2>1 DEF TypeOK
    <3>. QED BY <1>0, <1>A, <2>1, <3>1 DEF AckAfterCopy
  <2>. QED BY <1>0, <1>A, <2>1, <2>3, <2>4 DEF QueueInv
<1>4. ASSUME NEW w \in Workers, NEW i \in work[w].ids, HandleOK(w, i) \/ RouteDLQ(w, i)
      PROVE QueueInv'
  <2>1. /\ IsFirst(i, work[w].ids)
        /\ settled' = settled \union {log[i].task}
        /\ work' = [work EXCEPT ![w].pc = "ack"]
        /\ UNCHANGED <<log, latest, trimmed, cursor, skipped, pel, claim>>
    BY <1>4 DEF HandleOK, RouteDLQ
  <2>2. NoLoss'
    BY <1>0, <2>1 DEF NoLoss, Alive
  <2>3. AckAfterCopy'
    <3> SUFFICES ASSUME NEW v \in Workers, NEW j \in 1 .. Len(log),
                        \/ work'[v].pc = "ack" /\ IsFirst(j, work'[v].ids)
                        \/ claim'[v].pc = "ack" /\ IsFirst(j, claim'[v].ids)
                 PROVE  Covered(j)'
      BY <2>1 DEF AckAfterCopy
    <3>1. work'[v].ids = work[v].ids
      BY <1>0, <2>1 DEF TypeOK, Loop
    <3>2. CASE v = w /\ IsFirst(j, work[w].ids)
      <4>1. work[w].ids \subseteq Nat
        BY <1>0, WorksOnStream
      <4>2. j = i
        BY <2>1, <3>2, <4>1, FirstUnique
      <4>. QED BY <2>1, <4>2 DEF Covered
    <3>3. CASE v # w
      BY <1>0, <1>A, <2>1, <3>3 DEF AckAfterCopy, TypeOK
    <3>4. CASE claim[v].pc = "ack" /\ IsFirst(j, claim[v].ids)
      BY <1>0, <1>A, <2>1, <3>4 DEF AckAfterCopy
    <3>. QED BY <2>1, <3>1, <3>2, <3>3, <3>4
  <2>. QED BY <1>0, <1>A, <2>1, <2>2, <2>3 DEF QueueInv
<1>5. ASSUME NEW w \in Workers, NEW i \in work[w].ids, HandleRetry(w, i) PROVE QueueInv'
  <2>1. UNCHANGED <<log, latest, trimmed, cursor, skipped, pel, claim, settled>>
    BY <1>5 DEF HandleRetry
  <2>2. PICK pc \in {"dlq", "backoff"} : work' = [work EXCEPT ![w].pc = pc]
    BY <1>5 DEF HandleRetry
  <2>3. \A v \in Workers : work'[v].pc = "ack" => work'[v] = work[v]
    BY <1>0, <2>2 DEF TypeOK, Loop
  <2>4. AckAfterCopy'
    BY <1>0, <1>A, <2>1, <2>3 DEF AckAfterCopy
  <2>5. NoLoss'
    BY <1>0, <2>1 DEF NoLoss, Alive
  <2>. QED BY <1>0, <1>A, <2>1, <2>4, <2>5 DEF QueueInv
<1>6. ASSUME NEW w \in Workers, NEW i \in work[w].ids, Requeue(w, i) PROVE QueueInv'
  <2> DEFINE msg == [task |-> log[i].task, r |-> RetryCount(i) + 1, p |-> log[i].p, from |-> i]
  <2>1. i \in 1 .. Len(log)
    BY <1>0, WorksOnStream
  <2>2. msg \in Message /\ msg.task = log[i].task
    BY <1>0, <2>1, RetryCountNat, MessageAt DEF Message
  <2>3. /\ XAdd(msg) /\ work' = [work EXCEPT ![w].pc = "ack"] /\ IsFirst(i, work[w].ids)
        /\ UNCHANGED <<cursor, skipped, pel, claim, settled>>
    BY <1>6 DEF Requeue
  <2> HIDE DEF msg
  <2>4. AckAfterCopy'
    <3> SUFFICES ASSUME NEW v \in Workers, NEW j \in 1 .. Len(log'),
                        \/ work'[v].pc = "ack" /\ IsFirst(j, work'[v].ids)
                        \/ claim'[v].pc = "ack" /\ IsFirst(j, claim'[v].ids)
                 PROVE  Covered(j)'
      BY DEF AckAfterCopy
    <3>1. work'[v].ids = work[v].ids
      BY <1>0, <2>3 DEF TypeOK, Loop
    <3>2. j \in 1 .. Len(log)
      BY <1>0, <2>3, <3>1, WorksOnStream DEF IsFirst
    <3>3. CASE v = w /\ IsFirst(j, work[w].ids)
      <4>1. work[w].ids \subseteq Nat
        BY <1>0, WorksOnStream
      <4>2. j = i
        BY <2>3, <3>3, <4>1, FirstUnique
      <4>. QED BY <2>1, <2>2, <2>3, <4>2, AfterXAdd
    <3>4. CASE v # w
      BY <1>0, <2>2, <2>3, <3>2, <3>4, AfterXAdd DEF AckAfterCopy, TypeOK
    <3>5. CASE claim[v].pc = "ack" /\ IsFirst(j, claim[v].ids)
      BY <1>0, <2>2, <2>3, <3>2, <3>5, AfterXAdd DEF AckAfterCopy
    <3>. QED BY <2>3, <3>1, <3>3, <3>4, <3>5
  <2>. QED BY <1>0, <2>2, <2>3, <2>4, AfterXAdd DEF QueueInv
<1>7. ASSUME NEW w \in Workers, NEW i \in work[w].ids, Ack(w, i) \/ CallFails(w, i) PROVE QueueInv'
  <2>1. Finish(w, i) /\ UNCHANGED <<log, latest, trimmed, cursor, skipped, claim, settled>>
    BY <1>7 DEF Ack, CallFails
  <2>2. NoLoss'
    <3>1. CASE Ack(w, i)
      <4>1. i \in 1 .. Len(log) /\ Covered(i) /\ pel' = pel \ {i}
        BY <1>0, <3>1, WorksOnStream DEF Ack, AckAfterCopy
      <4>. QED BY <2>1, <4>1, AckIsSafe
    <3>2. CASE CallFails(w, i)
      BY <1>0, <2>1, <3>2 DEF CallFails, NoLoss, Alive
    <3>. QED BY <1>7, <3>1, <3>2
  <2>3. \A v \in Workers : work'[v].pc = "ack" => work'[v] = work[v]
    BY <1>0, <2>1 DEF Finish, TypeOK
  <2>4. AckAfterCopy'
    BY <1>0, <1>A, <2>1, <2>3 DEF AckAfterCopy
  <2>. QED BY <1>0, <1>A, <2>1, <2>2, <2>4 DEF QueueInv
<1>8. ASSUME NEW w \in Workers, NEW S \in SUBSET pel, RecoverStale(w, S) PROVE QueueInv'
  <2>1. /\ pel' = pel \ (S \cap (1 .. trimmed))
        /\ UNCHANGED <<log, latest, trimmed, cursor, skipped, work, settled>>
    BY <1>8 DEF RecoverStale
  <2>2. NoLoss'
    <3> SUFFICES ASSUME NEW t \in Tasks, latest[t] > 0, t \notin settled,
                        ~(latest[t] <= trimmed), ~(latest[t] <= skipped)
                 PROVE  latest[t] > cursor \/ latest[t] \in pel'
      BY <2>1 DEF NoLoss, Alive
    <3>1. latest[t] > cursor \/ latest[t] \in pel
      BY <1>0 DEF NoLoss, Alive
    <3>2. latest[t] \notin 1 .. trimmed
      BY <1>0 DEF TypeOK
    <3>. QED BY <2>1, <3>1, <3>2
  <2>3. \A v \in Workers : claim'[v].pc = "ack" => claim'[v] = claim[v]
    <3>1. PICK pc \in {"idle", "push"}, ids \in SUBSET S :
             claim' = [claim EXCEPT ![w] = [pc |-> pc, ids |-> ids]]
      BY <1>8 DEF RecoverStale
    <3>. QED BY <1>0, <3>1 DEF TypeOK
  <2>4. AckAfterCopy'
    BY <1>0, <1>A, <2>1, <2>3 DEF AckAfterCopy
  <2>. QED BY <1>0, <1>A, <2>1, <2>2, <2>4 DEF QueueInv
<1>9. ASSUME NEW w \in Workers, NEW i \in claim[w].ids, RecoverPush(w, i) PROVE QueueInv'
  <2> DEFINE msg == [task |-> log[i].task, r |-> 0, p |-> Carried(log[i]), from |-> i]
  <2>1. i \in 1 .. Len(log)
    BY <1>0, WorksOnStream
  <2>2. msg \in Message /\ msg.task = log[i].task
    BY <1>0, <2>1, RetryCountNat, MessageAt DEF Message
  <2>3. /\ XAdd(msg) /\ claim' = [claim EXCEPT ![w].pc = "ack"] /\ IsFirst(i, claim[w].ids)
        /\ UNCHANGED <<cursor, skipped, pel, work, settled>>
    BY <1>9 DEF RecoverPush
  <2> HIDE DEF msg
  <2>4. AckAfterCopy'
    <3> SUFFICES ASSUME NEW v \in Workers, NEW j \in 1 .. Len(log'),
                        \/ work'[v].pc = "ack" /\ IsFirst(j, work'[v].ids)
                        \/ claim'[v].pc = "ack" /\ IsFirst(j, claim'[v].ids)
                 PROVE  Covered(j)'
      BY DEF AckAfterCopy
    <3>1. claim'[v].ids = claim[v].ids
      BY <1>0, <2>3 DEF TypeOK, Loop
    <3>2. j \in 1 .. Len(log)
      BY <1>0, <2>3, <3>1, WorksOnStream DEF IsFirst
    <3>3. CASE v = w /\ IsFirst(j, claim[w].ids)
      <4>1. claim[w].ids \subseteq Nat
        BY <1>0, WorksOnStream
      <4>2. j = i
        BY <2>3, <3>3, <4>1, FirstUnique
      <4>. QED BY <2>1, <2>2, <2>3, <4>2, AfterXAdd
    <3>4. CASE v # w
      BY <1>0, <2>2, <2>3, <3>2, <3>4, AfterXAdd DEF AckAfterCopy, TypeOK
    <3>5. CASE work[v].pc = "ack" /\ IsFirst(j, work[v].ids)
      BY <1>0, <2>2, <2>3, <3>2, <3>5, AfterXAdd DEF AckAfterCopy
    <3>. QED BY <2>3, <3>1, <3>3, <3>4, <3>5
  <2>. QED BY <1>0, <2>2, <2>3, <2>4, AfterXAdd DEF QueueInv
<1>10. ASSUME NEW w \in Workers, NEW i \in claim[w].ids, RecoverAck(w, i) \/ RecoverFails(w, i)
       PROVE QueueInv'
  <2>1. FinishClaim(w, i) /\ UNCHANGED <<log, latest, trimmed, cursor, skipped, work, settled>>
    BY <1>10 DEF RecoverAck, RecoverFails
  <2>2. NoLoss'
    <3>1. CASE RecoverAck(w, i)
      <4>1. i \in 1 .. Len(log) /\ Covered(i) /\ pel' = pel \ {i}
        BY <1>0, <3>1, WorksOnStream DEF RecoverAck, AckAfterCopy
      <4>. QED BY <2>1, <4>1, AckIsSafe
    <3>2. CASE RecoverFails(w, i)
      BY <1>0, <2>1, <3>2 DEF RecoverFails, NoLoss, Alive
    <3>. QED BY <1>10, <3>1, <3>2
  <2>3. \A v \in Workers : claim'[v].pc = "ack" => claim'[v] = claim[v]
    BY <1>0, <2>1 DEF FinishClaim, TypeOK
  <2>4. AckAfterCopy'
    BY <1>0, <1>A, <2>1, <2>3 DEF AckAfterCopy
  <2>. QED BY <1>0, <1>A, <2>1, <2>2, <2>4 DEF QueueInv
<1>11. ASSUME NEW w \in Workers, Crash(w) PROVE QueueInv'
  <2>1. /\ work' = [work EXCEPT ![w] = Free] /\ claim' = [claim EXCEPT ![w] = Free]
        /\ UNCHANGED <<log, latest, trimmed, cursor, skipped, pel, settled>>
    BY <1>11 DEF Crash
  <2>2. NoLoss'
    BY <1>0, <2>1 DEF NoLoss, Alive
  <2>3. \A v \in Workers :
           /\ work'[v].pc = "ack" => work'[v] = work[v]
           /\ claim'[v].pc = "ack" => claim'[v] = claim[v]
    BY <1>0, <2>1 DEF Free, TypeOK
  <2>4. AckAfterCopy'
    <3> SUFFICES ASSUME NEW v \in Workers, NEW j \in 1 .. Len(log),
                        \/ work'[v].pc = "ack" /\ IsFirst(j, work'[v].ids)
                        \/ claim'[v].pc = "ack" /\ IsFirst(j, claim'[v].ids)
                 PROVE  Covered(j)'
      BY <2>1 DEF AckAfterCopy
    <3>1. CASE work'[v].pc = "ack" /\ IsFirst(j, work'[v].ids)
      <4>1. work[v].pc = "ack" /\ IsFirst(j, work[v].ids)
        BY <2>3, <3>1
      <4>. QED BY <1>0, <1>A, <2>1, <4>1 DEF AckAfterCopy
    <3>2. CASE claim'[v].pc = "ack" /\ IsFirst(j, claim'[v].ids)
      <4>1. claim[v].pc = "ack" /\ IsFirst(j, claim[v].ids)
        BY <2>3, <3>2
      <4>. QED BY <1>0, <1>A, <2>1, <4>1 DEF AckAfterCopy
    <3>. QED BY <3>1, <3>2
  <2>. QED BY <1>0, <1>A, <2>1, <2>2, <2>4 DEF QueueInv
<1>12. ASSUME UNCHANGED vars PROVE QueueInv'
  <2>1. UNCHANGED <<log, latest, trimmed, cursor, skipped, pel, settled, work, claim>>
    BY <1>12 DEF vars
  <2>2. NoLoss'
    BY <1>0, <2>1 DEF NoLoss, Alive
  <2>3. AckAfterCopy'
    BY <1>0, <1>A, <2>1 DEF AckAfterCopy
  <2>. QED BY <1>0, <1>A, <2>1, <2>2, <2>3 DEF QueueInv
<1>. QED
  BY <1>1, <1>2, <1>3, <1>4, <1>5, <1>6, <1>7, <1>8, <1>9, <1>10, <1>11, <1>12
     DEF Next, RunStep, RecoveryStep, FaultStep

(***************************************************************************)
(* The queue invariant holds in every reachable state.                     *)
(***************************************************************************)
THEOREM QueueInvariant == Spec => []QueueInv
BY QueueInit, QueueStep, PTL DEF Spec

(***************************************************************************)
(* A pushed task is settled or will be seen again by a consumer, whatever  *)
(* crashes, failed calls and premature claims happen, unless its message   *)
(* was trimmed or preceded the creation of the group.                      *)
(***************************************************************************)
THEOREM NothingLost == Spec => []NoLoss
<1>1. QueueInv => NoLoss
  BY DEF QueueInv
<1>. QED BY <1>1, QueueInvariant, PTL

\* Every path that acknowledges, the loop of Run and stale recovery alike, has settled
\* the task or appended its copy first, for any number of workers, messages and faults.
THEOREM CopyComesFirst == Spec => []AckAfterCopy
<1>1. QueueInv => AckAfterCopy
  BY DEF QueueInv
<1>. QED BY <1>1, QueueInvariant, PTL

-----------------------------------------------------------------------------
(* The retry budget.                                                       *)

\* An appended message keeps the count of every earlier one, and the counts stay
\* earned when its own is: this is what Push, requeue and stale recovery have to show.
LEMMA CountsAfterXAdd ==
  ASSUME TypeOK, CountsEarned, BudgetKept, NEW msg \in Message, XAdd(msg), fails' = fails,
         msg.r = 0 \/ msg.r > msg.p,
         msg.from \in 0 .. Len(log),
         ~ShouldDLQ(Max2(msg.r, msg.p)),
         Max2(msg.r, msg.p) <= fails[msg.task],
         msg.from > 0 => Max2(msg.r, msg.p) >= RetryCount(msg.from)
  PROVE  /\ CountsEarned' /\ BudgetKept'
         /\ \A i \in 1 .. Len(log) : log'[i] = log[i] /\ RetryCount(i)' = RetryCount(i)
<1> DEFINE n == Len(log)
<1>1. /\ Len(log') = n + 1 /\ log'[n + 1] = msg
      /\ \A i \in 1 .. n : log'[i] = log[i]
  BY XAddEffect
<1>2. n \in Nat
  BY DEF TypeOK
<1>3. \A i \in 1 .. n : RetryCount(i)' = RetryCount(i)
  BY <1>1 DEF RetryCount
<1>4. \A i \in 1 .. n + 1 : i = n + 1 => RetryCount(i)' = Max2(msg.r, msg.p)
  BY <1>1 DEF RetryCount
<1>5. CountsEarned'
  <2> SUFFICES ASSUME NEW i \in 1 .. n + 1
               PROVE  /\ log'[i].r = 0 \/ log'[i].r > log'[i].p
                      /\ log'[i].from < i
                      /\ ~ShouldDLQ(RetryCount(i)')
                      /\ RetryCount(i)' <= fails[log'[i].task]
    BY <1>1 DEF CountsEarned, ShouldDLQ
  <2>1. CASE i = n + 1
    BY <1>1, <1>2, <1>4, <2>1
  <2>2. CASE i # n + 1
    <3>1. i \in 1 .. n
      BY <1>2, <2>2
    <3>. QED BY <1>1, <1>3, <3>1 DEF CountsEarned
  <2>. QED BY <2>1, <2>2
<1>6. BudgetKept'
  <2> SUFFICES ASSUME NEW i \in 1 .. n + 1, log'[i].from > 0
               PROVE  RetryCount(i)' >= RetryCount(log[i].from)'
    BY <1>1 DEF BudgetKept
  <2>1. CASE i = n + 1
    <3>1. msg.from \in 1 .. n /\ log'[i].from = msg.from
      BY <1>1, <1>2, <2>1
    <3>2. RetryCount(log[i].from)' = RetryCount(msg.from)
      BY <1>3, <3>1 DEF RetryCount
    <3>. QED BY <1>1, <1>4, <2>1, <3>1, <3>2
  <2>2. CASE i # n + 1
    <3>1. i \in 1 .. n /\ log'[i] = log[i]
      BY <1>1, <1>2, <2>2
    <3>2. log[i].from \in 1 .. n
      BY <1>2, <3>1, MessageAt DEF CountsEarned
    <3>3. RetryCount(log[i].from)' = RetryCount(log[i].from) /\ RetryCount(i)' = RetryCount(i)
      BY <1>3, <3>1, <3>2 DEF RetryCount
    <3>. QED BY <3>1, <3>2, <3>3 DEF BudgetKept
  <2>. QED BY <2>1, <2>2
<1>. QED BY <1>1, <1>3, <1>5, <1>6

\* A loop that keeps its place and its messages keeps its verdict, and so does one
\* that leaves the backoff or the DLQ branch.
LEMMA VerdictKept ==
  ASSUME TypeOK, VerdictEarned, fails' = fails, Len(log') \in Nat, Len(log') >= Len(log),
         \A i \in 1 .. Len(log) : log'[i] = log[i] /\ RetryCount(i)' = RetryCount(i),
         \A v \in Workers : work'[v].pc \in {"backoff", "dlq"} => work'[v] = work[v]
  PROVE  VerdictEarned'
<1> SUFFICES ASSUME NEW v \in Workers, NEW j \in 1 .. Len(log'),
                    work'[v].pc \in {"backoff", "dlq"}, IsFirst(j, work'[v].ids)
             PROVE  /\ RetryCount(j)' < fails[log'[j].task]
                    /\ work'[v].pc = "dlq" <=> ShouldDLQ(RetryCount(j)' + 1)
  BY DEF VerdictEarned, ShouldDLQ
<1>1. work'[v] = work[v] /\ IsFirst(j, work[v].ids)
  OBVIOUS
<1>2. j \in 1 .. Len(log)
  BY <1>1, WorksOnStream DEF IsFirst
<1>. QED BY <1>1, <1>2 DEF VerdictEarned

LEMMA BudgetInit == Init => BudgetInv
<1> SUFFICES ASSUME Init PROVE BudgetInv
  OBVIOUS
<1>1. log = <<>> /\ Len(log) = 0 /\ dlq = {}
  BY DEF Init
<1>. QED BY <1>1 DEF BudgetInv, CountsEarned, VerdictEarned, BudgetKept, DLQEarned

LEMMA BudgetStep == TypeOK /\ BudgetInv /\ [Next]_vars => BudgetInv'
<1> SUFFICES ASSUME TypeOK, BudgetInv, [Next]_vars PROVE BudgetInv'
  OBVIOUS
<1> USE DEF streamVars, groupVars
<1>0. /\ CountsEarned /\ VerdictEarned /\ BudgetKept /\ DLQEarned /\ Len(log) \in Nat
      /\ fails \in [Tasks -> Nat] /\ work \in [Workers -> Loop] /\ MaxRetries \in Nat
  BY ConstantsAssumption DEF BudgetInv, TypeOK
\* A step that touches neither the stream, nor the failures, nor the DLQ, and sends no
\* loop into the backoff or the DLQ branch.
<1>A. ASSUME UNCHANGED <<log, fails, dlq>>,
             \A v \in Workers : work'[v].pc \in {"backoff", "dlq"} => work'[v] = work[v]
      PROVE  BudgetInv'
  <2>1. \A i \in 1 .. Len(log) : log'[i] = log[i] /\ RetryCount(i)' = RetryCount(i)
    BY <1>A DEF RetryCount
  <2>2. VerdictEarned'
    BY <1>0, <1>A, <2>1, VerdictKept
  <2>3. CountsEarned' /\ BudgetKept' /\ DLQEarned'
    BY <1>0, <1>A DEF CountsEarned, BudgetKept, DLQEarned, RetryCount, ShouldDLQ
  <2>. QED BY <2>2, <2>3 DEF BudgetInv
\* A step that appends a message with an earned count.
<1>B. ASSUME NEW msg \in Message, XAdd(msg), UNCHANGED <<fails, dlq>>,
             \A v \in Workers : work'[v].pc \in {"backoff", "dlq"} => work'[v] = work[v],
             msg.r = 0 \/ msg.r > msg.p,
             msg.from \in 0 .. Len(log),
             ~ShouldDLQ(Max2(msg.r, msg.p)),
             Max2(msg.r, msg.p) <= fails[msg.task],
             msg.from > 0 => Max2(msg.r, msg.p) >= RetryCount(msg.from)
      PROVE  BudgetInv'
  <2>1. /\ CountsEarned' /\ BudgetKept'
        /\ \A i \in 1 .. Len(log) : log'[i] = log[i] /\ RetryCount(i)' = RetryCount(i)
    BY <1>0, <1>B, CountsAfterXAdd
  <2>2. Len(log') = Len(log) + 1
    BY <1>B, XAddEffect
  <2>3. VerdictEarned'
    BY <1>0, <1>B, <2>1, <2>2, VerdictKept
  <2>4. DLQEarned'
    BY <1>0, <1>B DEF DLQEarned
  <2>. QED BY <2>1, <2>3, <2>4 DEF BudgetInv
<1>1. ASSUME NEW t \in Tasks, Push(t) PROVE BudgetInv'
  <2> DEFINE msg == [task |-> t, r |-> 0, p |-> 0, from |-> 0]
  <2>1. msg \in Message /\ Max2(msg.r, msg.p) = 0
    BY DEF Message, Max2
  <2>2. XAdd(msg) /\ UNCHANGED <<fails, dlq, work>>
    BY <1>1 DEF Push
  <2>3. ~ShouldDLQ(0) /\ 0 <= fails[t]
    BY <1>0 DEF ShouldDLQ
  <2>4. msg.r = 0 /\ msg.from = 0 /\ msg.task = t
    OBVIOUS
  <2> HIDE DEF msg
  <2>. QED BY <1>0, <1>B, <2>1, <2>2, <2>3, <2>4
<1>2. ASSUME EnsureGroup PROVE BudgetInv'
  BY <1>A, <1>2 DEF EnsureGroup
<1>3. ASSUME NEW w \in Workers, Pop(w) PROVE BudgetInv'
  <2>1. UNCHANGED <<log, fails, dlq>>
    BY <1>3 DEF Pop
  <2>2. PICK ids : work' = [work EXCEPT ![w] = [pc |-> "process", ids |-> ids]]
    BY <1>3 DEF Pop
  <2>. QED BY <1>0, <1>A, <2>1, <2>2
<1>4. ASSUME NEW w \in Workers, NEW i \in work[w].ids, HandleOK(w, i) PROVE BudgetInv'
  <2>1. UNCHANGED <<log, fails, dlq>> /\ work' = [work EXCEPT ![w].pc = "ack"]
    BY <1>4 DEF HandleOK
  <2>. QED BY <1>0, <1>A, <2>1 DEF Loop
<1>5. ASSUME NEW w \in Workers, NEW i \in work[w].ids, HandleRetry(w, i) PROVE BudgetInv'
  <2> DEFINE t0 == log[i].task
  <2>1. i \in 1 .. Len(log) /\ t0 \in Tasks /\ RetryCount(i) \in Nat
    BY WorksOnStream, MessageAt, RetryCountNat
  <2>2. /\ IsFirst(i, work[w].ids)
        /\ fails' = [fails EXCEPT ![t0] = fails[t0] + 1]
        /\ work' = [work EXCEPT ![w].pc = IF ShouldDLQ(RetryCount(i) + 1) THEN "dlq" ELSE "backoff"]
        /\ UNCHANGED <<log, dlq>>
    BY <1>5 DEF HandleRetry
  <2> HIDE DEF t0
  <2>3. fails'[t0] = fails[t0] + 1 /\ \A t \in Tasks : fails[t] \in Nat /\ fails'[t] >= fails[t]
    BY <1>0, <2>1, <2>2
  <2>4. \A j \in 1 .. Len(log) : RetryCount(j)' = RetryCount(j) /\ RetryCount(j) \in Nat
                                   /\ log[j].task \in Tasks
    BY <2>2, MessageAt, RetryCountNat DEF RetryCount
  <2>5. CountsEarned'
    <3> SUFFICES ASSUME NEW j \in 1 .. Len(log)
                 PROVE  /\ log[j].r = 0 \/ log[j].r > log[j].p
                        /\ log[j].from < j
                        /\ ~ShouldDLQ(RetryCount(j))
                        /\ RetryCount(j) <= fails'[log[j].task]
      BY <2>2, <2>4 DEF CountsEarned, ShouldDLQ
    <3>1. RetryCount(j) <= fails[log[j].task]
      BY <1>0 DEF CountsEarned
    <3>2. fails'[log[j].task] \in Nat /\ fails[log[j].task] \in Nat
            /\ fails'[log[j].task] >= fails[log[j].task]
      BY <1>0, <2>1, <2>2, <2>4
    <3>3. RetryCount(j) <= fails'[log[j].task]
      BY <2>4, <3>1, <3>2
    <3>. QED BY <1>0, <3>3 DEF CountsEarned
  <2>6. VerdictEarned'
    <3> SUFFICES ASSUME NEW v \in Workers, NEW j \in 1 .. Len(log),
                        work'[v].pc \in {"backoff", "dlq"}, IsFirst(j, work'[v].ids)
                 PROVE  /\ RetryCount(j) < fails'[log[j].task]
                        /\ work'[v].pc = "dlq" <=> ShouldDLQ(RetryCount(j) + 1)
      BY <2>2, <2>4 DEF VerdictEarned, ShouldDLQ
    <3>1. CASE v = w
      <4>1. work'[w].ids = work[w].ids
              /\ work'[w].pc = IF ShouldDLQ(RetryCount(i) + 1) THEN "dlq" ELSE "backoff"
        BY <1>0, <2>2 DEF Loop
      <4>2. work[w].ids \subseteq Nat
        BY WorksOnStream
      <4>3. j = i
        BY <2>2, <3>1, <4>1, <4>2, FirstUnique
      <4>4. RetryCount(i) <= fails[t0]
        BY <1>0, <2>1 DEF CountsEarned, t0
      <4>5. RetryCount(i) < fails'[t0]
        BY <2>1, <2>3, <4>4
      <4>. QED BY <3>1, <4>1, <4>3, <4>5 DEF t0
    <3>2. CASE v # w
      <4>1. work'[v] = work[v]
        BY <1>0, <2>2, <3>2
      <4>2. RetryCount(j) < fails[log[j].task] /\ (work[v].pc = "dlq" <=> ShouldDLQ(RetryCount(j) + 1))
        BY <1>0, <4>1 DEF VerdictEarned
      <4>3. fails'[log[j].task] \in Nat /\ fails[log[j].task] \in Nat
              /\ fails'[log[j].task] >= fails[log[j].task]
        BY <1>0, <2>1, <2>2, <2>4
      <4>. QED BY <2>4, <4>1, <4>2, <4>3
    <3>. QED BY <3>1, <3>2
  <2>7. BudgetKept'
    BY <1>0, <2>2 DEF BudgetKept, RetryCount
  <2>8. DLQEarned'
    <3> SUFFICES ASSUME NEW d \in dlq PROVE d.r = MaxRetries + 1 /\ fails'[d.task] >= d.r
      BY <2>2 DEF DLQEarned
    <3>1. d.task \in Tasks /\ d.r \in Nat
      BY DEF TypeOK
    <3>2. fails'[d.task] \in Nat /\ fails[d.task] \in Nat /\ fails'[d.task] >= fails[d.task]
      BY <1>0, <2>1, <2>2, <3>1
    <3>. QED BY <1>0, <3>1, <3>2 DEF DLQEarned
  <2>. QED BY <2>5, <2>6, <2>7, <2>8 DEF BudgetInv
<1>6. ASSUME NEW w \in Workers, NEW i \in work[w].ids, Requeue(w, i) PROVE BudgetInv'
  <2> DEFINE msg == [task |-> log[i].task, r |-> RetryCount(i) + 1, p |-> log[i].p, from |-> i]
  <2>1. /\ i \in 1 .. Len(log) /\ RetryCount(i) \in Nat /\ log[i].p \in Nat /\ log[i].r \in Nat
        /\ log[i].task \in Tasks
    BY WorksOnStream, RetryCountNat, MessageAt
  <2>2. msg \in Message
    BY <2>1 DEF Message
  <2>3. /\ XAdd(msg) /\ work' = [work EXCEPT ![w].pc = "ack"] /\ UNCHANGED <<fails, dlq>>
        /\ work[w].pc = "backoff" /\ IsFirst(i, work[w].ids)
    BY <1>6 DEF Requeue
  <2>4. RetryCount(i) < fails[log[i].task] /\ ~ShouldDLQ(RetryCount(i) + 1)
    BY <1>0, <2>1, <2>3 DEF VerdictEarned
  <2>5. msg.task = log[i].task /\ msg.r = RetryCount(i) + 1 /\ msg.p = log[i].p /\ msg.from = i
    OBVIOUS
  <2> HIDE DEF msg
  <2>6. msg.r > msg.p /\ Max2(msg.r, msg.p) = RetryCount(i) + 1
    BY <2>1, <2>5 DEF RetryCount, Max2
  <2>7. Max2(msg.r, msg.p) <= fails[msg.task] /\ ~ShouldDLQ(Max2(msg.r, msg.p))
    <3>1. fails[log[i].task] \in Nat
      BY <1>0, <2>1
    <3>. QED BY <2>1, <2>4, <2>5, <2>6, <3>1
  <2>8. Max2(msg.r, msg.p) >= RetryCount(msg.from) /\ msg.from \in 0 .. Len(log)
    BY <2>1, <2>5, <2>6
  <2>9. \A v \in Workers : work'[v].pc \in {"backoff", "dlq"} => work'[v] = work[v]
    BY <1>0, <2>3 DEF Loop
  <2>. QED BY <1>B, <2>2, <2>3, <2>6, <2>7, <2>8, <2>9
<1>7. ASSUME NEW w \in Workers, NEW i \in work[w].ids, RouteDLQ(w, i) PROVE BudgetInv'
  <2>1. i \in 1 .. Len(log) /\ RetryCount(i) \in Nat /\ log[i].task \in Tasks
    BY WorksOnStream, RetryCountNat, MessageAt
  <2>2. /\ work[w].pc = "dlq" /\ IsFirst(i, work[w].ids)
        /\ dlq' = dlq \union {[task |-> log[i].task, r |-> RetryCount(i) + 1]}
        /\ work' = [work EXCEPT ![w].pc = "ack"]
        /\ UNCHANGED <<log, fails>>
    BY <1>7 DEF RouteDLQ
  <2>3. RetryCount(i) < fails[log[i].task] /\ ShouldDLQ(RetryCount(i) + 1) /\ ~ShouldDLQ(RetryCount(i))
    BY <1>0, <2>1, <2>2 DEF VerdictEarned, CountsEarned
  <2>4. RetryCount(i) = MaxRetries
    BY <1>0, <2>1, <2>3 DEF ShouldDLQ
  <2>5. DLQEarned'
    <3>1. fails[log[i].task] \in Nat
      BY <1>0, <2>1
    <3>. QED BY <1>0, <2>1, <2>2, <2>3, <2>4, <3>1 DEF DLQEarned
  <2>6. \A j \in 1 .. Len(log) : log'[j] = log[j] /\ RetryCount(j)' = RetryCount(j)
    BY <2>2 DEF RetryCount
  <2>7. \A v \in Workers : work'[v].pc \in {"backoff", "dlq"} => work'[v] = work[v]
    BY <1>0, <2>2 DEF Loop
  <2>8. VerdictEarned'
    BY <1>0, <2>2, <2>6, <2>7, VerdictKept
  <2>9. CountsEarned' /\ BudgetKept'
    BY <1>0, <2>2 DEF CountsEarned, BudgetKept, RetryCount, ShouldDLQ
  <2>. QED BY <2>5, <2>8, <2>9 DEF BudgetInv
<1>8. ASSUME NEW w \in Workers, NEW i \in work[w].ids, Ack(w, i) \/ CallFails(w, i) PROVE BudgetInv'
  <2>1. UNCHANGED <<log, fails, dlq>> /\ Finish(w, i)
    BY <1>8 DEF Ack, CallFails
  <2>. QED BY <1>0, <1>A, <2>1 DEF Finish
<1>9. ASSUME NEW w \in Workers, NEW S \in SUBSET pel, RecoverStale(w, S) PROVE BudgetInv'
  BY <1>A, <1>9 DEF RecoverStale
<1>10. ASSUME NEW w \in Workers, NEW i \in claim[w].ids, RecoverPush(w, i) PROVE BudgetInv'
  <2> DEFINE msg == [task |-> log[i].task, r |-> 0, p |-> Carried(log[i]), from |-> i]
  <2>1. /\ i \in 1 .. Len(log) /\ RetryCount(i) \in Nat /\ log[i].p \in Nat /\ log[i].r \in Nat
        /\ log[i].task \in Tasks /\ Carried(log[i]) \in Nat
    BY WorksOnStream, RetryCountNat, MessageAt
  <2>2. msg \in Message
    BY <2>1 DEF Message
  <2>3. XAdd(msg) /\ UNCHANGED <<fails, dlq, work>>
    BY <1>10 DEF RecoverPush
  <2>4. /\ log[i].r = 0 \/ log[i].r > log[i].p
        /\ ~ShouldDLQ(RetryCount(i)) /\ RetryCount(i) <= fails[log[i].task]
    BY <1>0, <2>1 DEF CountsEarned
  <2>5. msg.task = log[i].task /\ msg.r = 0 /\ msg.p = Carried(log[i]) /\ msg.from = i
    OBVIOUS
  <2> HIDE DEF msg
  <2>6. Max2(msg.r, msg.p) = RetryCount(i)
    BY <2>1, <2>4, <2>5 DEF RetryCount, Max2, Carried
  <2>. QED BY <1>B, <2>1, <2>2, <2>3, <2>4, <2>5, <2>6
<1>11. ASSUME NEW w \in Workers, NEW i \in claim[w].ids, RecoverAck(w, i) \/ RecoverFails(w, i)
       PROVE BudgetInv'
  BY <1>A, <1>11 DEF RecoverAck, RecoverFails
<1>12. ASSUME NEW w \in Workers, Crash(w) PROVE BudgetInv'
  <2>1. UNCHANGED <<log, fails, dlq>> /\ work' = [work EXCEPT ![w] = Free]
    BY <1>12 DEF Crash
  <2>. QED BY <1>0, <1>A, <2>1 DEF Free
<1>13. ASSUME UNCHANGED vars PROVE BudgetInv'
  BY <1>A, <1>13 DEF vars
<1>. QED
  BY <1>1, <1>2, <1>3, <1>4, <1>5, <1>6, <1>7, <1>8, <1>9, <1>10, <1>11, <1>12, <1>13
     DEF Next, RunStep, RecoveryStep, FaultStep

(***************************************************************************)
(* The retry count of a task survives requeueing, duplication and stale    *)
(* recovery: every count on the stream is earned by handler failures, and  *)
(* a copy never counts less than its original (requeue, withRetryCount).   *)
(***************************************************************************)
THEOREM BudgetInvariant == Spec => []BudgetInv
<1>1. Init => TypeOK /\ BudgetInv
  BY TypeInit, BudgetInit
<1>2. TypeOK /\ BudgetInv /\ [Next]_vars => (TypeOK /\ BudgetInv)'
  BY TypeStep, BudgetStep
<1>. QED BY <1>1, <1>2, PTL DEF Spec

\* A task reaches the DLQ (routeDLQ) only after more than MaxRetries failures of its
\* handler, whatever crashes, duplicates and premature claims came in between.
THEOREM DeadLetterIsEarned == Spec => []DLQEarned
<1>1. BudgetInv => DLQEarned
  BY DEF BudgetInv
<1>. QED BY <1>1, BudgetInvariant, PTL

-----------------------------------------------------------------------------
(* Without trimming: the refinement of TaskLedger, its safety part.        *)

\* What the group has not delivered, nobody has in memory.
Delivered(i) == i \in pel \/ \E w \in Workers : i \in work[w].ids \/ i \in claim[w].ids

LEMMA DeliveredIs == DeliveredInv <=> trimmed = 0 /\ \A i : Delivered(i) => groupUp /\ i > skipped
BY DEF DeliveredInv, Delivered

LEMMA DeliveredInit == Init => DeliveredInv
BY DEF Init, DeliveredInv, Free

LEMMA DeliveredStep ==
  ASSUME MaxLen = 0
  PROVE  TypeOK /\ DeliveredInv /\ [Next]_vars => DeliveredInv'
<1> SUFFICES ASSUME TypeOK, DeliveredInv, [Next]_vars PROVE DeliveredInv'
  OBVIOUS
<1> USE DEF streamVars, groupVars
<1>0. trimmed = 0 /\ \A i : Delivered(i) => groupUp /\ i > skipped
  BY DeliveredIs
<1>P. ASSUME trimmed' = trimmed, UNCHANGED <<groupUp, skipped>>, \A i : Delivered(i)' => Delivered(i)
      PROVE  DeliveredInv'
  <2>1. trimmed' = 0 /\ \A i : Delivered(i)' => groupUp' /\ i > skipped'
    BY <1>0, <1>P
  <2>. QED BY <2>1 DEF DeliveredInv, Delivered
<1>1. ASSUME NEW m, XAdd(m), UNCHANGED <<groupUp, skipped, pel>>,
             \A w \in Workers : work'[w].ids = work[w].ids /\ claim'[w].ids = claim[w].ids
      PROVE  DeliveredInv'
  BY <1>1, <1>P DEF XAdd, Delivered
<1>2. ASSUME NEW t \in Tasks, Push(t) PROVE DeliveredInv'
  BY <1>1, <1>2 DEF Push
<1>3. ASSUME EnsureGroup PROVE DeliveredInv'
  <2>1. \A i : ~Delivered(i) /\ ~Delivered(i)'
    BY <1>0, <1>3 DEF EnsureGroup, Delivered
  <2>. QED BY <1>0, <1>3, <2>1 DEF EnsureGroup, DeliveredInv, Delivered
<1>4. ASSUME NEW w \in Workers, Pop(w) PROVE DeliveredInv'
  <2> DEFINE hi == IF cursor + Batch < Len(log) THEN cursor + Batch ELSE Len(log)
             new == cursor + 1 .. hi
  <2>1. cursor \in Nat /\ skipped \in Nat /\ skipped <= cursor /\ Max2(cursor, trimmed) = cursor /\ Len(log) \in Nat
    BY <1>0 DEF TypeOK, Max2
  <2>2. /\ groupUp /\ pel' = pel \union new /\ UNCHANGED <<groupUp, skipped, trimmed, claim>>
        /\ work' = [work EXCEPT ![w] = [pc |-> "process", ids |-> new]]
    BY <1>4, <2>1 DEF Pop
  <2>3. \A i \in new : i > skipped
    BY <2>1, ConstantsAssumption
  <2> HIDE DEF new
  <2>4. \A v \in Workers : work'[v].ids \in {work[v].ids, new}
    BY <2>2 DEF TypeOK
  <2>5. \A i : Delivered(i)' => Delivered(i) \/ i \in new
    BY <2>2, <2>4 DEF Delivered
  <2>6. trimmed' = 0 /\ \A i : Delivered(i)' => groupUp' /\ i > skipped'
    BY <1>0, <2>2, <2>3, <2>5
  <2>. QED BY <2>6 DEF DeliveredInv, Delivered
<1>5. ASSUME NEW w \in Workers, NEW i \in work[w].ids,
             HandleOK(w, i) \/ HandleRetry(w, i) \/ RouteDLQ(w, i) \/ Ack(w, i) \/ CallFails(w, i)
      PROVE  DeliveredInv'
  <2>1. UNCHANGED <<trimmed, groupUp, skipped, claim>> /\ pel' \subseteq pel
    BY <1>5 DEF HandleOK, HandleRetry, RouteDLQ, Ack, CallFails
  <2>2. CASE HandleOK(w, i) \/ HandleRetry(w, i) \/ RouteDLQ(w, i)
    <3>1. \A v \in Workers : work'[v].ids = work[v].ids
      <4>1. work \in [Workers -> Loop]
        BY DEF TypeOK
      <4>2. \E c : work' = [work EXCEPT ![w].pc = c]
        BY <2>2 DEF HandleOK, HandleRetry, RouteDLQ
      <4>. QED BY <4>1, <4>2 DEF Loop
    <3>. QED BY <1>P, <2>1, <3>1 DEF Delivered
  <2>3. CASE Ack(w, i) \/ CallFails(w, i)
    <3>1. Finish(w, i) /\ work \in [Workers -> Loop]
      BY <2>3 DEF Ack, CallFails, TypeOK
    <3>2. \A v \in Workers : work'[v].ids \subseteq work[v].ids
      BY <3>1 DEF Finish
    <3>. QED BY <1>P, <2>1, <3>2 DEF Delivered
  <2>. QED BY <1>5, <2>2, <2>3
<1>6. ASSUME NEW w \in Workers, NEW i \in work[w].ids, Requeue(w, i) PROVE DeliveredInv'
  <2>1. \A v \in Workers : work'[v].ids = work[v].ids
    BY <1>6 DEF Requeue, TypeOK, Loop
  <2>. QED BY <1>1, <1>6, <2>1 DEF Requeue
<1>7. ASSUME NEW w \in Workers, NEW S \in SUBSET pel, RecoverStale(w, S) PROVE DeliveredInv'
  <2>1. UNCHANGED <<trimmed, groupUp, skipped, work>> /\ pel' \subseteq pel
    BY <1>7 DEF RecoverStale
  <2>2. \A v \in Workers : claim'[v].ids \subseteq claim[v].ids \union pel
    BY <1>7 DEF RecoverStale, TypeOK, Loop
  <2>. QED BY <1>P, <2>1, <2>2 DEF Delivered
<1>8. ASSUME NEW w \in Workers, NEW i \in claim[w].ids, RecoverPush(w, i) PROVE DeliveredInv'
  <2>1. \A v \in Workers : claim'[v].ids = claim[v].ids
    BY <1>8 DEF RecoverPush, TypeOK, Loop
  <2>. QED BY <1>1, <1>8, <2>1 DEF RecoverPush
<1>9. ASSUME NEW w \in Workers, NEW i \in claim[w].ids, RecoverAck(w, i) \/ RecoverFails(w, i) PROVE DeliveredInv'
  <2>1. UNCHANGED <<trimmed, groupUp, skipped, work>> /\ pel' \subseteq pel
    BY <1>9 DEF RecoverAck, RecoverFails
  <2>2. \A v \in Workers : claim'[v].ids \subseteq claim[v].ids
    BY <1>9 DEF RecoverAck, RecoverFails, FinishClaim, TypeOK, Loop
  <2>. QED BY <1>P, <2>1, <2>2 DEF Delivered
<1>10. ASSUME NEW w \in Workers, Crash(w) PROVE DeliveredInv'
  <2>1. UNCHANGED <<trimmed, groupUp, skipped, pel>>
    BY <1>10 DEF Crash
  <2>2. \A v \in Workers : work'[v].ids \subseteq work[v].ids /\ claim'[v].ids \subseteq claim[v].ids
    BY <1>10 DEF Crash, Free, TypeOK, Loop
  <2>. QED BY <1>P, <2>1, <2>2 DEF Delivered
<1>11. ASSUME UNCHANGED vars PROVE DeliveredInv'
  BY <1>11 DEF vars, DeliveredInv
<1>. QED BY <1>2, <1>3, <1>4, <1>5, <1>6, <1>7, <1>8, <1>9, <1>10, <1>11
         DEF Next, RunStep, RecoveryStep, FaultStep

\* Nothing being lost, a task is outstanding until it is settled.
LEMMA OutstandingIs ==
  QueueInv /\ trimmed = 0 => Outstanding = {t \in Tasks : groupUp /\ latest[t] > skipped /\ t \notin settled}
<1> SUFFICES ASSUME QueueInv, trimmed = 0
             PROVE  Outstanding = {t \in Tasks : groupUp /\ latest[t] > skipped /\ t \notin settled}
  OBVIOUS
<1>1. skipped \in Nat /\ \A t \in Tasks : latest[t] \in Nat
  BY DEF QueueInv, TypeOK
<1>2. ASSUME NEW t \in Tasks, latest[t] > skipped, t \notin settled PROVE Alive(latest[t])
  BY <1>1, <1>2 DEF QueueInv, NoLoss
<1>. QED BY <1>2 DEF Outstanding

\* A task a worker works on was accepted, and is outstanding unless it is settled.
LEMMA WorkedOnIsOutstanding ==
  ASSUME QueueInv, DeliveredInv, NEW i \in 1 .. Len(log), Delivered(i)
  PROVE  log[i].task \in Tasks /\ (log[i].task \in Outstanding \/ log[i].task \in settled)
<1>1. TypeOK /\ LatestIsNewest /\ trimmed = 0 /\ groupUp /\ i > skipped
  BY DeliveredIs DEF QueueInv
<1>2. log[i].task \in Tasks /\ i <= latest[log[i].task]
  BY <1>1, MessageAt DEF LatestIsNewest
<1>3. latest[log[i].task] > skipped
  BY <1>1, <1>2 DEF TypeOK
<1>. QED BY <1>1, <1>2, <1>3, OutstandingIs

LEMMA LedgerStep ==
  ASSUME QueueInv, DeliveredInv, QueueInv', DeliveredInv', Next
  PROVE  Ledger!Next \/ UNCHANGED <<Outstanding, settled>>
<1> USE DEF streamVars, groupVars
<1> DEFINE Open == {t \in Tasks : groupUp /\ latest[t] > skipped /\ t \notin settled}
<1>0. Outstanding = Open /\ Outstanding' = Open' /\ TypeOK /\ trimmed = 0 /\ trimmed' = 0 /\ Len(log) \in Nat
        /\ skipped \in Nat /\ cursor \in Nat /\ skipped <= Len(log) /\ \A t \in Tasks : latest[t] \in Nat /\ latest[t] <= Len(log)
  <2>1. Outstanding = Open
    BY OutstandingIs DEF DeliveredInv
  <2>2. (Outstanding = Open)'
    <3>1. (trimmed = 0)'
      BY DEF DeliveredInv
    <3>. QED BY <3>1, OutstandingIs, PTL
  <2>3. TypeOK /\ trimmed = 0 /\ trimmed' = 0
    BY DEF QueueInv, DeliveredInv
  <2>. QED BY <2>1, <2>2, <2>3 DEF TypeOK
\* What neither appends nor settles is not seen.
<1>U. ASSUME UNCHANGED <<groupUp, skipped, latest, settled>> PROVE UNCHANGED <<Outstanding, settled>>
  BY <1>0, <1>U
\* A copy of a message that was delivered.
<1>C. ASSUME NEW i \in 1 .. Len(log), Delivered(i), UNCHANGED <<groupUp, skipped, settled>>,
             latest' = [latest EXCEPT ![log[i].task] = Len(log) + 1]
      PROVE  UNCHANGED <<Outstanding, settled>>
  <2> DEFINE t == log[i].task
  <2>1. t \in Tasks /\ (t \in Open \/ t \in settled)
    BY <1>0, <1>C, WorkedOnIsOutstanding
  <2>2. latest'[t] = Len(log) + 1 /\ \A u \in Tasks : u # t => latest'[u] = latest[u]
    BY <1>0, <1>C, <2>1 DEF TypeOK
  <2> HIDE DEF t
  <2>3. latest'[t] > skipped
    BY <1>0, <2>2
  <2>4. Open' = Open
    BY <1>C, <2>1, <2>2, <2>3
  <2>. QED BY <1>0, <1>C, <2>4
<1>1. ASSUME NEW t \in Tasks, Push(t) PROVE Ledger!Next \/ UNCHANGED <<Outstanding, settled>>
  <2>1. /\ latest[t] = 0 /\ latest' = [latest EXCEPT ![t] = Len(log) + 1]
        /\ UNCHANGED <<groupUp, skipped, settled>>
    BY <1>1 DEF Push, XAdd
  <2>2. latest'[t] = Len(log) + 1 /\ \A u \in Tasks : u # t => latest'[u] = latest[u]
    BY <1>0, <2>1 DEF TypeOK
  <2>3. latest'[t] > skipped /\ ~(latest[t] > skipped)
    BY <1>0, <2>1, <2>2
  <2>4. CASE groupUp /\ t \notin settled
    <3>1. t \notin Open /\ Open' = Open \union {t}
      BY <2>1, <2>2, <2>3, <2>4
    <3>2. Ledger!Accept(t)
      BY <1>0, <2>1, <2>4, <3>1 DEF Ledger!Accept
    <3>. QED BY <3>2 DEF Ledger!Next
  <2>5. CASE ~(groupUp /\ t \notin settled)
    <3>1. Open' = Open
      BY <2>1, <2>2, <2>3, <2>5
    <3>. QED BY <1>0, <2>1, <3>1
  <2>. QED BY <2>4, <2>5
<1>2. ASSUME EnsureGroup PROVE UNCHANGED <<Outstanding, settled>>
  <2>1. ~groupUp /\ skipped' = Len(log) /\ UNCHANGED <<latest, settled>>
    BY <1>2 DEF EnsureGroup
  <2>2. Open = {}
    BY <2>1
  <2>3. Open' = {}
    BY <1>0, <2>1
  <2>. QED BY <1>0, <2>1, <2>2, <2>3
<1>3. ASSUME NEW w \in Workers, NEW i \in work[w].ids, HandleOK(w, i) \/ RouteDLQ(w, i)
      PROVE  Ledger!Next \/ UNCHANGED <<Outstanding, settled>>
  <2> DEFINE t == log[i].task
  <2>1. i \in 1 .. Len(log) /\ Delivered(i)
    BY <1>0, WorksOnStream DEF Delivered
  <2>2. t \in Tasks /\ (t \in Open \/ t \in settled)
    BY <1>0, <2>1, WorkedOnIsOutstanding
  <2>3. settled' = settled \union {t} /\ UNCHANGED <<groupUp, skipped, latest>>
    BY <1>3 DEF HandleOK, RouteDLQ
  <2> HIDE DEF t
  <2>4. Open' = Open \ {t}
    BY <2>3
  <2>5. CASE t \in settled
    <3>1. settled' = settled /\ Open' = Open
      BY <2>3, <2>4, <2>5
    <3>. QED BY <1>0, <3>1
  <2>6. CASE t \in Open
    <3>1. Ledger!Settle(t)
      BY <1>0, <2>3, <2>4, <2>6 DEF Ledger!Settle
    <3>. QED BY <2>2, <3>1 DEF Ledger!Next
  <2>. QED BY <2>2, <2>5, <2>6
<1>4. ASSUME NEW w \in Workers, NEW i \in work[w].ids, Requeue(w, i) PROVE UNCHANGED <<Outstanding, settled>>
  <2>1. i \in 1 .. Len(log) /\ Delivered(i)
    BY <1>0, WorksOnStream DEF Delivered
  <2>. QED BY <1>4, <1>C, <2>1 DEF Requeue, XAdd
<1>5. ASSUME NEW w \in Workers, NEW i \in claim[w].ids, RecoverPush(w, i) PROVE UNCHANGED <<Outstanding, settled>>
  <2>1. i \in 1 .. Len(log) /\ Delivered(i)
    BY <1>0, WorksOnStream DEF Delivered
  <2>. QED BY <1>5, <1>C, <2>1 DEF RecoverPush, XAdd
<1>6. ASSUME NEW w \in Workers,
             \/ Pop(w) \/ \E S \in SUBSET pel : RecoverStale(w, S)
             \/ \E i \in work[w].ids : HandleRetry(w, i) \/ Ack(w, i) \/ CallFails(w, i)
             \/ \E i \in claim[w].ids : RecoverAck(w, i) \/ RecoverFails(w, i)
             \/ Crash(w)
      PROVE  UNCHANGED <<Outstanding, settled>>
  BY <1>6, <1>U DEF Pop, RecoverStale, HandleRetry, Ack, CallFails, RecoverAck, RecoverFails, Crash
<1>. QED BY <1>1, <1>2, <1>3, <1>4, <1>5, <1>6 DEF Next, RunStep, RecoveryStep, FaultStep

\* Without trimming the queue and its workers are, step by step, the durable work queue of
\* TaskLedger: whatever crashes, fails or is delivered twice, a task that was accepted stays
\* outstanding until it is settled, it is settled once, and a settled one never comes back.
THEOREM QueueIsLedger == MaxLen = 0 => (Spec => Ledger!Safety)
<1> SUFFICES ASSUME MaxLen = 0 PROVE Spec => Ledger!Safety
  OBVIOUS
<1>1. Init => Ledger!Init
  BY DEF Init, Ledger!Init, Outstanding
<1>2. Spec => []DeliveredInv
  <2>1. TypeOK /\ DeliveredInv /\ [Next]_vars => DeliveredInv'
    BY DeliveredStep
  <2>. QED BY <2>1, DeliveredInit, TypeCorrect, PTL DEF Spec
<1>3. QueueInv /\ DeliveredInv /\ QueueInv' /\ DeliveredInv' /\ [Next]_vars => [Ledger!Next]_<<Outstanding, settled>>
  <2> SUFFICES ASSUME QueueInv, DeliveredInv, QueueInv', DeliveredInv', [Next]_vars
               PROVE  Ledger!Next \/ UNCHANGED <<Outstanding, settled>>
    OBVIOUS
  <2>1. CASE Next
    BY <2>1, LedgerStep
  <2>2. CASE UNCHANGED vars
    BY <2>2 DEF vars, Outstanding, Alive
  <2>. QED BY <2>1, <2>2
<1>. QED BY <1>1, <1>2, <1>3, QueueInvariant, PTL DEF Spec, Ledger!Safety

=============================================================================
