--------------------------- MODULE PipelineProofs ---------------------------
(***************************************************************************)
(* Proofs about Pipeline, for any number of matches, workers, retries and  *)
(* faults: no match is lost between two stages; and, at the end, about the *)
(* circuit breaker of the last stage.                                      *)
(***************************************************************************)
EXTENDS Pipeline, MCCircuitBreaker, TLAPS

USE ConstantsAssumption

\* Enqueue appends one message with the given queue, match and attempt.
LEMMA EnqueueEffect ==
    ASSUME NEW q \in {"fetch", "parse"}, NEW m \in Matches, NEW n \in Nat, Enqueue(q, m, n)
    PROVE  \E g \in Message : msgs' = msgs \union {g} /\ g.queue = q /\ g.match = m /\ g.tries = n
<1> DEFINE i == CHOOSE i \in FreshIds : TRUE
           g == [id |-> i, queue |-> q, match |-> m, tries |-> n]
<1>1. i \in FreshIds
  BY DEF Enqueue
<1>2. i \in Ids
  BY <1>1 DEF FreshIds
<1> HIDE DEF i
<1>3. g \in Message /\ g.queue = q /\ g.match = m /\ g.tries = n
  BY <1>2 DEF Message
<1>4. msgs' = msgs \union {g}
  BY DEF Enqueue, i
<1> QED BY <1>3, <1>4

\* The empty pipeline is well typed.
LEMMA TypeInit == Init => TypeOK
BY DEF Init, TypeOK, Idle, WorkerState, Workers

\* A worker that is not idle has a message.
LEMMA HasMessage ==
    ASSUME TypeOK, NEW w \in Workers, worker[w].pc # "idle"
    PROVE  /\ worker[w].msg \in Message
           /\ Match(w) \in Matches
           /\ worker[w].msg.tries \in Nat
           /\ worker[w].msg.queue \in {"fetch", "parse"}
BY DEF TypeOK, Message, Match

\* Every step keeps the types.
LEMMA TypeStep == TypeOK /\ [Next]_vars => TypeOK'
<1> SUFFICES ASSUME TypeOK, [Next]_vars PROVE TypeOK'
  OBVIOUS
<1>1. ASSUME NEW m \in Matches, Discover(m) PROVE TypeOK'
  BY <1>1 DEF Discover, Fault, TypeOK
<1>2. ASSUME NEW m \in Matches, Expire(m) PROVE TypeOK'
  BY <1>2 DEF Expire, TypeOK
<1>3. ASSUME NEW m \in Matches, Forget(m) PROVE TypeOK'
  BY <1>3 DEF Forget, TypeOK
<1>4. CASE PushFetch
  <2>1. candidate \in Matches
    BY <1>4 DEF PushFetch, TypeOK
  <2>2. msgs' \subseteq Message
    BY <1>4, <2>1, EnqueueEffect DEF PushFetch, TypeOK
  <2> QED BY <1>4, <2>1, <2>2 DEF PushFetch, TypeOK
<1>5. CASE PushFetchFails
  BY <1>5 DEF PushFetchFails, Fault, TypeOK
<1>6. ASSUME NEW w \in Workers, NEW g \in msgs, Take(w, g) PROVE TypeOK'
  BY <1>6 DEF Take, TypeOK, At, WorkerState
<1>7. ASSUME NEW w \in Workers, FetchStep(w) PROVE TypeOK'
  <2>1. ASSUME NEW body \in {"good", "bad"}, FetchOK(w, body) PROVE TypeOK'
    BY <2>1 DEF FetchOK, At, TypeOK, WorkerState
  <2>2. ASSUME NEW why \in {"gone", "server"}, FetchDrop(w, why) PROVE TypeOK'
    <3>1. Match(w) \in Matches
      BY <2>2, HasMessage DEF FetchDrop, At
    <3> QED BY <2>2, <3>1 DEF FetchDrop, EndsBecause, Goto, At, TypeOK, WorkerState, Reasons
  <2>3. CASE FetchTransient(w)
    BY <2>3 DEF FetchTransient, Goto, At, TypeOK, WorkerState
  <2>4. CASE Put(w)
    <3>1. Match(w) \in Matches /\ worker[w].body \in {"none", "good", "bad"}
      BY <2>4, HasMessage DEF Put, At, TypeOK, WorkerState
    <3> QED BY <2>4, <3>1 DEF Put, Goto, At, TypeOK, WorkerState
  <2>5. CASE PushParse(w)
    <3>1. Match(w) \in Matches
      BY <2>5, HasMessage DEF PushParse, At
    <3>2. msgs' \subseteq Message
      BY <2>5, <3>1, EnqueueEffect DEF PushParse, TypeOK
    <3> QED BY <2>5, <3>2 DEF PushParse, Goto, At, TypeOK, WorkerState
  <2> QED BY <1>7, <2>1, <2>2, <2>3, <2>4, <2>5 DEF FetchStep
<1>8. ASSUME NEW w \in Workers, ParseStep(w) PROVE TypeOK'
  <2>1. worker[w].pc # "idle"
    BY <1>8 DEF ParseStep, Get, Commit, AlreadySeen, IngestFails, MarkSeen, Delete, At
  <2>2. Match(w) \in Matches
    BY <2>1, HasMessage
  <2>3. CASE Get(w)
    <3>1. verdict' \in [Matches -> SUBSET Reasons]
      BY <2>2, <2>3 DEF Get, EndsBecause, TypeOK, Reasons
    <3>2. \E p \in {"ack", "ingest"} : Goto(w, p)
      BY <2>3 DEF Get
    <3> QED BY <2>3, <3>1, <3>2 DEF Get, Goto, At, TypeOK, WorkerState
  <2>4. CASE Commit(w)
    BY <2>2, <2>4 DEF Commit, Goto, At, TypeOK, WorkerState
  <2>5. CASE AlreadySeen(w) \/ IngestFails(w)
    BY <2>5 DEF AlreadySeen, IngestFails, Goto, At, TypeOK, WorkerState
  <2>6. CASE MarkSeen(w)
    BY <2>2, <2>6 DEF MarkSeen, Goto, At, TypeOK, WorkerState
  <2>7. CASE Delete(w)
    BY <2>2, <2>7 DEF Delete, Goto, At, TypeOK, WorkerState
  <2> QED BY <1>8, <2>3, <2>4, <2>5, <2>6, <2>7 DEF ParseStep
<1>9. ASSUME NEW w \in Workers, Retry(w) PROVE TypeOK'
  <2>1. worker[w].msg \in Message /\ Match(w) \in Matches /\ worker[w].msg.tries + 1 \in Nat
    BY <1>9, HasMessage DEF Retry, At
  <2>2. msgs' \subseteq Message
    BY <1>9, <2>1, EnqueueEffect DEF Retry, TypeOK, Message
  <2>3. verdict' \in [Matches -> SUBSET Reasons]
    BY <1>9, <2>1 DEF Retry, EndsBecause, TypeOK, Reasons
  <2> QED BY <1>9, <2>2, <2>3 DEF Retry, Goto, At, TypeOK, WorkerState
<1>10. ASSUME NEW w \in Workers, Ack(w) PROVE TypeOK'
  BY <1>10 DEF Ack, Idle, At, TypeOK, WorkerState
<1>11. ASSUME NEW w \in Workers, CallFails(w) PROVE TypeOK'
  <2>1. PICK p \in {"retry", "delete", "ack"} : Goto(w, p) /\ (p = "delete" => worker[w].pc = "mark")
    BY <1>11 DEF CallFails, AfterError
  <2>2. worker[w].pc # "idle"
    BY <1>11 DEF CallFails
  <2> QED BY <1>11, <2>1, <2>2 DEF CallFails, Fault, Goto, TypeOK, WorkerState
<1>12. ASSUME NEW w \in Workers, Crash(w) PROVE TypeOK'
  BY <1>12 DEF Crash, Fault, Idle, TypeOK, WorkerState
<1>13. ASSUME NEW g \in msgs, Redeliver(g) PROVE TypeOK'
  <2>1. msgs' \subseteq Message
    BY <1>13, EnqueueEffect DEF Redeliver, TypeOK, Message
  <2> QED BY <1>13, <2>1 DEF Redeliver, Fault, TypeOK
<1>14. CASE UNCHANGED vars
  BY <1>14 DEF vars, TypeOK
<1> QED
  BY <1>1, <1>2, <1>3, <1>4, <1>5, <1>6, <1>7, <1>8, <1>9, <1>10, <1>11, <1>12, <1>13, <1>14 DEF Next, Run

\* The pipeline is well typed for ever.
THEOREM TypeCorrect == Spec => []TypeOK
BY TypeInit, TypeStep, PTL DEF Spec

-----------------------------------------------------------------------------
\* Message g of match m is accounted for without being outstanding itself.
Covered(m, g) == Outcome(m) \/ \E h \in msgs : h.match = m /\ Later(h, g)

\* What PayloadBeforeTask says of one worker.
Supplied(w) ==
    /\ worker[w].pc \in {"push", "get", "ingest"} => Kept(Match(w))
    /\ worker[w].pc = "retry" /\ worker[w].msg.queue = "parse" => Kept(Match(w))
    /\ worker[w].pc \in {"mark", "delete"} => Match(w) \in db

\* A step that forgets no message and no outcome keeps every message about to be
\* acknowledged covered, and every discovered match accounted for.
LEMMA CoverMonotone ==
    ASSUME TypeOK, AckCovered, NoMatchLost,
           msgs \subseteq msgs', db \subseteq db', discovered' = discovered,
           \A m \in Matches : verdict[m] # {} => verdict'[m] # {},
           \A v \in Workers : worker'[v] = worker[v] \/ (At(v, "ack")' => Covered(Match(v), worker[v].msg)')
    PROVE  AckCovered' /\ NoMatchLost'
<1>1. ASSUME NEW m \in Matches, Outcome(m) PROVE Outcome(m)'
  BY <1>1 DEF Outcome
<1>2. NoMatchLost'
  BY <1>1 DEF NoMatchLost, TypeOK
<1>3. ASSUME NEW v \in Workers, At(v, "ack")'
      PROVE  Covered(Match(v), worker[v].msg)'
  <2>1. CASE worker'[v] = worker[v]
    <3>1. At(v, "ack") /\ Match(v)' = Match(v) /\ worker'[v].msg = worker[v].msg
      BY <1>3, <2>1 DEF At, Match
    <3>2. Match(v) \in Matches
      BY <3>1, HasMessage DEF At
    <3>3. CASE Outcome(Match(v))
      BY <1>1, <3>1, <3>2, <3>3 DEF Outcome, Covered
    <3>4. CASE \E h \in msgs : h.match = Match(v) /\ Later(h, worker[v].msg)
      BY <3>1, <3>4 DEF Covered
    <3> QED BY <3>1, <3>3, <3>4 DEF AckCovered
  <2> QED BY <1>3, <2>1
<1> QED BY <1>2, <1>3 DEF AckCovered, Covered

\* A step that takes no needed payload away keeps every parse task supplied.
LEMMA PayloadMonotone ==
    ASSUME TypeOK, PayloadBeforeTask,
           db \subseteq db',
           \A m \in Matches : Kept(m) => Kept(m)',
           \A g \in msgs' : g \in msgs \/ (g.queue = "parse" => Kept(g.match)'),
           \A v \in Workers : worker'[v] = worker[v] \/ Supplied(v)'
    PROVE  PayloadBeforeTask'
<1>1. ASSUME NEW g \in msgs', g.queue = "parse" PROVE Kept(g.match)'
  <2>1. CASE g \in msgs
    <3>1. g.match \in Matches
      BY <2>1 DEF TypeOK, Message
    <3> QED BY <1>1, <2>1, <3>1 DEF PayloadBeforeTask
  <2> QED BY <1>1, <2>1
<1>2. ASSUME NEW v \in Workers, worker'[v] = worker[v] PROVE Supplied(v)'
  <2>1. worker'[v] = worker[v] /\ Match(v)' = Match(v)
    BY <1>2 DEF Match
  <2>2. worker[v].pc # "idle" => Match(v) \in Matches
    BY HasMessage
  <2>3. Kept(Match(v)) /\ Match(v) \in Matches => Kept(Match(v))'
    BY <2>1 DEF Kept
  <2> QED BY <2>1, <2>2, <2>3 DEF PayloadBeforeTask, Supplied
<1> QED BY <1>1, <1>2 DEF PayloadBeforeTask, Supplied

\* The empty pipeline satisfies the invariant.
LEMMA PipelineInit == Init => PipelineInv
<1> SUFFICES ASSUME Init PROVE PipelineInv
  OBVIOUS
<1>1. TypeOK
  BY TypeInit
<1>2. \A w \in Workers : worker[w].pc = "idle"
  BY DEF Init, Idle
<1> QED BY <1>1, <1>2 DEF Init, PipelineInv, SeenIsStored, AckCovered, NoMatchLost, PayloadBeforeTask, At

\* Discovery, expiry of keys and spurious redelivery keep the invariant.
LEMMA EnvironmentStep ==
    ASSUME PipelineInv,
           \/ \E m \in Matches : Discover(m) \/ Expire(m) \/ Forget(m)
           \/ PushFetch \/ PushFetchFails
           \/ \E g \in msgs : Redeliver(g)
    PROVE  SeenIsStored' /\ AckCovered' /\ NoMatchLost' /\ PayloadBeforeTask'
<1> USE DEF PipelineInv
<1>1. ASSUME NEW m \in Matches, Discover(m) \/ Forget(m) PROVE SeenIsStored' /\ AckCovered' /\ NoMatchLost' /\ PayloadBeforeTask'
  <2>1. SeenIsStored'
    BY <1>1 DEF Discover, Forget, SeenIsStored
  <2>2. UNCHANGED <<msgs, worker, blob, db, discovered, verdict, expired>>
    BY <1>1 DEF Discover, Forget
  <2>3. AckCovered' /\ NoMatchLost'
    BY <2>2, CoverMonotone
  <2>4. PayloadBeforeTask'
    BY <2>2, PayloadMonotone DEF Kept
  <2> QED BY <2>1, <2>3, <2>4
<1>2. ASSUME NEW m \in Matches, Expire(m) PROVE SeenIsStored' /\ AckCovered' /\ NoMatchLost' /\ PayloadBeforeTask'
  <2>1. UNCHANGED <<msgs, worker, db, seen, discovered, verdict>>
    BY <1>2 DEF Expire
  <2>2. AckCovered' /\ NoMatchLost'
    BY <2>1, CoverMonotone
  <2>3. \A x \in Matches : Kept(x) => Kept(x)'
    BY <1>2 DEF Expire, Kept, TypeOK
  <2>4. PayloadBeforeTask'
    BY <2>1, <2>3, PayloadMonotone
  <2> QED BY <2>1, <2>2, <2>4 DEF SeenIsStored
<1>3. CASE PushFetch
  <2>1. candidate \in Matches
    BY <1>3 DEF PushFetch, TypeOK
  <2>2. PICK g \in Message : msgs' = msgs \union {g} /\ g.queue = "fetch" /\ g.match = candidate
    BY <1>3, <2>1, EnqueueEffect DEF PushFetch
  <2>3. UNCHANGED <<worker, blob, db, seen, verdict, expired>>
    BY <1>3 DEF PushFetch
  <2>4. PayloadBeforeTask'
    BY <2>2, <2>3, PayloadMonotone DEF Kept
  <2>5. NoMatchLost'
    <3> SUFFICES ASSUME NEW m \in discovered' PROVE Outcome(m)' \/ \E h \in msgs' : h.match = m
      BY DEF NoMatchLost
    <3>1. CASE m = candidate
      BY <2>2, <3>1
    <3>2. CASE m \in discovered
      BY <2>2, <2>3, <3>2 DEF NoMatchLost, Outcome
    <3> QED BY <1>3, <3>1, <3>2 DEF PushFetch
  <2>6. AckCovered'
    BY <2>2, <2>3 DEF AckCovered, At, Match, Outcome, Later
  <2> QED BY <2>3, <2>4, <2>5, <2>6 DEF SeenIsStored
<1>4. CASE PushFetchFails
  <2>1. UNCHANGED <<msgs, worker, blob, db, seen, discovered, verdict, expired>>
    BY <1>4 DEF PushFetchFails
  <2>2. AckCovered' /\ NoMatchLost'
    BY <2>1, CoverMonotone
  <2>3. PayloadBeforeTask'
    BY <2>1, PayloadMonotone DEF Kept
  <2> QED BY <2>1, <2>2, <2>3 DEF SeenIsStored
<1>5. ASSUME NEW g \in msgs, Redeliver(g) PROVE SeenIsStored' /\ AckCovered' /\ NoMatchLost' /\ PayloadBeforeTask'
  <2>1. PICK h \in Message : msgs' = msgs \union {h} /\ h.queue = g.queue /\ h.match = g.match
    BY <1>5, EnqueueEffect DEF Redeliver, TypeOK, Message
  <2>2. UNCHANGED <<worker, blob, db, seen, discovered, verdict, expired>>
    BY <1>5 DEF Redeliver
  <2>3. AckCovered' /\ NoMatchLost'
    BY <2>1, <2>2, CoverMonotone
  <2>4. g.queue = "parse" => Kept(g.match)'
    BY <2>2 DEF PayloadBeforeTask, Kept
  <2>5. PayloadBeforeTask'
    <3>1. \A x \in Matches : Kept(x) => Kept(x)'
      BY <2>2 DEF Kept
    <3>2. h.queue = "parse" => Kept(h.match)'
      BY <2>1, <2>4
    <3> QED BY <2>1, <2>2, <3>1, <3>2, PayloadMonotone
  <2> QED BY <2>2, <2>3, <2>5 DEF SeenIsStored
<1> QED BY <1>1, <1>2, <1>3, <1>4, <1>5

\* A worker whose step only moves it on, with the same message and nothing else changed.
LEMMA MoveStep ==
    ASSUME PipelineInv, NEW w \in Workers, NEW p, Goto(w, p),
           UNCHANGED <<msgs, blob, db, seen, discovered, verdict, expired>>,
           p # "ack" \/ Match(w) \in db,
           Supplied(w)'
    PROVE  SeenIsStored' /\ AckCovered' /\ NoMatchLost' /\ PayloadBeforeTask'
<1> USE DEF PipelineInv
<1>1. \A v \in Workers : v # w => worker'[v] = worker[v]
  BY DEF Goto, TypeOK
<1>2. worker'[w].pc = p /\ Match(w)' = Match(w)
  BY DEF Goto, TypeOK, WorkerState, Match
<1>3. At(w, "ack")' => Covered(Match(w), worker[w].msg)'
  BY <1>2 DEF At, Covered, Outcome
<1>4. AckCovered' /\ NoMatchLost'
  BY <1>1, <1>3, CoverMonotone
<1>5. \A x \in Matches : Kept(x) => Kept(x)'
  BY DEF Kept
<1>6. PayloadBeforeTask'
  BY <1>1, <1>5, PayloadMonotone
<1> QED BY <1>4, <1>6 DEF SeenIsStored

\* Taking a message, and losing a worker with its memory, keep the invariant.
LEMMA TakeStep ==
    ASSUME PipelineInv, NEW w \in Workers, Crash(w) \/ \E g \in msgs : Take(w, g)
    PROVE  SeenIsStored' /\ AckCovered' /\ NoMatchLost' /\ PayloadBeforeTask'
<1> USE DEF PipelineInv
<1>1. UNCHANGED <<msgs, blob, db, seen, discovered, verdict, expired>>
  BY DEF Crash, Take
<1>2. \A v \in Workers : v # w => worker'[v] = worker[v]
  BY DEF Crash, Take, TypeOK
<1>3. ~At(w, "ack")'
  BY DEF Crash, Take, Idle, At, TypeOK
<1>4. Supplied(w)'
  <2>1. CASE Crash(w)
    BY <2>1 DEF Crash, Idle, Supplied, TypeOK
  <2>2. ASSUME NEW g \in msgs, Take(w, g) PROVE Supplied(w)'
    <3>1. worker'[w].msg = g /\ worker'[w].pc \in {"fetch", "get"} /\ (worker'[w].pc = "get" => g.queue = "parse")
      BY <2>2 DEF Take, TypeOK
    <3>2. Match(w)' = g.match /\ (g.queue = "parse" => Kept(g.match)')
      BY <1>1, <3>1 DEF Match, PayloadBeforeTask, Kept
    <3> QED BY <3>1, <3>2 DEF Supplied
  <2> QED BY <2>1, <2>2
<1>5. AckCovered' /\ NoMatchLost'
  BY <1>1, <1>2, <1>3, CoverMonotone
<1>6. \A x \in Matches : Kept(x) => Kept(x)'
  BY <1>1 DEF Kept
<1>7. PayloadBeforeTask'
  BY <1>1, <1>2, <1>4, <1>6, PayloadMonotone
<1> QED BY <1>1, <1>5, <1>7 DEF SeenIsStored

\* An acknowledgement removes a message that is covered by a later one, and whatever
\* was covered by the removed message is covered by that later one too.
LEMMA AckStep ==
    ASSUME PipelineInv, NEW w \in Workers, Ack(w)
    PROVE  SeenIsStored' /\ AckCovered' /\ NoMatchLost' /\ PayloadBeforeTask'
<1> USE DEF PipelineInv
<1> DEFINE g == worker[w].msg
<1>1. UNCHANGED <<blob, db, seen, discovered, verdict, expired>> /\ msgs' = msgs \ {g}
  BY DEF Ack
<1>2. \A v \in Workers : v # w => worker'[v] = worker[v]
  BY DEF Ack, TypeOK
<1>3. worker'[w].pc = "idle"
  BY DEF Ack, Idle, TypeOK
<1>4. g \in Message /\ g.match = Match(w) /\ Match(w) \in Matches
  BY HasMessage DEF Ack, At, Match
<1>5. Outcome(g.match) \/ \E h \in msgs' : h.match = g.match /\ Later(h, g)
  <2>1. ASSUME NEW h \in msgs, Later(h, g) PROVE h # g
    BY <2>1, <1>4 DEF Later, Message
  <2> QED BY <1>1, <1>4, <2>1 DEF AckCovered, Ack
<1>6. \A m : Outcome(m)' = Outcome(m)
  BY <1>1 DEF Outcome
<1>7. NoMatchLost'
  BY <1>1, <1>5, <1>6 DEF NoMatchLost
<1>8. ASSUME NEW v \in Workers, At(v, "ack")' PROVE Covered(Match(v), worker[v].msg)'
  <2>1. v # w /\ worker'[v] = worker[v]
    BY <1>2, <1>3, <1>8 DEF At
  <2>2. At(v, "ack") /\ Match(v)' = Match(v) /\ worker'[v].msg = worker[v].msg
    BY <1>8, <2>1 DEF At, Match
  <2>3. CASE Outcome(Match(v))
    BY <1>1, <2>2, <2>3 DEF Covered, Outcome
  <2>4. ASSUME NEW h \in msgs, h.match = Match(v), Later(h, worker[v].msg)
        PROVE  Covered(Match(v), worker[v].msg)'
    <3>1. CASE h # g
      BY <1>1, <2>2, <2>4, <3>1 DEF Covered
    <3>2. CASE h = g /\ Outcome(g.match)
      BY <1>1, <2>2, <2>4, <3>2 DEF Covered, Outcome
    <3>3. ASSUME NEW k \in msgs', k.match = g.match, Later(k, g), h = g
          PROVE  Covered(Match(v), worker[v].msg)'
      <4>1. k \in Message /\ worker[v].msg \in Message
        BY <1>1, <2>2, HasMessage DEF TypeOK, At
      <4>2. Later(k, worker[v].msg)
        BY <1>4, <2>4, <3>3, <4>1 DEF Later, Message
      <4> QED BY <2>2, <2>4, <3>3, <4>2 DEF Covered
    <3> QED BY <1>5, <3>1, <3>2, <3>3
  <2> QED BY <2>2, <2>3, <2>4 DEF AckCovered
<1>9. AckCovered'
  BY <1>8 DEF AckCovered, Covered
<1>10. PayloadBeforeTask'
  <2>1. \A x \in Matches : Kept(x) => Kept(x)'
    BY <1>1 DEF Kept
  <2>2. Supplied(w)'
    BY <1>3 DEF Supplied
  <2> QED BY <1>1, <1>2, <2>1, <2>2, PayloadMonotone
<1> QED BY <1>1, <1>7, <1>9, <1>10 DEF SeenIsStored

\* A step that ends a task for a recorded reason keeps the invariant.
LEMMA VerdictStep ==
    ASSUME PipelineInv, NEW w \in Workers, worker[w].pc # "idle", NEW why, EndsBecause(w, why), Goto(w, "ack"),
           UNCHANGED <<msgs, blob, db, seen, discovered, expired>>
    PROVE  SeenIsStored' /\ AckCovered' /\ NoMatchLost' /\ PayloadBeforeTask'
<1> USE DEF PipelineInv
<1>1. \A v \in Workers : v # w => worker'[v] = worker[v]
  BY DEF Goto, TypeOK
<1>2. worker'[w].pc = "ack" /\ Match(w)' = Match(w) /\ Match(w) \in Matches
  BY HasMessage DEF Goto, TypeOK, WorkerState, Match
<1>3. verdict'[Match(w)] # {} /\ \A m \in Matches : verdict[m] # {} => verdict'[m] # {}
  BY <1>2 DEF EndsBecause, TypeOK
<1>4. Covered(Match(w), worker[w].msg)'
  BY <1>2, <1>3 DEF Covered, Outcome
<1>5. AckCovered' /\ NoMatchLost'
  BY <1>1, <1>3, <1>4, CoverMonotone
<1>6. Supplied(w)'
  BY <1>2 DEF Supplied
<1>7. \A x \in Matches : Kept(x) => Kept(x)'
  BY DEF Kept
<1>8. PayloadBeforeTask'
  BY <1>1, <1>6, <1>7, PayloadMonotone
<1> QED BY <1>5, <1>8 DEF SeenIsStored

\* A step that appends a later message of the same match and goes on to acknowledge its
\* own keeps the invariant: PushParse, and Retry within the budget.
LEMMA HandOver ==
    ASSUME PipelineInv, NEW w \in Workers, worker[w].pc # "idle", Goto(w, "ack"),
           NEW h \in Message, msgs' = msgs \union {h}, h.match = Match(w), Later(h, worker[w].msg),
           h.queue = "parse" => Kept(Match(w)),
           UNCHANGED <<blob, db, seen, discovered, verdict, expired>>
    PROVE  SeenIsStored' /\ AckCovered' /\ NoMatchLost' /\ PayloadBeforeTask'
<1> USE DEF PipelineInv
<1>1. \A v \in Workers : v # w => worker'[v] = worker[v]
  BY DEF Goto, TypeOK
<1>2. worker'[w].pc = "ack" /\ worker'[w].msg = worker[w].msg /\ Match(w)' = Match(w) /\ Match(w) \in Matches
  BY HasMessage DEF Goto, TypeOK, WorkerState, Match
<1>3. Covered(Match(w), worker[w].msg)'
  BY <1>2 DEF Covered
<1>4. AckCovered' /\ NoMatchLost'
  BY <1>1, <1>3, CoverMonotone
<1>5. \A x \in Matches : Kept(x) => Kept(x)'
  BY DEF Kept
<1>6. h.queue = "parse" => Kept(h.match)'
  BY <1>2, <1>5
<1>7. Supplied(w)'
  BY <1>2 DEF Supplied
<1>8. PayloadBeforeTask'
  BY <1>1, <1>5, <1>6, <1>7, PayloadMonotone
<1> QED BY <1>4, <1>8 DEF SeenIsStored

\* Retry keeps the invariant.
LEMMA RetryStep ==
    ASSUME PipelineInv, NEW w \in Workers, Retry(w)
    PROVE  SeenIsStored' /\ AckCovered' /\ NoMatchLost' /\ PayloadBeforeTask'
<1> DEFINE g == worker[w].msg
<1>1. /\ worker[w].pc = "retry" /\ Goto(w, "ack")
      /\ UNCHANGED <<blob, db, seen, discovered, expired>>
  BY DEF Retry, At
<1>2. g \in Message /\ g.match = Match(w) /\ g.tries \in Nat /\ g.queue \in {"fetch", "parse"} /\ g.match \in Matches
  BY <1>1, HasMessage DEF PipelineInv, Match
<1>3. CASE EndsBecause(w, "dlq") /\ UNCHANGED msgs
  BY <1>1, <1>3, VerdictStep
<1>4. CASE Enqueue(g.queue, g.match, g.tries + 1) /\ UNCHANGED verdict
  <2>1. PICK h \in Message : msgs' = msgs \union {h} /\ h.queue = g.queue /\ h.match = g.match /\ h.tries = g.tries + 1
    BY <1>2, <1>4, EnqueueEffect
  <2>2. Later(h, g)
    BY <1>2, <2>1 DEF Later
  <2>3. h.queue = "parse" => Kept(Match(w))
    BY <1>1, <2>1 DEF PipelineInv, PayloadBeforeTask
  <2> QED BY <1>1, <1>2, <1>4, <2>1, <2>2, <2>3, HandOver
<1> QED BY <1>3, <1>4 DEF Retry

\* fetcher.Process keeps the invariant.
LEMMA FetcherStep ==
    ASSUME PipelineInv, NEW w \in Workers, FetchStep(w)
    PROVE  SeenIsStored' /\ AckCovered' /\ NoMatchLost' /\ PayloadBeforeTask'
<1> USE DEF PipelineInv
<1>1. ASSUME NEW body \in {"good", "bad"}, FetchOK(w, body)
      PROVE SeenIsStored' /\ AckCovered' /\ NoMatchLost' /\ PayloadBeforeTask'
  <2>1. UNCHANGED <<msgs, blob, db, seen, discovered, verdict, expired>>
    BY <1>1 DEF FetchOK
  <2>2. (\A v \in Workers : v # w => worker'[v] = worker[v]) /\ worker'[w].pc = "put"
    BY <1>1 DEF FetchOK, TypeOK
  <2>3. AckCovered' /\ NoMatchLost'
    BY <2>1, <2>2, CoverMonotone DEF At
  <2>4. \A x \in Matches : Kept(x) => Kept(x)'
    BY <2>1 DEF Kept
  <2>5. Supplied(w)'
    BY <2>2 DEF Supplied
  <2>6. PayloadBeforeTask'
    BY <2>1, <2>2, <2>4, <2>5, PayloadMonotone
  <2> QED BY <2>1, <2>3, <2>6 DEF SeenIsStored
<1>2. ASSUME NEW why \in {"gone", "server"}, FetchDrop(w, why)
      PROVE SeenIsStored' /\ AckCovered' /\ NoMatchLost' /\ PayloadBeforeTask'
  BY <1>2, VerdictStep DEF FetchDrop, At
<1>3. CASE FetchTransient(w)
  <2>1. worker'[w].pc = "retry" /\ worker'[w].msg.queue = "fetch"
    BY <1>3 DEF FetchTransient, Goto, At, TypeOK, WorkerState
  <2>2. Supplied(w)'
    BY <2>1 DEF Supplied
  <2> QED BY <1>3, <2>2, MoveStep DEF FetchTransient
<1>4. CASE Put(w)
  <2>1. UNCHANGED <<msgs, db, seen, discovered, verdict>>
    BY <1>4 DEF Put
  <2>2. (\A v \in Workers : v # w => worker'[v] = worker[v]) /\ worker'[w].pc = "push" /\ Match(w)' = Match(w)
    BY <1>4 DEF Put, Goto, TypeOK, WorkerState, Match
  <2>3. Match(w) \in Matches /\ worker[w].body # "none"
    BY <1>4, HasMessage DEF Put, At, TypeOK
  <2>4. blob'[Match(w)] # "none"
    BY <1>4, <2>3 DEF Put, TypeOK
  <2>5. \A x \in Matches : Kept(x) => Kept(x)'
    BY <1>4, <2>3 DEF Put, Kept, TypeOK
  <2>6. Supplied(w)'
    BY <2>2, <2>4 DEF Supplied, Kept
  <2>7. AckCovered' /\ NoMatchLost'
    BY <2>1, <2>2, CoverMonotone DEF At
  <2>8. PayloadBeforeTask'
    BY <2>1, <2>2, <2>5, <2>6, PayloadMonotone
  <2> QED BY <2>1, <2>7, <2>8 DEF SeenIsStored
<1>5. CASE PushParse(w)
  <2>1. worker[w].pc = "push" /\ worker[w].msg.queue = "fetch" /\ Match(w) \in Matches
    BY <1>5, HasMessage DEF PushParse, At, TypeOK
  <2>2. PICK h \in Message : msgs' = msgs \union {h} /\ h.queue = "parse" /\ h.match = Match(w)
    BY <1>5, <2>1, EnqueueEffect DEF PushParse
  <2>3. Kept(Match(w))
    BY <2>1 DEF PayloadBeforeTask
  <2>4. Later(h, worker[w].msg)
    BY <2>1, <2>2 DEF Later
  <2> QED BY <1>5, <2>1, <2>2, <2>3, <2>4, HandOver DEF PushParse
<1> QED BY <1>1, <1>2, <1>3, <1>4, <1>5 DEF FetchStep

\* parser.Process and the ingester keep the invariant.
LEMMA ParserStep ==
    ASSUME PipelineInv, NEW w \in Workers, ParseStep(w)
    PROVE  SeenIsStored' /\ AckCovered' /\ NoMatchLost' /\ PayloadBeforeTask'
<1> USE DEF PipelineInv
<1>1. worker[w].pc # "idle" /\ Match(w) \in Matches
  <2>1. worker[w].pc # "idle"
    BY DEF ParseStep, Get, Commit, AlreadySeen, IngestFails, MarkSeen, Delete, At
  <2> QED BY <2>1, HasMessage
<1>2. \A p : Goto(w, p) => /\ \A v \in Workers : v # w => worker'[v] = worker[v]
                           /\ worker'[w].pc = p /\ worker'[w].msg = worker[w].msg /\ Match(w)' = Match(w)
  BY DEF Goto, TypeOK, WorkerState, Match
<1>3. CASE Get(w)
  <2>1. CASE \E why \in {"missing", "invalid"} : EndsBecause(w, why) /\ Goto(w, "ack")
    BY <1>1, <1>3, <2>1, VerdictStep DEF Get
  <2>2. CASE Goto(w, "ingest") /\ UNCHANGED verdict
    <3>1. Kept(Match(w))' /\ Supplied(w)'
      BY <1>1, <1>2, <1>3, <2>2 DEF Get, At, Kept, PayloadBeforeTask, Supplied
    <3> QED BY <1>3, <2>2, <3>1, MoveStep DEF Get
  <2> QED BY <1>3, <2>1, <2>2 DEF Get
<1>4. CASE Commit(w)
  <2>1. UNCHANGED <<msgs, blob, seen, discovered, verdict, expired>> /\ db' = db \union {Match(w)} /\ Goto(w, "mark")
    BY <1>4 DEF Commit
  <2>2. Supplied(w)'
    BY <1>2, <2>1 DEF Supplied
  <2>3. AckCovered' /\ NoMatchLost'
    BY <1>2, <2>1, CoverMonotone DEF At
  <2>4. \A x \in Matches : Kept(x) => Kept(x)'
    BY <2>1 DEF Kept
  <2>5. PayloadBeforeTask'
    BY <1>2, <2>1, <2>2, <2>4, PayloadMonotone
  <2> QED BY <2>1, <2>3, <2>5 DEF SeenIsStored
<1>5. CASE AlreadySeen(w)
  <2>1. Supplied(w)'
    BY <1>2, <1>5 DEF AlreadySeen, Supplied
  <2> QED BY <1>5, <2>1, MoveStep DEF AlreadySeen
<1>6. CASE IngestFails(w)
  <2>1. Kept(Match(w))
    BY <1>6 DEF IngestFails, At, PayloadBeforeTask
  <2>2. Supplied(w)'
    BY <1>2, <1>6, <2>1 DEF IngestFails, Supplied, Kept
  <2> QED BY <1>6, <2>2, MoveStep DEF IngestFails
<1>7. CASE MarkSeen(w)
  <2>1. UNCHANGED <<msgs, blob, db, discovered, verdict, expired>> /\ seen' = seen \union {Match(w)} /\ Goto(w, "delete")
    BY <1>7 DEF MarkSeen
  <2>2. Match(w) \in db
    BY <1>7 DEF MarkSeen, At, PayloadBeforeTask
  <2>3. Supplied(w)'
    BY <1>2, <2>1, <2>2 DEF Supplied
  <2>4. AckCovered' /\ NoMatchLost'
    BY <1>2, <2>1, CoverMonotone DEF At
  <2>5. \A x \in Matches : Kept(x) => Kept(x)'
    BY <2>1 DEF Kept
  <2>6. PayloadBeforeTask'
    BY <1>2, <2>1, <2>3, <2>5, PayloadMonotone
  <2> QED BY <2>1, <2>2, <2>4, <2>6 DEF SeenIsStored
<1>8. CASE Delete(w)
  <2>1. UNCHANGED <<msgs, db, seen, discovered, verdict, expired>> /\ Goto(w, "ack")
    BY <1>8 DEF Delete
  <2>2. Match(w) \in db
    BY <1>8 DEF Delete, At, PayloadBeforeTask
  <2>3. Covered(Match(w), worker[w].msg)'
    BY <1>2, <2>1, <2>2 DEF Covered, Outcome
  <2>4. AckCovered' /\ NoMatchLost'
    BY <1>2, <2>1, <2>3, CoverMonotone
  <2>5. Supplied(w)'
    BY <1>2, <2>1 DEF Supplied
  <2>6. \A x \in Matches : Kept(x) => Kept(x)'
    BY <1>1, <1>8, <2>2 DEF Delete, Kept, TypeOK
  <2>7. PayloadBeforeTask'
    BY <1>2, <2>1, <2>5, <2>6, PayloadMonotone
  <2> QED BY <2>1, <2>4, <2>7 DEF SeenIsStored
<1> QED BY <1>3, <1>4, <1>5, <1>6, <1>7, <1>8 DEF ParseStep

\* A failed call keeps the invariant: only after a commit is its error ignored.
LEMMA FailStep ==
    ASSUME PipelineInv, NEW w \in Workers, CallFails(w)
    PROVE  SeenIsStored' /\ AckCovered' /\ NoMatchLost' /\ PayloadBeforeTask'
<1> USE DEF PipelineInv
<1>1. PICK p : /\ Goto(w, p)
               /\ \/ p = "retry" /\ worker[w].pc \in {"put", "push", "get"}
                  \/ p = "delete" /\ worker[w].pc = "mark"
                  \/ p = "ack" /\ worker[w].pc = "delete"
  BY DEF CallFails, AfterError
<1>2. worker'[w].pc = p /\ worker'[w].msg = worker[w].msg /\ Match(w)' = Match(w)
  BY <1>1 DEF Goto, TypeOK, WorkerState, Match
<1>3. worker[w].pc \in {"put", "push"} => worker[w].msg.queue = "fetch"
  BY DEF TypeOK
<1>4. Supplied(w)' /\ (p # "ack" \/ Match(w) \in db)
  BY <1>1, <1>2, <1>3 DEF CallFails, Supplied, Kept, PayloadBeforeTask
<1> QED BY <1>1, <1>4, MoveStep DEF CallFails

\* Every step keeps the invariant.
LEMMA PipelineStep == PipelineInv /\ [Next]_vars => PipelineInv'
<1> SUFFICES ASSUME PipelineInv, [Next]_vars PROVE PipelineInv'
  OBVIOUS
<1>1. TypeOK'
  BY TypeStep DEF PipelineInv
<1>2. CASE Next
  <2>1. SeenIsStored' /\ AckCovered' /\ NoMatchLost' /\ PayloadBeforeTask'
    BY <1>2, EnvironmentStep, TakeStep, AckStep, RetryStep, FetcherStep, ParserStep, FailStep DEF Next, Run
  <2> QED BY <1>1, <2>1 DEF PipelineInv
<1>3. CASE UNCHANGED vars
  BY <1>1, <1>3 DEF vars, PipelineInv, SeenIsStored, AckCovered, NoMatchLost, PayloadBeforeTask,
     At, Match, Outcome, Kept, Later
<1> QED BY <1>2, <1>3

\* The inductive invariant of the pipeline.
THEOREM PipelineInvariant == Spec => []PipelineInv
BY PipelineInit, PipelineStep, PTL DEF Spec

\* No match is lost between discovery, fetcher, parser and database.
THEOREM NothingLost == Spec => []NoMatchLost
<1>1. PipelineInv => NoMatchLost
  BY DEF PipelineInv
<1> QED BY <1>1, PipelineInvariant, PTL

\* A parser never finds a payload gone that is still needed, other than by its TTL.
THEOREM PayloadSafe == Spec => []PayloadKept
<1>1. PipelineInv => PayloadKept
  BY DEF PipelineInv, PayloadBeforeTask, PayloadKept, At
<1> QED BY <1>1, PipelineInvariant, PTL

\* The dedup set never hides a match that is not in the database.
THEOREM DedupSound == Spec => []SeenIsStored
<1>1. PipelineInv => SeenIsStored
  BY DEF PipelineInv
<1> QED BY <1>1, PipelineInvariant, PTL

-----------------------------------------------------------------------------
(***************************************************************************)
(* The circuit breaker in front of the parser's ingester, for every        *)
(* threshold and success target.                                           *)
(***************************************************************************)
\* A new breaker satisfies the invariant.
LEMMA BreakerInit == Breaker!ConstantsOK => (Breaker!Init => Breaker!BreakerInv)
BY DEF Breaker!ConstantsOK, Breaker!Init, Breaker!BreakerInv, Breaker!TypeOK, Breaker!OpenHasTimer,
       Breaker!NoStaleTimer, Breaker!Opening

\* The caller's steps before RecordFailure or RecordSuccess keep the invariant.
LEMMA BreakerIngestStep ==
    ASSUME Breaker!ConstantsOK, Breaker!BreakerInv,
           Breaker!Allow \/ Breaker!IngestOK \/ Breaker!IngestDuplicate \/ Breaker!IngestFails
    PROVE  Breaker!BreakerInv'
<1> USE DEF Breaker!BreakerInv, Breaker!TypeOK, Breaker!OpenHasTimer, Breaker!NoStaleTimer, Breaker!Opening,
            Breaker!counters, Breaker!timers, Breaker!history
<1>1. CASE Breaker!Allow
  BY <1>1 DEF Breaker!Allow
<1>2. CASE Breaker!IngestOK
  BY <1>2 DEF Breaker!IngestOK
<1>3. CASE Breaker!IngestDuplicate
  BY <1>3 DEF Breaker!IngestDuplicate
<1>4. CASE Breaker!IngestFails
  BY <1>4 DEF Breaker!IngestFails
<1> QED BY <1>1, <1>2, <1>3, <1>4

\* RecordFailure keeps the invariant: the timer it stops has always ended already, and
\* the one it starts listens to a channel nobody has closed.
LEMMA BreakerFailureStep ==
    ASSUME Breaker!ConstantsOK, Breaker!BreakerInv, Breaker!RecordFailure
    PROVE  Breaker!BreakerInv'
<1> USE DEF Breaker!BreakerInv, Breaker!TypeOK, Breaker!OpenHasTimer, Breaker!NoStaleTimer, Breaker!Opening,
            Breaker!counters, Breaker!timers, Breaker!history
<1>1. CASE Breaker!LoadState
  BY <1>1 DEF Breaker!LoadState
<1>2. CASE Breaker!HalfStop
  BY <1>2 DEF Breaker!HalfStop, Breaker!StopPrevious
<1>3. CASE Breaker!HalfTrip
  BY <1>3 DEF Breaker!HalfTrip
<1>4. CASE Breaker!CountFailure
  BY <1>4 DEF Breaker!CountFailure
<1>5. CASE Breaker!Trip
  BY <1>5 DEF Breaker!Trip
<1>6. CASE Breaker!TripStop
  BY <1>6 DEF Breaker!TripStop, Breaker!StopPrevious
<1>7. CASE Breaker!Arm
  <2>1. state = "open" /\ armed = {}
    BY <1>7 DEF Breaker!Arm
  <2>2. timerCh' \in Nat /\ armed' = {timerCh'} /\ timerCh' \notin closedCh'
    BY <1>7, <2>1 DEF Breaker!Arm
  <2>3. Breaker!TypeOK'
    <3>1. closedCh' \subseteq 1 .. timerCh' /\ armed' \subseteq 1 .. timerCh'
      BY <1>7, <2>2 DEF Breaker!Arm
    <3> QED BY <1>7, <2>2, <3>1 DEF Breaker!Arm
  <2> QED BY <1>7, <2>1, <2>2, <2>3 DEF Breaker!Arm
<1> QED BY <1>1, <1>2, <1>3, <1>4, <1>5, <1>6, <1>7 DEF Breaker!RecordFailure

\* RecordSuccess and the end of a timer keep the invariant.
LEMMA BreakerSuccessStep ==
    ASSUME Breaker!ConstantsOK, Breaker!BreakerInv, Breaker!RecordSuccess \/ \E n \in armed : Breaker!Timer(n)
    PROVE  Breaker!BreakerInv'
<1> USE DEF Breaker!BreakerInv, Breaker!TypeOK, Breaker!OpenHasTimer, Breaker!NoStaleTimer, Breaker!Opening,
            Breaker!counters, Breaker!timers, Breaker!history
<1>1. CASE Breaker!CountSuccess
  BY <1>1 DEF Breaker!CountSuccess
<1>2. CASE Breaker!Close
  BY <1>2 DEF Breaker!Close
<1>3. ASSUME NEW n \in armed, Breaker!Timer(n) PROVE Breaker!BreakerInv'
  <2>1. state = "open" /\ ~Breaker!Opening /\ armed = {timerCh} /\ n = timerCh
    BY <1>3
  <2>2. state' = "half" /\ armed' = {}
    BY <1>3, <2>1 DEF Breaker!Timer
  <2> QED
    BY <1>3, <2>1, <2>2 DEF Breaker!Timer
<1> QED BY <1>1, <1>2, <1>3 DEF Breaker!RecordSuccess

\* Every step keeps the invariant.
LEMMA BreakerStep == Breaker!ConstantsOK => (Breaker!BreakerInv /\ [Breaker!Next]_Breaker!vars => Breaker!BreakerInv')
<1> SUFFICES ASSUME Breaker!ConstantsOK, Breaker!BreakerInv, [Breaker!Next]_Breaker!vars PROVE Breaker!BreakerInv'
  OBVIOUS
<1>1. CASE Breaker!Next
  BY <1>1, BreakerIngestStep, BreakerFailureStep, BreakerSuccessStep DEF Breaker!Next, Breaker!Caller
<1>2. CASE UNCHANGED Breaker!vars
  BY <1>2 DEF Breaker!vars, Breaker!BreakerInv, Breaker!TypeOK, Breaker!OpenHasTimer, Breaker!NoStaleTimer,
     Breaker!Opening
<1> QED BY <1>1, <1>2

\* The inductive invariant of the breaker.
THEOREM BreakerInvariant == Breaker!Spec => []Breaker!BreakerInv
<1>1. Breaker!Init => Breaker!BreakerInv
  BY BreakerInit, BreakerConstants
<1>2. Breaker!BreakerInv /\ [Breaker!Next]_Breaker!vars => Breaker!BreakerInv'
  BY BreakerStep, BreakerConstants
<1> QED BY <1>1, <1>2, PTL DEF Breaker!Spec

\* The state word is one of the three constants, the counters are naturals, and every
\* timer goroutine belongs to a channel that was made for it.
THEOREM BreakerTypeCorrect == Breaker!Spec => []Breaker!TypeOK
<1>1. Breaker!BreakerInv => Breaker!TypeOK
  BY DEF Breaker!BreakerInv
<1> QED BY <1>1, BreakerInvariant, PTL

\* Whatever the failures, successes and late timers, an open breaker has a running,
\* unstopped timer: it cannot stay open for ever (runner.go, RecordFailure).
THEOREM OpenRecovers == Breaker!Spec => []OpenHasTimer
<1>1. Breaker!BreakerInv => OpenHasTimer
  BY DEF Breaker!BreakerInv, OpenHasTimer
<1> QED BY <1>1, BreakerInvariant, PTL

\* No timer outlives the open period it was started for.
THEOREM TimersFresh == Breaker!Spec => []Breaker!NoStaleTimer
<1>1. Breaker!BreakerInv => Breaker!NoStaleTimer
  BY DEF Breaker!BreakerInv
<1> QED BY <1>1, BreakerInvariant, PTL

\* A closed breaker opens only after Threshold failed ingests since it closed.
THEOREM TripNeedsFailures == Breaker!Spec => TripsEarned
<1>0. Breaker!Spec => []Breaker!BreakerInv
  BY BreakerInvariant
<1>1. Breaker!BreakerInv /\ [Breaker!Next]_Breaker!vars
      => [state = "closed" /\ state' = "open" => failed >= Threshold]_Breaker!vars
  <2> SUFFICES ASSUME Breaker!BreakerInv, Breaker!Next, state = "closed", state' = "open"
               PROVE  failed >= Threshold
    BY DEF Breaker!vars
  <2>1. armed = {}
    BY DEF Breaker!BreakerInv, Breaker!NoStaleTimer
  <2>2. Breaker!Caller
    BY <2>1 DEF Breaker!Next
  <2>3. pc = "trip"
    BY <2>2 DEF Breaker!Caller, Breaker!Allow, Breaker!IngestOK, Breaker!IngestDuplicate, Breaker!IngestFails,
       Breaker!RecordFailure, Breaker!LoadState, Breaker!HalfStop, Breaker!HalfTrip, Breaker!CountFailure,
       Breaker!Trip, Breaker!TripStop, Breaker!Arm, Breaker!RecordSuccess, Breaker!CountSuccess, Breaker!Close
  <2> QED BY <2>3, BreakerConstants DEF Breaker!BreakerInv, Breaker!TypeOK, Breaker!ConstantsOK
<1> QED BY <1>0, <1>1, PTL DEF Breaker!Spec, TripsEarned, Breaker!TripsEarned

\* A half-open breaker closes only after SuccessTarget successes of this period.
THEOREM CloseNeedsSuccesses == Breaker!Spec => CloseEarned
<1>0. Breaker!Spec => []Breaker!BreakerInv
  BY BreakerInvariant
<1>1. Breaker!BreakerInv /\ [Breaker!Next]_Breaker!vars
      => [state = "half" /\ state' = "closed" => probed >= SuccessTarget]_Breaker!vars
  <2> SUFFICES ASSUME Breaker!BreakerInv, Breaker!Next, state = "half", state' = "closed"
               PROVE  probed >= SuccessTarget
    BY DEF Breaker!vars
  <2>1. armed = {}
    BY DEF Breaker!BreakerInv, Breaker!NoStaleTimer, Breaker!Opening
  <2>2. Breaker!Caller
    BY <2>1 DEF Breaker!Next
  <2>3. pc = "close"
    BY <2>2 DEF Breaker!Caller, Breaker!Allow, Breaker!IngestOK, Breaker!IngestDuplicate, Breaker!IngestFails,
       Breaker!RecordFailure, Breaker!LoadState, Breaker!HalfStop, Breaker!HalfTrip, Breaker!CountFailure,
       Breaker!Trip, Breaker!TripStop, Breaker!Arm, Breaker!RecordSuccess, Breaker!CountSuccess, Breaker!Close
  <2> QED BY <2>3, BreakerConstants DEF Breaker!BreakerInv, Breaker!TypeOK, Breaker!ConstantsOK
<1> QED BY <1>0, <1>1, PTL DEF Breaker!Spec, CloseEarned, Breaker!CloseEarned

=============================================================================
