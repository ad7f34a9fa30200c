------------------------------ MODULE Pipeline ------------------------------
(***************************************************************************)
(* The path of a match through the system: discovery (matches.Cycle),      *)
(* fetcher.Process, the payload store, parser.Process, the ingester with   *)
(* Postgres, and the dedup set.                                            *)
(*                                                                         *)
(* The two queues are taken at the level StreamQueue establishes: a        *)
(* message is outstanding until it is acknowledged, a worker that dies     *)
(* leaves it to another one, a retry appends a copy before the original is *)
(* acknowledged, and stale recovery may duplicate a message at any time.   *)
(***************************************************************************)
EXTENDS Integers, FiniteSets

CONSTANTS
    Matches,
    Fetchers, Parsers,   \* worker processes
    Ids,                 \* bound: names for messages, reused when free
    NoMatch, NoMsg,
    MaxRetries,          \* QUEUE_MAX_RETRIES
    MaxPushes,           \* bound: fetch tasks pushed by discovery
    MaxFaults            \* bound: crashes, failed calls, spurious redeliveries

Workers == Fetchers \union Parsers

Message == [id : Ids, queue : {"fetch", "parse"}, match : Matches, tries : Nat]

ASSUME ConstantsAssumption ==
    /\ NoMatch \notin Matches
    /\ NoMsg \notin Message
    /\ Fetchers \cap Parsers = {}
    /\ MaxRetries \in Nat /\ MaxPushes \in Nat /\ MaxFaults \in Nat

VARIABLES
    msgs,            \* outstanding messages of both queues
    worker,          \* per process: position in Process, message, fetched body
    candidate,       \* the match discovery is about to push
    blob,            \* payload store: "none", or a body that is "good" or "bad"
    db,              \* matches committed to Postgres
    seen,            \* the dedup set
    pushes, faults,
    (* history, read by the properties only *)
    discovered,      \* matches pushed to the fetch queue
    verdict,         \* per match: why a task of it ended without being ingested
    expired          \* matches whose last payload ran into its TTL

vars == <<msgs, worker, candidate, blob, db, seen, pushes, faults,
          discovered, verdict, expired>>

Idle == [pc |-> "idle", msg |-> NoMsg, body |-> "none"]

Init ==
    /\ msgs = {}
    /\ worker = [w \in Workers |-> Idle]
    /\ candidate = NoMatch
    /\ blob = [m \in Matches |-> "none"]
    /\ db = {} /\ seen = {}
    /\ pushes = 0 /\ faults = 0
    /\ discovered = {}
    /\ verdict = [m \in Matches |-> {}]
    /\ expired = {}

\* A call failed, a process died or a message came twice: at most MaxFaults times.
Fault == faults < MaxFaults /\ faults' = faults + 1

\* Names no outstanding message and no worker uses.
FreshIds == Ids \ ({g.id : g \in msgs} \union
                    {worker[w].msg.id : w \in {v \in Workers : worker[v].pc # "idle"}})

\* Append a message.
Enqueue(q, m, n) ==
    /\ FreshIds # {}                                       \* bound
    /\ msgs' = msgs \union {[id |-> CHOOSE i \in FreshIds : TRUE, queue |-> q, match |-> m, tries |-> n]}

At(w, p) == worker[w].pc = p
Match(w) == worker[w].msg.match
Goto(w, p) == worker' = [worker EXCEPT ![w].pc = p]
EndsBecause(w, why) == verdict' = [verdict EXCEPT ![Match(w)] = verdict[Match(w)] \union {why}]

-----------------------------------------------------------------------------
(* Discovery: RunOnce asks the dedup set, then pushes.                     *)

\* A match that is not marked seen, or whose lookup failed, is going to be pushed.  Pushing
\* it again before it is seen counts as a fault for the bound.
Discover(m) ==
    /\ candidate = NoMatch
    /\ pushes < MaxPushes                                  \* bound
    /\ IF m \in seen \union discovered THEN Fault ELSE UNCHANGED faults
    /\ candidate' = m
    /\ UNCHANGED <<msgs, worker, blob, db, seen, pushes, discovered, verdict, expired>>

PushFetch ==
    /\ candidate # NoMatch
    /\ Enqueue("fetch", candidate, 0)
    /\ pushes' = pushes + 1
    /\ discovered' = discovered \union {candidate}
    /\ candidate' = NoMatch
    /\ UNCHANGED <<worker, blob, db, seen, faults, verdict, expired>>

\* The Push fails: the match waits for a later cycle.
PushFetchFails ==
    /\ candidate # NoMatch
    /\ Fault
    /\ candidate' = NoMatch
    /\ UNCHANGED <<msgs, worker, blob, db, seen, pushes, discovered, verdict, expired>>

-----------------------------------------------------------------------------
(* worker.Run around Process.                                              *)

Take(w, g) ==
    /\ At(w, "idle")
    /\ g.queue = IF w \in Fetchers THEN "fetch" ELSE "parse"
    /\ \A v \in Workers : worker[v].msg # g
    /\ worker' = [worker EXCEPT ![w] = [pc |-> IF w \in Fetchers THEN "fetch" ELSE "get",
                                        msg |-> g, body |-> "none"]]
    /\ UNCHANGED <<msgs, candidate, blob, db, seen, pushes, faults, discovered, verdict, expired>>

ShouldDLQ(n) == MaxRetries > 0 /\ n > MaxRetries

\* Mutant of Retry: the copy keeps the count of the original.
RetryUncounted(w) ==
    LET g == worker[w].msg IN
    /\ At(w, "retry")
    /\ Enqueue(g.queue, g.match, g.tries)
    /\ Goto(w, "ack")
    /\ UNCHANGED <<candidate, blob, db, seen, pushes, faults, discovered, verdict, expired>>

\* Process answered Retry: a copy with one more attempt, or the dead-letter queue.
Retry(w) ==
    LET g == worker[w].msg IN
    /\ At(w, "retry")
    /\ \/ /\ ShouldDLQ(g.tries + 1)
          /\ EndsBecause(w, "dlq")
          /\ UNCHANGED msgs
       \/ /\ ~ShouldDLQ(g.tries + 1)
          /\ Enqueue(g.queue, g.match, g.tries + 1)
          /\ UNCHANGED verdict
    /\ Goto(w, "ack")
    /\ UNCHANGED <<candidate, blob, db, seen, pushes, faults, discovered, expired>>

Ack(w) ==
    /\ At(w, "ack")
    /\ msgs' = msgs \ {worker[w].msg}
    /\ worker' = [worker EXCEPT ![w] = Idle]
    /\ UNCHANGED <<candidate, blob, db, seen, pushes, faults, discovered, verdict, expired>>

\* The process dies, or the queue call after Process fails: the message stays pending.
Crash(w) ==
    /\ ~At(w, "idle")
    /\ Fault
    /\ worker' = [worker EXCEPT ![w] = Idle]
    /\ UNCHANGED <<msgs, candidate, blob, db, seen, pushes, discovered, verdict, expired>>

\* Stale recovery pushes a copy of a message that somebody still handles, or whose
\* original it then fails to acknowledge.
Redeliver(g) ==
    /\ Fault
    /\ Enqueue(g.queue, g.match, g.tries)
    /\ UNCHANGED <<worker, candidate, blob, db, seen, pushes, discovered, verdict, expired>>

-----------------------------------------------------------------------------
(* fetcher.Process.                                                        *)

\* The upstream answers with a body, which may be an error page or truncated.
FetchOK(w, body) ==
    /\ At(w, "fetch")
    /\ worker' = [worker EXCEPT ![w] = [pc |-> "put", msg |-> worker[w].msg, body |-> body]]
    /\ UNCHANGED <<msgs, candidate, blob, db, seen, pushes, faults, discovered, verdict, expired>>

\* Do ends with a PermanentHTTPError, which is any status of 400 or more but 429:
\* "gone" for the statuses IsPermanent lists, "server" for the others.
FetchDrop(w, why) ==
    /\ At(w, "fetch")
    /\ EndsBecause(w, why)
    /\ Goto(w, "ack")
    /\ UNCHANGED <<msgs, candidate, blob, db, seen, pushes, faults, discovered, expired>>

\* No proxy, rate limit, timeout, transport error.
FetchTransient(w) ==
    /\ At(w, "fetch")
    /\ Goto(w, "retry")
    /\ UNCHANGED <<msgs, candidate, blob, db, seen, pushes, faults, discovered, verdict, expired>>

Put(w) ==
    /\ At(w, "put")
    /\ blob' = [blob EXCEPT ![Match(w)] = worker[w].body]
    /\ expired' = expired \ {Match(w)}
    /\ Goto(w, "push")
    /\ UNCHANGED <<msgs, candidate, db, seen, pushes, faults, discovered, verdict>>

PushParse(w) ==
    /\ At(w, "push")
    /\ Enqueue("parse", Match(w), 0)
    /\ Goto(w, "ack")
    /\ UNCHANGED <<candidate, blob, db, seen, pushes, faults, discovered, verdict, expired>>

-----------------------------------------------------------------------------
(* parser.Process and the ingester.                                        *)

\* Mutant of Get: the match is marked seen before it is ingested.
GetMarksFirst(w) ==
    /\ At(w, "get")
    /\ blob[Match(w)] = "good" /\ Goto(w, "mark")
    /\ UNCHANGED <<msgs, candidate, blob, db, seen, pushes, faults, discovered, verdict, expired>>

\* A missing payload and one that does not decode or validate both end the task.
Get(w) ==
    /\ At(w, "get")
    /\ \/ blob[Match(w)] = "none" /\ EndsBecause(w, "missing") /\ Goto(w, "ack")
       \/ blob[Match(w)] = "bad" /\ EndsBecause(w, "invalid") /\ Goto(w, "ack")
       \/ blob[Match(w)] = "good" /\ Goto(w, "ingest") /\ UNCHANGED verdict
    /\ UNCHANGED <<msgs, candidate, blob, db, seen, pushes, faults, discovered, expired>>

\* IngestMatch commits one transaction; every statement of it is an upsert.
Commit(w) ==
    /\ At(w, "ingest")
    /\ db' = db \union {Match(w)}
    /\ Goto(w, "mark")
    /\ UNCHANGED <<msgs, candidate, blob, seen, pushes, faults, discovered, verdict, expired>>

\* A unique violation (23505) is read as ErrAlreadySeen; assumed to mean that a
\* transaction of the same match has committed.
AlreadySeen(w) ==
    /\ At(w, "ingest")
    /\ Match(w) \in db
    /\ Goto(w, "delete")
    /\ UNCHANGED <<msgs, candidate, blob, db, seen, pushes, faults, discovered, verdict, expired>>

\* Mutant of IngestFails: the payload is deleted on the error path too.
IngestFailsDeletes(w) ==
    /\ At(w, "ingest")
    /\ blob' = [blob EXCEPT ![Match(w)] = "none"]
    /\ Goto(w, "retry")
    /\ UNCHANGED <<msgs, candidate, db, seen, pushes, faults, discovered, verdict, expired>>

\* Any other database error, or the circuit breaker is open.  ExtendTTL only moves the
\* moment of Expire, which may come at any time.
IngestFails(w) ==
    /\ At(w, "ingest")
    /\ Goto(w, "retry")
    /\ UNCHANGED <<msgs, candidate, blob, db, seen, pushes, faults, discovered, verdict, expired>>

MarkSeen(w) ==
    /\ At(w, "mark")
    /\ seen' = seen \union {Match(w)}
    /\ Goto(w, "delete")
    /\ UNCHANGED <<msgs, candidate, blob, db, pushes, faults, discovered, verdict, expired>>

Delete(w) ==
    /\ At(w, "delete")
    /\ blob' = [blob EXCEPT ![Match(w)] = "none"]
    /\ Goto(w, "ack")
    /\ UNCHANGED <<msgs, candidate, db, seen, pushes, faults, discovered, verdict, expired>>

\* Mutant of AfterError: a failed Push is ignored like a failed Delete.
AfterErrorIgnored(p) ==
    CASE p \in {"put", "get"} -> "retry" [] p = "mark" -> "delete" [] p \in {"push", "delete"} -> "ack"

\* Where a failed Redis call leads: Put, Push and Get to Retry; the errors of MarkSeen
\* and Delete are ignored.
AfterError(p) ==
    CASE p \in {"put", "push", "get"} -> "retry" [] p = "mark" -> "delete" [] p = "delete" -> "ack"

CallFails(w) ==
    /\ worker[w].pc \in {"put", "push", "get", "mark", "delete"}
    /\ Fault
    /\ Goto(w, AfterError(worker[w].pc))
    /\ UNCHANGED <<msgs, candidate, blob, db, seen, pushes, discovered, verdict, expired>>

-----------------------------------------------------------------------------
(* Keys that expire in Redis: a payload, and a dedup entry (DEDUP_TTL).    *)

Expire(m) ==
    /\ blob[m] # "none"
    /\ blob' = [blob EXCEPT ![m] = "none"]
    /\ expired' = expired \union {m}
    /\ UNCHANGED <<msgs, worker, candidate, db, seen, pushes, faults, discovered, verdict>>

Forget(m) ==
    /\ m \in seen
    /\ seen' = seen \ {m}
    /\ UNCHANGED <<msgs, worker, candidate, blob, db, pushes, faults, discovered, verdict, expired>>

-----------------------------------------------------------------------------
FetchStep(w) ==
    \/ \E body \in {"good", "bad"} : FetchOK(w, body)
    \/ \E why \in {"gone", "server"} : FetchDrop(w, why)
    \/ FetchTransient(w) \/ Put(w) \/ PushParse(w)

ParseStep(w) ==
    Get(w) \/ Commit(w) \/ AlreadySeen(w) \/ IngestFails(w) \/ MarkSeen(w) \/ Delete(w)

Run(w) ==
    \/ \E g \in msgs : Take(w, g)
    \/ FetchStep(w) \/ ParseStep(w) \/ Retry(w) \/ Ack(w)

Next ==
    \/ \E m \in Matches : Discover(m) \/ Expire(m) \/ Forget(m)
    \/ PushFetch \/ PushFetchFails
    \/ \E w \in Workers : Run(w) \/ CallFails(w) \/ Crash(w)
    \/ \E g \in msgs : Redeliver(g)

Spec == Init /\ [][Next]_vars

\* The workers keep running; faults are finitely many, and nothing makes the rest happen.
FairSpec == Spec /\ \A w \in Workers : WF_vars(Run(w))

-----------------------------------------------------------------------------
(* Properties                                                              *)

Reasons == {"gone", "server", "invalid", "missing", "dlq"}

WorkerState == [pc : {"idle", "fetch", "put", "push", "get", "ingest", "mark", "delete", "retry", "ack"},
                msg : Message \union {NoMsg}, body : {"none", "good", "bad"}]

\* Queues, workers and stores hold what the code expects; a worker in Process has a
\* message of its own queue.
TypeOK ==
    /\ msgs \subseteq Message
    /\ worker \in [Workers -> WorkerState]
    /\ \A w \in Workers : worker[w].pc # "idle" =>
          /\ worker[w].msg \in Message
          /\ worker[w].pc \in {"fetch", "put", "push"} => worker[w].msg.queue = "fetch"
          /\ worker[w].pc \in {"get", "ingest", "mark", "delete"} => worker[w].msg.queue = "parse"
          /\ worker[w].pc = "put" => worker[w].body # "none"
    /\ candidate \in Matches \union {NoMatch}
    /\ blob \in [Matches -> {"none", "good", "bad"}]
    /\ db \subseteq Matches /\ seen \subseteq Matches
    /\ pushes \in Nat /\ faults \in Nat
    /\ discovered \subseteq Matches /\ expired \subseteq Matches
    /\ verdict \in [Matches -> SUBSET Reasons]

Outcome(m) == m \in db \/ verdict[m] # {}

\* No match disappears between two stages: once pushed it is in the database, has a
\* recorded outcome (dropped or dead-lettered), or some queue still holds a task of it,
\* whatever crashes, failed calls and duplicates happened on the way.
NoMatchLost ==
    \A m \in discovered : Outcome(m) \/ \E g \in msgs : g.match = m

\* The payload of m is there, or is not needed, or ran into its TTL.
Kept(m) == blob[m] # "none" \/ m \in db \/ m \in expired

\* A parser that finds no payload has nothing to do: the match is already in the
\* database, or the payload ran into its TTL.  Duplicate tasks share one payload key, and
\* the first to finish deletes it under the others.
PayloadKept == \A w \in Workers : At(w, "get") => Kept(Match(w))

\* The dedup set suppresses only matches that were really committed: no crash between
\* IngestMatch and MarkSeen, and no failed transaction, hides a match from discovery.
SeenIsStored == seen \subseteq db

\* h comes after g on the way of a match: a later attempt, or the next stage.
Later(h, g) == (g.queue = "fetch" /\ h.queue = "parse") \/ (g.queue = h.queue /\ h.tries > g.tries)

\* What makes NoMatchLost inductive: a message about to be acknowledged has an outcome or
\* a later message of the same match, so that acknowledgements cannot chase each other.
AckCovered ==
    \A w \in Workers : At(w, "ack") =>
        Outcome(Match(w)) \/ \E h \in msgs : h.match = Match(w) /\ Later(h, worker[w].msg)

\* What makes PayloadKept inductive: the payload was there before the parse task was, and
\* only a parser whose match is in the database deletes it.
PayloadBeforeTask ==
    /\ \A g \in msgs : g.queue = "parse" => Kept(g.match)
    /\ \A w \in Workers :
          /\ worker[w].pc \in {"push", "get", "ingest"} => Kept(Match(w))
          /\ worker[w].pc = "retry" /\ worker[w].msg.queue = "parse" => Kept(Match(w))
          /\ worker[w].pc \in {"mark", "delete"} => Match(w) \in db

PipelineInv == TypeOK /\ SeenIsStored /\ AckCovered /\ NoMatchLost /\ PayloadBeforeTask

\* Every discovered match is eventually ingested or has a recorded outcome.
EventuallyResolved == \A m \in Matches : m \in discovered ~> Outcome(m)

\* ARCHITECTURE.md, Failure Handling: only "4xx permanent (404/401/403/410)" is dropped and
\* acknowledged; "429 / 5xx" is retried on a new proxy, and "Decode/validate error" is
\* "Retry; eventually DLQ".  So no task ends for one of these other reasons.
OnlyPermanentDropped == \A m \in Matches : verdict[m] \cap {"server", "invalid"} = {}

=============================================================================
