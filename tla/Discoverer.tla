----------------------------- MODULE Discoverer -----------------------------
(***************************************************************************)
(* The discoverer process: main waits for proxies and for Postgres, builds *)
(* the list of cycles, and Scheduler.Run runs them at start one after the  *)
(* other, giving each a goroutine with a ticker.  A run of a cycle fetches *)
(* an answer of the API; the matches cycle pushes it item by item, the     *)
(* others upsert it in a transaction.  The process is cancelled at any     *)
(* time.                                                                   *)
(***************************************************************************)
EXTENDS Integers, Sequences

CONSTANTS
    Stored,        \* the cycles that need Postgres, in the order of BuildDiscoverer
    AtStart,       \* cycles with RunAtStart
    Periodic,      \* cycles with an interval > 0
    Items,         \* 1 .. Items: the items that every answer lists and decodes
    AllowDirect,   \* no wait for proxies
    MinSize,
    Sizes,         \* sizes the proxy pool may have
    MaxPolls,      \* polls before WaitForProxies times out
    MaxVersion,    \* bound: versions of the upstream data
    MaxFailures    \* bound: failed or empty answers, failed statements

Cycles == <<"matches">> \o Stored
Names == {Cycles[i] : i \in DOMAIN Cycles}
Runners == {"main"} \union Names      \* main, and the goroutine of each cycle

ASSUME ConstantsAssumption ==
    /\ Stored \in Seq({Stored[i] : i \in DOMAIN Stored})
    /\ \A i \in DOMAIN Stored : Stored[i] \notin {"main", "matches"}
    /\ \A i, j \in DOMAIN Stored : Stored[i] = Stored[j] => i = j
    /\ AtStart \subseteq Names /\ Periodic \subseteq Names
    /\ Items \in Nat \ {0} /\ AllowDirect \in BOOLEAN /\ MinSize \in Nat \ {0} /\ Sizes \subseteq Nat
    /\ MaxPolls \in Nat \ {0} /\ MaxVersion \in Nat \ {0} /\ MaxFailures \in Nat

VARIABLES
    main,          \* "proxies", "postgres", "loop", "starting", "waiting", "stopped", "exit"
    size,          \* of the proxy pool
    polls,
    postgres,      \* it accepts connections
    cycles,        \* those that were built
    at,            \* index of the loop of Run
    cancelled,     \* ctx.Done
    goroutine,     \* per cycle: "none", "select", "running", "exited"
    tick,          \* per cycle: a tick waits in the channel
    run,           \* per runner: [step, cycle, version, done, view]
    table,         \* per cycle: version of each item, stored or pushed
    version,       \* of the upstream data
    failures

waits == <<size, polls, postgres>>
vars == <<main, waits, cycles, at, cancelled, goroutine, tick, run, table, version, failures>>

NotRunning == [step |-> "none", cycle |-> "matches", version |-> 0, done |-> 0, view |-> [i \in 1 .. Items |-> 0]]
Begun(c) == [NotRunning EXCEPT !.step = "fetch", !.cycle = c]
Nothing == [i \in 1 .. Items |-> 0]

Init ==
    /\ main = IF AllowDirect THEN "postgres" ELSE "proxies"
    /\ size \in Sizes /\ polls = 0 /\ postgres \in BOOLEAN
    /\ cycles = <<>> /\ at = 1 /\ cancelled = FALSE
    /\ goroutine = [c \in Names |-> "none"]
    /\ tick = [c \in Names |-> FALSE]
    /\ run = [r \in Runners |-> NotRunning]
    /\ table = [c \in Names |-> Nothing]
    /\ version = 1 /\ failures = 0

Alive == main \notin {"stopped", "exit"}

-----------------------------------------------------------------------------
(* WaitForProxies and WaitForPostgres.                                     *)

\* The first look, or a poll before the deadline, finds enough proxies.
ProxiesReady ==
    /\ main = "proxies" /\ ~cancelled /\ size >= MinSize /\ (polls = 0 \/ polls < MaxPolls)
    /\ main' = "postgres"
    /\ UNCHANGED <<waits, cycles, at, cancelled, goroutine, tick, run, table, version, failures>>

ProxiesMissing ==
    /\ main = "proxies" /\ polls < MaxPolls /\ (cancelled \/ size < MinSize)
    /\ polls' = polls + 1
    /\ UNCHANGED <<main, size, postgres, cycles, at, cancelled, goroutine, tick, run, table, version, failures>>

\* The deadline is looked at before the size.
ProxiesTimeout ==
    /\ main = "proxies" /\ polls > 0 /\ polls = MaxPolls
    /\ main' = "exit"
    /\ UNCHANGED <<waits, cycles, at, cancelled, goroutine, tick, run, table, version, failures>>

ProxiesCancelled ==
    /\ main = "proxies" /\ cancelled
    /\ main' = "exit"
    /\ UNCHANGED <<waits, cycles, at, cancelled, goroutine, tick, run, table, version, failures>>

\* Without cycles that need it Postgres is not waited for.
Connected ==
    /\ main = "postgres" /\ (Stored = <<>> \/ (postgres /\ ~cancelled))
    /\ main' = "loop" /\ cycles' = Cycles
    /\ UNCHANGED <<waits, at, cancelled, goroutine, tick, run, table, version, failures>>

\* Mutant of NotConnected: the select between attempts ignores ctx.Done.
NotConnectedRetries == main = "postgres" /\ cancelled /\ UNCHANGED vars

\* The wait has no timeout: only cancellation ends it without a connection.
NotConnected ==
    /\ main = "postgres" /\ Stored # <<>> /\ cancelled
    /\ main' = "loop" /\ cycles' = <<"matches">>
    /\ UNCHANGED <<waits, at, cancelled, goroutine, tick, run, table, version, failures>>

-----------------------------------------------------------------------------
(* Scheduler.Run.                                                          *)

\* Mutant of RunCycleAtStart: the goroutine is started before the first run.
RunCycleAtStartLate ==
    /\ main = "loop" /\ at <= Len(cycles) /\ cycles[at] \in AtStart
    /\ main' = "starting"
    /\ run' = [run EXCEPT !["main"] = Begun(cycles[at])]
    /\ goroutine' = [goroutine EXCEPT ![cycles[at]] = IF cycles[at] \in Periodic THEN "select" ELSE "none"]
    /\ UNCHANGED <<waits, cycles, at, cancelled, tick, table, version, failures>>

RunCycleAtStart ==
    /\ main = "loop" /\ at <= Len(cycles) /\ cycles[at] \in AtStart
    /\ main' = "starting"
    /\ run' = [run EXCEPT !["main"] = Begun(cycles[at])]
    /\ UNCHANGED <<waits, cycles, at, cancelled, goroutine, tick, table, version, failures>>

\* go func() for a cycle with an interval, then the next cycle.
Schedule ==
    /\ at <= Len(cycles)
    /\ \/ main = "loop" /\ cycles[at] \notin AtStart
       \/ main = "starting" /\ run["main"].step = "none"
    /\ main' = "loop" /\ at' = at + 1
    /\ goroutine' = [goroutine EXCEPT ![cycles[at]] = IF cycles[at] \in Periodic THEN "select" ELSE "none"]
    /\ UNCHANGED <<waits, cycles, cancelled, tick, run, table, version, failures>>

AllScheduled ==
    /\ main = "loop" /\ at > Len(cycles)
    /\ main' = "waiting"
    /\ UNCHANGED <<waits, cycles, at, cancelled, goroutine, tick, run, table, version, failures>>

\* Run returns and main with it, whatever the goroutines are doing.
Stop ==
    /\ main = "waiting" /\ cancelled
    /\ main' = "stopped"
    /\ UNCHANGED <<waits, cycles, at, cancelled, goroutine, tick, run, table, version, failures>>

\* The channel of the ticker holds one tick.
Tick(c) ==
    /\ Alive /\ goroutine[c] \in {"select", "running"}
    /\ tick' = [tick EXCEPT ![c] = TRUE]
    /\ UNCHANGED <<main, waits, cycles, at, cancelled, goroutine, run, table, version, failures>>

\* select takes either case when both are ready.
RunCycle(c) ==
    /\ Alive /\ goroutine[c] = "select" /\ tick[c]
    /\ tick' = [tick EXCEPT ![c] = FALSE]
    /\ goroutine' = [goroutine EXCEPT ![c] = "running"]
    /\ run' = [run EXCEPT ![c] = Begun(c)]
    /\ UNCHANGED <<main, waits, cycles, at, cancelled, table, version, failures>>

Exit(c) ==
    /\ Alive /\ goroutine[c] = "select" /\ cancelled
    /\ goroutine' = [goroutine EXCEPT ![c] = "exited"]
    /\ UNCHANGED <<main, waits, cycles, at, cancelled, tick, run, table, version, failures>>

-----------------------------------------------------------------------------
(* RunOnce of a cycle.                                                     *)

\* Mutant of End: an error ends the goroutine.
EndReturns(r, err) ==
    /\ run' = [run EXCEPT ![r] = NotRunning]
    /\ goroutine' = IF r = "main" THEN goroutine
                    ELSE [goroutine EXCEPT ![r] = IF err THEN "exited" ELSE "select"]

\* runCycle logs an error and returns.
End(r, err) ==
    /\ run' = [run EXCEPT ![r] = NotRunning]
    /\ goroutine' = IF r = "main" THEN goroutine ELSE [goroutine EXCEPT ![r] = "select"]

Fails == (failures < MaxFailures /\ failures' = failures + 1) \/ (cancelled /\ UNCHANGED failures)

Fetch(r) ==
    /\ Alive /\ run[r].step = "fetch" /\ ~cancelled
    /\ run' = [run EXCEPT ![r].step = "items", ![r].version = version, ![r].view = table[run[r].cycle]]
    /\ UNCHANGED <<main, waits, cycles, at, cancelled, goroutine, tick, table, version, failures>>

\* Also an answer without rows, which the status is not looked at for: nothing to do.
FetchFails(r) ==
    /\ Alive /\ run[r].step = "fetch" /\ Fails
    /\ \E err \in BOOLEAN : End(r, err)
    /\ UNCHANGED <<main, waits, cycles, at, cancelled, tick, table, version>>

\* The next row of the transaction of a store.
Upsert(r) ==
    LET c == run[r].cycle  i == run[r].done + 1 IN
    /\ Alive /\ run[r].step = "items" /\ c # "matches" /\ i <= Items /\ ~cancelled
    /\ run' = [run EXCEPT ![r].done = i, ![r].view[i] = run[r].version]
    /\ UNCHANGED <<main, waits, cycles, at, cancelled, goroutine, tick, table, version, failures>>

UpsertFails(r) ==
    /\ Alive /\ run[r].step = "items" /\ run[r].cycle # "matches" /\ Fails /\ End(r, TRUE)
    /\ UNCHANGED <<main, waits, cycles, at, cancelled, tick, table, version>>

Commit(r) ==
    /\ Alive /\ run[r].step = "items" /\ run[r].cycle # "matches" /\ run[r].done = Items /\ ~cancelled
    /\ table' = [table EXCEPT ![run[r].cycle] = run[r].view]
    /\ End(r, FALSE)
    /\ UNCHANGED <<main, waits, cycles, at, cancelled, tick, version, failures>>

\* The matches cycle pushes an item, or logs that it could not, and goes on.
Push(r) ==
    LET i == run[r].done + 1 IN
    /\ Alive /\ run[r].step = "items" /\ run[r].cycle = "matches" /\ i <= Items
    /\ run' = [run EXCEPT ![r].done = i]
    /\ \/ ~cancelled /\ table' = [table EXCEPT !["matches"][i] = run[r].version] /\ UNCHANGED failures
       \/ Fails /\ UNCHANGED table
    /\ UNCHANGED <<main, waits, cycles, at, cancelled, goroutine, tick, version>>

Pushed(r) ==
    /\ Alive /\ run[r].step = "items" /\ run[r].cycle = "matches" /\ run[r].done = Items
    /\ End(r, FALSE)
    /\ UNCHANGED <<main, waits, cycles, at, cancelled, tick, table, version, failures>>

-----------------------------------------------------------------------------
(* The environment.                                                        *)

PoolChanges ==
    /\ main = "proxies" /\ size' \in Sizes
    /\ UNCHANGED <<main, polls, postgres, cycles, at, cancelled, goroutine, tick, run, table, version, failures>>

PostgresStarts ==
    /\ main = "postgres" /\ ~postgres /\ postgres' = TRUE
    /\ UNCHANGED <<main, size, polls, cycles, at, cancelled, goroutine, tick, run, table, version, failures>>

UpstreamChanges ==
    /\ Alive /\ version < MaxVersion /\ version' = version + 1
    /\ UNCHANGED <<main, waits, cycles, at, cancelled, goroutine, tick, run, table, failures>>

Cancel ==
    /\ Alive /\ ~cancelled /\ cancelled' = TRUE
    /\ UNCHANGED <<main, waits, cycles, at, goroutine, tick, run, table, version, failures>>

-----------------------------------------------------------------------------
Waiting == ProxiesReady \/ ProxiesMissing \/ ProxiesTimeout \/ ProxiesCancelled \/ Connected \/ NotConnected
Running == RunCycleAtStart \/ Schedule \/ AllScheduled \/ Stop
RunOnce(r) ==
    Fetch(r) \/ FetchFails(r) \/ Upsert(r) \/ UpsertFails(r) \/ Commit(r) \/ Push(r) \/ Pushed(r)
Loop(c) == RunCycle(c) \/ Exit(c)

Next ==
    \/ Waiting \/ Running
    \/ \E r \in Runners : RunOnce(r)
    \/ \E c \in Names : Loop(c) \/ Tick(c)
    \/ PoolChanges \/ PostgresStarts \/ UpstreamChanges \/ Cancel

Spec == Init /\ [][Next]_vars

\* The goroutines of the process run and tickers fire; Postgres need not start.
Fairness ==
    /\ WF_vars(Waiting) /\ WF_vars(Running)
    /\ \A r \in Runners : WF_vars(RunOnce(r))
    /\ \A c \in Names : WF_vars(Loop(c)) /\ WF_vars(Tick(c))

FairSpec == Spec /\ Fairness

-----------------------------------------------------------------------------
(* Properties.                                                             *)

\* Types; the deadline bounds the polls for proxies.
TypeOK ==
    /\ main \in {"proxies", "postgres", "loop", "starting", "waiting", "stopped", "exit"}
    /\ size \in Sizes /\ polls \in 0 .. MaxPolls /\ postgres \in BOOLEAN
    /\ cycles \in {<<>>, <<"matches">>, Cycles} /\ at \in 1 .. Len(cycles) + 1
    /\ goroutine \in [Names -> {"none", "select", "running", "exited"}]
    /\ cancelled \in BOOLEAN /\ tick \in [Names -> BOOLEAN]
    /\ run \in [Runners -> [step : {"none", "fetch", "items"}, cycle : Names, version : Nat,
                            done : 0 .. Items, view : [1 .. Items -> Nat]]]
    /\ table \in [Names -> [1 .. Items -> Nat]]
    /\ failures \in 0 .. MaxFailures /\ version \in 1 .. MaxVersion

\* A cycle is not run by two goroutines at once: the run at start is over before the
\* ticker of the cycle is started, and a slow run is not overtaken by the next tick.
NoOverlap ==
    \A r, s \in Runners : r # s /\ run[r].step # "none" /\ run[s].step # "none" => run[r].cycle # run[s].cycle

\* The rows of the items that every answer lists are those of one answer, whatever failed
\* or was cancelled.  An item that an answer omits, or that does not decode and is skipped,
\* keeps its older row in the store: the upsert never deletes.
OneAnswer == \A c \in Names \ {"matches"} : \A i, j \in 1 .. Items : table[c][i] = table[c][j]

\* One run of a cycle at a time, and the rows of an answer all or none.
SchedulerInv == TypeOK /\ NoOverlap /\ OneAnswer

\* What makes it inductive: a cycle has a goroutine only once the loop of Run has passed it,
\* the goroutine of a cycle runs only that one, main runs the cycle the loop is at, and
\* the rows of a transaction up to the present one are those of its answer.
ScheduleInv ==
    /\ main \in {"proxies", "postgres"} => cycles = <<>>
    /\ main = "starting" => at <= Len(cycles)
    /\ \A c \in Names : goroutine[c] # "none" => \E i \in 1 .. at - 1 : cycles[i] = c
    /\ \A c \in Names : run[c].step # "none" => goroutine[c] = "running" /\ run[c].cycle = c
    /\ run["main"].step # "none" => main = "starting" /\ run["main"].cycle = cycles[at]
    /\ \A r \in Runners :
           /\ run[r].step = "fetch" => run[r].done = 0
           /\ run[r].step = "items" /\ run[r].cycle # "matches" =>
                  \A i \in 1 .. run[r].done : run[r].view[i] = run[r].version

SchedulerIInv == TypeOK /\ OneAnswer /\ ScheduleInv

\* Failures end: every periodic cycle ends with the upstream data stored or pushed, unless
\* the process is stopped or Postgres stays down, for which all cycles wait.
KeepsRefreshing ==
    <>[](main = "exit" \/ cancelled \/ ~postgres \/ \A c \in Periodic : \A i \in 1 .. Items : table[c][i] = version)

\* A cancelled process stops, wherever it waits.
Stops == cancelled ~> ~Alive

=============================================================================
