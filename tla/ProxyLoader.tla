----------------------------- MODULE ProxyLoader -----------------------------
(***************************************************************************)
(* cmd/proxyloader and loader.Loader: validate the seed list in chunks     *)
(* with bounded parallelism, publish every chunk to the pool, fetch the    *)
(* remote list through healthy seed proxies and do the same with it; then  *)
(* repeat on two tickers, one unconditional, one when the pool runs low.   *)
(*                                                                         *)
(* The candidate set of the pool is shared with the clients, whose         *)
(* failures evict proxies from it (record_failure.lua, see ProxyPool).     *)
(***************************************************************************)
EXTENDS Integers, FiniteSets, SequencesExt

CONSTANTS
    SeedList, RemoteList,   \* proxy URLs, in the order of file and answer
    Parallel, ChunkSize, MinPublish,
    MaxVia,                 \* proxies tried for the remote list, 5 in the code
    MinPoolSize,            \* PROXY_MIN_POOL_SIZE
    DefaultMinPool,         \* what 0 stands for, 20 in the code
    TopUp, Refresh,         \* whether the intervals of the two tickers are positive
    MaxFlips, MaxEvictions, MaxFaults  \* bounds: on the environment

ConstantsOK ==
    /\ SeedList \in Seq(ToSet(SeedList)) /\ RemoteList \in Seq(ToSet(RemoteList))
    /\ {Parallel, ChunkSize, MinPublish, MaxVia, DefaultMinPool} \subseteq Nat \ {0}
    /\ {MinPoolSize, MaxFlips, MaxEvictions, MaxFaults} \subseteq Nat
    /\ TopUp \in BOOLEAN /\ Refresh \in BOOLEAN

Proxies == ToSet(SeedList) \union ToSet(RemoteList)

VARIABLES
    pool,       \* the candidate ZSET
    up,         \* the proxies through which a request gets an answer
    pc,         \* position of the main goroutine
    why,        \* what started the run: "initial", "force", "topup"
    phase,      \* the list being validated: "seed" or "remote"
    list,       \* its part that is not validated yet
    waiting,    \* goroutines of validateAll that wait for the semaphore, by proxy
    probing,    \* goroutines that hold it
    healthy,    \* healthy proxies of the chunk, in the order the probes ended
    found,      \* allHealthy of the phase; the seed's candidates for the remote list
    via,        \* next candidate for the remote list
    flips, evictions, faults,
    (* history, read by the properties only *)
    passed,     \* proxies that passed a probe, ever
    probed      \* proxies probed in this run

loadVars == <<why, phase, list, waiting, probing, healthy, found, via>>
envVars == <<up, flips, evictions, faults>>
ghosts == <<passed, probed>>
vars == <<pool, pc, loadVars, envVars, ghosts>>

TypeOK ==
    /\ pool \subseteq Proxies /\ up \subseteq Proxies
    /\ pc \in {"start", "seed", "chunks", "probe", "remote", "tick", "exited"}
    /\ why \in {"initial", "force", "topup"} /\ phase \in {"seed", "remote"}
    /\ list \in Seq(Proxies) /\ healthy \in Seq(Proxies) /\ found \in Seq(Proxies)
    /\ waiting \subseteq Proxies /\ probing \subseteq Proxies \ waiting
    /\ via \in 1..MaxVia + 1
    /\ flips \in 0..MaxFlips /\ evictions \in 0..MaxEvictions /\ faults \in 0..MaxFaults
    /\ passed \subseteq Proxies /\ probed \subseteq Proxies

Init ==
    /\ pool = {} /\ up \in SUBSET Proxies
    /\ pc = "start" /\ why = "initial" /\ phase = "seed"
    /\ list = <<>> /\ waiting = {} /\ probing = {} /\ healthy = <<>> /\ found = <<>> /\ via = 1
    /\ flips = 0 /\ evictions = 0 /\ faults = 0
    /\ passed = {} /\ probed = {}

Fault == faults < MaxFaults /\ faults' = faults + 1 /\ UNCHANGED <<up, flips, evictions>>

-----------------------------------------------------------------------------
(* Loader.Run.                                                             *)

BeginRun(reason) ==
    /\ why' = reason
    /\ pc' = "seed"
    /\ probed' = {}
    /\ UNCHANGED <<pool, phase, list, waiting, probing, healthy, found, via, passed, envVars>>

\* Run returns; main exits after the first run if both tickers are off.
EndRun == pc' = IF TopUp \/ Refresh THEN "tick" ELSE "exited"

\* FileSource.Load; an empty list is an error like a file that cannot be read.
LoadSeed ==
    /\ pc = "seed"
    /\ IF SeedList = <<>>
       THEN EndRun /\ UNCHANGED <<loadVars, envVars>>
       ELSE \/ /\ list' = SeedList /\ phase' = "seed" /\ found' = <<>>
               /\ pc' = "chunks"
               /\ UNCHANGED <<why, waiting, probing, healthy, via, envVars>>
            \/ Fault /\ EndRun /\ UNCHANGED loadVars
    /\ UNCHANGED <<pool, ghosts>>

ChunkLen == IF Len(list) < ChunkSize THEN Len(list) ELSE ChunkSize

\* validateAndPublishChunks takes the next slice; validateAll starts a goroutine per proxy.
NextChunk ==
    /\ pc = "chunks" /\ list # <<>>
    /\ waiting' = {list[i] : i \in 1..ChunkLen}
    /\ list' = SubSeq(list, ChunkLen + 1, Len(list))
    /\ healthy' = <<>>
    /\ pc' = "probe"
    /\ UNCHANGED <<pool, why, phase, probing, found, via, envVars, ghosts>>

\* A goroutine of validateAll enters the semaphore.
ProbeBegins(p) ==
    /\ pc = "probe" /\ p \in waiting
    /\ Cardinality(probing) < Parallel
    /\ waiting' = waiting \ {p}
    /\ probing' = probing \union {p}
    /\ UNCHANGED <<pool, pc, why, phase, list, healthy, found, via, envVars, ghosts>>

\* Validator.Probe ends: the canary answers below 400 through a proxy that is up.
Probe(p) ==
    /\ pc = "probe" /\ p \in probing
    /\ probing' = probing \ {p}
    /\ probed' = probed \union {p}
    /\ IF p \in up
       THEN /\ healthy' = Append(healthy, p)
            /\ passed' = passed \union {p}
       ELSE UNCHANGED <<healthy, passed>>
    /\ UNCHANGED <<pool, pc, why, phase, list, waiting, found, via, envVars>>

\* The chunk is complete: Pool.Add, unless too few are healthy; an Add that
\* fails is logged.  Its proxies count as healthy either way.
Publish ==
    /\ pc = "probe" /\ waiting = {} /\ probing = {}
    /\ \/ Len(healthy) >= MinPublish /\ pool' = pool \union ToSet(healthy) /\ UNCHANGED envVars
       \/ Len(healthy) < MinPublish /\ UNCHANGED <<pool, envVars>>
       \/ Len(healthy) >= MinPublish /\ Fault /\ UNCHANGED pool
    /\ found' = found \o healthy
    /\ pc' = "chunks"
    /\ UNCHANGED <<why, phase, list, waiting, probing, healthy, via, ghosts>>

\* Mutant of ListDone: the number of chunks is rounded down.
ListDoneEarly ==
    /\ pc = "chunks" /\ Len(list) < ChunkSize
    /\ IF phase = "seed" /\ found # <<>> /\ RemoteList # <<>>
       THEN pc' = "remote" /\ via' = 1
       ELSE EndRun /\ UNCHANGED via
    /\ UNCHANGED <<pool, why, phase, list, waiting, probing, healthy, found, envVars, ghosts>>

\* A list is done: an error without healthy seed proxies, the remote list, or the end.
ListDone ==
    /\ pc = "chunks" /\ list = <<>>
    /\ IF phase = "seed" /\ found # <<>> /\ RemoteList # <<>>
       THEN pc' = "remote" /\ via' = 1
       ELSE EndRun /\ UNCHANGED via
    /\ UNCHANGED <<pool, why, phase, list, waiting, probing, healthy, found, envVars, ghosts>>

filterOut(in, drop) ==
    LET out[n \in 0 .. Len(in)] ==
            IF n = 0 THEN <<>>
            ELSE IF in[n] \in ToSet(drop) THEN out[n - 1] ELSE Append(out[n - 1], in[n])
    IN  out[Len(in)]

\* loadRemoteWithFallback, one attempt through a healthy seed proxy.
LoadRemote ==
    /\ pc = "remote" /\ via <= MaxVia /\ via <= Len(found)
    /\ \/ /\ found[via] \in up
          /\ list' = filterOut(RemoteList, found) /\ phase' = "remote" /\ found' = <<>>
          /\ pc' = "chunks"
          /\ UNCHANGED <<via, envVars>>
       \/ /\ IF found[via] \in up THEN Fault ELSE UNCHANGED envVars
          /\ via' = via + 1
          /\ UNCHANGED <<pc, list, phase, found>>
    /\ UNCHANGED <<pool, why, waiting, probing, healthy, ghosts>>

\* All attempts failed: the pool keeps what the seed gave it.
RemoteFails ==
    /\ pc = "remote" /\ (via > MaxVia \/ via > Len(found))
    /\ EndRun
    /\ UNCHANGED <<pool, loadVars, envVars, ghosts>>

-----------------------------------------------------------------------------
(* cmd/proxyloader: the first run, then the two tickers.                   *)

InitialLoad == pc = "start" /\ BeginRun("initial")

ForceTick == pc = "tick" /\ Refresh /\ BeginRun("force")

MinPool == IF MinPoolSize <= 0 THEN DefaultMinPool ELSE MinPoolSize

\* Mutant of TopUpTick: the test is inverted.
TopUpTickInverted == pc = "tick" /\ TopUp /\ Cardinality(pool) >= MinPool /\ BeginRun("topup")

\* A pool that is large enough, or whose size cannot be read, is left alone.
TopUpTick == pc = "tick" /\ TopUp /\ Cardinality(pool) < MinPool /\ BeginRun("topup")

\* SIGTERM: the probes under way are dropped and nothing more is published.
Stop ==
    /\ pc # "exited"
    /\ Fault
    /\ pc' = "exited"
    /\ UNCHANGED <<pool, loadVars, ghosts>>

\* A proxy starts or stops working.
Flip(p) ==
    /\ flips < MaxFlips
    /\ flips' = flips + 1
    /\ up' = IF p \in up THEN up \ {p} ELSE up \union {p}
    /\ UNCHANGED <<pool, pc, loadVars, evictions, faults, ghosts>>

\* A client's failure evicts a proxy (record_failure.lua).
Evict(p) ==
    /\ evictions < MaxEvictions
    /\ p \in pool
    /\ evictions' = evictions + 1
    /\ pool' = pool \ {p}
    /\ UNCHANGED <<pc, loadVars, up, flips, faults, ghosts>>

-----------------------------------------------------------------------------
LoaderStep ==
    \/ InitialLoad \/ LoadSeed \/ NextChunk \/ Publish \/ ListDone \/ LoadRemote \/ RemoteFails
    \/ TopUpTick
    \/ \E p \in Proxies : ProbeBegins(p) \/ Probe(p)

Next == LoaderStep \/ ForceTick \/ Stop \/ \E p \in Proxies : Flip(p) \/ Evict(p)

\* The process runs and the top-up ticker ticks; probes and calls have timeouts.  The
\* forced refresh, which may be off, is not relied on.
Spec == Init /\ [][Next]_vars /\ WF_vars(LoaderStep)

-----------------------------------------------------------------------------
(* Properties.                                                             *)

\* Clients are only ever given proxies that answered a probe.
PublishedPassed == pool \subseteq passed

\* A run that comes to the remote list has probed the whole seed list: the last,
\* shorter chunk is not lost to the arithmetic of validateAndPublishChunks.
SeedCovered == pc = "remote" => ToSet(SeedList) \subseteq probed

\* What a run publishes and covers, with failed calls, proxies that come and go and
\* probes in flight at any point.
LoaderInv == TypeOK /\ PublishedPassed /\ SeedCovered

\* While the seed list is validated each of its proxies is probed, in flight or still in
\* the list, and a chunk begins only when all goroutines of the one before have ended.
SeedAccounted ==
    /\ phase = "seed" /\ pc \in {"chunks", "probe"} =>
        ToSet(SeedList) \subseteq probed \union ToSet(list) \union waiting \union probing
    /\ pc \notin {"probe", "exited"} => waiting = {} /\ probing = {}

\* LoaderInv with what makes it inductive.
LoaderIInv == LoaderInv /\ SeedAccounted /\ ToSet(healthy) \subseteq passed

\* Once proxies stop failing, a pool below the threshold is filled up with what
\* works: a seed list whose proxies are up ends in the pool.
Refilled ==
    <>[](ToSet(SeedList) \subseteq up /\ pc # "exited")
        => []<>(Cardinality(pool) >= MinPool \/ ToSet(SeedList) \subseteq pool)

=============================================================================
