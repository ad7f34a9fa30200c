------------------------------ MODULE ProxyPool ------------------------------
(***************************************************************************)
(* The Redis-backed proxy pool: internal/proxy/redisproxy (pool.go and the *)
(* Lua scripts it runs), the Lease handle of internal/proxy/pool.go, and   *)
(* the order in which httpdo.Doer.doWithLease uses one lease.              *)
(*                                                                         *)
(* A Lua script is one atomic step: Redis runs it alone.  Everything       *)
(* between two Redis calls of a client may be interleaved with the calls   *)
(* of other clients, with time passing and with a crash of the client.     *)
(*                                                                         *)
(* Time is a pair <<sec, sub>>: acquire.lua reads whole seconds (TIME[1])  *)
(* while Redis expires keys on a finer clock, and the difference between   *)
(* the two clocks is exactly what the lease protocol has to survive.       *)
(***************************************************************************)
EXTENDS Integers, FiniteSets

CONSTANTS
    Proxies,         \* proxy URLs
    Clients,         \* goroutines that send requests through the pool
    Tokens,          \* names for the random lease tokens
    NoProxy,         \* "no URL", not a member of Proxies
    NoToken,         \* "no token", not a member of Tokens
    SubTicks,        \* instants per second of the fine clock
    Holds,           \* durations passed to Acquire, in instants (0 = unset)
    DefaultTtl,      \* seconds used when the duration is not positive (30)
    TopN,            \* how many of the ranked proxies acquire.lua looks at (20)
    MaxFailures,     \* consecutive failures that evict a proxy, 0 = never
    InitialWeight, SuccessBoost, FailurePenalty,   \* proxy.Ranking
    Burst,           \* rate limiter: acquisitions per window, 0 = disabled
    Window,          \* rate limiter: window length in seconds
    MaxSec,          \* bound: the clock stops here
    MaxWeight,       \* bound: weights stay within -MaxWeight .. MaxWeight
    MaxStreak        \* bound: recorded consecutive failures

ASSUME ConstantsAssumption ==
    /\ NoProxy \notin Proxies
    /\ NoToken \notin Tokens
    /\ SubTicks \in Nat \ {0}
    /\ Holds \subseteq Nat
    /\ DefaultTtl \in Nat \ {0}
    /\ TopN \in Nat /\ MaxFailures \in Nat
    /\ InitialWeight \in Int /\ SuccessBoost \in Int /\ FailurePenalty \in Int
    /\ Burst \in Nat /\ Window \in Nat \ {0}
    /\ MaxSec \in Nat /\ MaxWeight \in Nat /\ MaxStreak \in Nat

VARIABLES
    sec, sub,        \* the clock of the Redis server
    set,             \* <prefix>:set, the ZSET of candidates: its members ...
    weight,          \*   ... and their scores (0 for a non-member)
    leased,          \* <prefix>:leased, a ZSET url -> expiry second (0: absent)
    key,             \* <prefix>:lease:<token>, a string key with a TTL
    streak,          \* stats:<url>.consecutive_fail (0 when the hash is absent)
    cooldown,        \* <prefix>:cooldown: the evicted proxies
    limiter,         \* <prefix>:limiter, a counter with a TTL
    client,          \* what each client is doing
    loader           \* a Replace call between its read and its transaction

clockVars == <<sec, sub>>
rankVars  == <<set, weight, streak, cooldown>>
leaseVars == <<leased, key>>
vars == <<sec, sub, set, weight, leased, key, streak, cooldown, limiter,
          client, loader>>

-----------------------------------------------------------------------------
(* Keys with a TTL.  Redis removes a key when the clock is past its expiry *)
(* instant; until then GET returns it.                                     *)

Unexpired(s, u) == sec < s \/ (sec = s /\ sub <= u)

NoKey == [url |-> NoProxy, sec |-> 0, sub |-> 0]

\* GET <prefix>:lease:<t> answers a URL.
Live(t) == key[t].url # NoProxy /\ Unexpired(key[t].sec, key[t].sub)

Idle == [pc |-> "idle", token |-> NoToken, url |-> NoProxy]

\* Tokens are 128 random bits: a new one names no key and no client's lease.
FreshTokens == {t \in Tokens : ~Live(t) /\ \A c \in Clients : client[c].token # t}

\* Acquire: the whole seconds given to the script, at least one.
TtlSec(hold) ==
    IF hold <= 0 THEN DefaultTtl
    ELSE IF hold \div SubTicks < 1 THEN 1
    ELSE hold \div SubTicks

-----------------------------------------------------------------------------
Init ==
    /\ sec = 0 /\ sub = 0
    /\ set = {}
    /\ weight = [p \in Proxies |-> 0]
    /\ leased = [p \in Proxies |-> 0]
    /\ key = [t \in Tokens |-> NoKey]
    /\ streak = [p \in Proxies |-> 0]
    /\ cooldown = {}
    /\ limiter = [n |-> 0, sec |-> 0, sub |-> 0]
    /\ client = [c \in Clients |-> Idle]
    /\ loader = [pc |-> "idle", healthy |-> {}, removed |-> {}]

-----------------------------------------------------------------------------
(* Acquire: the limiter script, then the acquire script.                   *)

\* The counter the limiter script increments: an expired key counts from 0.
LimiterCount == IF Unexpired(limiter.sec, limiter.sub) THEN limiter.n ELSE 0

\* Mutant of RateLimit: one acquisition too many per window.
RateLimitOffByOne(c) ==
    /\ client[c].pc = "idle"
    /\ LimiterCount <= Burst
    /\ limiter' = IF LimiterCount = 0
                  THEN [n |-> 1, sec |-> sec + Window, sub |-> sub]
                  ELSE [limiter EXCEPT !.n = LimiterCount + 1]
    /\ client' = [client EXCEPT ![c].pc = "admitted"]
    /\ UNCHANGED <<clockVars, rankVars, leaseVars, loader>>

\* Mutant of RateLimit: every attempt, a refused one too, starts the TTL anew.
RateLimitRenewed(c) ==
    /\ client[c].pc = "idle" /\ Burst > 0 /\ LimiterCount <= Burst
    /\ limiter' = [n |-> LimiterCount + 1, sec |-> sec + Window, sub |-> sub]
    /\ client' = IF LimiterCount + 1 > Burst THEN client ELSE [client EXCEPT ![c].pc = "admitted"]
    /\ UNCHANGED <<clockVars, rankVars, leaseVars, loader>>

\* rate_limit.lua: INCR, PEXPIRE on the first increment of a window, and a
\* refusal above Burst, which ends Acquire with ErrRateLimited.
RateLimit(c) ==
    /\ client[c].pc = "idle"
    /\ IF Burst = 0
       THEN UNCHANGED limiter /\ client' = [client EXCEPT ![c].pc = "admitted"]
       ELSE /\ LimiterCount <= Burst       \* bound: the counter stops at Burst + 1
            /\ limiter' = IF LimiterCount = 0
                          THEN [n |-> 1, sec |-> sec + Window, sub |-> sub]
                          ELSE [limiter EXCEPT !.n = LimiterCount + 1]
            /\ client' = IF LimiterCount + 1 > Burst
                         THEN client
                         ELSE [client EXCEPT ![c].pc = "admitted"]
    /\ UNCHANGED <<clockVars, rankVars, leaseVars, loader>>

\* Mutant of CleanExpired: ZREMRANGEBYSCORE leased 0 now.
CleanExpiredNow(l) == [p \in Proxies |-> IF l[p] <= sec THEN 0 ELSE l[p]]

\* Mutant of CleanExpired: the score is taken for the second of the acquisition.
CleanExpiredOld(l) == [p \in Proxies |-> IF l[p] <= sec - DefaultTtl THEN 0 ELSE l[p]]

\* ZREMRANGEBYSCORE leased 0 now-1
CleanExpired(l) == [p \in Proxies |-> IF l[p] <= sec - 1 THEN 0 ELSE l[p]]

\* ZREVRANGE set 0 topN-1: the best TopN members (ties in any order).
TopRanked(C) ==
    /\ C \subseteq set
    /\ Cardinality(C) = IF Cardinality(set) < TopN THEN Cardinality(set) ELSE TopN
    /\ \A p \in C, q \in set \ C : weight[p] >= weight[q]

\* acquire.lua picks an unleased candidate, writes the leased entry with the
\* whole-second expiry and the lease key with the exact one.
AcquireProxy(c, p, t, hold) ==
    /\ client[c].pc = "admitted"
    /\ t \in FreshTokens
    /\ \E C \in SUBSET set : TopRanked(C) /\ p \in C
    /\ CleanExpired(leased)[p] = 0
    /\ leased' = [CleanExpired(leased) EXCEPT ![p] = sec + TtlSec(hold)]
    /\ key' = [key EXCEPT ![t] = [url |-> p, sec |-> sec + TtlSec(hold), sub |-> sub]]
    /\ client' = [client EXCEPT ![c] = [pc |-> "holding", token |-> t, url |-> p]]
    /\ UNCHANGED <<clockVars, rankVars, limiter, loader>>

\* acquire.lua returns nil, after the clean-up: ErrNoProxy.
AcquireNone(c) ==
    /\ client[c].pc = "admitted"
    /\ \E C \in SUBSET set : TopRanked(C) /\ \A p \in C : CleanExpired(leased)[p] # 0
    /\ leased' = CleanExpired(leased)
    /\ client' = [client EXCEPT ![c] = Idle]
    /\ UNCHANGED <<clockVars, rankVars, key, limiter, loader>>

-----------------------------------------------------------------------------
(* The request outcome, recorded by doWithLease before its deferred        *)
(* Release.  ZINCRBY creates a missing member, with the increment as score.*)

Reweigh(p, delta) ==
    /\ weight[p] + delta \in -MaxWeight .. MaxWeight      \* bound
    /\ set' = set \union {p}
    /\ weight' = [weight EXCEPT ![p] = weight[p] + delta]

\* Mutant of MarkSuccess: a success does not end the streak of failures.
MarkSuccessKeepsStreak(c) ==
    /\ client[c].pc = "holding"
    /\ Reweigh(client[c].url, SuccessBoost)
    /\ client' = [client EXCEPT ![c].pc = "marked"]
    /\ UNCHANGED <<clockVars, streak, cooldown, leaseVars, limiter, loader>>

MarkSuccess(c) ==
    /\ client[c].pc = "holding"
    /\ Reweigh(client[c].url, SuccessBoost)
    /\ streak' = [streak EXCEPT ![client[c].url] = 0]
    /\ client' = [client EXCEPT ![c].pc = "marked"]
    /\ UNCHANGED <<clockVars, cooldown, leaseVars, limiter, loader>>

\* record_failure.lua evicts at this length of the failure streak.
Evicts(n) == MaxFailures > 0 /\ n >= MaxFailures

MarkFailure(c) ==
    LET p == client[c].url IN
    /\ client[c].pc = "holding"
    /\ streak[p] < MaxStreak                              \* bound
    /\ streak' = [streak EXCEPT ![p] = streak[p] + 1]
    /\ \/ /\ Evicts(streak[p] + 1)
          /\ set' = set \ {p}
          /\ weight' = [weight EXCEPT ![p] = 0]
          /\ cooldown' = cooldown \union {p}
       \/ /\ ~Evicts(streak[p] + 1)
          /\ Reweigh(p, -FailurePenalty)
          /\ UNCHANGED cooldown
    /\ client' = [client EXCEPT ![c].pc = "marked"]
    /\ UNCHANGED <<clockVars, leaseVars, limiter, loader>>

\* The record script fails: MarkSuccess and MarkFailure swallow the error.
MarkLost(c) ==
    /\ client[c].pc = "holding"
    /\ client' = [client EXCEPT ![c].pc = "marked"]
    /\ UNCHANGED <<clockVars, rankVars, leaseVars, limiter, loader>>

\* Lease.Release runs once per lease; release.lua does nothing when the lease
\* key has expired, and otherwise drops both the entry and the key.
Release(c) ==
    LET t == client[c].token IN
    /\ client[c].pc = "marked"
    /\ \/ /\ Live(t)
          /\ leased' = [leased EXCEPT ![key[t].url] = 0]
          /\ key' = [key EXCEPT ![t] = NoKey]
       \/ ~Live(t) /\ UNCHANGED leaseVars
    /\ client' = [client EXCEPT ![c] = Idle]
    /\ UNCHANGED <<clockVars, rankVars, limiter, loader>>

\* The client stops without releasing: its process dies, the reply of the acquire
\* script is lost, or the release script fails after the released flag was set, so
\* that nothing tries again.
Abandon(c) ==
    /\ client[c].pc \in {"admitted", "holding", "marked"}
    /\ client' = [client EXCEPT ![c] = Idle]
    /\ UNCHANGED <<clockVars, rankVars, leaseVars, limiter, loader>>

-----------------------------------------------------------------------------
(* Writers of the candidate set.                                           *)

\* ZADD NX: existing members keep their score.
Add(healthy) ==
    /\ healthy # {}
    /\ set' = set \union healthy
    /\ weight' = [p \in Proxies |->
                     IF p \in healthy \ set THEN InitialWeight ELSE weight[p]]
    /\ UNCHANGED <<clockVars, leaseVars, streak, cooldown, limiter, client, loader>>

\* Replace reads the current members and remembers whose statistics to drop ...
ReplaceRead(healthy) ==
    /\ loader.pc = "idle"
    /\ loader' = [pc |-> "replace", healthy |-> healthy, removed |-> set \ healthy]
    /\ UNCHANGED <<clockVars, rankVars, leaseVars, limiter, client>>

\* ... and rewrites the set in one MULTI, which leaves leases and cooldown alone.
ReplaceExec ==
    /\ loader.pc = "replace"
    /\ set' = loader.healthy
    /\ weight' = [p \in Proxies |-> IF p \in loader.healthy THEN InitialWeight ELSE 0]
    /\ streak' = [p \in Proxies |-> IF p \in loader.removed THEN 0 ELSE streak[p]]
    /\ loader' = [pc |-> "idle", healthy |-> {}, removed |-> {}]
    /\ UNCHANGED <<clockVars, cooldown, leaseVars, limiter, client>>

Tick ==
    /\ sec < MaxSec
    /\ IF sub + 1 < SubTicks
       THEN sub' = sub + 1 /\ UNCHANGED sec
       ELSE sub' = 0 /\ sec' = sec + 1
    /\ UNCHANGED <<rankVars, leaseVars, limiter, client, loader>>

-----------------------------------------------------------------------------
ClientStep(c) ==
    \/ RateLimit(c)
    \/ \E p \in Proxies, t \in Tokens, h \in Holds : AcquireProxy(c, p, t, h)
    \/ AcquireNone(c)
    \/ MarkSuccess(c) \/ MarkFailure(c) \/ MarkLost(c)
    \/ Release(c) \/ Abandon(c)

Next ==
    \/ \E c \in Clients : ClientStep(c)
    \/ \E healthy \in SUBSET Proxies : Add(healthy) \/ ReplaceRead(healthy)
    \/ ReplaceExec
    \/ Tick

Spec == Init /\ [][Next]_vars

-----------------------------------------------------------------------------
(* Properties                                                              *)

ClientState == [pc : {"idle", "admitted", "holding", "marked"},
                token : Tokens \union {NoToken},
                url : Proxies \union {NoProxy}]

\* Every Redis structure of the pool holds what the scripts expect to read.
TypeOK ==
    /\ sec \in Nat /\ sub \in 0 .. SubTicks - 1
    /\ set \in SUBSET Proxies
    /\ weight \in [Proxies -> Int]
    /\ leased \in [Proxies -> Nat]
    /\ key \in [Tokens -> [url : Proxies \union {NoProxy}, sec : Nat, sub : 0 .. SubTicks - 1]]
    /\ streak \in [Proxies -> Nat]
    /\ cooldown \in SUBSET Proxies
    /\ limiter \in [n : Nat, sec : Nat, sub : 0 .. SubTicks - 1]
    /\ client \in [Clients -> ClientState]
    /\ \A c \in Clients : client[c].pc \in {"holding", "marked"} =>
                            client[c].url \in Proxies /\ client[c].token \in Tokens
    /\ loader \in [pc : {"idle", "replace"}, healthy : SUBSET Proxies, removed : SUBSET Proxies]

\* acquire.lua hands a proxy to one holder at a time: two lease keys that are both
\* unexpired never name the same proxy, although the script cleans up on whole
\* seconds while the keys expire on the fine clock.
LeaseExclusive ==
    \A t1, t2 \in Tokens : t1 # t2 /\ Live(t1) /\ Live(t2) => key[t1].url # key[t2].url

\* While a lease key is unexpired its proxy is marked in the leased ZSET until that
\* same second: no clean-up, late Release of an earlier holder, or Replace frees a
\* proxy under the client that still holds it.
LeaseTracked == \A t \in Tokens : Live(t) => leased[key[t].url] = key[t].sec

\* The converse: an entry that blocks its proxy beyond the current second is that of a
\* lease key that is still unexpired.
EntryBacked ==
    \A p \in Proxies : leased[p] > sec =>
        \E t \in Tokens : Live(t) /\ key[t].url = p /\ key[t].sec = leased[p]

\* An abandoned proxy comes back by itself: acquire.lua answers nil only if every proxy it
\* looked at is one that a client holds by an unexpired lease key, or one whose lease
\* expires within the second that is now.
RefusedOnlyWhileHeld ==
    [][\A c \in Clients : AcquireNone(c) =>
          \E C \in SUBSET set : TopRanked(C) /\ \A p \in C :
              leased[p] = sec \/ \E t \in Tokens : Live(t) /\ key[t].url = p]_vars

\* The lease invariant as one formula, with what makes it inductive: a lease key that
\* exists was written with an expiry of at least one second, so that 0 in the leased
\* ZSET always means "no entry".
LeaseInv ==
    /\ TypeOK
    /\ \A t \in Tokens : key[t].url # NoProxy => key[t].sec > 0
    /\ LeaseTracked
    /\ LeaseExclusive
    /\ EntryBacked

\* What the limiter's history rests on: the key expires within one window.
LimiterExpires ==
    limiter.n > 0 => limiter.sec < sec + Window \/ (limiter.sec = sec + Window /\ limiter.sub <= sub)

=============================================================================
