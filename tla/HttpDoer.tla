------------------------------ MODULE HttpDoer ------------------------------
(***************************************************************************)
(* httpdo.Doer: the attempt loop of Do over leased proxies with its direct *)
(* fallback, and the cache of HTTP clients the goroutines calling Do share *)
(* (the cycles of the discovery scheduler share one Doer).                 *)
(*                                                                         *)
(* The pool is external: an Acquire answers with a proxy nobody holds, or  *)
(* with one of its errors.  A key of the cache is a proxy or Direct; the   *)
(* cache maps it to the time of its last use.                              *)
(***************************************************************************)
EXTENDS Integers, FiniteSets, SequencesExt

CONSTANTS
    Callers,       \* goroutines calling Do
    Proxies,       \* proxy URLs
    Unsupported,   \* the proxies transport.For refuses
    Direct,        \* the key "__direct__"
    AllowDirect,
    MaxRetries,    \* proxied attempts of one Do
    MaxEntries,    \* maxCacheEntries, 100 in the code
    IdleAfter,     \* ten minutes
    MaxTime        \* bound: the clock

ASSUME ConstantsAssumption ==
    /\ Unsupported \subseteq Proxies /\ Direct \notin Proxies
    /\ AllowDirect \in BOOLEAN
    /\ MaxRetries \in Nat \ {0} /\ MaxEntries \in Nat \ {0}
    /\ IdleAfter \in Nat /\ MaxTime \in Nat

VARIABLES
    call,          \* per goroutine: position in Do, attempt, leased URL, last outcome, mark
                   \* of the lease and, as history, requests sent
    held,          \* the proxies the pool has leased to these goroutines
    transports,    \* cache: key -> lastUsed
    accessOrder,   \* cache: the proxies, the least recently used first
    stopped,       \* stopCh is closed
    now

vars == <<call, held, transports, accessOrder, stopped, now>>

Keys == Proxies \union {Direct}

IsPermanent(code) == code \in {400, 401, 403, 404, 410}

\* What an answer of the target makes of an attempt.
OutcomeOf(code) ==
    CASE code < 400 -> "ok"
      [] code = 429 -> "limited"
      [] IsPermanent(code) -> "permanent"
      [] OTHER -> "status"

\* "fault" is a transport error isProxyFault recognises, "error" any other one.
Outcome == {"none", "ok", "permanent", "limited", "status", "fault", "error"}

PC == {"idle", "attempt", "client", "send", "release", "decide", "direct", "reply", "backoff"}

Idle == [pc |-> "idle", attempt |-> 0, url |-> Direct, outcome |-> "none", mark |-> "none", sent |-> 0]

CallState == [pc : PC, attempt : 0..MaxRetries + 1, url : Keys, outcome : Outcome,
              mark : {"none", "success", "failure"}, sent : Nat]

TypeOK ==
    /\ call \in [Callers -> CallState]
    /\ held \in SUBSET Proxies
    /\ DOMAIN transports \subseteq Keys
    /\ \A k \in DOMAIN transports : transports[k] \in 0..MaxTime
    /\ accessOrder \in Seq(Proxies)
    /\ stopped \in BOOLEAN /\ now \in 0..MaxTime

Init ==
    /\ call = [c \in Callers |-> Idle]
    /\ held = {}
    /\ transports = <<>>
    /\ accessOrder = <<>>
    /\ stopped = FALSE
    /\ now = 0

At(c, p) == call[c].pc = p
Goto(c, p) == call' = [call EXCEPT ![c].pc = p]
Ends(c, p, o) == call' = [call EXCEPT ![c].pc = p, ![c].outcome = o]
Return(c) == call' = [call EXCEPT ![c] = Idle]

-----------------------------------------------------------------------------
(* The cache; every operation runs under d.mu.                             *)

Put(cache, k) == [x \in DOMAIN cache \union {k} |-> IF x = k THEN now ELSE cache[x]]
Drop(cache, S) == [x \in DOMAIN cache \ S |-> cache[x]]

touchAccessOrder(key) ==
    Append(IF key \in ToSet(accessOrder)
           THEN RemoveAt(accessOrder, CHOOSE i \in DOMAIN accessOrder : accessOrder[i] = key)
           ELSE accessOrder, key)

\* At the limit the head of the order makes room for a new entry.
evicted ==
    IF Cardinality(DOMAIN transports) >= MaxEntries /\ accessOrder # <<>> THEN {Head(accessOrder)} ELSE {}

\* getClient for a leased proxy: a hit, a new client, or a URL no transport supports.
getClient(c) ==
    /\ At(c, "client")
    /\ LET url == call[c].url IN
        \/ /\ url \in DOMAIN transports
           /\ transports' = Put(transports, url)
           /\ accessOrder' = touchAccessOrder(url)
           /\ Goto(c, "send")
        \/ /\ url \notin DOMAIN transports /\ url \notin Unsupported
           /\ transports' = Put(Drop(transports, evicted), url)
           /\ accessOrder' = Append(IF evicted = {} THEN accessOrder ELSE Tail(accessOrder), url)
           /\ Goto(c, "send")
        \/ /\ url \notin DOMAIN transports /\ url \in Unsupported
           /\ call' = [call EXCEPT ![c].pc = "release", ![c].outcome = "error", ![c].mark = "failure"]
           /\ UNCHANGED <<transports, accessOrder>>
    /\ UNCHANGED <<held, stopped, now>>

\* The loop that rebuilds the order: the keys of S, each where it was.
Retain(order, S) ==
    LET kept[i \in 0 .. Len(order)] ==
            IF i = 0 THEN <<>>
            ELSE IF order[i] \in S THEN Append(kept[i - 1], order[i]) ELSE kept[i - 1]
    IN  kept[Len(order)]

\* Mutant of evictIdleEntries: the order is not rebuilt.
evictIdleEntriesKeepsOrder ==
    /\ ~stopped
    /\ transports' = Drop(transports, {k \in DOMAIN transports : now - transports[k] > IdleAfter})
    /\ UNCHANGED <<call, held, accessOrder, stopped, now>>

\* A tick of cleanupLoop.
evictIdleEntries ==
    /\ ~stopped
    /\ transports' = Drop(transports, {k \in DOMAIN transports : now - transports[k] > IdleAfter})
    /\ accessOrder' = Retain(accessOrder, DOMAIN transports')
    /\ UNCHANGED <<call, held, stopped, now>>

Close ==
    /\ ~stopped
    /\ stopped' = TRUE
    /\ transports' = <<>>
    /\ accessOrder' = <<>>
    /\ UNCHANGED <<call, held, now>>

-----------------------------------------------------------------------------
(* Do and doWithLease.                                                     *)

Start(c) ==
    /\ At(c, "idle")
    /\ call' = [call EXCEPT ![c] = [Idle EXCEPT !.pc = "attempt", !.attempt = 1]]
    /\ UNCHANGED <<held, transports, accessOrder, stopped, now>>

\* The pool leases a proxy.
Acquire(c, p) ==
    /\ At(c, "attempt")
    /\ p \notin held
    /\ held' = held \union {p}
    /\ call' = [call EXCEPT ![c].pc = "client", ![c].url = p, ![c].mark = "none"]
    /\ UNCHANGED <<transports, accessOrder, stopped, now>>

\* The pool answers ErrNoProxy, ErrRateLimited or another error.
AcquireFails(c) ==
    /\ At(c, "attempt")
    /\ \/ IF AllowDirect THEN Goto(c, "direct") ELSE Ends(c, "decide", "error")
       \/ Ends(c, "decide", "limited")
       \/ Ends(c, "decide", "error")
    /\ UNCHANGED <<held, transports, accessOrder, stopped, now>>

\* client.Do answers with o; the body is read and the lease marked before it is released.
Send(c, o) ==
    /\ At(c, "send")
    /\ call' = [call EXCEPT ![c].pc = "release", ![c].outcome = o,
                            ![c].mark = IF o = "ok" THEN "success" ELSE "failure",
                            ![c].sent = @ + 1]
    /\ UNCHANGED <<held, transports, accessOrder, stopped, now>>

\* Mutant of Release: a lease whose use failed is not given back.
ReleaseOnSuccess(c) ==
    /\ At(c, "release")
    /\ held' = IF call[c].outcome = "ok" THEN held \ {call[c].url} ELSE held
    /\ call' = [call EXCEPT ![c].pc = "decide", ![c].url = Direct, ![c].mark = "none"]
    /\ UNCHANGED <<transports, accessOrder, stopped, now>>

\* The deferred Release.
Release(c) ==
    /\ At(c, "release")
    /\ held' = held \ {call[c].url}
    /\ call' = [call EXCEPT ![c].pc = "decide", ![c].url = Direct, ![c].mark = "none"]
    /\ UNCHANGED <<transports, accessOrder, stopped, now>>

\* doDirect: the entry of the cache under d.mu, then the request.
doDirect(c) ==
    /\ At(c, "direct")
    /\ transports' = Put(transports, Direct)
    /\ call' = [call EXCEPT ![c].pc = "reply", ![c].sent = @ + 1]
    /\ UNCHANGED <<held, accessOrder, stopped, now>>

\* A direct answer is returned whatever its status is.
DirectReply(c, o) ==
    /\ At(c, "reply")
    /\ IF call[c].attempt > MaxRetries \/ o = "ok" THEN Return(c) ELSE Ends(c, "decide", o)
    /\ UNCHANGED <<held, transports, accessOrder, stopped, now>>

\* The next attempt, or what follows the loop.
NextAttempt(c) ==
    LET n == call[c].attempt + 1 IN
    IF n <= MaxRetries \/ AllowDirect
    THEN call' = [call EXCEPT ![c].attempt = n, ![c].pc = IF n <= MaxRetries THEN "attempt" ELSE "direct"]
    ELSE Return(c)

\* What Do makes of an attempt; the last disjunct is a context that is cancelled.
Decide(c) ==
    /\ At(c, "decide")
    /\ \/ call[c].outcome \in {"ok", "permanent", "limited"} /\ Return(c)
       \/ call[c].outcome = "fault" /\ NextAttempt(c)
       \/ call[c].outcome \in {"status", "error"} /\ Goto(c, "backoff")
       \/ Return(c)
    /\ UNCHANGED <<held, transports, accessOrder, stopped, now>>

\* Mutant of Backoff: the loop runs again without counting the attempt.
BackoffUncounted(c) ==
    /\ At(c, "backoff")
    /\ \/ Goto(c, "attempt")
       \/ Return(c)
    /\ UNCHANGED <<held, transports, accessOrder, stopped, now>>

\* The pause ends, or the context does.
Backoff(c) ==
    /\ At(c, "backoff")
    /\ \/ NextAttempt(c)
       \/ Return(c)
    /\ UNCHANGED <<held, transports, accessOrder, stopped, now>>

Tick ==
    /\ now < MaxTime                                       \* bound
    /\ now' = now + 1
    /\ UNCHANGED <<call, held, transports, accessOrder, stopped>>

-----------------------------------------------------------------------------
CallerStep(c) ==
    \/ \E p \in Proxies : Acquire(c, p)
    \/ AcquireFails(c) \/ getClient(c)
    \/ \E code \in {200, 404, 429, 503} : Send(c, OutcomeOf(code))
    \/ \E o \in {"fault", "error"} : Send(c, o)
    \/ Release(c) \/ Decide(c) \/ Backoff(c) \/ doDirect(c)
    \/ \E o \in {"ok", "error"} : DirectReply(c, o)

Next ==
    \/ \E c \in Callers : Start(c) \/ CallerStep(c)
    \/ evictIdleEntries \/ Close \/ Tick

Spec == Init /\ [][Next]_vars

-----------------------------------------------------------------------------
(* Properties.                                                             *)

\* The order lists the cached proxies, each once: an entry missing from it is
\* never evicted at the limit, a stale name in it makes an eviction free nothing.
OrderMatchesCache ==
    /\ ToSet(accessOrder) = DOMAIN transports \ {Direct}
    /\ IsInjective(accessOrder)

\* The cache holds at most maxCacheEntries proxies; only the direct entry, which
\* doDirect adds without looking at the limit, may come on top.
CacheBounded ==
    /\ Cardinality(DOMAIN transports \ {Direct}) <= MaxEntries
    /\ Cardinality(DOMAIN transports) <= MaxEntries + 1

\* Whatever an attempt ended with, its lease is marked and goes back: what is held is
\* what a goroutine between Acquire and its deferred Release holds, each proxy for one.
LeaseReturned ==
    LET Holders == {c \in Callers : call[c].pc \in {"client", "send", "release"}} IN
    /\ held = {call[c].url : c \in Holders}
    /\ \A c, d \in Holders : c # d => call[c].url # call[d].url
    /\ \A c \in Callers : At(c, "release") => call[c].mark # "none"

\* One Do sends at most MaxRetries requests, and one more when it may go direct.
AttemptsBounded ==
    \A c \in Callers : call[c].sent <= MaxRetries + (IF AllowDirect THEN 1 ELSE 0)

\* The cache agrees with its order and stays within its limit, whatever goroutines,
\* idle eviction and Close do to it between getting a client and using it.
CacheInv == TypeOK /\ OrderMatchesCache /\ CacheBounded

\* What makes AttemptsBounded inductive: every attempt sends at most one request, and
\* only the direct fallback goes beyond MaxRetries.
AttemptsCounted ==
    \A c \in Callers :
        /\ call[c].sent <= call[c].attempt - (IF call[c].pc \in {"attempt", "client", "send", "direct"}
                                             THEN 1 ELSE 0)
        /\ call[c].attempt > MaxRetries => AllowDirect /\ call[c].pc \in {"direct", "reply"}

DoerInv == CacheInv /\ IsFiniteSet(DOMAIN transports) /\ LeaseReturned /\ AttemptsCounted

=============================================================================
