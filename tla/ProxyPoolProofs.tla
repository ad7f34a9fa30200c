--------------------------- MODULE ProxyPoolProofs ---------------------------
(***************************************************************************)
(* Proofs about ProxyPool: for any proxies, clients, tokens, holds and     *)
(* clock resolution, the pool's Redis structures keep their types and a    *)
(* proxy is never leased twice at the same time.  Then about what the      *)
(* scripts promise over time, by the histories of ProxyHistory, and about   *)
(* ProxyLoader, which fills the pool.                                      *)
(***************************************************************************)
EXTENDS ProxyHistory, MCProxyLoader, Sequences, FiniteSetTheorems, WellFoundedInduction, TLAPS

(***************************************************************************)
(* The seconds Acquire gives to the script are a positive number, whatever *)
(* the requested duration (pool.go clamps it).                             *)
(***************************************************************************)
LEMMA TtlPositive == ASSUME NEW h \in Holds PROVE TtlSec(h) \in Nat \ {0}
<1>1. h \in Nat /\ SubTicks \in Nat \ {0} /\ DefaultTtl \in Nat \ {0}
  BY ConstantsAssumption
<1>2. h \div SubTicks \in Int
  BY <1>1
<1>. QED BY <1>1, <1>2 DEF TtlSec

(***************************************************************************)
(* CleanExpired only ever removes entries.                                 *)
(***************************************************************************)
LEMMA CleanExpiredType ==
  ASSUME NEW l \in [Proxies -> Nat], sec \in Nat
  PROVE  /\ CleanExpired(l) \in [Proxies -> Nat]
         /\ \A p \in Proxies : CleanExpired(l)[p] \in {0, l[p]}
         /\ \A p \in Proxies : l[p] >= sec => CleanExpired(l)[p] = l[p]
BY DEF CleanExpired

LEMMA TypeInit == Init => TypeOK
BY ConstantsAssumption DEF Init, TypeOK, NoKey, Idle, ClientState

LEMMA TypeStep == TypeOK /\ [Next]_vars => TypeOK'
<1> SUFFICES ASSUME TypeOK, [Next]_vars PROVE TypeOK'
  OBVIOUS
<1> USE ConstantsAssumption DEF TypeOK, ClientState, clockVars, rankVars, leaseVars
<1>1. ASSUME NEW c \in Clients, RateLimit(c) PROVE TypeOK'
  <2>1. limiter' \in [n : Nat, sec : Nat, sub : 0 .. SubTicks - 1]
    BY <1>1 DEF RateLimit, LimiterCount
  <2>2. /\ client' \in [Clients -> ClientState]
        /\ \A d \in Clients : client'[d].pc \in {"holding", "marked"} =>
                                client'[d].url \in Proxies /\ client'[d].token \in Tokens
    <3>1. client' = client \/ client' = [client EXCEPT ![c].pc = "admitted"]
      BY <1>1 DEF RateLimit
    <3>2. CASE client' = client
      BY <3>2
    <3>3. CASE client' = [client EXCEPT ![c].pc = "admitted"]
      BY <3>3
    <3>. QED BY <3>1, <3>2, <3>3
  <2>. QED BY <1>1, <2>1, <2>2 DEF RateLimit
<1>2. ASSUME NEW c \in Clients, NEW p \in Proxies, NEW t \in Tokens, NEW h \in Holds,
             AcquireProxy(c, p, t, h)
      PROVE TypeOK'
  <2>1. leased' \in [Proxies -> Nat]
    BY <1>2, TtlPositive, CleanExpiredType DEF AcquireProxy
  <2>2. key' \in [Tokens -> [url : Proxies \union {NoProxy}, sec : Nat, sub : 0 .. SubTicks - 1]]
    BY <1>2, TtlPositive DEF AcquireProxy
  <2>3. /\ client' \in [Clients -> ClientState]
        /\ \A d \in Clients : client'[d].pc \in {"holding", "marked"} =>
                                client'[d].url \in Proxies /\ client'[d].token \in Tokens
    BY <1>2 DEF AcquireProxy
  <2>. QED BY <1>2, <2>1, <2>2, <2>3 DEF AcquireProxy
<1>3. ASSUME NEW c \in Clients, AcquireNone(c) PROVE TypeOK'
  BY <1>3, CleanExpiredType DEF AcquireNone, Idle
<1>4. ASSUME NEW c \in Clients, MarkSuccess(c) PROVE TypeOK'
  BY <1>4 DEF MarkSuccess, Reweigh
<1>5. ASSUME NEW c \in Clients, MarkFailure(c) PROVE TypeOK'
  BY <1>5 DEF MarkFailure, Reweigh
<1>6. ASSUME NEW c \in Clients, MarkLost(c) PROVE TypeOK'
  BY <1>6 DEF MarkLost
<1>7. ASSUME NEW c \in Clients, Release(c) PROVE TypeOK'
  BY <1>7 DEF Release, Live, Idle, NoKey
<1>8. ASSUME NEW c \in Clients, Abandon(c) PROVE TypeOK'
  BY <1>8 DEF Abandon, Idle
<1>9. ASSUME NEW good \in SUBSET Proxies, Add(good) PROVE TypeOK'
  BY <1>9 DEF Add
<1>10. ASSUME NEW good \in SUBSET Proxies, ReplaceRead(good) PROVE TypeOK'
  BY <1>10 DEF ReplaceRead
<1>11. ASSUME ReplaceExec PROVE TypeOK'
  BY <1>11 DEF ReplaceExec
<1>12. ASSUME Tick PROVE TypeOK'
  BY <1>12 DEF Tick
<1>13. ASSUME UNCHANGED vars PROVE TypeOK'
  BY <1>13 DEF vars
<1>. QED
  BY <1>1, <1>2, <1>3, <1>4, <1>5, <1>6, <1>7, <1>8, <1>9, <1>10, <1>11, <1>12, <1>13
     DEF Next, ClientStep

(***************************************************************************)
(* Type correctness: every reachable state of the pool is one the scripts  *)
(* and the clients are written for.                                        *)
(***************************************************************************)
THEOREM TypeCorrect == Spec => []TypeOK
BY TypeInit, TypeStep, PTL DEF Spec

-----------------------------------------------------------------------------
(***************************************************************************)
(* The lease invariant.  Each action either leaves the clock and the lease *)
(* structures alone or is one of AcquireProxy, AcquireNone, Release, Tick. *)
(***************************************************************************)
LEMMA LeaseInit == Init => LeaseInv
<1> SUFFICES ASSUME Init PROVE LeaseInv
  OBVIOUS
<1>1. \A t \in Tokens : key[t].url = NoProxy
  BY DEF Init, NoKey
<1>2. \A p \in Proxies : leased[p] = 0
  BY DEF Init
<1>3. EntryBacked
  BY <1>2, TypeInit DEF EntryBacked, TypeOK
<1>. QED BY <1>1, <1>3, TypeInit DEF LeaseInv, LeaseTracked, LeaseExclusive, Live

\* A step that touches neither the clock nor the leases keeps the lease invariant.
LEMMA LeaseStutter ==
  ASSUME LeaseInv, TypeOK', UNCHANGED <<sec, sub, leased, key>>
  PROVE  LeaseInv'
BY DEF LeaseInv, LeaseTracked, LeaseExclusive, EntryBacked, Live, Unexpired

\* The heart of the argument: a proxy that acquire.lua finds unleased after its
\* clean-up carries no unexpired lease key, because the clean-up keeps every entry
\* whose expiry second is the current one or later.
LEMMA FreeHasNoLiveKey ==
  ASSUME LeaseInv, NEW p \in Proxies, CleanExpired(leased)[p] = 0, NEW t \in Tokens, Live(t)
  PROVE  key[t].url # p
<1> SUFFICES ASSUME key[t].url = p PROVE FALSE
  OBVIOUS
<1>1. leased[p] = key[t].sec /\ key[t].sec > 0
  BY ConstantsAssumption DEF LeaseInv, LeaseTracked
<1>2. key[t].sec >= sec
  BY DEF Live, Unexpired, LeaseInv, TypeOK
<1>3. CleanExpired(leased)[p] = leased[p]
  BY <1>1, <1>2, CleanExpiredType DEF LeaseInv, TypeOK
<1>. QED BY <1>1, <1>3 DEF LeaseInv, TypeOK

\* The clean-up of acquire.lua never removes the entry of an unexpired lease.
LEMMA CleanKeepsTracked ==
  ASSUME LeaseInv, NEW t \in Tokens, Live(t)
  PROVE  CleanExpired(leased)[key[t].url] = key[t].sec
<1>1. key[t].url \in Proxies /\ leased[key[t].url] = key[t].sec
  BY DEF LeaseInv, TypeOK, LeaseTracked, Live
<1>2. key[t].sec >= sec
  BY DEF Live, Unexpired, LeaseInv, TypeOK
<1>. QED BY <1>1, <1>2, CleanExpiredType DEF LeaseInv, TypeOK

LEMMA LeaseStep == LeaseInv /\ [Next]_vars => LeaseInv'
<1> SUFFICES ASSUME LeaseInv, [Next]_vars PROVE LeaseInv'
  OBVIOUS
<1>0. TypeOK /\ TypeOK'
  BY TypeStep DEF LeaseInv
<1>1. ASSUME NEW c \in Clients, NEW p \in Proxies, NEW t \in Tokens, NEW h \in Holds,
             AcquireProxy(c, p, t, h)
      PROVE LeaseInv'
  <2> DEFINE ttl == TtlSec(h)
  <2>1. ttl \in Nat \ {0}
    BY TtlPositive
  <2> HIDE DEF ttl
  <2>2. /\ key' = [key EXCEPT ![t] = [url |-> p, sec |-> sec + ttl, sub |-> sub]]
        /\ leased' = [CleanExpired(leased) EXCEPT ![p] = sec + ttl]
        /\ CleanExpired(leased)[p] = 0
        /\ UNCHANGED <<sec, sub>>
    BY <1>1 DEF AcquireProxy, clockVars, ttl
  <2>3. CleanExpired(leased) \in [Proxies -> Nat]
    BY <1>0, CleanExpiredType DEF TypeOK
  <2>4. key'[t].url = p /\ key'[t].sec = sec + ttl /\ leased'[p] = sec + ttl
    BY <1>0, <2>2, <2>3 DEF TypeOK
  <2>5. ASSUME NEW u \in Tokens, u # t, Live(u)'
        PROVE  Live(u) /\ key'[u] = key[u] /\ key[u].url # p
                 /\ leased'[key[u].url] = key[u].sec
    <3>1. key'[u] = key[u] /\ Live(u)
      BY <1>0, <2>2, <2>5 DEF TypeOK, Live, Unexpired
    <3>2. key[u].url # p
      BY <2>2, <3>1, FreeHasNoLiveKey
    <3>3. CleanExpired(leased)[key[u].url] = key[u].sec /\ key[u].url \in Proxies
      BY <1>0, <3>1, CleanKeepsTracked DEF TypeOK, Live
    <3>. QED BY <2>2, <2>3, <3>1, <3>2, <3>3
  <2>6. (\A u \in Tokens : key[u].url # NoProxy => key[u].sec > 0)'
    BY <1>0, <2>1, <2>2 DEF LeaseInv, TypeOK
  <2>7. LeaseTracked'
    BY <2>4, <2>5 DEF LeaseTracked
  <2>8. LeaseExclusive'
    <3> SUFFICES ASSUME NEW t1 \in Tokens, NEW t2 \in Tokens, t1 # t2, Live(t1)', Live(t2)'
                 PROVE  key'[t1].url # key'[t2].url
      BY DEF LeaseExclusive
    <3>1. CASE t1 = t
      BY <2>4, <2>5, <3>1
    <3>2. CASE t2 = t
      BY <2>4, <2>5, <3>2
    <3>3. CASE t1 # t /\ t2 # t
      BY <2>5, <3>3 DEF LeaseInv, LeaseExclusive
    <3>. QED BY <3>1, <3>2, <3>3
  <2>9. EntryBacked'
    <3> SUFFICES ASSUME NEW q \in Proxies, leased'[q] > sec
                 PROVE  \E u \in Tokens : Live(u)' /\ key'[u].url = q /\ key'[u].sec = leased'[q]
      BY <2>2 DEF EntryBacked
    <3>1. CASE q = p
      <4>1. Live(t)'
        BY <1>0, <2>1, <2>2, <2>4, ConstantsAssumption DEF Live, Unexpired, TypeOK
      <4>. QED BY <2>4, <3>1, <4>1
    <3>2. CASE q # p
      <4>1. leased'[q] = leased[q] /\ leased[q] > sec
        BY <1>0, <2>2, <2>3, <3>2, CleanExpiredType DEF TypeOK
      <4>2. PICK u \in Tokens : Live(u) /\ key[u].url = q /\ key[u].sec = leased[q]
        BY <4>1 DEF LeaseInv, EntryBacked
      <4>3. u # t
        BY <1>1, <4>2 DEF AcquireProxy, FreshTokens
      <4>4. key'[u] = key[u] /\ Live(u)'
        BY <1>0, <2>2, <4>2, <4>3 DEF TypeOK, Live, Unexpired
      <4>. QED BY <4>1, <4>2, <4>4
    <3>. QED BY <3>1, <3>2
  <2>. QED BY <1>0, <2>6, <2>7, <2>8, <2>9 DEF LeaseInv
<1>2. ASSUME NEW c \in Clients, AcquireNone(c) PROVE LeaseInv'
  <2>1. leased' = CleanExpired(leased) /\ UNCHANGED <<sec, sub, key>>
    BY <1>2 DEF AcquireNone, clockVars
  <2>2. \A t \in Tokens : Live(t)' <=> Live(t)
    BY <2>1 DEF Live, Unexpired
  <2>3. LeaseTracked'
    BY <2>1, <2>2, CleanKeepsTracked DEF LeaseTracked
  <2>4. LeaseExclusive'
    BY <2>1, <2>2 DEF LeaseInv, LeaseExclusive
  <2>5. \A p \in Proxies : leased'[p] > 0 => leased'[p] = leased[p]
    BY <1>0, <2>1, CleanExpiredType DEF TypeOK
  <2>6. EntryBacked'
    BY <1>0, <2>1, <2>2, <2>5 DEF LeaseInv, EntryBacked, TypeOK
  <2>. QED BY <1>0, <2>1, <2>3, <2>4, <2>6 DEF LeaseInv
<1>3. ASSUME NEW c \in Clients, Release(c) PROVE LeaseInv'
  <2> DEFINE t == client[c].token
  <2>1. CASE ~Live(t)
    <3>1. UNCHANGED <<sec, sub, leased, key>>
      BY <1>3, <2>1 DEF Release, clockVars, leaseVars
    <3>. QED BY <1>0, <3>1, LeaseStutter
  <2>2. CASE Live(t) /\ t \in Tokens
    <3>1. /\ leased' = [leased EXCEPT ![key[t].url] = 0]
          /\ key' = [key EXCEPT ![t] = NoKey]
          /\ UNCHANGED <<sec, sub>>
      BY <1>3, <2>2 DEF Release, clockVars
    <3>2. key[t].url \in Proxies /\ key'[t].url = NoProxy
      BY <1>0, <2>2, <3>1 DEF TypeOK, Live, NoKey
    <3> HIDE DEF t
    <3>3. ASSUME NEW u \in Tokens, Live(u)'
          PROVE  Live(u) /\ key'[u] = key[u] /\ u # t
      BY <1>0, <2>2, <3>1, <3>2, <3>3 DEF TypeOK, Live, Unexpired
    <3>4. LeaseTracked'
      <4> SUFFICES ASSUME NEW u \in Tokens, Live(u)' PROVE leased'[key'[u].url] = key'[u].sec
        BY DEF LeaseTracked
      <4>1. key[u].url # key[t].url /\ key[u].url \in Proxies
        BY <1>0, <2>2, <3>3 DEF LeaseInv, LeaseExclusive, TypeOK, Live
      <4>. QED BY <1>0, <3>1, <3>3, <4>1 DEF LeaseInv, LeaseTracked, TypeOK
    <3>5. LeaseExclusive'
      BY <3>3 DEF LeaseInv, LeaseExclusive
    <3>6. EntryBacked'
      <4> SUFFICES ASSUME NEW q \in Proxies, leased'[q] > sec
                   PROVE  \E u \in Tokens : Live(u)' /\ key'[u].url = q /\ key'[u].sec = leased'[q]
        BY <3>1 DEF EntryBacked
      <4>1. q # key[t].url /\ leased'[q] = leased[q]
        BY <1>0, <3>1, <3>2 DEF TypeOK
      <4>2. PICK u \in Tokens : Live(u) /\ key[u].url = q /\ key[u].sec = leased[q]
        BY <4>1 DEF LeaseInv, EntryBacked
      <4>3. u # t
        BY <4>1, <4>2
      <4>4. key'[u] = key[u] /\ Live(u)'
        BY <1>0, <3>1, <4>2, <4>3 DEF TypeOK, Live, Unexpired
      <4>. QED BY <4>1, <4>2, <4>4
    <3>7. (\A u \in Tokens : key[u].url # NoProxy => key[u].sec > 0)'
      BY <1>0, <3>1, <3>2 DEF LeaseInv, TypeOK
    <3>. QED BY <1>0, <3>4, <3>5, <3>6, <3>7 DEF LeaseInv
  <2>3. t \in Tokens
    BY <1>0, <1>3 DEF Release, TypeOK
  <2>. QED BY <2>1, <2>2, <2>3
<1>4. ASSUME Tick PROVE LeaseInv'
  <2>1. UNCHANGED <<leased, key>> /\ sec' >= sec
    BY <1>0, <1>4 DEF Tick, leaseVars, TypeOK
  <2>2. ASSUME NEW t \in Tokens, Live(t)' PROVE Live(t)
    BY <1>0, <1>4, <2>1, <2>2, ConstantsAssumption DEF Tick, Live, Unexpired, TypeOK
  <2>3. LeaseTracked' /\ LeaseExclusive'
    BY <2>1, <2>2 DEF LeaseInv, LeaseTracked, LeaseExclusive
  <2>4. EntryBacked'
    <3> SUFFICES ASSUME NEW p \in Proxies, leased[p] > sec'
                 PROVE  \E t \in Tokens : Live(t)' /\ key[t].url = p /\ key[t].sec = leased[p]
      BY <2>1 DEF EntryBacked
    <3>1. sec \in Nat /\ sec' \in Nat /\ leased[p] \in Nat /\ leased[p] > sec
      BY <1>0, <2>1 DEF TypeOK
    <3>2. PICK t \in Tokens : Live(t) /\ key[t].url = p /\ key[t].sec = leased[p]
      BY <3>1 DEF LeaseInv, EntryBacked
    <3>3. Live(t)'
      BY <2>1, <3>1, <3>2 DEF Live, Unexpired
    <3>. QED BY <3>2, <3>3
  <2>. QED BY <1>0, <2>1, <2>3, <2>4 DEF LeaseInv
<1>5. ASSUME UNCHANGED <<sec, sub, leased, key>> PROVE LeaseInv'
  BY <1>0, <1>5, LeaseStutter
<1>6. ASSUME NEW c \in Clients,
             RateLimit(c) \/ MarkSuccess(c) \/ MarkFailure(c) \/ MarkLost(c) \/ Abandon(c)
      PROVE  UNCHANGED <<sec, sub, leased, key>>
  BY <1>6 DEF RateLimit, MarkSuccess, MarkFailure, MarkLost, Abandon, clockVars, leaseVars
<1>7. ASSUME NEW good \in SUBSET Proxies, Add(good) \/ ReplaceRead(good)
      PROVE  UNCHANGED <<sec, sub, leased, key>>
  BY <1>7 DEF Add, ReplaceRead, clockVars, leaseVars
<1>8. ASSUME ReplaceExec \/ UNCHANGED vars PROVE UNCHANGED <<sec, sub, leased, key>>
  BY <1>8 DEF ReplaceExec, clockVars, leaseVars, vars
<1>. QED
  BY <1>1, <1>2, <1>3, <1>4, <1>5, <1>6, <1>7, <1>8 DEF Next, ClientStep

(***************************************************************************)
(* The lease invariant holds in every reachable state.                     *)
(***************************************************************************)
THEOREM LeaseInvariant == Spec => []LeaseInv
BY LeaseInit, LeaseStep, PTL DEF Spec

(***************************************************************************)
(* acquire.lua never hands out a proxy that another unexpired lease still  *)
(* names, for every hold, every clock resolution and any number of clients.*)
(***************************************************************************)
THEOREM Exclusivity == Spec => []LeaseExclusive
<1>1. LeaseInv => LeaseExclusive
  BY DEF LeaseInv
<1>. QED BY <1>1, LeaseInvariant, PTL

(***************************************************************************)
(* An unexpired lease is always backed by its entry in the leased ZSET: no *)
(* late Release, clean-up or Replace takes it away.                        *)
(***************************************************************************)
THEOREM Tracking == Spec => []LeaseTracked
<1>1. LeaseInv => LeaseTracked
  BY DEF LeaseInv
<1>. QED BY <1>1, LeaseInvariant, PTL

(***************************************************************************)
(* A proxy whose client never gave it back is refused by acquire.lua no    *)
(* longer than its lease key lives, rounded up to a whole second: nil is   *)
(* the answer only if every proxy looked at is held by an unexpired key or *)
(* was so earlier in the same second.                                      *)
(***************************************************************************)
THEOREM AbandonedReturns == Spec => RefusedOnlyWhileHeld
<1>1. LeaseInv => \A c \in Clients : AcquireNone(c) =>
                    \E C \in SUBSET set : TopRanked(C) /\ \A p \in C :
                        leased[p] = sec \/ \E t \in Tokens : Live(t) /\ key[t].url = p
  <2> SUFFICES ASSUME LeaseInv, NEW c \in Clients, AcquireNone(c)
               PROVE  \E C \in SUBSET set : TopRanked(C) /\ \A p \in C :
                        leased[p] = sec \/ \E t \in Tokens : Live(t) /\ key[t].url = p
    OBVIOUS
  <2>1. PICK C \in SUBSET set : TopRanked(C) /\ \A p \in C : CleanExpired(leased)[p] # 0
    BY DEF AcquireNone
  <2>2. ASSUME NEW p \in C PROVE leased[p] = sec \/ \E t \in Tokens : Live(t) /\ key[t].url = p
    <3>1. p \in Proxies /\ sec \in Nat /\ leased \in [Proxies -> Nat]
      BY DEF LeaseInv, TypeOK
    <3>2. leased[p] = sec \/ leased[p] > sec
      <4>1. leased[p] \in Nat /\ (leased[p] <= sec - 1 => CleanExpired(leased)[p] = 0)
        BY <3>1 DEF CleanExpired
      <4>2. CleanExpired(leased)[p] # 0
        BY <2>1
      <4>. QED BY <3>1, <4>1, <4>2
    <3>3. EntryBacked
      BY DEF LeaseInv
    <3>4. ASSUME leased[p] > sec PROVE \E t \in Tokens : Live(t) /\ key[t].url = p
      BY <3>1, <3>3, <3>4 DEF EntryBacked
    <3>. QED BY <3>2, <3>4
  <2>. QED BY <2>1, <2>2
<1>. QED BY <1>1, LeaseInvariant, PTL DEF RefusedOnlyWhileHeld, Spec

-----------------------------------------------------------------------------
(* The rate limiter.                                                       *)

LEMMA LimiterStep == TypeOK /\ LimiterExpires /\ [Next]_vars => LimiterExpires'
<1> SUFFICES ASSUME TypeOK, LimiterExpires, [Next]_vars PROVE LimiterExpires'
  OBVIOUS
<1>0. /\ sec \in Nat /\ sub \in 0 .. SubTicks - 1 /\ SubTicks \in Nat \ {0} /\ Window \in Nat \ {0}
      /\ limiter \in [n : Nat, sec : Nat, sub : 0 .. SubTicks - 1]
  BY ConstantsAssumption DEF TypeOK
<1>1. ASSUME NEW c \in Clients, RateLimit(c) PROVE LimiterExpires'
  <2>1. UNCHANGED <<sec, sub>>
    BY <1>1 DEF RateLimit, clockVars
  <2>2. CASE limiter' = limiter
    BY <2>1, <2>2 DEF LimiterExpires
  <2>3. CASE limiter' = [n |-> 1, sec |-> sec + Window, sub |-> sub]
    BY <1>0, <2>1, <2>3 DEF LimiterExpires
  <2>4. CASE LimiterCount # 0 /\ limiter' = [limiter EXCEPT !.n = LimiterCount + 1]
    <3>1. limiter.n > 0 /\ limiter'.sec = limiter.sec /\ limiter'.sub = limiter.sub
      BY <1>0, <2>4 DEF LimiterCount
    <3>. QED BY <2>1, <3>1 DEF LimiterExpires
  <2>. QED BY <1>1, <2>2, <2>3, <2>4 DEF RateLimit
<1>2. ASSUME Tick PROVE LimiterExpires'
  <2>1. limiter' = limiter
    BY <1>2 DEF Tick
  <2>2. CASE sub' = sub + 1 /\ sec' = sec
    BY <1>0, <2>1, <2>2 DEF LimiterExpires
  <2>3. CASE sub' = 0 /\ sec' = sec + 1
    BY <1>0, <2>1, <2>3 DEF LimiterExpires
  <2>. QED BY <1>2, <2>2, <2>3 DEF Tick
<1>3. ASSUME UNCHANGED <<clockVars, limiter>> PROVE LimiterExpires'
  BY <1>3 DEF LimiterExpires, clockVars
<1>4. CASE \E c \in Clients : ClientStep(c)
  BY <1>1, <1>3, <1>4 DEF ClientStep, AcquireProxy, AcquireNone, MarkSuccess, MarkFailure, MarkLost,
     Release, Abandon
<1>5. CASE \E good \in SUBSET Proxies : Add(good) \/ ReplaceRead(good)
  BY <1>3, <1>5 DEF Add, ReplaceRead
<1>6. CASE ReplaceExec
  BY <1>3, <1>6 DEF ReplaceExec
<1>7. CASE UNCHANGED vars
  BY <1>3, <1>7 DEF vars, clockVars
<1>. QED BY <1>2, <1>4, <1>5, <1>6, <1>7 DEF Next

LEMMA LimiterEmpties == Spec => []LimiterExpires
<1>1. Init => TypeOK /\ LimiterExpires
  BY TypeInit DEF Init, LimiterExpires
<1>2. TypeOK /\ LimiterExpires /\ [Next]_vars => (TypeOK /\ LimiterExpires)'
  BY TypeStep, LimiterStep
<1>. QED BY <1>1, <1>2, PTL DEF Spec

-----------------------------------------------------------------------------
(* Induction over the naturals, stated with a set instead of a predicate.  *)

LEMMA LeastNumber ==
  ASSUME NEW T \in SUBSET Nat, T # {}
  PROVE  \E x \in T : \A y \in T : x <= y
<1> DEFINE R == OpToRel(<, Nat)
<1>1. IsWellFoundedOn(R, Nat)
  BY NatLessThanWellFounded
<1>2. \A x, y \in Nat : <<x, y>> \in R <=> x < y
  BY DEF OpToRel
<1> HIDE DEF R
<1>3. PICK x \in T : \A y \in T : ~ (<<y, x>> \in R)
  BY <1>1, WFMin
<1>4. ASSUME NEW y \in T PROVE x <= y
  <2>1. ~ (<<y, x>> \in R)
    BY <1>3
  <2>2. x \in Nat /\ y \in Nat
    OBVIOUS
  <2>3. <<y, x>> \in R <=> y < x
    BY <1>2, <2>2, Zenon
  <2>4. ~ (y < x)
    BY <2>1, <2>3, Zenon
  <2>. QED BY <2>2, <2>4
<1>. QED BY <1>4

LEMMA SetInduction ==
  ASSUME NEW P \in SUBSET Nat, 0 \in P, \A n \in P : n + 1 \in P
  PROVE  P = Nat
<1> SUFFICES ASSUME NEW m \in Nat, m \notin P PROVE FALSE
  OBVIOUS
<1> DEFINE T == Nat \ P
<1>1. PICK x \in T : \A y \in T : x <= y
  <2> HIDE DEF T
  <2>1. T \in SUBSET Nat /\ T # {}
    BY DEF T
  <2>. QED BY <2>1, LeastNumber
<1>2. x # 0 /\ x - 1 \in Nat /\ x - 1 \notin T
  BY <1>1
<1>3. x - 1 \in P
  BY <1>2
<1>4. (x - 1) + 1 \in P
  BY <1>3
<1>. QED BY <1>1, <1>4

-----------------------------------------------------------------------------
(* The rate of admissions over any stretch of one window.                  *)

LEMMA InstantsPositive == Instants \in Nat \ {0}
BY ConstantsAssumption DEF Instants

LEMMA HorizonPositive ==
  /\ Horizon \in Nat \ {0} /\ Instants \in 1 .. Horizon
  /\ Horizon = Instants + 1
BY InstantsPositive DEF Horizon

\* Admissions adds up its argument instant by instant.
LEMMA AdmissionsAddUp ==
  ASSUME NEW f \in [1 .. Horizon -> Nat]
  PROVE  /\ Admissions(f)[0] = 0
         /\ \A m \in 1 .. Horizon : Admissions(f)[m] = Admissions(f)[m - 1] + f[m]
         /\ \A m \in 0 .. Horizon : Admissions(f)[m] \in Nat
<1> DEFINE n == Horizon
           Step(g, i) == IF i = 0 THEN 0 ELSE g[i - 1] + f[i]
           Is(g, m) == g = [i \in 0 .. m |-> Step(g, i)]
           total == CHOOSE g : Is(g, n)
<1>0. n \in Nat \ {0} /\ \A i \in 1 .. n : f[i] \in Nat
  BY HorizonPositive
<1> HIDE DEF n
<1>1. \E g : Is(g, n)
  <2> DEFINE P == {m \in Nat : \E g : Is(g, m)}
  <2>1. 0 \in P
    <3>1. Is([i \in 0 .. 0 |-> 0], 0)
      OBVIOUS
    <3>. QED BY <3>1
  <2>2. ASSUME NEW m \in P PROVE m + 1 \in P
    <3>1. PICK g : Is(g, m)
      BY <2>2
    <3> DEFINE h == [i \in 0 .. m + 1 |-> IF i <= m THEN g[i] ELSE Step(g, m + 1)]
    <3>2. ASSUME NEW i \in 0 .. m + 1 PROVE h[i] = Step(h, i)
      <4>1. CASE i = 0
        BY <3>1, <4>1
      <4>2. CASE i # 0 /\ i <= m
        <5>1. i \in 0 .. m /\ i - 1 \in 0 .. m
          BY <2>2, <4>2
        <5>2. g[i] = Step(g, i)
          BY <3>1, <5>1
        <5>3. h[i] = g[i] /\ h[i - 1] = g[i - 1]
          BY <4>2, <5>1
        <5>. QED BY <4>2, <5>2, <5>3
      <4>3. CASE i = m + 1
        <5>1. h[i] = Step(g, i) /\ h[i - 1] = g[i - 1]
          BY <4>3
        <5>. QED BY <4>3, <5>1
      <4>. QED BY <4>1, <4>2, <4>3
    <3>3. Is(h, m + 1)
      <4>1. h = [i \in 0 .. m + 1 |-> h[i]]
        OBVIOUS
      <4> HIDE DEF h, Step
      <4>. QED BY <3>2, <4>1
    <3>4. m + 1 \in Nat
      BY <2>2
    <3> HIDE DEF h, Is
    <3>. QED BY <3>3, <3>4
  <2>3. P = Nat
    <3> HIDE DEF P
    <3>1. P \in SUBSET Nat
      BY DEF P
    <3>. QED BY <2>1, <2>2, <3>1, SetInduction
  <2>. QED BY <1>0, <2>3
<1>2. Is(total, n)
  BY <1>1
<1>3. Admissions(f) = total
  BY DEF Admissions, n
<1> HIDE DEF total
<1>4. total[0] = 0 /\ \A i \in 1 .. n : total[i] = total[i - 1] + f[i]
  <2>1. \A i \in 0 .. n : total[i] = Step(total, i)
    <3> HIDE DEF Step
    <3>. QED BY <1>2
  <2>. QED BY <1>0, <2>1
<1>5. \A m \in 0 .. n : total[m] \in Nat
  <2> DEFINE Q == {m \in Nat : m <= n => total[m] \in Nat}
  <2>1. 0 \in Q
    BY <1>4
  <2>2. ASSUME NEW m \in Q PROVE m + 1 \in Q
    <3>1. ASSUME m + 1 <= n PROVE total[m + 1] \in Nat
      <4>1. m \in Nat /\ total[m] \in Nat /\ m + 1 \in 1 .. n
        BY <1>0, <2>2, <3>1
      <4>2. total[m + 1] = total[m] + f[m + 1]
        BY <1>4, <4>1
      <4>. QED BY <1>0, <4>1, <4>2
    <3>. QED BY <2>2, <3>1
  <2>3. Q = Nat
    <3> HIDE DEF Q
    <3>1. Q \in SUBSET Nat
      BY DEF Q
    <3>. QED BY <2>1, <2>2, <3>1, SetInduction
  <2>. QED BY <1>0, <2>3
<1>. QED BY <1>3, <1>4, <1>5 DEF n

\* One more set of acquisitions at the current instant counts in every sum.
LEMMA AdmissionsNow ==
  ASSUME NEW f \in [1 .. Horizon -> Nat], NEW c \in Nat
  PROVE  LET g == [f EXCEPT ![1] = @ + c]
         IN  /\ g \in [1 .. Horizon -> Nat]
             /\ \A m \in 1 .. Horizon : Admissions(g)[m] = Admissions(f)[m] + c
<1> DEFINE g == [f EXCEPT ![1] = @ + c]
           n == Horizon
           P == {m \in Nat : m + 1 <= n => Admissions(g)[m + 1] = Admissions(f)[m + 1] + c}
<1>0. n \in Nat \ {0}
  BY HorizonPositive
<1>1. g \in [1 .. n -> Nat] /\ g[1] = f[1] + c /\ \A i \in 1 .. n : i # 1 => g[i] = f[i]
  BY <1>0
<1>2. /\ Admissions(f)[0] = 0 /\ Admissions(g)[0] = 0
      /\ \A m \in 1 .. n : /\ Admissions(f)[m] = Admissions(f)[m - 1] + f[m]
                           /\ Admissions(g)[m] = Admissions(g)[m - 1] + g[m]
      /\ \A m \in 0 .. n : Admissions(f)[m] \in Nat /\ Admissions(g)[m] \in Nat
  BY <1>1, AdmissionsAddUp
<1> HIDE DEF g, n
<1>3. 0 \in P
  <2>1. 1 \in 1 .. n /\ f[1] \in Nat
    BY <1>0 DEF n
  <2>2. Admissions(f)[1] = f[1] /\ Admissions(g)[1] = f[1] + c
    BY <1>1, <1>2, <2>1
  <2>. QED BY <2>2
<1>4. ASSUME NEW m \in P PROVE m + 1 \in P
  <2>1. ASSUME m + 1 + 1 <= n PROVE Admissions(g)[m + 1 + 1] = Admissions(f)[m + 1 + 1] + c
    <3>1. m \in Nat /\ Admissions(g)[m + 1] = Admissions(f)[m + 1] + c /\ m + 1 + 1 \in 2 .. n /\ m + 1 \in 0 .. n
      BY <1>0, <1>4, <2>1
    <3>2. g[m + 1 + 1] = f[m + 1 + 1] /\ g[m + 1 + 1] \in Nat
      BY <1>0, <1>1, <3>1
    <3>3. /\ Admissions(g)[m + 1 + 1] = Admissions(g)[m + 1] + g[m + 1 + 1]
          /\ Admissions(f)[m + 1 + 1] = Admissions(f)[m + 1] + f[m + 1 + 1]
      BY <1>0, <1>2, <3>1
    <3>4. Admissions(f)[m + 1] \in Nat
      BY <1>2, <3>1
    <3>. QED BY <3>1, <3>2, <3>3, <3>4
  <2>. QED BY <1>4, <2>1
<1>5. P = Nat
  <2> HIDE DEF P
  <2>1. P \in SUBSET Nat
    BY DEF P
  <2>. QED BY <1>3, <1>4, <2>1, SetInduction
<1>6. ASSUME NEW m \in 1 .. n PROVE Admissions(g)[m] = Admissions(f)[m] + c
  <2>0. m - 1 \in Nat /\ m - 1 + 1 = m
    BY <1>0
  <2>1. m - 1 \in P
    <3> HIDE DEF P
    <3>. QED BY <1>5, <2>0
  <2>. QED BY <1>0, <2>0, <2>1
<1>. QED BY <1>1, <1>6 DEF g, n

\* An instant later every sum is that of one instant less before.
LEMMA AdmissionsLater ==
  ASSUME NEW f \in [1 .. Horizon -> Nat]
  PROVE  LET g == [i \in 1 .. Horizon |-> IF i = 1 THEN 0 ELSE f[i - 1]]
         IN  /\ g \in [1 .. Horizon -> Nat]
             /\ \A m \in 1 .. Horizon : Admissions(g)[m] = Admissions(f)[m - 1]
<1> DEFINE n == Horizon
           g == [i \in 1 .. n |-> IF i = 1 THEN 0 ELSE f[i - 1]]
           P == {m \in Nat : m + 1 <= n => Admissions(g)[m + 1] = Admissions(f)[m]}
<1>0. n \in Nat \ {0}
  BY HorizonPositive
<1>1. g \in [1 .. n -> Nat] /\ g[1] = 0 /\ \A i \in 1 .. n : i # 1 => g[i] = f[i - 1]
  BY <1>0
<1>2. /\ Admissions(f)[0] = 0 /\ Admissions(g)[0] = 0
      /\ \A m \in 1 .. n : /\ Admissions(f)[m] = Admissions(f)[m - 1] + f[m]
                           /\ Admissions(g)[m] = Admissions(g)[m - 1] + g[m]
  BY <1>1, AdmissionsAddUp
<1> HIDE DEF g, n
<1>3. 0 \in P
  <2>1. 1 \in 1 .. n
    BY <1>0
  <2>2. Admissions(g)[1] = 0
    BY <1>1, <1>2, <2>1
  <2>. QED BY <1>2, <2>2
<1>4. ASSUME NEW m \in P PROVE m + 1 \in P
  <2>1. ASSUME m + 1 + 1 <= n PROVE Admissions(g)[m + 1 + 1] = Admissions(f)[m + 1]
    <3>1. m \in Nat /\ Admissions(g)[m + 1] = Admissions(f)[m] /\ m + 1 + 1 \in 2 .. n /\ m + 1 \in 1 .. n
      BY <1>0, <1>4, <2>1
    <3>2. g[m + 1 + 1] = f[m + 1]
      BY <1>0, <1>1, <3>1
    <3>3. /\ Admissions(g)[m + 1 + 1] = Admissions(g)[m + 1] + g[m + 1 + 1]
          /\ Admissions(f)[m + 1] = Admissions(f)[m] + f[m + 1]
      BY <1>0, <1>2, <3>1
    <3>. QED BY <3>1, <3>2, <3>3
  <2>. QED BY <1>4, <2>1
<1>5. P = Nat
  <2> HIDE DEF P
  <2>1. P \in SUBSET Nat
    BY DEF P
  <2>. QED BY <1>3, <1>4, <2>1, SetInduction
<1>6. ASSUME NEW m \in 1 .. n PROVE Admissions(g)[m] = Admissions(f)[m - 1]
  <2>0. m - 1 \in Nat /\ m - 1 + 1 = m
    BY <1>0
  <2>1. m - 1 \in P
    <3> HIDE DEF P
    <3>. QED BY <1>5, <2>0
  <2>. QED BY <1>0, <2>0, <2>1
<1>. QED BY <1>1, <1>6 DEF g, n

\* More instants add up to more.
LEMMA AdmissionsGrow ==
  ASSUME NEW f \in [1 .. Horizon -> Nat], NEW m \in 0 .. Horizon
  PROVE  Admissions(f)[m] <= Admissions(f)[Horizon]
<1> DEFINE n == Horizon
           P == {k \in Nat : k <= n => Admissions(f)[n - k] <= Admissions(f)[n]}
<1>0. n \in Nat \ {0}
  BY HorizonPositive
<1>1. /\ \A i \in 1 .. n : Admissions(f)[i] = Admissions(f)[i - 1] + f[i]
      /\ \A i \in 0 .. n : Admissions(f)[i] \in Nat
  BY AdmissionsAddUp
<1>2. f \in [1 .. n -> Nat] /\ m \in 0 .. n
  OBVIOUS
<1> HIDE DEF n
<1>3. 0 \in P
  <2>1. n - 0 = n /\ Admissions(f)[n] \in Nat
    BY <1>0, <1>1
  <2>. QED BY <2>1
<1>4. ASSUME NEW k \in P PROVE k + 1 \in P
  <2>1. ASSUME k + 1 <= n PROVE Admissions(f)[n - (k + 1)] <= Admissions(f)[n]
    <3>1. k \in Nat /\ n - k \in 1 .. n /\ n - (k + 1) = n - k - 1 /\ n - k - 1 \in 0 .. n
      BY <1>0, <1>4, <2>1
    <3>2. Admissions(f)[n - k] <= Admissions(f)[n]
      BY <1>0, <1>4, <2>1, <3>1
    <3>3. Admissions(f)[n - k] = Admissions(f)[n - k - 1] + f[n - k] /\ f[n - k] \in Nat
      BY <1>1, <1>2, <3>1
    <3>4. Admissions(f)[n - k] \in Nat /\ Admissions(f)[n - k - 1] \in Nat /\ Admissions(f)[n] \in Nat
      BY <1>0, <1>1, <3>1
    <3>. QED BY <3>1, <3>2, <3>3, <3>4
  <2>. QED BY <1>4, <2>1
<1>5. P = Nat
  <2> HIDE DEF P
  <2>1. P \in SUBSET Nat
    BY DEF P
  <2>. QED BY <1>3, <1>4, <2>1, SetInduction
<1>6. n - m \in Nat /\ n - m <= n /\ n - (n - m) = m
  BY <1>0, <1>2
<1>7. n - m \in P
  <2> HIDE DEF P
  <2>. QED BY <1>5, <1>6
<1>8. Admissions(f)[n - (n - m)] <= Admissions(f)[n]
  BY <1>6, <1>7
<1>9. Admissions(f)[m] <= Admissions(f)[n]
  BY <1>6, <1>8
<1>. QED BY <1>9 DEF n

\* The limiter's key lives until its window is one window old.
LEMMA WindowIsOpen ==
  ASSUME TypeOK, LimiterExpires, limiter.n > 0
  PROVE  /\ WindowAge \in Nat
         /\ Unexpired(limiter.sec, limiter.sub) <=> WindowAge <= Instants
         /\ InWindow \in 1 .. Instants
<1> DEFINE d == sec - limiter.sec
           e == d + Window
<1>0. /\ sec \in Nat /\ sub \in 0 .. SubTicks - 1 /\ SubTicks \in Nat \ {0} /\ Window \in Nat \ {0}
      /\ limiter.n \in Nat /\ limiter.sec \in Nat /\ limiter.sub \in 0 .. SubTicks - 1
  BY ConstantsAssumption DEF TypeOK
<1>1. d \in Int /\ e \in Int /\ d * SubTicks \in Int /\ e * SubTicks \in Int
  BY <1>0
<1>2. WindowAge = e * SubTicks + sub - limiter.sub /\ e * SubTicks = d * SubTicks + Instants
  <2>1. e * SubTicks = d * SubTicks + Window * SubTicks
    BY <1>0, <1>1
  <2>. QED BY <2>1 DEF WindowAge, Instants
<1>3. /\ d <= -1 => d * SubTicks <= -SubTicks
      /\ d = 0 => d * SubTicks = 0
      /\ d >= 1 => d * SubTicks >= SubTicks
      /\ e = 0 => e * SubTicks = 0
      /\ e >= 1 => e * SubTicks >= SubTicks
  BY <1>0
<1>4. e >= 1 \/ (e = 0 /\ limiter.sub <= sub)
  BY <1>0 DEF LimiterExpires
<1>5. Unexpired(limiter.sec, limiter.sub) <=> d <= -1 \/ (d = 0 /\ sub <= limiter.sub)
  BY <1>0 DEF Unexpired
<1>6. Instants \in Nat \ {0}
  BY InstantsPositive
<1> HIDE DEF d, e
<1>7. WindowAge \in Nat
  BY <1>0, <1>1, <1>2, <1>3, <1>4
<1>8. Unexpired(limiter.sec, limiter.sub) <=> WindowAge <= Instants
  BY <1>0, <1>1, <1>2, <1>3, <1>5, <1>6
<1>9. InWindow \in 1 .. Instants
  BY <1>0, <1>6, <1>7 DEF InWindow
<1>. QED BY <1>7, <1>8, <1>9

\* A window grows older by one instant with every tick.
LEMMA WindowAges ==
  ASSUME TypeOK, Tick
  PROVE  WindowAge' = WindowAge + 1 /\ limiter' = limiter
<1> DEFINE d == sec - limiter.sec + Window
<1>0. /\ sec \in Nat /\ sub \in 0 .. SubTicks - 1 /\ SubTicks \in Nat \ {0} /\ Window \in Nat \ {0}
      /\ limiter.sec \in Nat /\ limiter.sub \in 0 .. SubTicks - 1
  BY ConstantsAssumption DEF TypeOK
<1>1. limiter' = limiter
  BY DEF Tick
<1>2. WindowAge = d * SubTicks + sub - limiter.sub /\ WindowAge' = d' * SubTicks + sub' - limiter.sub
  BY <1>1 DEF WindowAge
<1>3. d \in Int /\ d * SubTicks \in Int /\ (d + 1) * SubTicks = d * SubTicks + SubTicks
  BY <1>0
<1>4. CASE sub' = sub + 1 /\ sec' = sec
  <2>1. d' = d
    BY <1>1, <1>4
  <2> HIDE DEF d
  <2>. QED BY <1>0, <1>1, <1>2, <1>3, <1>4, <2>1
<1>5. CASE sub + 1 = SubTicks /\ sub' = 0 /\ sec' = sec + 1
  <2>1. d' = d + 1
    BY <1>0, <1>1, <1>5
  <2> HIDE DEF d
  <2>. QED BY <1>0, <1>1, <1>2, <1>3, <1>5, <2>1
<1>6. (sub' = sub + 1 /\ sec' = sec) \/ (sub + 1 = SubTicks /\ sub' = 0 /\ sec' = sec + 1)
  BY <1>0 DEF Tick
<1>. QED BY <1>4, <1>5, <1>6

LEMMA RateInit == LInit => RateInv
<1> SUFFICES ASSUME LInit PROVE RateInv
  OBVIOUS
<1>1. /\ Instants \in Nat \ {0} /\ Burst \in Nat
      /\ Horizon \in Nat \ {0} /\ Instants <= Horizon /\ 1 \in 1 .. Horizon
  BY HorizonPositive, InstantsPositive, ConstantsAssumption
<1>2. recent \in [1 .. Horizon -> Nat] /\ \A i \in 1 .. Horizon : recent[i] = 0
  BY DEF LInit
<1>3. limiter.n = 0 /\ InWindow = 0
  BY DEF LInit, Init, InWindow
<1> DEFINE P == {m \in Nat : m <= Horizon => Admissions(recent)[m] = 0}
<1>4. 0 \in P
  BY <1>2, AdmissionsAddUp
<1>5. ASSUME NEW m \in P PROVE m + 1 \in P
  <2>1. ASSUME m + 1 <= Horizon PROVE Admissions(recent)[m + 1] = 0
    <3>1. m + 1 \in 1 .. Horizon /\ m + 1 - 1 = m /\ Admissions(recent)[m] = 0
      BY <1>1, <1>5, <2>1
    <3>2. \A i \in 1 .. Horizon : Admissions(recent)[i] = Admissions(recent)[i - 1] + recent[i]
      BY <1>2, AdmissionsAddUp
    <3>3. Admissions(recent)[m + 1] = Admissions(recent)[m + 1 - 1] + recent[m + 1]
      BY <3>1, <3>2
    <3>. QED BY <1>2, <3>1, <3>3
  <2>. QED BY <1>5, <2>1
<1>6. P = Nat
  <2> HIDE DEF P
  <2>1. P \in SUBSET Nat
    BY DEF P
  <2>. QED BY <1>4, <1>5, <2>1, SetInduction
<1>7. Admissions(recent)[0] = 0 /\ Admissions(recent)[Instants] = 0
  BY <1>1, <1>4, <1>6
<1>. QED BY <1>1, <1>2, <1>3, <1>7 DEF RateInv

\* WindowIsOpen in the state after a step.
LEMMA WindowIsOpenNext ==
  (TypeOK /\ LimiterExpires /\ limiter.n > 0 /\ Unexpired(limiter.sec, limiter.sub) => WindowAge <= Instants)'
<1>1. TypeOK /\ LimiterExpires /\ limiter.n > 0 /\ Unexpired(limiter.sec, limiter.sub) => WindowAge <= Instants
  BY WindowIsOpen
<1>. QED BY <1>1, PTL

LEMMA RateStep == TypeOK /\ LimiterExpires /\ LimiterExpires' /\ TypeOK' /\ Burst > 0 /\ RateInv /\ [LNext]_lvars => RateInv'
<1> SUFFICES ASSUME TypeOK, LimiterExpires, TypeOK', LimiterExpires', Burst > 0, RateInv, [LNext]_lvars
             PROVE  RateInv'
  OBVIOUS
<1> DEFINE S(m) == Admissions(recent)[m]
           T(m) == Admissions(recent')[m]
<1>0. /\ Instants \in Nat \ {0} /\ Burst \in Nat \ {0} /\ limiter.n \in Nat /\ recent \in [1 .. Horizon -> Nat]
      /\ Horizon = Instants + 1 /\ 1 \in 1 .. Horizon /\ Instants \in 1 .. Horizon
  BY HorizonPositive, InstantsPositive, ConstantsAssumption DEF TypeOK, RateInv
<1>1. /\ S(0) = 0
      /\ \A m \in 1 .. Horizon : S(m) = S(m - 1) + recent[m]
      /\ \A m \in 0 .. Horizon : S(m) \in Nat
  BY <1>0, AdmissionsAddUp
<1>2. /\ S(InWindow) <= limiter.n /\ S(InWindow) <= Burst
      /\ S(Instants) - S(InWindow) <= IF limiter.n = 0 THEN 0 ELSE Burst
      /\ ~Unexpired(limiter.sec, limiter.sub) \/ limiter.n = 0 => recent[1] = 0
      /\ limiter.n > 0 /\ Unexpired(limiter.sec, limiter.sub) =>
             S(WindowAge + 1) >= IF limiter.n < Burst THEN limiter.n ELSE Burst
  BY DEF RateInv
<1>3. limiter.n = 0 => InWindow = 0
  BY DEF InWindow
<1>4. limiter.n > 0 => InWindow \in 1 .. Instants /\ WindowAge \in Nat
                       /\ InWindow = IF WindowAge + 1 < Instants THEN WindowAge + 1 ELSE Instants
  BY <1>0, WindowIsOpen DEF InWindow
\* A step that admits nobody and leaves clock and limiter alone.
<1>5. ASSUME UNCHANGED <<sec, sub, limiter, recent>> PROVE RateInv'
  <2>1. InWindow' = InWindow /\ WindowAge' = WindowAge
    BY <1>5 DEF InWindow, WindowAge
  <2>. QED BY <1>5, <2>1 DEF RateInv, Unexpired
<1>6. ASSUME Admitted = {}, UNCHANGED <<sec, sub>>, LNext PROVE recent' = recent
  <2>1. recent' = [recent EXCEPT ![1] = @ + 0]
    BY <1>6, FS_EmptySet DEF LNext
  <2>2. recent[1] + 0 = recent[1]
    BY <1>0
  <2>. QED BY <1>0, <2>1, <2>2
<1>7. ASSUME NEW c \in Clients, RateLimit(c), LNext PROVE RateInv'
  <2>0. UNCHANGED <<sec, sub>>
    BY <1>7 DEF RateLimit, clockVars
  <2>1. /\ client[c].pc = "idle" /\ LimiterCount <= Burst
        /\ limiter' = IF LimiterCount = 0 THEN [n |-> 1, sec |-> sec + Window, sub |-> sub]
                      ELSE [limiter EXCEPT !.n = LimiterCount + 1]
        /\ client' = IF LimiterCount + 1 > Burst THEN client ELSE [client EXCEPT ![c].pc = "admitted"]
    BY <1>0, <1>7 DEF RateLimit
  <2>2. LimiterCount \in Nat
    BY <1>0 DEF LimiterCount
  <2> DEFINE a == IF LimiterCount + 1 > Burst THEN 0 ELSE 1
  <2>3. Cardinality(Admitted) = a
    <3>1. CASE LimiterCount + 1 > Burst
      <4>1. Admitted = {}
        BY <2>1, <3>1 DEF Admitted
      <4>. QED BY <3>1, <4>1, FS_EmptySet
    <3>2. CASE ~(LimiterCount + 1 > Burst)
      <4>1. \A d \in Clients : client'[d].pc = IF d = c THEN "admitted" ELSE client[d].pc
        BY <2>1, <3>2 DEF TypeOK, ClientState
      <4>2. Admitted = {c}
        BY <2>1, <4>1 DEF Admitted
      <4>. QED BY <3>2, <4>2, FS_Singleton
    <3>. QED BY <3>1, <3>2
  <2>4. recent' = [recent EXCEPT ![1] = @ + a]
    BY <1>7, <2>0, <2>3 DEF LNext
  <2>5. a \in {0, 1}
    OBVIOUS
  <2>6. recent' \in [1 .. Horizon -> Nat] /\ \A m \in 1 .. Horizon : T(m) = S(m) + a
    <3>1. a \in Nat
      BY <2>5
    <3> HIDE DEF a
    <3>2. [recent EXCEPT ![1] = @ + a] \in [1 .. Horizon -> Nat]
          /\ \A m \in 1 .. Horizon : Admissions([recent EXCEPT ![1] = @ + a])[m] = S(m) + a
      BY <1>0, <3>1, AdmissionsNow
    <3>. QED BY <2>4, <3>2
  <2>7. CASE LimiterCount = 0
    <3>1. limiter'.n = 1 /\ limiter'.sec = sec + Window /\ limiter'.sub = sub /\ a = 1
      BY <1>0, <2>1, <2>7
    <3>2. InWindow' = 1 /\ WindowAge' + 1 = 1 /\ Unexpired(limiter.sec, limiter.sub)'
      <4>1. WindowAge' = 0
        <5>1. sec \in Nat /\ sub \in Nat /\ SubTicks \in Nat /\ Window \in Nat
          BY ConstantsAssumption DEF TypeOK
        <5>2. sec - (sec + Window) + Window = 0 /\ sub - sub = 0
          BY <5>1
        <5>3. WindowAge' = 0 * SubTicks + sub - sub
          BY <2>0, <3>1, <5>2 DEF WindowAge
        <5>. QED BY <5>1, <5>3
      <4>2. InWindow' = 1
        BY <1>0, <3>1, <4>1 DEF InWindow
      <4>3. Unexpired(limiter.sec, limiter.sub)'
        <5>1. sec \in Nat /\ sub \in Nat /\ Window \in Nat \ {0}
          BY ConstantsAssumption DEF TypeOK
        <5>. QED BY <2>0, <3>1, <5>1 DEF Unexpired
      <4>. QED BY <4>1, <4>2, <4>3
    <3>3. recent[1] = 0 /\ S(Instants) <= Burst
      <4>1. CASE limiter.n = 0
        BY <1>0, <1>1, <1>2, <1>3, <4>1
      <4>2. CASE limiter.n > 0
        <5>1. ~Unexpired(limiter.sec, limiter.sub)
          BY <1>0, <2>7, <4>2 DEF LimiterCount
        <5>2. InWindow = Instants
          BY <1>0, <1>4, <4>2, <5>1, WindowIsOpen
        <5>. QED BY <1>2, <5>1, <5>2
      <4>. QED BY <1>0, <4>1, <4>2
    <3>4. T(1) = 1 /\ S(1) = 0 /\ T(Instants) = S(Instants) + 1
      BY <1>0, <1>1, <2>6, <3>1, <3>3, SMTT(30)
    <3>5. T(Instants) - T(1) <= Burst /\ T(1) <= Burst
      BY <1>0, <1>1, <3>3, <3>4
    <3>6. T(WindowAge' + 1) >= IF limiter'.n < Burst THEN limiter'.n ELSE Burst
      BY <1>0, <3>1, <3>2, <3>4
    <3> HIDE DEF a
    <3>. QED BY <2>6, <3>1, <3>2, <3>4, <3>5, <3>6 DEF RateInv
  <2>8. CASE LimiterCount # 0
    <3>1. limiter.n > 0 /\ Unexpired(limiter.sec, limiter.sub) /\ LimiterCount = limiter.n
      BY <1>0, <2>8 DEF LimiterCount
    <3>2. limiter'.n = limiter.n + 1 /\ limiter'.sec = limiter.sec /\ limiter'.sub = limiter.sub
      BY <2>1, <2>8, <3>1 DEF TypeOK
    <3>3. InWindow' = InWindow /\ WindowAge' = WindowAge /\ Unexpired(limiter.sec, limiter.sub)'
      <4>1. WindowAge' = WindowAge
        BY <2>0, <3>2 DEF WindowAge
      <4>. QED BY <1>0, <2>0, <3>1, <3>2, <4>1 DEF InWindow, Unexpired
    <3>4. InWindow \in 1 .. Instants
      BY <1>4, <3>1
    <3>5. T(InWindow) = S(InWindow) + a /\ T(Instants) = S(Instants) + a /\ S(InWindow) \in Nat /\ S(Instants) \in Nat
      BY <1>0, <1>1, <2>6, <3>4
    <3>6. S(InWindow) <= limiter.n /\ S(InWindow) <= Burst /\ S(Instants) - S(InWindow) <= Burst
      BY <1>0, <1>2, <3>1
    <3>7. T(InWindow) <= limiter.n + 1 /\ T(InWindow) <= Burst /\ T(Instants) - T(InWindow) <= Burst
      BY <1>0, <3>1, <3>5, <3>6, SMTT(30)
    <3>8. T(WindowAge + 1) >= IF limiter.n + 1 < Burst THEN limiter.n + 1 ELSE Burst
      <4>1. WindowAge + 1 \in 1 .. Horizon
        BY <1>0, <3>1, WindowIsOpen
      <4>2. T(WindowAge + 1) = S(WindowAge + 1) + a /\ S(WindowAge + 1) \in Nat
        BY <1>1, <2>6, <4>1
      <4>3. S(WindowAge + 1) >= IF limiter.n < Burst THEN limiter.n ELSE Burst
        BY <1>2, <3>1
      <4>. QED BY <1>0, <3>1, <4>2, <4>3
    <3> HIDE DEF a
    <3>9. T(WindowAge' + 1) >= IF limiter'.n < Burst THEN limiter'.n ELSE Burst
      BY <3>2, <3>3, <3>8
    <3>. QED BY <1>0, <2>6, <3>1, <3>2, <3>3, <3>7, <3>9 DEF RateInv
  <2>. QED BY <2>7, <2>8
<1>8. ASSUME Tick, LNext PROVE RateInv'
  <2>1. limiter' = limiter /\ WindowAge' = WindowAge + 1
    BY <1>8, WindowAges
  <2>2. <<sec', sub'>> # <<sec, sub>>
    <3>1. sec \in Nat /\ sub \in Nat
      BY ConstantsAssumption DEF TypeOK
    <3>. QED BY <1>8, <3>1 DEF Tick
  <2>3. recent' = [i \in 1 .. Horizon |-> IF i = 1 THEN 0 ELSE recent[i - 1]]
    BY <1>8, <2>2 DEF LNext
  <2>4. recent' \in [1 .. Horizon -> Nat] /\ recent'[1] = 0 /\ \A m \in 1 .. Horizon : T(m) = S(m - 1)
    BY <1>0, <2>3, AdmissionsLater
  <2>5. T(0) = 0
    BY <2>4, AdmissionsAddUp
  <2>6. T(Instants) = S(Instants - 1) /\ S(Instants - 1) <= S(Instants) /\ S(Instants - 1) \in Nat /\ S(Instants) \in Nat
    BY <1>0, <1>1, <2>4, SMTT(30)
  <2>7. CASE limiter.n = 0
    <3>1. InWindow' = 0
      BY <2>1, <2>7 DEF InWindow
    <3>2. T(Instants) - T(0) <= 0
      BY <1>1, <1>2, <1>3, <2>5, <2>6, <2>7
    <3>. QED BY <1>0, <2>1, <2>4, <2>5, <2>7, <3>1, <3>2, SMTT(30) DEF RateInv
  <2>8. CASE limiter.n > 0
    <3>0. /\ S(InWindow) <= limiter.n /\ S(InWindow) <= Burst /\ S(Instants) - S(InWindow) <= Burst
          /\ WindowAge \in Nat
      BY <1>2, <1>4, <2>8
    <3>4. ASSUME Unexpired(limiter.sec, limiter.sub)'
          PROVE  T(WindowAge' + 1) >= IF limiter'.n < Burst THEN limiter'.n ELSE Burst
      <4>1. limiter'.n > 0 /\ WindowAge' <= Instants
        BY <2>1, <2>8, <3>4, WindowIsOpenNext
      <4>2. Unexpired(limiter.sec, limiter.sub) /\ WindowAge + 1 \in 1 .. Instants
        BY <1>0, <2>1, <2>8, <3>0, <4>1, WindowIsOpen
      <4>3. T(WindowAge' + 1) = S(WindowAge + 1)
        <5>1. PICK k \in 1 .. Horizon : k = WindowAge + 2 /\ k - 1 = WindowAge + 1
          BY <1>0, <3>0, <4>2
        <5>2. T(k) = S(k - 1)
          BY <2>4, <5>1
        <5>3. WindowAge' + 1 = k
          BY <2>1, <3>0, <5>1
        <5>. QED BY <5>1, <5>2, <5>3
      <4>. QED BY <1>2, <2>1, <2>8, <4>2, <4>3
    <3>1. CASE WindowAge + 2 < Instants \/ WindowAge + 2 = Instants
      <4>1. InWindow = WindowAge + 1 /\ InWindow' = WindowAge + 2
        BY <1>0, <1>4, <2>1, <2>8, <3>0, <3>1 DEF InWindow
      <4>2. T(WindowAge + 2) = S(WindowAge + 1)
        <5>1. PICK k \in 1 .. Horizon : k = WindowAge + 2 /\ k - 1 = WindowAge + 1
          BY <1>0, <3>0, <3>1
        <5>2. T(k) = S(k - 1)
          BY <2>4, <5>1
        <5>. QED BY <5>1, <5>2
      <4>3. S(WindowAge + 1) \in Nat
        BY <1>0, <1>1, <3>0, <3>1
      <4>4. T(InWindow') <= limiter.n /\ T(InWindow') <= Burst /\ T(Instants) - T(InWindow') <= Burst
        BY <1>0, <2>6, <3>0, <4>1, <4>2, <4>3
      <4>. QED BY <2>1, <2>4, <2>8, <3>4, <4>4 DEF RateInv
    <3>2. CASE WindowAge + 2 > Instants
      <4>1. InWindow' = Instants /\ (InWindow = Instants \/ InWindow = Instants - 1)
        BY <1>0, <1>4, <2>1, <2>8, <3>0, <3>2 DEF InWindow
      <4>2. T(Instants) <= limiter.n /\ T(Instants) <= Burst /\ T(Instants) - T(Instants) = 0
        BY <1>0, <2>6, <3>0, <4>1
      <4>. QED BY <1>0, <2>1, <2>4, <2>8, <3>4, <4>1, <4>2 DEF RateInv
    <3>. QED BY <1>0, <3>0, <3>1, <3>2
  <2>. QED BY <1>0, <2>7, <2>8
<1>9. ASSUME NEW c \in Clients, LNext,
             \/ \E p \in Proxies, t \in Tokens, h \in Holds : AcquireProxy(c, p, t, h)
             \/ AcquireNone(c) \/ MarkSuccess(c) \/ MarkFailure(c) \/ MarkLost(c) \/ Release(c) \/ Abandon(c)
      PROVE  RateInv'
  <2>1. UNCHANGED <<sec, sub, limiter>>
    BY <1>9 DEF AcquireProxy, AcquireNone, MarkSuccess, MarkFailure, MarkLost, Release, Abandon, clockVars
  <2>2. client'[c].pc # "admitted" /\ \A d \in Clients \ {c} : client'[d] = client[d]
    <3>1. client \in [Clients -> ClientState]
      BY DEF TypeOK
    <3>2. \/ \E x : client' = [client EXCEPT ![c] = x] /\ x.pc # "admitted"
          \/ client' = [client EXCEPT ![c].pc = "marked"]
      BY <1>9 DEF AcquireProxy, AcquireNone, MarkSuccess, MarkFailure, MarkLost, Release, Abandon, Idle
    <3>. QED BY <3>1, <3>2 DEF ClientState
  <2>3. Admitted = {}
    BY <2>2 DEF Admitted
  <2>. QED BY <1>5, <1>6, <1>9, <2>1, <2>3
<1>10. ASSUME LNext, UNCHANGED <<sec, sub, limiter, client>> PROVE RateInv'
  <2>1. Admitted = {}
    BY <1>10 DEF Admitted
  <2>. QED BY <1>5, <1>6, <1>10, <2>1
<1>11. CASE LNext
  <2>1. CASE \E good \in SUBSET Proxies : Add(good) \/ ReplaceRead(good)
    BY <1>10, <1>11, <2>1 DEF Add, ReplaceRead, clockVars
  <2>2. CASE ReplaceExec
    BY <1>10, <1>11, <2>2 DEF ReplaceExec, clockVars
  <2>. QED BY <1>7, <1>8, <1>9, <1>11, <2>1, <2>2 DEF LNext, Outcomes, Unreported
<1>12. CASE UNCHANGED lvars
  BY <1>5, <1>12 DEF vars, lvars
<1>. QED BY <1>11, <1>12

\* The histories leave the behaviour of the pool alone.
LEMMA HistoryStep == [LNext]_lvars => [Next]_vars
<1>1. Outcomes => Next
  BY DEF Outcomes, Unreported, Next, ClientStep
<1>. QED BY <1>1 DEF LNext, lvars

LEMMA HistoryIsPool == LSpec => Spec
<1>1. LInit => Init
  BY DEF LInit
<1>. QED BY <1>1, HistoryStep, PTL DEF LSpec, Spec

LEMMA RateInvariant == LSpec => [](Burst > 0 => RateInv)
<1>1. CASE Burst > 0
  <2>1. TypeOK /\ LimiterExpires /\ LimiterExpires' /\ TypeOK' /\ RateInv /\ [LNext]_lvars => RateInv'
    BY <1>1, RateStep
  <2>2. LSpec => []RateInv
    BY <2>1, HistoryIsPool, RateInit, TypeCorrect, LimiterEmpties, PTL DEF LSpec
  <2>3. RateInv => (Burst > 0 => RateInv)
    OBVIOUS
  <2>. QED BY <2>2, <2>3, PTL
<1>2. CASE ~(Burst > 0)
  <2>1. Burst > 0 => RateInv
    BY <1>2
  <2>. QED BY <2>1, PTL
<1>. QED BY <1>1, <1>2

(***************************************************************************)
(* The limiter of rate_limit.lua, when it is enabled: in any stretch of    *)
(* one window, wherever it lies with respect to the windows the key counts *)
(* in, at most two bursts of acquisitions are let through.                 *)
(***************************************************************************)
THEOREM RateIsBounded == LSpec => []AdmissionRate
<1>1. TypeOK /\ LimiterExpires /\ (Burst > 0 => RateInv) => AdmissionRate
  <2> SUFFICES ASSUME TypeOK, LimiterExpires, RateInv, Burst > 0 PROVE Admissions(recent)[Instants] <= 2 * Burst
    BY DEF AdmissionRate
  <2>1. /\ Instants \in Nat \ {0} /\ Burst \in Nat /\ limiter.n \in Nat
        /\ Horizon \in Nat \ {0} /\ Instants \in 1 .. Horizon /\ Horizon = Instants + 1
    BY HorizonPositive, InstantsPositive, ConstantsAssumption DEF TypeOK
  <2>2. InWindow \in 0 .. Instants
    BY <2>1, WindowIsOpen DEF InWindow
  <2>3. Admissions(recent)[InWindow] \in Nat /\ Admissions(recent)[Instants] \in Nat
    BY <2>1, <2>2, AdmissionsAddUp DEF RateInv
  <2>. QED BY <2>1, <2>3 DEF RateInv
<1>. QED BY <1>1, HistoryIsPool, RateInvariant, TypeCorrect, LimiterEmpties, PTL

(***************************************************************************)
(* Whenever rate_limit.lua would refuse, a whole burst was admitted within *)
(* the last window: attempts that are refused do not keep it closed, so    *)
(* nobody is refused for ever.                                             *)
(***************************************************************************)
THEOREM NobodyLockedOut == LSpec => []RefusalEarned
<1>1. TypeOK /\ LimiterExpires /\ (Burst > 0 => RateInv) => RefusalEarned
  <2> SUFFICES ASSUME TypeOK, LimiterExpires, RateInv, Burst > 0, LimiterCount >= Burst
               PROVE  Admissions(recent)[Horizon] >= Burst
    BY DEF RefusalEarned
  <2>1. Burst \in Nat \ {0} /\ limiter.n \in Nat /\ Horizon \in Nat \ {0} /\ Horizon = Instants + 1 /\ Instants \in Nat
    BY HorizonPositive, InstantsPositive, ConstantsAssumption DEF TypeOK
  <2>2. Unexpired(limiter.sec, limiter.sub) /\ limiter.n >= Burst /\ limiter.n > 0
    BY <2>1 DEF LimiterCount
  <2>3. WindowAge + 1 \in 0 .. Horizon
    BY <2>1, <2>2, WindowIsOpen
  <2>4. Admissions(recent)[WindowAge + 1] >= Burst
    BY <2>1, <2>2 DEF RateInv
  <2>5. Admissions(recent)[WindowAge + 1] <= Admissions(recent)[Horizon]
    BY <2>3, AdmissionsGrow DEF RateInv
  <2>6. Admissions(recent)[WindowAge + 1] \in Nat /\ Admissions(recent)[Horizon] \in Nat
    BY <2>1, <2>3, AdmissionsAddUp DEF RateInv
  <2>. QED BY <2>1, <2>4, <2>5, <2>6
<1>. QED BY <1>1, HistoryIsPool, RateInvariant, TypeCorrect, LimiterEmpties, PTL

-----------------------------------------------------------------------------
(* Eviction.                                                               *)

\* The streak in the statistics hash is the history of recorded failures.
StreakIsHistory == failures \in [Proxies -> Nat] /\ streak = failures

LEMMA StreakStep ==
  ASSUME TypeOK, StreakIsHistory, [LNext]_lvars
  PROVE  StreakIsHistory'
<1> USE DEF StreakIsHistory
<1>1. ASSUME NEW c \in Clients, MarkSuccess(c), failures' = [failures EXCEPT ![client[c].url] = 0]
      PROVE  StreakIsHistory'
  BY <1>1 DEF MarkSuccess
<1>2. ASSUME NEW c \in Clients, MarkFailure(c), failures' = [failures EXCEPT ![client[c].url] = @ + 1]
      PROVE  StreakIsHistory'
  <2>1. client[c].url \in Proxies
    BY <1>2 DEF MarkFailure, TypeOK
  <2>. QED BY <1>2, <2>1 DEF MarkFailure
<1>3. ASSUME ReplaceExec, failures' = [p \in Proxies |-> IF p \in loader.removed THEN 0 ELSE failures[p]]
      PROVE  StreakIsHistory'
  BY <1>3 DEF ReplaceExec
<1>4. ASSUME Unreported, UNCHANGED failures PROVE StreakIsHistory'
  BY <1>4 DEF Unreported, RateLimit, AcquireProxy, AcquireNone, MarkLost, Release, Abandon, Add, ReplaceRead,
     Tick, rankVars
<1>5. CASE UNCHANGED lvars
  BY <1>5 DEF lvars, vars
<1>. QED BY <1>1, <1>2, <1>3, <1>4, <1>5 DEF LNext, Outcomes

\* What a step does to the candidates, by what it does to the history.
LEMMA EvictionStep ==
  ASSUME TypeOK, StreakIsHistory, [LNext]_lvars, NEW p \in Proxies
  PROVE  /\ failures'[p] > failures[p] =>
                (p \notin set' <=> MaxFailures > 0 /\ failures'[p] >= MaxFailures)
         /\ p \in set \ set' => failures'[p] > failures[p] \/ (loader.pc = "replace" /\ loader'.pc = "idle")
<1> DEFINE Goal == /\ failures'[p] > failures[p] =>
                          (p \notin set' <=> MaxFailures > 0 /\ failures'[p] >= MaxFailures)
                   /\ p \in set \ set' => failures'[p] > failures[p] \/ (loader.pc = "replace" /\ loader'.pc = "idle")
<1>0. failures \in [Proxies -> Nat] /\ streak = failures /\ failures[p] \in Nat
  BY DEF StreakIsHistory
\* A step that records no failure of p and keeps it a candidate.
<1>A. ASSUME failures'[p] \in {0, failures[p]}, p \in set => p \in set' PROVE Goal
  BY <1>0, <1>A
<1>1. ASSUME NEW c \in Clients, MarkSuccess(c), failures' = [failures EXCEPT ![client[c].url] = 0] PROVE Goal
  BY <1>0, <1>1, <1>A DEF MarkSuccess, Reweigh
<1>2. ASSUME NEW c \in Clients, MarkFailure(c), failures' = [failures EXCEPT ![client[c].url] = @ + 1] PROVE Goal
  <2>1. CASE client[c].url = p
    <3>1. failures'[p] = failures[p] + 1
      BY <1>0, <1>2, <2>1
    <3>2. \/ Evicts(failures[p] + 1) /\ set' = set \ {p}
          \/ ~Evicts(failures[p] + 1) /\ set' = set \union {p}
      BY <1>0, <1>2, <2>1 DEF MarkFailure, Reweigh
    <3>3. p \notin set' <=> Evicts(failures'[p])
      BY <3>1, <3>2
    <3>4. failures'[p] > failures[p]
      BY <1>0, <3>1
    <3>. QED BY <3>3, <3>4 DEF Evicts
  <2>2. CASE client[c].url # p
    <3>1. failures'[p] = failures[p] /\ (p \in set => p \in set')
      BY <1>0, <1>2, <2>2 DEF MarkFailure, Reweigh
    <3>. QED BY <1>A, <3>1
  <2>. QED BY <2>1, <2>2
<1>3. ASSUME ReplaceExec, failures' = [q \in Proxies |-> IF q \in loader.removed THEN 0 ELSE failures[q]] PROVE Goal
  BY <1>0, <1>3 DEF ReplaceExec
<1>4. ASSUME Unreported, UNCHANGED failures PROVE Goal
  <2>1. p \in set => p \in set'
    BY <1>4 DEF Unreported, RateLimit, AcquireProxy, AcquireNone, MarkLost, Release, Abandon, Add, ReplaceRead,
       Tick, rankVars
  <2>2. failures'[p] \in {0, failures[p]}
    BY <1>4
  <2> HIDE DEF Goal
  <2>. QED BY <1>A, <2>1, <2>2
<1>5. ASSUME UNCHANGED lvars PROVE Goal
  BY <1>5, <1>A DEF lvars, vars
<1>6. Goal
  <2> HIDE DEF Goal
  <2>. QED BY <1>1, <1>2, <1>3, <1>4, <1>5 DEF LNext, Outcomes
<1>. QED BY <1>6

(***************************************************************************)
(* record_failure.lua evicts a proxy with the failure that makes it        *)
(* MaxFailures in a row, neither earlier nor later, whichever clients      *)
(* report it and whatever is added or replaced in between.                 *)
(***************************************************************************)
THEOREM EvictedWhenFailing == LSpec => EvictionEarned
<1>1. LInit => StreakIsHistory
  BY DEF LInit, Init, StreakIsHistory
<1>2. LSpec => []StreakIsHistory
  BY <1>1, StreakStep, HistoryIsPool, TypeCorrect, PTL DEF LSpec
<1>3. TypeOK /\ StreakIsHistory /\ [LNext]_lvars =>
        \A p \in Proxies :
          /\ failures'[p] > failures[p] =>
                 (p \notin set' <=> MaxFailures > 0 /\ failures'[p] >= MaxFailures)
          /\ p \in set \ set' => failures'[p] > failures[p] \/ (loader.pc = "replace" /\ loader'.pc = "idle")
  BY EvictionStep
<1>. QED BY <1>2, <1>3, HistoryIsPool, TypeCorrect, PTL DEF LSpec, EvictionEarned

-----------------------------------------------------------------------------
(* The proxy loader, which fills the pool.                                 *)

\* What is left of a sequence without its first elements.
LEMMA RestOfSequence ==
  ASSUME NEW A, NEW s \in Seq(A), NEW n \in 0 .. Len(s), NEW i \in 1 .. Len(s) - n
  PROVE  Len(SubSeq(s, n + 1, Len(s))) = Len(s) - n /\ SubSeq(s, n + 1, Len(s))[i] = s[n + i]
<1>1. Len(s) \in Nat /\ n \in Nat
  OBVIOUS
<1>2. Len(SubSeq(s, n + 1, Len(s))) = Len(s) - n
  BY <1>1
<1>3. SubSeq(s, n + 1, Len(s))[i] = s[n + 1 + i - 1]
  BY <1>1
<1>4. n + 1 + i - 1 = n + i
  BY <1>1
<1>. QED BY <1>2, <1>3, <1>4, Zenon

\* filterOut picks from its first argument.
LEMMA FilterOutType ==
  ASSUME NEW A, NEW s \in Seq(A), NEW drop
  PROVE  Loader!filterOut(s, drop) \in Seq(A)
<1> DEFINE n == Len(s)
           D == Loader!ToSet(drop)
           Step(g, i) == IF i = 0 THEN <<>> ELSE IF s[i] \in D THEN g[i - 1] ELSE Append(g[i - 1], s[i])
           Is(g, m) == g = [i \in 0 .. m |-> Step(g, i)]
           out == CHOOSE g : Is(g, n)
<1>0. n \in Nat /\ \A i \in 1 .. n : s[i] \in A
  OBVIOUS
<1> HIDE DEF D
<1>1. \E g : Is(g, n)
  <2> DEFINE P == {m \in Nat : \E g : Is(g, m)}
  <2>1. 0 \in P
    <3>1. Is([i \in 0 .. 0 |-> <<>>], 0)
      OBVIOUS
    <3>. QED BY <3>1
  <2>2. ASSUME NEW m \in P PROVE m + 1 \in P
    <3>1. PICK g : Is(g, m)
      BY <2>2
    <3> DEFINE h == [i \in 0 .. m + 1 |-> IF i <= m THEN g[i] ELSE Step(g, m + 1)]
    <3>2. ASSUME NEW i \in 0 .. m + 1 PROVE h[i] = Step(h, i)
      <4>1. CASE i = 0
        BY <3>1, <4>1
      <4>2. CASE i # 0 /\ i <= m
        <5>1. i \in 0 .. m /\ i - 1 \in 0 .. m
          BY <2>2, <4>2
        <5>2. g[i] = Step(g, i)
          BY <3>1, <5>1
        <5>3. h[i] = g[i] /\ h[i - 1] = g[i - 1]
          BY <4>2, <5>1
        <5>. QED BY <4>2, <5>2, <5>3
      <4>3. CASE i = m + 1
        <5>1. h[i] = Step(g, i) /\ h[i - 1] = g[i - 1]
          BY <4>3
        <5>. QED BY <4>3, <5>1
      <4>. QED BY <4>1, <4>2, <4>3
    <3>3. Is(h, m + 1)
      <4>1. h = [i \in 0 .. m + 1 |-> h[i]]
        OBVIOUS
      <4> HIDE DEF h, Step
      <4>. QED BY <3>2, <4>1
    <3>4. m + 1 \in Nat
      BY <2>2
    <3> HIDE DEF h, Is
    <3>. QED BY <3>3, <3>4
  <2>3. P = Nat
    <3> HIDE DEF P
    <3>1. P \in SUBSET Nat
      BY DEF P
    <3>. QED BY <2>1, <2>2, <3>1, SetInduction
  <2>. QED BY <1>0, <2>3
<1>2. Is(out, n)
  BY <1>1
<1>3. Loader!filterOut(s, drop) = out[n]
  BY DEF Loader!filterOut, D
<1> HIDE DEF out
<1>4. out[0] = <<>> /\ \A i \in 1 .. n : out[i] = IF s[i] \in D THEN out[i - 1] ELSE Append(out[i - 1], s[i])
  <2>1. \A i \in 0 .. n : out[i] = Step(out, i)
    <3> HIDE DEF Step
    <3>. QED BY <1>2
  <2>. QED BY <1>0, <2>1
<1> DEFINE Q == {m \in Nat : m <= n => out[m] \in Seq(A)}
<1>5. 0 \in Q
  <2>1. <<>> \in Seq(A)
    OBVIOUS
  <2>. QED BY <1>4, <2>1
<1>6. ASSUME NEW m \in Q PROVE m + 1 \in Q
  <2>1. ASSUME m + 1 <= n PROVE out[m + 1] \in Seq(A)
    <3>1. m \in Nat /\ out[m] \in Seq(A) /\ m + 1 \in 1 .. n /\ s[m + 1] \in A
      BY <1>0, <1>6, <2>1
    <3>2. out[m + 1] = out[m + 1 - 1] \/ out[m + 1] = Append(out[m + 1 - 1], s[m + 1])
      <4> DEFINE i == m + 1
      <4>1. i \in 1 .. n
        BY <3>1
      <4> HIDE DEF i
      <4>2. CASE s[i] \in D
        <5>1. out[i] = out[i - 1]
          BY <1>4, <4>1, <4>2
        <5>. QED BY <5>1 DEF i
      <4>3. CASE s[i] \notin D
        <5>1. out[i] = Append(out[i - 1], s[i])
          BY <1>4, <4>1, <4>3
        <5>. QED BY <5>1 DEF i
      <4>. QED BY <4>2, <4>3
    <3>3. m + 1 - 1 = m
      BY <3>1
    <3> DEFINE q == out[m]  e == s[m + 1]
    <3>4. Append(q, e) \in Seq(A)
      <4> HIDE DEF q, e
      <4>1. q \in Seq(A) /\ e \in A
        BY <3>1 DEF q, e
      <4>. QED BY <4>1
    <3>. QED BY <3>1, <3>2, <3>3, <3>4
  <2>. QED BY <1>6, <2>1
<1>7. Q = Nat
  <2> HIDE DEF Q
  <2>1. Q \in SUBSET Nat
    BY DEF Q
  <2>. QED BY <1>5, <1>6, <2>1, SetInduction
<1>. QED BY <1>0, <1>3, <1>7

LEMMA LoaderInit == Loader!ConstantsOK => (Loader!Init => Loader!LoaderIInv)
<1> SUFFICES ASSUME Loader!ConstantsOK, Loader!Init PROVE Loader!LoaderIInv
  OBVIOUS
<1> USE DEF Loader!Init
<1>1. Loader!TypeOK
  BY DEF Loader!TypeOK, Loader!ConstantsOK
<1>2. Loader!PublishedPassed /\ Loader!SeedCovered
  BY DEF Loader!PublishedPassed, Loader!SeedCovered
<1>3. Loader!SeedAccounted /\ Loader!ToSet(healthy) \subseteq passed
  BY DEF Loader!SeedAccounted, Loader!ToSet
<1>. QED BY <1>1, <1>2, <1>3 DEF Loader!LoaderIInv, Loader!LoaderInv

LEMMA LoaderStep == Loader!ConstantsOK => (Loader!LoaderIInv /\ [Loader!Next]_Loader!vars => Loader!LoaderIInv')
<1> SUFFICES ASSUME Loader!ConstantsOK, Loader!LoaderIInv, [Loader!Next]_Loader!vars PROVE Loader!LoaderIInv'
  OBVIOUS
<1> USE DEF Loader!loadVars, Loader!envVars, Loader!ghosts
<1> DEFINE Seeds == Loader!ToSet(SeedList)
<1>0. /\ Loader!TypeOK
      /\ pool \subseteq passed
      /\ pc = "remote" => Seeds \subseteq probed
      /\ phase = "seed" /\ pc \in {"chunks", "probe"} =>
            Seeds \subseteq probed \union Loader!ToSet(list) \union waiting \union probing
      /\ pc \notin {"probe", "exited"} => waiting = {} /\ probing = {}
      /\ Loader!ToSet(healthy) \subseteq passed
  BY DEF Loader!LoaderIInv, Loader!LoaderInv, Loader!PublishedPassed, Loader!SeedCovered, Loader!SeedAccounted
<1>C. /\ Seeds \subseteq Loader!Proxies
      /\ SeedList \in Seq(Loader!Proxies) /\ RemoteList \in Seq(Loader!Proxies)
      /\ MaxVia \in Nat /\ MaxFaults \in Nat /\ MaxFlips \in Nat /\ MaxEvictions \in Nat /\ ChunkSize \in Nat \ {0}
  <2>1. SeedList \in Seq(Seeds) /\ RemoteList \in Seq(Loader!ToSet(RemoteList))
    BY DEF Loader!ConstantsOK
  <2>2. \A A, B : A \subseteq B => Seq(A) \subseteq Seq(B)
    OBVIOUS
  <2>3. Seeds \subseteq Loader!Proxies /\ Loader!ToSet(RemoteList) \subseteq Loader!Proxies
    BY DEF Loader!Proxies
  <2> HIDE DEF Seeds
  <2>4. SeedList \in Seq(Loader!Proxies) /\ RemoteList \in Seq(Loader!Proxies)
    BY <2>1, <2>2, <2>3, Zenon
  <2>. QED BY <2>3, <2>4 DEF Loader!ConstantsOK
<1> HIDE DEF Seeds
\* What has to be shown of a step.
<1>G. ASSUME /\ Loader!TypeOK'
             /\ pool' \subseteq passed'
             /\ pc' = "remote" => Seeds \subseteq probed'
             /\ phase' = "seed" /\ pc' \in {"chunks", "probe"} =>
                    Seeds \subseteq probed' \union Loader!ToSet(list') \union waiting' \union probing'
             /\ pc' \notin {"probe", "exited"} => waiting' = {} /\ probing' = {}
             /\ Loader!ToSet(healthy') \subseteq passed'
      PROVE  Loader!LoaderIInv'
  BY <1>G DEF Loader!LoaderIInv, Loader!LoaderInv, Loader!PublishedPassed, Loader!SeedCovered, Loader!SeedAccounted,
              Seeds
<1>E. Loader!EndRun => pc' \in {"tick", "exited"}
  BY DEF Loader!EndRun
<1>F. Loader!Fault => UNCHANGED <<up, flips, evictions>> /\ faults' \in 0 .. MaxFaults
  BY <1>0, <1>C DEF Loader!Fault, Loader!TypeOK
<1>1. ASSUME NEW reason \in {"initial", "force", "topup"}, pc \in {"start", "tick"}, Loader!BeginRun(reason)
      PROVE  Loader!LoaderIInv'
  <2>1. Loader!TypeOK'
    BY <1>0, <1>1 DEF Loader!BeginRun, Loader!TypeOK
  <2>. QED BY <1>0, <1>1, <1>G, <2>1 DEF Loader!BeginRun
<1>2. ASSUME Loader!LoadSeed PROVE Loader!LoaderIInv'
  <2>1. CASE Loader!EndRun /\ UNCHANGED Loader!loadVars /\ (UNCHANGED Loader!envVars \/ Loader!Fault)
    <3>0. UNCHANGED <<pool, passed, probed, waiting, probing, healthy>> /\ pc' \in {"tick", "exited"} /\ pc = "seed"
      BY <1>2, <1>E, <2>1 DEF Loader!LoadSeed
    <3>1. Loader!TypeOK'
      BY <1>0, <1>F, <2>1, <3>0 DEF Loader!TypeOK
    <3>. QED BY <1>0, <1>G, <3>0, <3>1
  <2>2. CASE /\ pc = "seed" /\ list' = SeedList /\ phase' = "seed" /\ found' = <<>> /\ pc' = "chunks"
             /\ UNCHANGED <<pool, why, waiting, probing, healthy, via, up, flips, evictions, faults, passed, probed>>
    <3>1. Loader!TypeOK'
      BY <1>0, <1>C, <2>2 DEF Loader!TypeOK
    <3>2. Loader!ToSet(list') = Seeds
      BY <2>2 DEF Seeds
    <3>. QED BY <1>0, <1>G, <2>2, <3>1, <3>2
  <2>. QED BY <1>2, <2>1, <2>2 DEF Loader!LoadSeed
<1>3. ASSUME Loader!NextChunk PROVE Loader!LoaderIInv'
  <2> DEFINE n == Loader!ChunkLen
  <2>0. list \in Seq(Loader!Proxies) /\ Len(list) \in Nat /\ DOMAIN list = 1 .. Len(list) /\ waiting = {} /\ probing = {}
    BY <1>0, <1>3 DEF Loader!TypeOK, Loader!NextChunk
  <2>1. n \in 0 .. Len(list)
    BY <1>C, <2>0 DEF Loader!ChunkLen
  <2>2. /\ waiting' = {list[i] : i \in 1 .. n} /\ list' = SubSeq(list, n + 1, Len(list)) /\ healthy' = <<>>
        /\ pc' = "probe" /\ pc = "chunks"
        /\ UNCHANGED <<pool, why, phase, probing, found, via, up, flips, evictions, faults, passed, probed>>
    BY <1>3 DEF Loader!NextChunk
  <2> HIDE DEF n
  <2>3. waiting' \subseteq Loader!Proxies /\ list' \in Seq(Loader!Proxies)
    BY <2>0, <2>1, <2>2
  <2>4. Loader!TypeOK'
    BY <1>0, <2>0, <2>2, <2>3 DEF Loader!TypeOK
  <2>5. Loader!ToSet(list) \subseteq Loader!ToSet(list') \union waiting'
    <3> SUFFICES ASSUME NEW i \in 1 .. Len(list) PROVE list[i] \in Loader!ToSet(list') \union waiting'
      BY <2>0 DEF Loader!ToSet
    <3>1. CASE i <= n
      BY <2>0, <2>1, <2>2, <3>1
    <3>2. CASE i > n
      <4>1. i - n \in 1 .. Len(list) - n /\ n + (i - n) = i
        BY <2>0, <2>1, <3>2
      <4>2. Len(list') = Len(list) - n /\ list'[i - n] = list[n + (i - n)]
        BY <2>0, <2>1, <2>2, <4>1, RestOfSequence
      <4>3. n + (i - n) = i /\ i - n \in DOMAIN list'
        BY <2>3, <4>1, <4>2
      <4>. QED BY <4>2, <4>3 DEF Loader!ToSet
    <3>. QED BY <2>0, <2>1, <3>1, <3>2
  <2>6. Loader!ToSet(healthy') = {}
    BY <2>2 DEF Loader!ToSet
  <2>7. phase' = "seed" => Seeds \subseteq probed' \union Loader!ToSet(list') \union waiting' \union probing'
    BY <1>0, <2>0, <2>2, <2>5
  <2>. QED BY <1>0, <1>G, <2>2, <2>4, <2>6, <2>7
<1>4. ASSUME NEW p \in Loader!Proxies, Loader!ProbeBegins(p) PROVE Loader!LoaderIInv'
  <2>1. /\ pc = "probe" /\ pc' = "probe" /\ waiting' = waiting \ {p} /\ probing' = probing \union {p}
        /\ UNCHANGED <<pool, why, phase, list, healthy, found, via, up, flips, evictions, faults, passed, probed>>
    BY <1>4 DEF Loader!ProbeBegins
  <2>2. Loader!TypeOK'
    BY <1>0, <2>1 DEF Loader!TypeOK
  <2>. QED BY <1>0, <1>G, <2>1, <2>2
<1>5. ASSUME NEW p \in Loader!Proxies, Loader!Probe(p) PROVE Loader!LoaderIInv'
  <2>1. /\ pc = "probe" /\ pc' = "probe" /\ probing' = probing \ {p} /\ probed' = probed \union {p}
        /\ UNCHANGED <<pool, why, phase, list, waiting, found, via, up, flips, evictions, faults>>
        /\ \/ healthy' = Append(healthy, p) /\ passed' = passed \union {p}
           \/ UNCHANGED <<healthy, passed>>
    BY <1>5 DEF Loader!Probe
  <2>2. healthy \in Seq(Loader!Proxies)
    BY <1>0 DEF Loader!TypeOK
  <2>3. healthy' \in Seq(Loader!Proxies) /\ passed \subseteq passed' /\ passed' \subseteq Loader!Proxies
    <3>1. Append(healthy, p) \in Seq(Loader!Proxies)
      BY <2>2
    <3>2. passed \subseteq Loader!Proxies
      BY <1>0 DEF Loader!TypeOK
    <3>. QED BY <2>1, <2>2, <3>1, <3>2
  <2>4. Loader!ToSet(healthy') \subseteq passed'
    <3>1. CASE healthy' = Append(healthy, p) /\ passed' = passed \union {p}
      <4>1. Loader!ToSet(Append(healthy, p)) = Loader!ToSet(healthy) \union {p}
        BY <2>2 DEF Loader!ToSet
      <4>. QED BY <1>0, <3>1, <4>1
    <3>2. CASE UNCHANGED <<healthy, passed>>
      BY <1>0, <3>2
    <3>. QED BY <2>1, <3>1, <3>2
  <2>5. Loader!TypeOK'
    BY <1>0, <2>1, <2>3 DEF Loader!TypeOK
  <2>. QED BY <1>0, <1>G, <2>1, <2>3, <2>4, <2>5
<1>6. ASSUME Loader!Publish PROVE Loader!LoaderIInv'
  <2>1. /\ pc = "probe" /\ pc' = "chunks" /\ waiting = {} /\ probing = {}
        /\ pool' = pool \union Loader!ToSet(healthy) \/ pool' = pool
        /\ UNCHANGED Loader!envVars \/ Loader!Fault
        /\ found' = found \o healthy
        /\ UNCHANGED <<why, phase, list, waiting, probing, healthy, via, passed, probed>>
    BY <1>6 DEF Loader!Publish
  <2>2. healthy \in Seq(Loader!Proxies) /\ found \in Seq(Loader!Proxies)
    BY <1>0 DEF Loader!TypeOK
  <2>3. found' \in Seq(Loader!Proxies)
    BY <2>1, <2>2
  <2>4. pool' \subseteq passed' /\ pool' \subseteq Loader!Proxies
    BY <1>0, <2>1 DEF Loader!TypeOK
  <2>5. Loader!TypeOK'
    BY <1>0, <1>F, <2>1, <2>3, <2>4 DEF Loader!TypeOK
  <2>. QED BY <1>0, <1>G, <2>1, <2>4, <2>5
<1>7. ASSUME Loader!ListDone PROVE Loader!LoaderIInv'
  <2>1. /\ pc = "chunks" /\ list = <<>> /\ pc' \in {"remote", "tick", "exited"}
        /\ pc' = "remote" => phase = "seed"
        /\ via' \in {1, via}
        /\ UNCHANGED <<pool, why, phase, list, waiting, probing, healthy, found, up, flips, evictions, faults, passed, probed>>
    BY <1>7, <1>E DEF Loader!ListDone
  <2>2. Loader!ToSet(list) = {}
    BY <2>1 DEF Loader!ToSet
  <2>3. Loader!TypeOK'
    BY <1>0, <1>C, <2>1 DEF Loader!TypeOK
  <2>. QED BY <1>0, <1>G, <2>1, <2>2, <2>3
<1>8. ASSUME Loader!LoadRemote PROVE Loader!LoaderIInv'
  <2>0. pc = "remote" /\ via <= MaxVia /\ UNCHANGED <<pool, why, waiting, probing, healthy, passed, probed>>
    BY <1>8 DEF Loader!LoadRemote
  <2>1. CASE /\ list' = Loader!filterOut(RemoteList, found) /\ phase' = "remote" /\ found' = <<>> /\ pc' = "chunks"
             /\ UNCHANGED <<via, up, flips, evictions, faults>>
    <3>1. list' \in Seq(Loader!Proxies)
      BY <1>C, <2>1, FilterOutType
    <3>2. Loader!TypeOK'
      BY <1>0, <2>0, <2>1, <3>1 DEF Loader!TypeOK
    <3>. QED BY <1>0, <1>G, <2>0, <2>1, <3>2
  <2>2. CASE /\ via' = via + 1 /\ UNCHANGED <<pc, list, phase, found>>
             /\ UNCHANGED Loader!envVars \/ Loader!Fault
    <3>1. Loader!TypeOK'
      BY <1>0, <1>C, <1>F, <2>0, <2>2, SMTT(30) DEF Loader!TypeOK
    <3>. QED BY <1>0, <1>G, <2>0, <2>2, <3>1
  <2>. QED BY <1>8, <2>1, <2>2 DEF Loader!LoadRemote
<1>9. ASSUME Loader!RemoteFails PROVE Loader!LoaderIInv'
  <2>1. pc = "remote" /\ pc' \in {"tick", "exited"} /\ UNCHANGED <<pool, Loader!loadVars, Loader!envVars, Loader!ghosts>>
    BY <1>9, <1>E DEF Loader!RemoteFails
  <2>2. Loader!TypeOK'
    BY <1>0, <2>1 DEF Loader!TypeOK
  <2>. QED BY <1>0, <1>G, <2>1, <2>2
<1>10. ASSUME Loader!Stop PROVE Loader!LoaderIInv'
  <2>1. pc' = "exited" /\ Loader!Fault /\ UNCHANGED <<pool, Loader!loadVars, Loader!ghosts>>
    BY <1>10 DEF Loader!Stop
  <2>2. Loader!TypeOK'
    BY <1>0, <1>F, <2>1 DEF Loader!TypeOK
  <2>. QED BY <1>0, <1>G, <2>1, <2>2
<1>11. ASSUME NEW p \in Loader!Proxies, Loader!Flip(p) \/ Loader!Evict(p) PROVE Loader!LoaderIInv'
  <2>1. /\ UNCHANGED <<pc, Loader!loadVars, faults, Loader!ghosts>> /\ pool' \subseteq pool
        /\ up' \subseteq up \union {p} /\ flips' \in {flips, flips + 1} /\ evictions' \in {evictions, evictions + 1}
        /\ flips' # flips => flips < MaxFlips
        /\ evictions' # evictions => evictions < MaxEvictions
    BY <1>11 DEF Loader!Flip, Loader!Evict
  <2>2. Loader!TypeOK'
    BY <1>0, <1>C, <2>1 DEF Loader!TypeOK
  <2>. QED BY <1>0, <1>G, <2>1, <2>2
<1>12. ASSUME UNCHANGED Loader!vars PROVE Loader!LoaderIInv'
  <2>1. Loader!TypeOK'
    BY <1>0, <1>12 DEF Loader!vars, Loader!TypeOK
  <2>. QED BY <1>0, <1>12, <1>G, <2>1 DEF Loader!vars
<1>. QED
  BY <1>1, <1>2, <1>3, <1>4, <1>5, <1>6, <1>7, <1>8, <1>9, <1>10, <1>11, <1>12
     DEF Loader!Next, Loader!LoaderStep, Loader!InitialLoad, Loader!ForceTick, Loader!TopUpTick

(***************************************************************************)
(* The loader (cmd/proxyloader, internal/proxy/loader), for any lists,     *)
(* chunk size and parallelism: only proxies that answered a probe are ever *)
(* published, and the remote list is fetched only after the whole seed     *)
(* list has been probed, whatever fails, flips or is evicted meanwhile.    *)
(***************************************************************************)
THEOREM LoaderPublishesProbed == LoaderSpec => []LoaderInv
<1>1. Loader!Init => Loader!LoaderIInv
  BY LoaderInit, LoaderConstants
<1>2. Loader!LoaderIInv /\ [Loader!Next]_Loader!vars => Loader!LoaderIInv'
  BY LoaderStep, LoaderConstants
<1>3. Loader!LoaderIInv => LoaderInv
  BY DEF Loader!LoaderIInv, LoaderInv
<1>. QED BY <1>1, <1>2, <1>3, PTL DEF LoaderSpec, Loader!Spec

=============================================================================
