---------------------------- MODULE HttpDoerProofs ----------------------------
(***************************************************************************)
(* Proofs about HttpDoer, for any goroutines, proxies, cache limit and     *)
(* number of retries: the order of the client cache lists exactly its      *)
(* proxies and the cache keeps its limit, every lease goes back to the     *)
(* pool, and one Do sends a bounded number of requests.                    *)
(***************************************************************************)
EXTENDS HttpDoer, FiniteSetTheorems, WellFoundedInduction, TLAPS

-----------------------------------------------------------------------------
(* Induction over the naturals, stated with a set instead of a predicate.  *)

LEMMA LeastNumber ==
  ASSUME NEW T \in SUBSET Nat, T # {}
  PROVE  \E x \in T : \A y \in T : x <= y
<1> DEFINE R == OpToRel(<, Nat)
<1>1. IsWellFoundedOn(R, Nat)
  BY NatLessThanWellFounded
<1>2. \A x, y \in Nat : <<x, y>> \in R <=> x < y
  BY DEF OpToRel
<1> HIDE DEF R
<1>3. PICK x \in T : \A y \in T : ~ (<<y, x>> \in R)
  BY <1>1, WFMin
<1>4. ASSUME NEW y \in T PROVE x <= y
  <2>1. ~ (<<y, x>> \in R)
    BY <1>3
  <2>2. x \in Nat /\ y \in Nat
    OBVIOUS
  <2>3. <<y, x>> \in R <=> y < x
    BY <1>2, <2>2, Zenon
  <2>4. ~ (y < x)
    BY <2>1, <2>3, Zenon
  <2>. QED BY <2>2, <2>4
<1>. QED BY <1>4

LEMMA SetInduction ==
  ASSUME NEW P \in SUBSET Nat, 0 \in P, \A n \in P : n + 1 \in P
  PROVE  P = Nat
<1> SUFFICES ASSUME NEW m \in Nat, m \notin P PROVE FALSE
  OBVIOUS
<1> DEFINE T == Nat \ P
<1>1. PICK x \in T : \A y \in T : x <= y
  <2> HIDE DEF T
  <2>1. T \in SUBSET Nat /\ T # {}
    BY DEF T
  <2>. QED BY <2>1, LeastNumber
<1>2. x # 0 /\ x - 1 \in Nat /\ x - 1 \notin T
  BY <1>1
<1>3. x - 1 \in P
  BY <1>2
<1>4. (x - 1) + 1 \in P
  BY <1>3
<1>. QED BY <1>1, <1>4

(***************************************************************************)
(* What the loop of evictIdleEntries makes of the order: the keys that are *)
(* still cached, all of them and each once.                                *)
(***************************************************************************)
LEMMA RetainEffect ==
  ASSUME NEW A, NEW s \in Seq(A), IsInjective(s), NEW S
  PROVE  /\ Retain(s, S) \in Seq(A)
         /\ ToSet(Retain(s, S)) = ToSet(s) \cap S
         /\ IsInjective(Retain(s, S))
<1> DEFINE n == Len(s)
           Step(f, i) == IF i = 0 THEN <<>>
                         ELSE IF s[i] \in S THEN Append(f[i - 1], s[i]) ELSE f[i - 1]
           Is(f, m) == f = [i \in 0 .. m |-> Step(f, i)]
           k == CHOOSE f : Is(f, n)
           Seen(i) == {s[j] : j \in 1 .. i}
           Good(i) == /\ k[i] \in Seq(A)
                      /\ ToSet(k[i]) = Seen(i) \cap S
                      /\ IsInjective(k[i])
<1>0. n \in Nat /\ DOMAIN s = 1 .. n /\ \A i \in 1 .. n : s[i] \in A
  OBVIOUS
<1>1. \E f : Is(f, n)
  <2> DEFINE P == {m \in Nat : \E f : Is(f, m)}
  <2>1. 0 \in P
    <3>1. Is([i \in 0 .. 0 |-> <<>>], 0)
      OBVIOUS
    <3>. QED BY <3>1
  <2>2. ASSUME NEW m \in P PROVE m + 1 \in P
    <3>1. PICK f : Is(f, m)
      BY <2>2
    <3> DEFINE g == [i \in 0 .. m + 1 |-> IF i <= m THEN f[i] ELSE Step(f, m + 1)]
    <3>2. ASSUME NEW i \in 0 .. m + 1 PROVE g[i] = Step(g, i)
      <4>1. CASE i = 0
        BY <3>1, <4>1
      <4>2. CASE i # 0 /\ i <= m
        <5>1. i \in 0 .. m /\ i - 1 \in 0 .. m
          BY <2>2, <4>2
        <5>2. f[i] = Step(f, i)
          BY <3>1, <5>1
        <5>3. g[i] = f[i] /\ g[i - 1] = f[i - 1]
          BY <4>2, <5>1
        <5>. QED BY <4>2, <5>2, <5>3
      <4>3. CASE i = m + 1
        <5>1. g[i] = Step(f, i) /\ g[i - 1] = f[i - 1]
          BY <4>3
        <5>. QED BY <4>3, <5>1
      <4>. QED BY <4>1, <4>2, <4>3
    <3>3. Is(g, m + 1)
      <4>1. g = [i \in 0 .. m + 1 |-> g[i]]
        OBVIOUS
      <4> HIDE DEF g, Step
      <4>. QED BY <3>2, <4>1
    <3>4. m + 1 \in Nat
      BY <2>2
    <3> HIDE DEF g, Is
    <3>. QED BY <3>3, <3>4
  <2>3. P = Nat
    <3> HIDE DEF P
    <3>1. P \in SUBSET Nat
      BY DEF P
    <3>. QED BY <2>1, <2>2, <3>1, SetInduction
  <2>. QED BY <1>0, <2>3
<1>2. Is(k, n)
  BY <1>1
<1>3. Retain(s, S) = k[n]
  BY DEF Retain
<1> HIDE DEF k
<1>4. k[0] = <<>> /\ \A i \in 1 .. n : k[i] = IF s[i] \in S THEN Append(k[i - 1], s[i]) ELSE k[i - 1]
  <2>1. \A i \in 0 .. n : k[i] = Step(k, i)
    <3> HIDE DEF Step
    <3>. QED BY <1>2
  <2>. QED BY <1>0, <2>1
<1>5. Good(0)
  BY <1>4 DEF ToSet, IsInjective
<1>6. ASSUME NEW i \in Nat, i < n, Good(i) PROVE Good(i + 1)
  <2>1. i + 1 \in 1 .. n /\ k[i + 1] = IF s[i + 1] \in S THEN Append(k[i], s[i + 1]) ELSE k[i]
    BY <1>0, <1>4, <1>6
  <2>2. Seen(i + 1) = Seen(i) \union {s[i + 1]} /\ s[i + 1] \notin Seen(i)
    BY <1>0, <2>1 DEF IsInjective
  <2> HIDE DEF Seen
  <2>3. CASE s[i + 1] \notin S
    BY <1>6, <2>1, <2>2, <2>3
  <2>4. CASE s[i + 1] \in S
    <3> DEFINE q == k[i]  e == s[i + 1]
    <3>1. q \in Seq(A) /\ e \in A /\ k[i + 1] = Append(q, e) /\ Len(q) \in Nat
      BY <1>0, <1>6, <2>1, <2>4
    <3>2. ToSet(q) = Seen(i) \cap S /\ IsInjective(q) /\ e \notin ToSet(q)
      BY <1>6, <2>2
    <3> HIDE DEF q, e
    <3>3. ToSet(Append(q, e)) = ToSet(q) \union {e}
      BY <3>1, SMTT(30) DEF ToSet
    <3>4. IsInjective(Append(q, e))
      BY <3>1, <3>2 DEF ToSet, IsInjective
    <3>. QED BY <2>2, <2>4, <3>1, <3>2, <3>3, <3>4 DEF e
  <2>. QED BY <2>3, <2>4
<1>7. Good(n)
  <2> DEFINE P == {i \in Nat : i <= n => Good(i)}
  <2> HIDE DEF Good
  <2>1. 0 \in P
    BY <1>5
  <2>2. ASSUME NEW i \in P PROVE i + 1 \in P
    BY <1>0, <1>6, <2>2
  <2>3. P = Nat
    <3> HIDE DEF P
    <3>1. P \in SUBSET Nat
      BY DEF P
    <3>. QED BY <2>1, <2>2, <3>1, SetInduction
  <2>. QED BY <1>0, <2>3
<1>8. Seen(n) = ToSet(s)
  BY <1>0 DEF ToSet
<1>. QED BY <1>3, <1>7, <1>8

-----------------------------------------------------------------------------
(* Types and the number of requests.                                       *)

\* A goroutine that runs a step of Do changes nothing of the others.
LEMMA OwnCallOnly ==
  ASSUME TypeOK, NEW c \in Callers, Start(c) \/ CallerStep(c)
  PROVE  \A d \in Callers : d # c => call'[d] = call[d]
<1>1. call \in [Callers -> CallState]
  BY DEF TypeOK
<1>2. ASSUME NextAttempt(c) \/ Return(c) PROVE \A d \in Callers : d # c => call'[d] = call[d]
  BY <1>1, <1>2 DEF NextAttempt, Return
<1>3. ASSUME NEW p, NEW o, Goto(c, p) \/ Ends(c, p, o) PROVE \A d \in Callers : d # c => call'[d] = call[d]
  BY <1>1, <1>3 DEF Goto, Ends
<1>4. CASE Start(c)
  BY <1>1, <1>4 DEF Start
<1>5. CASE \E p \in Proxies : Acquire(c, p)
  BY <1>1, <1>5 DEF Acquire
<1>6. CASE AcquireFails(c)
  BY <1>3, <1>6 DEF AcquireFails
<1>7. CASE getClient(c)
  BY <1>1, <1>3, <1>7 DEF getClient
<1>8. ASSUME NEW o, Send(c, o) PROVE \A d \in Callers : d # c => call'[d] = call[d]
  BY <1>1, <1>8 DEF Send
<1>9. CASE Release(c) \/ doDirect(c)
  BY <1>1, <1>9 DEF Release, doDirect
<1>10. CASE Decide(c) \/ Backoff(c)
  BY <1>2, <1>3, <1>10 DEF Decide, Backoff
<1>11. ASSUME NEW o, DirectReply(c, o) PROVE \A d \in Callers : d # c => call'[d] = call[d]
  BY <1>2, <1>3, <1>11 DEF DirectReply
<1>. QED BY <1>4, <1>5, <1>6, <1>7, <1>8, <1>9, <1>10, <1>11 DEF CallerStep

\* What one step of Do makes of the goroutine's own record: it stays well-typed, and a
\* request is counted against the attempt it belongs to.
LEMMA OwnCall ==
  ASSUME TypeOK, AttemptsCounted, NEW c \in Callers, Start(c) \/ CallerStep(c)
  PROVE  /\ call' \in [Callers -> CallState]
         /\ call'[c].sent <= call'[c].attempt
              - (IF call'[c].pc \in {"attempt", "client", "send", "direct"} THEN 1 ELSE 0)
         /\ call'[c].attempt > MaxRetries => AllowDirect /\ call'[c].pc \in {"direct", "reply"}
<1> DEFINE Goal == /\ call' \in [Callers -> CallState]
                   /\ call'[c].sent <= call'[c].attempt
                        - (IF call'[c].pc \in {"attempt", "client", "send", "direct"} THEN 1 ELSE 0)
                   /\ call'[c].attempt > MaxRetries => AllowDirect /\ call'[c].pc \in {"direct", "reply"}
<1>1. /\ call \in [Callers -> CallState] /\ call[c] \in CallState
      /\ MaxRetries \in Nat \ {0} /\ Idle \in CallState
  BY ConstantsAssumption DEF TypeOK, CallState, Idle, PC, Keys, Outcome
<1>2. /\ call[c].sent <= call[c].attempt
            - (IF call[c].pc \in {"attempt", "client", "send", "direct"} THEN 1 ELSE 0)
      /\ call[c].attempt > MaxRetries => AllowDirect /\ call[c].pc \in {"direct", "reply"}
  BY DEF AttemptsCounted
<1>3. call[c].sent \in Nat /\ call[c].attempt \in 0 .. MaxRetries + 1
  BY <1>1 DEF CallState
<1>4. ASSUME NEW r \in CallState, call' = [call EXCEPT ![c] = r],
             r.sent <= r.attempt - (IF r.pc \in {"attempt", "client", "send", "direct"} THEN 1 ELSE 0),
             r.attempt > MaxRetries => AllowDirect /\ r.pc \in {"direct", "reply"}
      PROVE  Goal
  BY <1>1, <1>4
<1>R. ASSUME Return(c) PROVE Goal
  BY <1>1, <1>4, <1>R DEF Return, Idle
<1>N. ASSUME NextAttempt(c), call[c].pc \in {"decide", "backoff"} PROVE Goal
  <2> DEFINE n == call[c].attempt + 1
             r == [call[c] EXCEPT !.attempt = n, !.pc = IF n <= MaxRetries THEN "attempt" ELSE "direct"]
  <2>1. call[c].attempt <= MaxRetries /\ call[c].sent <= call[c].attempt
    BY <1>1, <1>2, <1>3, <1>N
  <2>2. CASE n <= MaxRetries \/ AllowDirect
    <3>1. call' = [call EXCEPT ![c] = r]
      BY <1>1, <1>N, <2>2 DEF NextAttempt, CallState
    <3>2. r \in CallState
      <4>1. n \in 0 .. MaxRetries + 1
        BY <1>1, <1>3, <2>1
      <4> HIDE DEF n
      <4>. QED BY <1>1, <4>1 DEF CallState, PC
    <3>3. r.sent = call[c].sent /\ r.attempt = n /\ r.pc = (IF n <= MaxRetries THEN "attempt" ELSE "direct")
      BY <1>1 DEF CallState
    <3>4. r.sent <= r.attempt - 1 /\ (r.attempt > MaxRetries => AllowDirect /\ r.pc = "direct")
      BY <1>1, <1>3, <2>1, <2>2, <3>3
    <3> HIDE DEF r
    <3>. QED BY <1>1, <1>3, <1>4, <3>1, <3>2, <3>3, <3>4
  <2>3. CASE ~(n <= MaxRetries \/ AllowDirect)
    BY <1>N, <1>R, <2>3 DEF NextAttempt
  <2>. QED BY <2>2, <2>3
<1>G. ASSUME NEW p \in PC, NEW o \in Outcome, Goto(c, p) \/ Ends(c, p, o),
             \/ call[c].pc \in {"client", "decide", "reply", "attempt"} /\ p = call[c].pc
             \/ call[c].pc = "attempt" /\ p \in {"direct", "decide"}
             \/ call[c].pc = "client" /\ p = "send"
             \/ call[c].pc = "decide" /\ p = "backoff"
             \/ call[c].pc = "reply" /\ call[c].attempt <= MaxRetries /\ p = "decide"
      PROVE  Goal
  <2>1. PICK x \in Outcome : call' = [call EXCEPT ![c] = [call[c] EXCEPT !.pc = p, !.outcome = x]]
    <3>1. CASE Goto(c, p)
      <4>1. [call[c] EXCEPT !.pc = p] = [call[c] EXCEPT !.pc = p, !.outcome = call[c].outcome]
        BY <1>1 DEF CallState
      <4>. QED BY <1>1, <3>1, <4>1 DEF Goto, CallState
    <3>2. CASE Ends(c, p, o)
      BY <1>1, <3>2 DEF Ends, CallState
    <3>. QED BY <1>G, <3>1, <3>2
  <2> DEFINE r == [call[c] EXCEPT !.pc = p, !.outcome = x]
  <2>2. r \in CallState /\ r.pc = p /\ r.sent = call[c].sent /\ r.attempt = call[c].attempt
    BY <1>1 DEF CallState
  <2> HIDE DEF r
  <2>3. r.sent <= r.attempt - (IF r.pc \in {"attempt", "client", "send", "direct"} THEN 1 ELSE 0)
    BY <1>2, <1>3, <1>G, <2>2
  <2>4. r.attempt > MaxRetries => AllowDirect /\ r.pc \in {"direct", "reply"}
    BY <1>1, <1>2, <1>3, <1>G, <2>2
  <2>. QED BY <1>4, <2>1, <2>2, <2>3, <2>4 DEF r
<1>5. CASE Start(c)
  <2> DEFINE r == [Idle EXCEPT !.pc = "attempt", !.attempt = 1]
  <2>1. r \in CallState /\ r.sent = 0 /\ r.attempt = 1 /\ r.pc = "attempt"
    <3>1. 1 \in 0 .. MaxRetries + 1
      BY <1>1
    <3>2. r \in CallState
      BY <1>1, <3>1 DEF CallState, PC
    <3>. QED BY <3>2 DEF Idle
  <2>2. call' = [call EXCEPT ![c] = r]
    BY <1>5 DEF Start
  <2> HIDE DEF r
  <2>. QED BY <1>1, <1>4, <2>1, <2>2
<1>6. ASSUME NEW p \in Proxies, Acquire(c, p) PROVE Goal
  <2> DEFINE r == [call[c] EXCEPT !.pc = "client", !.url = p, !.mark = "none"]
  <2>1. r \in CallState /\ r.sent = call[c].sent /\ r.attempt = call[c].attempt /\ r.pc = "client"
    BY <1>1 DEF CallState, PC, Keys
  <2>2. call' = [call EXCEPT ![c] = r] /\ call[c].pc = "attempt"
    BY <1>1, <1>6 DEF Acquire, At, CallState
  <2> HIDE DEF r
  <2>. QED BY <1>1, <1>2, <1>3, <1>4, <2>1, <2>2
<1>7. CASE AcquireFails(c)
  BY <1>7, <1>G DEF AcquireFails, At, PC, Outcome
<1>8. CASE getClient(c)
  <2>1. CASE Goto(c, "send")
    BY <1>8, <1>G, <2>1 DEF getClient, At, PC, Outcome
  <2>2. CASE call' = [call EXCEPT ![c].pc = "release", ![c].outcome = "error", ![c].mark = "failure"]
    <3> DEFINE r == [call[c] EXCEPT !.pc = "release", !.outcome = "error", !.mark = "failure"]
    <3>1. r \in CallState /\ r.sent = call[c].sent /\ r.attempt = call[c].attempt /\ r.pc = "release"
      BY <1>1 DEF CallState, PC, Outcome
    <3>2. call' = [call EXCEPT ![c] = r] /\ call[c].pc = "client"
      BY <1>1, <1>8, <2>2 DEF getClient, At, CallState
    <3> HIDE DEF r
    <3>. QED BY <1>1, <1>2, <1>3, <1>4, <3>1, <3>2
  <2>. QED BY <1>8, <2>1, <2>2 DEF getClient
<1>9. ASSUME NEW o \in Outcome, Send(c, o) PROVE Goal
  <2> DEFINE k == call[c].sent + 1
             r == [call[c] EXCEPT !.pc = "release", !.outcome = o,
                                  !.mark = IF o = "ok" THEN "success" ELSE "failure", !.sent = k]
  <2>1. r \in CallState /\ r.sent = k /\ r.attempt = call[c].attempt /\ r.pc = "release"
    <3>1. k \in Nat
      BY <1>3
    <3> HIDE DEF k
    <3>. QED BY <1>1, <3>1 DEF CallState, PC
  <2>2. call' = [call EXCEPT ![c] = r] /\ call[c].pc = "send"
    BY <1>1, <1>9 DEF Send, At, CallState
  <2> HIDE DEF r
  <2>. QED BY <1>1, <1>2, <1>3, <1>4, <2>1, <2>2
<1>10. CASE Release(c)
  <2> DEFINE r == [call[c] EXCEPT !.pc = "decide", !.url = Direct, !.mark = "none"]
  <2>1. r \in CallState /\ r.sent = call[c].sent /\ r.attempt = call[c].attempt /\ r.pc = "decide"
    BY <1>1 DEF CallState, PC, Keys
  <2>2. call' = [call EXCEPT ![c] = r] /\ call[c].pc = "release"
    BY <1>1, <1>10 DEF Release, At, CallState
  <2> HIDE DEF r
  <2>. QED BY <1>1, <1>2, <1>3, <1>4, <2>1, <2>2
<1>11. CASE doDirect(c)
  <2> DEFINE k == call[c].sent + 1
             r == [call[c] EXCEPT !.pc = "reply", !.sent = k]
  <2>1. r \in CallState /\ r.sent = k /\ r.attempt = call[c].attempt /\ r.pc = "reply"
    <3>1. k \in Nat
      BY <1>3
    <3> HIDE DEF k
    <3>. QED BY <1>1, <3>1 DEF CallState, PC
  <2>2. call' = [call EXCEPT ![c] = r] /\ call[c].pc = "direct"
    BY <1>1, <1>11 DEF doDirect, At, CallState
  <2> HIDE DEF r
  <2>. QED BY <1>1, <1>2, <1>3, <1>4, <2>1, <2>2
<1>12. CASE Decide(c)
  BY <1>12, <1>G, <1>N, <1>R DEF Decide, At, PC, Outcome
<1>13. CASE Backoff(c)
  BY <1>13, <1>N, <1>R DEF Backoff, At
<1>14. ASSUME NEW o \in {"ok", "error"}, DirectReply(c, o) PROVE Goal
  <2>1. CASE Return(c)
    BY <1>R, <2>1
  <2>2. CASE ~(call[c].attempt > MaxRetries) /\ Ends(c, "decide", o)
    <3>1. call[c].attempt <= MaxRetries
      BY <1>1, <1>3, <2>2
    <3>2. call[c].pc = "reply" /\ o \in Outcome /\ "decide" \in PC
      BY <1>14 DEF DirectReply, At, Outcome, PC
    <3>. QED BY <1>G, <2>2, <3>1, <3>2
  <2>. QED BY <1>14, <2>1, <2>2 DEF DirectReply
<1>15. \A code \in {200, 404, 429, 503} : OutcomeOf(code) \in Outcome
  BY DEF OutcomeOf, IsPermanent, Outcome
<1>16. {"fault", "error"} \subseteq Outcome
  BY DEF Outcome
<1>17. CASE \E code \in {200, 404, 429, 503} : Send(c, OutcomeOf(code))
  BY <1>9, <1>15, <1>17
<1>18. CASE \E o \in {"fault", "error"} : Send(c, o)
  BY <1>9, <1>16, <1>18
<1>. QED
  BY <1>5, <1>6, <1>7, <1>8, <1>10, <1>11, <1>12, <1>13, <1>14, <1>17, <1>18 DEF CallerStep

LEMMA CallsStep ==
  TypeOK /\ AttemptsCounted /\ [Next]_vars => call' \in [Callers -> CallState] /\ AttemptsCounted'
<1> SUFFICES ASSUME TypeOK, AttemptsCounted, [Next]_vars
             PROVE  call' \in [Callers -> CallState] /\ AttemptsCounted'
  OBVIOUS
<1>1. ASSUME NEW c \in Callers, Start(c) \/ CallerStep(c)
      PROVE  call' \in [Callers -> CallState] /\ AttemptsCounted'
  BY <1>1, OwnCall, OwnCallOnly DEF AttemptsCounted
<1>2. ASSUME call' = call PROVE call' \in [Callers -> CallState] /\ AttemptsCounted'
  BY <1>2 DEF TypeOK, AttemptsCounted
<1>. QED BY <1>1, <1>2 DEF Next, evictIdleEntries, Close, Tick, vars

-----------------------------------------------------------------------------
(* Leases.                                                                 *)

LEMMA LeaseStep ==
  TypeOK /\ AttemptsCounted /\ LeaseReturned /\ [Next]_vars => held' \in SUBSET Proxies /\ LeaseReturned'
<1> SUFFICES ASSUME TypeOK, AttemptsCounted, LeaseReturned, [Next]_vars
             PROVE  held' \in SUBSET Proxies /\ LeaseReturned'
  OBVIOUS
<1> DEFINE Busy == {"client", "send", "release"}
           Goal == held' \in SUBSET Proxies /\ LeaseReturned'
<1>0. /\ call \in [Callers -> CallState] /\ call' \in [Callers -> CallState] /\ held \in SUBSET Proxies
      /\ held = {call[d].url : d \in {e \in Callers : call[e].pc \in Busy}}
      /\ \A d, e \in Callers : call[d].pc \in Busy /\ call[e].pc \in Busy /\ d # e => call[d].url # call[e].url
      /\ \A d \in Callers : call[d].pc = "release" => call[d].mark # "none"
  BY CallsStep DEF TypeOK, LeaseReturned, At
\* A goroutine that holds no lease before and after a step, or the same one.
<1>A. ASSUME NEW c \in Callers, \A d \in Callers : d # c => call'[d] = call[d], held' = held,
             \/ call[c].pc \notin Busy /\ call'[c].pc \notin Busy
             \/ /\ call[c].pc \in Busy /\ call'[c].pc \in Busy /\ call'[c].url = call[c].url
                /\ call'[c].pc = "release" => call'[c].mark # "none"
      PROVE  Goal
  <2>1. \A d \in Callers : /\ call'[d].pc \in Busy <=> call[d].pc \in Busy
                           /\ call[d].pc \in Busy => call'[d].url = call[d].url
                           /\ call'[d].pc = "release" => call'[d].mark # "none"
    BY <1>0, <1>A
  <2> HIDE DEF Busy
  <2>2. held' = {call'[d].url : d \in {e \in Callers : call'[e].pc \in Busy}}
    BY <1>0, <1>A, <2>1
  <2>3. \A d, e \in Callers : call'[d].pc \in Busy /\ call'[e].pc \in Busy /\ d # e
                                => call'[d].url # call'[e].url
    BY <1>0, <2>1
  <2>. QED BY <1>0, <1>A, <2>1, <2>2, <2>3 DEF LeaseReturned, At, Busy
<1>1. ASSUME NEW c \in Callers, NEW p \in Proxies, Acquire(c, p) PROVE Goal
  <2>1. /\ \A d \in Callers : d # c => call'[d] = call[d]
        /\ call[c].pc = "attempt" /\ call'[c].pc = "client" /\ call'[c].url = p
        /\ p \notin held /\ held' = held \union {p}
    BY <1>0, <1>1 DEF Acquire, At, CallState
  <2>2. \A d \in Callers : call'[d].pc \in Busy <=> d = c \/ call[d].pc \in Busy
    BY <1>0, <2>1
  <2>3. \A d \in Callers : call'[d].pc = "release" => d # c
    BY <2>1
  <2> HIDE DEF Busy
  <2>4. held' = {call'[d].url : d \in {e \in Callers : call'[e].pc \in Busy}}
    <3>1. ASSUME NEW q \in held' PROVE \E d \in Callers : call'[d].pc \in Busy /\ call'[d].url = q
      <4>1. CASE q = p
        BY <2>1, <2>2, <4>1
      <4>2. CASE q # p
        <5>1. PICK d \in Callers : call[d].pc \in Busy /\ call[d].url = q
          BY <1>0, <2>1, <3>1, <4>2
        <5>2. d # c
          BY <2>1, <5>1 DEF Busy
        <5>. QED BY <2>1, <2>2, <5>1, <5>2
      <4>. QED BY <4>1, <4>2
    <3>2. ASSUME NEW d \in Callers, call'[d].pc \in Busy PROVE call'[d].url \in held'
      BY <1>0, <2>1, <2>2, <3>2
    <3>. QED BY <3>1, <3>2
  <2>5. \A d, e \in Callers : call'[d].pc \in Busy /\ call'[e].pc \in Busy /\ d # e
                                => call'[d].url # call'[e].url
    BY <1>0, <2>1, <2>2
  <2>. QED BY <1>0, <2>1, <2>3, <2>4, <2>5 DEF LeaseReturned, At, Busy
<1>2. ASSUME NEW c \in Callers, Release(c) PROVE Goal
  <2>1. /\ \A d \in Callers : d # c => call'[d] = call[d]
        /\ call[c].pc = "release" /\ call'[c].pc = "decide"
        /\ held' = held \ {call[c].url}
    BY <1>0, <1>2 DEF Release, At, CallState
  <2>2. \A d \in Callers : call'[d].pc \in Busy <=> d # c /\ call[d].pc \in Busy
    BY <1>0, <2>1
  <2>3. \A d \in Callers : call'[d].pc = "release" => d # c
    BY <2>1
  <2>4. call[c].pc \in Busy
    BY <2>1
  <2> HIDE DEF Busy
  <2>5. held' = {call'[d].url : d \in {e \in Callers : call'[e].pc \in Busy}}
    <3>1. ASSUME NEW q \in held' PROVE \E d \in Callers : call'[d].pc \in Busy /\ call'[d].url = q
      <4>1. PICK d \in Callers : call[d].pc \in Busy /\ call[d].url = q
        BY <1>0, <2>1, <3>1
      <4>2. d # c
        BY <2>1, <3>1, <4>1
      <4>. QED BY <2>1, <2>2, <4>1, <4>2
    <3>2. ASSUME NEW d \in Callers, call'[d].pc \in Busy PROVE call'[d].url \in held'
      <4>1. d # c /\ call[d].pc \in Busy /\ call'[d].url = call[d].url
        BY <2>1, <2>2, <3>2
      <4>2. call[d].url # call[c].url /\ call[d].url \in held
        BY <1>0, <2>4, <4>1
      <4>. QED BY <2>1, <4>1, <4>2
    <3>. QED BY <3>1, <3>2
  <2>6. \A d, e \in Callers : call'[d].pc \in Busy /\ call'[e].pc \in Busy /\ d # e
                                => call'[d].url # call'[e].url
    BY <1>0, <2>1, <2>2
  <2>. QED BY <1>0, <2>1, <2>3, <2>5, <2>6 DEF LeaseReturned, At, Busy
<1>3. ASSUME NEW c \in Callers, getClient(c) PROVE Goal
  <2>1. \A d \in Callers : d # c => call'[d] = call[d]
    BY <1>3, OwnCallOnly DEF CallerStep
  <2>2. call[c].pc = "client" /\ held' = held
    BY <1>3 DEF getClient, At
  <2>3. \/ call'[c].pc = "send" /\ call'[c].url = call[c].url
        \/ call'[c].pc = "release" /\ call'[c].url = call[c].url /\ call'[c].mark = "failure"
    BY <1>0, <1>3 DEF getClient, Goto, CallState
  <2>. QED BY <1>A, <2>1, <2>2, <2>3
<1>4. ASSUME NEW c \in Callers, NEW o, Send(c, o) PROVE Goal
  <2>1. /\ \A d \in Callers : d # c => call'[d] = call[d]
        /\ call[c].pc = "send" /\ held' = held /\ call'[c].pc = "release" /\ call'[c].url = call[c].url
        /\ call'[c].mark # "none"
    BY <1>0, <1>4 DEF Send, At, CallState
  <2>. QED BY <1>A, <2>1
<1>5. ASSUME NEW c \in Callers,
             \/ Start(c) \/ AcquireFails(c) \/ Decide(c) \/ Backoff(c) \/ doDirect(c)
             \/ \E o \in {"ok", "error"} : DirectReply(c, o)
      PROVE  Goal
  <2>1. \A d \in Callers : d # c => call'[d] = call[d]
    BY <1>5, OwnCallOnly DEF CallerStep
  <2>2. held' = held /\ call[c].pc \in {"idle", "attempt", "decide", "backoff", "direct", "reply"}
    BY <1>5 DEF Start, AcquireFails, Decide, Backoff, doDirect, DirectReply, At
  <2>3. call'[c].pc \in {"idle", "attempt", "decide", "backoff", "direct", "reply"}
    <3>1. Return(c) \/ NextAttempt(c) => call'[c].pc \in {"idle", "attempt", "direct"}
      BY <1>0 DEF Return, NextAttempt, Idle, CallState
    <3>2. \A p, o : Goto(c, p) \/ Ends(c, p, o) => call'[c].pc = p
      BY <1>0 DEF Goto, Ends, CallState
    <3>3. Start(c) \/ doDirect(c) => call'[c].pc \in {"attempt", "reply"}
      BY <1>0, ZenonT(30) DEF Start, doDirect, Idle, CallState
    <3>. QED BY <1>5, <3>1, <3>2, <3>3 DEF AcquireFails, Decide, Backoff, DirectReply
  <2>. QED BY <1>A, <2>1, <2>2, <2>3
<1>6. ASSUME UNCHANGED <<call, held>> PROVE Goal
  BY <1>0, <1>6 DEF LeaseReturned, At
<1>7. ASSUME NEW c \in Callers, CallerStep(c) PROVE Goal
  BY <1>1, <1>2, <1>3, <1>4, <1>5, <1>7 DEF CallerStep
<1>. QED BY <1>5, <1>6, <1>7 DEF Next, evictIdleEntries, Close, Tick, vars

-----------------------------------------------------------------------------
(* The cache.                                                              *)

\* RemoveAt on a sequence without repetitions.
LEMMA RemoveAtEffect ==
  ASSUME NEW A, NEW s \in Seq(A), IsInjective(s), NEW i \in DOMAIN s
  PROVE  /\ RemoveAt(s, i) \in Seq(A)
         /\ ToSet(RemoveAt(s, i)) = ToSet(s) \ {s[i]}
         /\ IsInjective(RemoveAt(s, i))
<1> DEFINE n == Len(s)  r == RemoveAt(s, i)
<1>1. n \in Nat /\ i \in 1 .. n /\ DOMAIN s = 1 .. n
  OBVIOUS
<1>2. /\ r \in Seq(A) /\ Len(r) = n - 1
      /\ \A j \in 1 .. n - 1 : r[j] = IF j < i THEN s[j] ELSE s[j + 1]
  <2> DEFINE a == SubSeq(s, 1, i - 1)  b == SubSeq(s, i + 1, n)
  <2>1. a \in Seq(A) /\ Len(a) = i - 1 /\ \A j \in 1 .. i - 1 : a[j] = s[j]
    BY <1>1
  <2>2. b \in Seq(A) /\ Len(b) = n - i /\ \A j \in 1 .. n - i : b[j] = s[i + j]
    BY <1>1
  <2>3. r = a \o b
    BY DEF RemoveAt
  <2> HIDE DEF a, b, r
  <2>4. r \in Seq(A) /\ Len(r) = n - 1
    <3>1. a \in Seq(A) /\ b \in Seq(A)
      BY <2>1, <2>2
    <3>2. a \o b \in Seq(A) /\ Len(a \o b) = Len(a) + Len(b)
      BY <3>1
    <3>. QED BY <1>1, <2>1, <2>2, <2>3, <3>2
  <2>5. ASSUME NEW j \in 1 .. n - 1 PROVE r[j] = IF j < i THEN s[j] ELSE s[j + 1]
    <3>1. CASE j < i
      BY <1>1, <2>1, <2>2, <2>3, <3>1
    <3>2. CASE j >= i
      <4>1. j - (i - 1) \in 1 .. n - i /\ i + (j - (i - 1)) = j + 1
        BY <1>1, <3>2
      <4>2. r[j] = b[j - (i - 1)]
        BY <1>1, <2>1, <2>2, <2>3, <3>2, SMTT(30)
      <4>. QED BY <1>1, <2>2, <3>2, <4>1, <4>2
    <3>. QED BY <1>1, <3>1, <3>2
  <2>. QED BY <2>4, <2>5
<1> HIDE DEF r
<1>3. ToSet(r) \subseteq ToSet(s) \ {s[i]}
  BY <1>1, <1>2 DEF ToSet, IsInjective
<1>4. ASSUME NEW j \in 1 .. n, j # i PROVE s[j] \in ToSet(r)
  <2>1. CASE j < i
    <3>1. j \in 1 .. n - 1 /\ r[j] = s[j]
      BY <1>1, <1>2, <2>1
    <3>. QED BY <1>2, <3>1 DEF ToSet
  <2>2. CASE j > i
    <3>1. j - 1 \in 1 .. n - 1 /\ r[j - 1] = s[j]
      BY <1>1, <1>2, <2>2
    <3>. QED BY <1>2, <3>1 DEF ToSet
  <2>. QED BY <1>1, <1>4, <2>1, <2>2
<1>5. ToSet(s) \ {s[i]} \subseteq ToSet(r)
  BY <1>1, <1>4 DEF ToSet
<1>6. IsInjective(r)
  <2> SUFFICES ASSUME NEW j \in 1 .. n - 1, NEW l \in 1 .. n - 1, r[j] = r[l] PROVE j = l
    BY <1>2 DEF IsInjective
  <2> DEFINE At0(x) == IF x < i THEN x ELSE x + 1
  <2>1. At0(j) \in 1 .. n /\ At0(l) \in 1 .. n /\ r[j] = s[At0(j)] /\ r[l] = s[At0(l)]
    BY <1>1, <1>2
  <2>2. At0(j) = At0(l)
    <3> HIDE DEF At0
    <3>. QED BY <1>1, <2>1 DEF IsInjective
  <2>. QED BY <1>1, <2>2
<1>. QED BY <1>2, <1>3, <1>5, <1>6 DEF r

LEMMA AppendEffect ==
  ASSUME NEW A, NEW s \in Seq(A), IsInjective(s), NEW e \in A, e \notin ToSet(s)
  PROVE  /\ Append(s, e) \in Seq(A)
         /\ ToSet(Append(s, e)) = ToSet(s) \union {e}
         /\ IsInjective(Append(s, e))
<1>1. Len(s) \in Nat
  OBVIOUS
<1> DEFINE r == Append(s, e)
<1>2. r \in Seq(A) /\ Len(r) = Len(s) + 1 /\ r[Len(s) + 1] = e /\ \A j \in 1 .. Len(s) : r[j] = s[j]
  BY <1>1
<1> HIDE DEF r
<1>3. ToSet(r) \subseteq ToSet(s) \union {e}
  BY <1>1, <1>2 DEF ToSet
<1>4. e \in ToSet(r) /\ ToSet(s) \subseteq ToSet(r)
  BY <1>1, <1>2 DEF ToSet
<1>5. IsInjective(r)
  BY <1>1, <1>2 DEF ToSet, IsInjective
<1>. QED BY <1>2, <1>3, <1>4, <1>5 DEF r

LEMMA TailEffect ==
  ASSUME NEW A, NEW s \in Seq(A), IsInjective(s), s # <<>>
  PROVE  /\ Tail(s) \in Seq(A) /\ Head(s) \in ToSet(s) /\ Head(s) \in A
         /\ ToSet(Tail(s)) = ToSet(s) \ {Head(s)}
         /\ IsInjective(Tail(s))
<1> DEFINE n == Len(s)  r == Tail(s)
<1>1. n \in Nat \ {0} /\ DOMAIN s = 1 .. n /\ Head(s) = s[1] /\ s[1] \in A
  OBVIOUS
<1>2. r \in Seq(A) /\ Len(r) = n - 1 /\ \A j \in 1 .. n - 1 : r[j] = s[j + 1]
  BY <1>1
<1> HIDE DEF r
<1>3. ToSet(r) \subseteq ToSet(s) \ {s[1]}
  BY <1>1, <1>2 DEF ToSet, IsInjective
<1>4. ASSUME NEW j \in 1 .. n, j # 1 PROVE s[j] \in ToSet(r)
  <2>1. j - 1 \in 1 .. n - 1 /\ r[j - 1] = s[j]
    BY <1>1, <1>2, <1>4
  <2>. QED BY <1>2, <2>1 DEF ToSet
<1>5. ToSet(s) \ {s[1]} \subseteq ToSet(r)
  BY <1>1, <1>4 DEF ToSet
<1>6. IsInjective(r)
  BY <1>1, <1>2, SMTT(30) DEF IsInjective
<1>7. s[1] \in ToSet(s)
  BY <1>1 DEF ToSet
<1>. QED BY <1>1, <1>2, <1>3, <1>5, <1>6, <1>7 DEF r

\* touchAccessOrder moves a listed key to the end and appends any other.
LEMMA TouchEffect ==
  ASSUME accessOrder \in Seq(Proxies), IsInjective(accessOrder), NEW k \in Proxies
  PROVE  /\ touchAccessOrder(k) \in Seq(Proxies)
         /\ ToSet(touchAccessOrder(k)) = ToSet(accessOrder) \union {k}
         /\ IsInjective(touchAccessOrder(k))
<1>1. CASE k \in ToSet(accessOrder)
  <2> DEFINE i == CHOOSE j \in DOMAIN accessOrder : accessOrder[j] = k
             rest == RemoveAt(accessOrder, i)
  <2>1. i \in DOMAIN accessOrder /\ accessOrder[i] = k
    BY <1>1 DEF ToSet
  <2>2. touchAccessOrder(k) = Append(rest, k)
    BY <1>1 DEF touchAccessOrder
  <2> HIDE DEF i
  <2>3. rest \in Seq(Proxies) /\ ToSet(rest) = ToSet(accessOrder) \ {k} /\ IsInjective(rest)
    BY <2>1, RemoveAtEffect
  <2> HIDE DEF rest
  <2>4. k \notin ToSet(rest)
    BY <2>3
  <2>5. /\ Append(rest, k) \in Seq(Proxies) /\ IsInjective(Append(rest, k))
        /\ ToSet(Append(rest, k)) = ToSet(rest) \union {k}
    BY <2>3, <2>4, AppendEffect
  <2>. QED BY <1>1, <2>2, <2>3, <2>5
<1>2. CASE k \notin ToSet(accessOrder)
  BY <1>2, AppendEffect DEF touchAccessOrder
<1>. QED BY <1>1, <1>2

\* One key more in a cache that has room, not counting the direct entry.
LEMMA RoomForOne ==
  ASSUME NEW D, IsFiniteSet(D), NEW k, k # Direct, Cardinality(D \ {Direct}) < MaxEntries,
         MaxEntries \in Nat
  PROVE  /\ IsFiniteSet(D \union {k})
         /\ Cardinality((D \union {k}) \ {Direct}) <= MaxEntries
<1>1. (D \union {k}) \ {Direct} = (D \ {Direct}) \union {k}
  OBVIOUS
<1>2. IsFiniteSet(D \ {Direct}) /\ IsFiniteSet(D \union {k})
  BY FS_RemoveElement, FS_AddElement
<1>3. Cardinality(D \ {Direct}) \in Nat
  BY <1>2, FS_CardinalityType
<1>4. Cardinality((D \ {Direct}) \union {k}) <= Cardinality(D \ {Direct}) + 1
  <2> DEFINE E == D \ {Direct}
  <2>1. Cardinality(E \union {k}) = IF k \in E THEN Cardinality(E) ELSE Cardinality(E) + 1
    <3> HIDE DEF E
    <3>. QED BY <1>2, FS_AddElement DEF E
  <2>. QED BY <1>3, <2>1
<1>5. IsFiniteSet((D \ {Direct}) \union {k})
  BY <1>2, FS_AddElement
<1>6. Cardinality((D \ {Direct}) \union {k}) \in Nat
  BY <1>5, FS_CardinalityType
<1>. QED BY <1>1, <1>2, <1>3, <1>4, <1>6

\* The direct entry comes on top of at most MaxEntries proxies.
LEMMA DirectOnTop ==
  ASSUME NEW D, IsFiniteSet(D), Cardinality(D \ {Direct}) <= MaxEntries, MaxEntries \in Nat
  PROVE  Cardinality(D) <= MaxEntries + 1
<1>1. IsFiniteSet(D \ {Direct}) /\ Cardinality(D) \in Nat
  BY FS_RemoveElement, FS_CardinalityType
<1>2. Cardinality(D \ {Direct}) = IF Direct \in D THEN Cardinality(D) - 1 ELSE Cardinality(D)
  BY FS_RemoveElement
<1>. QED BY <1>1, <1>2

\* A smaller cache keeps the limit.
LEMMA FewerProxies ==
  ASSUME NEW D, IsFiniteSet(D), NEW E, E \ {Direct} \subseteq D \ {Direct},
         Cardinality(D \ {Direct}) <= MaxEntries, MaxEntries \in Nat
  PROVE  /\ IsFiniteSet(E)
         /\ Cardinality(E \ {Direct}) <= MaxEntries
<1>1. IsFiniteSet(D \ {Direct})
  BY FS_RemoveElement
<1>2. IsFiniteSet(E \ {Direct}) /\ Cardinality(E \ {Direct}) <= Cardinality(D \ {Direct})
  BY <1>1, FS_Subset
<1>3. E \in SUBSET ((E \ {Direct}) \union {Direct}) /\ IsFiniteSet((E \ {Direct}) \union {Direct})
  BY <1>2, FS_AddElement
<1>4. IsFiniteSet(E)
  BY <1>3, FS_Subset
<1>5. Cardinality(E \ {Direct}) \in Nat /\ Cardinality(D \ {Direct}) \in Nat
  BY <1>1, <1>2, FS_CardinalityType
<1>. QED BY <1>2, <1>4, <1>5

\* The cache part of DoerInv.
CacheOK ==
    /\ DOMAIN transports \subseteq Keys /\ IsFiniteSet(DOMAIN transports)
    /\ \A k \in DOMAIN transports : transports[k] \in 0..MaxTime
    /\ accessOrder \in Seq(Proxies)
    /\ OrderMatchesCache /\ CacheBounded

LEMMA CacheStep ==
  TypeOK /\ CacheOK /\ LeaseReturned /\ [Next]_vars => CacheOK'
<1> SUFFICES ASSUME TypeOK, CacheOK, LeaseReturned, [Next]_vars PROVE CacheOK'
  OBVIOUS
<1> DEFINE D == DOMAIN transports
           Stamps(f) == \A k \in DOMAIN f : f[k] \in 0..MaxTime
<1>0. /\ D \subseteq Keys /\ IsFiniteSet(D) /\ Stamps(transports) /\ accessOrder \in Seq(Proxies)
      /\ ToSet(accessOrder) = D \ {Direct} /\ IsInjective(accessOrder)
      /\ Cardinality(D \ {Direct}) <= MaxEntries
      /\ MaxEntries \in Nat \ {0} /\ Direct \notin Proxies /\ Keys = Proxies \union {Direct}
      /\ now \in 0..MaxTime
  BY ConstantsAssumption DEF CacheOK, OrderMatchesCache, CacheBounded, TypeOK, Keys
\* What a step has to show.
<1>A. ASSUME DOMAIN transports' \subseteq Keys, IsFiniteSet(DOMAIN transports'), Stamps(transports'),
             accessOrder' \in Seq(Proxies), ToSet(accessOrder') = DOMAIN transports' \ {Direct},
             IsInjective(accessOrder'), Cardinality(DOMAIN transports' \ {Direct}) <= MaxEntries
      PROVE  CacheOK'
  <2>1. Cardinality(DOMAIN transports') <= MaxEntries + 1
    BY <1>0, <1>A, DirectOnTop
  <2>. QED BY <1>A, <2>1 DEF CacheOK, OrderMatchesCache, CacheBounded
<1>P. ASSUME NEW f, NEW k, Stamps(f)
      PROVE  DOMAIN Put(f, k) = DOMAIN f \union {k} /\ Stamps(Put(f, k))
  BY <1>0, <1>P DEF Put
<1>D. ASSUME NEW f, NEW S, Stamps(f)
      PROVE  DOMAIN Drop(f, S) = DOMAIN f \ S /\ Stamps(Drop(f, S))
  BY <1>D DEF Drop
<1> HIDE DEF Stamps
<1>1. ASSUME NEW c \in Callers, getClient(c) PROVE CacheOK'
  <2> DEFINE url == call[c].url
  <2>1. url \in Proxies /\ url # Direct
    <3>1. call[c].pc = "client"
      BY <1>1 DEF getClient, At
    <3>2. url \in held
      BY <3>1 DEF LeaseReturned
    <3>. QED BY <1>0, <3>2 DEF TypeOK
  <2>2. CASE /\ url \in D
             /\ transports' = Put(transports, url)
             /\ accessOrder' = touchAccessOrder(url)
    <3>1. DOMAIN transports' = D /\ Stamps(transports')
      BY <1>0, <1>P, <2>2, SMTT(30)
    <3>2. ToSet(accessOrder') = ToSet(accessOrder) \union {url} /\ accessOrder' \in Seq(Proxies)
            /\ IsInjective(accessOrder')
      BY <1>0, <2>1, <2>2, TouchEffect
    <3>3. ToSet(accessOrder') = D \ {Direct}
      BY <1>0, <2>1, <2>2, <3>2
    <3>. QED BY <1>0, <1>A, <3>1, <3>2, <3>3
  <2>3. CASE /\ url \notin D
             /\ transports' = Put(Drop(transports, evicted), url)
             /\ accessOrder' = Append(IF evicted = {} THEN accessOrder ELSE Tail(accessOrder), url)
    <3> DEFINE E == D \ evicted
               order == IF evicted = {} THEN accessOrder ELSE Tail(accessOrder)
    <3>1. /\ order \in Seq(Proxies) /\ IsInjective(order) /\ ToSet(order) = E \ {Direct}
          /\ IsFiniteSet(E) /\ Cardinality(E \ {Direct}) < MaxEntries
      <4>1. CASE evicted = {}
        <5>1. E = D /\ order = accessOrder
          BY <4>1
        <5>2. Cardinality(D \ {Direct}) < MaxEntries
          <6>1. CASE accessOrder = <<>>
            <7>1. D \ {Direct} = {}
              BY <1>0, <6>1 DEF ToSet
            <7>2. Cardinality({}) = 0
              BY FS_EmptySet
            <7>3. Cardinality(D \ {Direct}) = 0
              BY <7>1, <7>2, Zenon
            <7>. QED BY <1>0, <7>3
          <6>2. CASE accessOrder # <<>>
            <7>1. ~(Cardinality(D) >= MaxEntries)
              BY <4>1, <6>2 DEF evicted
            <7>2. Cardinality(D) \in Nat
              BY <1>0, FS_CardinalityType
            <7>3. Cardinality(D \ {Direct}) = IF Direct \in D THEN Cardinality(D) - 1 ELSE Cardinality(D)
              BY <1>0, FS_RemoveElement
            <7>. QED BY <1>0, <7>1, <7>2, <7>3
          <6>. QED BY <6>1, <6>2
        <5>. QED BY <1>0, <5>1, <5>2
      <4>2. CASE evicted # {}
        <5>1. accessOrder # <<>> /\ evicted = {Head(accessOrder)}
          BY <4>2 DEF evicted
        <5>2. /\ Tail(accessOrder) \in Seq(Proxies) /\ IsInjective(Tail(accessOrder))
              /\ ToSet(Tail(accessOrder)) = ToSet(accessOrder) \ {Head(accessOrder)}
              /\ Head(accessOrder) \in ToSet(accessOrder)
          BY <1>0, <5>1, TailEffect
        <5> DEFINE h == Head(accessOrder)  F == D \ {Direct}
        <5>3. h \in F /\ E \ {Direct} = F \ {h} /\ order = Tail(accessOrder)
          BY <1>0, <4>2, <5>1, <5>2
        <5>4. IsFiniteSet(F) /\ IsFiniteSet(E)
          BY <1>0, FS_Difference
        <5>5. Cardinality(F \ {h}) = Cardinality(F) - 1 /\ Cardinality(F) \in Nat
          <6> HIDE DEF h, F
          <6>. QED BY <5>3, <5>4, FS_RemoveElement, FS_CardinalityType
        <5>6. Cardinality(E \ {Direct}) < MaxEntries
          <6>1. Cardinality(F) <= MaxEntries /\ MaxEntries \in Nat
            BY <1>0
          <6> HIDE DEF E, F, h, D
          <6>2. Cardinality(E \ {Direct}) = Cardinality(F \ {h})
            BY <5>3
          <6>. QED BY <5>5, <6>1, <6>2
        <5>7. ToSet(order) = E \ {Direct}
          BY <1>0, <5>2, <5>3
        <5>. QED BY <5>2, <5>3, <5>4, <5>6, <5>7
      <4>. QED BY <4>1, <4>2
    <3>2. DOMAIN transports' = E \union {url} /\ Stamps(transports')
      <4>1. DOMAIN Drop(transports, evicted) = E /\ Stamps(Drop(transports, evicted))
        BY <1>0, <1>D
      <4>. QED BY <1>P, <2>3, <4>1
    <3>3. accessOrder' = Append(order, url)
      BY <2>3
    <3>4. url \notin ToSet(order)
      BY <2>3, <3>1
    <3>5. E \subseteq Keys
      BY <1>0
    <3> HIDE DEF E, order, url
    <3>6. /\ accessOrder' \in Seq(Proxies) /\ IsInjective(accessOrder')
          /\ ToSet(accessOrder') = ToSet(order) \union {url}
      BY <2>1, <3>1, <3>3, <3>4, AppendEffect
    <3>7. IsFiniteSet(E \union {url}) /\ Cardinality((E \union {url}) \ {Direct}) <= MaxEntries
      BY <1>0, <2>1, <3>1, RoomForOne
    <3>8. DOMAIN transports' \subseteq Keys /\ ToSet(accessOrder') = DOMAIN transports' \ {Direct}
      BY <1>0, <2>1, <3>1, <3>2, <3>5, <3>6
    <3>. QED BY <1>A, <3>2, <3>6, <3>7, <3>8
  <2>4. CASE UNCHANGED <<transports, accessOrder>>
    BY <1>0, <1>A, <2>4
  <2>. QED BY <1>1, <2>2, <2>3, <2>4 DEF getClient
<1>2. ASSUME NEW c \in Callers, doDirect(c) PROVE CacheOK'
  <2>1. transports' = Put(transports, Direct) /\ accessOrder' = accessOrder
    BY <1>2 DEF doDirect
  <2>2. DOMAIN transports' = D \union {Direct} /\ Stamps(transports')
    BY <1>0, <1>P, <2>1
  <2>3. DOMAIN transports' \ {Direct} = D \ {Direct}
    BY <2>2
  <2>4. IsFiniteSet(DOMAIN transports')
    BY <1>0, <2>2, FS_AddElement
  <2>. QED BY <1>0, <1>A, <2>1, <2>2, <2>3, <2>4
<1>3. ASSUME evictIdleEntries PROVE CacheOK'
  <2> DEFINE idle == {k \in DOMAIN transports : now - transports[k] > IdleAfter}
  <2>1. transports' = Drop(transports, idle) /\ accessOrder' = Retain(accessOrder, DOMAIN transports')
    BY <1>3 DEF evictIdleEntries
  <2>2. DOMAIN transports' = D \ idle /\ Stamps(transports')
    BY <1>0, <1>D, <2>1
  <2> HIDE DEF idle
  <2>3. /\ accessOrder' \in Seq(Proxies) /\ IsInjective(accessOrder')
        /\ ToSet(accessOrder') = ToSet(accessOrder) \cap DOMAIN transports'
    BY <1>0, <2>1, RetainEffect
  <2>4. ToSet(accessOrder') = DOMAIN transports' \ {Direct} /\ DOMAIN transports' \subseteq Keys
          /\ DOMAIN transports' \ {Direct} \subseteq D \ {Direct}
    BY <1>0, <2>2, <2>3
  <2>5. IsFiniteSet(DOMAIN transports') /\ Cardinality(DOMAIN transports' \ {Direct}) <= MaxEntries
    BY <1>0, <2>4, FewerProxies
  <2>. QED BY <1>A, <2>2, <2>3, <2>4, <2>5
<1>4. ASSUME Close PROVE CacheOK'
  <2>1. transports' = <<>> /\ accessOrder' = <<>>
    BY <1>4 DEF Close
  <2>2. DOMAIN transports' = {} /\ Stamps(transports')
    BY <2>1 DEF Stamps
  <2>3. accessOrder' \in Seq(Proxies) /\ ToSet(accessOrder') = {} /\ IsInjective(accessOrder')
    BY <2>1 DEF ToSet, IsInjective
  <2>4. IsFiniteSet({}) /\ Cardinality({}) = 0 /\ {} \ {Direct} = {}
    BY FS_EmptySet
  <2>. QED BY <1>0, <1>A, <2>2, <2>3, <2>4
<1>5. ASSUME UNCHANGED <<transports, accessOrder>> PROVE CacheOK'
  BY <1>0, <1>A, <1>5
<1>6. ASSUME NEW c \in Callers, Start(c) \/ CallerStep(c) PROVE CacheOK'
  BY <1>1, <1>2, <1>5, <1>6, ZenonT(30) DEF CallerStep, Start, Acquire, AcquireFails, Send, Release, DirectReply,
     Decide, Backoff
<1>. QED BY <1>3, <1>4, <1>5, <1>6 DEF Next, Tick, vars

-----------------------------------------------------------------------------
LEMMA DoerInit == Init => DoerInv
<1> SUFFICES ASSUME Init PROVE DoerInv
  OBVIOUS
<1> USE ConstantsAssumption
<1>1. transports = <<>> /\ accessOrder = <<>> /\ DOMAIN transports = {} /\ DOMAIN transports \ {Direct} = {}
  BY DEF Init
<1>2. IsFiniteSet(DOMAIN transports) /\ CacheBounded
  BY <1>1, FS_EmptySet DEF CacheBounded
<1>3. OrderMatchesCache
  BY <1>1 DEF OrderMatchesCache, ToSet, IsInjective
<1>4. Idle \in CallState
  BY DEF Idle, CallState, PC, Keys, Outcome
<1>5. TypeOK
  <2>1. call \in [Callers -> CallState] /\ held \in SUBSET Proxies
    BY <1>4 DEF Init
  <2>2. accessOrder \in Seq(Proxies) /\ stopped \in BOOLEAN /\ now \in 0..MaxTime
    <3>1. <<>> \in Seq(Proxies) /\ 0 \in 0..MaxTime
      OBVIOUS
    <3>. QED BY <3>1 DEF Init
  <2>3. DOMAIN transports \subseteq Keys /\ \A k \in DOMAIN transports : transports[k] \in 0..MaxTime
    BY <1>1
  <2>. QED BY <2>1, <2>2, <2>3 DEF TypeOK
<1>6. \A c \in Callers : call[c] = Idle
  BY DEF Init
<1>7. LeaseReturned
  BY <1>6 DEF Init, LeaseReturned, Idle, At
<1>8. AttemptsCounted
  BY <1>6 DEF AttemptsCounted, Idle
<1>. QED BY <1>2, <1>3, <1>5, <1>7, <1>8 DEF DoerInv, CacheInv

LEMMA DoerStep == DoerInv /\ [Next]_vars => DoerInv'
<1> SUFFICES ASSUME DoerInv, [Next]_vars PROVE DoerInv'
  OBVIOUS
<1>1. TypeOK /\ CacheOK /\ LeaseReturned /\ AttemptsCounted
  BY DEF DoerInv, CacheInv, CacheOK, TypeOK
<1>2. call' \in [Callers -> CallState] /\ AttemptsCounted'
  BY <1>1, CallsStep
<1>3. held' \in SUBSET Proxies /\ LeaseReturned'
  BY <1>1, LeaseStep
<1>4. CacheOK'
  BY <1>1, CacheStep
<1>5. stopped' \in BOOLEAN /\ now' \in 0..MaxTime
  <2>1. stopped \in BOOLEAN /\ now \in 0..MaxTime /\ MaxTime \in Nat
    BY <1>1, ConstantsAssumption DEF TypeOK
  <2>2. CASE Tick
    BY <2>1, <2>2 DEF Tick
  <2>3. CASE Close
    BY <2>1, <2>3 DEF Close
  <2>4. CASE UNCHANGED <<stopped, now>>
    BY <2>1, <2>4
  <2>5. ASSUME NEW c \in Callers, Start(c) \/ CallerStep(c) PROVE UNCHANGED <<stopped, now>>
    BY <2>5, ZenonT(30) DEF CallerStep, Start, Acquire, AcquireFails, Send, Release, DirectReply, Decide, Backoff,
       getClient, doDirect
  <2>6. evictIdleEntries \/ UNCHANGED vars => UNCHANGED <<stopped, now>>
    BY DEF evictIdleEntries, vars
  <2>. QED BY <2>2, <2>3, <2>4, <2>5, <2>6 DEF Next
<1>6. TypeOK'
  BY <1>2, <1>3, <1>4, <1>5 DEF TypeOK, CacheOK
<1>. QED BY <1>2, <1>3, <1>4, <1>6 DEF DoerInv, CacheInv, CacheOK

(***************************************************************************)
(* The invariant of the Doer, for any number of goroutines sharing it.     *)
(***************************************************************************)
THEOREM DoerInvariant == Spec => []DoerInv
BY DoerInit, DoerStep, PTL DEF Spec

\* getClient, evictIdleEntries, doDirect and Close keep the order of the cache equal to
\* its proxies and the cache within maxCacheEntries and the direct entry.
THEOREM CacheConsistent == Spec => []CacheInv
<1>1. DoerInv => CacheInv
  BY DEF DoerInv
<1>. QED BY <1>1, DoerInvariant, PTL

\* doWithLease marks and releases every lease it takes, and no proxy has two holders.
THEOREM LeasesGoBack == Spec => []LeaseReturned
<1>1. DoerInv => LeaseReturned
  BY DEF DoerInv
<1>. QED BY <1>1, DoerInvariant, PTL

\* The attempt loop of Do sends at most MaxRetries requests and one direct one.
THEOREM RequestsBounded == Spec => []AttemptsBounded
<1>1. DoerInv => AttemptsBounded
  <2> SUFFICES ASSUME DoerInv, NEW c \in Callers
               PROVE  call[c].sent <= MaxRetries + (IF AllowDirect THEN 1 ELSE 0)
    BY DEF AttemptsBounded
  <2>1. call[c] \in CallState /\ MaxRetries \in Nat
    BY ConstantsAssumption DEF DoerInv, CacheInv, TypeOK
  <2>2. call[c].sent \in Nat /\ call[c].attempt \in 0 .. MaxRetries + 1
    BY <2>1 DEF CallState
  <2>3. /\ call[c].sent <= call[c].attempt
              - (IF call[c].pc \in {"attempt", "client", "send", "direct"} THEN 1 ELSE 0)
        /\ call[c].attempt > MaxRetries => AllowDirect
    BY DEF DoerInv, AttemptsCounted
  <2>. QED BY <2>1, <2>2, <2>3
<1>. QED BY <1>1, DoerInvariant, PTL

=============================================================================
