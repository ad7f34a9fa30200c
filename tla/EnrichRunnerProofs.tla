------------------------- MODULE EnrichRunnerProofs -------------------------
(***************************************************************************)
(* Proofs about EnrichRunner, for any sources and order, any interval and  *)
(* any length of a run below it: no failure or kill leaves a half-written  *)
(* source behind its gate key, and as long as nothing fails the data of a  *)
(* source stay younger than two intervals and a run.  And about RefData,   *)
(* for any releases: what a source has loaded stays in its tables, and a   *)
(* source fails only for a cause.                                          *)
(***************************************************************************)
EXTENDS EnrichRunner, MCRefData, FiniteSetTheorems, TLAPS

LEMMA MaxOfTwo == ASSUME NEW a \in Int, NEW b \in Int PROVE Max({a, b}) = IF a >= b THEN a ELSE b
<1> DEFINE m == IF a >= b THEN a ELSE b
<1>1. m \in {a, b} /\ \A y \in {a, b} : m >= y
  OBVIOUS
<1>2. \A x \in {a, b} : (\A y \in {a, b} : x >= y) => x = m
  OBVIOUS
<1> HIDE DEF m
<1>3. Max({a, b}) = m
  BY <1>1, <1>2 DEF Max
<1>. QED BY <1>3 DEF m

LEMMA MinOfTwo == ASSUME NEW a \in Int, NEW b \in Int PROVE Min({a, b}) = IF a <= b THEN a ELSE b
<1> DEFINE m == IF a <= b THEN a ELSE b
<1>1. m \in {a, b} /\ \A y \in {a, b} : m <= y
  OBVIOUS
<1>2. \A x \in {a, b} : (\A y \in {a, b} : x <= y) => x = m
  OBVIOUS
<1> HIDE DEF m
<1>3. Min({a, b}) = m
  BY <1>1, <1>2 DEF Min
<1>. QED BY <1>3 DEF m

\* The sources of a runner.
LEMMA SourcesInOrder ==
  /\ Len(Order) \in Nat \ {0} /\ Index = 1 .. Len(Order) /\ 1 \in Index
  /\ \A i \in Index : /\ Len(Order[i].writes) \in Nat \ {0}
                      /\ DOMAIN Order[i].writes = 1 .. Len(Order[i].writes)
                      /\ 1 \in DOMAIN Order[i].writes
                      /\ \A m \in DOMAIN Order[i].writes : Order[i].writes[m] \in Tables
                      /\ Order[i].critical \in BOOLEAN
<1>1. Order \in Seq({Order[i] : i \in Index}) /\ Order # <<>>
  BY ConstantsAssumption
<1>2. Len(Order) \in Nat \ {0} /\ Index = 1 .. Len(Order) /\ 1 \in Index
  BY <1>1 DEF Index
<1>3. ASSUME NEW i \in Index
      PROVE  /\ Len(Order[i].writes) \in Nat \ {0}
             /\ DOMAIN Order[i].writes = 1 .. Len(Order[i].writes)
             /\ 1 \in DOMAIN Order[i].writes
             /\ \A m \in DOMAIN Order[i].writes : Order[i].writes[m] \in Tables
             /\ Order[i].critical \in BOOLEAN
  <2> DEFINE w == Order[i].writes
  <2>1. w \in Seq(Tables) /\ w # <<>> /\ Order[i].critical \in BOOLEAN
    BY ConstantsAssumption
  <2> HIDE DEF w
  <2>2. Len(w) \in Nat \ {0} /\ DOMAIN w = 1 .. Len(w) /\ 1 \in DOMAIN w /\ \A m \in DOMAIN w : w[m] \in Tables
    BY <2>1
  <2>. QED BY <2>1, <2>2 DEF w
<1>. QED BY <1>2, <1>3

LEMMA Bounds ==
  /\ Interval \in Nat \ {0} /\ MaxVersion \in Nat \ {0} /\ MaxFaults \in Nat
  /\ MaxRunTicks \in Nat /\ MaxRunTicks < Interval
  /\ RunAtStart \in BOOLEAN /\ LocalDir \in BOOLEAN /\ ForceBootstrap \in BOOLEAN
  /\ Watched \subseteq Index
  /\ StaleBound \in Nat /\ StaleBound = 2 * Interval + MaxRunTicks
BY ConstantsAssumption DEF StaleBound

\* What a run leaves behind when it goes on to a source, to the next run or to the loop.
LEMMA MovesOn ==
  ASSUME TypeOK, Running, NextSource \/ EndRun
  PROVE  /\ step' = "gate" /\ j' = 1 /\ fetched' = 0 /\ elapsed' = 0
         /\ \/ k < Len(Order) /\ k' = k + 1 /\ UNCHANGED <<phase, spent, ticker, due>>
            \/ phase = "local" /\ RunAtStart /\ phase' = "main" /\ k' = 1 /\ spent' = 0 /\ UNCHANGED <<ticker, due>>
            \/ /\ phase = "main" \/ ~RunAtStart
               /\ phase' = "wait" /\ k' = 1 /\ spent' = 0 /\ due' = due
               /\ ticker' = IF ticker = 0 THEN Interval ELSE ticker
BY DEF NextSource, EndRun, Begin, Loop, clocks

-----------------------------------------------------------------------------
(* KeyedIsWhole.                                                           *)

LEMMA EnrichInit == Init => EnrichIInv
<1> SUFFICES ASSUME Init PROVE EnrichIInv
  OBVIOUS
<1>1. TypeOK
  <2>1. age \in [Index -> 0 .. Interval] /\ Never \in Never .. StaleBound + 1
    BY Bounds DEF Init, Never
  <2>2. since \in [Watched -> Never .. StaleBound + 1]
    BY <2>1 DEF Init
  <2>3. \A t \in Tables : stored[t] = 0 /\ known[t] = 0
    BY DEF Init
  <2>4. k \in Index /\ j \in DOMAIN Order[k].writes
    BY SourcesInOrder DEF Init
  <2>5. /\ fetched \in 0 .. upstream /\ upstream \in 1 .. MaxVersion
        /\ spent \in 0 .. MaxRunTicks /\ elapsed \in 0 .. spent
        /\ ticker \in 0 .. Interval /\ faults \in 0 .. MaxFaults
    BY Bounds DEF Init
  <2>6. due \in BOOLEAN
    BY DEF Init
  <2>. QED BY <2>1, <2>2, <2>3, <2>4, <2>5, <2>6, Bounds DEF Init, TypeOK, Src
<1>2. KeyedIsWhole
  BY Bounds DEF Init, KeyedIsWhole, Expired
<1>3. AtWork
  BY Bounds DEF Init, AtWork, Expired, Running
<1>. QED BY <1>1, <1>2, <1>3 DEF EnrichIInv, EnrichInv

LEMMA EnrichStep == EnrichIInv /\ [Next]_vars => EnrichIInv'
<1> SUFFICES ASSUME EnrichIInv, [Next]_vars PROVE EnrichIInv'
  OBVIOUS
<1> USE DEF process, database, clocks
<1>0. /\ TypeOK /\ KeyedIsWhole
      /\ stored \in [Tables -> Nat] /\ known \in [Tables -> Nat]
      /\ step # "gate" => Running /\ Expired(k)
      /\ step \in {"gate", "fetch"} => j = 1
      /\ step = "write" => \A m \in 1 .. j - 1 : stored[Src.writes[m]] = fetched
      /\ step = "record" => \A m \in DOMAIN Src.writes : stored[Src.writes[m]] = fetched
      /\ ForceBootstrap => \A i \in Index : Expired(i)
  BY DEF EnrichIInv, EnrichInv, AtWork
<1>T. /\ phase \in {"down", "local", "main", "wait"}
      /\ k \in Index /\ j \in DOMAIN Order[k].writes /\ step \in {"gate", "fetch", "write", "record"}
      /\ fetched \in 0 .. upstream /\ upstream \in 1 .. MaxVersion
      /\ spent \in 0 .. MaxRunTicks /\ elapsed \in 0 .. spent
      /\ age \in [Index -> 0 .. Interval] /\ since \in [Watched -> Never .. StaleBound + 1]
      /\ \A t \in Tables : 0 <= stored[t] /\ stored[t] <= known[t] /\ known[t] <= upstream
      /\ ticker \in 0 .. Interval /\ due \in BOOLEAN /\ faults \in 0 .. MaxFaults
  BY <1>0 DEF TypeOK, Src
\* Neither ages nor tables change, and the process comes to a gate.
<1>M. ASSUME /\ Running /\ (NextSource \/ EndRun)
             /\ UNCHANGED <<age, database, upstream>>
             /\ faults' \in 0 .. MaxFaults
             /\ since' \in [Watched -> Never .. StaleBound + 1]
      PROVE  EnrichIInv'
  <2>1. TypeOK'
    <3>1. k' \in Index
      BY <1>0, <1>T, <1>M, MovesOn, SourcesInOrder
    <3>2. phase' \in {"down", "local", "main", "wait"} /\ spent' \in 0 .. MaxRunTicks /\ ticker' \in 0 .. Interval /\ due' = due
      BY <1>0, <1>T, <1>M, MovesOn, Bounds
    <3>3. j' \in DOMAIN Order[k'].writes /\ fetched' = 0 /\ elapsed' = 0 /\ step' = "gate"
      BY <1>0, <1>M, <3>1, MovesOn, SourcesInOrder
    <3>. QED BY <1>T, <1>M, <3>1, <3>2, <3>3, Bounds DEF TypeOK, Src
  <2>2. KeyedIsWhole'
    BY <1>0, <1>M DEF KeyedIsWhole, Expired
  <2>3. AtWork'
    BY <1>0, <1>M, MovesOn DEF AtWork, Expired
  <2>. QED BY <2>1, <2>2, <2>3 DEF EnrichIInv, EnrichInv
\* A run begins, the process waits or is gone.
<1>B. ASSUME NEW p \in {"down", "local", "main", "wait"}, Begin(p),
             UNCHANGED <<age, database, upstream, since>>,
             faults' \in 0 .. MaxFaults, ticker' \in 0 .. Interval, due' \in BOOLEAN
      PROVE  EnrichIInv'
  <2>1. TypeOK'
    BY <1>T, <1>B, SourcesInOrder, Bounds DEF TypeOK, Src, Begin
  <2>2. KeyedIsWhole'
    BY <1>0, <1>B DEF KeyedIsWhole, Expired
  <2>3. AtWork'
    BY <1>0, <1>B DEF AtWork, Expired, Begin
  <2>. QED BY <2>1, <2>2, <2>3 DEF EnrichIInv, EnrichInv
<1>F. Fault => faults' \in 0 .. MaxFaults
  BY <1>T, Bounds DEF Fault
<1>1. ASSUME Start PROVE EnrichIInv'
  <2>1. \E p \in {"local", "main", "wait"} : Begin(p) /\ ticker' \in {0, Interval}
    BY <1>1, Bounds DEF Start
  <2>2. UNCHANGED <<age, database, upstream, since, faults>> /\ due' = FALSE
    BY <1>1 DEF Start
  <2>3. faults' \in 0 .. MaxFaults /\ ticker' \in 0 .. Interval
    BY <1>T, <2>1, <2>2, Bounds
  <2>4. due' \in BOOLEAN
    BY <2>2
  <2>. QED BY <1>B, <2>1, <2>2, <2>3, <2>4
<1>2. ASSUME RunDue PROVE EnrichIInv'
  BY <1>2, <1>B, <1>T DEF RunDue
<1>3. ASSUME ShouldRun PROVE EnrichIInv'
  <2>1. CASE /\ Expired(k) \/ ForceBootstrap
             /\ step' = "fetch" /\ elapsed' = 0
             /\ UNCHANGED <<phase, k, j, fetched, spent, clocks, faults>>
    <3>0. Running /\ step = "gate" /\ UNCHANGED <<age, database, upstream, since>>
      BY <1>3 DEF ShouldRun
    <3>1. TypeOK'
      BY <1>T, <2>1, <3>0 DEF TypeOK, Src
    <3>2. KeyedIsWhole'
      BY <1>0, <3>0 DEF KeyedIsWhole, Expired
    <3>3. Expired(k)
      BY <1>0, <1>T, <2>1
    <3>4. AtWork'
      BY <1>0, <2>1, <3>0, <3>3 DEF AtWork, Expired, Running
    <3>. QED BY <3>1, <3>2, <3>4 DEF EnrichIInv, EnrichInv
  <2>2. CASE NextSource /\ (UNCHANGED faults \/ Fault)
    BY <1>3, <1>F, <1>M, <1>T, <2>2 DEF ShouldRun
  <2>. QED BY <1>3, <2>1, <2>2 DEF ShouldRun
<1>4. ASSUME Fetch PROVE EnrichIInv'
  <2>0. /\ Running /\ step = "fetch" /\ step' = "write" /\ fetched' \in {1, upstream}
        /\ UNCHANGED <<phase, k, j, elapsed, spent, age, database, upstream, clocks, faults, since>>
    BY <1>4 DEF Fetch, LocalVersion
  <2>1. TypeOK'
    BY <1>T, <2>0, Bounds DEF TypeOK, Src
  <2>2. KeyedIsWhole'
    BY <1>0, <2>0 DEF KeyedIsWhole, Expired
  <2>3. AtWork'
    BY <1>0, <2>0 DEF AtWork, Expired, Running
  <2>. QED BY <2>1, <2>2, <2>3 DEF EnrichIInv, EnrichInv
<1>5. ASSUME Write PROVE EnrichIInv'
  <2> DEFINE w == Order[k].writes
             t == w[j]
  <2>0. /\ Running /\ step = "write"
        /\ stored' = [stored EXCEPT ![t] = fetched]
        /\ known' = [known EXCEPT ![t] = Max({@, fetched})]
        /\ \/ j < Len(w) /\ j' = j + 1 /\ step' = "write"
           \/ ~(j < Len(w)) /\ step' = "record" /\ j' = j
        /\ UNCHANGED <<phase, k, fetched, elapsed, spent, age, upstream, clocks, faults, since>>
    BY <1>5 DEF Write, Src
  <2>1. /\ Len(w) \in Nat \ {0} /\ DOMAIN w = 1 .. Len(w) /\ j \in 1 .. Len(w) /\ t \in Tables
        /\ \A m \in DOMAIN w : w[m] \in Tables
    BY <1>T, SourcesInOrder
  <2>2. /\ stored' \in [Tables -> Nat] /\ stored'[t] = fetched
        /\ \A u \in Tables : u # t => stored'[u] = stored[u] /\ known'[u] = known[u]
        /\ known' \in [Tables -> Nat] /\ known'[t] = IF known[t] >= fetched THEN known[t] ELSE fetched
    <3>1. known[t] \in Int /\ fetched \in Nat
      BY <1>0, <1>T, <2>1
    <3>2. Max({known[t], fetched}) = IF known[t] >= fetched THEN known[t] ELSE fetched
      BY <3>1, MaxOfTwo
    <3> HIDE DEF w, t
    <3>. QED BY <1>0, <2>0, <2>1, <3>1, <3>2
  <2> HIDE DEF t
  <2>3. TypeOK'
    <3>1. \A u \in Tables : 0 <= stored'[u] /\ stored'[u] <= known'[u] /\ known'[u] <= upstream
      <4> TAKE u \in Tables
      <4>1. CASE u # t
        <5>1. stored'[u] = stored[u] /\ known'[u] = known[u]
          BY <2>2, <4>1
        <5>. QED BY <1>T, <5>1
      <4>2. CASE u = t
        <5>1. known[t] \in Nat /\ known[t] <= upstream /\ fetched \in Nat /\ fetched <= upstream /\ upstream \in Nat
          BY <1>0, <1>T, <2>1
        <5>. QED BY <2>2, <4>2, <5>1
      <4>. QED BY <4>1, <4>2
    <3>2. j' \in DOMAIN w
      BY <2>0, <2>1
    <3>. QED BY <1>T, <2>0, <3>1, <3>2 DEF TypeOK, Src
  \* The table belongs to this source and to no other, and this one's key has expired.
  <2>4. KeyedIsWhole'
    <3> SUFFICES ASSUME NEW i \in Index, ~Expired(i), NEW m \in DOMAIN Order[i].writes, NEW n \in DOMAIN Order[i].writes
                 PROVE  stored'[Order[i].writes[m]] = stored'[Order[i].writes[n]]
      BY <2>0 DEF KeyedIsWhole, Expired
    <3>1. i # k
      BY <1>0, <2>0
    <3>2. Order[i].writes[m] # t /\ Order[i].writes[n] # t
      BY <1>T, <3>1, ConstantsAssumption DEF t
    <3>3. Order[i].writes[m] \in Tables /\ Order[i].writes[n] \in Tables
      BY SourcesInOrder
    <3>4. stored[Order[i].writes[m]] = stored[Order[i].writes[n]]
      BY <1>0 DEF KeyedIsWhole
    <3>. QED BY <2>2, <3>2, <3>3, <3>4
  <2>5. \A m \in 1 .. j : stored'[w[m]] = fetched
    <3> SUFFICES ASSUME NEW m \in 1 .. j PROVE stored'[w[m]] = fetched
      OBVIOUS
    <3>1. CASE m = j
      BY <2>2, <3>1 DEF t
    <3>2. CASE m # j
      <4>1. m \in 1 .. j - 1 /\ m \in DOMAIN w
        BY <2>1, <3>2
      <4>2. w[m] # t /\ w[m] \in Tables
        BY <1>T, <2>1, <3>2, <4>1, ConstantsAssumption DEF t
      <4>3. stored[w[m]] = fetched
        BY <1>0, <2>0, <4>1 DEF Src
      <4>. QED BY <2>2, <4>2, <4>3
    <3>. QED BY <3>1, <3>2
  <2>6. AtWork'
    <3>1. step' = "write" => \A m \in 1 .. j' - 1 : stored'[w[m]] = fetched
      BY <2>0, <2>1, <2>5
    <3>2. step' = "record" => \A m \in DOMAIN w : stored'[w[m]] = fetched
      BY <2>0, <2>1, <2>5
    <3>3. Running' /\ Expired(k)'
      BY <1>0, <2>0 DEF Running, Expired
    <3>4. ForceBootstrap => \A i \in Index : Expired(i)'
      BY <1>0, <2>0 DEF Expired
    <3>. QED BY <2>0, <2>2, <3>1, <3>2, <3>3, <3>4 DEF AtWork, Src
  <2>. QED BY <2>3, <2>4, <2>6 DEF EnrichIInv, EnrichInv
<1>6. ASSUME CallFails PROVE EnrichIInv'
  <2>1. NextSource \/ EndRun
    BY <1>6 DEF CallFails, SourceFails
  <2>. QED BY <1>6, <1>F, <1>M, <1>T, <2>1 DEF CallFails, SourceFails
<1>7. ASSUME Succeed PROVE EnrichIInv'
  <2>0. /\ Running /\ step = "record" /\ NextSource /\ UNCHANGED <<database, upstream>>
        /\ faults' \in 0 .. MaxFaults
        /\ age' = age \/ (~ForceBootstrap /\ age' = [age EXCEPT ![k] = elapsed])
        /\ since' = since \/ (k \in Watched /\ since' = [since EXCEPT ![k] = elapsed])
    BY <1>7, <1>F, <1>T DEF Succeed, RecordRun
  <2>1. elapsed \in 0 .. Interval /\ elapsed \in Never .. StaleBound + 1
    BY <1>T, Bounds DEF Never
  <2>2. age' \in [Index -> 0 .. Interval] /\ since' \in [Watched -> Never .. StaleBound + 1]
    BY <1>T, <2>0, <2>1
  <2>3. /\ step' = "gate" /\ j' = 1 /\ fetched' = 0 /\ elapsed' = 0 /\ k' \in Index
        /\ phase' \in {"down", "local", "main", "wait"} /\ spent' \in 0 .. MaxRunTicks
        /\ ticker' \in 0 .. Interval /\ due' = due
    BY <1>0, <1>T, <2>0, MovesOn, SourcesInOrder, Bounds, SMTT(30)
  <2>4. TypeOK'
    <3>1. j' \in DOMAIN Order[k'].writes
      BY <2>3, SourcesInOrder
    <3>. QED BY <1>T, <2>0, <2>2, <2>3, <3>1, Bounds DEF TypeOK, Src
  <2>5. KeyedIsWhole'
    <3> SUFFICES ASSUME NEW i \in Index, ~Expired(i)', NEW m \in DOMAIN Order[i].writes, NEW n \in DOMAIN Order[i].writes
                 PROVE  stored[Order[i].writes[m]] = stored[Order[i].writes[n]]
      BY <2>0 DEF KeyedIsWhole
    <3>1. CASE i = k
      BY <1>0, <2>0, <3>1 DEF Src
    <3>2. CASE i # k
      <4>1. ~Expired(i)
        BY <1>T, <2>0, <3>2 DEF Expired
      <4>. QED BY <1>0, <4>1 DEF KeyedIsWhole
    <3>. QED BY <3>1, <3>2
  <2>6. AtWork'
    <3>1. ForceBootstrap => \A i \in Index : Expired(i)'
      BY <1>0, <2>0 DEF Expired
    <3>. QED BY <1>0, <2>0, <2>3, <3>1 DEF AtWork
  <2>. QED BY <2>4, <2>5, <2>6 DEF EnrichIInv, EnrichInv
<1>8. ASSUME Kill PROVE EnrichIInv'
  <2>1. Begin("down") /\ UNCHANGED <<age, database, upstream, since>> /\ ticker' = 0 /\ due' = FALSE /\ faults' \in 0 .. MaxFaults
    BY <1>8, <1>F DEF Kill
  <2>2. ticker' \in 0 .. Interval
    BY <2>1, Bounds
  <2>3. due' \in BOOLEAN
    BY <2>1
  <2>. QED BY <1>B, <2>1, <2>2, <2>3
<1>9. ASSUME Publish PROVE EnrichIInv'
  <2>0. upstream < MaxVersion /\ upstream' = upstream + 1 /\ UNCHANGED <<process, age, database, clocks, faults, since>>
    BY <1>9 DEF Publish
  <2>1. TypeOK'
    <3>1. upstream' \in 1 .. MaxVersion /\ fetched' \in 0 .. upstream'
      BY <1>T, <2>0, Bounds
    <3>2. \A t \in Tables : 0 <= stored'[t] /\ stored'[t] <= known'[t] /\ known'[t] <= upstream'
      BY <1>0, <1>T, <2>0
    <3>. QED BY <1>T, <2>0, <3>1, <3>2 DEF TypeOK, Src
  <2>2. KeyedIsWhole'
    BY <1>0, <2>0 DEF KeyedIsWhole, Expired
  <2>3. AtWork'
    BY <1>0, <2>0 DEF AtWork, Expired, Running, Src
  <2>. QED BY <2>1, <2>2, <2>3 DEF EnrichIInv, EnrichInv
<1>10. ASSUME Tick PROVE EnrichIInv'
  <2>0. /\ phase # "down" /\ (Running => spent < MaxRunTicks)
        /\ IF Running THEN spent' = spent + 1 /\ elapsed' = elapsed + 1 ELSE UNCHANGED <<spent, elapsed>>
        /\ age' = [i \in Index |-> Min({age[i] + 1, Interval})]
        /\ since' = [i \in Watched |-> IF since[i] = Never THEN Never ELSE Min({since[i] + 1, StaleBound + 1})]
        /\ UNCHANGED <<phase, k, step, j, fetched, database, upstream, faults>>
    BY <1>10 DEF Tick
  <2>1. ticker' \in 0 .. Interval /\ due' \in BOOLEAN
    <3>1. \/ UNCHANGED <<ticker, due>>
          \/ ticker' = Interval /\ due' = TRUE
          \/ ticker # 0 /\ ticker' = ticker - 1 /\ UNCHANGED due
      BY <1>10 DEF Tick
    <3>2. ticker' \in 0 .. Interval
      BY <1>T, <3>1, Bounds
    <3>3. due' \in BOOLEAN
      BY <1>T, <3>1
    <3>. QED BY <3>2, <3>3
  <2>2. \A i \in Index : age'[i] = IF age[i] + 1 <= Interval THEN age[i] + 1 ELSE Interval
    <3> TAKE i \in Index
    <3>1. age[i] + 1 \in Int /\ Interval \in Int
      BY <1>T, Bounds
    <3>. QED BY <2>0, <3>1, MinOfTwo
  <2>3. \A i \in Watched : since'[i] = IF since[i] = Never THEN Never
                                       ELSE IF since[i] + 1 <= StaleBound + 1 THEN since[i] + 1 ELSE StaleBound + 1
    <3> TAKE i \in Watched
    <3>1. since[i] + 1 \in Int /\ StaleBound + 1 \in Int
      BY <1>T, Bounds DEF Never
    <3>. QED BY <2>0, <3>1, MinOfTwo
  <2>4. age' \in [Index -> 0 .. Interval]
    BY <1>T, <2>0, <2>2, Bounds
  <2>5. since' \in [Watched -> Never .. StaleBound + 1]
    <3>1. \A i \in Watched : since'[i] \in Never .. StaleBound + 1
      BY <1>T, <2>3, Bounds DEF Never
    <3>. QED BY <2>0, <3>1
  <2>6. spent' \in 0 .. MaxRunTicks /\ elapsed' \in 0 .. spent'
    <3>1. \/ spent < MaxRunTicks /\ spent' = spent + 1 /\ elapsed' = elapsed + 1
          \/ spent' = spent /\ elapsed' = elapsed
      BY <2>0
    <3>. QED BY <1>T, <3>1, Bounds
  <2>7. TypeOK'
    BY <1>T, <2>0, <2>1, <2>4, <2>5, <2>6 DEF TypeOK, Src
  <2>8. \A i \in Index : Expired(i) => Expired(i)'
    BY <1>T, <2>2, Bounds DEF Expired
  <2>9. KeyedIsWhole'
    BY <1>0, <2>0, <2>8 DEF KeyedIsWhole
  <2>10. AtWork'
    BY <1>0, <1>T, <2>0, <2>8 DEF AtWork, Running, Src
  <2>. QED BY <2>7, <2>9, <2>10 DEF EnrichIInv, EnrichInv
<1>11. ASSUME UNCHANGED vars PROVE EnrichIInv'
  BY <1>11 DEF vars, EnrichIInv, EnrichInv, TypeOK, KeyedIsWhole, AtWork, Running, Expired, Src
<1>. QED BY <1>1, <1>2, <1>3, <1>4, <1>5, <1>6, <1>7, <1>8, <1>9, <1>10, <1>11 DEF Next, System

\* The inductive invariant: types, whole sources behind gate keys, and what the source
\* that is at work has fetched and written so far.
THEOREM EnrichInvariant == Spec => []EnrichIInv
BY EnrichInit, EnrichStep, PTL DEF Spec

\* Whatever calls fail and whenever the process is killed, a source that shouldRun skips
\* has all its tables at one version: the gate key is recorded after the last write.
THEOREM SkippedIsWhole == Spec => []EnrichInv
<1>1. EnrichIInv => EnrichInv
  BY DEF EnrichIInv
<1>. QED BY <1>1, EnrichInvariant, PTL

-----------------------------------------------------------------------------
(* StalenessBounded.                                                       *)

LEMMA PunctualIsFresh == TypeOK /\ StaleInv => StalenessBounded
<1> SUFFICES ASSUME TypeOK, Punctual, NEW i \in Watched PROVE since[i] < StaleBound
  BY DEF StaleInv, StalenessBounded
<1>1. phase \in {"down", "local", "main", "wait"} /\ spent \in 0 .. MaxRunTicks /\ ticker \in 0 .. Interval
      /\ k \in Int /\ i \in Int /\ since[i] \in Int
  BY SourcesInOrder, Bounds DEF TypeOK, Never
<1>2. CASE phase \in {"down", "local"}
  BY <1>2, Bounds DEF Punctual, Never
<1>3. CASE phase = "main"
  <2>1. since[i] < spent + Interval + Interval \/ since[i] < spent + Interval + 0
    BY <1>3 DEF Punctual, SinceRun
  <2>. QED BY <1>1, <2>1, Bounds
<1>4. CASE phase = "wait"
  <2>1. since[i] < Interval + Interval + 0 \/ since[i] < Interval - ticker + Interval + 0
    BY <1>4 DEF Punctual, SinceRun
  <2>. QED BY <1>1, <2>1, Bounds
<1>. QED BY <1>1, <1>2, <1>3, <1>4

LEMMA StaleStep == EnrichIInv /\ StaleInv /\ [Next]_vars => StaleInv'
<1> SUFFICES ASSUME EnrichIInv, StaleInv, [Next]_vars, faults' = 0 PROVE Punctual'
  BY DEF StaleInv
<1> USE DEF process, database, clocks
<1>T. /\ phase \in {"down", "local", "main", "wait"}
      /\ k \in Index /\ k \in Nat /\ j \in DOMAIN Order[k].writes
      /\ spent \in Nat /\ spent <= MaxRunTicks /\ elapsed \in 0 .. spent
      /\ age \in [Index -> 0 .. Interval] /\ since \in [Watched -> Never .. StaleBound + 1]
      /\ ticker \in 0 .. Interval /\ due \in BOOLEAN /\ faults \in Nat
  <2>1. TypeOK
    BY DEF EnrichIInv, EnrichInv
  <2>2. k \in Nat
    BY <2>1, SourcesInOrder DEF TypeOK
  <2>. QED BY <2>1, <2>2, Bounds DEF TypeOK, Src
<1>I. \A i \in Watched : i \in Index /\ i \in Nat /\ i <= Len(Order) /\ since[i] \in Int /\ age[i] \in 0 .. Interval
  BY <1>T, SourcesInOrder, Bounds, SMTT(30) DEF Never
<1>W. (step # "gate" => Expired(k)) /\ (ForceBootstrap => \A i \in Index : Expired(i))
  BY DEF EnrichIInv, AtWork
<1>NF. ~Fault
  <2>1. faults \in Nat
    BY <1>T
  <2>2. faults + 1 # 0
    BY <2>1
  <2>. QED BY <2>2 DEF Fault
<1>P. Punctual
  <2>1. ASSUME faults # 0 PROVE FALSE
    <3>1. faults' = faults + 1 \/ faults' = faults
      BY DEF Next, System, Start, RunDue, ShouldRun, Fetch, Write, CallFails, Succeed, Kill, Publish, Tick, Fault, vars
    <3>. QED BY <1>T, <2>1, <3>1
  <2>. QED BY <2>1 DEF StaleInv
<1>Q. /\ phase \in {"down", "local"} => ~due /\ \A i \in Watched : since[i] = Never
      /\ phase = "local" => ticker = 0
      /\ phase = "main" => ~due /\ (ticker = 0 \/ ticker + spent = Interval)
      /\ phase = "wait" => ticker > 0 /\ (due => ticker = Interval)
      /\ \A i \in Watched : ~Expired(i) => since[i] <= age[i]
      /\ phase = "main" /\ ticker = 0 => \A i \in Watched : since[i] <= spent
      /\ phase = "main" => \A i \in Watched :
            /\ since[i] < spent + Interval + Interval
            /\ i < k => since[i] < spent + Interval
      /\ phase = "wait" => \A i \in Watched : since[i] < SinceRun + Interval
  <2>1. phase = "main" => \A i \in Watched : since[i] < spent + Interval + IF k <= i THEN Interval ELSE 0
    BY <1>P DEF Punctual, SinceRun
  <2>2. phase = "main" => \A i \in Watched : /\ since[i] < spent + Interval + Interval
                                             /\ i < k => since[i] < spent + Interval
    BY <1>T, <1>I, <2>1, Bounds
  <2>3. SinceRun \in Int
    BY <1>T, Bounds DEF SinceRun
  <2>4. phase = "wait" => \A i \in Watched : since[i] < SinceRun + Interval
    BY <1>P, <2>3, Bounds DEF Punctual
  <2>. QED BY <1>P, <2>2, <2>4 DEF Punctual
\* The process moves on from source k; the watched sources up to k have been dealt with.
<1>M. ASSUME Running, NextSource \/ (EndRun /\ \A i \in Watched : i <= k),
             phase = "local" => since' = since,
             \A i \in Watched : ~Expired(i)' => since'[i] <= age'[i],
             \A i \in Watched : since'[i] \in Int,
             phase = "main" /\ ticker = 0 => \A i \in Watched : since'[i] <= spent,
             phase = "main" => \A i \in Watched : /\ since'[i] < spent + Interval + Interval
                                                  /\ i <= k => since'[i] < spent + Interval
      PROVE  Punctual'
  <2>1. CASE k < Len(Order) /\ k' = k + 1 /\ UNCHANGED <<phase, spent, clocks>>
    <3>1. phase = "main" => \A i \in Watched : since'[i] < SinceRun' + Interval + IF k + 1 <= i THEN Interval ELSE 0
      <4> SUFFICES ASSUME phase = "main", NEW i \in Watched
                   PROVE  since'[i] < spent + Interval + IF k + 1 <= i THEN Interval ELSE 0
        BY <2>1 DEF SinceRun
      <4>1. CASE k + 1 <= i
        BY <1>M, <4>1
      <4>2. CASE ~(k + 1 <= i)
        <5>1. since'[i] < spent + Interval
          BY <1>M, <1>T, <1>I, <4>2
        <5>. QED BY <1>T, <4>2, <5>1, Bounds
      <4>. QED BY <4>1, <4>2
    <3>2. phase \in {"local", "main"}
      BY <1>M DEF Running
    <3>. QED BY <1>M, <1>Q, <2>1, <3>1, <3>2 DEF Punctual
  <2>2. CASE EndRun /\ \A i \in Watched : i <= k
    <3>1. CASE phase = "local" /\ Begin("main") /\ UNCHANGED clocks
      <4>1. phase' = "main" /\ spent' = 0 /\ ticker' = 0 /\ due' = due /\ ~due /\ \A i \in Watched : since'[i] = Never
        BY <1>M, <1>Q, <3>1 DEF Begin
      <4>2. \A i \in Watched : since'[i] <= spent' /\ since'[i] < spent' + Interval + Interval /\ since'[i] < spent' + Interval + 0
        BY <4>1, Bounds DEF Never
      <4>3. \A i \in Watched : since'[i] < SinceRun' + Interval + IF phase' = "main" /\ k' <= i THEN Interval ELSE 0
        BY <4>1, <4>2 DEF SinceRun
      <4>. QED BY <1>M, <4>1, <4>2, <4>3 DEF Punctual
    <3>2. CASE Loop
      <4>1. phase' = "wait" /\ due' = due /\ ticker' = IF ticker = 0 THEN Interval ELSE ticker
        BY <3>2 DEF Loop, Begin
      <4>2. ~due /\ SinceRun' = Interval - ticker' /\ ticker' > 0
        BY <1>M, <1>Q, <1>T, <4>1, Bounds DEF SinceRun, Running
      <4>3. \A i \in Watched : since'[i] < Interval - ticker' + Interval
        <5> TAKE i \in Watched
        <5>1. CASE phase = "local"
          BY <1>M, <1>Q, <4>1, <5>1, Bounds DEF Never
        <5>2. CASE phase = "main" /\ ticker = 0
          <6>1. since'[i] <= spent /\ since'[i] \in Int
            BY <1>M, <5>2
          <6>. QED BY <1>T, <4>1, <5>2, <6>1, Bounds
        <5>3. CASE phase = "main" /\ ticker # 0
          <6>1. since'[i] < spent + Interval /\ ticker + spent = Interval /\ since'[i] \in Int
            BY <1>M, <1>Q, <2>2, <5>3
          <6>. QED BY <1>T, <4>1, <5>3, <6>1, Bounds
        <5>. QED BY <1>M, <5>1, <5>2, <5>3 DEF Running
      <4>4. \A i \in Watched : since'[i] < SinceRun' + Interval + IF phase' = "main" /\ k' <= i THEN Interval ELSE 0
        <5>1. Interval - ticker' + Interval + 0 = Interval - ticker' + Interval
          BY <1>T, <4>1, Bounds
        <5>. QED BY <4>1, <4>2, <4>3, <5>1
      <4>. QED BY <1>M, <4>1, <4>2, <4>4 DEF Punctual
    <3>. QED BY <2>2, <3>1, <3>2 DEF EndRun
  <2>3. k = Len(Order) => \A i \in Watched : i <= k
    BY <1>I
  <2>. QED BY <1>M, <2>1, <2>2, <2>3 DEF NextSource
\* Clock, run and data stay as they are, as far as the property sees.
<1>S. ASSUME UNCHANGED <<phase, k, spent, clocks, age, since>> PROVE Punctual'
  BY <1>P, <1>S DEF Punctual, SinceRun, Expired
<1>1. ASSUME Start PROVE Punctual'
  <2>1. /\ phase = "down" /\ due' = FALSE /\ UNCHANGED <<age, since>>
        /\ \/ phase' = "local" /\ spent' = 0 /\ ticker' = 0
           \/ phase' = "main" /\ spent' = 0 /\ ticker' = 0
           \/ phase' = "wait" /\ spent' = 0 /\ ticker' = Interval
    BY <1>1, Bounds DEF Start, Begin
  <2>2. \A i \in Watched : since'[i] = Never /\ (~Expired(i)' => since'[i] <= age'[i])
    BY <1>Q, <2>1 DEF Expired
  <2>3. phase' \in {"main", "wait"} => SinceRun' = 0
    BY <2>1, Bounds DEF SinceRun
  <2>4. \A i \in Watched : Never <= 0 /\ Never < 0 + Interval + Interval /\ Never < 0 + Interval + 0
    BY Bounds DEF Never
  <2>. QED BY <2>1, <2>2, <2>3, <2>4, Bounds DEF Punctual
<1>2. ASSUME RunDue PROVE Punctual'
  <2>1. /\ phase = "wait" /\ due /\ phase' = "main" /\ spent' = 0 /\ k' = 1 /\ due' = FALSE
        /\ UNCHANGED <<ticker, age, since>>
    BY <1>2 DEF RunDue, Begin
  <2>2. ticker = Interval /\ SinceRun = Interval /\ SinceRun' = 0
    BY <1>Q, <2>1 DEF SinceRun
  <2>3. \A i \in Watched : since'[i] < SinceRun' + Interval + IF phase' = "main" /\ k' <= i THEN Interval ELSE 0
    <3> TAKE i \in Watched
    <3>1. since[i] < Interval + Interval /\ 1 <= i
      BY <1>I, <1>Q, <2>1, <2>2, SourcesInOrder
    <3>. QED BY <1>I, <2>1, <2>2, <3>1, Bounds
  <2>4. ticker' + spent' = Interval /\ ticker' # 0
    BY <2>1, <2>2, Bounds
  <2>5. \A i \in Watched : ~Expired(i)' => since'[i] <= age'[i]
    BY <1>Q, <2>1 DEF Expired
  <2>. QED BY <2>1, <2>3, <2>4, <2>5 DEF Punctual
<1>3. ASSUME ShouldRun PROVE Punctual'
  <2>1. CASE UNCHANGED <<phase, k, spent, clocks>>
    BY <1>3, <1>S, <2>1 DEF ShouldRun
  <2>2. CASE ~Expired(k) /\ NextSource
    <3>1. Running /\ UNCHANGED <<age, since>>
      BY <1>3 DEF ShouldRun
    <3>2. phase = "main" => \A i \in Watched : i <= k => since[i] < spent + Interval
      <4> SUFFICES ASSUME phase = "main", NEW i \in Watched, i <= k PROVE since[i] < spent + Interval
        OBVIOUS
      <4>1. CASE i < k
        BY <1>Q, <4>1
      <4>2. CASE i = k
        <5>1. since[i] <= age[i] /\ age[i] < Interval
          BY <1>I, <1>Q, <2>2, <4>2, Bounds DEF Expired
        <5>. QED BY <1>T, <1>I, <5>1, Bounds
      <4>. QED BY <1>T, <1>I, <4>1, <4>2
    <3>3. \A i \in Watched : ~Expired(i)' => since'[i] <= age'[i]
      BY <1>Q, <3>1 DEF Expired
    <3>. QED BY <1>I, <1>M, <1>Q, <2>2, <3>1, <3>2, <3>3
  <2>. QED BY <1>3, <1>NF, <2>1, <2>2 DEF ShouldRun
<1>4. ASSUME Fetch \/ Write \/ Publish PROVE Punctual'
  BY <1>4, <1>S DEF Fetch, Write, Publish
<1>5. ASSUME CallFails PROVE Punctual'
  <2>1. Running /\ ~ForeignKeysOK(Order[k].writes[j], fetched) /\ UNCHANGED <<age, since>> /\ (NextSource \/ EndRun)
    BY <1>5, <1>NF DEF CallFails, SourceFails, Src
  <2>2. Order[k].writes[j] \in Referring
    BY <2>1 DEF ForeignKeysOK, Referring
  <2>3. \A i \in Watched : i < k
    <3> SUFFICES ASSUME NEW i \in Watched, ~(i < k) PROVE FALSE
      OBVIOUS
    <3>1. k \in 1 .. i
      BY <1>T, <1>I, SourcesInOrder
    <3>. QED BY <1>T, <2>2, <3>1, ConstantsAssumption
  <2>4. \A i \in Watched : i <= k
    BY <1>T, <1>I, <2>3
  <2>5. \A i \in Watched : ~Expired(i)' => since'[i] <= age'[i]
    BY <1>Q, <2>1 DEF Expired
  <2>. QED BY <1>I, <1>M, <1>Q, <2>1, <2>3, <2>4, <2>5
<1>6. ASSUME Succeed PROVE Punctual'
  <2>1. /\ Running /\ NextSource /\ Expired(k)
        /\ since' = IF phase = "main" /\ k \in Watched THEN [since EXCEPT ![k] = elapsed] ELSE since
        /\ IF ForceBootstrap THEN age' = age ELSE age' = [age EXCEPT ![k] = elapsed]
    BY <1>6, <1>NF, <1>W DEF Succeed, RecordRun
  <2>2. phase = "local" => since' = since
    BY <2>1
  <2>3. \A i \in Watched : i # k => since'[i] = since[i] /\ age'[i] = age[i]
    BY <1>T, <1>I, <2>1
  <2>4. phase = "main" /\ k \in Watched => since'[k] = elapsed
    BY <1>T, <2>1
  <2>5. elapsed \in Nat /\ elapsed <= spent /\ elapsed < spent + Interval /\ elapsed < spent + Interval + Interval
    BY <1>T, Bounds
  <2>6. \A i \in Watched : ~Expired(i)' => since'[i] <= age'[i]
    <3> SUFFICES ASSUME NEW i \in Watched, ~Expired(i)' PROVE since'[i] <= age'[i]
      OBVIOUS
    <3>1. CASE i # k
      BY <1>Q, <2>3, <3>1 DEF Expired
    <3>2. CASE i = k
      <4>1. age'[k] = elapsed
        BY <1>T, <2>1, <3>2 DEF Expired
      <4>2. since'[k] = elapsed \/ since'[k] = Never
        BY <1>Q, <2>1, <2>2, <2>4, <3>2 DEF Running
      <4>. QED BY <2>5, <3>2, <4>1, <4>2 DEF Never
    <3>. QED BY <3>1, <3>2
  <2>7. \A i \in Watched : since'[i] \in Int
    BY <1>I, <2>1, <2>3, <2>4, <2>5 DEF Running
  <2>8. phase = "main" => \A i \in Watched :
            /\ ticker = 0 => since'[i] <= spent
            /\ since'[i] < spent + Interval + Interval
            /\ i <= k => since'[i] < spent + Interval
    <3> SUFFICES ASSUME phase = "main", NEW i \in Watched
                 PROVE  /\ ticker = 0 => since'[i] <= spent
                        /\ since'[i] < spent + Interval + Interval
                        /\ i <= k => since'[i] < spent + Interval
      OBVIOUS
    <3>1. CASE i = k
      BY <2>4, <2>5, <3>1
    <3>2. CASE i # k
      <4>1. i <= k => i < k
        BY <1>T, <1>I, <3>2
      <4>. QED BY <1>Q, <2>3, <3>2, <4>1
    <3>. QED BY <3>1, <3>2
  <2>. QED BY <1>M, <2>1, <2>2, <2>6, <2>7, <2>8
<1>7. ASSUME Kill PROVE Punctual'
  BY <1>7, <1>NF DEF Kill
<1>8. ASSUME Tick PROVE Punctual'
  <2>0. /\ phase # "down" /\ ~(phase = "wait" /\ due) /\ (Running => spent < MaxRunTicks /\ spent' = spent + 1)
        /\ age' = [i \in Index |-> Min({age[i] + 1, Interval})]
        /\ since' = [i \in Watched |-> IF since[i] = Never THEN Never ELSE Min({since[i] + 1, StaleBound + 1})]
        /\ phase' = phase /\ k' = k
    BY <1>8 DEF Tick
  <2>1. /\ ticker = 0 => UNCHANGED <<ticker, due>>
        /\ ticker = 1 => ticker' = Interval /\ due' = TRUE
        /\ ticker # 0 /\ ticker # 1 => ticker' = ticker - 1 /\ due' = due
    BY <1>8 DEF Tick
  <2>2. \A i \in Watched : /\ since'[i] \in Int
                           /\ since[i] = Never => since'[i] = Never
                           /\ since[i] # Never => since'[i] <= since[i] + 1
    <3> TAKE i \in Watched
    <3>1. since[i] + 1 \in Int /\ StaleBound + 1 \in Int /\ Never \in Int
      BY <1>I, Bounds DEF Never
    <3>2. Min({since[i] + 1, StaleBound + 1}) = IF since[i] + 1 <= StaleBound + 1 THEN since[i] + 1 ELSE StaleBound + 1
      BY <3>1, MinOfTwo
    <3>. QED BY <2>0, <3>1, <3>2
  <2>3. \A i \in Watched : age'[i] = IF age[i] + 1 <= Interval THEN age[i] + 1 ELSE Interval
    <3> TAKE i \in Watched
    <3>1. age[i] + 1 \in Int /\ Interval \in Int /\ i \in Index
      BY <1>I, Bounds
    <3>. QED BY <2>0, <3>1, MinOfTwo
  <2>4. \A i \in Watched : ~Expired(i)' => since'[i] <= age'[i]
    <3> SUFFICES ASSUME NEW i \in Watched, ~Expired(i)' PROVE since'[i] <= age'[i]
      OBVIOUS
    <3>1. age'[i] = age[i] + 1 /\ age[i] < Interval /\ age[i] \in Nat
      BY <1>I, <2>3, Bounds DEF Expired
    <3>2. since[i] <= age[i]
      BY <1>I, <1>Q, <3>1, Bounds DEF Expired
    <3>. QED BY <1>I, <2>2, <3>1, <3>2 DEF Never
  <2>5. \A i \in Watched : \A b \in Int : since[i] < b /\ b >= 0 => since'[i] < b + 1
    BY <1>I, <2>2 DEF Never
  <2>6. CASE phase = "local"
    <3>1. phase' = "local" /\ ticker' = 0 /\ ~due'
      BY <1>Q, <2>0, <2>1, <2>6
    <3>2. \A i \in Watched : since'[i] = Never
      BY <1>Q, <2>2, <2>6
    <3>. QED BY <2>4, <3>1, <3>2 DEF Punctual
  <2>7. CASE phase = "main"
    <3>1. spent' = spent + 1 /\ SinceRun' = spent + 1 /\ spent < MaxRunTicks
      BY <2>0, <2>7 DEF Running, SinceRun
    <3>2. ~due' /\ (ticker' = 0 \/ ticker' + spent' = Interval) /\ (ticker' = 0 => ticker = 0)
      <4>1. CASE ticker = 0
        BY <1>Q, <2>1, <2>7, <4>1
      <4>2. CASE ticker # 0
        <5>1. ticker + spent = Interval /\ ticker # 1
          BY <1>Q, <1>T, <2>7, <3>1, <4>2, Bounds
        <5>2. ticker' = ticker - 1 /\ due' = due
          BY <2>1, <4>2, <5>1
        <5>3. ticker' + spent' = Interval /\ ticker' # 0
          BY <1>T, <3>1, <4>2, <5>1, <5>2, Bounds
        <5>4. ~due'
          BY <1>Q, <2>7, <5>2
        <5>. QED BY <5>3, <5>4
      <4>. QED BY <4>1, <4>2
    <3>3. \A i \in Watched : since'[i] < SinceRun' + Interval + IF k <= i THEN Interval ELSE 0
      <4> TAKE i \in Watched
      <4>1. CASE k <= i
        <5>1. since[i] < spent + Interval + Interval
          BY <1>Q, <2>7
        <5>2. since'[i] < spent + Interval + Interval + 1
          BY <1>T, <2>5, <5>1, Bounds
        <5>. QED BY <1>T, <2>2, <3>1, <4>1, <5>2, Bounds
      <4>2. CASE ~(k <= i)
        <5>1. since[i] < spent + Interval
          BY <1>Q, <1>T, <1>I, <2>7, <4>2
        <5>2. since'[i] < spent + Interval + 1
          BY <1>T, <2>5, <5>1, Bounds
        <5>. QED BY <1>T, <2>2, <3>1, <4>2, <5>2, Bounds
      <4>. QED BY <4>1, <4>2
    <3>4. ticker' = 0 => \A i \in Watched : since'[i] <= spent'
      <4> SUFFICES ASSUME ticker' = 0, NEW i \in Watched PROVE since'[i] <= spent'
        OBVIOUS
      <4>1. since[i] <= spent
        BY <1>Q, <2>7, <3>2
      <4>. QED BY <1>T, <1>I, <2>2, <3>1, <4>1 DEF Never
    <3>. QED BY <2>0, <2>4, <2>7, <3>2, <3>3, <3>4 DEF Punctual
  <2>8. CASE phase = "wait"
    <3>1. ~due /\ ticker > 0 /\ ticker \in Nat /\ SinceRun = Interval - ticker
      BY <1>Q, <1>T, <2>0, <2>8 DEF SinceRun
    <3>2. SinceRun' = SinceRun + 1 /\ SinceRun \in Int /\ SinceRun >= 0 /\ ticker' > 0
      <4>1. CASE ticker = 1
        BY <2>0, <2>1, <2>8, <3>1, <4>1, Bounds DEF SinceRun
      <4>2. CASE ticker # 1
        <5>1. ticker' = ticker - 1 /\ due' = due
          BY <2>1, <3>1, <4>2
        <5>2. SinceRun' = Interval - ticker'
          BY <2>0, <2>8, <3>1, <5>1 DEF SinceRun
        <5>. QED BY <1>T, <3>1, <4>2, <5>1, <5>2, Bounds
      <4>. QED BY <4>1, <4>2
    <3>3. due' => ticker' = Interval
      BY <2>1, <3>1
    <3>4. \A i \in Watched : since'[i] < SinceRun' + Interval + IF phase' = "main" /\ k' <= i THEN Interval ELSE 0
      <4> TAKE i \in Watched
      <4>1. since[i] < SinceRun + Interval
        BY <1>Q, <2>8
      <4>2. since'[i] < SinceRun + Interval + 1
        BY <2>5, <3>2, <4>1, Bounds
      <4>3. phase' # "main"
        BY <2>0, <2>8
      <4>. QED BY <2>2, <3>2, <4>2, <4>3, Bounds
    <3>. QED BY <2>0, <2>4, <2>8, <3>2, <3>3, <3>4 DEF Punctual
  <2>. QED BY <1>T, <2>0, <2>6, <2>7, <2>8
<1>9. ASSUME UNCHANGED vars PROVE Punctual'
  BY <1>9, <1>S DEF vars
<1>. QED BY <1>1, <1>2, <1>3, <1>4, <1>5, <1>6, <1>7, <1>8, <1>9 DEF Next, System

\* While no call fails and no process dies, the rows of a watched table are never older
\* than two intervals and the longest run: the gate of Runner.Run, the ticker of
\* cmd/enricher and the time RecordRun stores never add up to a third interval.
THEOREM DataStayFresh == Spec => []StalenessBounded
<1>1. Init => StaleInv
  BY Bounds DEF Init, StaleInv, Punctual, Expired
<1>2. EnrichIInv => TypeOK
  BY DEF EnrichIInv, EnrichInv
<1>3. Spec => []StaleInv
  BY <1>1, EnrichInvariant, StaleStep, PTL DEF Spec
<1>. QED BY <1>2, <1>3, EnrichInvariant, PunctualIsFresh, PTL

-----------------------------------------------------------------------------
(* RefData: the rows the sources write.                                     *)

\* Induction on the natural numbers, from the well-foundedness of <.
LEMMA LeastNumber ==
  ASSUME NEW T \in SUBSET Nat, T # {}
  PROVE  \E x \in T : \A y \in T : x <= y
<1> DEFINE R == OpToRel(<, Nat)
<1>1. IsWellFoundedOn(R, Nat)
  BY NatLessThanWellFounded
<1>2. \A x, y \in Nat : <<x, y>> \in R <=> x < y
  BY DEF OpToRel
<1> HIDE DEF R
<1>3. PICK x \in T : \A y \in T : ~ (<<y, x>> \in R)
  BY <1>1, WFMin
<1>4. ASSUME NEW y \in T PROVE x <= y
  <2>1. ~ (<<y, x>> \in R)
    BY <1>3
  <2>2. x \in Nat /\ y \in Nat
    OBVIOUS
  <2>3. <<y, x>> \in R <=> y < x
    BY <1>2, <2>2, Zenon
  <2>4. ~ (y < x)
    BY <2>1, <2>3, Zenon
  <2>. QED BY <2>2, <2>4
<1>. QED BY <1>4

LEMMA SetInduction ==
  ASSUME NEW P \in SUBSET Nat, 0 \in P, \A n \in P : n + 1 \in P
  PROVE  P = Nat
<1> SUFFICES ASSUME NEW m \in Nat, m \notin P PROVE FALSE
  OBVIOUS
<1> DEFINE T == Nat \ P
<1>1. PICK x \in T : \A y \in T : x <= y
  <2> HIDE DEF T
  <2>1. T \in SUBSET Nat /\ T # {}
    BY DEF T
  <2>. QED BY <2>1, LeastNumber
<1>2. x # 0 /\ x - 1 \in Nat /\ x - 1 \notin T
  BY <1>1
<1>3. x - 1 \in P
  BY <1>2
<1>4. (x - 1) + 1 \in P
  BY <1>3
<1>. QED BY <1>1, <1>4

\* The rows of a transaction, the tables after each of them, and its outcome.
Runs(q, tab, rows, o, n, after) ==
  /\ \A i \in 1 .. n : o[i] \in rows
  /\ \A row \in rows : \E i \in 1 .. n : o[i] = row
  /\ after[0] = [tab |-> tab, err |-> FALSE]
  /\ \A i \in 1 .. n : after[i] = IF after[i - 1].err \/ Ref!Refused(q, after[i - 1].tab, o[i])
                                  THEN [tab |-> tab, err |-> TRUE]
                                  ELSE [tab |-> Ref!Exec(q, after[i - 1].tab, o[i]), err |-> FALSE]
  /\ Ref!Transaction(q, tab, o) = after[n]

LEMMA TransactionRuns ==
  ASSUME NEW q, NEW tab, NEW rows, IsFiniteSet(rows), NEW o \in Ref!SetToSeqs(rows)
  PROVE  \E n \in Nat : \E after : Runs(q, tab, rows, o, n, after)
<1> DEFINE n == Cardinality(rows)
           Row(t, r) == IF t.err \/ Ref!Refused(q, t.tab, r) THEN [tab |-> tab, err |-> TRUE]
                        ELSE [tab |-> Ref!Exec(q, t.tab, r), err |-> FALSE]
           Step(g, i) == IF i = 0 THEN [tab |-> tab, err |-> FALSE] ELSE Row(g[i - 1], o[i])
           Is(g, m) == g = [i \in 0 .. m |-> Step(g, i)]
           after == CHOOSE g : Is(g, n)
<1>0. n \in Nat
  BY FS_CardinalityType
<1>a. o \in [1 .. n -> rows] /\ \A i, m \in 1 .. n : o[i] = o[m] => i = m
  BY DEF Ref!SetToSeqs, Ref!Cardinality, Cardinality
<1>b. \A row \in rows : \E i \in 1 .. n : o[i] = row
  <2> HIDE DEF n
  <2>1. o \in Injection(1 .. n, rows)
    BY <1>a DEF Injection, IsInjective
  <2>2. Cardinality(1 .. n) = n
    BY <1>0, FS_Interval
  <2>3. o \in Surjection(1 .. n, rows)
    BY <2>1, <2>2, FS_Injection DEF n
  <2>. QED BY <2>3 DEF Surjection
<1>c. Len(o) = n
  BY <1>0, <1>a
<1> HIDE DEF n, Row
<1>1. \E g : Is(g, n)
  <2> DEFINE P == {m \in Nat : \E g : Is(g, m)}
  <2>1. 0 \in P
    <3>1. Is([i \in 0 .. 0 |-> [tab |-> tab, err |-> FALSE]], 0)
      OBVIOUS
    <3>. QED BY <3>1
  <2>2. ASSUME NEW m \in P PROVE m + 1 \in P
    <3>1. PICK g : Is(g, m)
      BY <2>2
    <3> DEFINE h == [i \in 0 .. m + 1 |-> IF i <= m THEN g[i] ELSE Step(g, m + 1)]
    <3>2. ASSUME NEW i \in 0 .. m + 1 PROVE h[i] = Step(h, i)
      <4>1. CASE i = 0
        BY <3>1, <4>1
      <4>2. CASE i # 0 /\ i <= m
        <5>1. i \in 0 .. m /\ i - 1 \in 0 .. m
          BY <2>2, <4>2
        <5>2. g[i] = Step(g, i)
          BY <3>1, <5>1
        <5>3. h[i] = g[i] /\ h[i - 1] = g[i - 1]
          BY <4>2, <5>1
        <5>. QED BY <4>2, <5>2, <5>3
      <4>3. CASE i = m + 1
        <5>1. h[i] = Step(g, i) /\ h[i - 1] = g[i - 1]
          BY <4>3
        <5>. QED BY <4>3, <5>1
      <4>. QED BY <4>1, <4>2, <4>3
    <3>3. Is(h, m + 1)
      <4>1. h = [i \in 0 .. m + 1 |-> h[i]]
        OBVIOUS
      <4> HIDE DEF h, Step
      <4>. QED BY <3>2, <4>1
    <3>4. m + 1 \in Nat
      BY <2>2
    <3> HIDE DEF h, Is
    <3>. QED BY <3>3, <3>4
  <2>3. P = Nat
    <3> HIDE DEF P
    <3>1. P \in SUBSET Nat
      BY DEF P
    <3>. QED BY <2>1, <2>2, <3>1, SetInduction
  <2>. QED BY <1>0, <2>3
<1>2. Is(after, n)
  BY <1>1
<1>3. Ref!Transaction(q, tab, o) = after[n]
  BY <1>c DEF Ref!Transaction, Row
<1> HIDE DEF after
<1>4. after[0] = [tab |-> tab, err |-> FALSE] /\ \A i \in 1 .. n : after[i] = Row(after[i - 1], o[i])
  <2>1. \A i \in 0 .. n : after[i] = Step(after, i)
    <3> HIDE DEF Step
    <3>. QED BY <1>2
  <2>2. 0 \in 0 .. n /\ \A i \in 1 .. n : i \in 0 .. n /\ i # 0
    BY <1>0
  <2>. QED BY <2>1, <2>2, Zenon
<1>5. \A i \in 1 .. n : o[i] \in rows
  BY <1>a
<1>. QED BY <1>0, <1>b, <1>3, <1>4, <1>5 DEF Row, Runs

\* What every statement preserves holds of the table after the transaction, which is the
\* old one if a row was refused.
LEMMA TransactionPreserves ==
  ASSUME NEW q, NEW tab, NEW rows, IsFiniteSet(rows), NEW G, tab \in G,
         \A t \in G : \A row \in rows : ~Ref!Refused(q, t, row) => Ref!Exec(q, t, row) \in G,
         NEW out \in Ref!Outcomes(q, tab, rows)
  PROVE  out.tab \in G /\ out.err \in BOOLEAN /\ (out.err => out.tab = tab)
<1>1. PICK o \in Ref!SetToSeqs(rows) : out = Ref!Transaction(q, tab, o)
  BY DEF Ref!Outcomes
<1>2. PICK n \in Nat : \E after : Runs(q, tab, rows, o, n, after)
  BY TransactionRuns
<1>r. PICK after : Runs(q, tab, rows, o, n, after)
  BY <1>2
<1> DEFINE Good(t) == t.tab \in G /\ t.err \in BOOLEAN /\ (t.err => t.tab = tab)
           P == {m \in Nat : m <= n => Good(after[m])}
<1>3. 0 \in P
  <2>1. Good(after[0])
    BY <1>r DEF Runs
  <2> HIDE DEF Good
  <2>. QED BY <2>1
<1>4. ASSUME NEW m \in P PROVE m + 1 \in P
  <2>1. ASSUME m + 1 <= n PROVE Good(after[m + 1])
    <3> DEFINE i == m + 1
    <3>1. i \in 1 .. n /\ i - 1 = m /\ Good(after[m]) /\ o[i] \in rows
      BY <1>r, <1>4, <2>1 DEF Runs
    <3> HIDE DEF i
    <3>2. CASE after[m].err \/ Ref!Refused(q, after[m].tab, o[i])
      <4>1. after[i] = [tab |-> tab, err |-> TRUE]
        BY <1>r, <3>1, <3>2 DEF Runs
      <4>. QED BY <4>1 DEF i
    <3>3. CASE ~(after[m].err \/ Ref!Refused(q, after[m].tab, o[i]))
      <4>1. after[i] = [tab |-> Ref!Exec(q, after[m].tab, o[i]), err |-> FALSE]
        BY <1>r, <3>1, <3>3 DEF Runs
      <4>2. Ref!Exec(q, after[m].tab, o[i]) \in G
        BY <3>1, <3>3
      <4>. QED BY <4>1, <4>2 DEF i
    <3>. QED BY <3>2, <3>3
  <2> HIDE DEF Good
  <2>. QED BY <1>4, <2>1
<1>5. P = Nat
  <2> HIDE DEF P
  <2>1. P \in SUBSET Nat
    BY DEF P
  <2>. QED BY <1>3, <1>4, <2>1, SetInduction
<1>. QED BY <1>1, <1>r, <1>5 DEF Runs

\* What the statement for one row establishes and every statement preserves holds after a
\* transaction that succeeds.
LEMMA TransactionEstablishes ==
  ASSUME NEW q, NEW tab, NEW rows, IsFiniteSet(rows), NEW G, tab \in G, NEW H \in SUBSET G, NEW key \in rows,
         \A t \in G : \A row \in rows : ~Ref!Refused(q, t, row) => Ref!Exec(q, t, row) \in G,
         \A t \in H : \A row \in rows : ~Ref!Refused(q, t, row) => Ref!Exec(q, t, row) \in H,
         \A t \in G : ~Ref!Refused(q, t, key) => Ref!Exec(q, t, key) \in H,
         NEW out \in Ref!Outcomes(q, tab, rows), ~out.err
  PROVE  out.tab \in H
<1>1. PICK o \in Ref!SetToSeqs(rows) : out = Ref!Transaction(q, tab, o)
  BY DEF Ref!Outcomes
<1>2. PICK n \in Nat : \E after : Runs(q, tab, rows, o, n, after)
  BY TransactionRuns
<1>r. PICK after : Runs(q, tab, rows, o, n, after)
  BY <1>2
<1>3. PICK c \in 1 .. n : o[c] = key
  BY <1>r DEF Runs
<1> DEFINE Good(t, m) == t.err = TRUE \/ (t.err = FALSE /\ t.tab \in G /\ (c <= m => t.tab \in H))
           P == {m \in Nat : m <= n => Good(after[m], m)}
<1>4. 0 \in P
  BY <1>r, <1>3 DEF Runs
<1>5. ASSUME NEW m \in P PROVE m + 1 \in P
  <2>1. ASSUME m + 1 <= n PROVE Good(after[m + 1], m + 1)
    <3> DEFINE i == m + 1
    <3>1. i \in 1 .. n /\ i - 1 = m /\ Good(after[m], m) /\ o[i] \in rows /\ (c <= i => c <= m \/ c = i)
      BY <1>r, <1>3, <1>5, <2>1 DEF Runs
    <3> HIDE DEF i
    <3>2. CASE after[m].err \/ Ref!Refused(q, after[m].tab, o[i])
      <4>1. after[i] = [tab |-> tab, err |-> TRUE]
        BY <1>r, <3>1, <3>2 DEF Runs
      <4>. QED BY <4>1 DEF i
    <3>3. CASE ~(after[m].err \/ Ref!Refused(q, after[m].tab, o[i]))
      <4>1. after[i] = [tab |-> Ref!Exec(q, after[m].tab, o[i]), err |-> FALSE]
        BY <1>r, <3>1, <3>3 DEF Runs
      <4>2. after[m].tab \in G /\ Ref!Exec(q, after[m].tab, o[i]) \in G
        BY <3>1, <3>3
      <4>3. c = i => Ref!Exec(q, after[m].tab, o[i]) \in H
        BY <1>3, <3>3, <4>2
      <4>4. c <= m => Ref!Exec(q, after[m].tab, o[i]) \in H
        BY <3>1, <3>3
      <4>. QED BY <3>1, <4>1, <4>2, <4>3, <4>4 DEF i
    <3>. QED BY <3>2, <3>3
  <2> HIDE DEF Good
  <2>. QED BY <1>5, <2>1
<1>6. P = Nat
  <2> HIDE DEF P
  <2>1. P \in SUBSET Nat
    BY DEF P
  <2>. QED BY <1>4, <1>5, <2>1, SetInduction
<1>7. Good(after[n], n)
  BY <1>6
<1>. QED BY <1>1, <1>r, <1>3, <1>7 DEF Runs

\* A table whose rows are identified by a number.
Numbered == {"heroes", "game_mode", "lobby_type", "region", "items", "item_ids", "patch"}

LEMMA ExecNumbered ==
  ASSUME NEW q \in Numbered, NEW t, NEW row
  PROVE  Ref!Exec(q, t, row) = {x \in t : x.id # row.id} \union {row}
<1>1. q \notin {"abilities", "ability_ids"} /\ q \notin {"hero_abilities", "hero_facets"} /\ q # "hero_talents"
  BY DEF Numbered
<1>2. Ref!NewRow(q, t, row) = row
  BY <1>1 DEF Ref!NewRow
<1>3. \A x : Ref!SameKey(q, x, row) <=> x.id = row.id
  BY <1>1 DEF Ref!SameKey
<1>. QED BY <1>2, <1>3, Zenon DEF Ref!Exec

\* The release that is current satisfies the assumption on releases.
LEMMA CurrentRelease ==
  ASSUME Ref!ConstantsOK, release \in DOMAIN Releases
  PROVE  /\ \A refs \in {Ref!heroRefs(Ref!Cur), Ref!abilityIDRefs(Ref!Cur), Ref!gameModeRefs(Ref!Cur),
                         Ref!lobbyTypeRefs(Ref!Cur), Ref!regionRefs(Ref!Cur), Ref!itemRefs(Ref!Cur),
                         Ref!itemIDRefs(Ref!Cur), Ref!patchRefs(Ref!Cur)} :
              IsFiniteSet(refs) /\ \A x \in refs : x.id \in Int /\ x = [id |-> x.id, name |-> x.name]
         /\ IsFiniteSet(Ref!abilityRefs(Ref!Cur)) /\ IsFiniteSet(Ref!heroAbilityRefs(Ref!Cur))
         /\ IsFiniteSet(Ref!heroTalentRefs(Ref!Cur)) /\ IsFiniteSet(Ref!Cur.hero_facets)
         /\ \A t \in Ref!heroTalentRefs(Ref!Cur) : t.level \in Int
<1>1. Ref!ReleaseOK(Ref!Cur)
  BY DEF Ref!ConstantsOK, Ref!Cur
<1>2. \A S : Ref!IsFiniteSet(S) <=> IsFiniteSet(S)
  BY Zenon DEF Ref!IsFiniteSet, IsFiniteSet
<1>. QED BY <1>1, <1>2, Zenon DEF Ref!ReleaseOK

\* A lookup table keeps its keys.
LookupKeys(t) == \A x, y \in t : x.id >= 0 /\ x.name # "" /\ (x.id = y.id => x = y)

LEMMA LookupOutcome ==
  ASSUME NEW q \in Numbered, NEW tab, LookupKeys(tab), NEW refs, IsFiniteSet(refs), NEW rows \in SUBSET refs,
         \A x \in rows : x.id >= 0 /\ x.name # "",
         NEW out \in Ref!Outcomes(q, tab, rows)
  PROVE  LookupKeys(out.tab) /\ out.err \in BOOLEAN
<1>e. ASSUME NEW t, NEW row PROVE Ref!Exec(q, t, row) = {x \in t : x.id # row.id} \union {row}
  BY ExecNumbered, ZenonT(30)
<1> DEFINE G == {t \in SUBSET (tab \union rows) : LookupKeys(t)}
<1>1. IsFiniteSet(rows)
  BY FS_Subset
<1>2. tab \in G
  OBVIOUS
<1>3. ASSUME NEW t \in G, NEW row \in rows PROVE Ref!Exec(q, t, row) \in G
  <2>1. Ref!Exec(q, t, row) = {x \in t : x.id # row.id} \union {row}
    BY <1>e, Zenon
  <2>2. LookupKeys({x \in t : x.id # row.id} \union {row})
    <3>1. (\A x, y \in t : x.id >= 0 /\ x.name # "" /\ (x.id = y.id => x = y)) /\ row.id >= 0 /\ row.name # ""
      BY DEF LookupKeys
    <3>. QED BY <3>1, Zenon DEF LookupKeys
  <2>. QED BY <2>1, <2>2
<1> HIDE DEF G
<1>4. out.tab \in G /\ out.err \in BOOLEAN
  BY <1>1, <1>2, <1>3, TransactionPreserves
<1>. QED BY <1>4 DEF G

\* The heroes after UpsertHeroes.
HeroKeys(t) == \A h, g \in t : Ref!IsSmall(h.id) /\ (h.id = g.id => h = g)

HasHero(t, id) == \E h \in Ref!heroRefs(Ref!Cur) : h \in t /\ h.id = id

LEMMA HeroesOutcome ==
  ASSUME Ref!ConstantsOK, release \in DOMAIN Releases, HeroKeys(heroes),
         NEW out \in Ref!UpsertHeroes(Ref!heroRefs(Ref!Cur))
  PROVE  /\ HeroKeys(out.tab) /\ out.err \in BOOLEAN /\ (out.err => out.tab = heroes)
         /\ ~out.err => \A h \in Ref!heroRefs(Ref!Cur) : h.id \in 1 .. Ref!Smallint => HasHero(out.tab, h.id)
<1> DEFINE refs == Ref!heroRefs(Ref!Cur)
           rows == {h \in refs : h.id > 0 /\ h.id <= Ref!Smallint}
           G == {t \in SUBSET (heroes \union rows) : HeroKeys(t)}
<1>0. IsFiniteSet(refs) /\ \A h \in refs : h.id \in Int
  BY CurrentRelease
<1>s. Ref!Smallint \in Nat
  BY DEF Ref!Smallint
<1>1. out = [tab |-> heroes, err |-> TRUE] \/ out \in Ref!Outcomes("heroes", heroes, rows)
  BY DEF Ref!UpsertHeroes, Ref!UsableHeroes
<1> HIDE DEF refs
<1>2. CASE out = [tab |-> heroes, err |-> TRUE]
  BY <1>2
<1>3. CASE out \in Ref!Outcomes("heroes", heroes, rows)
  <2>1. IsFiniteSet(rows)
    BY <1>0, FS_Subset
  <2>2. heroes \in G
    OBVIOUS
  <2>3. ASSUME NEW t \in G, NEW row \in rows
        PROVE  /\ Ref!Exec("heroes", t, row) = {x \in t : x.id # row.id} \union {row}
               /\ Ref!Exec("heroes", t, row) \in G
    <3>1. Ref!Exec("heroes", t, row) = {x \in t : x.id # row.id} \union {row}
      BY ExecNumbered DEF Numbered
    <3>2. HeroKeys({x \in t : x.id # row.id} \union {row})
      BY <1>0, <1>s DEF HeroKeys, Ref!IsSmall
    <3>. QED BY <3>1, <3>2
  <2>4. out.tab \in G /\ out.err \in BOOLEAN /\ (out.err => out.tab = heroes)
    <3> HIDE DEF G, rows
    <3>. QED BY <1>3, <2>1, <2>2, <2>3, TransactionPreserves
  <2>5. ASSUME ~out.err, NEW h \in refs, h.id \in 1 .. Ref!Smallint PROVE HasHero(out.tab, h.id)
    <3> DEFINE H == {t \in G : HasHero(t, h.id)}
    <3>1. h \in rows
      BY <1>0, <1>s, <2>5
    <3>2. ASSUME NEW t \in G, NEW row \in rows, HasHero(t, h.id) \/ row.id = h.id
          PROVE  Ref!Exec("heroes", t, row) \in H
      <4>1. row \in refs
        OBVIOUS
      <4>2. Ref!Exec("heroes", t, row) \in G /\ Ref!Exec("heroes", t, row) = {x \in t : x.id # row.id} \union {row}
        BY <2>3
      <4>3. HasHero({x \in t : x.id # row.id} \union {row}, h.id)
        <5>1. CASE row.id = h.id
          BY <4>1, <5>1 DEF HasHero, refs
        <5>2. CASE row.id # h.id
          BY <3>2, <5>2 DEF HasHero
        <5>. QED BY <5>1, <5>2
      <4>. QED BY <4>2, <4>3
    <3>3. (\A t \in G : Ref!Exec("heroes", t, h) \in H) /\ \A t \in H : \A row \in rows : Ref!Exec("heroes", t, row) \in H
      BY <3>1, <3>2
    <3>4. H \in SUBSET G
      OBVIOUS
    <3> HIDE DEF H, G, rows
    <3>5. out.tab \in H
      BY <1>3, <2>1, <2>2, <2>3, <2>5, <3>1, <3>3, <3>4, TransactionEstablishes
    <3>. QED BY <3>5 DEF H
  <2>. QED BY <2>4, <2>5 DEF refs
<1>. QED BY <1>1, <1>2, <1>3

\* The abilities after UpsertAbilities and UpsertAbilityIDs: each keeps the keys, what the
\* other one has loaded, and establishes its own part.
AbilityKeys(t) == \A a, b \in t : (a.name = b.name \/ (a.id = b.id /\ a.id # 0)) => a = b
HasDetail(t, name) == \E x \in t : x.name = name /\ x.detail
HasNumber(t, name) == \E x \in t : x.name = name /\ x.id \in Ref!Numbers(name)

LEMMA ExecAbility ==
  ASSUME NEW t, AbilityKeys(t), NEW row
  PROVE  \E id : /\ Ref!Exec("abilities", t, row) =
                        {x \in t : x.name # row.name} \union {[name |-> row.name, detail |-> TRUE, id |-> id]}
                 /\ \A x \in t : x.name = row.name => id = x.id
                 /\ (\A x \in t : x.name # row.name) => id = 0
<1> DEFINE id == IF \E x \in t : x.name = row.name THEN (CHOOSE x \in t : x.name = row.name).id ELSE 0
<1>1. Ref!NewRow("abilities", t, row) = [name |-> row.name, detail |-> TRUE, id |-> id]
  BY DEF Ref!NewRow
<1>2. \A x : Ref!SameKey("abilities", x, row) <=> x.name = row.name
  BY DEF Ref!SameKey
<1>3. ASSUME NEW x \in t, x.name = row.name PROVE id = x.id
  <2>1. PICK y \in t : y.name = row.name /\ id = y.id
    BY <1>3
  <2>. QED BY <1>3, <2>1 DEF AbilityKeys
<1>4. (\A x \in t : x.name # row.name) => id = 0
  OBVIOUS
<1> HIDE DEF id
<1>5. Ref!Exec("abilities", t, row) =
        {x \in t : x.name # row.name} \union {[name |-> row.name, detail |-> TRUE, id |-> id]}
  BY <1>1, <1>2, Zenon DEF Ref!Exec
<1>. QED BY <1>3, <1>4, <1>5

LEMMA ExecAbilityID ==
  ASSUME NEW t, NEW row
  PROVE  Ref!Exec("ability_ids", t, row) =
            {x \in t : x.name # row.name} \union {[name |-> row.name, id |-> row.id, detail |-> HasDetail(t, row.name)]}
<1>1. Ref!NewRow("ability_ids", t, row) = [name |-> row.name, id |-> row.id, detail |-> HasDetail(t, row.name)]
  BY DEF Ref!NewRow, HasDetail
<1>2. \A x : Ref!SameKey("ability_ids", x, row) <=> x.name = row.name
  BY DEF Ref!SameKey
<1>. QED BY <1>1, <1>2, Zenon DEF Ref!Exec

LEMMA AbilitiesOutcome ==
  ASSUME Ref!ConstantsOK, release \in DOMAIN Releases, AbilityKeys(abilities),
         NEW IDs, \A a \in IDs : HasNumber(abilities, a.name),
         NEW out \in Ref!UpsertAbilities(Ref!abilityRefs(Ref!Cur))
  PROVE  /\ AbilityKeys(out.tab) /\ out.err \in BOOLEAN /\ (out.err => out.tab = abilities)
         /\ \A a \in IDs : HasNumber(out.tab, a.name)
         /\ ~out.err => \A a \in Ref!abilityRefs(Ref!Cur) : HasDetail(out.tab, a.name)
<1> DEFINE refs == Ref!abilityRefs(Ref!Cur)
           rows == {a \in refs : a.name # ""}
           Ids == {x.id : x \in abilities} \union {0}
           New == [name : {r.name : r \in rows}, detail : {TRUE}, id : Ids]
           Good(t) == /\ AbilityKeys(t) /\ \A x \in t : x.id \in Ids
                      /\ \A a \in IDs : HasNumber(t, a.name)
           G == {t \in SUBSET (abilities \union New) : Good(t)}
<1>0. IsFiniteSet(refs)
  BY CurrentRelease
<1>1. out \in Ref!Outcomes("abilities", abilities, rows)
  BY DEF Ref!UpsertAbilities
<1>2. \A a \in refs : a \in rows
  BY DEF Ref!abilityRefs
<1> HIDE DEF refs
<1>3. IsFiniteSet(rows)
  BY <1>0, FS_Subset
<1>4. abilities \in G
  OBVIOUS
<1>5. ASSUME NEW t \in G, NEW row \in rows
      PROVE  /\ Ref!Exec("abilities", t, row) \in G
             /\ HasDetail(Ref!Exec("abilities", t, row), row.name)
             /\ \A a : HasDetail(t, a) => HasDetail(Ref!Exec("abilities", t, row), a)
  <2>0. Good(t) /\ t \in SUBSET (abilities \union New)
    OBVIOUS
  <2>1. PICK id : /\ Ref!Exec("abilities", t, row) =
                        {x \in t : x.name # row.name} \union {[name |-> row.name, detail |-> TRUE, id |-> id]}
                  /\ \A x \in t : x.name = row.name => id = x.id
                  /\ (\A x \in t : x.name # row.name) => id = 0
    BY <2>0, ExecAbility
  <2> DEFINE new == [name |-> row.name, detail |-> TRUE, id |-> id]
             t1 == {x \in t : x.name # row.name} \union {new}
  <2>2. id \in Ids
    BY <2>0, <2>1
  <2>n. new.name = row.name /\ new.detail = TRUE /\ new.id = id /\ new \in New
    BY <2>2
  <2> HIDE DEF new, New, Ids
  <2>3. AbilityKeys(t1)
    <3> SUFFICES ASSUME NEW a \in t1, NEW b \in t1, a.name = b.name \/ (a.id = b.id /\ a.id # 0) PROVE a = b
      BY DEF AbilityKeys
    <3>1. CASE a \in t /\ b \in t
      BY <2>0, <3>1 DEF AbilityKeys
    <3>2. ASSUME NEW x \in t, x.name # row.name, x.id = id, id # 0 PROVE FALSE
      <4>1. PICK y \in t : y.name = row.name /\ id = y.id
        BY <2>1, <3>2
      <4>. QED BY <2>0, <3>2, <4>1 DEF AbilityKeys
    <3>. QED BY <2>n, <3>1, <3>2
  <2>4. \A x \in t1 : x.id \in Ids
    BY <2>0, <2>2, <2>n
  <2>5. ASSUME NEW a \in IDs PROVE HasNumber(t1, a.name)
    <3>1. PICK x \in t : x.name = a.name /\ x.id \in Ref!Numbers(a.name)
      BY <2>0 DEF HasNumber
    <3>2. CASE x.name = row.name
      <4>1. id \in Ref!Numbers(a.name)
        BY <2>1, <3>1, <3>2
      <4>2. new \in t1 /\ new.name = a.name /\ new.id \in Ref!Numbers(a.name)
        BY <2>n, <3>1, <3>2, <4>1
      <4> HIDE DEF t1
      <4>. QED BY <4>2 DEF HasNumber
    <3>3. CASE x.name # row.name
      BY <3>1, <3>3 DEF HasNumber
    <3>. QED BY <3>2, <3>3
  <2>6. t1 \in SUBSET (abilities \union New)
    BY <2>0, <2>n
  <2>7. HasDetail(t1, row.name)
    BY <2>n DEF HasDetail
  <2>8. ASSUME NEW a, HasDetail(t, a) PROVE HasDetail(t1, a)
    <3>1. PICK x \in t : x.name = a /\ x.detail
      BY <2>8 DEF HasDetail
    <3>. QED BY <2>n, <3>1 DEF HasDetail
  <2>9. Ref!Exec("abilities", t, row) = t1
    BY <2>1 DEF new
  <2> HIDE DEF t1
  <2>. QED BY <2>3, <2>4, <2>5, <2>6, <2>7, <2>8, <2>9
<1>6. out.tab \in G /\ out.err \in BOOLEAN /\ (out.err => out.tab = abilities)
  <2> HIDE DEF G, rows
  <2>. QED BY <1>1, <1>3, <1>4, <1>5, TransactionPreserves
<1>7. ASSUME ~out.err, NEW a \in refs PROVE HasDetail(out.tab, a.name)
  <2> DEFINE H == {t \in G : HasDetail(t, a.name)}
  <2>1. a \in rows
    BY <1>2
  <2> HIDE DEF G, rows
  <2>2. ASSUME NEW t \in H, NEW row \in rows PROVE Ref!Exec("abilities", t, row) \in H
    BY <1>5
  <2>3. ASSUME NEW t \in G PROVE Ref!Exec("abilities", t, a) \in H
    BY <1>5, <2>1
  <2>4. H \in SUBSET G
    OBVIOUS
  <2> HIDE DEF H
  <2>5. out.tab \in H
    BY <1>1, <1>3, <1>4, <1>5, <1>7, <2>1, <2>2, <2>3, <2>4, TransactionEstablishes
  <2>. QED BY <2>5 DEF H
<1>8. Good(out.tab)
  BY <1>6
<1>. QED BY <1>6, <1>7, <1>8 DEF refs

LEMMA AbilityIDsOutcome ==
  ASSUME Ref!ConstantsOK, release \in DOMAIN Releases, AbilityKeys(abilities),
         NEW Names, \A a \in Names : HasDetail(abilities, a),
         NEW out \in Ref!UpsertAbilityIDs(Ref!abilityIDRefs(Ref!Cur))
  PROVE  /\ AbilityKeys(out.tab) /\ out.err \in BOOLEAN /\ (out.err => out.tab = abilities)
         /\ \A a \in Names : HasDetail(out.tab, a)
         /\ ~out.err => \A a \in Ref!abilityIDRefs(Ref!Cur) : HasNumber(out.tab, a.name)
<1> DEFINE refs == Ref!abilityIDRefs(Ref!Cur)
           rows == {a \in refs : a.name # "" /\ a.id > 0}
           New == [name : {r.name : r \in rows}, id : {r.id : r \in rows}, detail : BOOLEAN]
           Good(t) == AbilityKeys(t) /\ \A a \in Names : HasDetail(t, a)
           G == {t \in SUBSET (abilities \union New) : Good(t)}
<1>0. IsFiniteSet(refs)
  BY CurrentRelease
<1>1. out \in Ref!Outcomes("ability_ids", abilities, rows)
  BY DEF Ref!UpsertAbilityIDs
<1>2. \A a \in refs : a \in rows
  <2> SUFFICES ASSUME NEW a \in refs PROVE a.name # "" /\ a.id > 0
    OBVIOUS
  <2>1. PICK b \in Ref!Cur.ability_ids : a \in {[id |-> n, name |-> b.name] : n \in {m \in b.key : m > 0 /\ b.name # ""}}
    BY DEF Ref!abilityIDRefs
  <2>2. PICK n \in b.key : n > 0 /\ b.name # "" /\ a = [id |-> n, name |-> b.name]
    BY <2>1
  <2>. QED BY <2>2
<1> HIDE DEF refs
<1>3. IsFiniteSet(rows)
  BY <1>0, FS_Subset
<1>4. abilities \in G
  OBVIOUS
<1>5. ASSUME NEW t \in G, NEW row \in rows, ~Ref!Refused("ability_ids", t, row)
      PROVE  /\ Ref!Exec("ability_ids", t, row) \in G
             /\ HasNumber(Ref!Exec("ability_ids", t, row), row.name)
             /\ \A a \in refs : HasNumber(t, a.name) => HasNumber(Ref!Exec("ability_ids", t, row), a.name)
  <2>0. Good(t) /\ t \in SUBSET (abilities \union New)
    OBVIOUS
  <2> DEFINE new == [name |-> row.name, id |-> row.id, detail |-> HasDetail(t, row.name)]
             t1 == {x \in t : x.name # row.name} \union {new}
  <2>n. new.name = row.name /\ new.id = row.id /\ (new.detail <=> HasDetail(t, row.name)) /\ new \in New
    BY DEF HasDetail
  <2>9. Ref!Exec("ability_ids", t, row) = t1
    BY ExecAbilityID
  <2>r. \A x \in t : x.name # row.name => x.id # row.id
    BY <1>5 DEF Ref!Refused
  <2> HIDE DEF new, New
  <2>3. AbilityKeys(t1)
    <3> SUFFICES ASSUME NEW a \in t1, NEW b \in t1, a.name = b.name \/ (a.id = b.id /\ a.id # 0) PROVE a = b
      BY DEF AbilityKeys
    <3>1. CASE a \in t /\ b \in t
      BY <2>0, <3>1 DEF AbilityKeys
    <3>. QED BY <2>n, <2>r, <3>1
  <2>5. ASSUME NEW a \in Names PROVE HasDetail(t1, a)
    <3>1. PICK x \in t : x.name = a /\ x.detail
      BY <2>0 DEF HasDetail
    <3>2. CASE x.name = row.name
      BY <2>n, <3>1, <3>2 DEF HasDetail
    <3>3. CASE x.name # row.name
      BY <3>1, <3>3 DEF HasDetail
    <3>. QED BY <3>2, <3>3
  <2>6. t1 \in SUBSET (abilities \union New)
    BY <2>0, <2>n
  <2>7. HasNumber(t1, row.name)
    <3>1. row.id \in Ref!Numbers(row.name)
      BY DEF Ref!Numbers, refs
    <3>. QED BY <2>n, <3>1 DEF HasNumber
  <2>8. ASSUME NEW a \in refs, HasNumber(t, a.name) PROVE HasNumber(t1, a.name)
    <3>1. PICK x \in t : x.name = a.name /\ x.id \in Ref!Numbers(a.name)
      BY <2>8 DEF HasNumber
    <3>2. CASE x.name = row.name
      <4>1. a.name = row.name
        BY <3>1, <3>2
      <4>. QED BY <2>7, <4>1
    <3>3. CASE x.name # row.name
      BY <3>1, <3>3 DEF HasNumber
    <3>. QED BY <3>2, <3>3
  <2> HIDE DEF t1
  <2>. QED BY <2>3, <2>5, <2>6, <2>7, <2>8, <2>9
<1>6. out.tab \in G /\ out.err \in BOOLEAN /\ (out.err => out.tab = abilities)
  <2> HIDE DEF G, rows
  <2>. QED BY <1>1, <1>3, <1>4, <1>5, TransactionPreserves
<1>7. ASSUME ~out.err, NEW a \in refs PROVE HasNumber(out.tab, a.name)
  <2> DEFINE H == {t \in G : HasNumber(t, a.name)}
  <2>1. a \in rows
    BY <1>2
  <2> HIDE DEF G, rows
  <2>2. ASSUME NEW t \in H, NEW row \in rows, ~Ref!Refused("ability_ids", t, row)
        PROVE  Ref!Exec("ability_ids", t, row) \in H
    BY <1>5, <2>2
  <2>3. ASSUME NEW t \in G, ~Ref!Refused("ability_ids", t, a) PROVE Ref!Exec("ability_ids", t, a) \in H
    BY <1>5, <2>1, <2>3
  <2>4. H \in SUBSET G
    OBVIOUS
  <2> HIDE DEF H
  <2>5. out.tab \in H
    BY <1>1, <1>3, <1>4, <1>5, <1>7, <2>1, <2>2, <2>3, <2>4, TransactionEstablishes
  <2>. QED BY <2>5 DEF H
<1>8. Good(out.tab)
  BY <1>6
<1>. QED BY <1>6, <1>7, <1>8 DEF refs

LEMMA RefDataInit == Ref!ConstantsOK => (Ref!Init => Ref!RefDataIInv)
<1> SUFFICES ASSUME Ref!ConstantsOK, Ref!Init PROVE Ref!RefDataIInv
  OBVIOUS
<1> USE DEF Ref!Init
<1>1. 1 \in DOMAIN Releases
  BY DEF Ref!ConstantsOK
<1>2. /\ \A h, g \in heroes : Ref!IsSmall(h.id) /\ (h.id = g.id => h = g)
      /\ \A a, b \in abilities : (a.name = b.name \/ (a.id = b.id /\ a.id # 0)) => a = b
  BY DEF Ref!IsSmall, Ref!Smallint
<1>3. \A t \in DOMAIN lookups : lookups[t] = {}
  OBVIOUS
<1>4. loaded \in [Sources -> 0 .. release] /\ \A s \in Sources : loaded[s] # release
  OBVIOUS
<1>5. Ref!LoadedPresent
  BY <1>4 DEF Ref!LoadedPresent, Ref!Loads
<1>6. DOMAIN lookups = {"game_mode", "lobby_type", "region", "items", "item_ids", "patch"}
  OBVIOUS
<1>. QED BY <1>1, <1>2, <1>3, <1>4, <1>5, <1>6 DEF Ref!RefDataIInv, Ref!RefDataInv, Ref!TypeOK

LEMMA RefDataStep == Ref!ConstantsOK => (Ref!RefDataIInv /\ [Ref!Next]_Ref!vars => Ref!RefDataIInv')
<1> SUFFICES ASSUME Ref!ConstantsOK, Ref!RefDataIInv, [Ref!Next]_Ref!vars PROVE Ref!RefDataIInv'
  OBVIOUS
<1> DEFINE Names == {"game_mode", "lobby_type", "region", "items", "item_ids", "patch"}
           Heroes1 == HeroKeys(heroes)
           Abilities1 == AbilityKeys(abilities)
           Lookups1 == DOMAIN lookups = Names /\ \A t \in Names : LookupKeys(lookups[t])
           Runs1 == release \in DOMAIN Releases /\ loaded \in [Sources -> 0 .. release] /\ failed \subseteq Sources
           HeroesIn == Ref!Loads("heroes") =>
               \A h \in Ref!heroRefs(Ref!Cur) : h.id \in 1 .. Ref!Smallint => HasHero(heroes, h.id)
           DetailsIn == Ref!Loads("abilities") => \A a \in Ref!abilityRefs(Ref!Cur) : HasDetail(abilities, a.name)
           NumbersIn == Ref!Loads("ability_ids") =>
               \A a \in Ref!abilityIDRefs(Ref!Cur) : HasNumber(abilities, a.name)
<1>0. Ref!RefDataIInv <=> Heroes1 /\ Abilities1 /\ Lookups1 /\ Runs1 /\ HeroesIn /\ DetailsIn /\ NumbersIn
  BY DEF Ref!RefDataIInv, Ref!RefDataInv, Ref!TypeOK, Ref!LoadedPresent, HeroKeys, AbilityKeys, LookupKeys,
         HasHero, HasDetail, HasNumber
<1>p. (Ref!RefDataIInv <=> Heroes1 /\ Abilities1 /\ Lookups1 /\ Runs1 /\ HeroesIn /\ DetailsIn /\ NumbersIn)'
  BY DEF Ref!RefDataIInv, Ref!RefDataInv, Ref!TypeOK, Ref!LoadedPresent, HeroKeys, AbilityKeys, LookupKeys,
         HasHero, HasDetail, HasNumber
<1>1. Heroes1 /\ Abilities1 /\ Lookups1 /\ Runs1 /\ HeroesIn /\ DetailsIn /\ NumbersIn
  BY <1>0
<1> SUFFICES Heroes1' /\ Abilities1' /\ Lookups1' /\ Runs1' /\ HeroesIn' /\ DetailsIn' /\ NumbersIn'
  BY <1>p
<1>s. Ref!Smallint \in Nat /\ Ref!Smallint' = Ref!Smallint
  BY DEF Ref!Smallint
<1>i. \A n \in Int : n > 0 => n >= 0
  OBVIOUS
<1>C. ASSUME release' = release PROVE Ref!Cur' = Ref!Cur /\ \A n : Ref!Numbers(n)' = Ref!Numbers(n)
  BY <1>C DEF Ref!Cur, Ref!Numbers, Ref!abilityIDRefs
<1>H. ASSUME UNCHANGED <<heroes, release>>, Ref!Loads("heroes")' => Ref!Loads("heroes") PROVE Heroes1' /\ HeroesIn'
  <2>1. Heroes1'
    BY <1>1, <1>H, <1>s DEF HeroKeys, Ref!IsSmall
  <2>. QED BY <1>1, <1>C, <1>H, <1>s, <2>1 DEF HasHero, Ref!heroRefs
<1>A. ASSUME UNCHANGED <<abilities, release>>, Ref!Loads("abilities")' => Ref!Loads("abilities"),
             Ref!Loads("ability_ids")' => Ref!Loads("ability_ids")
      PROVE  Abilities1' /\ DetailsIn' /\ NumbersIn'
  <2>1. Abilities1'
    BY <1>1, <1>A DEF AbilityKeys
  <2>2. DetailsIn'
    BY <1>1, <1>C, <1>A DEF HasDetail, Ref!abilityRefs
  <2>3. NumbersIn'
    BY <1>1, <1>C, <1>A DEF HasNumber, Ref!abilityIDRefs
  <2>. QED BY <2>1, <2>2, <2>3
<1>L. ASSUME lookups' = lookups PROVE Lookups1'
  BY <1>1, <1>L DEF LookupKeys
<1>E. ASSUME NEW s, NEW err, Ref!Ends(s, err), release' = release
      PROVE  /\ Runs1'
             /\ \A r : Ref!Loads(r)' => r = s \/ Ref!Loads(r)
             /\ err => \A r : Ref!Loads(r)' => Ref!Loads(r)
  <2>1. release \in 0 .. release /\ s \in Sources
    BY <1>1, <1>E DEF Ref!Ends, Ref!ConstantsOK
  <2>2. loaded' = IF err THEN loaded ELSE [loaded EXCEPT ![s] = release]
    BY <1>E DEF Ref!Ends
  <2>3. failed' \subseteq Sources
    BY <1>1, <1>E DEF Ref!Ends
  <2>4. Runs1'
    BY <1>1, <1>E, <2>1, <2>2, <2>3
  <2>5. ASSUME NEW r, Ref!Loads(r)', ~(r = s) \/ err PROVE Ref!Loads(r)
    BY <1>1, <1>E, <2>2, <2>5 DEF Ref!Loads
  <2>. QED BY <2>4, <2>5
<1>2. ASSUME Ref!RunHeroes PROVE Heroes1' /\ Abilities1' /\ Lookups1' /\ Runs1' /\ HeroesIn' /\ DetailsIn' /\ NumbersIn'
  <2>1. PICK o \in Ref!UpsertHeroes(Ref!heroRefs(Ref!Cur)) :
            heroes' = o.tab /\ Ref!Ends("heroes", o.err) /\ UNCHANGED <<abilities, heroTables, lookups, release>>
    BY <1>2 DEF Ref!RunHeroes
  <2>2. /\ HeroKeys(o.tab) /\ o.err \in BOOLEAN /\ (o.err => o.tab = heroes)
        /\ ~o.err => \A h \in Ref!heroRefs(Ref!Cur) : h.id \in 1 .. Ref!Smallint => HasHero(o.tab, h.id)
    BY <1>1, HeroesOutcome
  <2>3. Runs1' /\ (\A r : Ref!Loads(r)' => r = "heroes" \/ Ref!Loads(r)) /\ (o.err => \A r : Ref!Loads(r)' => Ref!Loads(r))
    BY <1>E, <2>1
  <2>4. Abilities1' /\ DetailsIn' /\ NumbersIn'
    BY <1>A, <2>1, <2>3
  <2>5. Lookups1'
    BY <1>L, <2>1
  <2>6. Heroes1' /\ HeroesIn'
    <3>1. CASE o.err
      BY <1>H, <2>1, <2>2, <2>3, <3>1
    <3>2. CASE ~o.err
      <4>1. Heroes1'
        BY <1>s, <2>1, <2>2 DEF HeroKeys, Ref!IsSmall
      <4>2. HeroesIn'
        BY <1>C, <1>s, <2>1, <2>2, <3>2 DEF HasHero, Ref!heroRefs
      <4>. QED BY <4>1, <4>2
    <3>. QED BY <3>1, <3>2
  <2>. QED BY <2>3, <2>4, <2>5, <2>6
<1>3. ASSUME Ref!RunAbilities PROVE Heroes1' /\ Abilities1' /\ Lookups1' /\ Runs1' /\ HeroesIn' /\ DetailsIn' /\ NumbersIn'
  <2>1. ASSUME NEW o \in Ref!UpsertAbilities(Ref!abilityRefs(Ref!Cur)),
               abilities' = o.tab, Ref!Ends("abilities", o.err), UNCHANGED <<heroes, heroTables, lookups, release>>
        PROVE  Heroes1' /\ Abilities1' /\ Lookups1' /\ Runs1' /\ HeroesIn' /\ DetailsIn' /\ NumbersIn'
    <3> DEFINE IDs == IF Ref!Loads("ability_ids") THEN Ref!abilityIDRefs(Ref!Cur) ELSE {}
    <3>0. \A a \in IDs : HasNumber(abilities, a.name)
      BY <1>1
    <3>1. /\ AbilityKeys(o.tab) /\ o.err \in BOOLEAN /\ (o.err => o.tab = abilities)
          /\ \A a \in IDs : HasNumber(o.tab, a.name)
          /\ ~o.err => \A a \in Ref!abilityRefs(Ref!Cur) : HasDetail(o.tab, a.name)
      <4> HIDE DEF IDs
      <4>. QED BY <1>1, <3>0, AbilitiesOutcome
    <3>2. Runs1' /\ (\A r : Ref!Loads(r)' => r = "abilities" \/ Ref!Loads(r)) /\ (o.err => \A r : Ref!Loads(r)' => Ref!Loads(r))
      BY <1>E, <2>1
    <3>3. Heroes1' /\ HeroesIn' /\ Lookups1'
      BY <1>H, <1>L, <2>1, <3>2
    <3>4. CASE o.err
      BY <1>A, <2>1, <3>1, <3>2, <3>3, <3>4
    <3>5. CASE ~o.err
      <4>1. Abilities1'
        BY <2>1, <3>1 DEF AbilityKeys
      <4>2. DetailsIn'
        BY <1>C, <2>1, <3>1, <3>5 DEF HasDetail, Ref!abilityRefs
      <4>3. NumbersIn'
        <5>1. \A n : HasNumber(o.tab, n) => HasNumber(abilities, n)'
          BY <1>C, <2>1 DEF HasNumber
        <5>2. Ref!abilityIDRefs(Ref!Cur)' = Ref!abilityIDRefs(Ref!Cur)
          BY <1>C, <2>1 DEF Ref!abilityIDRefs
        <5> HIDE DEF HasNumber
        <5>. QED BY <3>1, <3>2, <5>1, <5>2
      <4>. QED BY <3>2, <3>3, <4>1, <4>2, <4>3
    <3>. QED BY <3>1, <3>4, <3>5
  <2>2. ASSUME NEW o \in Ref!UpsertAbilityIDs(Ref!abilityIDRefs(Ref!Cur)),
               abilities' = o.tab, Ref!Ends("ability_ids", o.err), UNCHANGED <<heroes, heroTables, lookups, release>>
        PROVE  Heroes1' /\ Abilities1' /\ Lookups1' /\ Runs1' /\ HeroesIn' /\ DetailsIn' /\ NumbersIn'
    <3> DEFINE Loaded == IF Ref!Loads("abilities") THEN {a.name : a \in Ref!abilityRefs(Ref!Cur)} ELSE {}
    <3>0. \A a \in Loaded : HasDetail(abilities, a)
      BY <1>1
    <3>1. /\ AbilityKeys(o.tab) /\ o.err \in BOOLEAN /\ (o.err => o.tab = abilities)
          /\ \A a \in Loaded : HasDetail(o.tab, a)
          /\ ~o.err => \A a \in Ref!abilityIDRefs(Ref!Cur) : HasNumber(o.tab, a.name)
      <4> HIDE DEF Loaded
      <4>. QED BY <1>1, <3>0, AbilityIDsOutcome
    <3>2. Runs1' /\ (\A r : Ref!Loads(r)' => r = "ability_ids" \/ Ref!Loads(r)) /\ (o.err => \A r : Ref!Loads(r)' => Ref!Loads(r))
      BY <1>E, <2>2
    <3>3. Heroes1' /\ HeroesIn' /\ Lookups1'
      BY <1>H, <1>L, <2>2, <3>2
    <3>4. CASE o.err
      BY <1>A, <2>2, <3>1, <3>2, <3>3, <3>4
    <3>5. CASE ~o.err
      <4>1. Abilities1'
        BY <2>2, <3>1 DEF AbilityKeys
      <4>2. DetailsIn'
        BY <1>C, <2>2, <3>1, <3>2 DEF HasDetail, Ref!abilityRefs
      <4>3. NumbersIn'
        BY <1>C, <2>2, <3>1, <3>5 DEF HasNumber, Ref!abilityIDRefs
      <4>. QED BY <3>2, <3>3, <4>1, <4>2, <4>3
    <3>. QED BY <3>1, <3>4, <3>5
  <2>. QED BY <1>3, <2>1, <2>2 DEF Ref!RunAbilities
<1>4. ASSUME Ref!RunHeroAbilities PROVE Heroes1' /\ Abilities1' /\ Lookups1' /\ Runs1' /\ HeroesIn' /\ DetailsIn' /\ NumbersIn'
  <2>1. PICK err : Ref!Ends("hero_abilities", err) /\ UNCHANGED <<heroes, abilities, lookups, release>>
    BY <1>4 DEF Ref!RunHeroAbilities
  <2>2. Runs1' /\ (\A r : Ref!Loads(r)' => r = "hero_abilities" \/ Ref!Loads(r))
    BY <1>E, <2>1
  <2>. QED BY <1>H, <1>A, <1>L, <2>1, <2>2
<1>5. ASSUME Ref!RunLookup PROVE Heroes1' /\ Abilities1' /\ Lookups1' /\ Runs1' /\ HeroesIn' /\ DetailsIn' /\ NumbersIn'
  <2>1. PICK s \in Names : \E o :
            /\ s = "game_mode" => o \in Ref!UpsertGameModes(Ref!gameModeRefs(Ref!Cur))
            /\ s = "lobby_type" => o \in Ref!UpsertLobbyTypes(Ref!lobbyTypeRefs(Ref!Cur))
            /\ s = "region" => o \in Ref!UpsertRegions(Ref!regionRefs(Ref!Cur))
            /\ s = "items" => o \in Ref!UpsertItems(Ref!itemRefs(Ref!Cur))
            /\ s = "item_ids" => o \in Ref!UpsertItemIDs(Ref!itemIDRefs(Ref!Cur))
            /\ s = "patch" => o \in Ref!UpsertPatches(Ref!patchRefs(Ref!Cur))
            /\ lookups' = [lookups EXCEPT ![s] = o.tab] /\ Ref!Ends(s, o.err)
            /\ UNCHANGED <<heroes, abilities, heroTables, release>>
    BY <1>1, <1>5 DEF Ref!RunLookup
  <2>2. PICK o :
            /\ s = "game_mode" => o \in Ref!UpsertGameModes(Ref!gameModeRefs(Ref!Cur))
            /\ s = "lobby_type" => o \in Ref!UpsertLobbyTypes(Ref!lobbyTypeRefs(Ref!Cur))
            /\ s = "region" => o \in Ref!UpsertRegions(Ref!regionRefs(Ref!Cur))
            /\ s = "items" => o \in Ref!UpsertItems(Ref!itemRefs(Ref!Cur))
            /\ s = "item_ids" => o \in Ref!UpsertItemIDs(Ref!itemIDRefs(Ref!Cur))
            /\ s = "patch" => o \in Ref!UpsertPatches(Ref!patchRefs(Ref!Cur))
            /\ lookups' = [lookups EXCEPT ![s] = o.tab] /\ Ref!Ends(s, o.err)
            /\ UNCHANGED <<heroes, abilities, heroTables, release>>
    BY <2>1
  <2>3. ASSUME NEW q \in Numbered, NEW tab, LookupKeys(tab),
               NEW refs \in {Ref!gameModeRefs(Ref!Cur), Ref!lobbyTypeRefs(Ref!Cur), Ref!regionRefs(Ref!Cur),
                             Ref!itemRefs(Ref!Cur), Ref!itemIDRefs(Ref!Cur), Ref!patchRefs(Ref!Cur)},
               NEW rows \in SUBSET refs, \A x \in rows : x.id \in Int => x.id >= 0 /\ x.name # "",
               NEW out \in Ref!Outcomes(q, tab, rows)
        PROVE  LookupKeys(out.tab)
    <3>1. IsFiniteSet(refs) /\ \A x \in refs : x.id \in Int
      BY <1>1, <2>3, CurrentRelease
    <3>. QED BY <2>3, <3>1, LookupOutcome
  <2>4. LookupKeys(o.tab)
    <3>0. \A t \in Names : t \in Numbered /\ LookupKeys(lookups[t])
      BY <1>1 DEF Numbered
    <3>1. CASE s = "game_mode"
      BY <2>2, <2>3, <3>0, <3>1 DEF Ref!UpsertGameModes, Ref!Named, Ref!IsSmall
    <3>2. CASE s = "lobby_type"
      BY <2>2, <2>3, <3>0, <3>2 DEF Ref!UpsertLobbyTypes, Ref!Named, Ref!IsSmall
    <3>3. CASE s = "region"
      BY <2>2, <2>3, <3>0, <3>3 DEF Ref!UpsertRegions, Ref!Named, Ref!IsSmall
    <3>4. CASE s = "items"
      <4>1. o \in Ref!Outcomes("items", lookups["items"], {x \in Ref!itemRefs(Ref!Cur) : x.id > 0 /\ x.name # ""})
        BY <2>2, <3>4 DEF Ref!UpsertItems
      <4>2. ASSUME NEW x \in {x \in Ref!itemRefs(Ref!Cur) : x.id > 0 /\ x.name # ""}, x.id \in Int PROVE x.id >= 0 /\ x.name # ""
        <5>1. x.id > 0 /\ x.name # ""
          OBVIOUS
        <5>. QED BY <1>i, <4>2, <5>1, Zenon
      <4>. QED BY <2>3, <3>0, <4>1, <4>2
    <3>5. CASE s = "item_ids"
      BY <2>2, <2>3, <3>0, <3>5 DEF Ref!UpsertItemIDs
    <3>6. CASE s = "patch"
      <4>1. o \in Ref!Outcomes("patch", lookups["patch"], {x \in Ref!patchRefs(Ref!Cur) : x.id > 0 /\ x.name # ""})
        BY <2>2, <3>6 DEF Ref!UpsertPatches
      <4>2. ASSUME NEW x \in {x \in Ref!patchRefs(Ref!Cur) : x.id > 0 /\ x.name # ""}, x.id \in Int PROVE x.id >= 0 /\ x.name # ""
        <5>1. x.id > 0 /\ x.name # ""
          OBVIOUS
        <5>. QED BY <1>i, <4>2, <5>1, Zenon
      <4>. QED BY <2>3, <3>0, <4>1, <4>2
    <3>. QED BY <3>1, <3>2, <3>3, <3>4, <3>5, <3>6
  <2>5. Lookups1'
    <3>1. DOMAIN lookups' = Names
      BY <1>1, <2>2
    <3>2. ASSUME NEW t \in Names PROVE LookupKeys(lookups[t])'
      <4>1. LookupKeys(IF t = s THEN o.tab ELSE lookups[t])
        BY <1>1, <2>4
      <4>2. lookups'[t] = IF t = s THEN o.tab ELSE lookups[t]
        BY <1>1, <2>2
      <4>. QED BY <4>1, <4>2 DEF LookupKeys
    <3>. QED BY <3>1, <3>2 DEF LookupKeys
  <2>6. Runs1' /\ (\A r : Ref!Loads(r)' => r = s \/ Ref!Loads(r))
    BY <1>E, <2>2
  <2>. QED BY <1>H, <1>A, <2>2, <2>5, <2>6
<1>6. ASSUME NEW ids \in SUBSET MatchHeroes, Ref!EnsureHeroStubs(ids)
      PROVE Heroes1' /\ Abilities1' /\ Lookups1' /\ Runs1' /\ HeroesIn' /\ DetailsIn' /\ NumbersIn'
  <2>1. /\ heroes' = heroes \union {Ref!Stub(i) : i \in ids \ {h.id : h \in heroes}}
        /\ UNCHANGED <<abilities, heroTables, lookups, release, loaded, failed>>
    BY <1>6 DEF Ref!EnsureHeroStubs
  <2>2. \A r : Ref!Loads(r)' => Ref!Loads(r)
    BY <2>1 DEF Ref!Loads
  <2>3. Heroes1'
    <3>1. \A i \in ids : i \in 0 .. Ref!Smallint
      BY DEF Ref!ConstantsOK
    <3>2. \A i \in ids : Ref!IsSmall(Ref!Stub(i).id) /\ Ref!Stub(i).id = i
      BY <1>s, <3>1 DEF Ref!IsSmall, Ref!Stub
    <3>3. \A h \in heroes' : h \in heroes \/ \E i \in ids : h = Ref!Stub(i) /\ \A g \in heroes : g.id # i
      BY <2>1
    <3>4. \A h \in heroes' : Ref!IsSmall(h.id)
      BY <1>1, <3>2, <3>3 DEF HeroKeys
    <3>5. \A g, h \in heroes' : g.id = h.id => g = h
      BY <1>1, <3>2, <3>3 DEF HeroKeys
    <3>. QED BY <1>s, <3>4, <3>5 DEF HeroKeys, Ref!IsSmall
  <2>4. HeroesIn'
    BY <1>1, <1>C, <1>s, <2>1, <2>2 DEF HasHero, Ref!heroRefs
  <2>5. Runs1'
    BY <1>1, <2>1
  <2>. QED BY <1>A, <1>L, <2>1, <2>2, <2>3, <2>4, <2>5
<1>7. ASSUME Ref!PublishRelease PROVE Heroes1' /\ Abilities1' /\ Lookups1' /\ Runs1' /\ HeroesIn' /\ DetailsIn' /\ NumbersIn'
  <2>1. /\ release < Len(Releases) /\ release' = release + 1
        /\ UNCHANGED <<heroes, abilities, heroTables, lookups, loaded, failed>>
    BY <1>7 DEF Ref!PublishRelease
  <2>2. DOMAIN Releases = 1 .. Len(Releases) /\ Len(Releases) \in Nat /\ release \in Nat
    BY <1>1 DEF Ref!ConstantsOK
  <2>3. Runs1'
    BY <1>1, <2>1, <2>2
  <2>4. \A r : ~Ref!Loads(r)'
    BY <1>1, <2>1, <2>2 DEF Ref!Loads
  <2>5. Heroes1' /\ Abilities1'
    BY <1>1, <1>s, <2>1 DEF HeroKeys, AbilityKeys, Ref!IsSmall
  <2>. QED BY <1>L, <2>1, <2>3, <2>4, <2>5
<1>8. ASSUME UNCHANGED Ref!vars PROVE Heroes1' /\ Abilities1' /\ Lookups1' /\ Runs1' /\ HeroesIn' /\ DetailsIn' /\ NumbersIn'
  <2>1. UNCHANGED <<heroes, abilities, lookups, release, loaded, failed>>
    BY <1>8 DEF Ref!vars
  <2>2. \A r : Ref!Loads(r)' => Ref!Loads(r)
    BY <2>1 DEF Ref!Loads
  <2>3. Runs1'
    BY <1>1, <2>1
  <2>. QED BY <1>H, <1>A, <1>L, <2>1, <2>2, <2>3
<1> HIDE DEF Heroes1, Abilities1, Lookups1, Runs1, HeroesIn, DetailsIn, NumbersIn
<1>. QED BY <1>2, <1>3, <1>4, <1>5, <1>6, <1>7, <1>8 DEF Ref!Next

-----------------------------------------------------------------------------
(* RefData: why a run fails.                                               *)

\* A transaction succeeds if no table its rows can lead to refuses one of them.
LEMMA TransactionSucceeds ==
  ASSUME NEW q, NEW tab, NEW rows, IsFiniteSet(rows), NEW G, tab \in G,
         \A t \in G : \A row \in rows : ~Ref!Refused(q, t, row) /\ Ref!Exec(q, t, row) \in G,
         NEW out \in Ref!Outcomes(q, tab, rows)
  PROVE  out.err = FALSE
<1>1. PICK o \in Ref!SetToSeqs(rows) : out = Ref!Transaction(q, tab, o)
  BY DEF Ref!Outcomes
<1>2. PICK n \in Nat : \E after : Runs(q, tab, rows, o, n, after)
  BY TransactionRuns
<1>r. PICK after : Runs(q, tab, rows, o, n, after)
  BY <1>2
<1> DEFINE Good(t) == t.tab \in G /\ t.err = FALSE
           P == {m \in Nat : m <= n => Good(after[m])}
<1>3. 0 \in P
  BY <1>r DEF Runs
<1>4. ASSUME NEW m \in P PROVE m + 1 \in P
  <2>1. ASSUME m + 1 <= n PROVE Good(after[m + 1])
    <3> DEFINE i == m + 1
    <3>1. i \in 1 .. n /\ i - 1 = m /\ Good(after[m]) /\ o[i] \in rows
      BY <1>r, <1>4, <2>1 DEF Runs
    <3> HIDE DEF i
    <3>2. ~Ref!Refused(q, after[m].tab, o[i]) /\ Ref!Exec(q, after[m].tab, o[i]) \in G
      BY <3>1
    <3>3. after[i] = [tab |-> Ref!Exec(q, after[m].tab, o[i]), err |-> FALSE]
      BY <1>r, <3>1, <3>2 DEF Runs
    <3>. QED BY <3>2, <3>3 DEF i
  <2> HIDE DEF Good
  <2>. QED BY <1>4, <2>1
<1>5. P = Nat
  <2> HIDE DEF P
  <2>1. P \in SUBSET Nat
    BY DEF P
  <2>. QED BY <1>3, <1>4, <2>1, SetInduction
<1>. QED BY <1>1, <1>r, <1>5 DEF Runs

\* And if its rows are such that no table at all refuses them.
LEMMA NeverRefused ==
  ASSUME NEW q, NEW tab, NEW rows, IsFiniteSet(rows),
         \A t : \A row \in rows : ~Ref!Refused(q, t, row),
         NEW out \in Ref!Outcomes(q, tab, rows)
  PROVE  out.err = FALSE
<1>1. PICK o \in Ref!SetToSeqs(rows) : out = Ref!Transaction(q, tab, o)
  BY DEF Ref!Outcomes
<1>2. PICK n \in Nat : \E after : Runs(q, tab, rows, o, n, after)
  BY TransactionRuns
<1>r. PICK after : Runs(q, tab, rows, o, n, after)
  BY <1>2
<1> DEFINE Good(t) == t.err = FALSE
           P == {m \in Nat : m <= n => Good(after[m])}
<1>3. 0 \in P
  BY <1>r DEF Runs
<1>4. ASSUME NEW m \in P PROVE m + 1 \in P
  <2>1. ASSUME m + 1 <= n PROVE Good(after[m + 1])
    <3> DEFINE i == m + 1
    <3>1. i \in 1 .. n /\ i - 1 = m /\ Good(after[m]) /\ o[i] \in rows
      BY <1>r, <1>4, <2>1 DEF Runs
    <3> HIDE DEF i
    <3>2. ~Ref!Refused(q, after[m].tab, o[i])
      BY <3>1
    <3>3. after[i] = [tab |-> Ref!Exec(q, after[m].tab, o[i]), err |-> FALSE]
      BY <1>r, <3>1, <3>2 DEF Runs
    <3>. QED BY <3>3 DEF i
  <2> HIDE DEF Good
  <2>. QED BY <1>4, <2>1
<1>5. P = Nat
  <2> HIDE DEF P
  <2>1. P \in SUBSET Nat
    BY DEF P
  <2>. QED BY <1>3, <1>4, <2>1, SetInduction
<1>. QED BY <1>1, <1>r, <1>5 DEF Runs

LEMMA HeroesFail ==
  ASSUME Ref!ConstantsOK, release \in DOMAIN Releases,
         NEW out \in Ref!UpsertHeroes(Ref!heroRefs(Ref!Cur)), out.err
  PROVE  Ref!Cause("heroes")
<1> DEFINE refs == Ref!heroRefs(Ref!Cur)
           rows == Ref!UsableHeroes(refs)
           G == SUBSET (heroes \union rows)
<1> SUFFICES ASSUME ~Ref!Renumbers(refs, heroes), ~Ref!Renames(rows) PROVE FALSE
  BY DEF Ref!Cause
<1>0. IsFiniteSet(refs) /\ \A h \in refs : h = [id |-> h.id, name |-> h.name]
  BY CurrentRelease
<1>1. \/ \E g, h \in refs : g # h /\ g.name = h.name
      \/ out \in Ref!Outcomes("heroes", heroes, rows)
  BY DEF Ref!UpsertHeroes
<1>R. rows \in SUBSET refs
  BY DEF Ref!UsableHeroes
<1> HIDE DEF refs, rows
<1>2. CASE \E g, h \in refs : g # h /\ g.name = h.name
  BY <1>0, <1>2 DEF Ref!Renumbers
<1>3. CASE out \in Ref!Outcomes("heroes", heroes, rows)
  <2>1. IsFiniteSet(rows)
    BY <1>0, <1>R, FS_Subset
  <2>2. ASSUME NEW t \in G, NEW row \in rows PROVE ~Ref!Refused("heroes", t, row)
    <3>1. Ref!Refused("heroes", t, row) <=>
              \/ \E x \in t : x.id # row.id /\ x.name = row.name
              \/ \E x \in t : x.id = row.id /\ x.name # row.name /\ Ref!Referenced(x.name)
      BY DEF Ref!Refused, Ref!NameTaken
    <3>2. \A x \in t : x \in heroes \union rows /\ x \in heroes \union refs
      BY <1>R
    <3>. QED BY <1>R, <3>1, <3>2 DEF Ref!Renumbers, Ref!Renames
  <2>3. ASSUME NEW t \in G, NEW row \in rows PROVE Ref!Exec("heroes", t, row) \in G
    <3>1. Ref!Exec("heroes", t, row) = {x \in t : x.id # row.id} \union {row}
      BY ExecNumbered DEF Numbered
    <3>. QED BY <3>1
  <2> HIDE DEF G
  <2>4. heroes \in G
    BY DEF G
  <2>. QED BY <1>3, <2>1, <2>2, <2>3, <2>4, TransactionSucceeds
<1>. QED BY <1>1, <1>2, <1>3

\* Items and patches.
LEMMA UniqueNamesFail ==
  ASSUME NEW q \in {"items", "patch"}, NEW tab, NEW refs, IsFiniteSet(refs), NEW rows \in SUBSET refs,
         NEW out \in Ref!Outcomes(q, tab, rows), out.err
  PROVE  Ref!Renumbers(refs, tab)
<1> SUFFICES ASSUME ~Ref!Renumbers(refs, tab) PROVE FALSE
  OBVIOUS
<1> DEFINE G == SUBSET (tab \union rows)
<1>1. IsFiniteSet(rows) /\ tab \in G
  BY FS_Subset
<1>2. ASSUME NEW t \in G, NEW row \in rows PROVE ~Ref!Refused(q, t, row)
  <2>1. Ref!Refused(q, t, row) <=> \E x \in t : x.id # row.id /\ x.name = row.name
    BY DEF Ref!Refused, Ref!NameTaken
  <2>2. \A x \in t : x \in refs \union tab
    OBVIOUS
  <2>. QED BY <2>1, <2>2 DEF Ref!Renumbers
<1>3. ASSUME NEW t \in G, NEW row \in rows PROVE Ref!Exec(q, t, row) \in G
  <2>1. Ref!Exec(q, t, row) = {x \in t : x.id # row.id} \union {row}
    BY ExecNumbered DEF Numbered
  <2>. QED BY <2>1
<1> HIDE DEF G
<1>. QED BY <1>1, <1>2, <1>3, TransactionSucceeds

LEMMA AbilityIDsFail ==
  ASSUME Ref!ConstantsOK, release \in DOMAIN Releases,
         NEW out \in Ref!UpsertAbilityIDs(Ref!abilityIDRefs(Ref!Cur)), out.err
  PROVE  Ref!Cause("ability_ids")
<1> DEFINE refs == Ref!abilityIDRefs(Ref!Cur)
           rows == {a \in refs : a.name # "" /\ a.id > 0}
           Known(x) == x \in abilities \/ \E y \in refs : x.id = y.id /\ x.name = y.name
           New == [name : {r.name : r \in rows}, id : {r.id : r \in rows}, detail : BOOLEAN]
           G == {t \in SUBSET (abilities \union New) : \A x \in t : Known(x)}
<1> SUFFICES ASSUME \A x \in refs : \A y \in refs \union abilities : x.id = y.id => x.name = y.name PROVE FALSE
  BY DEF Ref!Cause
<1>1. IsFiniteSet(rows)
  <2>1. IsFiniteSet(refs)
    BY CurrentRelease
  <2> HIDE DEF refs
  <2>. QED BY <2>1, FS_Subset
<1>2. out \in Ref!Outcomes("ability_ids", abilities, rows)
  BY DEF Ref!UpsertAbilityIDs
<1>3. ASSUME NEW t \in G, NEW row \in rows PROVE ~Ref!Refused("ability_ids", t, row)
  <2>1. Ref!Refused("ability_ids", t, row) <=> \E x \in t : x.name # row.name /\ x.id = row.id
    BY DEF Ref!Refused
  <2>2. \A x \in t : Known(x)
    OBVIOUS
  <2>3. row \in refs
    OBVIOUS
  <2> HIDE DEF G, rows, refs
  <2>4. ASSUME NEW x \in t, x.id = row.id PROVE x.name = row.name
    <3>1. CASE x \in abilities
      BY <2>3, <2>4, <3>1
    <3>2. ASSUME NEW y \in refs, x.id = y.id, x.name = y.name PROVE x.name = row.name
      BY <2>3, <2>4, <3>2
    <3>. QED BY <2>2, <3>1, <3>2
  <2>. QED BY <2>1, <2>4
<1>4. ASSUME NEW t \in G, NEW row \in rows PROVE Ref!Exec("ability_ids", t, row) \in G
  <2> DEFINE new == [name |-> row.name, id |-> row.id, detail |-> HasDetail(t, row.name)]
  <2>1. Ref!Exec("ability_ids", t, row) = {x \in t : x.name # row.name} \union {new}
    BY ExecAbilityID
  <2>2. new \in New /\ Known(new)
    BY DEF HasDetail
  <2> HIDE DEF new, New
  <2>. QED BY <2>1, <2>2
<1>5. abilities \in G
  OBVIOUS
<1> HIDE DEF G, rows
<1>. QED BY <1>1, <1>2, <1>3, <1>4, <1>5, TransactionSucceeds

\* When the release is closed and its heroes and abilities are loaded, all references are
\* there, whatever stubs and other names the tables hold besides.
LEMMA ReferencesLoaded ==
  ASSUME Ref!RefDataIInv, Ref!Closed(Ref!Cur), Ref!Loads("heroes"), Ref!Loads("abilities"), Ref!Loads("ability_ids"),
         Ref!ConstantsOK
  PROVE  /\ \A h \in Ref!heroAbilityRefs(Ref!Cur) : Ref!AbilityUsable(h) =>
               ~Ref!NoHero(h) /\ ~Ref!NoAbility(h) /\ h.slot \in 0 .. 15
         /\ \A t \in Ref!heroTalentRefs(Ref!Cur) : Ref!TalentUsable(t) => ~Ref!NoHero(t) /\ ~Ref!NoAbility(t)
         /\ \A f \in Ref!Cur.hero_facets : Ref!FacetUsable(f) => ~Ref!NoHero(f) /\ Ref!FitsSmallint(f.slot)
<1> DEFINE usable == Ref!UsableHeroes(Ref!heroRefs(Ref!Cur))
           heroNames == {h.name : h \in {g \in usable : \A x \in usable : x.id = g.id => x.name = g.name}}
           abilityNames == {a.name : a \in Ref!abilityRefs(Ref!Cur) \union Ref!abilityIDRefs(Ref!Cur)}
<1>1. /\ \A h \in Ref!heroAbilityRefs(Ref!Cur) : Ref!AbilityUsable(h) =>
             h.hero \in heroNames /\ h.ability \in abilityNames /\ h.slot \in 0 .. 15
      /\ \A t \in Ref!heroTalentRefs(Ref!Cur) : Ref!TalentUsable(t) => t.hero \in heroNames /\ t.ability \in abilityNames
      /\ \A f \in Ref!Cur.hero_facets : Ref!FacetUsable(f) => f.hero \in heroNames /\ Ref!FitsSmallint(f.slot)
  BY DEF Ref!Closed
<1>2. /\ \A h \in Ref!heroRefs(Ref!Cur) : h.id \in 1 .. Ref!Smallint =>
             \E g \in Ref!heroRefs(Ref!Cur) \intersect heroes : g.id = h.id
      /\ \A a \in Ref!abilityRefs(Ref!Cur) : \E x \in abilities : x.name = a.name
      /\ \A a \in Ref!abilityIDRefs(Ref!Cur) : \E x \in abilities : x.name = a.name
      /\ release \in DOMAIN Releases
  BY DEF Ref!RefDataIInv, Ref!RefDataInv, Ref!LoadedPresent, Ref!TypeOK
<1>3. \A h \in Ref!heroRefs(Ref!Cur) : h \in usable <=> h.id \in 1 .. Ref!Smallint
  <2>1. \A h \in Ref!heroRefs(Ref!Cur) : h.id \in Int
    BY <1>2, CurrentRelease
  <2>2. ASSUME NEW h \in Ref!heroRefs(Ref!Cur) PROVE h \in usable <=> h.id \in 1 .. Ref!Smallint
    <3>1. h.id \in Int
      BY <2>1
    <3>2. h \in usable <=> h.id > 0 /\ h.id <= Ref!Smallint
      BY DEF Ref!UsableHeroes
    <3>3. Ref!Smallint \in Nat
      BY DEF Ref!Smallint
    <3> HIDE DEF usable
    <3>. QED BY <3>1, <3>2, <3>3
  <2>. QED BY <2>2, Zenon
<1>4. usable \subseteq Ref!heroRefs(Ref!Cur)
  BY DEF Ref!UsableHeroes
<1>5. \A n \in heroNames : \E h \in heroes : h.name = n
  <2> SUFFICES ASSUME NEW g \in usable, \A x \in usable : x.id = g.id => x.name = g.name
               PROVE  \E h \in heroes : h.name = g.name
    OBVIOUS
  <2>1. PICK h \in Ref!heroRefs(Ref!Cur) \intersect heroes : h.id = g.id
    BY <1>2, <1>3, <1>4
  <2>2. h \in usable
    BY <1>3, <1>4, <2>1
  <2>. QED BY <2>1, <2>2
<1>6. \A n \in abilityNames : \E a \in abilities : a.name = n
  BY <1>2
<1> HIDE DEF heroNames, abilityNames
<1>. QED BY <1>1, <1>5, <1>6 DEF Ref!NoHero, Ref!NoAbility

LEMMA HeroAbilitiesFail ==
  ASSUME Ref!ConstantsOK, Ref!RefDataIInv,
         NEW a \in Ref!UpsertHeroAbilities(Ref!heroAbilityRefs(Ref!Cur)),
         NEW t \in Ref!UpsertHeroTalents(Ref!heroTalentRefs(Ref!Cur)),
         NEW f \in Ref!UpsertHeroFacets(Ref!Cur.hero_facets),
         a.err \/ t.err \/ f.err
  PROVE  Ref!Cause("hero_abilities")
<1> SUFFICES ASSUME Ref!Closed(Ref!Cur), Ref!Loads("heroes"), Ref!Loads("abilities"), Ref!Loads("ability_ids")
             PROVE  FALSE
  BY DEF Ref!Cause
<1> DEFINE A == {h \in Ref!heroAbilityRefs(Ref!Cur) : Ref!AbilityUsable(h)}
           T == {x \in Ref!heroTalentRefs(Ref!Cur) : Ref!TalentUsable(x)}
           F == {x \in Ref!Cur.hero_facets : Ref!FacetUsable(x)}
<1>0. release \in DOMAIN Releases
  BY DEF Ref!RefDataIInv, Ref!RefDataInv, Ref!TypeOK
<1>1. IsFiniteSet(A) /\ IsFiniteSet(T) /\ IsFiniteSet(F)
  BY <1>0, CurrentRelease, FS_Subset
<1>2. /\ a \in Ref!Outcomes("hero_abilities", heroTables.hero_abilities, A)
      /\ t \in Ref!Outcomes("hero_talents", heroTables.hero_talents, T)
      /\ f \in Ref!Outcomes("hero_facets", heroTables.hero_facets, F)
  BY DEF Ref!UpsertHeroAbilities, Ref!UpsertHeroTalents, Ref!UpsertHeroFacets
<1>3. /\ \A h \in A : ~Ref!NoHero(h) /\ ~Ref!NoAbility(h) /\ h.slot \in 0 .. 15
      /\ \A x \in T : ~Ref!NoHero(x) /\ ~Ref!NoAbility(x)
      /\ \A x \in F : ~Ref!NoHero(x) /\ Ref!FitsSmallint(x.slot)
  BY ReferencesLoaded
<1>4. \A x \in T : x.level \in 1 .. 4
  <2>1. \A x \in Ref!heroTalentRefs(Ref!Cur) : x.level \in Int
    BY <1>0, CurrentRelease
  <2>2. \A x \in T : x \in Ref!heroTalentRefs(Ref!Cur) /\ x.level >= 1 /\ x.level <= 4
    BY Zenon DEF Ref!TalentUsable
  <2> HIDE DEF T
  <2>3. ASSUME NEW x \in T PROVE x.level \in 1 .. 4
    <3>1. x.level \in Int /\ x.level >= 1 /\ x.level <= 4
      BY <2>1, <2>2
    <3>. QED BY <3>1
  <2>. QED BY <2>3, Zenon
<1> HIDE DEF A, T, F
<1>5. a.err = FALSE
  <2>1. \A tab : \A row \in A : ~Ref!Refused("hero_abilities", tab, row)
    BY <1>3 DEF Ref!Refused
  <2>. QED BY <1>1, <1>2, <2>1, NeverRefused
<1>6. t.err = FALSE
  <2>1. \A tab : \A row \in T : ~Ref!Refused("hero_talents", tab, row)
    BY <1>3, <1>4 DEF Ref!Refused
  <2>. QED BY <1>1, <1>2, <2>1, NeverRefused
<1>7. f.err = FALSE
  <2>1. \A tab : \A row \in F : ~Ref!Refused("hero_facets", tab, row)
    BY <1>3 DEF Ref!Refused
  <2>. QED BY <1>1, <1>2, <2>1, NeverRefused
<1>. QED BY <1>5, <1>6, <1>7

LEMMA LookupsFail ==
  ASSUME Ref!ConstantsOK, Ref!RefDataIInv, Ref!RunLookup, NEW s \in failed', s \notin failed
  PROVE  Ref!Cause(s)
<1>0. /\ release \in DOMAIN Releases
      /\ DOMAIN lookups = {"game_mode", "lobby_type", "region", "items", "item_ids", "patch"}
  BY DEF Ref!RefDataIInv, Ref!RefDataInv, Ref!TypeOK
<1>1. PICK r \in DOMAIN lookups : \E o :
          /\ r = "game_mode" => o \in Ref!UpsertGameModes(Ref!gameModeRefs(Ref!Cur))
          /\ r = "lobby_type" => o \in Ref!UpsertLobbyTypes(Ref!lobbyTypeRefs(Ref!Cur))
          /\ r = "region" => o \in Ref!UpsertRegions(Ref!regionRefs(Ref!Cur))
          /\ r = "items" => o \in Ref!UpsertItems(Ref!itemRefs(Ref!Cur))
          /\ r = "item_ids" => o \in Ref!UpsertItemIDs(Ref!itemIDRefs(Ref!Cur))
          /\ r = "patch" => o \in Ref!UpsertPatches(Ref!patchRefs(Ref!Cur))
          /\ Ref!Ends(r, o.err)
  BY <1>0 DEF Ref!RunLookup
<1>2. PICK o :
          /\ r = "game_mode" => o \in Ref!UpsertGameModes(Ref!gameModeRefs(Ref!Cur))
          /\ r = "lobby_type" => o \in Ref!UpsertLobbyTypes(Ref!lobbyTypeRefs(Ref!Cur))
          /\ r = "region" => o \in Ref!UpsertRegions(Ref!regionRefs(Ref!Cur))
          /\ r = "items" => o \in Ref!UpsertItems(Ref!itemRefs(Ref!Cur))
          /\ r = "item_ids" => o \in Ref!UpsertItemIDs(Ref!itemIDRefs(Ref!Cur))
          /\ r = "patch" => o \in Ref!UpsertPatches(Ref!patchRefs(Ref!Cur))
          /\ Ref!Ends(r, o.err)
  BY <1>1
<1>3. s = r /\ o.err
  BY <1>2 DEF Ref!Ends
<1>4. ASSUME NEW q \in {"game_mode", "lobby_type", "region", "item_ids"}, NEW tab,
             NEW refs \in {Ref!gameModeRefs(Ref!Cur), Ref!lobbyTypeRefs(Ref!Cur), Ref!regionRefs(Ref!Cur),
                           Ref!itemIDRefs(Ref!Cur)},
             NEW rows \in SUBSET refs, NEW out \in Ref!Outcomes(q, tab, rows)
      PROVE  out.err = FALSE
  <2>1. IsFiniteSet(refs)
    BY <1>0, CurrentRelease
  <2>2. IsFiniteSet(rows)
    BY <2>1, FS_Subset
  <2>3. \A t : \A row \in rows : ~Ref!Refused(q, t, row)
    BY DEF Ref!Refused
  <2>. QED BY <2>2, <2>3, NeverRefused
<1>5. CASE r = "game_mode"
  BY <1>2, <1>3, <1>4, <1>5 DEF Ref!UpsertGameModes, Ref!Named
<1>6. CASE r = "lobby_type"
  BY <1>2, <1>3, <1>4, <1>6 DEF Ref!UpsertLobbyTypes, Ref!Named
<1>7. CASE r = "region"
  BY <1>2, <1>3, <1>4, <1>7 DEF Ref!UpsertRegions, Ref!Named
<1>8. CASE r = "item_ids"
  BY <1>2, <1>3, <1>4, <1>8 DEF Ref!UpsertItemIDs
<1>9. CASE r = "items"
  <2> DEFINE rows == {i \in Ref!itemRefs(Ref!Cur) : i.id > 0 /\ i.name # ""}
  <2>1. o \in Ref!Outcomes("items", lookups.items, rows)
    BY <1>2, <1>9 DEF Ref!UpsertItems
  <2>2. IsFiniteSet(Ref!itemRefs(Ref!Cur))
    BY <1>0, CurrentRelease
  <2>3. rows \in SUBSET Ref!itemRefs(Ref!Cur)
    OBVIOUS
  <2> HIDE DEF rows
  <2>4. Ref!Renumbers(Ref!itemRefs(Ref!Cur), lookups.items)
    BY <1>3, <2>1, <2>2, <2>3, UniqueNamesFail
  <2>. QED BY <1>3, <1>9, <2>4 DEF Ref!Cause
<1>10. CASE r = "patch"
  <2> DEFINE rows == {p \in Ref!patchRefs(Ref!Cur) : p.id > 0 /\ p.name # ""}
  <2>1. o \in Ref!Outcomes("patch", lookups.patch, rows)
    BY <1>2, <1>10 DEF Ref!UpsertPatches
  <2>2. IsFiniteSet(Ref!patchRefs(Ref!Cur))
    BY <1>0, CurrentRelease
  <2>3. rows \in SUBSET Ref!patchRefs(Ref!Cur)
    OBVIOUS
  <2> HIDE DEF rows
  <2>4. Ref!Renumbers(Ref!patchRefs(Ref!Cur), lookups.patch)
    BY <1>3, <2>1, <2>2, <2>3, UniqueNamesFail
  <2>. QED BY <1>3, <1>10, <2>4 DEF Ref!Cause
<1>. QED BY <1>0, <1>5, <1>6, <1>7, <1>8, <1>9, <1>10

LEMMA FailureCause ==
  ASSUME Ref!ConstantsOK, Ref!RefDataIInv, Ref!Next, NEW s \in failed', s \notin failed
  PROVE  Ref!Cause(s)
<1>0. release \in DOMAIN Releases
  BY DEF Ref!RefDataIInv, Ref!RefDataInv, Ref!TypeOK
<1>E. ASSUME NEW r, NEW err, Ref!Ends(r, err) PROVE s = r /\ err
  BY <1>E DEF Ref!Ends
<1>1. CASE Ref!RunHeroes
  <2>1. PICK o \in Ref!UpsertHeroes(Ref!heroRefs(Ref!Cur)) : Ref!Ends("heroes", o.err)
    BY <1>1 DEF Ref!RunHeroes
  <2>2. s = "heroes" /\ o.err
    BY <1>E, <2>1
  <2>. QED BY <1>0, <2>2, HeroesFail
<1>2. CASE Ref!RunAbilities
  <2>1. ASSUME NEW o \in Ref!UpsertAbilities(Ref!abilityRefs(Ref!Cur)), Ref!Ends("abilities", o.err) PROVE Ref!Cause(s)
    <3> DEFINE rows == {a \in Ref!abilityRefs(Ref!Cur) : a.name # ""}
    <3>1. IsFiniteSet(Ref!abilityRefs(Ref!Cur))
      BY <1>0, CurrentRelease
    <3>2. IsFiniteSet(rows)
      BY <3>1, FS_Subset
    <3>3. o \in Ref!Outcomes("abilities", abilities, rows)
      BY DEF Ref!UpsertAbilities
    <3>4. \A t : \A row \in rows : ~Ref!Refused("abilities", t, row)
      BY DEF Ref!Refused
    <3> HIDE DEF rows
    <3>5. o.err = FALSE
      BY <3>2, <3>3, <3>4, NeverRefused
    <3>. QED BY <1>E, <2>1, <3>5
  <2>2. ASSUME NEW o \in Ref!UpsertAbilityIDs(Ref!abilityIDRefs(Ref!Cur)), Ref!Ends("ability_ids", o.err) PROVE Ref!Cause(s)
    <3>1. s = "ability_ids" /\ o.err
      BY <1>E, <2>2
    <3>. QED BY <1>0, <3>1, AbilityIDsFail
  <2>. QED BY <1>2, <2>1, <2>2 DEF Ref!RunAbilities
<1>3. CASE Ref!RunHeroAbilities
  <2>1. PICK a \in Ref!UpsertHeroAbilities(Ref!heroAbilityRefs(Ref!Cur)),
             t \in Ref!UpsertHeroTalents(Ref!heroTalentRefs(Ref!Cur)),
             f \in Ref!UpsertHeroFacets(Ref!Cur.hero_facets) : Ref!Ends("hero_abilities", a.err \/ t.err \/ f.err)
    BY <1>3 DEF Ref!RunHeroAbilities
  <2>2. s = "hero_abilities" /\ (a.err \/ t.err \/ f.err)
    BY <1>E, <2>1
  <2>. QED BY <2>2, HeroAbilitiesFail
<1>4. CASE Ref!RunLookup
  BY <1>4, LookupsFail
<1>5. CASE Ref!PublishRelease \/ \E ids \in SUBSET MatchHeroes : Ref!EnsureHeroStubs(ids)
  BY <1>5 DEF Ref!PublishRelease, Ref!EnsureHeroStubs
<1>. QED BY <1>1, <1>2, <1>3, <1>4, <1>5 DEF Ref!Next

\* What a source has loaded stays in its tables whatever the other sources and the parser
\* write after it, and keys and numbers stay unique: for any releases, any order of the rows
\* in a transaction and any interleaving of runs, refused transactions and stubs.
THEOREM LoadedStays == RefDataSpec => []RefDataInv
<1>1. Ref!Init => Ref!RefDataIInv
  BY RefDataInit, RefDataConstants
<1>2. Ref!RefDataIInv /\ [Ref!Next]_Ref!vars => Ref!RefDataIInv'
  BY RefDataStep, RefDataConstants
<1>3. Ref!RefDataIInv => RefDataInv
  BY DEF Ref!RefDataIInv, RefDataInv
<1>. QED BY <1>1, <1>2, <1>3, PTL DEF RefDataSpec, Ref!Spec

\* A run of a source fails only for a name under two numbers, a renamed hero that is referred
\* to, an ability's number given twice, or references and slots that the release has wrong or
\* whose heroes and abilities are not loaded: for any releases, orders of rows and
\* interleavings; everything else a file may hold is skipped on the way.
THEOREM FailuresHaveCause == RefDataSpec => FailsOnlyForCause
<1>1. Ref!Init => Ref!RefDataIInv
  BY RefDataInit, RefDataConstants
<1>2. Ref!RefDataIInv /\ [Ref!Next]_Ref!vars => Ref!RefDataIInv'
  BY RefDataStep, RefDataConstants
<1>3. Ref!RefDataIInv /\ [Ref!Next]_Ref!vars => [\A s \in failed' \ failed : Ref!Cause(s)]_Ref!vars
  BY FailureCause, RefDataConstants
<1>. QED BY <1>1, <1>2, <1>3, PTL DEF RefDataSpec, Ref!Spec, FailsOnlyForCause, Ref!FailsOnlyForCause

=============================================================================
