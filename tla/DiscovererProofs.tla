--------------------------- MODULE DiscovererProofs ---------------------------
(***************************************************************************)
(* Proofs about Discoverer, for any list of cycles, number of items and    *)
(* bounds: no cycle is run by two goroutines at once, and the items every  *)
(* answer lists are stored from one answer.                                *)
(***************************************************************************)
EXTENDS Discoverer, TLAPS

RunState == [step : {"none", "fetch", "items"}, cycle : Names, version : Nat,
             done : 0 .. Items, view : [1 .. Items -> Nat]]

\* The list of cycles names each once, matches first, and none like main's own run.
LEMMA CyclesEffect ==
  /\ "matches" \in Names /\ "main" \notin Names
  /\ \A s \in {<<>>, <<"matches">>, Cycles} :
        /\ Len(s) \in Nat /\ \A i \in 1 .. Len(s) : s[i] \in Names
        /\ \A i, j \in 1 .. Len(s) : s[i] = s[j] => i = j
<1> DEFINE n == Len(Stored)
<1> DEFINE A == {Stored[i] : i \in DOMAIN Stored} \union {"matches"}
<1>0. Stored \in Seq(A) /\ "matches" \in A
  <2> DEFINE B == {Stored[i] : i \in DOMAIN Stored}
  <2>1. Stored \in Seq(B) /\ B \subseteq A
    BY ConstantsAssumption
  <2> HIDE DEF A, B
  <2>2. Stored \in Seq(A)
    BY <2>1
  <2>. QED BY <2>2 DEF A
<1> HIDE DEF A
<1>1. /\ Stored \in Seq(A) /\ \A i \in 1 .. n : Stored[i] # "main" /\ Stored[i] # "matches"
      /\ \A i, j \in 1 .. n : Stored[i] = Stored[j] => i = j
  <2>1. DOMAIN Stored = 1 .. n
    BY <1>0
  <2>. QED BY <1>0, <2>1, ConstantsAssumption
<1>2. n \in Nat
  BY <1>1
<1>3. /\ Cycles \in Seq(A) /\ Len(Cycles) = n + 1 /\ DOMAIN Cycles = 1 .. n + 1
      /\ Cycles[1] = "matches" /\ \A i \in 2 .. n + 1 : Cycles[i] = Stored[i - 1]
  <2> DEFINE e == "matches"
  <2>1. e \in A /\ Stored \in Seq(A)
    BY <1>0
  <2> HIDE DEF e
  <2>2. <<e>> \in Seq(A) /\ Len(<<e>>) = 1 /\ <<e>>[1] = e
    BY <2>1
  <2>3. <<e>> \o Stored \in Seq(A) /\ Len(<<e>> \o Stored) = 1 + n
    BY <2>1, <2>2
  <2>4. \A i \in 1 .. 1 + n : (<<e>> \o Stored)[i] = IF i <= 1 THEN <<e>>[i] ELSE Stored[i - 1]
    BY <1>2, <2>1, <2>2
  <2>5. Cycles = <<e>> \o Stored
    BY DEF Cycles, e
  <2>6. DOMAIN Cycles = 1 .. n + 1 /\ Cycles[1] = e
    BY <1>2, <2>2, <2>3, <2>4, <2>5
  <2>. QED BY <1>2, <2>3, <2>4, <2>5, <2>6 DEF e
<1>4. \A i \in 2 .. n + 1 : i - 1 \in 1 .. n
  BY <1>2
<1>5. \A i \in 1 .. n + 1 : i = 1 \/ i \in 2 .. n + 1
  BY <1>2
<1>6. \A i, j \in 1 .. n + 1 : Cycles[i] = Cycles[j] => i = j
  <2> SUFFICES ASSUME NEW i \in 1 .. n + 1, NEW j \in 1 .. n + 1, Cycles[i] = Cycles[j] PROVE i = j
    OBVIOUS
  <2>1. CASE i = 1 /\ j = 1
    BY <2>1
  <2>2. CASE i = 1 /\ j # 1
    BY <1>1, <1>3, <1>4, <1>5, <2>2
  <2>3. CASE i # 1 /\ j = 1
    BY <1>1, <1>3, <1>4, <1>5, <2>3
  <2>4. CASE i # 1 /\ j # 1
    <3>1. i - 1 \in 1 .. n /\ j - 1 \in 1 .. n /\ Stored[i - 1] = Stored[j - 1]
      BY <1>3, <1>4, <1>5, <2>4
    <3>2. i - 1 = j - 1
      BY <1>1, <3>1
    <3>. QED BY <1>2, <3>2
  <2>. QED BY <2>1, <2>2, <2>3, <2>4
<1>7. \A i \in 1 .. n + 1 : Cycles[i] \in Names /\ Cycles[i] # "main"
  BY <1>1, <1>3, <1>4, <1>5, ZenonT(30) DEF Names
<1>8. "matches" \in Names /\ "main" \notin Names
  <2>1. 1 \in 1 .. n + 1
    BY <1>2
  <2>. QED BY <1>3, <1>7, <2>1 DEF Names
<1>9. n + 1 \in Nat
  BY <1>2
<1>10. ASSUME NEW s, s = <<>> \/ s = <<"matches">>
       PROVE  /\ Len(s) \in Nat /\ \A i \in 1 .. Len(s) : s[i] \in Names
              /\ \A i, j \in 1 .. Len(s) : s[i] = s[j] => i = j
  BY <1>8, <1>10
<1> HIDE DEF n
<1>. QED BY <1>3, <1>6, <1>7, <1>8, <1>9, <1>10

\* The two properties follow from the inductive invariant.
LEMMA OverlapFollows == SchedulerIInv => SchedulerInv
<1> SUFFICES ASSUME SchedulerIInv PROVE SchedulerInv
  OBVIOUS
<1>1. TypeOK /\ OneAnswer /\ ScheduleInv
  BY DEF SchedulerIInv
<1>2. ASSUME NEW c \in Names, run["main"].step # "none", run[c].step # "none"
      PROVE  run["main"].cycle # run[c].cycle
  <2>1. at \in 1 .. Len(cycles) + 1 /\ at <= Len(cycles) /\ cycles \in {<<>>, <<"matches">>, Cycles}
    BY <1>1, <1>2 DEF TypeOK, ScheduleInv
  <2>2. run["main"].cycle = cycles[at] /\ run[c].cycle = c
    BY <1>1, <1>2 DEF ScheduleInv
  <2>3. PICK i \in 1 .. at - 1 : cycles[i] = c
    BY <1>1, <1>2 DEF ScheduleInv
  <2>4. i # at /\ i \in 1 .. Len(cycles) /\ at \in 1 .. Len(cycles)
    BY <2>1, CyclesEffect
  <2>. QED BY <2>1, <2>2, <2>3, <2>4, CyclesEffect
<1>3. \A c, d \in Names : c # d /\ run[c].step # "none" /\ run[d].step # "none" => run[c].cycle # run[d].cycle
  BY <1>1 DEF ScheduleInv
<1>4. NoOverlap
  BY <1>2, <1>3 DEF NoOverlap, Runners
<1>. QED BY <1>1, <1>4 DEF SchedulerInv

LEMMA SchedulerInit == Init => SchedulerIInv
<1> SUFFICES ASSUME Init PROVE SchedulerIInv
  OBVIOUS
<1>1. NotRunning \in RunState /\ NotRunning.step = "none"
  BY CyclesEffect, ConstantsAssumption DEF NotRunning, RunState
<1>2. TypeOK
  <2>1. run \in [Runners -> RunState] /\ table \in [Names -> [1 .. Items -> Nat]]
    BY <1>1 DEF Init, Nothing
  <2>2. 0 \in 0 .. MaxPolls /\ 0 \in 0 .. MaxFailures /\ 1 \in 1 .. MaxVersion
    BY ConstantsAssumption
  <2>3. cycles = <<>> /\ at \in 1 .. Len(cycles) + 1
    BY DEF Init
  <2>. QED BY <2>1, <2>2, <2>3 DEF Init, TypeOK, RunState
<1>3. OneAnswer
  BY DEF Init, OneAnswer, Nothing
<1>4. \A r \in Runners : run[r].step = "none"
  BY <1>1 DEF Init
<1>5. ScheduleInv
  BY <1>4 DEF Init, ScheduleInv, Runners
<1>. QED BY <1>2, <1>3, <1>5 DEF SchedulerIInv

LEMMA SchedulerStep == SchedulerIInv /\ [Next]_vars => SchedulerIInv'
<1> SUFFICES ASSUME SchedulerIInv, [Next]_vars PROVE SchedulerIInv'
  OBVIOUS
<1> DEFINE Others == /\ size \in Sizes /\ polls \in 0 .. MaxPolls /\ postgres \in BOOLEAN
                     /\ cancelled \in BOOLEAN /\ tick \in [Names -> BOOLEAN]
                     /\ failures \in 0 .. MaxFailures /\ version \in 1 .. MaxVersion
           Mains == {"proxies", "postgres", "loop", "starting", "waiting", "stopped", "exit"}
           States == {"none", "select", "running", "exited"}
           Place == /\ main \in Mains /\ cycles \in {<<>>, <<"matches">>, Cycles} /\ at \in 1 .. Len(cycles) + 1
                    /\ main \in {"proxies", "postgres"} => cycles = <<>>
                    /\ main = "starting" => at <= Len(cycles)
           Gos == /\ goroutine \in [Names -> States]
                  /\ \A c \in Names : goroutine[c] # "none" => \E i \in 1 .. at - 1 : cycles[i] = c
           Store == table \in [Names -> [1 .. Items -> Nat]] /\ OneAnswer
           Own(r) == IF r = "main" THEN run[r].step # "none" => main = "starting" /\ run[r].cycle = cycles[at]
                     ELSE run[r].step # "none" => goroutine[r] = "running" /\ run[r].cycle = r
           Rows(q) == /\ q.step = "fetch" => q.done = 0
                      /\ q.step = "items" /\ q.cycle # "matches" => \A i \in 1 .. q.done : q.view[i] = q.version
           Runs == /\ run \in [Runners -> RunState]
                   /\ \A r \in Runners : Own(r) /\ Rows(run[r])
<1>C. "main" \in Runners /\ "main" \notin Names /\ \A c \in Names : c \in Runners /\ c # "main"
  BY CyclesEffect DEF Runners
<1>0. Others /\ Place /\ Gos /\ Store /\ Runs
  BY <1>C DEF SchedulerIInv, TypeOK, ScheduleInv, RunState, Runners
<1>P. ASSUME Others', Place', Gos', Store', Runs' PROVE SchedulerIInv'
  <2>1. TypeOK'
    BY <1>P DEF TypeOK, RunState
  <2>2. \A r \in Runners : Own(r)' /\ Rows(run'[r])
    BY <1>P
  <2>3. /\ \A c \in Names : run'[c].step # "none" => goroutine'[c] = "running" /\ run'[c].cycle = c
        /\ run'["main"].step # "none" => main' = "starting" /\ run'["main"].cycle = cycles'[at']
    BY <1>C, <2>2
  <2>4. ScheduleInv'
    BY <1>P, <2>2, <2>3 DEF ScheduleInv
  <2>. QED BY <1>P, <2>1, <2>4 DEF SchedulerIInv
<1>N. NotRunning \in RunState /\ NotRunning.step = "none" /\ \A c \in Names : Begun(c) \in RunState
        /\ Begun(c).step = "fetch" /\ Begun(c).cycle = c /\ Begun(c).done = 0
  <2> DEFINE f == [i \in 1 .. Items |-> 0]
  <2>1. 0 \in 0 .. Items /\ f \in [1 .. Items -> Nat] /\ "matches" \in Names
    BY CyclesEffect, ConstantsAssumption
  <2>2. NotRunning = [step |-> "none", cycle |-> "matches", version |-> 0, done |-> 0, view |-> f]
    BY DEF NotRunning
  <2> HIDE DEF f
  <2>3. NotRunning \in RunState /\ NotRunning.step = "none"
    BY <2>1, <2>2 DEF RunState
  <2>4. ASSUME NEW c \in Names
        PROVE  Begun(c) = [step |-> "fetch", cycle |-> c, version |-> 0, done |-> 0, view |-> f]
    <3> DEFINE q == [NotRunning EXCEPT !.step = "fetch"]
    <3>1. q = [step |-> "fetch", cycle |-> "matches", version |-> 0, done |-> 0, view |-> f]
      BY <2>2
    <3>2. Begun(c) = [q EXCEPT !.cycle = c]
      BY DEF Begun
    <3> HIDE DEF q
    <3>3. [q EXCEPT !.cycle = c] = [step |-> "fetch", cycle |-> c, version |-> 0, done |-> 0, view |-> f]
      BY <3>1
    <3>. QED BY <3>2, <3>3
  <2>. QED BY <2>1, <2>3, <2>4 DEF RunState
<1>L. /\ Len(cycles) \in Nat /\ at \in Nat /\ \A i \in 1 .. Len(cycles) : cycles[i] \in Names
      /\ \A i, j \in 1 .. Len(cycles) : cycles[i] = cycles[j] => i = j
  <2>1. /\ Len(cycles) \in Nat /\ \A i \in 1 .. Len(cycles) : cycles[i] \in Names
        /\ \A i, j \in 1 .. Len(cycles) : cycles[i] = cycles[j] => i = j
    BY <1>0, CyclesEffect
  <2>. QED BY <1>0, <2>1
\* A step of main before and after its loop.
<1>W. ASSUME main' \in Mains, main # "starting", main' # "starting", Others',
             UNCHANGED <<at, goroutine, run, table>>,
             \/ cycles' = cycles /\ (main' \in {"proxies", "postgres"} => main \in {"proxies", "postgres"})
             \/ main = "postgres" /\ main' = "loop" /\ cycles' \in {<<"matches">>, Cycles}
      PROVE  SchedulerIInv'
  <2>1. Store'
    BY <1>0, <1>W DEF OneAnswer
  <2>2. run["main"].step = "none"
    BY <1>0, <1>C, <1>W
  <2>3. Runs'
    <3>1. \A r \in Runners : Own(r)'
      BY <1>0, <1>W, <2>2
    <3>. QED BY <1>0, <1>W, <3>1
  <2>4. CASE cycles' = cycles /\ (main' \in {"proxies", "postgres"} => main \in {"proxies", "postgres"})
    <3>1. Place' /\ Gos'
      BY <1>0, <1>W, <2>4
    <3>. QED BY <1>P, <1>W, <2>1, <2>3, <3>1
  <2>5. CASE main = "postgres" /\ main' = "loop" /\ cycles' \in {<<"matches">>, Cycles}
    <3>1. at = 1 /\ \A c \in Names : goroutine[c] = "none"
      <4>1. cycles = <<>> /\ at = 1
        BY <1>0, <2>5
      <4>. QED BY <1>0, <4>1
    <3>2. Place'
      <4>1. Len(cycles') \in Nat
        BY <2>5, CyclesEffect
      <4>2. at' \in 1 .. Len(cycles') + 1
        BY <1>W, <3>1, <4>1
      <4>. QED BY <1>W, <2>5, <4>2
    <3>3. Gos'
      BY <1>0, <1>W, <3>1
    <3>. QED BY <1>P, <1>W, <2>1, <2>3, <3>2, <3>3
  <2>. QED BY <1>W, <2>4, <2>5
\* A step of the environment.
<1>E. ASSUME Others', UNCHANGED <<main, cycles, at, goroutine, run, table>> PROVE SchedulerIInv'
  <2>1. Store'
    BY <1>0, <1>E DEF OneAnswer
  <2>2. Place' /\ Gos'
    BY <1>0, <1>E
  <2>3. Runs'
    BY <1>0, <1>E
  <2>. QED BY <1>E, <1>P, <2>1, <2>2, <2>3
<1>1. ASSUME Waiting PROVE SchedulerIInv'
  <2>1. CASE ProxiesReady \/ ProxiesTimeout \/ ProxiesCancelled
    BY <1>0, <1>W, <2>1 DEF ProxiesReady, ProxiesTimeout, ProxiesCancelled, waits
  <2>2. CASE ProxiesMissing
    <3>1. polls' \in 0 .. MaxPolls
      BY <1>0, <2>2, ConstantsAssumption DEF ProxiesMissing
    <3>. QED BY <1>0, <1>E, <2>2, <3>1 DEF ProxiesMissing
  <2>3. CASE Connected \/ NotConnected
    BY <1>0, <1>W, <2>3 DEF Connected, NotConnected, waits
  <2>. QED BY <1>1, <2>1, <2>2, <2>3 DEF Waiting
<1>2. ASSUME AllScheduled \/ Stop PROVE SchedulerIInv'
  BY <1>0, <1>2, <1>W DEF AllScheduled, Stop, waits
<1>3. ASSUME PoolChanges \/ PostgresStarts \/ Cancel PROVE SchedulerIInv'
  BY <1>0, <1>3, <1>E DEF PoolChanges, PostgresStarts, Cancel, waits
<1>4. ASSUME UpstreamChanges PROVE SchedulerIInv'
  <2>1. version' \in 1 .. MaxVersion
    BY <1>0, <1>4, ConstantsAssumption DEF UpstreamChanges
  <2>. QED BY <1>0, <1>4, <1>E, <2>1 DEF UpstreamChanges, waits
<1>5. ASSUME NEW c \in Names, Tick(c) PROVE SchedulerIInv'
  <2>1. tick' \in [Names -> BOOLEAN]
    BY <1>0, <1>5 DEF Tick
  <2>. QED BY <1>0, <1>5, <1>E, <2>1 DEF Tick, waits
\* A runner goes on with its run.
<1>Q. ASSUME NEW r \in Runners, NEW q \in RunState, run' = [run EXCEPT ![r] = q], Rows(q),
             run[r].step # "none", q.cycle = run[r].cycle,
             UNCHANGED <<main, cycles, at, goroutine>>, Others', Store'
      PROVE  SchedulerIInv'
  <2>1. run' \in [Runners -> RunState] /\ run'[r] = q /\ \A o \in Runners : o # r => run'[o] = run[o]
    BY <1>0, <1>Q
  <2>2. \A o \in Runners : Own(o)'
    BY <1>0, <1>Q, <2>1
  <2>3. \A o \in Runners : Rows(run'[o])
    <3>1. \A o \in Runners : Rows(run[o])
      BY <1>0
    <3> HIDE DEF Rows
    <3>. QED BY <1>Q, <2>1, <3>1
  <2>4. Place' /\ Gos'
    BY <1>0, <1>Q
  <2>5. Runs'
    BY <2>1, <2>2, <2>3
  <2>. QED BY <1>P, <1>Q, <2>4, <2>5
\* A run ends.
<1>X. ASSUME NEW r \in Runners, NEW err, End(r, err), run[r].step # "none",
             UNCHANGED <<main, cycles, at>>, Others', Store'
      PROVE  SchedulerIInv'
  <2>1. /\ run' = [run EXCEPT ![r] = NotRunning]
        /\ goroutine' = IF r = "main" THEN goroutine ELSE [goroutine EXCEPT ![r] = "select"]
    BY <1>X DEF End
  <2>2. run' \in [Runners -> RunState] /\ run'[r] = NotRunning /\ \A o \in Runners : o # r => run'[o] = run[o]
    BY <1>0, <1>N, <1>X, <2>1
  <2>3. r # "main" => r \in Names /\ goroutine[r] = "running"
    BY <1>0, <1>X DEF Runners
  <2>4. /\ goroutine' \in [Names -> States]
        /\ \A c \in Names : c # r => goroutine'[c] = goroutine[c]
        /\ \A c \in Names : goroutine'[c] # "none" => goroutine[c] # "none"
    BY <1>0, <2>1, <2>3
  <2>5. Place' /\ Gos'
    BY <1>0, <1>X, <2>4
  <2>6. \A o \in Runners : Own(o)'
    <3>1. ASSUME NEW o \in Runners, o # r PROVE Own(o)'
      <4>1. o = "main" \/ o \in Names
        BY DEF Runners
      <4>. QED BY <1>0, <1>X, <2>2, <2>4, <3>1, <4>1
    <3>2. Own(r)'
      BY <1>N, <2>2
    <3>. QED BY <3>1, <3>2
  <2>7. \A o \in Runners : Rows(run'[o])
    <3>1. \A o \in Runners : Rows(run[o])
      BY <1>0
    <3>2. Rows(NotRunning)
      BY <1>N
    <3> HIDE DEF Rows
    <3>. QED BY <2>2, <3>1, <3>2
  <2>8. Runs'
    BY <2>2, <2>6, <2>7
  <2>. QED BY <1>P, <1>X, <2>5, <2>8
<1>f. Fails => failures' \in 0 .. MaxFailures
  BY <1>0, ConstantsAssumption DEF Fails
<1>6. ASSUME RunCycleAtStart PROVE SchedulerIInv'
  <2> DEFINE c == cycles[at]  q == Begun(c)
  <2>1. /\ main = "loop" /\ at <= Len(cycles) /\ main' = "starting" /\ run' = [run EXCEPT !["main"] = q]
        /\ UNCHANGED <<cycles, at, goroutine, table>> /\ UNCHANGED <<size, polls, postgres, cancelled, tick, version, failures>>
    BY <1>6 DEF RunCycleAtStart, waits
  <2>2. c \in Names
    <3>1. at \in 1 .. Len(cycles)
      BY <1>0, <1>L, <2>1
    <3>. QED BY <1>L, <3>1
  <2>3. q \in RunState /\ q.step = "fetch" /\ q.cycle = c /\ q.done = 0
    BY <1>N, <2>2
  <2> HIDE DEF q
  <2>4. run' \in [Runners -> RunState] /\ run'["main"] = q /\ \A o \in Runners : o # "main" => run'[o] = run[o]
    BY <1>0, <1>C, <2>1, <2>3
  <2>5. \A o \in Runners : Own(o)'
    BY <1>0, <2>1, <2>3, <2>4
  <2>6. \A o \in Runners : Rows(run'[o])
    <3>1. \A o \in Runners : Rows(run[o])
      BY <1>0
    <3>2. Rows(q)
      BY <2>3
    <3> HIDE DEF Rows
    <3>. QED BY <2>4, <3>1, <3>2
  <2>7. Others' /\ Place' /\ Gos'
    BY <1>0, <2>1
  <2>8. Store'
    BY <1>0, <2>1 DEF OneAnswer
  <2>9. Runs'
    BY <2>4, <2>5, <2>6
  <2>. QED BY <1>P, <2>7, <2>8, <2>9
<1>7. ASSUME Schedule PROVE SchedulerIInv'
  <2> DEFINE c == cycles[at]  g == IF c \in Periodic THEN "select" ELSE "none"
  <2>1. /\ at <= Len(cycles) /\ main \in {"loop", "starting"} /\ (main = "starting" => run["main"].step = "none")
        /\ main' = "loop" /\ at' = at + 1 /\ goroutine' = [goroutine EXCEPT ![c] = g]
        /\ UNCHANGED <<cycles, run, table>> /\ UNCHANGED <<size, polls, postgres, cancelled, tick, version, failures>>
    BY <1>7 DEF Schedule, waits
  <2>2. at \in 1 .. Len(cycles) /\ at + 1 \in 1 .. Len(cycles) + 1 /\ (at + 1) - 1 = at
    BY <1>0, <1>L, <2>1
  <2>3. c \in Names
    BY <1>L, <2>2
  <2>4. goroutine[c] = "none"
    <3> SUFFICES ASSUME goroutine[c] # "none" PROVE FALSE
      OBVIOUS
    <3>1. PICK i \in 1 .. at - 1 : cycles[i] = c
      BY <1>0, <2>3
    <3>2. i \in 1 .. Len(cycles) /\ i # at
      BY <1>L, <2>2
    <3>. QED BY <1>L, <2>2, <3>1, <3>2
  <2>5. run["main"].step = "none" /\ run[c].step = "none"
    BY <1>0, <1>C, <2>1, <2>3, <2>4
  <2>6. g \in States
    OBVIOUS
  <2> HIDE DEF g
  <2>7. goroutine' \in [Names -> States] /\ \A d \in Names : d # c => goroutine'[d] = goroutine[d]
    BY <1>0, <2>1, <2>3, <2>6
  <2>8. Gos'
    <3>1. ASSUME NEW d \in Names, goroutine'[d] # "none" PROVE \E i \in 1 .. at' - 1 : cycles'[i] = d
      <4>1. CASE d = c
        <5>1. at \in 1 .. at' - 1
          BY <2>1, <2>2
        <5>. QED BY <2>1, <4>1, <5>1
      <4>2. CASE d # c
        <5>1. PICK i \in 1 .. at - 1 : cycles[i] = d
          BY <1>0, <2>7, <3>1, <4>2
        <5>2. i \in 1 .. at' - 1
          BY <1>L, <2>1, <2>2
        <5>. QED BY <2>1, <5>1, <5>2
      <4>. QED BY <4>1, <4>2
    <3>. QED BY <2>7, <3>1
  <2>9. Runs'
    <3>1. ASSUME NEW o \in Runners PROVE Own(o)'
      <4>1. o = "main" \/ o \in Names
        BY DEF Runners
      <4>. QED BY <1>0, <2>1, <2>5, <2>7, <4>1
    <3>. QED BY <1>0, <2>1, <3>1
  <2>10. Store'
    BY <1>0, <2>1 DEF OneAnswer
  <2>11. Others' /\ Place'
    BY <1>0, <2>1, <2>2
  <2>. QED BY <1>P, <2>8, <2>9, <2>10, <2>11
<1>8. ASSUME NEW c \in Names, RunCycle(c) PROVE SchedulerIInv'
  <2> DEFINE q == Begun(c)
  <2>1. /\ goroutine[c] = "select" /\ tick' = [tick EXCEPT ![c] = FALSE]
        /\ goroutine' = [goroutine EXCEPT ![c] = "running"] /\ run' = [run EXCEPT ![c] = q]
        /\ UNCHANGED <<main, cycles, at, table>> /\ UNCHANGED <<size, polls, postgres, cancelled, version, failures>>
    BY <1>8 DEF RunCycle, waits
  <2>2. q \in RunState /\ q.step = "fetch" /\ q.cycle = c /\ q.done = 0 /\ c \in Runners /\ c # "main"
    BY <1>C, <1>N
  <2> HIDE DEF q
  <2>3. run' \in [Runners -> RunState] /\ run'[c] = q /\ \A o \in Runners : o # c => run'[o] = run[o]
    BY <1>0, <2>1, <2>2
  <2>4. goroutine' \in [Names -> States] /\ goroutine'[c] = "running"
          /\ \A d \in Names : d # c => goroutine'[d] = goroutine[d]
    BY <1>0, <2>1
  <2>5. \A o \in Runners : Own(o)'
    <3>1. ASSUME NEW o \in Runners, o # c PROVE Own(o)'
      <4>1. o = "main" \/ o \in Names
        BY DEF Runners
      <4>. QED BY <1>0, <2>1, <2>3, <2>4, <3>1, <4>1
    <3>2. Own(c)'
      BY <2>2, <2>3, <2>4
    <3>. QED BY <3>1, <3>2
  <2>6. \A o \in Runners : Rows(run'[o])
    <3>1. \A o \in Runners : Rows(run[o])
      BY <1>0
    <3>2. Rows(q)
      BY <2>2
    <3> HIDE DEF Rows
    <3>. QED BY <2>3, <3>1, <3>2
  <2>7. Others' /\ Place'
    BY <1>0, <2>1
  <2>8. Gos'
    BY <1>0, <2>1, <2>4
  <2>9. Store'
    BY <1>0, <2>1 DEF OneAnswer
  <2>10. Runs'
    BY <2>3, <2>5, <2>6
  <2>. QED BY <1>P, <2>7, <2>8, <2>9, <2>10
<1>9. ASSUME NEW c \in Names, Exit(c) PROVE SchedulerIInv'
  <2>1. /\ goroutine[c] = "select" /\ goroutine' = [goroutine EXCEPT ![c] = "exited"]
        /\ UNCHANGED <<main, cycles, at, run, table>> /\ UNCHANGED <<size, polls, postgres, cancelled, tick, version, failures>>
    BY <1>9 DEF Exit, waits
  <2>2. goroutine' \in [Names -> States] /\ \A d \in Names : d # c => goroutine'[d] = goroutine[d]
    BY <1>0, <2>1
  <2>3. run[c].step = "none"
    BY <1>0, <1>C, <2>1
  <2>4. Others' /\ Place' /\ Gos'
    BY <1>0, <2>1, <2>2
  <2>5. Runs'
    <3>1. ASSUME NEW o \in Runners PROVE Own(o)'
      <4>1. o = "main" \/ o \in Names
        BY DEF Runners
      <4>. QED BY <1>0, <2>1, <2>2, <2>3, <4>1
    <3>. QED BY <1>0, <2>1, <3>1
  <2>6. Store'
    BY <1>0, <2>1 DEF OneAnswer
  <2>. QED BY <1>P, <2>4, <2>5, <2>6
<1>10. ASSUME NEW r \in Runners, run[r].step = "fetch" /\ FetchFails(r) PROVE SchedulerIInv'
  <2>1. PICK err \in BOOLEAN : End(r, err)
    BY <1>10 DEF FetchFails
  <2>2. Others' /\ UNCHANGED <<main, cycles, at, table>>
    BY <1>0, <1>f, <1>10 DEF FetchFails, waits
  <2>3. Store'
    BY <1>0, <2>2 DEF OneAnswer
  <2>. QED BY <1>10, <1>X, <2>1, <2>2, <2>3
<1>11. ASSUME NEW r \in Runners, UpsertFails(r) PROVE SchedulerIInv'
  <2>1. End(r, TRUE) /\ run[r].step # "none"
    BY <1>11 DEF UpsertFails
  <2>2. Others' /\ UNCHANGED <<main, cycles, at, table>>
    BY <1>0, <1>f, <1>11 DEF UpsertFails, waits
  <2>3. Store'
    BY <1>0, <2>2 DEF OneAnswer
  <2>. QED BY <1>X, <2>1, <2>2, <2>3
<1>12. ASSUME NEW r \in Runners, Pushed(r) PROVE SchedulerIInv'
  <2>1. End(r, FALSE) /\ run[r].step # "none"
    BY <1>12 DEF Pushed
  <2>2. Others' /\ UNCHANGED <<main, cycles, at, table>>
    BY <1>0, <1>12 DEF Pushed, waits
  <2>3. Store'
    BY <1>0, <2>2 DEF OneAnswer
  <2>. QED BY <1>X, <2>1, <2>2, <2>3
\* The transaction that commits has replaced all rows by those of its answer.
<1>13. ASSUME NEW r \in Runners, Commit(r) PROVE SchedulerIInv'
  <2> DEFINE c == run[r].cycle  v == run[r].view
  <2>1. /\ run[r].step = "items" /\ c # "matches" /\ run[r].done = Items /\ End(r, FALSE)
        /\ table' = [table EXCEPT ![c] = v]
    BY <1>13 DEF Commit
  <2>2. Others' /\ UNCHANGED <<main, cycles, at>>
    BY <1>0, <1>13 DEF Commit, waits
  <2>3. run[r] \in RunState /\ Rows(run[r])
    BY <1>0
  <2>4. /\ c \in Names /\ v \in [1 .. Items -> Nat]
        /\ \A i \in 1 .. Items : v[i] = run[r].version
    BY <2>1, <2>3 DEF RunState
  <2>5. \A i, j \in 1 .. Items : v[i] = v[j]
    BY <2>4
  <2> HIDE DEF c, v
  <2>6. table' \in [Names -> [1 .. Items -> Nat]] /\ table'[c] = v /\ \A d \in Names : d # c => table'[d] = table[d]
    BY <1>0, <2>1, <2>4
  <2>7. OneAnswer'
    <3> SUFFICES ASSUME NEW d \in Names \ {"matches"}, NEW i \in 1 .. Items, NEW j \in 1 .. Items
                 PROVE  table'[d][i] = table'[d][j]
      BY DEF OneAnswer
    <3>1. CASE d = c
      BY <2>5, <2>6, <3>1
    <3>2. CASE d # c
      <4>1. table'[d] = table[d] /\ table[d][i] = table[d][j]
        BY <1>0, <2>6, <3>2 DEF OneAnswer
      <4>. QED BY <4>1
    <3>. QED BY <3>1, <3>2
  <2>. QED BY <1>X, <2>1, <2>2, <2>6, <2>7
<1>14. ASSUME NEW r \in Runners, Fetch(r) PROVE SchedulerIInv'
  <2> DEFINE o == run[r]  f == table[o.cycle]
             q == [step |-> "items", cycle |-> o.cycle, version |-> version, done |-> 0, view |-> f]
  <2>1. /\ o.step = "fetch"
        /\ run' = [run EXCEPT ![r] = [@ EXCEPT !.step = "items", !.version = version, !.view = f]]
    BY <1>14 DEF Fetch
  <2>2. Others' /\ UNCHANGED <<main, cycles, at, goroutine, table>>
    BY <1>0, <1>14 DEF Fetch, waits
  <2>3. o \in RunState /\ o.done = 0
    BY <1>0, <2>1
  <2>4. version \in Nat /\ 0 \in 0 .. Items /\ o.cycle \in Names /\ f \in [1 .. Items -> Nat]
    BY <1>0, <2>3, ConstantsAssumption DEF RunState
  <2>5. q \in RunState /\ q.cycle = o.cycle /\ q.done = 0 /\ q.step = "items"
    BY <2>4 DEF RunState
  <2>6. [o EXCEPT !.step = "items", !.version = version, !.view = f] = q
    <3> DEFINE a == [o EXCEPT !.step = "items"]  b == [a EXCEPT !.version = version]
    <3>1. a = [step |-> "items", cycle |-> o.cycle, version |-> o.version, done |-> 0, view |-> o.view]
      BY <2>3 DEF RunState
    <3> HIDE DEF a
    <3>2. b = [step |-> "items", cycle |-> o.cycle, version |-> version, done |-> 0, view |-> o.view]
      BY <3>1
    <3> HIDE DEF b
    <3>3. [b EXCEPT !.view = f] = q
      BY <3>2
    <3>. QED BY <3>3 DEF a, b
  <2>7. run' = [run EXCEPT ![r] = q]
    BY <1>0, <2>1, <2>6
  <2>8. Rows(q)
    BY <2>5
  <2>9. Store'
    BY <1>0, <2>2 DEF OneAnswer
  <2> HIDE DEF q, Rows
  <2>. QED BY <1>Q, <2>1, <2>2, <2>5, <2>7, <2>8, <2>9
<1>15. ASSUME NEW r \in Runners, Upsert(r) PROVE SchedulerIInv'
  <2> DEFINE o == run[r]  n == o.done + 1  f == [o.view EXCEPT ![n] = o.version]
             q == [step |-> "items", cycle |-> o.cycle, version |-> o.version, done |-> n, view |-> f]
  <2>1. /\ o.step = "items" /\ n <= Items
        /\ run' = [run EXCEPT ![r] = [@ EXCEPT !.done = n, !.view = f]]
    BY <1>15 DEF Upsert
  <2>2. Others' /\ UNCHANGED <<main, cycles, at, goroutine, table>>
    BY <1>0, <1>15 DEF Upsert, waits
  <2>3. o \in RunState /\ Rows(o)
    BY <1>0
  <2>4. /\ n \in 1 .. Items /\ n \in 0 .. Items /\ o.version \in Nat /\ o.cycle \in Names /\ o.done \in Nat
        /\ o.view \in [1 .. Items -> Nat]
    BY <2>1, <2>3, ConstantsAssumption, SMTT(30) DEF RunState
  <2>5. f \in [1 .. Items -> Nat] /\ f[n] = o.version /\ \A i \in 1 .. Items : i # n => f[i] = o.view[i]
    BY <2>4
  <2>6. q \in RunState /\ q.cycle = o.cycle /\ q.step = "items" /\ q.done = n /\ q.view = f /\ q.version = o.version
    BY <2>4, <2>5 DEF RunState
  <2>7. [o EXCEPT !.done = n, !.view = f] = q
    <3> DEFINE a == [o EXCEPT !.done = n]
    <3>1. a = [step |-> "items", cycle |-> o.cycle, version |-> o.version, done |-> n, view |-> o.view]
      BY <2>1, <2>3 DEF RunState
    <3> HIDE DEF a, n, f
    <3>2. [a EXCEPT !.view = f] = [step |-> "items", cycle |-> o.cycle, version |-> o.version, done |-> n, view |-> f]
      BY <3>1
    <3>. QED BY <3>2 DEF a
  <2>8. run' = [run EXCEPT ![r] = q]
    BY <1>0, <2>1, <2>7
  <2>9. Rows(q)
    <3> SUFFICES ASSUME o.cycle # "matches", NEW i \in 1 .. n PROVE f[i] = o.version
      BY <2>6
    <3>1. i \in 1 .. Items /\ (i = n \/ i \in 1 .. o.done)
      BY <2>1, <2>4, ConstantsAssumption, SMTT(30)
    <3>. QED BY <2>1, <2>3, <2>5, <3>1
  <2>10. Store'
    BY <1>0, <2>2 DEF OneAnswer
  <2> HIDE DEF q, Rows
  <2>. QED BY <1>Q, <2>1, <2>2, <2>6, <2>8, <2>9, <2>10
<1>16. ASSUME NEW r \in Runners, Push(r) PROVE SchedulerIInv'
  <2> DEFINE o == run[r]  n == o.done + 1
             q == [step |-> "items", cycle |-> o.cycle, version |-> o.version, done |-> n, view |-> o.view]
  <2>1. /\ o.step = "items" /\ o.cycle = "matches" /\ n <= Items
        /\ run' = [run EXCEPT ![r] = [@ EXCEPT !.done = n]]
        /\ \/ table' = [table EXCEPT !["matches"] = [@ EXCEPT ![n] = o.version]]
           \/ UNCHANGED table
    BY <1>16 DEF Push
  <2>2. Others' /\ UNCHANGED <<main, cycles, at, goroutine>>
    BY <1>0, <1>f, <1>16 DEF Push, waits
  <2>3. o \in RunState
    BY <1>0
  <2>4. /\ n \in 1 .. Items /\ n \in 0 .. Items /\ o.version \in Nat /\ o.cycle \in Names
        /\ o.view \in [1 .. Items -> Nat]
    BY <2>1, <2>3, ConstantsAssumption, SMTT(30) DEF RunState
  <2>5. q \in RunState /\ q.cycle = o.cycle /\ q.step = "items"
    BY <2>4 DEF RunState
  <2>6. [o EXCEPT !.done = n] = q
    BY <2>1, <2>3 DEF RunState
  <2>7. run' = [run EXCEPT ![r] = q]
    BY <1>0, <2>1, <2>6
  <2>8. Rows(q)
    BY <2>1, <2>5
  <2>9. Store'
    <3>1. table' \in [Names -> [1 .. Items -> Nat]] /\ \A d \in Names \ {"matches"} : table'[d] = table[d]
      <4>1. CASE UNCHANGED table
        BY <1>0, <4>1
      <4>2. CASE table' = [table EXCEPT !["matches"] = [@ EXCEPT ![n] = o.version]]
        <5> DEFINE g == [table["matches"] EXCEPT ![n] = o.version]
        <5>1. g \in [1 .. Items -> Nat]
          BY <1>0, <2>4, CyclesEffect
        <5>2. table' = [table EXCEPT !["matches"] = g]
          BY <1>0, <4>2
        <5> HIDE DEF g
        <5>. QED BY <1>0, <5>1, <5>2
      <4>. QED BY <2>1, <4>1, <4>2
    <3>. QED BY <1>0, <3>1 DEF OneAnswer
  <2> HIDE DEF q, Rows
  <2>. QED BY <1>Q, <2>1, <2>2, <2>5, <2>7, <2>8, <2>9
<1>17. ASSUME UNCHANGED vars PROVE SchedulerIInv'
  BY <1>0, <1>17, <1>E DEF vars, waits
<1>18. ASSUME NEW r \in Runners, RunOnce(r) PROVE SchedulerIInv'
  <2>1. CASE FetchFails(r)
    BY <1>10, <2>1 DEF FetchFails
  <2>. QED BY <1>11, <1>12, <1>13, <1>14, <1>15, <1>16, <1>18, <2>1 DEF RunOnce
<1>19. ASSUME Running PROVE SchedulerIInv'
  BY <1>2, <1>6, <1>7, <1>19 DEF Running
<1>20. ASSUME NEW c \in Names, Loop(c) PROVE SchedulerIInv'
  BY <1>8, <1>9, <1>20 DEF Loop
<1>. QED BY <1>1, <1>3, <1>4, <1>5, <1>17, <1>18, <1>19, <1>20 DEF Next

\* Types; no cycle is ever run by two goroutines at once, the run at start by main included,
\* and the items that every answer of the API lists are stored from one answer, whatever
\* fails between the statements of its transaction.
THEOREM CyclesDoNotOverlap == Spec => []SchedulerInv
<1>1. SchedulerIInv => SchedulerInv
  BY OverlapFollows
<1>. QED BY <1>1, SchedulerInit, SchedulerStep, PTL DEF Spec

=============================================================================
