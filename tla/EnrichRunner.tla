---------------------------- MODULE EnrichRunner ----------------------------
(***************************************************************************)
(* cmd/enricher: at start an optional run over local files and an optional *)
(* run over the remote ones, then a run at every tick of a ticker.  A run  *)
(* visits the sources in dependency order; a gate in Redis skips a source  *)
(* whose last success is younger than the interval.  The remote files are  *)
(* published in versions: version n + 1 adds rows to those of version n.   *)
(*                                                                         *)
(* Time passes in ticks.  The process may be killed and started again, and *)
(* any call to Redis, HTTP or Postgres may fail.                           *)
(***************************************************************************)
EXTENDS Integers, Sequences, FiniteSetsExt

CONSTANTS
    Order,              \* the sources in the order of NewRunner, see DependencySort
    Interval,           \* ENRICH_INTERVAL, period of the ticker and MinAge of the gate
    RunAtStart, LocalDir, ForceBootstrap,   \* ENRICH_RUN_AT_START, _LOCAL_DIR, _FORCE_BOOTSTRAP
    MaxVersion,         \* bound: remote versions; the local files are of version 1
    MaxFaults,          \* bound: failed calls and kills
    MaxRunTicks,        \* bound: ticks a run takes
    Watched             \* the positions of Order whose staleness the ghost follows

\* The sources: what they depend on, whether a failure aborts the run, and the
\* tables they write, one transaction each.
Heroes == [name |-> "heroes", critical |-> TRUE, deps |-> <<>>, writes |-> <<"heroes">>]
Abilities == [name |-> "abilities", critical |-> TRUE, deps |-> <<>>, writes |-> <<"abilities">>]
AbilityIDs == [name |-> "ability_ids", critical |-> FALSE, deps |-> <<"abilities">>, writes |-> <<"ability_ids">>]
HeroAbilities == [name |-> "hero_abilities", critical |-> TRUE, deps |-> <<"heroes">>,
                  writes |-> <<"hero_abilities", "hero_talents", "hero_facets">>]
GameModes == [name |-> "game_mode", critical |-> FALSE, deps |-> <<>>, writes |-> <<"game_modes">>]
LobbyTypes == [name |-> "lobby_type", critical |-> FALSE, deps |-> <<>>, writes |-> <<"lobby_types">>]
Regions == [name |-> "region", critical |-> FALSE, deps |-> <<>>, writes |-> <<"regions">>]
Items == [name |-> "items", critical |-> TRUE, deps |-> <<>>, writes |-> <<"items">>]
ItemIDs == [name |-> "item_ids", critical |-> FALSE, deps |-> <<"items">>, writes |-> <<"item_ids">>]
Patches == [name |-> "patch", critical |-> TRUE, deps |-> <<>>, writes |-> <<"patches">>]

buildSources == <<Heroes, Abilities, AbilityIDs, HeroAbilities, GameModes, LobbyTypes,
                  Regions, Items, ItemIDs, Patches>>

Index == DOMAIN Order
Tables == UNION {{Order[i].writes[m] : m \in DOMAIN Order[i].writes} : i \in Index}
\* Tables with foreign keys to heroes and abilities.
Referring == {"hero_abilities", "hero_talents", "hero_facets"}
LocalVersion == 1

\* No two sources write the same table (buildSources).  A watched source and those before
\* it refer to nothing: without a fault none of them fails.
ASSUME ConstantsAssumption ==
    /\ Order \in Seq({Order[i] : i \in Index}) \ {<<>>}
    /\ \A i \in Index : Order[i].writes \in Seq(Tables) \ {<<>>} /\ Order[i].critical \in BOOLEAN
    /\ \A a, b \in Index : \A m \in DOMAIN Order[a].writes : \A n \in DOMAIN Order[b].writes :
        Order[a].writes[m] = Order[b].writes[n] => a = b /\ m = n
    /\ Interval \in Nat \ {0} /\ MaxVersion \in Nat \ {0} /\ MaxFaults \in Nat
    /\ {RunAtStart, LocalDir, ForceBootstrap} \subseteq BOOLEAN
    /\ MaxRunTicks \in 0 .. Interval - 1
    /\ Watched \subseteq Index
    /\ \A i \in Watched : \A n \in 1 .. i : \A m \in DOMAIN Order[n].writes : Order[n].writes[m] \notin Referring

VARIABLES
    phase,     \* "down", "local" and "main" runs, "wait"
    k, step, j,         \* the source of the run, where in runOne, the table it writes
    fetched,            \* version of the file that was fetched
    elapsed,            \* ticks since the source started
    spent,              \* ticks since the run started
    age,                \* per source: ticks since the time its gate key holds, at most Interval
    stored,             \* per table: version of the rows last upserted
    known,              \* per table: highest version whose rows it has (nothing is deleted)
    upstream,           \* version of the remote files
    ticker, due,        \* ticks to the next tick of the ticker, a tick is in its channel
    faults,
    since               \* ghost, per source: ticks since its last success with remote files began

process == <<phase, k, step, j, fetched, elapsed, spent>>
database == <<stored, known>>
clocks == <<ticker, due>>
vars == <<process, age, database, upstream, clocks, faults, since>>

Never == -1
StaleBound == 2 * Interval + MaxRunTicks

Init ==
    /\ phase = "down" /\ k = 1 /\ step = "gate" /\ j = 1
    /\ fetched = 0 /\ elapsed = 0 /\ spent = 0
    /\ age = [i \in Index |-> Interval]
    /\ stored = [t \in Tables |-> 0] /\ known = [t \in Tables |-> 0]
    /\ upstream = 1
    /\ ticker = Interval /\ due = FALSE
    /\ faults = 0
    /\ since = [i \in Watched |-> Never]

Running == phase \in {"local", "main"}
Src == Order[k]
Fault == faults < MaxFaults /\ faults' = faults + 1

\* A run begins at the first source.
Begin(p) == phase' = p /\ k' = 1 /\ step' = "gate" /\ j' = 1 /\ fetched' = 0 /\ elapsed' = 0 /\ spent' = 0

\* The ticker is created when the runs at start are over.
Loop == Begin("wait") /\ (IF ticker = 0 THEN ticker' = Interval ELSE UNCHANGED ticker) /\ UNCHANGED due

\* Mutant of EndRun: the process is taken for one without an interval.
EndRunExits ==
    \/ phase = "local" /\ RunAtStart /\ Begin("main") /\ UNCHANGED clocks
    \/ phase = "local" /\ ~RunAtStart /\ Loop
    \/ phase = "main" /\ Begin("exited") /\ UNCHANGED clocks

\* An error of a run is logged: after the local run comes the remote one.
EndRun ==
    \/ phase = "local" /\ RunAtStart /\ Begin("main") /\ UNCHANGED clocks
    \/ (phase = "main" \/ ~RunAtStart) /\ Loop

NextSource ==
    \/ /\ k < Len(Order)
       /\ k' = k + 1 /\ step' = "gate" /\ j' = 1 /\ fetched' = 0 /\ elapsed' = 0
       /\ UNCHANGED <<phase, spent, clocks>>
    \/ k = Len(Order) /\ EndRun

-----------------------------------------------------------------------------
\* main after the wait for proxies and Postgres; the ticker does not run yet.
Start ==
    /\ phase = "down"
    /\ CASE LocalDir -> Begin("local") /\ ticker' = 0
         [] ~LocalDir /\ RunAtStart -> Begin("main") /\ ticker' = 0
         [] OTHER -> Begin("wait") /\ ticker' = Interval
    /\ due' = FALSE
    /\ UNCHANGED <<age, database, upstream, faults, since>>

RunDue ==
    /\ phase = "wait" /\ due
    /\ Begin("main") /\ due' = FALSE
    /\ UNCHANGED <<ticker, age, database, upstream, faults, since>>

\* The key is absent, or the time it holds is at least MinAge ago.
Expired(i) == age[i] >= Interval

\* runOne: the gate is asked.  On an error of the gate the source is skipped.
ShouldRun ==
    /\ Running /\ step = "gate"
    /\ \/ /\ Expired(k) \/ ForceBootstrap
          /\ step' = "fetch" /\ elapsed' = 0
          /\ UNCHANGED <<phase, k, j, fetched, spent, clocks, faults>>
       \/ ~Expired(k) /\ ~ForceBootstrap /\ NextSource /\ UNCHANGED faults
       \/ ~ForceBootstrap /\ Fault /\ NextSource
    /\ UNCHANGED <<age, database, upstream, since>>

\* Mutant of SourceFails: the run of a failed source is recorded as well.
SourceFailsRecorded ==
    /\ age' = [age EXCEPT ![k] = elapsed]
    /\ IF Src.critical THEN EndRun ELSE NextSource

\* A failed source is not recorded; it ends the run if it is critical.
SourceFails ==
    /\ IF Src.critical THEN EndRun ELSE NextSource
    /\ UNCHANGED age

\* fetchJSON over the file client or the proxied one.
Fetch ==
    /\ Running /\ step = "fetch"
    /\ fetched' = IF phase = "local" THEN LocalVersion ELSE upstream
    /\ step' = "write"
    /\ UNCHANGED <<phase, k, j, elapsed, spent, age, database, upstream, clocks, faults, since>>

\* Foreign keys: rows of version v name heroes and abilities of version v.  UpsertAbilityIDs
\* also inserts a row for an ability that is not there yet.
Has(t, v) == t \in Tables => known[t] >= v
HasAbilities(v) == Has("abilities", v) \/ ("ability_ids" \in Tables /\ known["ability_ids"] >= v)
ForeignKeysOK(t, v) ==
    /\ t \in Referring => Has("heroes", v)
    /\ t \in {"hero_abilities", "hero_talents"} => HasAbilities(v)

\* One Upsert of the writer commits.
Write ==
    /\ Running /\ step = "write"
    /\ LET t == Src.writes[j] IN
        /\ ForeignKeysOK(t, fetched)
        /\ stored' = [stored EXCEPT ![t] = fetched]
        /\ known' = [known EXCEPT ![t] = Max({@, fetched})]
    /\ IF j < Len(Src.writes) THEN j' = j + 1 /\ UNCHANGED step ELSE step' = "record" /\ UNCHANGED j
    /\ UNCHANGED <<phase, k, fetched, elapsed, spent, age, upstream, clocks, faults, since>>

\* The fetch or a transaction fails; the tables written before stay written.
CallFails ==
    /\ Running
    /\ \/ step \in {"fetch", "write"} /\ Fault
       \/ step = "write" /\ ~ForeignKeysOK(Src.writes[j], fetched) /\ UNCHANGED faults
    /\ SourceFails
    /\ UNCHANGED <<database, upstream, since>>

\* Mutant of RecordRun: the time the source ended.
RecordRunNow == IF ForceBootstrap THEN UNCHANGED age ELSE age' = [age EXCEPT ![k] = 0]

\* The key holds the time the source started; the gate Always records nothing.
RecordRun == IF ForceBootstrap THEN UNCHANGED age ELSE age' = [age EXCEPT ![k] = elapsed]

\* A failure to record is logged.
Succeed ==
    /\ Running /\ step = "record"
    /\ \/ RecordRun /\ UNCHANGED faults
       \/ Fault /\ UNCHANGED age
    /\ since' = IF phase = "main" /\ k \in Watched THEN [since EXCEPT ![k] = elapsed] ELSE since
    /\ NextSource
    /\ UNCHANGED <<database, upstream>>

-----------------------------------------------------------------------------
Kill ==
    /\ phase # "down" /\ Fault
    /\ Begin("down") /\ ticker' = 0 /\ due' = FALSE
    /\ UNCHANGED <<age, database, upstream, since>>

Publish ==
    /\ upstream < MaxVersion /\ upstream' = upstream + 1
    /\ UNCHANGED <<process, age, database, clocks, faults, since>>

\* Time passes.  A tick that finds the channel full is dropped.
Tick ==
    /\ phase # "down" /\ ~(phase = "wait" /\ due)
    /\ Running => spent < MaxRunTicks
    /\ IF Running THEN spent' = spent + 1 /\ elapsed' = elapsed + 1 ELSE UNCHANGED <<spent, elapsed>>
    /\ age' = [i \in Index |-> Min({age[i] + 1, Interval})]
    /\ since' = [i \in Watched |-> IF since[i] = Never THEN Never ELSE Min({since[i] + 1, StaleBound + 1})]
    /\ CASE ticker = 0 -> UNCHANGED clocks
         [] ticker = 1 -> ticker' = Interval /\ due' = TRUE
         [] OTHER -> ticker' = ticker - 1 /\ UNCHANGED due
    /\ UNCHANGED <<phase, k, step, j, fetched, database, upstream, faults>>

System == Start \/ RunDue \/ ShouldRun \/ Fetch \/ Write \/ CallFails \/ Succeed
Next == System \/ Kill \/ Publish \/ Tick
Spec == Init /\ [][Next]_vars

\* The process is restarted by its supervisor, takes its steps, and time goes on.
Fairness ==
    /\ WF_vars(Start) /\ WF_vars(RunDue) /\ WF_vars(ShouldRun) /\ WF_vars(Fetch)
    /\ WF_vars(Write \/ CallFails) /\ WF_vars(Succeed) /\ WF_vars(Tick)

FairSpec == Spec /\ Fairness

-----------------------------------------------------------------------------
(* Properties.                                                             *)

\* Types.  The rows a table was given last are among those it has.
TypeOK ==
    /\ phase \in {"down", "local", "main", "wait"}
    /\ k \in Index /\ j \in DOMAIN Src.writes /\ step \in {"gate", "fetch", "write", "record"}
    /\ fetched \in 0 .. upstream /\ upstream \in 1 .. MaxVersion
    /\ spent \in 0 .. MaxRunTicks /\ elapsed \in 0 .. spent
    /\ age \in [Index -> 0 .. Interval] /\ since \in [Watched -> Never .. StaleBound + 1]
    /\ \A t \in Tables : 0 <= stored[t] /\ stored[t] <= known[t] /\ known[t] <= upstream
    /\ ticker \in 0 .. Interval /\ due \in BOOLEAN /\ faults \in 0 .. MaxFaults

\* A source the gate would skip is whole: all tables it writes hold the same version,
\* although each is written by a transaction of its own and any of them may fail.
KeyedIsWhole ==
    \A i \in Index : ~Expired(i) =>
        \A m, n \in DOMAIN Order[i].writes : stored[Order[i].writes[m]] = stored[Order[i].writes[n]]

\* Types, and no failure or kill leaves a half-written source behind a gate key.
EnrichInv == TypeOK /\ KeyedIsWhole

\* The ticker and the gate have the same period and the key holds the start of the
\* source, so a source that is reached earlier in its run than the time before is skipped
\* once, but never twice: as long as nothing fails remote data is younger than two
\* intervals and the length of a run.
StalenessBounded == faults = 0 => \A i \in Watched : since[i] < StaleBound

\* What makes EnrichInv inductive.  A source that is at work has an expired key, and what
\* it has written so far is of the version it fetched.
AtWork ==
    /\ stored \in [Tables -> Nat] /\ known \in [Tables -> Nat]
    /\ step # "gate" => Running /\ Expired(k)
    /\ step \in {"gate", "fetch"} => j = 1
    /\ step = "write" => \A m \in 1 .. j - 1 : stored[Src.writes[m]] = fetched
    /\ step = "record" => \A m \in DOMAIN Src.writes : stored[Src.writes[m]] = fetched
    /\ ForceBootstrap => \A i \in Index : Expired(i)

EnrichIInv == EnrichInv /\ AtWork

\* Ticks since the last run began, or since the ticker was created.
SinceRun == IF phase = "main" THEN spent ELSE IF due THEN Interval ELSE Interval - ticker

\* What makes StalenessBounded inductive.  As long as nothing fails, runs and ticks of the
\* ticker coincide, and when a run has passed a source its data are younger than one
\* interval more than the run; only the next run lets them become older.
Punctual ==
    /\ phase \in {"down", "local"} => ~due /\ \A i \in Watched : since[i] = Never
    /\ phase = "local" => ticker = 0
    /\ phase = "main" => ~due /\ (ticker = 0 \/ ticker + spent = Interval)
    /\ phase = "wait" => ticker > 0 /\ (due => ticker = Interval)
    /\ \A i \in Watched :
        /\ ~Expired(i) => since[i] <= age[i]
        /\ phase = "main" /\ ticker = 0 => since[i] <= spent
        /\ phase \in {"main", "wait"} =>
            since[i] < SinceRun + Interval + (IF phase = "main" /\ k <= i THEN Interval ELSE 0)

StaleInv == faults = 0 => Punctual

\* Once calls stop failing and no version is published any more, every table gets the
\* last one: a version whose rows refer to rows a skipped source has not loaded yet fails
\* and aborts the run, but not for ever.
Converges == <>[](\A t \in Tables : stored[t] = upstream)

=============================================================================
