--------------------------- MODULE MatchStoreProofs ---------------------------
(***************************************************************************)
(* Proofs about MatchStore, for any payloads, workers and number of calls: *)
(* transactions of many statements ingest each payload whole or not at     *)
(* all, a retry changes nothing, a match called parsed has a row under     *)
(* every key of a parsed payload, every row is one of a payload, and a     *)
(* call that returned nil has left a row under each of its keys.           *)
(***************************************************************************)
EXTENDS MatchStore, TLAPS

Tables == Parts \union {"root"}

\* The statement that writes a table, by its place in IngestMatch.
Written == <<"root", "players", "details", "picks_bans", "draft_timings", "advantages",
             "objectives", "chat", "teamfights", "cosmetics", "timeseries">>

\* What an ingestion makes of one table, given the table.
Root(r, p) ==
    IF r.parsed /\ ~p.parsed THEN r
    ELSE [parsed |-> r.parsed \/ p.parsed, scores |-> p.version,
          replay |-> IF p.replay THEN p.version ELSE r.replay]
Table(t, tab, p) ==
    CASE t = "root" -> Root(tab, p)
      [] t \in {"advantages", "cosmetics"} -> DoUpdate(tab, p, t)
      [] t \in {"objectives", "chat", "teamfights"} -> Replace(tab, p, t)
      [] OTHER -> DoNothing(tab, p, t)

-----------------------------------------------------------------------------
(* What the statements do.                                                 *)

\* The recursion of After: statement i works on what the first i - 1 left.
LEMMA AfterSteps ==
  ASSUME NEW d, NEW p
  PROVE  /\ After(d, p, 0) = d
         /\ \A i \in 1 .. Statements(p) : After(d, p, i) = Execute(i, After(d, p, i - 1), p)
<1> DEFINE n == Statements(p)
           S(f, i) == IF i = 0 THEN d ELSE Execute(i, f[i - 1], p)
           Is(f, m) == f = [i \in 0 .. m |-> S(f, i)]
           E(m) == \E f : Is(f, m)
           k == CHOOSE f : Is(f, n)
<1>0. n \in {2, 11}
  BY DEF Statements
<1>1. E(0)
  <2>1. Is([i \in 0 .. 0 |-> d], 0)
    OBVIOUS
  <2>. QED BY <2>1
<1>2. ASSUME NEW m \in Nat, E(m) PROVE E(m + 1)
  <2>1. PICK f : Is(f, m)
    BY <1>2
  <2> DEFINE g == [i \in 0 .. m + 1 |-> IF i <= m THEN f[i] ELSE S(f, m + 1)]
  <2>2. ASSUME NEW i \in 0 .. m + 1 PROVE g[i] = S(g, i)
    <3>1. CASE i = 0
      BY <2>1, <3>1
    <3>2. CASE i # 0 /\ i <= m
      <4>1. i \in 0 .. m /\ i - 1 \in 0 .. m
        BY <3>2
      <4>2. f[i] = S(f, i)
        <5> HIDE DEF S
        <5>. QED BY <2>1, <4>1
      <4>3. g[i] = f[i] /\ g[i - 1] = f[i - 1]
        BY <3>2, <4>1
      <4>. QED BY <3>2, <4>2, <4>3
    <3>3. CASE i = m + 1
      <4>1. g[i] = S(f, i) /\ g[i - 1] = f[i - 1]
        BY <3>3
      <4>. QED BY <3>3, <4>1
    <3>. QED BY <3>1, <3>2, <3>3
  <2>3. Is(g, m + 1)
    <3>1. g = [i \in 0 .. m + 1 |-> g[i]]
      OBVIOUS
    <3> HIDE DEF g, S
    <3>. QED BY <2>2, <3>1
  <2> HIDE DEF g, Is
  <2>. QED BY <2>3
<1>3. E(n)
  <2> HIDE DEF E
  <2>1. E(1) /\ E(2)
    BY <1>1, <1>2
  <2>2. E(3) /\ E(4) /\ E(5)
    BY <1>2, <2>1
  <2>3. E(6) /\ E(7) /\ E(8)
    BY <1>2, <2>2
  <2>4. E(9) /\ E(10) /\ E(11)
    BY <1>2, <2>3
  <2>. QED BY <1>0, <2>1, <2>4
<1>4. Is(k, n)
  BY <1>3
<1>5. \A i : After(d, p, i) = k[i]
  BY DEF After
<1> HIDE DEF k
<1>6. \A i \in 0 .. n : k[i] = S(k, i)
  <2> HIDE DEF S
  <2>. QED BY <1>4
<1>. QED BY <1>0, <1>5, <1>6

\* A statement writes one table and leaves the others.
LEMMA ExecuteEffect ==
  ASSUME NEW d, DOMAIN d = Tables, NEW p, NEW i \in 1 .. 11
  PROVE  /\ DOMAIN Execute(i, d, p) = Tables
         /\ \A t \in Tables : Execute(i, d, p)[t] = IF t = Written[i] THEN Table(t, d[t], p) ELSE d[t]
<1> DEFINE Writes(n, e) == /\ DOMAIN e = Tables
                           /\ \A t \in Tables : e[t] = IF t = n THEN Table(t, d[t], p) ELSE d[t]
<1>T. \A t : t \in Tables <=> t \in {"root", "players", "details", "picks_bans", "draft_timings",
          "advantages", "objectives", "chat", "teamfights", "cosmetics", "timeseries"}
  BY DEF Tables, Parts
<1>W. \A n \in Tables : \A x : x = Table(n, d[n], p) => Writes(n, [d EXCEPT ![n] = x])
  <2> HIDE DEF Tables, Table
  <2>. QED OBVIOUS
<1>1. CASE i = 1
  <2>1. Execute(i, d, p) = upsertMatchRoot(d, p) /\ Written[i] = "root"
    BY <1>1 DEF Execute, Written
  <2>2. Table("root", d["root"], p) = Root(d["root"], p)
    BY DEF Table
  <2>3. CASE d.root.parsed /\ ~p.parsed
    BY <1>T, <2>1, <2>2, <2>3 DEF upsertMatchRoot, Root
  <2>4. CASE ~(d.root.parsed /\ ~p.parsed)
    BY <1>T, <1>W, <2>1, <2>2, <2>4 DEF upsertMatchRoot, Root
  <2>. QED BY <2>3, <2>4
<1>2. CASE i = 2
  <2>1. Execute(i, d, p) = upsertPlayers(d, p) /\ Written[i] = "players"
    BY <1>2 DEF Execute, Written
  <2>2. Table("players", d["players"], p) = DoNothing(d["players"], p, "players")
    BY DEF Table
  <2>. QED BY <1>T, <1>W, <2>1, <2>2 DEF upsertPlayers
<1>3. CASE i = 3
  <2>1. Execute(i, d, p) = upsertPlayerDetails(d, p) /\ Written[i] = "details"
    BY <1>3 DEF Execute, Written
  <2>2. Table("details", d["details"], p) = DoNothing(d["details"], p, "details")
    BY DEF Table
  <2>. QED BY <1>T, <1>W, <2>1, <2>2 DEF upsertPlayerDetails
<1>4. CASE i = 4
  <2>1. Execute(i, d, p) = upsertPicksBans(d, p) /\ Written[i] = "picks_bans"
    BY <1>4 DEF Execute, Written
  <2>2. Table("picks_bans", d["picks_bans"], p) = DoNothing(d["picks_bans"], p, "picks_bans")
    BY DEF Table
  <2>. QED BY <1>T, <1>W, <2>1, <2>2 DEF upsertPicksBans
<1>5. CASE i = 5
  <2>1. Execute(i, d, p) = upsertDraftTimings(d, p) /\ Written[i] = "draft_timings"
    BY <1>5 DEF Execute, Written
  <2>2. Table("draft_timings", d["draft_timings"], p) = DoNothing(d["draft_timings"], p, "draft_timings")
    BY DEF Table
  <2>. QED BY <1>T, <1>W, <2>1, <2>2 DEF upsertDraftTimings
<1>6. CASE i = 6
  <2>1. Execute(i, d, p) = upsertAdvantages(d, p) /\ Written[i] = "advantages"
    BY <1>6 DEF Execute, Written
  <2>2. Table("advantages", d["advantages"], p) = DoUpdate(d["advantages"], p, "advantages")
    BY DEF Table
  <2>. QED BY <1>T, <1>W, <2>1, <2>2 DEF upsertAdvantages
<1>7. CASE i = 7
  <2>1. Execute(i, d, p) = replaceObjectives(d, p) /\ Written[i] = "objectives"
    BY <1>7 DEF Execute, Written
  <2>2. Table("objectives", d["objectives"], p) = Replace(d["objectives"], p, "objectives")
    BY DEF Table
  <2>. QED BY <1>T, <1>W, <2>1, <2>2 DEF replaceObjectives
<1>8. CASE i = 8
  <2>1. Execute(i, d, p) = replaceChat(d, p) /\ Written[i] = "chat"
    BY <1>8 DEF Execute, Written
  <2>2. Table("chat", d["chat"], p) = Replace(d["chat"], p, "chat")
    BY DEF Table
  <2>. QED BY <1>T, <1>W, <2>1, <2>2 DEF replaceChat
<1>9. CASE i = 9
  <2>1. Execute(i, d, p) = replaceTeamfights(d, p) /\ Written[i] = "teamfights"
    BY <1>9 DEF Execute, Written
  <2>2. Table("teamfights", d["teamfights"], p) = Replace(d["teamfights"], p, "teamfights")
    BY DEF Table
  <2>. QED BY <1>T, <1>W, <2>1, <2>2 DEF replaceTeamfights
<1>10. CASE i = 10
  <2>1. Execute(i, d, p) = upsertCosmetics(d, p) /\ Written[i] = "cosmetics"
    BY <1>10 DEF Execute, Written
  <2>2. Table("cosmetics", d["cosmetics"], p) = DoUpdate(d["cosmetics"], p, "cosmetics")
    BY DEF Table
  <2>. QED BY <1>T, <1>W, <2>1, <2>2 DEF upsertCosmetics
<1>11. CASE i = 11
  <2>1. Execute(i, d, p) = upsertTimeseries(d, p) /\ Written[i] = "timeseries"
    BY <1>11 DEF Execute, Written
  <2>2. Table("timeseries", d["timeseries"], p) = DoNothing(d["timeseries"], p, "timeseries")
    BY DEF Table
  <2>. QED BY <1>T, <1>W, <2>1, <2>2 DEF upsertTimeseries
<1>. QED BY <1>1, <1>2, <1>3, <1>4, <1>5, <1>6, <1>7, <1>8, <1>9, <1>10, <1>11

LEMMA WrittenOnce ==
  /\ \A i \in 1 .. 11 : Written[i] \in Tables
  /\ \A i, j \in 1 .. 11 : Written[i] = Written[j] => i = j
  /\ \A t \in Tables : \E i \in 1 .. 11 : Written[i] = t
  /\ \A i \in 1 .. 11 : i <= 2 <=> Written[i] \in {"root", "players"}
<1>1. /\ Written[1] = "root" /\ Written[2] = "players" /\ Written[3] = "details"
      /\ Written[4] = "picks_bans" /\ Written[5] = "draft_timings" /\ Written[6] = "advantages"
      /\ Written[7] = "objectives" /\ Written[8] = "chat" /\ Written[9] = "teamfights"
      /\ Written[10] = "cosmetics" /\ Written[11] = "timeseries"
  BY DEF Written
<1>2. \A i \in 1 .. 11 : i \in {1, 2, 3, 4, 5, 6, 7, 8, 9, 10, 11}
  OBVIOUS
<1>3. \A i \in 1 .. 11 : Written[i] \in Tables
  BY <1>1, <1>2 DEF Tables, Parts
<1>4. \A i, j \in 1 .. 11 : Written[i] = Written[j] => i = j
  BY <1>1, <1>2
<1>5. \A t \in Tables : \E i \in 1 .. 11 : Written[i] = t
  BY <1>1 DEF Tables, Parts
<1>6. \A i \in 1 .. 11 : i <= 2 <=> Written[i] \in {"root", "players"}
  BY <1>1, <1>2
<1>. QED BY <1>3, <1>4, <1>5, <1>6

\* What the first statements have made of each table.
LEMMA AfterEffect ==
  ASSUME NEW d, DOMAIN d = Tables, NEW p
  PROVE  \A n \in 0 .. Statements(p) :
           /\ DOMAIN After(d, p, n) = Tables
           /\ \A t \in Tables : After(d, p, n)[t] =
                IF \E i \in 1 .. n : Written[i] = t THEN Table(t, d[t], p) ELSE d[t]
<1> DEFINE A(n) == After(d, p, n)
           Is(n) == /\ DOMAIN A(n) = Tables
                    /\ \A t \in Tables : A(n)[t] =
                         IF \E i \in 1 .. n : Written[i] = t THEN Table(t, d[t], p) ELSE d[t]
           N == Statements(p)
<1>0. N \in {2, 11} /\ A(0) = d /\ \A i \in 1 .. N : A(i) = Execute(i, A(i - 1), p)
  BY AfterSteps DEF Statements
<1> HIDE DEF A, N
<1>1. Is(0)
  BY <1>0
<1>2. ASSUME NEW n \in Nat, n < N, Is(n) PROVE Is(n + 1)
  <2> DEFINE m == n + 1
  <2>1. m \in 1 .. 11 /\ m \in 1 .. N /\ m - 1 = n /\ n \in 0 .. 10
    BY <1>0, <1>2
  <2>2. A(m) = Execute(m, A(n), p)
    BY <1>0, <2>1
  <2>3. \A i : i \in 1 .. m <=> i \in 1 .. n \/ i = m
    BY <2>1
  <2> HIDE DEF m
  <2>4. /\ DOMAIN A(m) = Tables
        /\ \A t \in Tables : A(m)[t] = IF t = Written[m] THEN Table(t, A(n)[t], p) ELSE A(n)[t]
    BY <1>2, <2>1, <2>2, ExecuteEffect
  <2>5. \A i \in 1 .. n : Written[i] # Written[m]
    <3>1. \A i \in 1 .. n : i \in 1 .. 11 /\ i # m
      BY <2>1
    <3>. QED BY <2>1, <3>1, WrittenOnce
  <2>6. ASSUME NEW t \in Tables
        PROVE  A(m)[t] = IF \E i \in 1 .. m : Written[i] = t THEN Table(t, d[t], p) ELSE d[t]
    BY <1>2, <2>3, <2>4, <2>5
  <2>. QED BY <2>4, <2>6 DEF m
<1>3. \A n \in 0 .. N : Is(n)
  <2> HIDE DEF Is
  <2>1. Is(1) /\ Is(2)
    BY <1>0, <1>1, <1>2
  <2>2. N = 11 => Is(3) /\ Is(4) /\ Is(5)
    BY <1>2, <2>1
  <2>3. N = 11 => Is(6) /\ Is(7) /\ Is(8)
    BY <1>2, <2>2
  <2>4. N = 11 => Is(9) /\ Is(10) /\ Is(11)
    BY <1>2, <2>3
  <2>. QED BY <1>0, <1>1, <2>1, <2>2, <2>3, <2>4
<1>. QED BY <1>3 DEF A, N

\* What an ingestion makes of each table.
LEMMA IngestedEffect ==
  ASSUME NEW d, DOMAIN d = Tables, NEW p
  PROVE  /\ DOMAIN Ingested(d, p) = Tables
         /\ \A t \in Tables : Ingested(d, p)[t] =
              IF p.parsed \/ t \in {"root", "players"} THEN Table(t, d[t], p) ELSE d[t]
<1> DEFINE N == Statements(p)
<1>1. N \in {2, 11} /\ (p.parsed => N = 11) /\ (~p.parsed => N = 2)
  BY DEF Statements
<1>2. /\ DOMAIN Ingested(d, p) = Tables
      /\ \A t \in Tables : Ingested(d, p)[t] =
           IF \E i \in 1 .. N : Written[i] = t THEN Table(t, d[t], p) ELSE d[t]
  BY <1>1, AfterEffect DEF Ingested
<1>3. \A t \in Tables : (\E i \in 1 .. N : Written[i] = t) <=> p.parsed \/ t \in {"root", "players"}
  <2> HIDE DEF N
  <2>1. CASE p.parsed
    BY <1>1, <2>1, WrittenOnce
  <2>2. CASE ~p.parsed
    <3>1. \A i \in 1 .. 11 : i \in 1 .. N <=> i <= 2
      BY <1>1, <2>2
    <3>2. \A i \in 1 .. N : i \in 1 .. 11
      BY <1>1
    <3>. QED BY <2>2, <3>1, <3>2, WrittenOnce
  <2>. QED BY <2>1, <2>2
<1>. QED BY <1>2, <1>3

-----------------------------------------------------------------------------
(* Retries.                                                                *)

LEMMA OverAgain ==
  ASSUME NEW F, NEW x
  PROVE  Over(F, Over(F, x)) = Over(F, x) /\ Over(Over(x, F), F) = Over(x, F)
<1> DEFINE g == Over(F, x)  h == Over(x, F)  D == DOMAIN F \union DOMAIN x
<1>1. DOMAIN g = D /\ g = [k \in D |-> g[k]] /\ \A k \in DOMAIN F : g[k] = F[k]
  BY DEF Over
<1>2. DOMAIN h = D /\ h = [k \in D |-> h[k]]
  BY DEF Over
<1> HIDE DEF g, h
<1>3. Over(F, g) = [k \in D |-> g[k]]
  <2>1. DOMAIN F \union DOMAIN g = D
    BY <1>1
  <2>2. \A k \in D : (IF k \in DOMAIN F THEN F[k] ELSE g[k]) = g[k]
    BY <1>1
  <2> HIDE DEF D
  <2>. QED BY <2>1, <2>2 DEF Over
<1>4. Over(h, F) = [k \in D |-> h[k]]
  <2>1. DOMAIN h \union DOMAIN F = D
    BY <1>2
  <2>2. \A k \in D : (IF k \in DOMAIN h THEN h[k] ELSE F[k]) = h[k]
    BY <1>2
  <2> HIDE DEF D
  <2>. QED BY <2>1, <2>2 DEF Over
<1>. QED BY <1>1, <1>2, <1>3, <1>4 DEF g, h

\* Storing the rows of a payload in a table again changes nothing.
LEMMA TableAgain ==
  ASSUME NEW t \in Tables, NEW tab, NEW p, p.parsed \in BOOLEAN
  PROVE  Table(t, Table(t, tab, p), p) = Table(t, tab, p)
<1>1. CASE t = "root"
  <2>1. \A x : Table(t, x, p) = Root(x, p)
    BY <1>1 DEF Table
  <2>2. Root(Root(tab, p), p) = Root(tab, p)
    BY DEF Root
  <2>. QED BY <2>1, <2>2
<1>2. CASE t \in {"advantages", "cosmetics"}
  <2>1. \A x : Table(t, x, p) = DoUpdate(x, p, t)
    BY <1>2 DEF Table
  <2>. QED BY <2>1, OverAgain DEF DoUpdate
<1>3. CASE t \in {"objectives", "chat", "teamfights"}
  <2>1. \A x : Table(t, x, p) = Replace(x, p, t)
    BY <1>3 DEF Table
  <2>. QED BY <2>1 DEF Replace
<1>4. CASE t \notin {"root", "advantages", "cosmetics", "objectives", "chat", "teamfights"}
  <2>1. \A x : Table(t, x, p) = DoNothing(x, p, t)
    BY <1>4 DEF Table
  <2>. QED BY <2>1, OverAgain DEF DoNothing
<1>. QED BY <1>1, <1>2, <1>3, <1>4

LEMMA IngestedIsFunction ==
  ASSUME NEW d, DOMAIN d = Tables, NEW p
  PROVE  Ingested(d, p) = [t \in Tables |-> Ingested(d, p)[t]]
<1> DEFINE N == Statements(p)  x == After(d, p, N - 1)
<1>1. N \in {2, 11} /\ Ingested(d, p) = Execute(N, x, p)
  BY AfterSteps, SMTT(30) DEF Statements, Ingested
<1>2. DOMAIN Ingested(d, p) = Tables
  BY IngestedEffect
<1> HIDE DEF N, x
<1>3. CASE N = 2
  <2>1. Ingested(d, p) = upsertPlayers(x, p)
    BY <1>1, <1>3 DEF Execute
  <2>. QED BY <1>2, <2>1 DEF upsertPlayers
<1>4. CASE N = 11
  <2>1. Ingested(d, p) = upsertTimeseries(x, p)
    BY <1>1, <1>4 DEF Execute
  <2>. QED BY <1>2, <2>1 DEF upsertTimeseries
<1>. QED BY <1>1, <1>3, <1>4

LEMMA IngestedAgain ==
  ASSUME NEW d, DOMAIN d = Tables, NEW p, p.parsed \in BOOLEAN
  PROVE  Ingested(Ingested(d, p), p) = Ingested(d, p)
<1> DEFINE e == Ingested(d, p)  f == Ingested(e, p)
           Touched(t) == p.parsed \/ t \in {"root", "players"}
<1>1. DOMAIN e = Tables /\ \A t \in Tables : e[t] = IF Touched(t) THEN Table(t, d[t], p) ELSE d[t]
  BY IngestedEffect
<1>2. e = [t \in Tables |-> e[t]]
  BY IngestedIsFunction
<1> HIDE DEF e
<1>3. \A t \in Tables : f[t] = IF Touched(t) THEN Table(t, e[t], p) ELSE e[t]
  BY <1>1, IngestedEffect
<1>4. f = [t \in Tables |-> f[t]]
  BY <1>1, IngestedIsFunction
<1> HIDE DEF f, Touched
<1>5. ASSUME NEW t \in Tables PROVE f[t] = e[t]
  BY <1>1, <1>3, TableAgain
<1>6. f = e
  BY <1>2, <1>4, <1>5
<1>. QED BY <1>6 DEF f, e

-----------------------------------------------------------------------------
(* What is stored stays.                                                   *)

\* Events that are there are replaced as a whole.
LEMMA EventsReplaced ==
  ASSUME NEW t \in Events, NEW tab, NEW p, p.rows[t] # {}
  PROVE  Table(t, tab, p) = From(p, t)
<1>1. t # "root" /\ t \notin {"advantages", "cosmetics"} /\ t \in {"objectives", "chat", "teamfights"}
  BY DEF Events
<1>2. Table(t, tab, p) = Replace(tab, p, t)
  BY <1>1 DEF Table
<1>. QED BY <1>2 DEF Replace

\* What an ingestion leaves in a table: a row under each key of the payload, its own where
\* rows are overwritten; each row is its own or was there; all but the events keep theirs.
LEMMA TableGrows ==
  ASSUME NEW t \in Parts, NEW tab, NEW p
  PROVE  LET e == Table(t, tab, p) IN
         /\ p.rows[t] \subseteq DOMAIN e
         /\ t \notin Events => DOMAIN tab \subseteq DOMAIN e
         /\ t \in {"advantages", "cosmetics"} => \A k \in p.rows[t] : e[k] = p.version
         /\ \A k \in DOMAIN e : \/ k \in p.rows[t] /\ e[k] = p.version
                                \/ k \in DOMAIN tab /\ e[k] = tab[k]
<1>0. t # "root" /\ {"advantages", "cosmetics"} \cap Events = {}
  BY DEF Parts, Events
<1>2. CASE t \in {"advantages", "cosmetics"}
  <2>1. Table(t, tab, p) = DoUpdate(tab, p, t)
    BY <1>0, <1>2 DEF Table
  <2>. QED BY <1>0, <1>2, <2>1 DEF DoUpdate, Over, From
<1>3. CASE t \in Events
  <2>1. Table(t, tab, p) = Replace(tab, p, t)
    BY <1>0, <1>3 DEF Table, Events
  <2>2. CASE p.rows[t] = {}
    <3>1. Table(t, tab, p) = tab
      BY <2>1, <2>2 DEF Replace
    <3>. QED BY <1>0, <1>3, <2>2, <3>1
  <2>3. CASE p.rows[t] # {}
    <3>1. Table(t, tab, p) = From(p, t)
      BY <2>1, <2>3 DEF Replace
    <3>. QED BY <1>0, <1>3, <3>1 DEF From
  <2>. QED BY <2>2, <2>3
<1>4. CASE t \notin {"advantages", "cosmetics"} \union Events
  <2>1. Table(t, tab, p) = DoNothing(tab, p, t)
    BY <1>0, <1>4 DEF Table, Events
  <2>. QED BY <1>4, <2>1 DEF DoNothing, Over, From
<1>. QED BY <1>2, <1>3, <1>4

\* An ingestion stores its payload and keeps what was stored of others.
LEMMA IngestedStores ==
  ASSUME NEW d, DOMAIN d = Tables, NEW p
  PROVE  /\ Stored(Ingested(d, p), p)
         /\ \A q : Stored(d, q) => Stored(Ingested(d, p), q)
<1> DEFINE e == Ingested(d, p)
           Kept == Parts \ Events
<1>1. DOMAIN e = Tables /\ \A t \in Tables : e[t] =
                             IF p.parsed \/ t \in {"root", "players"} THEN Table(t, d[t], p) ELSE d[t]
  BY IngestedEffect
<1> HIDE DEF e
<1>2. /\ "root" \in Tables /\ "players" \in Kept
      /\ \A t \in Kept : t \in Parts /\ t \in Tables /\ t \notin Events
  BY DEF Tables, Parts, Events
<1>3. e["root"] = Root(d["root"], p)
  BY <1>1, <1>2 DEF Table
<1>4. (p.parsed \/ d.root.parsed) => e.root.parsed
  <2> DEFINE r == d["root"]
  <2>1. CASE r.parsed /\ ~p.parsed
    BY <1>3, <2>1 DEF Root
  <2>2. CASE ~(r.parsed /\ ~p.parsed)
    <3>1. e["root"].parsed = (r.parsed \/ p.parsed)
      BY <1>3, <2>2 DEF Root
    <3>. QED BY <3>1, Zenon
  <2>. QED BY <2>1, <2>2
<1>5. \A t \in Kept : DOMAIN d[t] \subseteq DOMAIN e[t] /\ (p.parsed \/ t = "players" => p.rows[t] \subseteq DOMAIN e[t])
  <2> HIDE DEF Kept
  <2>1. ASSUME NEW t \in Kept
        PROVE  DOMAIN d[t] \subseteq DOMAIN e[t] /\ (p.parsed \/ t = "players" => p.rows[t] \subseteq DOMAIN e[t])
    BY <1>1, <1>2, <2>1, TableGrows
  <2>. QED BY <2>1
<1> DEFINE Promised(q) == IF q.parsed THEN Kept ELSE {"players"}
<1>6. Stored(e, p)
  <2>1. \A t \in Promised(p) : p.rows[t] \subseteq DOMAIN e[t]
    BY <1>2, <1>5
  <2>. QED BY <1>4, <2>1 DEF Stored
<1>7. ASSUME NEW q, Stored(d, q) PROVE Stored(e, q)
  <2>1. \A t \in Promised(q) : q.rows[t] \subseteq DOMAIN d[t]
    BY <1>7 DEF Stored
  <2>2. \A t \in Promised(q) : t \in Kept
    BY <1>2
  <2>3. \A t \in Promised(q) : q.rows[t] \subseteq DOMAIN e[t]
    <3> HIDE DEF Promised, Kept
    <3>. QED BY <1>5, <2>1, <2>2
  <2>4. q.parsed => e.root.parsed
    BY <1>4, <1>7 DEF Stored
  <2>. QED BY <2>3, <2>4 DEF Stored
<1>. QED BY <1>6, <1>7 DEF e

\* After an ingestion, a match called parsed has the rows of a parsed payload still.
LEMMA IngestedIsWhole ==
  ASSUME DOMAIN db = Tables, ParsedIsWhole, NEW p \in Payloads, db' = Ingested(db, p)
  PROVE  ParsedIsWhole'
<1> DEFINE e == db'
           Whole(q, d) == /\ \A t \in Parts : q.rows[t] \subseteq DOMAIN d[t]
                          /\ \A t \in {"advantages", "cosmetics"} : \A k \in q.rows[t] : d[t][k] = q.version
                          /\ \A t \in Events : q.rows[t] # {} => d[t] = From(q, t)
<1>1. \A t \in Tables : e[t] = IF p.parsed \/ t \in {"root", "players"} THEN Table(t, db[t], p) ELSE db[t]
  BY IngestedEffect
<1>2. /\ "root" \in Tables /\ \A t \in Parts : t \in Tables /\ t # "root"
      /\ \A t \in {"advantages", "cosmetics"} \union Events : t \in Parts /\ t # "players"
  BY DEF Tables, Parts, Events
<1>3. e["root"] = Root(db["root"], p)
  BY <1>1, <1>2 DEF Table
<1>r. ASSUME ~(db["root"].parsed /\ ~p.parsed)
      PROVE  e["root"].parsed = (db["root"].parsed \/ p.parsed)
  BY <1>3, <1>r DEF Root
<1>W. ASSUME NEW q \in Payloads, q.parsed, q.version = e["root"].scores, Whole(q, e) PROVE ParsedIsWhole'
  BY <1>W DEF ParsedIsWhole
<1>4. CASE p.parsed
  <2>1. e["root"].scores = p.version
    BY <1>3, <1>4 DEF Root
  <2>2. \A t \in Parts : e[t] = Table(t, db[t], p)
    BY <1>1, <1>2, <1>4
  <2>3. \A t \in Parts : p.rows[t] \subseteq DOMAIN e[t]
    BY <2>2, TableGrows
  <2>4. \A t \in {"advantages", "cosmetics"} : \A k \in p.rows[t] : e[t][k] = p.version
    BY <1>2, <2>2, TableGrows
  <2>5. ASSUME NEW t \in Events, p.rows[t] # {} PROVE e[t] = From(p, t)
    <3>1. t \in Parts /\ e[t] = Table(t, db[t], p)
      BY <1>2, <2>2
    <3>2. Table(t, db[t], p) = From(p, t)
      BY <2>5, EventsReplaced
    <3>. QED BY <3>1, <3>2
  <2>6. Whole(p, e)
    BY <2>3, <2>4, <2>5
  <2> HIDE DEF Whole
  <2>. QED BY <1>4, <1>W, <2>1, <2>6
<1>5. CASE ~p.parsed
  <2> SUFFICES ASSUME e["root"].parsed PROVE ParsedIsWhole'
    BY DEF ParsedIsWhole
  <2>1. db["root"].parsed
    <3>1. CASE db["root"].parsed
      BY <3>1
    <3>2. CASE ~db["root"].parsed
      <4>1. e["root"].parsed = (db["root"].parsed \/ p.parsed)
        BY <1>r, <3>2, Zenon
      <4>. QED BY <1>5, <3>2, <4>1, Zenon
    <3>. QED BY <3>1, <3>2
  <2>2. e["root"] = db["root"]
    BY <1>3, <1>5, <2>1 DEF Root
  <2>3. PICK q \in Payloads : q.parsed /\ q.version = db.root.scores /\ Whole(q, db)
    BY <2>1 DEF ParsedIsWhole
  <2>4. \A t \in Parts : t # "players" => e[t] = db[t]
    BY <1>1, <1>2, <1>5
  <2>5. \A t \in Parts : q.rows[t] \subseteq DOMAIN e[t]
    <3>1. ASSUME NEW t \in Parts, t = "players" PROVE DOMAIN db[t] \subseteq DOMAIN e[t]
      <4>1. e[t] = Table(t, db[t], p) /\ t \notin Events
        BY <1>1, <1>2, <3>1
      <4>. QED BY <4>1, TableGrows
    <3>2. ASSUME NEW t \in Parts PROVE DOMAIN db[t] \subseteq DOMAIN e[t]
      BY <2>4, <3>1
    <3>. QED BY <2>3, <3>2
  <2>6. Whole(q, e)
    <3>1. \A t \in {"advantages", "cosmetics"} \union Events : e[t] = db[t]
      BY <1>2, <2>4
    <3>. QED BY <2>3, <2>5, <3>1
  <2> HIDE DEF Whole
  <2>. QED BY <1>W, <2>2, <2>3, <2>6
<1>. QED BY <1>4, <1>5

\* After an ingestion, every row is a row of one payload still.
LEMMA IngestedRows ==
  ASSUME DOMAIN db = Tables, RowsOfPayloads, NEW p \in Payloads, db' = Ingested(db, p)
  PROVE  RowsOfPayloads'
<1> DEFINE e == db'
           Of(t, k, v) == \E q \in Payloads : /\ q.version = v /\ k \in q.rows[t]
                                              /\ t # "players" => q.parsed
<1>1. \A t \in Tables : e[t] = IF p.parsed \/ t \in {"root", "players"} THEN Table(t, db[t], p) ELSE db[t]
  BY IngestedEffect
<1>2. "root" \in Tables /\ \A t \in Parts : t \in Tables /\ t # "root"
  BY DEF Tables, Parts
<1>3. \A t \in Parts : \A k \in DOMAIN db[t] : Of(t, k, db[t][k])
  BY DEF RowsOfPayloads
<1>4. ASSUME NEW t \in Parts, NEW k \in DOMAIN e[t] PROVE Of(t, k, e[t][k])
  <2>1. CASE p.parsed \/ t = "players"
    <3>1. e[t] = Table(t, db[t], p)
      BY <1>1, <1>2, <2>1
    <3>2. \/ k \in p.rows[t] /\ e[t][k] = p.version
          \/ k \in DOMAIN db[t] /\ e[t][k] = db[t][k]
      BY <1>4, <3>1, TableGrows
    <3>3. CASE k \in p.rows[t] /\ e[t][k] = p.version
      BY <2>1, <3>3
    <3>4. CASE k \in DOMAIN db[t] /\ e[t][k] = db[t][k]
      <4> HIDE DEF Of
      <4>. QED BY <1>3, <3>4
    <3>. QED BY <3>2, <3>3, <3>4
  <2>2. CASE ~p.parsed /\ t # "players"
    <3>1. e[t] = db[t]
      BY <1>1, <1>2, <2>2
    <3> HIDE DEF Of
    <3>. QED BY <1>3, <1>4, <3>1
  <2>. QED BY <2>1, <2>2
<1>5. ASSUME ~e["root"].parsed, NEW t \in Parts \ {"players"} PROVE DOMAIN e[t] = {}
  <2>1. e["root"] = Root(db["root"], p)
    BY <1>1, <1>2 DEF Table
  <2>2. ~(db["root"].parsed /\ ~p.parsed)
    BY <1>5, <2>1 DEF Root
  <2>3. e["root"].parsed = (db["root"].parsed \/ p.parsed)
    BY <2>1, <2>2 DEF Root
  <2>4. ~db["root"].parsed /\ ~p.parsed
    BY <1>5, <2>3, Zenon
  <2>5. e[t] = db[t]
    BY <1>1, <1>2, <2>4
  <2>6. \A u \in Parts \ {"players"} : DOMAIN db[u] = {}
    BY <2>4 DEF RowsOfPayloads
  <2>. QED BY <2>5, <2>6
<1>. QED BY <1>4, <1>5 DEF RowsOfPayloads

-----------------------------------------------------------------------------
(* The transactions.                                                       *)

LEMMA StoreInit == Init => StoreIInv
<1> SUFFICES ASSUME Init PROVE StoreIInv
  OBVIOUS
<1>1. DOMAIN db = Tables /\ db["root"].parsed = FALSE
  BY DEF Init, Absent, NoRoot, Tables
<1>2. payload \in [Workers -> Payloads]
  BY ConstantsAssumption DEF Init
<1>3. \A w \in Workers : done[w] = 0 /\ pc[w] = "idle" /\ result[w] = "none" /\ lock # w
  BY ConstantsAssumption DEF Init
<1>4. \A p : Statements(p) \in Nat
  BY DEF Statements
<1>5. TypeOK
  <2>1. 0 \in 0 .. MaxIngests
    BY ConstantsAssumption
  <2>2. \A w \in Workers : done[w] <= Statements(payload[w]) /\ (done[w] > 0 <=> lock = w)
    BY <1>3, <1>4
  <2>. QED BY <1>1, <1>2, <2>1, <2>2 DEF Init, TypeOK, Tables
<1>6. ParsedIsWhole /\ OkMeansStored
  BY <1>1, <1>3 DEF ParsedIsWhole, OkMeansStored
<1>8. RowsOfPayloads
  <2>1. \A t \in Parts : DOMAIN db[t] = {}
    <3>1. ASSUME NEW t \in Parts PROVE db[t] = <<>>
      <4>1. t \in Tables /\ t # "root"
        BY DEF Tables, Parts
      <4>. QED BY <4>1 DEF Init, Absent, Tables
    <3>2. DOMAIN << >> = {}
      OBVIOUS
    <3>. QED BY <3>1, <3>2
  <2>. QED BY <2>1 DEF RowsOfPayloads
<1>7. \A w \in Workers : TxInv(w)
  BY <1>3 DEF TxInv
<1>. QED BY <1>5, <1>6, <1>7, <1>8 DEF StoreIInv, StoreInv

\* A commit stores the whole payload in one step.
LEMMA CommitIngests ==
  ASSUME StoreIInv, NEW w \in Workers, Commit(w)
  PROVE  /\ payload[w] \in Payloads /\ db' = Ingested(db, payload[w]) /\ lock = w
         /\ \A v \in Workers : v # w => done[v] = 0
<1>1. TypeOK /\ TxInv(w)
  BY DEF StoreIInv, StoreInv
<1>2. done[w] = Statements(payload[w]) /\ db' = view[w]
  BY DEF Commit
<1>3. done[w] > 0
  BY <1>2 DEF Statements
<1>4. view[w] = Ingested(db, payload[w])
  BY <1>1, <1>2, <1>3 DEF TxInv, Ingested
<1>5. payload[w] \in Payloads /\ lock = w
  BY <1>1, <1>3 DEF TypeOK
<1>6. ASSUME NEW v \in Workers, v # w PROVE done[v] = 0
  <2>1. done[v] \in Nat /\ ~(done[v] > 0)
    BY <1>1, <1>5, <1>6 DEF TypeOK
  <2>. QED BY <2>1
<1>. QED BY <1>2, <1>4, <1>5, <1>6

LEMMA StoreStep == StoreIInv /\ [Next]_vars => StoreIInv'
<1> SUFFICES ASSUME StoreIInv, [Next]_vars PROVE StoreIInv'
  OBVIOUS
<1>0. TypeOK /\ ParsedIsWhole /\ RowsOfPayloads /\ OkMeansStored /\ \A w \in Workers : TxInv(w)
  BY DEF StoreIInv, StoreInv
<1>T. /\ DOMAIN db = Tables /\ lock \in Workers \union {Nobody}
      /\ pc \in [Workers -> {"idle", "stubs", "exec"}] /\ payload \in [Workers -> Payloads]
      /\ done \in [Workers -> Nat] /\ DOMAIN view = Workers
      /\ \A w \in Workers : done[w] <= Statements(payload[w]) /\ (done[w] > 0 <=> lock = w)
      /\ aborted \in [Workers -> BOOLEAN] /\ result \in [Workers -> {"none", "ok", "error"}]
      /\ calls \in 0 .. MaxIngests
  BY <1>0 DEF TypeOK, Tables
<1>S. \A p : Statements(p) \in {2, 11}
  BY DEF Statements
\* What the invariant says of one worker.
<1> DEFINE Mine(v) == /\ done[v] <= Statements(payload[v]) /\ (done[v] > 0 <=> lock = v)
                      /\ TxInv(v)
                      /\ pc[v] = "idle" /\ result[v] = "ok" => Stored(db, payload[v])
           Types == /\ lock \in Workers \union {Nobody}
                    /\ pc \in [Workers -> {"idle", "stubs", "exec"}] /\ payload \in [Workers -> Payloads]
                    /\ done \in [Workers -> Nat] /\ DOMAIN view = Workers
                    /\ aborted \in [Workers -> BOOLEAN] /\ result \in [Workers -> {"none", "ok", "error"}]
                    /\ calls \in 0 .. MaxIngests
           Same(v) == /\ pc'[v] = pc[v] /\ payload'[v] = payload[v] /\ done'[v] = done[v]
                      /\ view'[v] = view[v] /\ result'[v] = result[v]
<1>M. \A v \in Workers : Mine(v)
  BY <1>0, <1>T DEF OkMeansStored
<1>P. ASSUME Types', DOMAIN db' = Tables, ParsedIsWhole', RowsOfPayloads', \A v \in Workers : Mine(v)' PROVE StoreIInv'
  BY <1>P DEF StoreIInv, StoreInv, TypeOK, OkMeansStored, Tables
\* A worker that did not move while another one did, without committing.
<1>F. ASSUME NEW v \in Workers, Same(v), db' = db, lock' = v <=> lock = v PROVE Mine(v)'
  BY <1>F, <1>M DEF TxInv
<1>1. ASSUME NEW w \in Workers, NEW p \in Payloads, IngestMatch(w, p) PROVE StoreIInv'
  <2>1. /\ pc[w] = "idle" /\ calls < MaxIngests /\ calls' = calls + 1
        /\ pc' = [pc EXCEPT ![w] = "stubs"] /\ payload' = [payload EXCEPT ![w] = p]
        /\ result' = [result EXCEPT ![w] = "none"] /\ UNCHANGED <<db, lock, done, view, aborted>>
    BY <1>1 DEF IngestMatch
  <2>2. Types'
    <3>1. calls' \in 0 .. MaxIngests
      BY <1>T, <2>1, ConstantsAssumption
    <3>. QED BY <1>T, <2>1, <3>1
  <2>3. done[w] = 0
    BY <1>M, <2>1 DEF TxInv
  <2>4. Mine(w)'
    <3>1. pc'[w] = "stubs" /\ payload'[w] = p /\ done'[w] = 0 /\ lock' # w
      BY <1>M, <1>T, <2>1, <2>3
    <3>2. 0 <= Statements(p)
      BY <1>S
    <3>. QED BY <3>1, <3>2 DEF TxInv
  <2>5. \A v \in Workers : v # w => Same(v)
    BY <1>T, <2>1
  <2>6. \A v \in Workers : Mine(v)'
    <3> HIDE DEF Mine, Same
    <3>. QED BY <1>F, <2>1, <2>4, <2>5
  <2>7. DOMAIN db' = Tables /\ ParsedIsWhole' /\ RowsOfPayloads'
    BY <1>0, <1>T, <2>1 DEF ParsedIsWhole, RowsOfPayloads
  <2> HIDE DEF Mine, Types
  <2>. QED BY <1>P, <2>2, <2>6, <2>7
<1>2. ASSUME NEW w \in Workers, EnsureHeroStubs(w) PROVE StoreIInv'
  <2>1. /\ pc[w] = "stubs" /\ pc' = [pc EXCEPT ![w] = "exec"]
        /\ aborted' = aborted \/ aborted' = [aborted EXCEPT ![w] = TRUE]
        /\ UNCHANGED <<db, lock, payload, done, view, result, calls>>
    BY <1>2 DEF EnsureHeroStubs
  <2>2. Types'
    BY <1>T, <2>1
  <2>3. done[w] = 0
    BY <1>M, <2>1 DEF TxInv
  <2>4. Mine(w)'
    <3>1. pc'[w] = "exec" /\ payload'[w] = payload[w] /\ done'[w] = 0 /\ lock' # w
      BY <1>M, <1>T, <2>1, <2>3
    <3>2. 0 <= Statements(payload[w])
      BY <1>S
    <3>. QED BY <3>1, <3>2 DEF TxInv
  <2>5. \A v \in Workers : v # w => Same(v)
    BY <1>T, <2>1
  <2>6. \A v \in Workers : Mine(v)'
    <3> HIDE DEF Mine, Same
    <3>. QED BY <1>F, <2>1, <2>4, <2>5
  <2>7. DOMAIN db' = Tables /\ ParsedIsWhole' /\ RowsOfPayloads'
    BY <1>0, <1>T, <2>1 DEF ParsedIsWhole, RowsOfPayloads
  <2> HIDE DEF Mine, Types
  <2>. QED BY <1>P, <2>2, <2>6, <2>7
<1>3. ASSUME NEW w \in Workers, Statement(w) PROVE StoreIInv'
  <2> DEFINE p == payload[w]  n == done[w]  m == n + 1  x == IF n = 0 THEN db ELSE view[w]
  <2>1. /\ pc[w] = "exec" /\ n < Statements(p) /\ (n = 0 => lock = Nobody) /\ lock' = w
        /\ view' = [view EXCEPT ![w] = Execute(m, x, p)] /\ done' = [done EXCEPT ![w] = m]
        /\ UNCHANGED <<db, pc, payload, aborted, result, calls>>
    BY <1>3 DEF Statement
  <2>2. n \in Nat /\ m \in Nat /\ m - 1 = n /\ m \in 1 .. Statements(p) /\ m > 0
    BY <1>S, <1>T, <2>1
  <2>3. x = After(db, p, n)
    <3>1. CASE n = 0
      BY <3>1, AfterSteps
    <3>2. CASE n # 0
      BY <1>M, <2>2, <3>2 DEF TxInv
    <3>. QED BY <3>1, <3>2
  <2>4. Execute(m, x, p) = After(db, p, m)
    <3> HIDE DEF x, m
    <3>. QED BY <2>2, <2>3, AfterSteps
  <2>5. lock = w \/ lock = Nobody
    <3>1. n # 0 => n > 0
      BY <2>2
    <3>. QED BY <1>M, <2>1, <3>1
  <2> HIDE DEF m, x
  <2>6. Types'
    BY <1>T, <2>1, <2>2
  <2>7. Mine(w)'
    <3>1. /\ pc'[w] = "exec" /\ payload'[w] = p /\ done'[w] = m /\ lock' = w
          /\ view'[w] = After(db, p, m) /\ db' = db
      BY <1>T, <2>1, <2>4
    <3>2. m <= Statements(p)
      BY <1>S, <2>2
    <3> HIDE DEF p
    <3>. QED BY <2>2, <3>1, <3>2 DEF TxInv
  <2>8. \A v \in Workers : v # w => Same(v) /\ lock # v
    BY <1>T, <2>1, <2>5, ConstantsAssumption
  <2>9. \A v \in Workers : Mine(v)'
    <3> HIDE DEF Mine, Same
    <3>. QED BY <1>F, <2>1, <2>7, <2>8
  <2>10. DOMAIN db' = Tables /\ ParsedIsWhole' /\ RowsOfPayloads'
    BY <1>0, <1>T, <2>1 DEF ParsedIsWhole, RowsOfPayloads
  <2> HIDE DEF Mine, Types
  <2>. QED BY <1>P, <2>6, <2>9, <2>10
\* The end of a transaction, rolled back or committed.
<1>E. ASSUME NEW w \in Workers, NEW res \in {"ok", "error"}, End(w, res), UNCHANGED <<payload, calls>>
      PROVE  /\ Types' /\ done'[w] = 0 /\ pc'[w] = "idle" /\ result'[w] = res /\ lock' # w
             /\ \A v \in Workers : v # w => Same(v) /\ (lock' = v <=> lock = v)
  <2>1. /\ pc' = [pc EXCEPT ![w] = "idle"] /\ result' = [result EXCEPT ![w] = res]
        /\ lock' = IF lock = w THEN Nobody ELSE lock
        /\ done' = [done EXCEPT ![w] = 0] /\ view' = [view EXCEPT ![w] = Absent]
        /\ aborted' = [aborted EXCEPT ![w] = FALSE]
    BY <1>E DEF End
  <2>2. Types'
    BY <1>E, <1>T, <2>1
  <2>3. lock' # w /\ \A v \in Workers : v # w => (lock' = v <=> lock = v)
    BY <2>1, ConstantsAssumption
  <2>4. done'[w] = 0 /\ pc'[w] = "idle" /\ result'[w] = res /\ \A v \in Workers : v # w => Same(v)
    BY <1>E, <1>T, <2>1
  <2>. QED BY <2>2, <2>3, <2>4
<1>4. ASSUME NEW w \in Workers, StatementFails(w) PROVE StoreIInv'
  <2>1. End(w, "error") /\ UNCHANGED <<db, payload, calls>>
    BY <1>4 DEF StatementFails
  <2>2. /\ Types' /\ done'[w] = 0 /\ pc'[w] = "idle" /\ result'[w] = "error" /\ lock' # w
        /\ \A v \in Workers : v # w => Same(v) /\ (lock' = v <=> lock = v)
    <3> HIDE DEF Types, Same
    <3>. QED BY <1>E, <2>1
  <2>3. Mine(w)'
    <3>1. 0 <= Statements(payload'[w])
      BY <1>S
    <3>. QED BY <2>2, <3>1 DEF TxInv
  <2>4. \A v \in Workers : Mine(v)'
    <3> HIDE DEF Mine, Same
    <3>. QED BY <1>F, <2>1, <2>2, <2>3
  <2>5. DOMAIN db' = Tables /\ ParsedIsWhole' /\ RowsOfPayloads'
    BY <1>0, <1>T, <2>1 DEF ParsedIsWhole, RowsOfPayloads
  <2> HIDE DEF Mine, Types
  <2>. QED BY <1>P, <2>2, <2>4, <2>5
<1>5. ASSUME NEW w \in Workers, Commit(w) PROVE StoreIInv'
  <2> DEFINE p == payload[w]
  <2>1. p \in Payloads /\ db' = Ingested(db, p) /\ lock = w /\ \A v \in Workers : v # w => done[v] = 0
    BY <1>5, CommitIngests
  <2>2. PICK res \in {"ok", "error"} : End(w, res) /\ UNCHANGED <<payload, calls>>
    BY <1>5 DEF Commit
  <2>3. /\ Types' /\ done'[w] = 0 /\ pc'[w] = "idle" /\ lock' # w
        /\ \A v \in Workers : v # w => Same(v) /\ (lock' = v <=> lock = v)
    <3> HIDE DEF Types, Same
    <3>. QED BY <1>E, <2>2
  <2>4. DOMAIN db' = Tables /\ Stored(db', p) /\ \A q : Stored(db, q) => Stored(db', q)
    BY <1>T, <2>1, IngestedEffect, IngestedStores
  <2>5. Mine(w)'
    <3>1. 0 <= Statements(payload'[w]) /\ payload'[w] = p
      BY <1>S, <2>2
    <3> HIDE DEF p
    <3>. QED BY <2>3, <2>4, <3>1 DEF TxInv
  <2>6. ASSUME NEW v \in Workers, v # w PROVE Mine(v)'
    <3>1. Same(v) /\ done[v] = 0 /\ lock' # v
      BY <2>1, <2>3, <2>6
    <3>2. Mine(v)
      BY <1>M
    <3>. QED BY <2>4, <3>1, <3>2 DEF TxInv
  <2>7. \A v \in Workers : Mine(v)'
    <3> HIDE DEF Mine
    <3>. QED BY <2>5, <2>6
  <2>8. ParsedIsWhole' /\ RowsOfPayloads'
    BY <1>0, <1>T, <2>1, IngestedIsWhole, IngestedRows
  <2> HIDE DEF Mine, Types
  <2>. QED BY <1>P, <2>3, <2>4, <2>7, <2>8
<1>6. ASSUME UNCHANGED vars PROVE StoreIInv'
  BY <1>6 DEF vars, StoreIInv, StoreInv, TypeOK, ParsedIsWhole, RowsOfPayloads, OkMeansStored, TxInv
<1>. QED BY <1>1, <1>2, <1>3, <1>4, <1>5, <1>6 DEF Next

-----------------------------------------------------------------------------
(* The theorems.                                                           *)

\* The inductive invariant: an IngestMatch that has executed statements sees the committed
\* rows with exactly those statements applied.
THEOREM StoreInvariant == Spec => []StoreIInv
BY StoreInit, StoreStep, PTL DEF Spec

\* Whatever transactions run, fail or are retried: a match the root row calls parsed has a
\* row under every key of the parsed payload its scores are from, that payload's own where
\* rows are overwritten; every row is one payload's, of a parsed one in all tables but
\* players; and a call that returned nil has left a row under each of its keys.
THEOREM MatchIsWhole == Spec => []StoreInv
<1>1. StoreIInv => StoreInv
  BY DEF StoreIInv
<1>. QED BY <1>1, StoreInvariant, PTL

\* Ingesting a payload again, after a lost reply or a redelivered task, changes nothing.
THEOREM IngestIsIdempotent == Spec => []RetryChangesNothing
<1>1. StoreIInv => RetryChangesNothing
  <2> SUFFICES ASSUME StoreIInv, NEW p \in Payloads
               PROVE  Ingested(Ingested(db, p), p) = Ingested(db, p)
    BY DEF RetryChangesNothing
  <2>1. DOMAIN db = Tables
    BY DEF StoreIInv, StoreInv, TypeOK, Tables
  <2>2. p.parsed \in BOOLEAN
    BY ConstantsAssumption
  <2>. QED BY <2>1, <2>2, IngestedAgain
<1>. QED BY <1>1, StoreInvariant, PTL

\* The transactions of IngestMatch implement the ledger: whatever interleaves and fails,
\* a payload is stored in one step, whole, or not at all.
THEOREM IngestIsAtomic == Spec => Atomic
<1>1. Init => Ledger!Init
  BY DEF Init, Ledger!Init
<1>2. StoreIInv /\ [Next]_vars => [Ledger!Next]_db
  <2> SUFFICES ASSUME StoreIInv, [Next]_vars PROVE [Ledger!Next]_db
    OBVIOUS
  <2>1. ASSUME NEW w \in Workers, Commit(w) PROVE Ledger!Next
    BY <2>1, CommitIngests DEF Ledger!Next, Ledger!Ingest
  <2>2. ASSUME NEW w \in Workers, ~Commit(w),
               \/ \E p \in Payloads : IngestMatch(w, p)
               \/ EnsureHeroStubs(w) \/ Statement(w) \/ StatementFails(w)
        PROVE  db' = db
    BY <2>2 DEF IngestMatch, EnsureHeroStubs, Statement, StatementFails
  <2>3. ASSUME UNCHANGED vars PROVE db' = db
    BY <2>3 DEF vars
  <2>. QED BY <2>1, <2>2, <2>3 DEF Next
<1>. QED BY <1>1, <1>2, StoreInvariant, PTL DEF Spec, Atomic, Ledger!Spec

=============================================================================
