----------------------------- MODULE MatchRows -----------------------------
(***************************************************************************)
(* What the statements of matchpg do to the rows of one match.  A payload  *)
(* is [version, parsed, replay, rows]: rows gives, per part of the match,  *)
(* the keys of its rows (player slots, orders, minutes, positions).  A     *)
(* table maps the keys it has to the version of the payload they are from. *)
(***************************************************************************)
EXTENDS Naturals, Sequences, FiniteSets

NoRoot == [parsed |-> FALSE, scores |-> 0, replay |-> 0]

From(p, part) == [k \in p.rows[part] |-> p.version]

\* The rows of f and, under other keys, those of g.
Over(f, g) == [k \in DOMAIN f \union DOMAIN g |-> IF k \in DOMAIN f THEN f[k] ELSE g[k]]

\* bulkUpsert with ON CONFLICT DO NOTHING, and with DO UPDATE.
DoNothing(tab, p, part) == Over(tab, From(p, part))
DoUpdate(tab, p, part) == Over(From(p, part), tab)
\* An empty part is left as it is; otherwise DELETE, then COPY.
Replace(tab, p, part) == IF p.rows[part] = {} THEN tab ELSE From(p, part)

\* Mutant of upsertMatchRoot: without the WHERE of the DO UPDATE.
upsertMatchRootAlways(d, p) ==
    [d EXCEPT !.root = [parsed |-> d.root.parsed \/ p.parsed, scores |-> p.version,
                        replay |-> IF p.replay THEN p.version ELSE d.root.replay]]

\* Scores are never NULL, the data of the replay may be: COALESCE keeps the old value.
upsertMatchRoot(d, p) ==
    IF d.root.parsed /\ ~p.parsed THEN d
    ELSE [d EXCEPT !.root = [parsed |-> d.root.parsed \/ p.parsed,
                             scores |-> p.version,
                             replay |-> IF p.replay THEN p.version ELSE d.root.replay]]

upsertPlayers(d, p) == [d EXCEPT !.players = DoNothing(@, p, "players")]
upsertPlayerDetails(d, p) == [d EXCEPT !.details = DoNothing(@, p, "details")]
upsertPicksBans(d, p) == [d EXCEPT !.picks_bans = DoNothing(@, p, "picks_bans")]
upsertDraftTimings(d, p) == [d EXCEPT !.draft_timings = DoNothing(@, p, "draft_timings")]
upsertAdvantages(d, p) == [d EXCEPT !.advantages = DoUpdate(@, p, "advantages")]
\* Mutant of replaceObjectives: the rows are added to those that are there.
replaceObjectivesAppend(d, p) ==
    [d EXCEPT !.objectives = [k \in 1 .. Cardinality(DOMAIN @) + Cardinality(p.rows.objectives) |-> p.version]]
replaceObjectives(d, p) == [d EXCEPT !.objectives = Replace(@, p, "objectives")]
replaceChat(d, p) == [d EXCEPT !.chat = Replace(@, p, "chat")]
replaceTeamfights(d, p) == [d EXCEPT !.teamfights = Replace(@, p, "teamfights")]
upsertCosmetics(d, p) == [d EXCEPT !.cosmetics = DoUpdate(@, p, "cosmetics")]
upsertTimeseries(d, p) == [d EXCEPT !.timeseries = DoNothing(@, p, "timeseries")]

Parts == {"players", "details", "picks_bans", "draft_timings", "advantages", "objectives",
          "chat", "teamfights", "cosmetics", "timeseries"}
\* The parts that are replaced.
Events == {"objectives", "chat", "teamfights"}
Absent == [t \in Parts \union {"root"} |-> IF t = "root" THEN NoRoot ELSE <<>>]

\* The statements of IngestMatch after the hero stubs; those after the players are for
\* parsed matches.
Statements(p) == IF p.parsed THEN 11 ELSE 2

\* The i-th of them.
Execute(i, d, p) ==
    CASE i = 1 -> upsertMatchRoot(d, p)
      [] i = 2 -> upsertPlayers(d, p)
      [] i = 3 -> upsertPlayerDetails(d, p)
      [] i = 4 -> upsertPicksBans(d, p)
      [] i = 5 -> upsertDraftTimings(d, p)
      [] i = 6 -> upsertAdvantages(d, p)
      [] i = 7 -> replaceObjectives(d, p)
      [] i = 8 -> replaceChat(d, p)
      [] i = 9 -> replaceTeamfights(d, p)
      [] i = 10 -> upsertCosmetics(d, p)
      [] i = 11 -> upsertTimeseries(d, p)

\* The rows after the first n of them, and after all.
After(d, p, n) ==
    LET after[i \in 0 .. Statements(p)] == IF i = 0 THEN d ELSE Execute(i, after[i - 1], p)
    IN  after[n]

Ingested(d, p) == After(d, p, Statements(p))

=============================================================================
