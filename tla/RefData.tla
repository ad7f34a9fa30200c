------------------------------ MODULE RefData ------------------------------
(***************************************************************************)
(* What the sources of the enricher make of the published files, and what  *)
(* the writer (refdatapg) makes of the rows in the tables of               *)
(* deploy/migrations/001_init.sql, while the parser inserts stubs for      *)
(* heroes it meets first (ensure_hero_stubs).                              *)
(*                                                                         *)
(* A release is the content of the files at one time, raw rows that need   *)
(* not be usable.  A key of a JSON object that is read as a number is the  *)
(* set of that number, empty when it is none.  Sources run in any order.   *)
(***************************************************************************)
EXTENDS Integers, Sequences, FiniteSets, SequencesExt

CONSTANTS
    Releases,      \* the successive releases, records with a set of raw rows per file
    Sources,       \* the sources that run
    MatchHeroes    \* ids of heroes that matches name

Smallint == 32767
IsSmall(n) == n >= 0 /\ n <= Smallint
FitsSmallint(n) == n >= -Smallint - 1 /\ n <= Smallint

-----------------------------------------------------------------------------
(* Source.Run: from the rows of a file to the rows for the writer.          *)

heroRefs(r) == r.heroes
abilityRefs(r) == {a \in r.abilities : a.name \notin {"", "special_bonus_attributes", "dota_base_ability"}}
abilityIDRefs(r) ==
    UNION {{[id |-> n, name |-> a.name] : n \in {m \in a.key : m > 0 /\ a.name # ""}} : a \in r.ability_ids}
heroAbilityRefs(r) == {h \in r.hero_abilities : h.ability \notin {"", "generic_hidden"}}
heroTalentRefs(r) == {t \in r.hero_talents : t.ability # "" /\ t.level > 0}
\* An id of 0 is replaced by the key of the row.
NumberedRefs(rows) ==
    UNION {{[id |-> n, name |-> g.name] : n \in IF g.id = 0 THEN g.key ELSE {g.id}} : g \in {x \in rows : x.name # ""}}
gameModeRefs(r) == NumberedRefs(r.game_mode)
lobbyTypeRefs(r) == NumberedRefs(r.lobby_type)
regionRefs(r) == UNION {{[id |-> n, name |-> g.name] : n \in g.key} : g \in {x \in r.region : x.name # ""}}
itemRefs(r) == {i \in r.items : i.name # "" /\ i.id > 0}
itemIDRefs(r) ==
    UNION {{[id |-> n, name |-> i.name] : n \in {m \in i.key : m >= 0 /\ i.name # ""}} : i \in r.item_ids}
patchRefs(r) == {p \in r.patch : p.name # ""}

\* Files are finite, numbers are integers, and a row is a number with a name.
ReleaseOK(r) ==
    /\ \A refs \in {heroRefs(r), abilityIDRefs(r), gameModeRefs(r), lobbyTypeRefs(r), regionRefs(r),
                    itemRefs(r), itemIDRefs(r), patchRefs(r)} :
        IsFiniteSet(refs) /\ \A x \in refs : x.id \in Int /\ x = [id |-> x.id, name |-> x.name]
    /\ \A refs \in {abilityRefs(r), heroAbilityRefs(r), heroTalentRefs(r), r.hero_facets} : IsFiniteSet(refs)
    /\ \A t \in heroTalentRefs(r) : t.level \in Int

ConstantsOK ==
    /\ Releases \in Seq({Releases[i] : i \in DOMAIN Releases}) \ {<<>>}
    /\ \A i \in DOMAIN Releases : ReleaseOK(Releases[i])
    /\ MatchHeroes \subseteq 0 .. Smallint

-----------------------------------------------------------------------------
VARIABLES
    heroes,        \* rows [id, name]
    abilities,     \* rows [name, id]: id 0 stands for NULL, detail: a row of abilities.json
    heroTables,    \* hero_abilities, hero_talents, hero_facets
    lookups,       \* game_modes, lobby_types, regions, items, item_ids, patches
    release,       \* number of the current release
    loaded,        \* ghost, per source: release of its last successful run
    failed         \* ghost: sources whose last run failed

vars == <<heroes, abilities, heroTables, lookups, release, loaded, failed>>

\* The name of a stub is made from its id: no other row has it.
Stub(id) == [id |-> id, name |-> "unknown"]

Init ==
    /\ heroes = {[id |-> 0, name |-> "no_hero"]}
    /\ abilities = {}
    /\ heroTables = [t \in {"hero_abilities", "hero_talents", "hero_facets"} |-> {}]
    /\ lookups = [t \in {"game_mode", "lobby_type", "region", "items", "item_ids", "patch"} |-> {}]
    /\ release = 1
    /\ loaded = [s \in Sources |-> 0]
    /\ failed = {}

-----------------------------------------------------------------------------
(* The statements of the writer, named for the sources, and the schema.     *)

\* The target of ON CONFLICT ... DO UPDATE.
SameKey(q, x, row) ==
    CASE q \in {"abilities", "ability_ids"} -> x.name = row.name
      [] q \in {"hero_abilities", "hero_facets"} -> x.hero = row.hero /\ x.slot = row.slot
      [] q = "hero_talents" -> x.hero = row.hero /\ x.ability = row.ability
      [] OTHER -> x.id = row.id

\* Mutant of NewRow: the row of an ability is replaced, its number included.
NewRowWhole(q, tab, row) ==
    CASE q = "abilities" -> [name |-> row.name, id |-> 0, detail |-> TRUE]
      [] q = "ability_ids" -> [name |-> row.name, id |-> row.id, detail |-> \E x \in tab : x.name = row.name /\ x.detail]
      [] OTHER -> row

\* What stands in the place of row afterwards.  Of abilities one statement sets the
\* details, the other the number; each keeps what the other one has set.
NewRow(q, tab, row) ==
    CASE q = "abilities" ->
            [name |-> row.name, detail |-> TRUE,
             id |-> IF \E x \in tab : x.name = row.name THEN (CHOOSE x \in tab : x.name = row.name).id ELSE 0]
      [] q = "ability_ids" ->
            [name |-> row.name, id |-> row.id, detail |-> \E x \in tab : x.name = row.name /\ x.detail]
      [] OTHER -> row

Exec(q, tab, row) == {x \in tab : ~SameKey(q, x, row)} \union {NewRow(q, tab, row)}

NameTaken(tab, row) == \E x \in tab : x.id # row.id /\ x.name = row.name
Referenced(name) == \E t \in DOMAIN heroTables : \E x \in heroTables[t] : x.hero = name
NoHero(row) == \A h \in heroes : h.name # row.hero
NoAbility(row) == \A a \in abilities : a.name # row.ability

\* Unique names and numbers, foreign keys and the CHECKs of the columns.  A hero whose
\* name other rows refer to cannot be renamed.
Refused(q, tab, row) ==
    CASE q = "heroes" -> \/ NameTaken(tab, row)
                         \/ \E x \in tab : x.id = row.id /\ x.name # row.name /\ Referenced(x.name)
      [] q \in {"items", "patch"} -> NameTaken(tab, row)
      [] q = "ability_ids" -> \E x \in tab : x.name # row.name /\ x.id = row.id
      [] q = "hero_abilities" -> NoHero(row) \/ NoAbility(row) \/ row.slot \notin 0 .. 15
      [] q = "hero_talents" -> NoHero(row) \/ NoAbility(row) \/ row.level \notin 1 .. 4
      [] q = "hero_facets" -> NoHero(row) \/ ~FitsSmallint(row.slot)
      [] OTHER -> FALSE

\* A transaction executes the statement for one row after the other; the first row that is
\* refused rolls it back.
Transaction(q, tab, o) ==
    LET after[n \in 0 .. Len(o)] ==
            IF n = 0 THEN [tab |-> tab, err |-> FALSE]
            ELSE IF after[n - 1].err \/ Refused(q, after[n - 1].tab, o[n]) THEN [tab |-> tab, err |-> TRUE]
            ELSE [tab |-> Exec(q, after[n - 1].tab, o[n]), err |-> FALSE]
    IN  after[Len(o)]

\* The rows come in the order of a Go map.
Outcomes(q, tab, rows) == {Transaction(q, tab, o) : o \in SetToSeqs(rows)}

-----------------------------------------------------------------------------
(* The writer: rows it skips, and checks before the transaction.            *)

UsableHeroes(refs) == {h \in refs : h.id > 0 /\ h.id <= Smallint}
UpsertHeroes(refs) ==
    LET named == {h \in refs : h.name # ""} IN
    IF \E g, h \in named : g # h /\ g.name = h.name
    THEN {[tab |-> heroes, err |-> TRUE]}
    ELSE Outcomes("heroes", heroes, UsableHeroes(refs))

UpsertAbilities(refs) == Outcomes("abilities", abilities, {a \in refs : a.name # ""})
UpsertAbilityIDs(refs) == Outcomes("ability_ids", abilities, {a \in refs : a.name # "" /\ a.id > 0})

AbilityUsable(h) == h.hero # "" /\ h.ability # ""
UpsertHeroAbilities(refs) ==
    Outcomes("hero_abilities", heroTables.hero_abilities, {h \in refs : AbilityUsable(h)})

\* Mutant of TalentUsable: levels the table does not take are passed on.
TalentUsableAny(t) == t.hero # "" /\ t.ability # ""
TalentUsable(t) == t.hero # "" /\ t.ability # "" /\ t.level >= 1 /\ t.level <= 4

UpsertHeroTalents(refs) == Outcomes("hero_talents", heroTables.hero_talents, {t \in refs : TalentUsable(t)})
FacetUsable(f) == f.hero # "" /\ f.name # ""
UpsertHeroFacets(refs) == Outcomes("hero_facets", heroTables.hero_facets, {f \in refs : FacetUsable(f)})

Named(refs) == {x \in refs : IsSmall(x.id) /\ x.name # ""}
UpsertGameModes(refs) == Outcomes("game_mode", lookups.game_mode, Named(refs))
UpsertLobbyTypes(refs) == Outcomes("lobby_type", lookups.lobby_type, Named(refs))
UpsertRegions(refs) == Outcomes("region", lookups.region, Named(refs))
UpsertItems(refs) == Outcomes("items", lookups.items, {i \in refs : i.id > 0 /\ i.name # ""})
UpsertItemIDs(refs) == Outcomes("item_ids", lookups.item_ids, {i \in refs : i.id >= 0 /\ i.name # ""})
UpsertPatches(refs) == Outcomes("patch", lookups.patch, {p \in refs : p.id > 0 /\ p.name # ""})

-----------------------------------------------------------------------------
Cur == Releases[release]

\* The source ends: it has loaded the release, or it has failed.
Ends(s, err) ==
    /\ s \in Sources
    /\ loaded' = IF err THEN loaded ELSE [loaded EXCEPT ![s] = release]
    /\ failed' = IF err THEN failed \union {s} ELSE failed \ {s}

RunHeroes ==
    \E o \in UpsertHeroes(heroRefs(Cur)) :
        /\ heroes' = o.tab /\ Ends("heroes", o.err)
        /\ UNCHANGED <<abilities, heroTables, lookups, release>>

RunAbilities ==
    \/ \E o \in UpsertAbilities(abilityRefs(Cur)) :
        /\ abilities' = o.tab /\ Ends("abilities", o.err)
        /\ UNCHANGED <<heroes, heroTables, lookups, release>>
    \/ \E o \in UpsertAbilityIDs(abilityIDRefs(Cur)) :
        /\ abilities' = o.tab /\ Ends("ability_ids", o.err)
        /\ UNCHANGED <<heroes, heroTables, lookups, release>>

\* Three transactions; one that fails leaves the effects of those before it.
RunHeroAbilities ==
    \E a \in UpsertHeroAbilities(heroAbilityRefs(Cur)),
       t \in UpsertHeroTalents(heroTalentRefs(Cur)),
       f \in UpsertHeroFacets(Cur.hero_facets) :
        /\ heroTables' = [hero_abilities |-> a.tab,
                          hero_talents |-> IF a.err THEN heroTables.hero_talents ELSE t.tab,
                          hero_facets |-> IF a.err \/ t.err THEN heroTables.hero_facets ELSE f.tab]
        /\ Ends("hero_abilities", a.err \/ t.err \/ f.err)
        /\ UNCHANGED <<heroes, abilities, lookups, release>>

\* The sources of one table each.
RunLookup ==
    \E s \in Sources \intersect DOMAIN lookups :
        LET outcomes == CASE s = "game_mode" -> UpsertGameModes(gameModeRefs(Cur))
                          [] s = "lobby_type" -> UpsertLobbyTypes(lobbyTypeRefs(Cur))
                          [] s = "region" -> UpsertRegions(regionRefs(Cur))
                          [] s = "items" -> UpsertItems(itemRefs(Cur))
                          [] s = "item_ids" -> UpsertItemIDs(itemIDRefs(Cur))
                          [] s = "patch" -> UpsertPatches(patchRefs(Cur))
        IN \E o \in outcomes :
            /\ lookups' = [lookups EXCEPT ![s] = o.tab] /\ Ends(s, o.err)
            /\ UNCHANGED <<heroes, abilities, heroTables, release>>

\* The parser ingests a match: ON CONFLICT (id) DO NOTHING.
EnsureHeroStubs(ids) ==
    /\ heroes' = heroes \union {Stub(i) : i \in ids \ {h.id : h \in heroes}}
    /\ UNCHANGED <<abilities, heroTables, lookups, release, loaded, failed>>

PublishRelease ==
    /\ release < Len(Releases) /\ release' = release + 1
    /\ UNCHANGED <<heroes, abilities, heroTables, lookups, loaded, failed>>

Next ==
    \/ RunHeroes \/ RunAbilities \/ RunHeroAbilities \/ RunLookup
    \/ \E ids \in SUBSET MatchHeroes : EnsureHeroStubs(ids)
    \/ PublishRelease

Spec == Init /\ [][Next]_vars

-----------------------------------------------------------------------------
(* Properties.                                                             *)

\* Types and keys: numbers fit their columns and identify a row, and abilities have
\* one row and one number each.
TypeOK ==
    /\ \A h, g \in heroes : IsSmall(h.id) /\ (h.id = g.id => h = g)
    /\ \A a, b \in abilities : (a.name = b.name \/ (a.id = b.id /\ a.id # 0)) => a = b
    /\ \A t \in DOMAIN lookups : \A x, y \in lookups[t] :
        x.id >= 0 /\ x.name # "" /\ (x.id = y.id => x = y)
    /\ release \in DOMAIN Releases /\ loaded \in [Sources -> 0 .. release] /\ failed \subseteq Sources

Loads(s) == s \in Sources /\ loaded[s] = release

\* The numbers the release gives an ability; of several one is stored.
Numbers(name) == {a.id : a \in {b \in abilityIDRefs(Cur) : b.name = name}}

\* What a source has loaded stays there, whatever the other sources that write the same
\* table and the parser do after it: stubs get the names of the release and keep them, and
\* details and numbers of an ability do not overwrite each other.
LoadedPresent ==
    /\ Loads("heroes") => \A h \in heroRefs(Cur) : h.id \in 1 .. Smallint =>
        \E g \in heroRefs(Cur) \intersect heroes : g.id = h.id
    /\ Loads("abilities") => \A a \in abilityRefs(Cur) : \E x \in abilities : x.name = a.name /\ x.detail
    /\ Loads("ability_ids") => \A a \in abilityIDRefs(Cur) : \E x \in abilities : x.name = a.name /\ x.id \in Numbers(a.name)

\* The tables stay well formed and hold what was loaded.
RefDataInv == TypeOK /\ LoadedPresent

\* RefDataInv with what makes it inductive: the tables RunLookup chooses from.
RefDataIInv ==
    /\ RefDataInv
    /\ DOMAIN lookups = {"game_mode", "lobby_type", "region", "items", "item_ids", "patch"}

\* The writer passes on two rows, or one for which another is stored, that share a name
\* under two numbers.
Renumbers(rows, tab) == \E x \in rows, y \in rows \union tab : x.name = y.name /\ x.id # y.id

\* A hero other rows refer to gets another name.
Renames(rows) ==
    \E x \in rows, y \in rows \union heroes : x.id = y.id /\ x.name # y.name /\ Referenced(y.name)

\* What hero_abilities.json of a release refers to is in its other files, and its slots fit
\* the tables: the list of a hero's abilities is not limited to the 16 of the column.
Closed(r) ==
    LET usable == UsableHeroes(heroRefs(r))
        heroNames == {h.name : h \in {g \in usable : \A x \in usable : x.id = g.id => x.name = g.name}}
        abilityNames == {a.name : a \in abilityRefs(r) \union abilityIDRefs(r)}
    IN  /\ \A h \in heroAbilityRefs(r) : AbilityUsable(h) =>
               h.hero \in heroNames /\ h.ability \in abilityNames /\ h.slot \in 0 .. 15
        /\ \A t \in heroTalentRefs(r) : TalentUsable(t) => t.hero \in heroNames /\ t.ability \in abilityNames
        /\ \A f \in r.hero_facets : FacetUsable(f) => f.hero \in heroNames /\ FitsSmallint(f.slot)

\* Why a run of a source can fail at all, its tables and the release being what they are.
Cause(s) ==
    CASE s = "heroes" -> Renumbers(heroRefs(Cur), heroes) \/ Renames(UsableHeroes(heroRefs(Cur)))
      [] s = "ability_ids" ->
            \E x \in abilityIDRefs(Cur), y \in abilityIDRefs(Cur) \union abilities : x.id = y.id /\ x.name # y.name
      [] s = "items" -> Renumbers(itemRefs(Cur), lookups.items)
      [] s = "patch" -> Renumbers(patchRefs(Cur), lookups.patch)
      [] s = "hero_abilities" -> ~Closed(Cur) \/ \E d \in {"heroes", "abilities", "ability_ids"} : ~Loads(d)
      [] OTHER -> FALSE

\* A run fails only for a row that the release or the tables name under another number or
\* refer to by another name, or, after heroes and abilities are loaded, for references and
\* slots that are wrong in the file: whatever else a file holds is skipped before it
\* reaches a table that refuses it, in any order of the sources and with stubs in between.
FailsOnlyForCause == [][\A s \in failed' \ failed : Cause(s)]_vars

=============================================================================
