------------------------------ MODULE MCRefData -----------------------------
(***************************************************************************)
(* Releases for TLC, and the properties of RefData under names that can    *)
(* stand beside those of the runner.                                       *)
(***************************************************************************)
EXTENDS Integers, FiniteSets

CONSTANTS Releases, Sources, MatchHeroes
VARIABLES heroes, abilities, heroTables, lookups, release, loaded, failed

Ref == INSTANCE RefData

ASSUME RefDataConstants == Ref!ConstantsOK

MCFirst == [
    heroes |-> {[id |-> 1, name |-> "axe"], [id |-> 40000, name |-> "far"]},
    abilities |-> {[name |-> "call"], [name |-> "dota_base_ability"]},
    ability_ids |-> {[key |-> {7}, name |-> "call"], [key |-> {}, name |-> "junk"]},
    hero_abilities |-> {[hero |-> "axe", slot |-> 0, ability |-> "call"],
                        [hero |-> "axe", slot |-> 1, ability |-> "generic_hidden"]},
    hero_talents |-> {[hero |-> "axe", ability |-> "call", level |-> 1],
                      [hero |-> "axe", ability |-> "dota_base_ability", level |-> 0]},
    hero_facets |-> {[hero |-> "axe", slot |-> 0, name |-> "one"]},
    game_mode |-> {[key |-> {0}, id |-> 0, name |-> "unknown"], [key |-> {}, id |-> 0, name |-> "junk"]},
    lobby_type |-> {[key |-> {1}, id |-> 1, name |-> "practice"], [key |-> {2}, id |-> 40000, name |-> "far"]},
    region |-> {[key |-> {-1}, name |-> "none"], [key |-> {3}, name |-> "europe"]},
    items |-> {[id |-> 1, name |-> "blink"], [id |-> 0, name |-> "recipe"]},
    item_ids |-> {[key |-> {1}, name |-> "blink"]},
    patch |-> {[id |-> 0, name |-> "6.70"], [id |-> 1, name |-> "6.71"]}]

\* A new hero with an ability of its own, which has two numbers, and a talent of a level no
\* table takes.
MCSecond == [MCFirst EXCEPT
    !.heroes = @ \union {[id |-> 2, name |-> "ringmaster"]},
    !.abilities = @ \union {[name |-> "whip"]},
    !.ability_ids = @ \union {[key |-> {8}, name |-> "whip"], [key |-> {9}, name |-> "whip"]},
    !.hero_abilities = @ \union {[hero |-> "ringmaster", slot |-> 0, ability |-> "whip"]},
    !.hero_talents = @ \union {[hero |-> "ringmaster", ability |-> "whip", level |-> 5]}]

\* What the tables refuse: a renamed hero that is referred to, an ability's number given to
\* another one, a 17th ability of a hero, a renumbered item, a name of another patch.
MCThird == [MCSecond EXCEPT
    !.heroes = (@ \ {[id |-> 1, name |-> "axe"]}) \union {[id |-> 1, name |-> "mogul"]},
    !.ability_ids = @ \union {[key |-> {7}, name |-> "whip"]},
    !.hero_abilities = @ \union {[hero |-> "ringmaster", slot |-> 16, ability |-> "call"]},
    !.items = {[id |-> 2, name |-> "blink"]},
    !.patch = @ \union {[id |-> 2, name |-> "6.71"]}]

MCReleases == <<MCFirst, MCSecond, MCThird>>

RefDataSpec == Ref!Spec

-----------------------------------------------------------------------------
\* Heroes and abilities have tables in common; each other source has one of its own and
\* reads no other, so a behaviour runs those four sources or one of the others.
Common == {"heroes", "abilities", "ability_ids", "hero_abilities"}

Apart ==
    LET moved == {s \in Sources : loaded[s] > 0 \/ s \in failed}
    IN  moved \subseteq Common \/ Cardinality(moved) = 1

MCRefDataSpec == Ref!Init /\ [][Ref!Next /\ Apart']_Ref!vars

-----------------------------------------------------------------------------
(* The properties, as RefData states them.                                 *)

\* Keys and numbers are unique and fit their columns, and what a source has loaded stays in
\* its tables whatever other sources and the parser write after it.
RefDataInv == Ref!RefDataInv

\* A run fails only for rows that collide with others of the release or the tables, for
\* references not loaded or not in the files, and for slots beyond the table's.
FailsOnlyForCause == Ref!FailsOnlyForCause

=============================================================================
