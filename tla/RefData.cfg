SPECIFICATION MCRefDataSpec
CONSTANTS
    Releases <- MCReleases
    Sources = {"heroes", "abilities", "ability_ids", "hero_abilities", "game_mode", "lobby_type", "region", "items", "item_ids", "patch"}
    MatchHeroes = {1, 2}
INVARIANTS RefDataInv
PROPERTY FailsOnlyForCause
CHECK_DEADLOCK FALSE
