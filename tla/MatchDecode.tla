---------------------------- MODULE MatchDecode ----------------------------
(***************************************************************************)
(* parser/decode.go: decodeMatch and validate, and what matchpg stores of  *)
(* a match they accept.  A raw match keeps the fields the code looks at;   *)
(* Nil is an absent or null pointer.  purchase_log is a json.RawMessage,   *)
(* which is nil if the field is absent and not nil if it is null.          *)
(***************************************************************************)
EXTENDS MatchRows, Integers, FiniteSetsExt, SequencesExt

CONSTANTS
    Nil,
    TaskID,        \* match_id of the parse task
    Roots,         \* raw matches without rows
    RawPlayers, RawPicks, RawTimings, RawEvents,
    MaxRows,       \* bound: rows of a raw match
    MaxMinute      \* bound: minutes of a series

ASSUME DecodeAssumption == TaskID \in Nat \ {0} /\ MaxRows \in Nat /\ MaxMinute \in Nat

VARIABLE raw       \* the answer of the API that is decoded

MaxInt16 == 32767

deref(p, zero) == IF p = Nil THEN zero ELSE p


isMatchParsed(rm) ==
    \E i \in DOMAIN rm.players :
        LET p == rm.players[i] IN p.purchase_log # "absent" \/ p.gold_t # <<>> \/ p.xp_t # <<>>

\* A value of a small column is cut at the largest int16.
safeIdx(s, min) == IF min < Len(s) THEN s[min + 1] ELSE Nil
safeIdxSmall(s, min) ==
    IF min < Len(s) THEN (IF s[min + 1] > MaxInt16 THEN MaxInt16 ELSE s[min + 1]) ELSE Nil

\* times is the axis if there is one, else the longest of the arrays.
Minutes(p) ==
    IF p.times # <<>> THEN Len(p.times)
    ELSE Max({Len(p.gold_t), Len(p.xp_t), Len(p.lh_t), Len(p.dn_t)})

expandTimeseries(players) ==
    FlattenSeq([i \in DOMAIN players |->
        LET p == players[i]
            row(min) == [slot |-> p.slot, minute |-> min, gold |-> deref(safeIdx(p.gold_t, min), 0),
                         xp |-> deref(safeIdx(p.xp_t, min), 0), lh |-> deref(safeIdxSmall(p.lh_t, min), 0),
                         dn |-> deref(safeIdxSmall(p.dn_t, min), 0)]
            some(r) == \E s \in {p.gold_t, p.xp_t, p.lh_t, p.dn_t} : r.minute < Len(s)
        IN  SelectSeq([m \in 1 .. Minutes(p) |-> row(m - 1)], some)])

decodeAdvantages(gold, xp) == IF gold = <<>> /\ xp = <<>> THEN Nil ELSE [gold |-> gold, xp |-> xp]

convertPlayer(rp) ==
    [slot |-> rp.slot, hero |-> rp.hero, win |-> rp.win = 1, gold_t |-> rp.gold_t, times |-> rp.times]

\* Besides the slot, raw JSON that is passed on.
convertPlayerDetail(rp) == [slot |-> rp.slot]

\* The lists are decoded element by element, an absent hero to 0.
decodePicksBans(list) == list
decodeDraftTimings(list) == [i \in DOMAIN list |-> [list[i] EXCEPT !.hero = deref(@, 0)]]
\* Objectives, chat lines and teamfights: one row each, known here by its kind.
decodeEvents(list) == list

\* The id of the task stands in for a missing match_id.
MatchID(rm) == IF rm.match_id = 0 THEN TaskID ELSE rm.match_id

\* An absent field becomes the zero of its type.
decodeMatchRoot(rm) ==
    [match_id |-> MatchID(rm), start_time |-> rm.start_time, duration |-> rm.duration,
     radiant_win |-> deref(rm.radiant_win, FALSE), is_parsed |-> isMatchParsed(rm),
     replay |-> rm.replay]

\* The early returns of decodeMatch.
Decodable(rm) == MatchID(rm) > 0 /\ rm.start_time # 0 /\ rm.duration >= 0

decodeMatch(rm) ==
    [ok |-> Decodable(rm),
     root |-> decodeMatchRoot(rm),
     players |-> [i \in DOMAIN rm.players |-> convertPlayer(rm.players[i])],
     details |-> [i \in DOMAIN rm.players |-> convertPlayerDetail(rm.players[i])],
     picks |-> decodePicksBans(rm.picks),
     timings |-> decodeDraftTimings(rm.timings),
     events |-> decodeEvents(rm.events),
     advantages |-> decodeAdvantages(rm.gold_adv, rm.xp_adv),
     cosmetics |-> rm.cosmetics,
     timeseries |-> expandTimeseries(rm.players)]

validPlayerSlot(s) == s \in 0 .. 4 \/ s \in 128 .. 132

validate(m) ==
    /\ m.root.match_id > 0 /\ m.root.start_time > 0
    /\ \A p \in ToSet(m.players) : validPlayerSlot(p.slot) /\ p.hero >= 0
    /\ \A pb \in ToSet(m.picks) : pb.team \in {0, 1}

\* Process drops the task unless both succeed.
Accepted(rm) == decodeMatch(rm).ok /\ validate(decodeMatch(rm))

-----------------------------------------------------------------------------
(* The rows the store writes.                                              *)

\* The payload of MatchRows that a decoded match is; the version names the answer of the
\* API it was decoded from.
Payload(m, version) ==
    [version |-> version, parsed |-> m.root.is_parsed, replay |-> m.root.replay,
     rows |-> [players |-> {p.slot : p \in ToSet(m.players)},
               details |-> {d.slot : d \in ToSet(m.details)},
               picks_bans |-> {pb.order : pb \in ToSet(m.picks)},
               draft_timings |-> {dt.order : dt \in ToSet(m.timings)},
               advantages |-> IF m.advantages = Nil THEN {} ELSE {1},
               objectives |-> DOMAIN SelectSeq(m.events, LAMBDA e : e = "objective"),
               chat |-> DOMAIN SelectSeq(m.events, LAMBDA e : e = "chat"),
               teamfights |-> DOMAIN SelectSeq(m.events, LAMBDA e : e = "teamfight"),
               cosmetics |-> IF m.cosmetics = "absent" THEN {} ELSE {1},
               timeseries |-> {<<r.slot, r.minute>> : r \in ToSet(m.timeseries)}]]

-----------------------------------------------------------------------------
(* The raw matches the decoder is given.                                   *)

Shapes ==
    {n \in [players : 0 .. MaxRows, picks : 0 .. MaxRows, timings : 0 .. MaxRows, events : 0 .. MaxRows] :
        n.players + n.picks + n.timings + n.events <= MaxRows}

\* raw is one of the raw matches within the bounds.
AnyRaw ==
    \E n \in Shapes :
        \E r \in Roots, players \in [1 .. n.players -> RawPlayers], picks \in [1 .. n.picks -> RawPicks],
           timings \in [1 .. n.timings -> RawTimings], events \in [1 .. n.events -> RawEvents] :
            raw = [r EXCEPT !.players = players, !.picks = picks, !.timings = timings, !.events = events]

-----------------------------------------------------------------------------
(* Properties.                                                             *)

\* The minutes of a player for which some array has a value; with a time axis, what the
\* arrays hold beyond its end is dropped.
SeriesKeys(rm) ==
    UNION {{<<p.slot, m>> : m \in {m \in 0 .. MaxMinute :
                                       /\ p.times = <<>> \/ m < Len(p.times)
                                       /\ \E s \in {p.gold_t, p.xp_t, p.lh_t, p.dn_t} : m < Len(s)}}
           : p \in ToSet(rm.players)}

\* The series have exactly those rows, with the values of the arrays; small values are
\* cut, never wrapped.
SeriesMatchArrays ==
    LET series == ToSet(decodeMatch(raw).timeseries)
    IN  /\ {<<r.slot, r.minute>> : r \in series} = SeriesKeys(raw)
        /\ \A r \in series : \E p \in ToSet(raw.players) :
               /\ p.slot = r.slot
               /\ r.minute < Len(p.gold_t) => r.gold = p.gold_t[r.minute + 1]
               /\ r.minute < Len(p.xp_t) => r.xp = p.xp_t[r.minute + 1]
               /\ r.minute < Len(p.lh_t) => r.lh = Min({p.lh_t[r.minute + 1], MaxInt16})

\* IngestMatch skips the series of a match that is not parsed: they hold no gold and no
\* experience.
SkippedSeriesEmpty ==
    LET m == decodeMatch(raw) IN
    ~m.root.is_parsed => \A r \in ToSet(m.timeseries) : r.gold = 0 /\ r.xp = 0

\* Ingesting an accepted match into an empty database leaves, in every table, exactly the
\* keys of the API's answer, those after the players only if the match is parsed: one row
\* per slot, order or minute, so that of rows with the same key one is stored, and one row
\* per event.
KeysStored ==
    Accepted(raw) =>
        LET m == decodeMatch(raw)
            d == Ingested(Absent, Payload(m, 1))
            slots == {p.slot : p \in ToSet(raw.players)}
            ifParsed(keys) == IF m.root.is_parsed THEN keys ELSE {}
            orders(list) == {list[i].order : i \in DOMAIN list}
            events(kind) == {i \in DOMAIN raw.events : raw.events[i] = kind}
        IN  /\ DOMAIN d.players = slots
            /\ DOMAIN d.details = ifParsed(slots)
            /\ DOMAIN d.picks_bans = ifParsed(orders(raw.picks))
            /\ DOMAIN d.draft_timings = ifParsed(orders(raw.timings))
            /\ DOMAIN d.advantages = ifParsed(IF raw.gold_adv = <<>> /\ raw.xp_adv = <<>> THEN {} ELSE {1})
            /\ DOMAIN d.cosmetics = ifParsed(IF raw.cosmetics = "absent" THEN {} ELSE {1})
            /\ DOMAIN d.timeseries = ifParsed(SeriesKeys(raw))
            /\ Cardinality(DOMAIN d.objectives) = Cardinality(ifParsed(events("objective")))
            /\ Cardinality(DOMAIN d.chat) = Cardinality(ifParsed(events("chat")))
            /\ Cardinality(DOMAIN d.teamfights) = Cardinality(ifParsed(events("teamfight")))


=============================================================================
