---------------------------- MODULE MCMatchStore ----------------------------
(***************************************************************************)
(* Instances of MatchStore and MatchDecode for TLC.  A behaviour either    *)
(* stores payloads decoded from answers of the API, or only holds a raw    *)
(* match to decode, one behaviour for every raw match within the bounds.   *)
(***************************************************************************)
EXTENDS MatchStore, MatchDecode

VARIABLE decoding

Root == [match_id |-> 0, start_time |-> 1, duration |-> 0, radiant_win |-> TRUE, replay |-> FALSE,
         players |-> <<>>, picks |-> <<>>, timings |-> <<>>, events |-> <<>>, gold_adv |-> <<>>, xp_adv |-> <<>>, cosmetics |-> "absent"]
Unparsed(slot) == [slot |-> slot, hero |-> 1, win |-> 1, purchase_log |-> "absent",
                   gold_t |-> <<>>, xp_t |-> <<>>, lh_t |-> <<>>, dn_t |-> <<>>, times |-> <<>>]
Parsed(slot) == [Unparsed(slot) EXCEPT !.purchase_log = "log", !.gold_t = <<10, 11>>]

\* The answers for one match: before it was parsed, parsed, and parsed again with fewer events.
Answers == <<
    [Root EXCEPT !.players = <<Unparsed(0)>>],
    [Root EXCEPT !.players = <<Parsed(0), Parsed(128)>>, !.replay = TRUE, !.gold_adv = <<5>>,
                 !.picks = <<[order |-> 0, hero |-> 1, team |-> 0]>>, !.timings = <<[order |-> 0, hero |-> Nil]>>,
                 !.cosmetics = "map",
                 !.events = <<"objective", "objective", "teamfight">>],
    [Root EXCEPT !.players = <<Parsed(0), Parsed(128)>>, !.gold_adv = <<5>>, !.cosmetics = "map",
                 !.events = <<"objective">>]>>

MCPayloads == {Payload(decodeMatch(Answers[v]), v) : v \in DOMAIN Answers}

-----------------------------------------------------------------------------
\* Roots the parser accepts, and some that it refuses for their time or duration.
Good == {[Root EXCEPT !.radiant_win = win, !.gold_adv = adv] : win \in {Nil, FALSE}, adv \in {<<>>, <<5>>}}
            \union {[Root EXCEPT !.cosmetics = "map"]}
Bad == {[Root EXCEPT !.start_time = time, !.duration = d] : time \in {0, 1}, d \in {-1, 0}}
MCRoots == Good \union Bad \union {[r EXCEPT !.match_id = 7] : r \in {g \in Good : g.radiant_win = FALSE}}

Series == [slot : {0}, hero : {1}, win : {1}, purchase_log : {"absent", "null"},
           gold_t : {<<>>, <<10>>, <<10, 11>>}, xp_t : {<<>>, <<20>>},
           lh_t : {<<>>, <<40000, 1>>}, dn_t : {<<>>}, times : {<<>>, <<0>>, <<0, 60, 120>>}]
Slots == [slot : {0, 5, 128}, hero : {-1, 0, 2}, win : {Nil, 0}, purchase_log : {"log"},
          gold_t : {<<>>}, xp_t : {<<>>}, lh_t : {<<>>}, dn_t : {<<>>}, times : {<<>>}]
MCPlayers == Series \union Slots
MCPicks == [order : {0, 1}, hero : {0, 3}, team : {0, 1, 2}]
MCTimings == [order : {0}, hero : {Nil, 4}]

-----------------------------------------------------------------------------
MCInit ==
    /\ Init
    /\ \/ decoding = FALSE /\ raw = Root
       \/ decoding = TRUE /\ AnyRaw

MCNext == ~decoding /\ Next /\ UNCHANGED <<decoding, raw>>

MCSpec == MCInit /\ [][MCNext]_<<vars, decoding, raw>>

=============================================================================
