---------------------------- MODULE MatchLedger ----------------------------
(***************************************************************************)
(* What matchstore.MatchWriter promises: a payload is ingested in one step *)
(* or not at all.                                                          *)
(***************************************************************************)
CONSTANTS
    Payloads,
    Absent,            \* the rows of a match that was never ingested
    Ingested(_, _)     \* rows, payload: the rows with the payload stored

VARIABLE db

Init == db = Absent
Ingest(p) == db' = Ingested(db, p)
Next == \E p \in Payloads : Ingest(p)
Spec == Init /\ [][Next]_db
=============================================================================
