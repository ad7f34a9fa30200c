----------------------------- MODULE MatchStore -----------------------------
(***************************************************************************)
(* matchpg Store.IngestMatch: workers ingest payloads of one match, each   *)
(* in a transaction of many statements (READ COMMITTED).  The upsert of    *)
(* the root row locks it until the transaction ends, so a second           *)
(* transaction waits there.  Any statement may fail, and the reply to a    *)
(* COMMIT may be lost; the task is then ingested again.                    *)
(***************************************************************************)
EXTENDS MatchRows

CONSTANTS
    Payloads,
    Workers,
    Nobody,
    MaxIngests     \* bound: calls of IngestMatch

ASSUME ConstantsAssumption ==
    /\ Nobody \notin Workers /\ MaxIngests \in Nat /\ Payloads # {}
    /\ \A p \in Payloads : p.parsed \in BOOLEAN /\ p.replay \in BOOLEAN /\ p.version \in Nat \ {0}

VARIABLES
    db,            \* committed rows of the match
    lock,          \* worker whose transaction has the root row
    pc,            \* per worker: "idle", "stubs", "exec"
    payload,       \* per worker
    done,          \* per worker: statements executed after the stubs
    view,          \* per worker: rows its transaction sees
    aborted,       \* per worker: Postgres refuses further statements
    result,        \* per worker: of its last call: "none", "ok", "error"
    calls

vars == <<db, lock, pc, payload, done, view, aborted, result, calls>>
tx == <<payload, done, view, aborted>>

Init ==
    /\ db = Absent /\ lock = Nobody
    /\ pc = [w \in Workers |-> "idle"]
    /\ payload = [w \in Workers |-> CHOOSE p \in Payloads : TRUE]
    /\ done = [w \in Workers |-> 0]
    /\ view = [w \in Workers |-> Absent]
    /\ aborted = [w \in Workers |-> FALSE]
    /\ result = [w \in Workers |-> "none"]
    /\ calls = 0

\* The deferred rollback, or the end of the commit.
End(w, res) ==
    /\ pc' = [pc EXCEPT ![w] = "idle"]
    /\ result' = [result EXCEPT ![w] = res]
    /\ lock' = IF lock = w THEN Nobody ELSE lock
    /\ done' = [done EXCEPT ![w] = 0]
    /\ view' = [view EXCEPT ![w] = Absent]
    /\ aborted' = [aborted EXCEPT ![w] = FALSE]

IngestMatch(w, p) ==
    /\ pc[w] = "idle" /\ calls < MaxIngests
    /\ calls' = calls + 1
    /\ pc' = [pc EXCEPT ![w] = "stubs"]
    /\ payload' = [payload EXCEPT ![w] = p]
    /\ result' = [result EXCEPT ![w] = "none"]
    /\ UNCHANGED <<db, lock, done, view, aborted>>

\* An error is logged and the transaction goes on, but Postgres has aborted it.
EnsureHeroStubs(w) ==
    /\ pc[w] = "stubs"
    /\ pc' = [pc EXCEPT ![w] = "exec"]
    /\ \/ UNCHANGED aborted
       \/ aborted' = [aborted EXCEPT ![w] = TRUE]
    /\ UNCHANGED <<db, lock, payload, done, view, result, calls>>

\* Mutant of Statement: what was committed while the statement waited is not seen.
StatementStale(w) ==
    /\ pc[w] = "exec" /\ ~aborted[w] /\ done[w] < Statements(payload[w])
    /\ done[w] = 0 => lock = Nobody
    /\ lock' = w
    /\ view' = [view EXCEPT ![w] = Execute(done[w] + 1, view[w], payload[w])]
    /\ done' = [done EXCEPT ![w] = @ + 1]
    /\ UNCHANGED <<db, pc, payload, aborted, result, calls>>

\* The next statement.  The first one, upsertMatchRoot, waits for the row and then sees
\* what was committed.
Statement(w) ==
    /\ pc[w] = "exec" /\ ~aborted[w] /\ done[w] < Statements(payload[w])
    /\ done[w] = 0 => lock = Nobody
    /\ lock' = w
    /\ view' = [view EXCEPT ![w] = Execute(done[w] + 1, IF done[w] = 0 THEN db ELSE view[w], payload[w])]
    /\ done' = [done EXCEPT ![w] = @ + 1]
    /\ UNCHANGED <<db, pc, payload, aborted, result, calls>>

\* An error returned from the function of BeginFunc rolls the transaction back; in an
\* aborted transaction every statement is one.
StatementFails(w) ==
    /\ pc[w] = "exec"
    /\ End(w, "error")
    /\ UNCHANGED <<db, payload, calls>>

Commit(w) ==
    /\ pc[w] = "exec" /\ ~aborted[w] /\ done[w] = Statements(payload[w])
    /\ db' = view[w]
    /\ End(w, "ok") \/ End(w, "error")
    /\ UNCHANGED <<payload, calls>>

Next ==
    \E w \in Workers :
        \/ \E p \in Payloads : IngestMatch(w, p)
        \/ EnsureHeroStubs(w) \/ Statement(w) \/ StatementFails(w) \/ Commit(w)

Spec == Init /\ [][Next]_vars

-----------------------------------------------------------------------------
(* Properties.                                                             *)

\* Interleaved transactions that may fail anywhere ingest each payload whole or not at all.
Ledger == INSTANCE MatchLedger
Atomic == Ledger!Spec

\* Types; a transaction that has executed its first statement has the root row.
TypeOK ==
    /\ DOMAIN db = Parts \union {"root"}
    /\ lock \in Workers \union {Nobody}
    /\ pc \in [Workers -> {"idle", "stubs", "exec"}] /\ payload \in [Workers -> Payloads]
    /\ done \in [Workers -> Nat] /\ DOMAIN view = Workers
    /\ \A w \in Workers : done[w] <= Statements(payload[w]) /\ (done[w] > 0 <=> lock = w)
    /\ aborted \in [Workers -> BOOLEAN] /\ result \in [Workers -> {"none", "ok", "error"}]
    /\ calls \in 0 .. MaxIngests

\* A match the root row calls parsed has, under every key of the parsed payload p its
\* scores are from, a row of each part; what an ingestion overwrites is that of p.
ParsedIsWhole ==
    db.root.parsed =>
        \E p \in Payloads :
            /\ p.parsed /\ p.version = db.root.scores
            /\ \A t \in Parts : p.rows[t] \subseteq DOMAIN db[t]
            /\ \A t \in {"advantages", "cosmetics"} : \A k \in p.rows[t] : db[t][k] = p.version
            /\ \A t \in Events : p.rows[t] # {} => db[t] = From(p, t)

\* Every row is a row of one payload.  Rows of several payloads may stand side by side:
\* ON CONFLICT DO NOTHING keeps a row whose key is taken, and an empty list of events
\* leaves the old ones.  But only players can be from a payload that was not parsed, and
\* nothing but players and the root is there before a parsed payload was ingested.
RowsOfPayloads ==
    /\ \A t \in Parts : \A k \in DOMAIN db[t] :
           \E p \in Payloads : /\ p.version = db[t][k] /\ k \in p.rows[t]
                               /\ t # "players" => p.parsed
    /\ ~db.root.parsed => \A t \in Parts \ {"players"} : DOMAIN db[t] = {}

\* Ingestion is idempotent: a retry of a payload that was ingested changes nothing.
RetryChangesNothing == \A p \in Payloads : Ingested(Ingested(db, p), p) = Ingested(db, p)

\* Under every key of the payload p, d has a row of each part, except the events, which
\* a later payload replaces.
Stored(d, p) ==
    /\ p.parsed => d.root.parsed
    /\ \A t \in (IF p.parsed THEN Parts \ Events ELSE {"players"}) : p.rows[t] \subseteq DOMAIN d[t]

\* A call that returned nil, which lets the parser delete the payload, has left a row
\* under each of its keys, its own or the one that was there, also if the hero stubs failed
\* on the way or another worker has ingested since.
OkMeansStored ==
    \A w \in Workers : pc[w] = "idle" /\ result[w] = "ok" => Stored(db, payload[w])

\* What readers of the tables and the parser rely on, at every step of every transaction.
StoreInv == TypeOK /\ ParsedIsWhole /\ RowsOfPayloads /\ OkMeansStored

\* What makes it inductive: what a transaction sees is what was committed, with its own
\* statements executed; nobody commits between its first statement and its end.
TxInv(w) ==
    /\ pc[w] # "exec" => done[w] = 0
    /\ done[w] > 0 => view[w] = After(db, payload[w], done[w])

StoreIInv == StoreInv /\ \A w \in Workers : TxInv(w)

=============================================================================
