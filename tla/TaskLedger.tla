----------------------------- MODULE TaskLedger -----------------------------
(***************************************************************************)
(* What a durable work queue promises its users: a task that was accepted  *)
(* stays outstanding until it is settled, and it is settled eventually.    *)
(***************************************************************************)
CONSTANT Tasks
VARIABLES outstanding, done

Init == outstanding = {} /\ done = {}

Accept(t) ==
    /\ t \notin outstanding \union done
    /\ outstanding' = outstanding \union {t}
    /\ UNCHANGED done

Settle(t) ==
    /\ t \in outstanding
    /\ outstanding' = outstanding \ {t}
    /\ done' = done \union {t}

Next == \E t \in Tasks : Accept(t) \/ Settle(t)

\* Nothing accepted disappears, and all of it is settled.
Safety == Init /\ [][Next]_<<outstanding, done>>
Spec == Safety /\ \A t \in Tasks : WF_<<outstanding, done>>(Settle(t))

=============================================================================
