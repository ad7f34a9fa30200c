---------------------------- MODULE MCStreamQueue ----------------------------
(***************************************************************************)
(* Instances of StreamQueue for TLC.  A behaviour has either one worker    *)
(* and every fault, which lets the recovery from a first fault fail as     *)
(* well, or all workers and one fault.                                     *)
(***************************************************************************)
EXTENDS StreamQueue

VARIABLE alone

Active == IF alone THEN {CHOOSE w \in Workers : TRUE} ELSE Workers

Within ==
    /\ \A w \in Workers \ Active : work'[w] = work[w] /\ claim'[w] = claim[w]
    /\ ~alone => faults' <= 1
    /\ UNCHANGED alone

MCInit == Init /\ alone \in BOOLEAN

MCNext == Next /\ Within

\* Fairness of StreamQueue, for the workers of the behaviour.
MCSpec ==
    /\ MCInit /\ [][MCNext]_<<vars, alone>>
    /\ WF_vars(EnsureGroup /\ Within)
    /\ \A w \in Workers : WF_vars(RunStep(w) /\ Within) /\ WF_vars(RecoveryStep(w) /\ Within)

=============================================================================
