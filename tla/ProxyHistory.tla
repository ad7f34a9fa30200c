---------------------------- MODULE ProxyHistory ----------------------------
(***************************************************************************)
(* ProxyPool with two histories, to state what the scripts promise over    *)
(* time: the admissions the rate limiter granted, and the failures that    *)
(* were recorded of a proxy since its last success, by any client.         *)
(***************************************************************************)
EXTENDS ProxyPool

VARIABLES
    recent,      \* history: admissions at each of the last Horizon instants, newest first
    failures     \* history: per proxy, failures recorded since it last started afresh

Instants == Window * SubTicks      \* of one window
Horizon == Instants + 1            \* of a window with both its ends

LInit ==
    /\ Init
    /\ recent = [i \in 1 .. Horizon |-> 0]
    /\ failures = [p \in Proxies |-> 0]

\* Acquisitions that the limiter let through in this step.
Admitted == {c \in Clients : client[c].pc = "idle" /\ client'[c].pc = "admitted"}

\* Steps that report no outcome and drop no statistics.
Unreported ==
    \/ \E c \in Clients :
          \/ RateLimit(c) \/ AcquireNone(c) \/ MarkLost(c) \/ Release(c) \/ Abandon(c)
          \/ \E p \in Proxies, t \in Tokens, h \in Holds : AcquireProxy(c, p, t, h)
    \/ \E healthy \in SUBSET Proxies : Add(healthy) \/ ReplaceRead(healthy)
    \/ Tick

\* A success ends a streak, and so does a Replace that drops the statistics of the proxy.
Outcomes ==
    \/ \E c \in Clients : MarkSuccess(c) /\ failures' = [failures EXCEPT ![client[c].url] = 0]
    \/ \E c \in Clients : MarkFailure(c) /\ failures' = [failures EXCEPT ![client[c].url] = @ + 1]
    \/ /\ ReplaceExec
       /\ failures' = [p \in Proxies |-> IF p \in loader.removed THEN 0 ELSE failures[p]]
    \/ Unreported /\ UNCHANGED failures

LNext ==
    /\ Outcomes
    /\ recent' = IF <<sec', sub'>> = <<sec, sub>>
                 THEN [recent EXCEPT ![1] = @ + Cardinality(Admitted)]
                 ELSE [i \in 1 .. Horizon |-> IF i = 1 THEN 0 ELSE recent[i - 1]]

lvars == <<vars, recent, failures>>
LSpec == LInit /\ [][LNext]_lvars

\* Admissions at the newest m instants, for every m.
Admissions(f) ==
    LET total[m \in 0 .. Horizon] == IF m = 0 THEN 0 ELSE total[m - 1] + f[m] IN total

-----------------------------------------------------------------------------
(* Properties                                                              *)

\* The fixed-window counter of rate_limit.lua, when it is enabled, lets at most two
\* windows' worth of acquisitions through in any stretch of one window, wherever it ends:
\* the last Burst of one window directly followed by the first Burst of the next.
AdmissionRate == Burst > 0 => Admissions(recent)[Instants] <= 2 * Burst

\* Nobody is locked out: while rate_limit.lua refuses, Burst acquisitions were admitted
\* within the last window.  Refused attempts count, but do not prolong the refusal.
RefusalEarned == Burst > 0 /\ LimiterCount >= Burst => Admissions(recent)[Horizon] >= Burst

\* record_failure.lua takes a proxy out of the candidates exactly with the failure that
\* makes it MaxFailures in a row, reported by whichever clients, lost reports aside; and
\* apart from that only Replace takes one out.
EvictionEarned ==
    [][\A p \in Proxies :
          /\ failures'[p] > failures[p] =>
                 (p \notin set' <=> MaxFailures > 0 /\ failures'[p] >= MaxFailures)
          /\ p \in set \ set' => failures'[p] > failures[p] \/ (loader.pc = "replace" /\ loader'.pc = "idle")
      ]_lvars

-----------------------------------------------------------------------------
(* What makes AdmissionRate and RefusalEarned inductive.                   *)

\* Instants since the limiter's window was opened.
WindowAge == (sec - limiter.sec + Window) * SubTicks + sub - limiter.sub

\* The instants of recent that belong to the limiter's window.
InWindow == IF limiter.n = 0 THEN 0 ELSE IF WindowAge + 1 < Instants THEN WindowAge + 1 ELSE Instants

\* The counter covers the admissions of its window, the instants before it saw at most
\* one more burst, and once a window is over nothing was admitted since.  Of the attempts
\* the counter has counted the first Burst were admitted.
RateInv ==
    /\ recent \in [1 .. Horizon -> Nat]
    /\ Admissions(recent)[InWindow] <= limiter.n /\ Admissions(recent)[InWindow] <= Burst
    /\ Admissions(recent)[Instants] - Admissions(recent)[InWindow] <= IF limiter.n = 0 THEN 0 ELSE Burst
    /\ ~Unexpired(limiter.sec, limiter.sub) \/ limiter.n = 0 => recent[1] = 0
    /\ limiter.n > 0 /\ Unexpired(limiter.sec, limiter.sub) =>
           Admissions(recent)[WindowAge + 1] >= IF limiter.n < Burst THEN limiter.n ELSE Burst

=============================================================================
