---------------------------- MODULE MCProxyLoader ----------------------------
(***************************************************************************)
(* Instances of ProxyLoader for TLC, and its properties under names that   *)
(* can stand beside those of the pool.                                     *)
(***************************************************************************)
CONSTANTS SeedList, RemoteList, Parallel, ChunkSize, MinPublish, MaxVia, MinPoolSize, DefaultMinPool,
          TopUp, Refresh, MaxFlips, MaxEvictions, MaxFaults
VARIABLES pool, up, pc, why, phase, list, waiting, probing, healthy, found, via, flips, evictions, faults,
          passed, probed

Loader == INSTANCE ProxyLoader

ASSUME LoaderConstants == Loader!ConstantsOK

CONSTANTS p1, p2, p3, p4

\* Two chunks of two and one; the remote list overlaps with the seed list.
Seed3 == <<p1, p2, p3>>
Remote2 == <<p2, p4>>

LoaderSpec == Loader!Spec

-----------------------------------------------------------------------------
(* The properties, as ProxyLoader states them.                             *)

\* Types; only proxies that passed a probe of this loader are published, and a run that
\* comes to the remote list has probed the whole seed list.
LoaderInv == Loader!LoaderInv

\* Once proxies stop failing, a pool below the threshold is filled up with what works.
Refilled == Loader!Refilled

=============================================================================
