---------------------------- MODULE MCDiscoverer ----------------------------
(* Instances of Discoverer for TLC. *)
EXTENDS Discoverer

\* One cycle that needs Postgres besides matches.
MCStored == <<"teams">>

=============================================================================
