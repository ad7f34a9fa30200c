--------------------------- MODULE MCEnrichRunner ---------------------------
(***************************************************************************)
(* Instances of EnrichRunner and DependencySort for TLC.  A behaviour      *)
(* either runs the enricher over four sources, or only holds a slice of    *)
(* sources to sort, one behaviour for every slice within the bounds.       *)
(***************************************************************************)
EXTENDS EnrichRunner, DependencySort

CONSTANTS MaxSources, MaxDeps    \* bounds: sources of a slice, dependencies of each

VARIABLES sorting, slice

\* In the order of buildSources: a critical source whose rows refer to those of the two
\* before it, and one behind it.
FourSources == <<Heroes, Abilities, HeroAbilities, Patches>>

\* NewRunner leaves the sources of buildSources, and these four, in their order.
ASSUME BuiltInOrder == NewRunner(buildSources) = buildSources /\ NewRunner(FourSources) = FourSources

\* Source i has the name i; a dependency that is no source of the slice is unknown.
DepLists == {d \in SeqOf(1 .. MaxSources + 1, MaxDeps) : IsInjective(d)}
Slices == UNION {{[i \in 1 .. n |-> [name |-> i, deps |-> deps[i]]] : deps \in [1 .. n -> DepLists]} :
                    n \in 0 .. MaxSources}

MCInit ==
    /\ Init
    /\ \/ sorting = FALSE /\ slice = <<>>
       \/ sorting = TRUE /\ slice \in Slices

Enrich == ~sorting /\ Next /\ UNCHANGED <<sorting, slice>>
Sorted == sorting /\ UNCHANGED <<vars, sorting, slice>>

MCSpec == MCInit /\ [][Enrich \/ Sorted]_<<vars, sorting, slice>> /\ Fairness

\* The sort of NewRunner meets its definition: a slice is refused exactly if known sources
\* depend on each other in a circle; otherwise each source is scheduled once, after all it
\* depends on, and is moved forward only to precede one that needs it.
SortIsCorrect == RefusesCycle(slice) /\ SchedulesDependencies(slice) /\ KeepsSliceOrder(slice)

=============================================================================
