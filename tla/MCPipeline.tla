----------------------------- MODULE MCPipeline -----------------------------
(* Instances of Pipeline for TLC. *)
EXTENDS Pipeline, TLC

\* Matches and the workers of one stage are interchangeable where only safety is checked.
Symmetry == Permutations(Matches) \union Permutations(Fetchers) \union Permutations(Parsers)

=============================================================================
