--------------------------- MODULE DependencySort ---------------------------
(***************************************************************************)
(* enrich/runner.go sortByDependencies: a depth-first visit of the         *)
(* registered sources in the order of the slice.  A source is a record     *)
(* [name, deps] with deps a sequence of names, some of which may be        *)
(* unknown.                                                                *)
(***************************************************************************)
EXTENDS Integers, SequencesExt, FiniteSetsExt

R == INSTANCE Relation

Fresh == [sorted |-> <<>>, skipped |-> <<>>, inStack |-> {}, done |-> {}, cyclic |-> FALSE]

\* nameMap: when two sources share a name, the later one is meant.
Lookup(srcs, name) == srcs[Max({i \in DOMAIN srcs : srcs[i].name = name})]
Known(srcs) == {s.name : s \in ToSet(srcs)}

RECURSIVE VisitForgetful(_, _, _)
\* Mutant of Visit: the stack is not consulted, done is set before the dependencies.
VisitForgetful(srcs, name, st) ==
    LET deps == Lookup(srcs, name).deps
        entered == [st EXCEPT !.done = @ \union {name}]
        left == FoldLeft(LAMBDA acc, d : IF d \in Known(srcs) THEN VisitForgetful(srcs, d, acc) ELSE acc,
                         entered, deps)
    IN  IF name \in st.done THEN st ELSE [left EXCEPT !.sorted = Append(@, Lookup(srcs, name))]

RECURSIVE Visit(_, _, _)
\* visit(name) for a known name; after an error nothing more happens.
Visit(srcs, name, st) ==
    LET deps == Lookup(srcs, name).deps
        dep(acc, d) == IF acc.cyclic THEN acc
                       ELSE IF d \notin Known(srcs) THEN [acc EXCEPT !.skipped = Append(@, d)]
                       ELSE Visit(srcs, d, acc)
        left == FoldLeft(dep, [st EXCEPT !.inStack = @ \union {name}], deps)
    IN  CASE name \in st.done -> st
          [] name \notin st.done /\ name \in st.inStack -> [st EXCEPT !.cyclic = TRUE]
          [] OTHER -> IF left.cyclic THEN left
                      ELSE [left EXCEPT !.sorted = Append(@, Lookup(srcs, name)),
                                        !.done = @ \union {name},
                                        !.inStack = @ \ {name}]

\* The outer loop; a cycle makes NewRunner fail.
sortByDependencies(srcs) ==
    FoldLeft(LAMBDA st, s : IF st.cyclic THEN st ELSE Visit(srcs, s.name, st), Fresh, srcs)

\* The sources of a runner, in the order of its runs.
NewRunner(srcs) == sortByDependencies(srcs).sorted

-----------------------------------------------------------------------------
(* Reference definitions.                                                  *)

\* Needs(srcs)[n, d]: d is a dependency of n, or a dependency of one, and so on.
Needs(srcs) ==
    R!TransitiveClosure([n, d \in Known(srcs) |-> d \in ToSet(Lookup(srcs, n).deps)], Known(srcs))
HasCycle(srcs) == \E n \in Known(srcs) : Needs(srcs)[n, n]
Position(seq, name) == CHOOSE i \in DOMAIN seq : seq[i].name = name

-----------------------------------------------------------------------------
(* What NewRunner relies on, for one slice of sources.                     *)

\* A slice is refused exactly if known sources depend on each other in a circle.
RefusesCycle(srcs) == sortByDependencies(srcs).cyclic <=> HasCycle(srcs)

\* Otherwise every source is scheduled once, after all it depends on, directly or not.
SchedulesDependencies(srcs) ==
    ~HasCycle(srcs) =>
        LET order == sortByDependencies(srcs).sorted
            needs == Needs(srcs)
        IN  /\ Len(order) = Len(srcs) /\ ToSet(order) = ToSet(srcs)
            /\ \A n, d \in Known(srcs) : needs[n, d] => Position(order, d) < Position(order, n)

\* The order of the slice decides between sources that no dependency orders: a
\* source is moved forward only to precede one that needs it.
KeepsSliceOrder(srcs) ==
    ~HasCycle(srcs) =>
        LET order == sortByDependencies(srcs).sorted
            needs == Needs(srcs)
        IN  \A a, b \in DOMAIN srcs :
                a < b /\ Position(order, b) < Position(order, a) => \E n \in 1 .. a : needs[n, b]

=============================================================================
