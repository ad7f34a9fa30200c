--------------------------- MODULE CommandsProofs ---------------------------
(***************************************************************************)
(* Proofs about the two operator commands: for any number of instances,    *)
(* files and commands, the migrator applies each version once and in       *)
(* order, and cmd/dlq neither loses a message nor replays a match twice    *)
(* under one guard key.                                                    *)
(***************************************************************************)
EXTENDS MCCommands, FiniteSetTheorems, TLAPS

(***************************************************************************)
(* What sorting by counting returns: every element once, in order.         *)
(***************************************************************************)
LEMMA AscendingEffect ==
  ASSUME NEW S \in SUBSET Nat, IsFiniteSet(S)
  PROVE  /\ Ascending(S) \in Seq(S)
         /\ Len(Ascending(S)) = Cardinality(S)
         /\ ToSet(Ascending(S)) = S
         /\ \A j, k \in 1 .. Len(Ascending(S)) : j < k => Ascending(S)[j] < Ascending(S)[k]
<1> DEFINE n == Cardinality(S)
           UpTo(x) == {y \in S : y <= x}
           s == Ascending(S)
<1>1. n \in Nat /\ \A x : Rank(x, S) = Cardinality(UpTo(x))
  BY FS_CardinalityType DEF Rank
<1>2. ASSUME NEW x \in S PROVE Rank(x, S) \in 1 .. n /\ IsFiniteSet(UpTo(x))
  <2>1. UpTo(x) \in SUBSET S /\ UpTo(x) # {}
    OBVIOUS
  <2> HIDE DEF UpTo
  <2>2. IsFiniteSet(UpTo(x)) /\ Cardinality(UpTo(x)) <= n
    BY <2>1, FS_Subset
  <2>3. Cardinality(UpTo(x)) \in Nat /\ Cardinality(UpTo(x)) # 0
    <3>1. Cardinality(UpTo(x)) = 0 <=> UpTo(x) = {}
      BY <2>2, FS_EmptySet, Zenon
    <3>. QED BY <2>1, <2>2, <3>1, FS_CardinalityType
  <2>. QED BY <1>1, <2>2, <2>3
<1>3. ASSUME NEW x \in S, NEW y \in S, x < y PROVE Rank(x, S) < Rank(y, S)
  <2>1. UpTo(x) \in SUBSET UpTo(y) /\ y \in UpTo(y) /\ y \notin UpTo(x)
    <3>1. x \in Nat /\ y \in Nat /\ \A z \in S : z \in Nat
      OBVIOUS
    <3>2. ~(y <= x) /\ y <= y /\ \A z \in S : z <= x => z <= y
      BY <1>3, <3>1
    <3>. QED BY <3>2
  <2> HIDE DEF UpTo
  <2>2. /\ Cardinality(UpTo(x)) <= Cardinality(UpTo(y))
        /\ Cardinality(UpTo(y)) = Cardinality(UpTo(x)) => UpTo(y) = UpTo(x)
    <3>1. IsFiniteSet(UpTo(y))
      BY <1>2
    <3>. QED BY <2>1, <3>1, FS_Subset
  <2>3. Cardinality(UpTo(x)) # Cardinality(UpTo(y))
    BY <2>1, <2>2
  <2>. QED BY <1>1, <1>2, <2>2, <2>3
<1>4. \A x, y \in S : Rank(x, S) = Rank(y, S) => x = y
  <2> SUFFICES ASSUME NEW x \in S, NEW y \in S, Rank(x, S) = Rank(y, S), x # y PROVE FALSE
    OBVIOUS
  <2>1. x \in Nat /\ y \in Nat /\ Rank(x, S) \in Nat
    <3>1. Rank(x, S) \in 1 .. n
      BY <1>2
    <3>. QED BY <1>1, <3>1
  <2>2. x < y \/ y < x
    BY <2>1
  <2>. QED BY <1>3, <2>1, <2>2
<1>5. \A k \in 1 .. n : \E x \in S : Rank(x, S) = k
  <2> DEFINE f == [x \in S |-> Rank(x, S)]
  <2>1. f \in Injection(S, 1 .. n)
    BY <1>2, <1>4 DEF Injection, IsInjective
  <2>2. IsFiniteSet(1 .. n) /\ Cardinality(1 .. n) = n
    BY <1>1, FS_Interval
  <2>3. f \in Surjection(S, 1 .. n)
    <3> HIDE DEF f
    <3>. QED BY <2>1, <2>2, FS_Injection
  <2>. QED BY <2>3 DEF Surjection
<1>6. /\ s = [k \in 1 .. n |-> CHOOSE x \in S : Rank(x, S) = k]
      /\ \A k \in 1 .. n : s[k] \in S /\ Rank(s[k], S) = k
  BY <1>5 DEF Ascending
<1> HIDE DEF s
<1>7. s \in Seq(S) /\ Len(s) = n /\ DOMAIN s = 1 .. n
  BY <1>1, <1>6
<1>8. ToSet(s) = S
  <2>1. ToSet(s) \subseteq S
    BY <1>6, <1>7 DEF ToSet
  <2>2. ASSUME NEW x \in S PROVE x \in ToSet(s)
    <3> DEFINE k == Rank(x, S)
    <3>1. k \in 1 .. n
      BY <1>2
    <3>2. s[k] \in S /\ Rank(s[k], S) = k
      BY <1>6, <3>1
    <3>3. s[k] = x
      BY <1>4, <3>2
    <3>. QED BY <1>7, <3>1, <3>3 DEF ToSet
  <2>. QED BY <2>1, <2>2
<1>9. ASSUME NEW j \in 1 .. n, NEW k \in 1 .. n, j < k PROVE s[j] < s[k]
  <2>1. s[j] \in S /\ s[k] \in S /\ Rank(s[j], S) = j /\ Rank(s[k], S) = k
    BY <1>6
  <2>2. s[j] \in Nat /\ s[k] \in Nat
    BY <2>1
  <2>3. CASE s[j] = s[k]
    BY <1>9, <2>1, <2>3
  <2>4. CASE s[k] < s[j]
    <3>1. k < j
      BY <1>3, <2>1, <2>4
    <3>. QED BY <1>9, <3>1
  <2>. QED BY <2>2, <2>3, <2>4
<1>. QED BY <1>7, <1>8, <1>9 DEF s

\* Dropping the first element of an increasing sequence.
LEMMA TailOfIncreasing ==
  ASSUME NEW A \in SUBSET Nat, NEW s \in Seq(A), s # <<>>,
         \A j, k \in 1 .. Len(s) : j < k => s[j] < s[k]
  PROVE  /\ Tail(s) \in Seq(A) /\ Head(s) \in A /\ Head(s) \in ToSet(s)
         /\ \A j, k \in 1 .. Len(Tail(s)) : j < k => Tail(s)[j] < Tail(s)[k]
         /\ ToSet(Tail(s)) = ToSet(s) \ {Head(s)}
         /\ \A w \in ToSet(Tail(s)) : Head(s) < w
<1> DEFINE n == Len(s)  r == Tail(s)
<1>0. n \in Nat /\ DOMAIN s = 1 .. n /\ Head(s) = s[1] /\ \A j \in 1 .. n : s[j] \in A
  OBVIOUS
<1>a. n # 0
  BY <1>0
<1>b. \A j \in 1 .. n : s[j] \in Nat
  BY <1>0
<1>1. n \in Nat \ {0} /\ DOMAIN s = 1 .. n /\ Head(s) = s[1] /\ \A j \in 1 .. n : s[j] \in A /\ s[j] \in Nat
  BY <1>0, <1>a, <1>b
<1>2. r \in Seq(A) /\ Len(r) = n - 1 /\ DOMAIN r = 1 .. n - 1 /\ \A j \in 1 .. n - 1 : r[j] = s[j + 1]
  BY <1>1
<1> HIDE DEF r
<1>3. \A w \in ToSet(r) : s[1] < w
  BY <1>1, <1>2, SMTT(30) DEF ToSet
<1>4. ToSet(r) \subseteq ToSet(s) \ {s[1]}
  <2>1. ASSUME NEW j \in 1 .. n - 1 PROVE r[j] \in ToSet(s) /\ r[j] # s[1]
    <3>1. j + 1 \in 1 .. n /\ 1 < j + 1 /\ 1 \in 1 .. n /\ r[j] = s[j + 1]
      BY <1>1, <1>2
    <3>2. s[1] < s[j + 1] /\ s[1] \in Nat /\ s[j + 1] \in Nat
      BY <1>1, <3>1
    <3>. QED BY <1>1, <3>1, <3>2 DEF ToSet
  <2>. QED BY <1>2, <2>1 DEF ToSet
<1>5. ASSUME NEW j \in 1 .. n, j # 1 PROVE s[j] \in ToSet(r)
  <2>1. j - 1 \in 1 .. n - 1 /\ r[j - 1] = s[j]
    BY <1>1, <1>2, <1>5
  <2>. QED BY <1>2, <2>1 DEF ToSet
<1>6. ToSet(s) \ {s[1]} \subseteq ToSet(r)
  BY <1>1, <1>5 DEF ToSet
<1>7. \A j, k \in 1 .. n - 1 : j < k => r[j] < r[k]
  BY <1>1, <1>2
<1>8. s[1] \in ToSet(s)
  BY <1>1 DEF ToSet
<1>. QED BY <1>1, <1>2, <1>3, <1>4, <1>6, <1>7, <1>8 DEF r

-----------------------------------------------------------------------------
(* The migrator.                                                           *)

LEMMA VersionsAreNumbers == Versions \in SUBSET Nat
BY ConstantsAssumption DEF Versions

\* The order in which an instance works follows from what it has left to do.
LEMMA OrderFollows == MigratorIInv => MigratorInv
<1> SUFFICES ASSUME MigratorIInv PROVE MigratorInv
  OBVIOUS
<1>1. TypeOK /\ \A i \in Instances : InstanceInv(i)
  BY DEF MigratorIInv
<1>2. InOrder
  <2> SUFFICES ASSUME NEW i \in Instances, lock = i, pc[i] \in {"loop", "apply"}, todo[i] # <<>>,
                      NEW v \in found[i]
               PROVE  v \in recorded <=> (v \in applied[i] \/ v < Head(todo[i]))
    BY DEF InOrder, InSession
  <2> DEFINE s == todo[i]
  <2>1. s \in Seq(Versions) /\ s # <<>> /\ \A j, k \in 1 .. Len(s) : j < k => s[j] < s[k]
    BY <1>1 DEF TypeOK, InstanceInv
  <2>2. /\ ToSet(Tail(s)) = ToSet(s) \ {Head(s)} /\ Head(s) \in ToSet(s) /\ Head(s) \in Nat
        /\ \A w \in ToSet(Tail(s)) : Head(s) < w
    <3> HIDE DEF s
    <3>. QED BY <2>1, TailOfIncreasing, VersionsAreNumbers
  <2>3. v \in Nat /\ \A w \in ToSet(s) : w \in Nat
    <3>1. found[i] \subseteq Versions /\ ToSet(s) \subseteq found[i]
      BY <1>1 DEF TypeOK
    <3>. QED BY <3>1, VersionsAreNumbers
  <2>4. v \notin ToSet(s) => v \in recorded /\ v < Head(s)
    BY <1>1, <2>2 DEF InstanceInv
  <2>5. v \in ToSet(s) => (v \in recorded <=> v \in applied[i]) /\ ~(v < Head(s))
    <3>1. v \in ToSet(s) => (v \in recorded <=> v \in applied[i])
      BY <1>1 DEF InstanceInv
    <3> HIDE DEF s
    <3>2. v \in ToSet(s) => ~(v < Head(s))
      BY <2>2, <2>3
    <3>. QED BY <3>1, <3>2
  <2>. QED BY <1>1, <2>4, <2>5 DEF InstanceInv
<1>. QED BY <1>1, <1>2 DEF MigratorIInv, MigratorInv

LEMMA MigratorInit == Init => MigratorIInv
<1> SUFFICES ASSUME Init PROVE MigratorIInv
  OBVIOUS
<1>1. IsFiniteSet(dir)
  BY FS_EmptySet DEF Init
<1>2. \A i \in Instances : todo[i] = <<>> /\ found[i] = {} /\ applied[i] = {} /\ pc[i] = "open"
  BY DEF Init
<1>3. <<>> \in Seq(Versions) /\ ToSet(<<>>) = {} /\ Len(<<>>) = 0
  BY DEF ToSet
<1>4. TypeOK
  <2>1. todo \in [Instances -> Seq(Versions)] /\ found \in [Instances -> SUBSET Versions]
    BY <1>3 DEF Init
  <2>2. pc \in [Instances -> Locked \union Ended \union {"open", "lock"}]
          /\ applied \in [Instances -> SUBSET Versions] /\ schema \in [Versions -> Nat]
    BY DEF Init
  <2>. QED BY <1>2, <1>3, <2>1, <2>2 DEF Init, TypeOK
<1>5. AppliedOnce /\ DoneMeansApplied
  BY <1>2 DEF Init, AppliedOnce, DoneMeansApplied
<1>6. ASSUME NEW i \in Instances PROVE InstanceInv(i)
  <2>1. lock # i
    BY ConstantsAssumption DEF Init
  <2>. QED BY <1>2, <1>3, <2>1 DEF InstanceInv
<1>. QED BY <1>1, <1>4, <1>5, <1>6 DEF MigratorIInv

LEMMA MigratorStepInv == MigratorIInv /\ [Next]_vars => MigratorIInv'
<1> SUFFICES ASSUME MigratorIInv, [Next]_vars PROVE MigratorIInv'
  OBVIOUS
<1>0. /\ TypeOK /\ AppliedOnce /\ DoneMeansApplied /\ IsFiniteSet(dir)
      /\ \A i \in Instances : InstanceInv(i)
  BY DEF MigratorIInv
<1> DEFINE PCs == Locked \union Ended \union {"open", "lock"}
           \* what an instance keeps to itself
           Same(j) == /\ pc'[j] = pc[j] /\ todo'[j] = todo[j]
                      /\ applied'[j] = applied[j] /\ found'[j] = found[j]
           Mine(j) == ToSet(todo'[j]) \subseteq found'[j] /\ (pc'[j] = "apply" => todo'[j] # <<>>)
\* An instance that did not move.
<1>F. ASSUME NEW j \in Instances, Same(j), recorded \subseteq recorded',
             lock' = j => lock = j /\ recorded' = recorded
      PROVE  InstanceInv(j)' /\ Mine(j) /\ (pc'[j] = "done" => found'[j] \subseteq recorded')
  <2>1. InstanceInv(j)
    BY <1>0
  <2>2. Mine(j) /\ (pc'[j] = "done" => found'[j] \subseteq recorded')
    BY <1>0, <1>F DEF TypeOK, DoneMeansApplied
  <2> DEFINE t == todo[j]  a == applied[j]  F == found[j]
  <2>3. /\ a \subseteq recorded
        /\ \A h, k \in 1 .. Len(t) : h < k => t[h] < t[k]
        /\ \A v \in F \ ToSet(t), w \in ToSet(t) : v < w
        /\ pc[j] = "applied" => F \subseteq ToSet(t)
        /\ pc[j] \in {"loop", "apply"} => F \ ToSet(t) \subseteq recorded
        /\ pc[j] = "apply" => Head(t) \notin a
        /\ lock = j => pc[j] \in Locked \union Ended
        /\ lock = j /\ pc[j] \in {"loop", "apply"} => recorded \cap ToSet(t) \subseteq a
    BY <2>1 DEF InstanceInv
  <2>4. todo'[j] = t /\ applied'[j] = a /\ found'[j] = F /\ pc'[j] = pc[j]
    BY <1>F
  <2> HIDE DEF t, a, F
  <2>5. /\ a \subseteq recorded'
        /\ pc[j] \in {"loop", "apply"} => F \ ToSet(t) \subseteq recorded'
        /\ lock' = j => pc[j] \in Locked \union Ended
        /\ lock' = j /\ pc[j] \in {"loop", "apply"} => recorded' \cap ToSet(t) \subseteq a
    BY <1>F, <2>3
  <2>6. InstanceInv(j)'
    BY <2>3, <2>4, <2>5 DEF InstanceInv
  <2>. QED BY <2>2, <2>6
\* What a step of instance i has to show when it neither deploys nor applies.
<1>A. ASSUME NEW i \in Instances, NEW p \in PCs, pc' = [pc EXCEPT ![i] = p],
             todo' \in [Instances -> Seq(Versions)], applied' \in [Instances -> SUBSET Versions],
             found' \in [Instances -> SUBSET Versions],
             \A j \in Instances : j # i => todo'[j] = todo[j] /\ applied'[j] = applied[j] /\ found'[j] = found[j],
             UNCHANGED <<dir, recorded, schema>>, lock' \in {lock, i},
             Mine(i), InstanceInv(i)', p = "done" => found'[i] \subseteq recorded
      PROVE  MigratorIInv'
  <2>1. \A j \in Instances : pc'[j] = IF j = i THEN p ELSE pc[j]
    BY <1>0, <1>A DEF TypeOK
  <2>2. ASSUME NEW j \in Instances, j # i
        PROVE  InstanceInv(j)' /\ Mine(j) /\ (pc'[j] = "done" => found'[j] \subseteq recorded')
    BY <1>A, <1>F, <2>1, <2>2
  <2>3. TypeOK'
    <3>1. pc' \in [Instances -> PCs] /\ lock' \in Instances \union {Nobody}
      BY <1>0, <1>A DEF TypeOK
    <3>. QED BY <1>0, <1>A, <2>2, <3>1 DEF TypeOK
  <2>4. AppliedOnce' /\ IsFiniteSet(dir)'
    BY <1>0, <1>A DEF AppliedOnce
  <2>5. DoneMeansApplied'
    BY <1>A, <2>1, <2>2 DEF DoneMeansApplied
  <2>6. \A j \in Instances : InstanceInv(j)'
    BY <1>A, <2>2
  <2>. QED BY <2>3, <2>4, <2>5, <2>6 DEF MigratorIInv
<1> HIDE DEF PCs
<1>T. /\ pc \in [Instances -> PCs] /\ todo \in [Instances -> Seq(Versions)]
      /\ applied \in [Instances -> SUBSET Versions] /\ found \in [Instances -> SUBSET Versions]
      /\ recorded \subseteq Versions /\ schema \in [Versions -> Nat] /\ dir \subseteq Files
      /\ lock \in Instances \union {Nobody}
      /\ \A i \in Instances : ToSet(todo[i]) \subseteq found[i] /\ (pc[i] = "apply" => todo[i] # <<>>)
  BY <1>0 DEF TypeOK, PCs
<1>1. ASSUME NEW f \in Files, Deploy(f) PROVE MigratorIInv'
  <2>1. dir' = dir \union {f} /\ UNCHANGED <<lock, pc, todo, applied, recorded, schema, found>>
    BY <1>1 DEF Deploy
  <2>2. IsFiniteSet(dir')
    BY <1>0, <2>1, FS_AddElement
  <2>3. \A j \in Instances : InstanceInv(j)'
    BY <1>F, <2>1
  <2>4. TypeOK' /\ AppliedOnce' /\ DoneMeansApplied'
    BY <1>0, <1>1, <2>1 DEF TypeOK, AppliedOnce, DoneMeansApplied
  <2>. QED BY <2>2, <2>3, <2>4 DEF MigratorIInv
\* A step that only moves an instance to a place where it has nothing to show.
<1>M. ASSUME NEW i \in Instances, NEW p \in {"lock", "table", "load", "failed"},
             pc' = [pc EXCEPT ![i] = p], UNCHANGED <<dir, todo, applied, recorded, schema, found>>,
             lock' \in {lock, i}, lock' = i => p # "lock"
      PROVE  MigratorIInv'
  <2>1. p \in PCs /\ pc'[i] = p
    BY <1>M, <1>T DEF PCs, Locked, Ended
  <2>2. InstanceInv(i)'
    <3>1. InstanceInv(i)
      BY <1>0
    <3>2. p # "lock" => p \in Locked \union Ended
      BY DEF Locked, Ended
    <3>. QED BY <1>M, <2>1, <3>1, <3>2 DEF InstanceInv
  <2>. QED BY <1>A, <1>M, <1>T, <2>1, <2>2
<1>2. ASSUME NEW i \in Instances, OpenWithRetry(i) PROVE MigratorIInv'
  <2>1. lock # i
    <3>1. pc[i] = "open"
      BY <1>2 DEF OpenWithRetry, Goto
    <3>. QED BY <1>0, <3>1 DEF InstanceInv, Locked, Ended
  <2>. QED BY <1>2, <1>M, <2>1 DEF OpenWithRetry, Goto
<1>3. ASSUME NEW i \in Instances, TryAdvisoryLock(i) PROVE MigratorIInv'
  BY <1>3, <1>M DEF TryAdvisoryLock, Goto
<1>4. ASSUME NEW i \in Instances, EnsureTable(i) PROVE MigratorIInv'
  BY <1>4, <1>M DEF EnsureTable, Goto
<1>5. ASSUME NEW i \in Instances, Fail(i) PROVE MigratorIInv'
  BY <1>5, <1>M DEF Fail
<1>6. ASSUME NEW i \in Instances, LoadMigrations(i) PROVE MigratorIInv'
  <2>1. CASE Goto(i, "load", "failed") /\ UNCHANGED <<todo, found>>
    BY <1>6, <1>M, <2>1 DEF LoadMigrations, Goto
  <2>2. CASE /\ Goto(i, "load", "applied")
             /\ found' = [found EXCEPT ![i] = {f.version : f \in dir}]
             /\ todo' = [todo EXCEPT ![i] = Ascending(found'[i])]
    <3> DEFINE V == {f.version : f \in dir}  s == Ascending(V)
    <3>1. V \in SUBSET Versions
      BY <1>T DEF Versions
    <3>2. V \in SUBSET Nat
      BY <3>1, VersionsAreNumbers
    <3>3. IsFiniteSet(V)
      <4> DEFINE g == [f \in dir |-> f.version]
      <4>1. g \in Surjection(dir, V)
        BY DEF Surjection
      <4> HIDE DEF g, V
      <4>. QED BY <1>0, <4>1, FS_Surjection
    <3> HIDE DEF V
    <3>4. s \in Seq(V) /\ ToSet(s) = V /\ \A j, k \in 1 .. Len(s) : j < k => s[j] < s[k]
      BY <3>2, <3>3, AscendingEffect
    <3> HIDE DEF s
    <3>5. /\ pc[i] = "load" /\ pc' = [pc EXCEPT ![i] = "applied"]
          /\ found' = [found EXCEPT ![i] = V] /\ todo' = [todo EXCEPT ![i] = s]
          /\ found'[i] = V /\ todo'[i] = s /\ pc'[i] = "applied"
      BY <1>T, <2>2 DEF Goto, V, s
    <3>6. UNCHANGED <<dir, lock, applied, recorded, schema>>
      BY <1>6 DEF LoadMigrations
    <3>7. s \in Seq(Versions)
      BY <3>1, <3>4
    <3>8. todo' \in [Instances -> Seq(Versions)] /\ found' \in [Instances -> SUBSET Versions]
      BY <1>T, <3>1, <3>5, <3>7
    <3>9. InstanceInv(i)'
      <4>1. applied[i] \subseteq recorded
        BY <1>0 DEF InstanceInv
      <4>2. "applied" \in Locked
        BY DEF Locked
      <4>. QED BY <3>4, <3>5, <3>6, <4>1, <4>2 DEF InstanceInv
    <3>10. Mine(i) /\ "applied" \in PCs
      BY <3>4, <3>5 DEF PCs, Locked
    <3>11. \A j \in Instances : j # i => todo'[j] = todo[j] /\ applied'[j] = applied[j] /\ found'[j] = found[j]
      BY <1>T, <3>5, <3>6
    <3>. QED BY <1>A, <1>T, <3>5, <3>6, <3>8, <3>9, <3>10, <3>11
  <2>. QED BY <1>6, <2>1, <2>2 DEF LoadMigrations
<1>7. ASSUME NEW i \in Instances, LoadApplied(i) PROVE MigratorIInv'
  <2>1. /\ pc[i] = "applied" /\ pc' = [pc EXCEPT ![i] = "loop"]
        /\ applied' = [applied EXCEPT ![i] = recorded]
        /\ UNCHANGED <<dir, lock, todo, recorded, schema, found>>
    BY <1>7 DEF LoadApplied, Goto
  <2>2. pc'[i] = "loop" /\ applied'[i] = recorded /\ "loop" \in PCs /\ "loop" \in Locked
    BY <1>T, <2>1 DEF PCs, Locked
  <2>3. applied' \in [Instances -> SUBSET Versions]
          /\ \A j \in Instances : j # i => applied'[j] = applied[j]
    BY <1>T, <2>1
  <2>4. InstanceInv(i)'
    <3>1. InstanceInv(i)
      BY <1>0
    <3>. QED BY <2>1, <2>2, <3>1 DEF InstanceInv
  <2>. QED BY <1>A, <1>T, <2>1, <2>2, <2>3, <2>4
<1>8. ASSUME NEW i \in Instances, NextMigration(i) PROVE MigratorIInv'
  <2> DEFINE s == todo[i]
  <2>0. /\ pc[i] = "loop" /\ InstanceInv(i) /\ s \in Seq(Versions)
        /\ UNCHANGED <<dir, lock, applied, recorded, schema, found>>
    BY <1>0, <1>8, <1>T DEF NextMigration, Goto
  <2>1. CASE s = <<>> /\ Goto(i, "loop", "done") /\ UNCHANGED todo
    <3>1. pc' = [pc EXCEPT ![i] = "done"] /\ pc'[i] = "done" /\ "done" \in PCs /\ "done" \in Ended
      BY <1>T, <2>1 DEF Goto, PCs, Ended
    <3>2. found[i] \subseteq recorded
      <4>1. ToSet(s) = {}
        BY <2>1 DEF ToSet
      <4>. QED BY <2>0, <4>1 DEF InstanceInv
    <3>3. InstanceInv(i)'
      BY <2>0, <2>1, <3>1 DEF InstanceInv
    <3>. QED BY <1>A, <1>T, <2>0, <2>1, <3>1, <3>2, <3>3
  <2>2. CASE /\ s # <<>> /\ Head(s) \in applied[i]
             /\ Goto(i, "loop", "loop") /\ todo' = [todo EXCEPT ![i] = Tail(@)]
    <3>1. /\ pc' = [pc EXCEPT ![i] = "loop"] /\ pc'[i] = "loop" /\ "loop" \in PCs
          /\ todo'[i] = Tail(s) /\ \A j \in Instances : j # i => todo'[j] = todo[j]
      BY <1>T, <2>2 DEF Goto, PCs, Locked
    <3>2. \A j, k \in 1 .. Len(s) : j < k => s[j] < s[k]
      BY <2>0 DEF InstanceInv
    <3> DEFINE r == Tail(s)  h == Head(s)
    <3>3. /\ r \in Seq(Versions) /\ h \in ToSet(s) /\ ToSet(r) = ToSet(s) \ {h}
          /\ \A j, k \in 1 .. Len(r) : j < k => r[j] < r[k]
          /\ \A w \in ToSet(r) : h < w
      BY <2>0, <2>2, <3>2, TailOfIncreasing, VersionsAreNumbers
    <3>4. todo' \in [Instances -> Seq(Versions)]
      BY <1>T, <2>2, <3>3
    <3> HIDE DEF r, h
    <3>5. todo'[i] = r /\ h \in applied[i]
      BY <2>2, <3>1 DEF r, h
    <3>6. InstanceInv(i)'
      <4>1. applied[i] \subseteq recorded /\ (lock = i => recorded \cap ToSet(s) \subseteq applied[i])
              /\ found[i] \ ToSet(s) \subseteq recorded
              /\ (\A v \in found[i] \ ToSet(s), w \in ToSet(s) : v < w)
              /\ (lock = i => "loop" \in Locked \union Ended)
        BY <2>0 DEF InstanceInv
      <4>2. \A v \in found[i] \ ToSet(r), w \in ToSet(r) : v < w
        BY <3>3, <4>1
      <4>3. found[i] \ ToSet(r) \subseteq recorded
        BY <3>3, <3>5, <4>1
      <4>. QED BY <2>0, <3>1, <3>3, <3>5, <4>1, <4>2, <4>3 DEF InstanceInv
    <3>7. Mine(i)
      BY <1>T, <2>0, <3>1, <3>3, <3>5
    <3>. QED BY <1>A, <1>T, <2>0, <3>1, <3>4, <3>6, <3>7
  <2>3. CASE s # <<>> /\ Head(s) \notin applied[i] /\ Goto(i, "loop", "apply") /\ UNCHANGED todo
    <3>1. pc' = [pc EXCEPT ![i] = "apply"] /\ pc'[i] = "apply" /\ "apply" \in PCs /\ "apply" \in Locked
      BY <1>T, <2>3 DEF Goto, PCs, Locked
    <3>2. InstanceInv(i)'
      BY <2>0, <2>3, <3>1 DEF InstanceInv
    <3>. QED BY <1>A, <1>T, <2>0, <2>3, <3>1, <3>2
  <2>. QED BY <1>8, <2>1, <2>2, <2>3 DEF NextMigration
<1>9. ASSUME NEW i \in Instances, Apply(i) PROVE MigratorIInv'
  <2> DEFINE s == todo[i]  r == Tail(s)  h == Head(s)
  <2>0. /\ lock = i /\ pc[i] = "apply" /\ InstanceInv(i) /\ s \in Seq(Versions) /\ s # <<>>
        /\ UNCHANGED <<dir, lock, applied, found>>
    BY <1>0, <1>9, <1>T DEF Apply, Goto, InSession
  <2>1. \A j, k \in 1 .. Len(s) : j < k => s[j] < s[k]
    BY <2>0 DEF InstanceInv
  <2>2. /\ r \in Seq(Versions) /\ h \in ToSet(s) /\ h \in Versions /\ ToSet(r) = ToSet(s) \ {h}
        /\ \A j, k \in 1 .. Len(r) : j < k => r[j] < r[k]
        /\ \A w \in ToSet(r) : h < w
    BY <2>0, <2>1, TailOfIncreasing, VersionsAreNumbers
  <2>3. PICK p \in {"loop", "failed"} : pc' = [pc EXCEPT ![i] = p]
    BY <1>9 DEF Apply, Goto
  <2>4. /\ todo' = [todo EXCEPT ![i] = r] /\ schema' = [schema EXCEPT ![h] = @ + 1]
        /\ recorded' = recorded \union {h}
    BY <1>9 DEF Apply
  <2>5. h \notin recorded
    <3>1. h \notin applied[i] /\ recorded \cap ToSet(s) \subseteq applied[i]
      BY <2>0 DEF InstanceInv
    <3>. QED BY <2>2, <3>1
  <2> HIDE DEF r, h
  <2>6. /\ pc'[i] = p /\ todo'[i] = r /\ pc' \in [Instances -> PCs] /\ todo' \in [Instances -> Seq(Versions)]
        /\ \A j \in Instances : j # i => pc'[j] = pc[j] /\ todo'[j] = todo[j]
    <3>1. p \in PCs
      BY DEF PCs, Locked, Ended
    <3>. QED BY <1>T, <2>2, <2>3, <2>4, <3>1
  <2>7. AppliedOnce'
    <3> SUFFICES ASSUME NEW v \in Versions PROVE schema'[v] = IF v \in recorded' THEN 1 ELSE 0
      BY DEF AppliedOnce
    <3>1. schema[v] = IF v \in recorded THEN 1 ELSE 0
      BY <1>0 DEF AppliedOnce
    <3>2. CASE v = h
      BY <1>T, <2>2, <2>4, <2>5, <3>1, <3>2
    <3>3. CASE v # h
      BY <1>T, <2>4, <3>1, <3>3
    <3>. QED BY <3>2, <3>3
  <2>8. \A j \in Instances : j # i => InstanceInv(j)' /\ Mine(j) /\ (pc'[j] = "done" => found'[j] \subseteq recorded')
    BY <1>F, <2>0, <2>4, <2>6
  <2>9. InstanceInv(i)'
    <3>1. /\ applied[i] \subseteq recorded /\ recorded \cap ToSet(s) \subseteq applied[i]
          /\ found[i] \ ToSet(s) \subseteq recorded
          /\ \A v \in found[i] \ ToSet(s), w \in ToSet(s) : v < w
      BY <2>0 DEF InstanceInv
    <3>2. \A v \in found[i] \ ToSet(r), w \in ToSet(r) : v < w
      BY <2>2, <3>1
    <3>3. found[i] \ ToSet(r) \subseteq recorded'
      BY <2>2, <2>4, <3>1
    <3>4. recorded' \cap ToSet(r) \subseteq applied[i] /\ applied[i] \subseteq recorded'
      BY <2>2, <2>4, <3>1
    <3>5. p \in Locked \union Ended
      BY DEF Locked, Ended
    <3>. QED BY <2>0, <2>2, <2>6, <3>2, <3>3, <3>4, <3>5 DEF InstanceInv
  <2>10. TypeOK'
    <3>1. recorded' \subseteq Versions
      BY <1>T, <2>2, <2>4
    <3>2. schema' \in [Versions -> Nat]
      BY <1>T, <2>2, <2>4
    <3>3. Mine(i)
      <4>1. ToSet(r) \subseteq found[i]
        BY <1>T, <2>2
      <4>. QED BY <2>0, <2>6, <4>1
    <3>4. \A j \in Instances : Mine(j)
      BY <2>8, <3>3
    <3>. QED BY <1>T, <2>0, <2>6, <3>1, <3>2, <3>4 DEF TypeOK, PCs
  <2>11. DoneMeansApplied'
    BY <2>6, <2>8 DEF DoneMeansApplied
  <2>12. IsFiniteSet(dir)'
    BY <1>0, <2>0
  <2>13. \A j \in Instances : InstanceInv(j)'
    BY <2>8, <2>9
  <2>. QED BY <2>7, <2>10, <2>11, <2>12, <2>13 DEF MigratorIInv
<1>10. ASSUME NEW i \in Instances, EndSession(i) PROVE MigratorIInv'
  <2>1. lock' = Nobody /\ UNCHANGED <<dir, pc, todo, applied, recorded, schema, found>>
    BY <1>10 DEF EndSession
  <2>2. \A j \in Instances : InstanceInv(j)'
    BY <1>F, <2>1, ConstantsAssumption
  <2>3. TypeOK' /\ AppliedOnce' /\ DoneMeansApplied'
    BY <1>0, <2>1 DEF TypeOK, AppliedOnce, DoneMeansApplied
  <2>. QED BY <1>0, <2>1, <2>2, <2>3 DEF MigratorIInv
<1>11. ASSUME UNCHANGED vars PROVE MigratorIInv'
  <2>1. UNCHANGED <<dir, lock, pc, todo, applied, recorded, schema, found>>
    BY <1>11 DEF vars
  <2>2. \A j \in Instances : InstanceInv(j)'
    BY <1>F, <2>1
  <2>3. TypeOK' /\ AppliedOnce' /\ DoneMeansApplied'
    BY <1>0, <2>1 DEF TypeOK, AppliedOnce, DoneMeansApplied
  <2>. QED BY <1>0, <2>1, <2>2, <2>3 DEF MigratorIInv
<1>. QED
  BY <1>1, <1>2, <1>3, <1>4, <1>5, <1>6, <1>7, <1>8, <1>9, <1>10, <1>11 DEF Next, Step

\* The migrations of a database take effect once each and in the order of their versions,
\* and an instance that reports success leaves none pending, however many instances run,
\* die or lose their session (cmd/migrator/main.go, main and apply).
THEOREM MigrationsOnceInOrder == MCSpec => []MigratorInv
<1>1. MCInit => MigratorIInv
  BY MigratorInit DEF MCInit
<1>2. MigratorIInv /\ [MCNext]_<<command, vars, dlqVars>> => MigratorIInv'
  <2> SUFFICES ASSUME MigratorIInv, [MCNext]_<<command, vars, dlqVars>> PROVE MigratorIInv'
    OBVIOUS
  <2>1. [Next]_vars
    BY DEF MCNext, MigratorStep, DlqStep
  <2>. QED BY <2>1, MigratorStepInv
<1>. QED BY <1>1, <1>2, OrderFollows, PTL DEF MCSpec

-----------------------------------------------------------------------------
(* The dead-letter command.                                                *)

\* The library's operators as DlqReplay sees them.
LEMMA SameOperators ==
  /\ \A S : Dlq!IsFiniteSet(S) <=> IsFiniteSet(S)
  /\ \A S : Dlq!Cardinality(S) = Cardinality(S)
  /\ \A s : Dlq!ToSet(s) = ToSet(s)
  /\ \A S : Dlq!Ascending(S) = Ascending(S)
<1>1. \A S : Dlq!IsFiniteSet(S) <=> IsFiniteSet(S)
  BY DEF Dlq!IsFiniteSet, IsFiniteSet
<1>2. \A S : Dlq!Cardinality(S) = Cardinality(S)
  BY DEF Dlq!Cardinality, Cardinality, Dlq!IsFiniteSet, IsFiniteSet
<1>3. \A s : Dlq!ToSet(s) = ToSet(s)
  BY DEF Dlq!ToSet, ToSet
<1>4. \A S : Dlq!Ascending(S) = Ascending(S)
  BY DEF Dlq!Ascending, Dlq!Rank, Ascending, Rank, Dlq!Cardinality, Cardinality,
         Dlq!IsFiniteSet, IsFiniteSet
<1>. QED BY <1>1, <1>2, <1>3, <1>4

\* XREVRANGE of a stream that is not empty returns messages of it.
LEMMA NewestFirst ==
  ASSUME dlq \in SUBSET Nat, IsFiniteSet(dlq), dlq # {}, Limit \in Nat \ {0}
  PROVE  Dlq!XRevRange \in Seq(dlq) /\ Dlq!XRevRange # <<>>
<1> DEFINE n == Cardinality(dlq)  s == Ascending(dlq)  l == IF n < Limit THEN n ELSE Limit
           x == Dlq!XRevRange
<1>1. n \in Nat /\ n # 0
  BY FS_CardinalityType, FS_EmptySet
<1>2. s \in Seq(dlq) /\ Len(s) = n
  BY AscendingEffect
<1>3. x = [k \in 1 .. l |-> s[n + 1 - k]]
  BY SameOperators DEF Dlq!XRevRange
<1> HIDE DEF n, s, x
<1>4. l \in Nat \ {0} /\ l <= n
  BY <1>1
<1> HIDE DEF l
<1>5. ASSUME NEW k \in 1 .. l PROVE s[n + 1 - k] \in dlq
  <2>1. n + 1 - k \in 1 .. n
    BY <1>1, <1>4
  <2>. QED BY <1>2, <2>1
<1>6. x \in Seq(dlq) /\ Len(x) = l
  BY <1>3, <1>4, <1>5
<1>7. x # <<>>
  BY <1>4, <1>6
<1>. QED BY <1>6, <1>7 DEF x

LEMMA ReplayInit == Dlq!Init => Dlq!ReplayInv
<1> SUFFICES ASSUME Dlq!Init PROVE Dlq!ReplayInv
  OBVIOUS
<1>1. \A c \in Cmds : cmd[c].pc = "idle" /\ cmd[c].todo = <<>>
  BY DEF Dlq!Init, Dlq!Idle
<1>2. Dlq!TypeOK
  <2>1. cmd \in [Cmds -> [pc : {"idle", "replay", "script", "purge"}, todo : Seq(Dlq!Ids)]]
    BY DEF Dlq!Init, Dlq!Idle
  <2>2. 0 \in 0 .. MaxFaults
    BY DlqConstants DEF Dlq!ConstantsOK
  <2>. QED BY <1>1, <2>1, <2>2 DEF Dlq!Init, Dlq!TypeOK
<1>3. Dlq!NoneLost /\ Dlq!GuardedOnce
  BY DEF Dlq!Init, Dlq!NoneLost, Dlq!GuardedOnce
<1>4. IsFiniteSet(arrived)
  BY FS_EmptySet DEF Dlq!Init
<1>5. \A c \in Cmds : ToSet(cmd[c].todo) \subseteq arrived
  BY <1>1 DEF ToSet
<1>6. \A m \in Matches : m \notin guard => replays[m] = 0
  BY DEF Dlq!Init
<1>7. \A c \in Cmds : \A m : ~Dlq!AtScript(c, m)
  BY <1>1 DEF Dlq!AtScript
<1>. QED BY <1>2, <1>3, <1>4, <1>5, <1>6, <1>7, SameOperators DEF Dlq!ReplayInv

LEMMA ReplayStep == Dlq!ReplayInv /\ [Dlq!Next]_dlqVars => Dlq!ReplayInv'
<1> SUFFICES ASSUME Dlq!ReplayInv, [Dlq!Next]_dlqVars PROVE Dlq!ReplayInv'
  OBVIOUS
<1> DEFINE Rec == [pc : {"idle", "replay", "script", "purge"}, todo : Seq(Dlq!Ids)]
           At(c, m) == Dlq!AtScript(c, m)
\* the conjuncts of ReplayInv by subject: sets, counters, commands, guard keys
           Sets == /\ dlq \subseteq arrived /\ arrived \subseteq Dlq!Ids /\ purged \subseteq arrived
                   /\ guard \subseteq Matches /\ IsFiniteSet(arrived)
           Counts == /\ faults \in 0 .. MaxFaults /\ copies \in [Dlq!Ids -> Nat]
                     /\ replays \in [Matches -> Nat]
           Commands == /\ cmd \in [Cmds -> Rec]
                       /\ \A c \in Cmds : cmd[c].todo = <<>> <=> cmd[c].pc = "idle"
                       /\ \A c \in Cmds : ToSet(cmd[c].todo) \subseteq arrived
           Guards == /\ \A m \in guard : replays[m] <= 1
                     /\ \A m \in Matches : m \notin guard => replays[m] = 0
                     /\ \A c \in Cmds, m \in Matches : At(c, m) => m \in guard /\ replays[m] = 0
                     /\ \A c, d \in Cmds, m \in Matches : c # d /\ At(c, m) => ~At(d, m)
           Kept == \A i \in arrived : i \in dlq \/ copies[i] > 0 \/ i \in purged
<1>0. Sets /\ Counts /\ Commands /\ Guards /\ Kept
  BY SameOperators DEF Dlq!ReplayInv, Dlq!TypeOK, Dlq!NoneLost, Dlq!GuardedOnce
<1>P. Sets' /\ Counts' /\ Commands' /\ Guards' /\ Kept' => Dlq!ReplayInv'
  BY SameOperators DEF Dlq!ReplayInv, Dlq!TypeOK, Dlq!NoneLost, Dlq!GuardedOnce
<1>N. /\ Dlq!Ids \in SUBSET Nat /\ NoMatch \notin Matches /\ Limit \in Nat \ {0} /\ MaxFaults \in Nat
      /\ \A i \in Dlq!Ids : MatchOf[i] \in Matches \union {NoMatch}
  BY DlqConstants DEF Dlq!ConstantsOK
\* Command c moves on to r.
<1>C. ASSUME NEW c \in Cmds, NEW r \in Rec, cmd' = [cmd EXCEPT ![c] = r], arrived' = arrived,
             r.todo = <<>> <=> r.pc = "idle", ToSet(r.todo) \subseteq arrived
      PROVE  /\ Commands'
             /\ \A d \in Cmds, m \in Matches : d # c => (At(d, m)' <=> At(d, m))
             /\ \A m \in Matches : At(c, m)' => r.pc = "script" /\ MatchOf[Head(r.todo)] = m
  <2>1. cmd' \in [Cmds -> Rec] /\ cmd'[c] = r /\ \A d \in Cmds : d # c => cmd'[d] = cmd[d]
    BY <1>0, <1>C
  <2>. QED BY <1>0, <1>C, <2>1 DEF Dlq!AtScript
\* What a command has left after a message.
<1>D. ASSUME NEW c \in Cmds, cmd[c].pc # "idle"
      PROVE  /\ cmd[c].todo # <<>> /\ cmd[c].todo \in Seq(Dlq!Ids) /\ Head(cmd[c].todo) \in arrived
             /\ Dlq!Done(c) \in Rec /\ Dlq!Done(c).pc # "script"
             /\ Dlq!Done(c).todo = <<>> <=> Dlq!Done(c).pc = "idle"
             /\ ToSet(Dlq!Done(c).todo) \subseteq arrived
  <2> DEFINE t == cmd[c].todo
  <2>1. t \in Seq(Dlq!Ids) /\ t # <<>> /\ ToSet(t) \subseteq arrived
    BY <1>0, <1>D
  <2> HIDE DEF t
  <2>2. Len(t) \in Nat \ {0} /\ DOMAIN t = 1 .. Len(t) /\ Head(t) = t[1]
    BY <2>1
  <2>3. Head(t) \in arrived
    BY <2>1, <2>2 DEF ToSet
  <2>4. CASE Len(t) = 1
    <3>1. Dlq!Done(c) = [pc |-> "idle", todo |-> <<>>]
      BY <2>4 DEF Dlq!Done, Dlq!Idle, t
    <3>. QED BY <2>1, <2>3, <3>1 DEF ToSet, t
  <2>5. CASE Len(t) # 1
    <3>1. Dlq!Done(c) = [pc |-> "replay", todo |-> Tail(t)]
      BY <2>5 DEF Dlq!Done, t
    <3>2. Tail(t) \in Seq(Dlq!Ids) /\ Len(Tail(t)) = Len(t) - 1 /\ DOMAIN Tail(t) = 1 .. Len(t) - 1
            /\ \A k \in 1 .. Len(t) - 1 : Tail(t)[k] = t[k + 1]
      BY <2>1, <2>2
    <3>3. Tail(t) # <<>>
      BY <2>2, <2>5, <3>2, SMTT(30)
    <3>4. \A k \in 1 .. Len(t) - 1 : k + 1 \in 1 .. Len(t)
      BY <2>2
    <3>5. ToSet(Tail(t)) \subseteq ToSet(t)
      BY <2>2, <3>2, <3>4 DEF ToSet
    <3>. QED BY <2>1, <2>3, <3>1, <3>2, <3>3, <3>5 DEF t
  <2>. QED BY <2>4, <2>5
<1>I. Dlq!Idle \in Rec /\ Dlq!Idle.pc = "idle" /\ Dlq!Idle.todo = <<>> /\ ToSet(<<>>) = {}
  BY DEF Dlq!Idle, ToSet
\* A command ends or takes the next message, and nothing was replayed.
<1>G. ASSUME NEW c \in Cmds, NEW r \in Rec, cmd' = [cmd EXCEPT ![c] = r], r.pc # "script",
             r.todo = <<>> <=> r.pc = "idle", ToSet(r.todo) \subseteq arrived,
             UNCHANGED <<dlq, arrived, copies, purged, replays>>,
             guard \subseteq guard', guard' \subseteq Matches,
             faults' \in 0 .. MaxFaults
      PROVE  Dlq!ReplayInv'
  <2>1. Commands' /\ \A d \in Cmds, m \in Matches : At(d, m)' => d # c /\ At(d, m)
    BY <1>C, <1>G
  <2>2. Sets' /\ Counts' /\ Kept'
    BY <1>0, <1>G
  <2>3. Guards'
    <3>1. \A m \in Matches : replays[m] = 0 \/ m \in guard
      BY <1>0
    <3>2. \A m \in guard' : replays'[m] <= 1
      BY <1>0, <1>G, <3>1
    <3>3. \A m \in Matches : m \notin guard' => replays'[m] = 0
      BY <1>G, <3>1
    <3> HIDE DEF At
    <3>4. \A d \in Cmds, m \in Matches : At(d, m)' => m \in guard' /\ replays'[m] = 0
      BY <1>0, <1>G, <2>1
    <3>5. \A d, e \in Cmds, m \in Matches : d # e /\ At(d, m)' => ~At(e, m)'
      BY <1>0, <2>1
    <3>. QED BY <3>2, <3>3, <3>4, <3>5
  <2>. QED BY <1>P, <2>1, <2>2, <2>3
<1>f. Dlq!Fault => faults' \in 0 .. MaxFaults
  BY <1>0, <1>N DEF Dlq!Fault
<1>1. ASSUME NEW i \in Dlq!Ids, Dlq!DeadLetter(i) PROVE Dlq!ReplayInv'
  <2>1. /\ arrived' = arrived \union {i} /\ dlq' = dlq \union {i}
        /\ UNCHANGED <<guard, cmd, faults, copies, purged, replays>>
    BY <1>1 DEF Dlq!DeadLetter
  <2>2. IsFiniteSet(arrived')
    BY <1>0, <2>1, FS_AddElement
  <2>3. Sets' /\ Counts' /\ Commands' /\ Kept'
    BY <1>0, <2>1, <2>2
  <2>4. Guards'
    BY <1>0, <2>1 DEF Dlq!AtScript
  <2>. QED BY <1>P, <2>3, <2>4
<1>2. ASSUME NEW c \in Cmds, NEW a \in {"replay", "purge"}, Dlq!Read(c, a) PROVE Dlq!ReplayInv'
  <2> DEFINE x == Dlq!XRevRange  r == [pc |-> a, todo |-> x]
  <2>1. x \in Seq(dlq) /\ x # <<>>
    <3>1. dlq \in SUBSET Nat /\ dlq # {}
      BY <1>0, <1>2, <1>N DEF Dlq!Read
    <3>2. IsFiniteSet(dlq)
      BY <1>0, FS_Subset
    <3>. QED BY <1>N, <3>1, <3>2, NewestFirst
  <2>2. /\ cmd' = [cmd EXCEPT ![c] = r]
        /\ UNCHANGED <<dlq, arrived, guard, faults, copies, purged, replays>>
    BY <1>2 DEF Dlq!Read
  <2> HIDE DEF x
  <2>3. x \in Seq(Dlq!Ids) /\ ToSet(x) \subseteq arrived
    BY <1>0, <2>1 DEF ToSet
  <2>4. r \in Rec /\ r.pc # "script" /\ (r.todo = <<>> <=> r.pc = "idle") /\ ToSet(r.todo) \subseteq arrived
    BY <2>1, <2>3
  <2> HIDE DEF r
  <2>. QED BY <1>0, <1>G, <2>2, <2>4
<1>3. ASSUME NEW c \in Cmds, Dlq!Guard(c) PROVE Dlq!ReplayInv'
  <2> DEFINE t == cmd[c].todo  m == MatchOf[Head(t)]  r == [pc |-> "script", todo |-> t]  e == Dlq!Done(c)
  <2>1. cmd[c].pc # "idle" /\ UNCHANGED <<dlq, arrived, copies, purged, replays>>
    BY <1>3 DEF Dlq!Guard
  <2>2. /\ t # <<>> /\ t \in Seq(Dlq!Ids) /\ Head(t) \in arrived /\ ToSet(t) \subseteq arrived
        /\ e \in Rec /\ e.pc # "script" /\ (e.todo = <<>> <=> e.pc = "idle") /\ ToSet(e.todo) \subseteq arrived
    BY <1>0, <1>D, <2>1
  <2>3. m \in Matches \union {NoMatch}
    BY <1>0, <1>N, <2>2
  <2> HIDE DEF e
  <2>4. CASE cmd' = [cmd EXCEPT ![c] = e] /\ guard' \in {guard, guard \union {m}} /\ (m = NoMatch => guard' = guard)
               /\ faults' \in 0 .. MaxFaults
    <3>1. guard \subseteq guard' /\ guard' \subseteq Matches
      BY <1>0, <2>3, <2>4
    <3>. QED BY <1>G, <2>1, <2>2, <2>4, <3>1
  <2>5. CASE cmd' = [cmd EXCEPT ![c].pc = "script"] /\ m \notin guard /\ faults' = faults
               /\ guard' = IF m = NoMatch THEN guard ELSE guard \union {m}
    <3>1. r \in Rec /\ r.pc = "script" /\ r.todo = t
      BY <2>2
    <3>2. cmd' = [cmd EXCEPT ![c] = r]
      <4>1. cmd[c] \in Rec
        BY <1>0
      <4>2. [cmd[c] EXCEPT !.pc = "script"] = [pc |-> "script", todo |-> cmd[c].todo]
        BY <4>1
      <4>. QED BY <2>5, <4>2
    <3> HIDE DEF r, t, m
    <3>3. /\ Commands'
          /\ \A d \in Cmds, n \in Matches : d # c => (At(d, n)' <=> At(d, n))
          /\ \A n \in Matches : At(c, n)' => n = m
      <4>1. r \in Rec /\ cmd' = [cmd EXCEPT ![c] = r] /\ arrived' = arrived
              /\ (r.todo = <<>> <=> r.pc = "idle") /\ ToSet(r.todo) \subseteq arrived
        BY <2>1, <2>2, <3>1, <3>2
      <4> HIDE DEF Rec, Commands, At
      <4>2. /\ Commands'
            /\ \A d \in Cmds, n \in Matches : d # c => (At(d, n)' <=> At(d, n))
            /\ \A n \in Matches : At(c, n)' => r.pc = "script" /\ MatchOf[Head(r.todo)] = n
        BY <1>C, <4>1
      <4>. QED BY <3>1, <4>2 DEF m
    <3>4. Sets' /\ Counts' /\ Kept'
      BY <1>0, <2>1, <2>3, <2>5
    <3>5. Guards'
      <4>1. \A n \in Matches : n \notin guard => replays[n] = 0
        BY <1>0
      <4>2. \A n \in guard' : replays'[n] <= 1
        BY <1>0, <2>1, <2>3, <2>5, <4>1
      <4>3. \A n \in Matches : n \notin guard' => replays'[n] = 0
        BY <2>1, <2>5, <4>1
      <4> HIDE DEF At
      <4>4. \A d \in Cmds, n \in Matches : d # c /\ At(d, n)' => n \in guard /\ n # m /\ replays[n] = 0
        BY <1>0, <2>5, <3>3
      <4>5. \A d \in Cmds, n \in Matches : At(d, n)' => n \in guard' /\ replays'[n] = 0
        BY <1>N, <2>1, <2>3, <2>5, <3>3, <4>1, <4>4
      <4>6. \A d, f \in Cmds, n \in Matches : d # f /\ At(d, n)' => ~At(f, n)'
        BY <1>0, <3>3, <4>4
      <4>. QED BY <4>2, <4>3, <4>5, <4>6
    <3>. QED BY <1>P, <3>3, <3>4, <3>5
  <2>6. \/ cmd' = [cmd EXCEPT ![c] = e] /\ guard' \in {guard, guard \union {m}} /\ (m = NoMatch => guard' = guard)
             /\ faults' \in 0 .. MaxFaults
        \/ cmd' = [cmd EXCEPT ![c].pc = "script"] /\ m \notin guard /\ faults' = faults
             /\ guard' = IF m = NoMatch THEN guard ELSE guard \union {m}
    <3>1. /\ \/ m = NoMatch /\ cmd' = [cmd EXCEPT ![c].pc = "script"] /\ guard' = guard /\ faults' = faults
             \/ /\ m # NoMatch /\ m \notin guard /\ guard' = guard \union {m} /\ faults' = faults
                /\ cmd' = [cmd EXCEPT ![c].pc = "script"]
             \/ m \in guard /\ cmd' = [cmd EXCEPT ![c] = e] /\ guard' = guard /\ faults' = faults
             \/ /\ m # NoMatch /\ Dlq!Fault /\ guard' \in {guard, guard \union {m}}
                /\ cmd' = [cmd EXCEPT ![c] = e]
      BY <1>3 DEF Dlq!Guard, e
    <3>2. NoMatch \notin guard /\ faults \in 0 .. MaxFaults
      BY <1>0, <1>N
    <3> HIDE DEF m
    <3>. QED BY <1>f, <3>1, <3>2
  <2>. QED BY <2>4, <2>5, <2>6
<1>4. ASSUME NEW c \in Cmds, Dlq!Script(c) PROVE Dlq!ReplayInv'
  <2> DEFINE i == Head(cmd[c].todo)  e == Dlq!Done(c)  m == MatchOf[i]
  <2>1. /\ cmd[c].pc = "script" /\ dlq' = dlq \ {i} /\ copies' = [copies EXCEPT ![i] = @ + 1]
        /\ replays' = [n \in Matches |-> IF n = m THEN replays[n] + 1 ELSE replays[n]]
        /\ cmd' = [cmd EXCEPT ![c] = e] /\ UNCHANGED <<arrived, guard, faults, purged>>
    BY <1>4 DEF Dlq!Script
  <2>2. /\ i \in arrived /\ i \in Dlq!Ids
        /\ e \in Rec /\ e.pc # "script" /\ (e.todo = <<>> <=> e.pc = "idle") /\ ToSet(e.todo) \subseteq arrived
    BY <1>0, <1>D, <2>1
  <2>3. m \in Matches => At(c, m)
    BY <2>1 DEF Dlq!AtScript
  <2> HIDE DEF e, i
  <2>4. Commands' /\ \A d \in Cmds, n \in Matches : At(d, n)' => d # c /\ At(d, n)
    BY <1>C, <2>1, <2>2
  <2>5. Sets' /\ Counts'
    BY <1>0, <2>1, <2>2
  <2>6. Kept'
    <3>1. /\ copies'[i] = copies[i] + 1 /\ copies[i] \in Nat
          /\ \A j \in Dlq!Ids : j # i => copies'[j] = copies[j]
      BY <1>0, <2>1, <2>2
    <3>. QED BY <1>0, <2>1, <2>2, <3>1
  <2>7. Guards'
    <3>1. \A n \in Matches : replays'[n] = IF n = m THEN replays[n] + 1 ELSE replays[n]
      BY <2>1
    <3> HIDE DEF At, m
    <3>2. m \in Matches => m \in guard /\ replays[m] = 0
      BY <1>0, <2>3
    <3>3. \A n \in guard' : replays'[n] <= 1
      BY <1>0, <2>1, <3>1, <3>2
    <3>4. \A n \in Matches : n \notin guard' => replays'[n] = 0
      BY <1>0, <2>1, <3>1, <3>2
    <3>5. \A d \in Cmds, n \in Matches : At(d, n)' => n \in guard' /\ replays'[n] = 0
      <4>1. \A d \in Cmds, n \in Matches : At(d, n)' => n # m
        BY <1>0, <2>3, <2>4
      <4>. QED BY <1>0, <2>1, <2>4, <3>1, <4>1
    <3>6. \A d, f \in Cmds, n \in Matches : d # f /\ At(d, n)' => ~At(f, n)'
      BY <1>0, <2>4
    <3>. QED BY <3>3, <3>4, <3>5, <3>6
  <2>. QED BY <1>P, <2>4, <2>5, <2>6, <2>7
<1>5. ASSUME NEW c \in Cmds, Dlq!ScriptFails(c) PROVE Dlq!ReplayInv'
  <2> DEFINE e == Dlq!Done(c)
  <2>1. /\ cmd[c].pc # "idle" /\ cmd' = [cmd EXCEPT ![c] = e] /\ faults' \in 0 .. MaxFaults
        /\ UNCHANGED <<dlq, arrived, guard, copies, purged, replays>>
    BY <1>5, <1>f DEF Dlq!ScriptFails
  <2>2. e \in Rec /\ e.pc # "script" /\ (e.todo = <<>> <=> e.pc = "idle") /\ ToSet(e.todo) \subseteq arrived
    BY <1>D, <2>1
  <2> HIDE DEF e
  <2>. QED BY <1>0, <1>G, <2>1, <2>2
<1>6. ASSUME NEW c \in Cmds, Dlq!Abort(c) PROVE Dlq!ReplayInv'
  <2>1. /\ cmd' = [cmd EXCEPT ![c] = Dlq!Idle] /\ faults' \in 0 .. MaxFaults
        /\ UNCHANGED <<dlq, arrived, guard, copies, purged, replays>>
    BY <1>6, <1>f DEF Dlq!Abort
  <2>2. Dlq!Idle \in Rec /\ Dlq!Idle.pc # "script" /\ (Dlq!Idle.todo = <<>> <=> Dlq!Idle.pc = "idle")
          /\ ToSet(Dlq!Idle.todo) \subseteq arrived
    BY <1>I
  <2>. QED BY <1>0, <1>G, <2>1, <2>2
<1>7. ASSUME NEW c \in Cmds, Dlq!Purge(c) PROVE Dlq!ReplayInv'
  <2>1. /\ dlq' = dlq \ ToSet(cmd[c].todo) /\ purged' = purged \union ToSet(cmd[c].todo)
        /\ cmd' = [cmd EXCEPT ![c] = Dlq!Idle]
        /\ UNCHANGED <<arrived, guard, faults, copies, replays>>
    BY <1>7, SameOperators DEF Dlq!Purge
  <2>2. Dlq!Idle \in Rec /\ Dlq!Idle.pc # "script" /\ (Dlq!Idle.todo = <<>> <=> Dlq!Idle.pc = "idle")
          /\ ToSet(Dlq!Idle.todo) \subseteq arrived
    BY <1>I
  <2>3. Commands' /\ \A d \in Cmds, n \in Matches : At(d, n)' => d # c /\ At(d, n)
    BY <1>C, <2>1, <2>2
  <2>4. Sets' /\ Counts' /\ Kept'
    BY <1>0, <2>1
  <2>5. Guards'
    <3> HIDE DEF At
    <3>. QED BY <1>0, <2>1, <2>3
  <2>. QED BY <1>P, <2>3, <2>4, <2>5
<1>8. ASSUME NEW m \in Matches, Dlq!GuardExpires(m) PROVE Dlq!ReplayInv'
  <2>1. /\ guard' = guard \ {m} /\ replays' = [replays EXCEPT ![m] = 0]
        /\ UNCHANGED <<dlq, arrived, cmd, faults, copies, purged>>
        /\ \A c \in Cmds : ~At(c, m)
    BY <1>8 DEF Dlq!GuardExpires, Dlq!AtScript
  <2>2. Sets' /\ Counts' /\ Commands' /\ Kept'
    BY <1>0, <2>1
  <2>3. \A c \in Cmds, n \in Matches : At(c, n)' <=> At(c, n)
    BY <2>1 DEF Dlq!AtScript
  <2>4. \A n \in Matches : replays'[n] = IF n = m THEN 0 ELSE replays[n]
    BY <1>0, <2>1
  <2>5. Guards'
    <3> HIDE DEF At
    <3>. QED BY <1>0, <2>1, <2>3, <2>4
  <2>. QED BY <1>P, <2>2, <2>5
<1>9. ASSUME UNCHANGED dlqVars PROVE Dlq!ReplayInv'
  <2>1. UNCHANGED <<dlq, arrived, guard, cmd, faults, copies, purged, replays>>
    BY <1>9 DEF dlqVars
  <2>2. Sets' /\ Counts' /\ Commands' /\ Kept'
    BY <1>0, <2>1
  <2>3. Guards'
    BY <1>0, <2>1 DEF Dlq!AtScript
  <2>. QED BY <1>P, <2>2, <2>3
<1>. QED
  BY <1>1, <1>2, <1>3, <1>4, <1>5, <1>6, <1>7, <1>8, <1>9 DEF Dlq!Next, Dlq!CmdStep

LEMMA ReplayInvariant == MCSpec => []Dlq!ReplayInv
<1>1. MCInit => Dlq!ReplayInv
  BY ReplayInit DEF MCInit
<1>2. Dlq!ReplayInv /\ [MCNext]_<<command, vars, dlqVars>> => Dlq!ReplayInv'
  <2> SUFFICES ASSUME Dlq!ReplayInv, [MCNext]_<<command, vars, dlqVars>> PROVE Dlq!ReplayInv'
    OBVIOUS
  <2>1. [Dlq!Next]_dlqVars
    BY DEF MCNext, MigratorStep, DlqStep
  <2>. QED BY <2>1, ReplayStep
<1>. QED BY <1>1, <1>2, PTL DEF MCSpec

\* Whatever fails or is interrupted, a dead-lettered message stays until a copy of it is in
\* its queue or an operator deleted it (cmd/dlq/main.go, cmdReplay and cmdPurge).
THEOREM NothingLost == MCSpec => []DlqInv
<1>1. Dlq!ReplayInv => DlqInv
  BY DEF Dlq!ReplayInv, DlqInv
<1>. QED BY <1>1, ReplayInvariant, PTL

\* However many commands run at once or again, a match is replayed at most once while its
\* guard key lives (cmd/dlq/main.go, cmdReplay).
THEOREM ReplayedOnce == MCSpec => []GuardedOnce
<1>1. Dlq!ReplayInv => GuardedOnce
  BY DEF Dlq!ReplayInv, GuardedOnce
<1>. QED BY <1>1, ReplayInvariant, PTL

=============================================================================
