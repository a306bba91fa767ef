----------------------- MODULE OracleSelectionProofs -----------------------
(***************************************************************************)
(* What main has established when it makes a step of an oracle experiment: *)
(* a fact for every step made (FactsInv), kept until the step is made      *)
(* again.  From the facts follow the overlap of victim and aggressors, the *)
(* lines and the chains.                                                   *)
(***************************************************************************)
EXTENDS OracleSetupProofs

-----------------------------------------------------------------------------
(* The overlap of victim and aggressor.                                    *)

\* The classes one after the other, as a sequence.
LEMMA GroupIs ==
  ASSUME NEW g \in Nat, NEW G, NEW v, OneToOne(v, g, G)
  PROVE  v \in Seq(G) /\ Len(v) = g /\ Range(v) \subseteq G /\ OneToOne(v, Len(v), G)
<1>1. v \in [1..g -> G]
  BY DEF OneToOne
<1>2. v \in Seq(G) /\ Len(v) = g
  BY <1>1
<1>3. Range(v) \subseteq G
  BY <1>1 DEF Range
<1> QED BY <1>2, <1>3

\* The two groups exchanged.
LEMMA GroupsSwap ==
  ASSUME NEW v, NEW d, NEW g, NEW G, Groups(v, d, g, G)
  PROVE  Groups(d, v, g, G)
  BY DEF Groups

\* An aggressor with h of the victim's classes passes the test of its level.
LEMMA LevelExact ==
  ASSUME NEW ms, NEW g \in Nat, NEW G, G \subseteq Range(class_space(ms)), NEW v, NEW d, Groups(v, d, g, G),
         NEW h \in 0..g, NEW q \in Nat \ {0}
  PROVE  /\ histogram_unique_classes(Bars(ms, Range(v), q)) = g
         /\ LevelIsExact(Bars(ms, Range(v), q), Bars(ms, Range(Mixed(v, d, g, h)), q), h, g, q)
<1> DEFINE c == Mixed(v, d, g, h)
           V == Range(v)
           A == Range(c)
<1>1. /\ c \in Seq(G) /\ Len(c) = g /\ OneToOne(c, g, G)
      /\ IsFiniteSet(V) /\ IsFiniteSet(A)
      /\ Cardinality(V) = g /\ Cardinality(A) = g
      /\ Cardinality(V \cap A) = h
      /\ Cardinality(V \cup A) = 2 * g - h
  <2>1. Shares(v, c, g, h, G)
    BY MixedIs
  <2> HIDE DEF c
  <2> QED BY <2>1 DEF Shares
<1>2. OneToOne(v, g, G)
  BY DEF Groups
<1> HIDE DEF c
<1>3. V \subseteq Range(class_space(ms)) /\ A \subseteq Range(class_space(ms))
  BY <1>1, <1>2, GroupIs
<1> HIDE DEF V, A
<1>4. Compares(Bars(ms, V, q), Bars(ms, A, q), V, A, q)
  BY <1>1, <1>3, BarsIs
<1>5. Compares(Bars(ms, V, q), Bars(ms, V, q), V, V, q)
  BY <1>1, <1>3, BarsIs
<1> QED BY <1>1, <1>4, <1>5 DEF Compares, LevelIsExact, V, A, c

\* Two groups have no line in common classes.
LEMMA GroupsApart ==
  ASSUME NEW ms, NEW g \in Nat, NEW G, G \subseteq Range(class_space(ms)), NEW v, NEW d, Groups(v, d, g, G),
         NEW q \in Nat \ {0}
  PROVE  Intersection(Bars(ms, Range(v), q), Bars(ms, Range(d), q)) = 0
<1> DEFINE V == Range(v)
           D == Range(d)
<1>0. 0 \in 0..g
  OBVIOUS
<1>1. IsFiniteSet(V)
  BY <1>0, MixedIs DEF Shares
<1>2. IsFiniteSet(D)
  <2>1. Groups(d, v, g, G)
    BY GroupsSwap
  <2> QED BY <1>0, <2>1, MixedIs DEF Shares
<1>3. OneToOne(v, g, G) /\ OneToOne(d, g, G) /\ \A i, j \in 1..g : v[i] # d[j]
  BY DEF Groups
<1>4. V \subseteq Range(class_space(ms)) /\ D \subseteq Range(class_space(ms))
  BY <1>3, GroupIs
<1>5. V \cap D = {}
  <2>1. v \in [1..g -> G] /\ d \in [1..g -> G]
    BY <1>3 DEF OneToOne
  <2>2. (\A x \in V : \E i \in 1..g : v[i] = x) /\ (\A x \in D : \E i \in 1..g : d[i] = x)
    BY <2>1 DEF Range
  <2> QED BY <1>3, <2>2
<1> HIDE DEF V, D
<1>6. Compares(Bars(ms, V, q), Bars(ms, D, q), V, D, q)
  BY <1>1, <1>2, <1>4, BarsIs
<1>7. Cardinality({}) = 0
  BY FS_EmptySet
<1>8. Intersection(Bars(ms, V, q), Bars(ms, D, q)) = 0
  BY <1>5, <1>6, <1>7 DEF Compares
<1> QED BY <1>8 DEF V, D

\* The number of classes shared at a level.
LEMMA SharedIs ==
  ASSUME NEW g \in Nat, NEW v \in Range(Levels)
  PROVE  candidate_shared_classes(v, g) \in 0..g
<1>1. v \in {"o0", "o25", "o50", "o75", "o100"}
  BY PoolsDistinct
<1>2. 0 \in 0..g /\ g \div 4 \in 0..g /\ g \div 2 \in 0..g /\ (g * 3) \div 4 \in 0..g /\ g \in 0..g
  OBVIOUS
<1>3. CASE v = "o0"
  BY <1>2, <1>3 DEF candidate_shared_classes
<1>4. CASE v = "o25"
  BY <1>2, <1>4 DEF candidate_shared_classes
<1>5. CASE v = "o50"
  BY <1>2, <1>5 DEF candidate_shared_classes
<1>6. CASE v = "o75"
  BY <1>2, <1>6 DEF candidate_shared_classes
<1>7. CASE v = "o100"
  BY <1>2, <1>7 DEF candidate_shared_classes
<1> QED BY <1>1, <1>3, <1>4, <1>5, <1>6, <1>7

\* The classes of pool r of program p at a level.
ClassesAt(p, s, g, lv, r) ==
    IF r = "victim" \/ (p \in {"overlap", "selective"} /\ r # "low") THEN s.victim
    ELSE IF p \in {"overlap", "selective"} THEN s.disjoint
    ELSE Mixed(s.victim, s.disjoint, g, candidate_shared_classes(IF p = "sweep" THEN lv ELSE r, g))

\* All programs divide the classes in this way.
LEMMA ClassesAre ==
  ASSUME program \in Programs, program # "worker", NEW r
  PROVE  ClassesOf(r) = ClassesAt(program, sets, cfg.group, level, r)
<1>1. program \in {"overlap", "sweep", "selective", "multi", "cpumax"}
  BY OracleSetupAssumption
<1>2. CASE program = "overlap"
  BY <1>2 DEF ClassesOf, ClassesAt, Overlap!classes_of
<1>3. CASE program = "selective"
  BY <1>3 DEF ClassesOf, ClassesAt, Selective!classes_of
<1> DEFINE g == cfg.group
<1>4. CASE program = "sweep"
  <2>1. ClassesOf(r) = Sweep!classes_of(r, sets, g, level)
    BY <1>4 DEF ClassesOf
  <2>2. Sweep!condition_shared_classes(level, g) = candidate_shared_classes(level, g)
    BY Zenon DEF Sweep!condition_shared_classes, Sweep!candidate_shared_classes, candidate_shared_classes
  <2>3. Sweep!classes_of(r, sets, g, level) =
           IF r = "victim" THEN sets.victim ELSE Mixed(sets.victim, sets.disjoint, g, candidate_shared_classes(level, g))
    BY <2>2, Zenon DEF Sweep!classes_of, Sweep!build_overlap_classes, Mixed
  <2> HIDE DEF g
  <2>4. ClassesAt(program, sets, g, level, r) =
           IF r = "victim" THEN sets.victim ELSE Mixed(sets.victim, sets.disjoint, g, candidate_shared_classes(level, g))
    BY <1>4 DEF ClassesAt
  <2> QED BY <2>1, <2>3, <2>4 DEF g
<1>5. CASE program = "multi"
  <2>1. ClassesOf(r) = Multi!background_classes(r, sets, g)
    BY <1>5 DEF ClassesOf
  <2>2. Multi!candidate_shared_classes(r, g) = candidate_shared_classes(r, g)
    BY Zenon DEF Multi!candidate_shared_classes, candidate_shared_classes
  <2>3. Multi!background_classes(r, sets, g) =
           IF r = "victim" THEN sets.victim ELSE Mixed(sets.victim, sets.disjoint, g, candidate_shared_classes(r, g))
    BY <2>2, Zenon DEF Multi!background_classes, Mixed
  <2> HIDE DEF g
  <2>4. ClassesAt(program, sets, g, level, r) =
           IF r = "victim" THEN sets.victim ELSE Mixed(sets.victim, sets.disjoint, g, candidate_shared_classes(r, g))
    BY <1>5 DEF ClassesAt
  <2> QED BY <2>1, <2>3, <2>4 DEF g
<1>6. CASE program = "cpumax"
  <2>1. ClassesOf(r) = CpuMax!background_classes(r, sets, g)
    BY <1>6 DEF ClassesOf
  <2>2. CpuMax!candidate_shared_classes(r, g) = candidate_shared_classes(r, g)
    BY Zenon DEF CpuMax!candidate_shared_classes, candidate_shared_classes
  <2>3. CpuMax!background_classes(r, sets, g) =
           IF r = "victim" THEN sets.victim ELSE Mixed(sets.victim, sets.disjoint, g, candidate_shared_classes(r, g))
    BY <2>2, Zenon DEF CpuMax!background_classes, Mixed
  <2> HIDE DEF g
  <2>4. ClassesAt(program, sets, g, level, r) =
           IF r = "victim" THEN sets.victim ELSE Mixed(sets.victim, sets.disjoint, g, candidate_shared_classes(r, g))
    BY <1>6 DEF ClassesAt
  <2> QED BY <2>1, <2>3, <2>4 DEF g
<1> QED BY <1>1, <1>2, <1>3, <1>4, <1>5, <1>6

\* The eligible classes of a program: those of the sequence at which every
\* pool has enough lines.
EligibleAt(cs, n, q, R) == {i \in 1..Len(cs) : \A r \in R : n[r][cs[i]] >= q}

\* All programs ask that of every pool.
LEMMA EligibleIs ==
  ASSUME program \in Programs, program # "worker"
  PROVE  Eligible = Pick(class_space(masks), EligibleAt(class_space(masks), counts, quota_lines, Roles))
<1>1. program \in {"overlap", "sweep", "selective", "multi", "cpumax"}
  BY OracleSetupAssumption
<1> DEFINE cs == class_space(masks)
           n == counts
           q == quota_lines
           Both(I) == Pick(cs, I)
<1>2. CASE program = "overlap"
  <2>1. Eligible = Overlap!choose_class_sets(n, masks, q)
    BY <1>2 DEF Eligible
  <2>2. Overlap!class_space(masks) = cs
    BY Zenon DEF Overlap!class_space, class_space, Overlap!ClassNumber, ClassNumber, Overlap!Pow2, Pow2
  <2> DEFINE I == {i \in 1..Len(cs) : n["victim"][cs[i]] >= q /\ n["high"][cs[i]] >= q /\ n["low"][cs[i]] >= q}
  <2>3. Overlap!choose_class_sets(n, masks, q) = Pick(cs, I)
    <3> DEFINE x == Overlap!class_space(masks)
               J == {i \in 1..Len(x) : n["victim"][x[i]] >= q /\ n["high"][x[i]] >= q /\ n["low"][x[i]] >= q}
    <3>1. Overlap!choose_class_sets(n, masks, q) = Overlap!Pick(x, J)
      BY Zenon DEF Overlap!choose_class_sets, Overlap!Matching
    <3>2. \A s, K : Overlap!Pick(s, K) = Pick(s, K)
      BY Zenon DEF Overlap!Pick, Overlap!Nth, Pick, Nth, Overlap!Cardinality, Cardinality
    <3> HIDE DEF cs, n, q
    <3>3. x = cs /\ J = I
      BY <2>2
    <3> HIDE DEF x, J, I
    <3> QED BY <3>1, <3>2, <3>3
  <2>4. Roles = {"victim", "high", "low"}
    BY <1>2, RolesKnown DEF Roles
  <2> HIDE DEF cs, n, q
  <2>5. I = EligibleAt(cs, n, q, Roles)
    BY <2>4 DEF EligibleAt
  <2> QED BY <2>1, <2>3, <2>5 DEF cs, n, q
<1>3. CASE program = "selective"
  <2>1. Eligible = Selective!choose_class_sets(n, masks, q)
    BY <1>3 DEF Eligible
  <2>2. Selective!class_space(masks) = cs
    BY Zenon DEF Selective!class_space, class_space, Selective!ClassNumber, ClassNumber, Selective!Pow2, Pow2
  <2> DEFINE I == {i \in 1..Len(cs) : n["victim"][cs[i]] >= q /\ n["high"][cs[i]] >= q /\ n["low"][cs[i]] >= q}
  <2>3. Selective!choose_class_sets(n, masks, q) = Pick(cs, I)
    <3> DEFINE x == Selective!class_space(masks)
               J == {i \in 1..Len(x) : n["victim"][x[i]] >= q /\ n["high"][x[i]] >= q /\ n["low"][x[i]] >= q}
    <3>1. Selective!choose_class_sets(n, masks, q) = Selective!Pick(x, J)
      BY Zenon DEF Selective!choose_class_sets, Selective!Matching
    <3>2. \A s, K : Selective!Pick(s, K) = Pick(s, K)
      BY Zenon DEF Selective!Pick, Selective!Nth, Pick, Nth, Selective!Cardinality, Cardinality
    <3> HIDE DEF cs, n, q
    <3>3. x = cs /\ J = I
      BY <2>2
    <3> HIDE DEF x, J, I
    <3> QED BY <3>1, <3>2, <3>3
  <2>4. Roles = {"victim", "high", "low"}
    BY <1>3, RolesKnown DEF Roles
  <2> HIDE DEF cs, n, q
  <2>5. I = EligibleAt(cs, n, q, Roles)
    BY <2>4 DEF EligibleAt
  <2> QED BY <2>1, <2>3, <2>5 DEF cs, n, q
<1>4. CASE program = "sweep"
  <2>1. Eligible = Sweep!choose_base_class_sets(n, masks, q)
    BY <1>4 DEF Eligible
  <2>2. Sweep!class_space(masks) = cs
    BY Zenon DEF Sweep!class_space, class_space, Sweep!ClassNumber, ClassNumber, Sweep!Pow2, Pow2
  <2> DEFINE I == {i \in 1..Len(cs) : n["victim"][cs[i]] >= q /\ n["aggressor"][cs[i]] >= q}
  <2>3. Sweep!choose_base_class_sets(n, masks, q) = Pick(cs, I)
    <3> DEFINE x == Sweep!class_space(masks)
               J == {i \in 1..Len(x) : n["victim"][x[i]] >= q /\ n["aggressor"][x[i]] >= q}
    <3>1. Sweep!choose_base_class_sets(n, masks, q) = Sweep!Pick(x, J)
      BY Zenon DEF Sweep!choose_base_class_sets, Sweep!Matching
    <3>2. \A s, K : Sweep!Pick(s, K) = Pick(s, K)
      BY Zenon DEF Sweep!Pick, Sweep!Nth, Pick, Nth, Sweep!Cardinality, Cardinality
    <3> HIDE DEF cs, n, q
    <3>3. x = cs /\ J = I
      BY <2>2
    <3> HIDE DEF x, J, I
    <3> QED BY <3>1, <3>2, <3>3
  <2>4. Roles = {"victim", "aggressor"}
    BY <1>4, RolesKnown DEF Roles
  <2> HIDE DEF cs, n, q
  <2>5. I = EligibleAt(cs, n, q, Roles)
    BY <2>4 DEF EligibleAt
  <2> QED BY <2>1, <2>3, <2>5 DEF cs, n, q
<1>5. CASE program = "multi"
  <2>1. Eligible = Multi!choose_class_sets(n, masks, q)
    BY <1>5 DEF Eligible
  <2>2. Multi!class_space(masks) = cs
    BY Zenon DEF Multi!class_space, class_space, Multi!ClassNumber, ClassNumber, Multi!Pow2, Pow2
  <2>3. Roles = Range(Multi!Pools)
    BY <1>5 DEF Roles, PoolsOf
  <2> DEFINE I == {i \in 1..Len(cs) : \A r \in Range(Multi!Pools) : n[r][cs[i]] >= q}
  <2>4. Multi!choose_class_sets(n, masks, q) = Pick(cs, I)
    <3> DEFINE x == Multi!class_space(masks)
               J == {i \in 1..Len(x) : \A r \in Range(Multi!Pools) : n[r][x[i]] >= q}
    <3>1. Multi!choose_class_sets(n, masks, q) = Multi!Pick(x, J)
      BY Zenon DEF Multi!choose_class_sets, Multi!Matching, Multi!Range, Range
    <3>2. \A s, K : Multi!Pick(s, K) = Pick(s, K)
      BY Zenon DEF Multi!Pick, Multi!Nth, Pick, Nth, Multi!Cardinality, Cardinality
    <3> HIDE DEF cs, n, q
    <3>3. x = cs /\ J = I
      BY <2>2
    <3> HIDE DEF x, J, I
    <3> QED BY <3>1, <3>2, <3>3
  <2> HIDE DEF cs, n, q
  <2>5. I = EligibleAt(cs, n, q, Roles)
    BY <2>3 DEF EligibleAt
  <2> QED BY <2>1, <2>4, <2>5 DEF cs, n, q
<1>6. CASE program = "cpumax"
  <2>1. Eligible = CpuMax!choose_class_sets(n, masks, q)
    BY <1>6 DEF Eligible
  <2>2. CpuMax!class_space(masks) = cs
    BY Zenon DEF CpuMax!class_space, class_space, CpuMax!ClassNumber, ClassNumber, CpuMax!Pow2, Pow2
  <2>3. Roles = Range(CpuMax!Pools)
    BY <1>6 DEF Roles, PoolsOf
  <2> DEFINE I == {i \in 1..Len(cs) : \A r \in Range(CpuMax!Pools) : n[r][cs[i]] >= q}
  <2>4. CpuMax!choose_class_sets(n, masks, q) = Pick(cs, I)
    <3> DEFINE x == CpuMax!class_space(masks)
               J == {i \in 1..Len(x) : \A r \in Range(CpuMax!Pools) : n[r][x[i]] >= q}
    <3>1. CpuMax!choose_class_sets(n, masks, q) = CpuMax!Pick(x, J)
      BY Zenon DEF CpuMax!choose_class_sets, CpuMax!Matching, CpuMax!Range, Range
    <3>2. \A s, K : CpuMax!Pick(s, K) = Pick(s, K)
      BY Zenon DEF CpuMax!Pick, CpuMax!Nth, Pick, Nth, CpuMax!Cardinality, Cardinality
    <3> HIDE DEF cs, n, q
    <3>3. x = cs /\ J = I
      BY <2>2
    <3> HIDE DEF x, J, I
    <3> QED BY <3>1, <3>2, <3>3
  <2> HIDE DEF cs, n, q
  <2>5. I = EligibleAt(cs, n, q, Roles)
    BY <2>3 DEF EligibleAt
  <2> QED BY <2>1, <2>4, <2>5 DEF cs, n, q
<1> QED BY <1>1, <1>2, <1>3, <1>4, <1>5, <1>6

\* The test of pool r in program p.
Passes(p, r, v, h, g, q, lv) ==
    IF p \in {"overlap", "selective"} THEN (IF r = "high" THEN h = v ELSE Intersection(v, h) = 0)
    ELSE IF r = "victim" THEN histogram_unique_classes(h) = g
    ELSE LevelIsExact(v, h, candidate_shared_classes(IF p = "sweep" THEN lv ELSE r, g), g, q)

\* The tests of the programs.
LEMMA AcceptsAre ==
  ASSUME program \in Programs, program # "worker", NEW r, r = "victim" => program = "sweep"
  PROVE  Accepts(r) <=> Passes(program, r, pool["victim"].hist, pool[r].hist, cfg.group, quota_lines, level)
<1>1. program \in {"overlap", "sweep", "selective", "multi", "cpumax"}
  BY OracleSetupAssumption
<1> DEFINE v == pool["victim"].hist
           h == pool[r].hist
           g == cfg.group
           q == quota_lines
<1>2. CASE program = "overlap"
  <2>1. Accepts(r) <=> Overlap!Accepted(r, v, h)
    BY <1>2 DEF Accepts
  <2>2. \A a, b : Overlap!Intersection(a, b) = Intersection(a, b)
    BY Zenon DEF Overlap!Intersection, Intersection, Overlap!Cardinality, Cardinality, Overlap!Min, Min
  <2>3. Overlap!Accepted(r, v, h) <=> IF r = "high" THEN h = v ELSE Intersection(v, h) = 0
    <3> HIDE DEF v, h
    <3> QED BY <2>2, Zenon DEF Overlap!Accepted
  <2> HIDE DEF v, h
  <2>4. Passes(program, r, v, h, g, q, level) <=> IF r = "high" THEN h = v ELSE Intersection(v, h) = 0
    BY <1>2 DEF Passes
  <2> QED BY <2>1, <2>3, <2>4 DEF v, h
<1>3. CASE program = "selective"
  <2>1. Accepts(r) <=> Selective!Accepted(r, v, h)
    BY <1>3 DEF Accepts
  <2>2. \A a, b : Selective!Intersection(a, b) = Intersection(a, b)
    BY Zenon DEF Selective!Intersection, Intersection, Selective!Cardinality, Cardinality, Selective!Min, Min
  <2>3. Selective!Accepted(r, v, h) <=> IF r = "high" THEN h = v ELSE Intersection(v, h) = 0
    <3> HIDE DEF v, h
    <3> QED BY <2>2, Zenon DEF Selective!Accepted
  <2> HIDE DEF v, h
  <2>4. Passes(program, r, v, h, g, q, level) <=> IF r = "high" THEN h = v ELSE Intersection(v, h) = 0
    BY <1>3 DEF Passes
  <2> QED BY <2>1, <2>3, <2>4 DEF v, h
<1>4. CASE program = "sweep"
  <2>1. Accepts(r) <=> Sweep!Accepted(r, v, h, g, q, level)
    BY <1>4 DEF Accepts
  <2>2. /\ \A a, b : Sweep!Intersection(a, b) = Intersection(a, b)
        /\ \A a, b : Sweep!Union(a, b) = Union(a, b)
    BY Zenon DEF Sweep!Intersection, Intersection, Sweep!Union, Union, Sweep!Cardinality, Cardinality, Sweep!Min, Min, Sweep!Max, Max
  <2>3. /\ \A a : Sweep!histogram_unique_classes(a) = histogram_unique_classes(a)
        /\ \A a, b : Sweep!histogram_shared_classes(a, b) = histogram_shared_classes(a, b)
    BY Zenon DEF Sweep!histogram_unique_classes, Sweep!histogram_shared_classes, Sweep!Quantify, Sweep!Cardinality,
                 histogram_unique_classes, histogram_shared_classes, Quantify, Cardinality
  <2>4. \A a, b, s, j, k : Sweep!LevelIsExact(a, b, s, j, k) <=> LevelIsExact(a, b, s, j, k)
    BY <2>2, <2>3, Zenon DEF Sweep!LevelIsExact, LevelIsExact
  <2>5. Sweep!condition_shared_classes(level, g) = candidate_shared_classes(level, g)
    BY Zenon DEF Sweep!condition_shared_classes, Sweep!candidate_shared_classes, candidate_shared_classes
  <2> HIDE DEF v, h, g, q
  <2>6. Sweep!Accepted(r, v, h, g, q, level) <=> IF r = "victim" THEN histogram_unique_classes(h) = g ELSE LevelIsExact(v, h, candidate_shared_classes(level, g), g, q)
    BY <2>3, <2>4, <2>5, Zenon DEF Sweep!Accepted
  <2>7. Passes(program, r, v, h, g, q, level) <=> IF r = "victim" THEN histogram_unique_classes(h) = g ELSE LevelIsExact(v, h, candidate_shared_classes(level, g), g, q)
    BY <1>4 DEF Passes
  <2> QED BY <2>1, <2>6, <2>7 DEF v, h, g, q
<1>5. CASE program = "multi"
  <2>1. Accepts(r) <=> Multi!Accepted(r, v, h, g, q)
    BY <1>5 DEF Accepts
  <2>2. /\ \A a, b : Multi!Intersection(a, b) = Intersection(a, b)
        /\ \A a, b : Multi!Union(a, b) = Union(a, b)
    BY Zenon DEF Multi!Intersection, Intersection, Multi!Union, Union, Multi!Cardinality, Cardinality, Multi!Min, Min, Multi!Max, Max
  <2>3. /\ \A a : Multi!histogram_unique_classes(a) = histogram_unique_classes(a)
        /\ \A a, b : Multi!histogram_shared_classes(a, b) = histogram_shared_classes(a, b)
    BY Zenon DEF Multi!histogram_unique_classes, Multi!histogram_shared_classes, Multi!Quantify, Multi!Cardinality,
                 histogram_unique_classes, histogram_shared_classes, Quantify, Cardinality
  <2>4. \A a, b, s, j, k : Multi!LevelIsExact(a, b, s, j, k) <=> LevelIsExact(a, b, s, j, k)
    BY <2>2, <2>3, Zenon DEF Multi!LevelIsExact, LevelIsExact
  <2>5. Multi!candidate_shared_classes(r, g) = candidate_shared_classes(r, g)
    BY Zenon DEF Multi!candidate_shared_classes, candidate_shared_classes
  <2> HIDE DEF v, h, g, q
  <2>6. Multi!Accepted(r, v, h, g, q) <=> LevelIsExact(v, h, candidate_shared_classes(r, g), g, q)
    BY <2>3, <2>4, <2>5, Zenon DEF Multi!Accepted
  <2>7. Passes(program, r, v, h, g, q, level) <=> LevelIsExact(v, h, candidate_shared_classes(r, g), g, q)
    BY <1>5 DEF Passes
  <2> QED BY <2>1, <2>6, <2>7 DEF v, h, g, q
<1>6. CASE program = "cpumax"
  <2>1. Accepts(r) <=> CpuMax!Accepted(r, v, h, g, q)
    BY <1>6 DEF Accepts
  <2>2. /\ \A a, b : CpuMax!Intersection(a, b) = Intersection(a, b)
        /\ \A a, b : CpuMax!Union(a, b) = Union(a, b)
    BY Zenon DEF CpuMax!Intersection, Intersection, CpuMax!Union, Union, CpuMax!Cardinality, Cardinality, CpuMax!Min, Min, CpuMax!Max, Max
  <2>3. /\ \A a : CpuMax!histogram_unique_classes(a) = histogram_unique_classes(a)
        /\ \A a, b : CpuMax!histogram_shared_classes(a, b) = histogram_shared_classes(a, b)
    BY Zenon DEF CpuMax!histogram_unique_classes, CpuMax!histogram_shared_classes, CpuMax!Quantify, CpuMax!Cardinality,
                 histogram_unique_classes, histogram_shared_classes, Quantify, Cardinality
  <2>4. \A a, b, s, j, k : CpuMax!LevelIsExact(a, b, s, j, k) <=> LevelIsExact(a, b, s, j, k)
    BY <2>2, <2>3, Zenon DEF CpuMax!LevelIsExact, LevelIsExact
  <2>5. CpuMax!candidate_shared_classes(r, g) = candidate_shared_classes(r, g)
    BY Zenon DEF CpuMax!candidate_shared_classes, candidate_shared_classes
  <2> HIDE DEF v, h, g, q
  <2>6. CpuMax!Accepted(r, v, h, g, q) <=> LevelIsExact(v, h, candidate_shared_classes(r, g), g, q)
    BY <2>3, <2>4, <2>5, Zenon DEF CpuMax!Accepted
  <2>7. Passes(program, r, v, h, g, q, level) <=> LevelIsExact(v, h, candidate_shared_classes(r, g), g, q)
    BY <1>6 DEF Passes
  <2> QED BY <2>1, <2>6, <2>7 DEF v, h, g, q
<1> QED BY <1>1, <1>2, <1>3, <1>4, <1>5, <1>6

-----------------------------------------------------------------------------
(* What main has established.                                              *)

\* What has not been done yet when a step is made.
LEMMA NotYet ==
  ASSUME ControlOK, Running, program # "worker", NEW x \in Known
  PROVE  LET st == Steps[pc]
         IN  /\ x \in AllSteps /\ x = Step(x.op, x.who) /\ st = Step(st.op, st.who) /\ x # st
             /\ st.op # "mapping"
             /\ st.op = "quota" => x.op = "mapping"
             /\ st.op = "pool" => x.op \in {"mapping", "quota", "pool"}
             /\ st.op = "count" => x.op \in {"mapping", "quota", "pool", "count"}
             /\ st.op = "choose" => x.op \in {"mapping", "quota", "pool", "count"}
             /\ st.op = "collect" => (x.op \in {"collect", "histogram", "single", "multi"} => x.who # st.who)
             /\ st.op = "histogram" => (x.op = "histogram" => x.who # st.who)
             /\ st.op = "permutation" => x.op \notin {"single", "multi"}
             /\ st.op \in {"single", "multi"} => (x.op \in {"single", "multi"} => x.who # st.who)
             /\ st.op = "level" => (x.op \in {"collect", "histogram", "single", "multi"} => x.who = "victim")
<1> DEFINE st == Steps[pc]
<1>0. program \in Programs /\ section \in {"setup", "loop", "verify"}
  BY DEF ControlOK
<1>1. /\ st \in AllSteps /\ st = Step(st.op, st.who)
      /\ section = "setup" =>
           /\ st \in SetupPlan(program)
           /\ Known \subseteq SetupPlan(program) \ {st}
           /\ \A y \in Known : Stage(y.op) <= Stage(st.op)
      /\ section = "loop" =>
           /\ st \in LoopPlan(program)
           /\ Known \subseteq (SetupPlan(program) \cup LoopPlan(program)) \ {st}
           /\ \A y \in Known \ SetupPlan(program) : Stage(y.op) <= Stage(st.op)
      /\ section = "verify" =>
           /\ Known = SetupPlan(program) \cup LoopPlan(program)
           /\ st.op \in {"verify", "stable"}
  BY NextStep
<1> HIDE DEF st
<1>2. CASE section = "setup"
  <2>1. x \in SetupPlan(program) /\ x # st /\ st \in SetupPlan(program) /\ Stage(x.op) <= Stage(st.op)
    BY <1>1, <1>2
  <2>2. /\ x \in AllSteps /\ x = Step(x.op, x.who)
        /\ x.op \in {"mapping", "quota", "pool", "count", "choose", "collect", "histogram", "accept", "permutation",
                     "single", "multi"}
        /\ x.op \in {"mapping", "quota", "choose", "permutation"} => x.who = "main"
        /\ x.op = "single" => x.who = "victim"
        /\ x.op = "multi" => x.who # "victim"
    BY <1>0, <2>1, PlanIs
  <2>3. /\ st.op \in {"mapping", "quota", "pool", "count", "choose", "collect", "histogram", "accept", "permutation",
                     "single", "multi"}
        /\ st.op \in {"mapping", "quota", "choose", "permutation"} => st.who = "main"
        /\ st.op = "single" => st.who = "victim"
        /\ st.op = "multi" => st.who # "victim"
    BY <1>0, <2>1, PlanIs
  <2>4. x.op = st.op => x.who # st.who
    BY <1>1, <2>1, <2>2
  <2>5. Stage(st.op) \in Nat
    BY <2>3, StageIs
  <2>6. /\ st.op = "mapping" => FALSE
        /\ st.op = "quota" => x.op = "mapping"
        /\ st.op = "pool" => x.op \in {"mapping", "quota", "pool"}
        /\ st.op = "count" => x.op \in {"mapping", "quota", "pool", "count"}
        /\ st.op = "choose" => x.op \in {"mapping", "quota", "pool", "count"}
        /\ st.op = "collect" => x.op \in {"mapping", "quota", "pool", "count", "choose", "collect"}
        /\ st.op = "permutation" => x.op \notin {"single", "multi"}
    BY <2>1, <2>2, <2>3, <2>4, StageIs
  <2> QED BY <1>1, <2>1, <2>2, <2>3, <2>4, <2>6 DEF st
<1>3. CASE section = "loop"
  <2>1. x \in SetupPlan(program) \cup LoopPlan(program) /\ x # st /\ st \in LoopPlan(program)
        /\ (x \notin SetupPlan(program) => Stage(x.op) <= Stage(st.op))
    BY <1>1, <1>3
  <2>2. /\ st = Step("run", "main") \/ program = "sweep"
        /\ st.op \in {"level", "collect", "histogram", "accept", "multi", "run"}
        /\ st.op # "run" => st.who = "aggressor"
        /\ st.op = "run" => st.who = "main"
    BY <1>0, <2>1, LoopPlanIs
  <2>3. CASE x \in SetupPlan(program)
    <3>1. /\ x \in AllSteps /\ x = Step(x.op, x.who)
          /\ program = "sweep" /\ x.op \in {"collect", "histogram", "accept", "single", "multi"} => x.who = "victim"
      BY <1>0, <2>3, PlanIs
    <3>2. program # "sweep" => st.op = "run"
      BY <2>2, StepIs
    <3> QED BY <1>1, <2>1, <2>2, <3>1, <3>2 DEF st
  <2>4. CASE x \notin SetupPlan(program)
    <3>1. x \in LoopPlan(program) /\ Stage(x.op) <= Stage(st.op)
      BY <2>1, <2>4
    <3>2. /\ x \in AllSteps /\ x = Step(x.op, x.who)
          /\ x.op \in {"level", "collect", "histogram", "accept", "multi", "run"}
          /\ x.op # "run" => x.who = "aggressor"
          /\ x.op = "run" => x.who = "main"
      BY <1>0, <3>1, LoopPlanIs
    <3>3. x.op = st.op => x.who # st.who
      BY <1>1, <2>1, <3>2
    <3>4. x.op # st.op
      BY <2>2, <3>2, <3>3
    <3>5. /\ st.op = "collect" => x.op = "level"
          /\ st.op = "level" => FALSE
          /\ st.op = "multi" => x.op \in {"level", "collect", "histogram", "accept"}
      BY <2>2, <3>1, <3>2, <3>4, StageIs
    <3> QED BY <1>1, <2>1, <2>2, <3>2, <3>3, <3>5 DEF st
  <2> QED BY <2>3, <2>4
<1>4. CASE section = "verify"
  <2>1. x \in SetupPlan(program) \cup LoopPlan(program) /\ st.op \in {"verify", "stable"}
    BY <1>1, <1>4
  <2>2. x \in AllSteps /\ x = Step(x.op, x.who) /\ x.op \notin {"verify", "stable"}
    BY <1>0, <2>1, PlanIs, LoopPlanIs
  <2>3. x # st
    BY <2>1, <2>2
  <2> QED BY <1>1, <2>1, <2>2, <2>3 DEF st
<1> QED BY <1>0, <1>2, <1>3, <1>4

\* What has been done when lines are collected, and ever after.
LEMMA Prepared ==
  ASSUME ControlOK, program # "worker",
         section # "setup" \/ (Running /\ Steps[pc].op \in {"collect", "histogram", "accept", "permutation", "single", "multi"})
  PROVE  /\ Did("mapping", "main") /\ Did("quota", "main") /\ Did("choose", "main")
         /\ \A r \in Roles : Did("pool", r) /\ Did("count", r)
<1> DEFINE st == Steps[pc]
<1>0. program \in Programs
  BY DEF ControlOK
<1>1. \A x \in SetupPlan(program) : x.op \in {"mapping", "quota", "pool", "count", "choose"} => x \in Known
  <2>1. CASE section # "setup"
    BY <2>1, KnownAfter
  <2>2. CASE section = "setup"
    <3>1. Running /\ st.op \in {"collect", "histogram", "accept", "permutation", "single", "multi"}
      BY <2>2
    <3>2. \A x \in SetupPlan(program) : Stage(x.op) < Stage(st.op) => x \in Known
      BY <2>2, <3>1, NextStep
    <3> HIDE DEF st
    <3>3. Stage(st.op) \in 6..9
      BY <3>1, StageIs
    <3>4. ASSUME NEW op \in {"mapping", "quota", "pool", "count", "choose"} PROVE Stage(op) \in 1..5
      BY StageIs
    <3> QED BY <3>2, <3>3, <3>4
  <2> QED BY <2>1, <2>2
<1>2. BeginningSteps(Roles) \subseteq SetupPlan(program)
  <2>1. CASE program = "sweep"
    <3>1. Roles = {"victim", "aggressor"}
      BY <1>0, <2>1, RolesKnown DEF Roles
    <3> QED BY <2>1, <3>1 DEF SetupPlan
  <2>2. CASE program # "sweep"
    <3>1. SetupPlan(program) = SetupSteps(Roles)
      BY <2>2 DEF SetupPlan, Roles
    <3> HIDE DEF Roles
    <3> QED BY <3>1 DEF SetupSteps
  <2> QED BY <2>1, <2>2
<1>3. /\ Step("mapping", "main") \in BeginningSteps(Roles) /\ Step("quota", "main") \in BeginningSteps(Roles)
      /\ Step("choose", "main") \in BeginningSteps(Roles)
      /\ \A r \in Roles : Step("pool", r) \in BeginningSteps(Roles) /\ Step("count", r) \in BeginningSteps(Roles)
  <2> HIDE DEF Roles
  <2> QED BY DEF BeginningSteps, Of
<1> HIDE DEF Roles
<1>4. ASSUME NEW op \in {"mapping", "quota", "pool", "count", "choose"}, NEW r, Step(op, r) \in BeginningSteps(Roles)
      PROVE  Step(op, r) \in Known
  <2>1. Step(op, r).op = op
    BY StepIs
  <2> QED BY <1>1, <1>2, <1>4, <2>1
<1> QED BY <1>3, <1>4 DEF Did

\* The seed number of pool r in program p.
SeedAt(p, r) ==
    IF p = "sweep" THEN (IF r = "victim" THEN 3 ELSE 4)
    ELSE 2 + CHOOSE i \in 1..Len(PoolsOf(p)) : PoolsOf(p)[i] = r

\* It does not depend on the level.
LEMMA SeedIs ==
  ASSUME NEW r
  PROVE  SelectSeed(r) = SeedAt(program, r)
<1>1. Sweep!select_seed(r, level) = IF r = "victim" THEN 3 ELSE 4
  BY DEF Sweep!select_seed
<1> QED BY <1>1 DEF SelectSeed, SeedAt

\* The classes of which every pool has enough lines, and the lines and
\* histogram that follow from the classes of pool r.
Fit == {c \in Range(class_space(masks)) : \A r \in Roles : CountOf(pool[r].pages, masks, c) >= quota_lines}
Classes(r) == ClassesAt(program, sets, cfg.group, level, r)
Selection(r) == Gathered(pool[r].pages, masks, Seed(seed, SeedAt(program, r)), Classes(r), quota_lines)

\* The chain is in the lines of pool m.
Linked(m, chain, roots) == m.roots = roots /\ \A a \in Range(m.lines) : m.next[a] = chain[a]

\* What is true once main has made a step.
Fact(op, r) ==
    /\ op = "mapping" => masks \in MaskSets
    /\ op = "quota" => cfg.workset % cfg.group = 0
    /\ op = "count" => pool[r].counts = count_line_classes(pool[r].pages, masks, Width)
    /\ op = "choose" => Groups(sets.victim, sets.disjoint, cfg.group, Fit)
    /\ op = "collect" => pool[r].lines = Selection(r)
    /\ op = "histogram" => pool[r].hist = Bars(masks, Range(Classes(r)), quota_lines)
    /\ op = "permutation" => Permutes(permutation, cfg.workset)
    /\ op = "single" => Linked(pool[r], build_single_chain(pool[r].lines, permutation),
                               <<pool[r].lines[permutation[1]]>>)
    /\ op = "multi" => /\ Len(pool[r].lines) >= AGGRESSOR_STREAMS
                       /\ Linked(pool[r], build_multi_chain(pool[r].lines, permutation, AGGRESSOR_STREAMS),
                                 [s \in 1..AGGRESSOR_STREAMS |-> pool[r].lines[permutation[s]]])

FactsInv == program # "worker" => \A x \in Known : Fact(x.op, x.who)

\* What has to stay for it to stay true.
Keeps(op, r) ==
    /\ op \in {"mapping", "count", "choose", "collect", "histogram"} => masks' = masks
    /\ op \in {"choose", "collect", "histogram"} => sets' = sets
    /\ op \in {"count", "collect"} => pool'[r].pages = pool[r].pages
    /\ op = "choose" => \A q \in Roles : pool'[q].pages = pool[q].pages
    /\ op = "count" => pool'[r].counts = pool[r].counts
    /\ op \in {"collect", "single", "multi"} => pool'[r].lines = pool[r].lines
    /\ op = "histogram" => pool'[r].hist = pool[r].hist
    /\ op \in {"permutation", "single", "multi"} => permutation' = permutation
    /\ op \in {"single", "multi"} => pool'[r].next = pool[r].next /\ pool'[r].roots = pool[r].roots
    /\ op \in {"collect", "histogram"} => level' = level \/ r = "victim" \/ program # "sweep"

\* Then it does.
LEMMA FactKept ==
  ASSUME NEW op, NEW r, Fact(op, r), UNCHANGED params, Keeps(op, r)
  PROVE  Fact(op, r)'
<1>0. program' = program /\ cfg' = cfg /\ seed' = seed
  BY DEF params
<1>1. quota_lines' = quota_lines /\ Roles' = Roles
  BY <1>0 DEF quota_lines, Roles
<1>2. CASE op = "mapping"
  BY <1>2 DEF Fact, Keeps
<1>3. CASE op = "quota"
  BY <1>0, <1>3 DEF Fact, Keeps
<1>4. CASE op = "count"
  BY <1>4 DEF Fact, Keeps
<1>5. CASE op = "choose"
  <2>1. masks' = masks /\ sets' = sets /\ (\A q \in Roles : pool'[q].pages = pool[q].pages)
        /\ Groups(sets.victim, sets.disjoint, cfg.group, Fit)
    BY <1>5 DEF Fact, Keeps
  <2>2. Fit' = Fit
    <3> HIDE DEF Roles, quota_lines
    <3> QED BY <1>1, <2>1 DEF Fit
  <2> QED BY <1>0, <1>5, <2>1, <2>2 DEF Fact
<1>6. ASSUME op \in {"collect", "histogram"}
      PROVE  Classes(r)' = Classes(r)
  <2>1. sets' = sets /\ (level' = level \/ r = "victim" \/ program # "sweep")
    BY <1>6 DEF Keeps
  <2> QED BY <1>0, <2>1 DEF Classes, ClassesAt
<1>7. CASE op = "collect"
  <2>1. masks' = masks /\ pool'[r].pages = pool[r].pages /\ pool'[r].lines = pool[r].lines /\ pool[r].lines = Selection(r)
    BY <1>7 DEF Fact, Keeps
  <2>2. Selection(r)' = Selection(r)
    BY <1>0, <1>1, <1>6, <1>7, <2>1 DEF Selection
  <2> QED BY <1>7, <2>1, <2>2 DEF Fact
<1>8. CASE op = "histogram"
  <2>1. masks' = masks /\ pool'[r].hist = pool[r].hist /\ pool[r].hist = Bars(masks, Range(Classes(r)), quota_lines)
    BY <1>8 DEF Fact, Keeps
  <2> QED BY <1>1, <1>6, <1>8, <2>1 DEF Fact
<1>9. CASE op = "permutation"
  BY <1>0, <1>9 DEF Fact, Keeps
<1>10. CASE op = "single"
  <2>1. pool'[r].lines = pool[r].lines /\ permutation' = permutation /\ pool'[r].next = pool[r].next /\ pool'[r].roots = pool[r].roots
    BY <1>10 DEF Keeps
  <2> QED BY <1>10, <2>1 DEF Fact, Linked
<1>11. CASE op = "multi"
  <2>1. pool'[r].lines = pool[r].lines /\ permutation' = permutation /\ pool'[r].next = pool[r].next /\ pool'[r].roots = pool[r].roots
    BY <1>11 DEF Keeps
  <2> QED BY <1>11, <2>1 DEF Fact, Linked
<1>12. CASE op \notin {"mapping", "quota", "count", "choose", "collect", "histogram", "permutation", "single", "multi"}
  BY <1>12 DEF Fact
<1> QED BY <1>2, <1>3, <1>4, <1>5, <1>7, <1>8, <1>9, <1>10, <1>11, <1>12

\* A step of main keeps what was true and makes its own fact true.
LEMMA FactsStep ==
  ASSUME ControlOK, FactsInv, UNCHANGED params, Running, Done \/ Stops \/ UNCHANGED control,
         NEW st, st = Steps[pc], Done /\ program # "worker" => Fact(st.op, st.who)',
         program # "worker" => \A x \in Known : Keeps(x.op, x.who)
  PROVE  FactsInv'
<1>0. program' = program
  BY DEF params
<1> SUFFICES ASSUME program # "worker", NEW x \in Known' PROVE Fact(x.op, x.who)'
  BY <1>0 DEF FactsInv
<1>1. CASE x \in Known
  <2>1. Fact(x.op, x.who) /\ Keeps(x.op, x.who)
    BY <1>1 DEF FactsInv
  <2> QED BY <2>1, FactKept
<1>2. CASE x \notin Known
  <2>1. Done
    <3> SUFFICES ASSUME ~Done PROVE FALSE
      OBVIOUS
    <3>1. UNCHANGED <<program, section, pc>>
      BY <1>0 DEF Stops, control
    <3>2. Known' = Known
      BY <3>1, KnownStays
    <3> QED BY <1>2, <3>2
  <2>2. Known' = IF section = "verify" THEN Known ELSE Known \cup {st}
    BY <1>0, <2>1, KnownGrows
  <2>3. x = st
    BY <1>2, <2>2
  <2> QED BY <2>1, <2>3
<1> QED BY <1>1, <1>2

\* The numbers of a legal command line.
LEMMA Numbers ==
  ASSUME ControlOK, program # "worker"
  PROVE  /\ cfg.group \in Nat \ {0} /\ cfg.workset \in Nat \ {0} /\ quota_lines \in Nat /\ seed \in Nat
         /\ cfg.workset % cfg.group = 0 => quota_lines \in Nat \ {0} /\ cfg.group * quota_lines = cfg.workset
<1>1. program \in {"overlap", "sweep", "selective", "multi", "cpumax"} /\ cfg \in Configs /\ seed \in Seeds
      /\ AcceptsArgs(program, cfg)
  BY OracleSetupAssumption DEF ControlOK
<1>2. cfg.group \in Nat /\ cfg.workset \in Nat /\ seed \in Nat
  BY <1>1, OracleSetupAssumption
<1>3. cfg.group > 0 /\ cfg.workset > 0
  BY <1>1 DEF AcceptsArgs, Overlap!parse_args, Sweep!parse_args, Selective!parse_args, Multi!parse_args, CpuMax!parse_args
<1> DEFINE g == cfg.group
           w == cfg.workset
<1>4. g \in Nat \ {0} /\ w \in Nat \ {0} /\ quota_lines = w \div g
  BY <1>2, <1>3 DEF quota_lines
<1> HIDE DEF g, w
<1>5. quota_lines \in Nat
  BY <1>4
<1>6. w % g = 0 => w \div g \in Nat \ {0} /\ g * (w \div g) = w
  BY <1>4
<1> QED BY <1>2, <1>4, <1>5, <1>6 DEF g, w

\* The seed of a pool is a number.
LEMMA SeedNat ==
  ASSUME ControlOK, program # "worker", NEW r \in Roles
  PROVE  Seed(seed, SeedAt(program, r)) \in Nat
<1>1. seed \in Nat /\ program \in Programs
  BY Numbers DEF ControlOK
<1>2. SeedAt(program, r) \in Nat
  <2>1. CASE program = "sweep"
    BY <2>1 DEF SeedAt
  <2>2. CASE program # "sweep"
    <3> DEFINE P == PoolsOf(program)
    <3>1. P \in Seq(Whos)
      <4>1. program \in {"overlap", "sweep", "selective", "multi", "cpumax"}
        BY <1>1, OracleSetupAssumption
      <4>2. Distinct(Main3) /\ Distinct(Main6) /\ Distinct(<<"victim", "aggressor">>)
        BY PoolsDistinct DEF Main3, Main6
      <4> QED BY <4>1, <4>2, PoolsAre DEF Distinct
    <3> HIDE DEF P
    <3>2. r \in Range(P)
      BY DEF Roles, P
    <3>3. \E i \in 1..Len(P) : P[i] = r
      BY <3>1, <3>2, RangeIs
    <3>4. (CHOOSE i \in 1..Len(P) : P[i] = r) \in 1..Len(P) /\ Len(P) \in Nat
      BY <3>1, <3>3
    <3>5. SeedAt(program, r) = 2 + CHOOSE i \in 1..Len(P) : P[i] = r
      BY <2>2 DEF SeedAt, P
    <3> QED BY <3>4, <3>5
  <2> QED BY <2>1, <2>2
<1> QED BY <1>1, <1>2 DEF Seed

\* The classes of a pool are different, and every pool has lines of them.
LEMMA Ready ==
  ASSUME ControlOK, PagesOK, FactsInv, program # "worker",
         Did("mapping", "main"), Did("quota", "main"), Did("choose", "main"), NEW r \in Roles
  PROVE  /\ masks \in Seq(SUBSET Int) /\ quota_lines \in Nat \ {0} /\ cfg.group * quota_lines = cfg.workset
         /\ Fit \subseteq Range(class_space(masks)) /\ Groups(sets.victim, sets.disjoint, cfg.group, Fit)
         /\ Classes(r) \in Seq(Fit) /\ Len(Classes(r)) = cfg.group /\ OneToOne(Classes(r), Len(Classes(r)), Fit)
         /\ Enough(pool[r].pages, masks, Classes(r), quota_lines)
<1>0. program \in Programs /\ cfg.group \in Nat \ {0}
  BY Numbers DEF ControlOK
<1>1. Fact("mapping", "main") /\ Fact("quota", "main") /\ Fact("choose", "main")
  <2>1. \A op : Did(op, "main") => Fact(op, "main")
    BY StepIs DEF FactsInv, Did
  <2> QED BY <2>1
<1>2. masks \in MaskSets /\ cfg.workset % cfg.group = 0 /\ Groups(sets.victim, sets.disjoint, cfg.group, Fit)
  BY <1>1 DEF Fact
<1>3. masks \in Seq(SUBSET Int)
  BY <1>2, OracleSetupAssumption
<1>4. quota_lines \in Nat \ {0} /\ cfg.group * quota_lines = cfg.workset
  BY <1>2, Numbers
<1>5. Fit \subseteq Range(class_space(masks))
  BY DEF Fit
<1> DEFINE v == sets.victim
           d == sets.disjoint
           g == cfg.group
<1>6. g \in Nat /\ Groups(v, d, g, Fit)
  BY <1>0, <1>2
<1> HIDE DEF v, d, g
<1>7. OneToOne(v, g, Fit) /\ OneToOne(d, g, Fit)
  BY <1>6 DEF Groups
<1>8. ASSUME NEW h \in 0..g
      PROVE  Mixed(v, d, g, h) \in Seq(Fit) /\ Len(Mixed(v, d, g, h)) = g /\ OneToOne(Mixed(v, d, g, h), g, Fit)
  <2>1. Shares(v, Mixed(v, d, g, h), g, h, Fit)
    BY <1>6, MixedIs
  <2> QED BY <2>1 DEF Shares
<1>9. Classes(r) \in Seq(Fit) /\ Len(Classes(r)) = g /\ OneToOne(Classes(r), g, Fit)
  <2>1. CASE r = "victim" \/ (program \in {"overlap", "selective"} /\ r # "low")
    <3>1. Classes(r) = v
      BY <2>1 DEF Classes, ClassesAt, v
    <3> QED BY <1>6, <1>7, <3>1, GroupIs
  <2>2. CASE r # "victim" /\ program \in {"overlap", "selective"} /\ r = "low"
    <3>1. Classes(r) = d
      BY <2>2 DEF Classes, ClassesAt, d
    <3> QED BY <1>6, <1>7, <3>1, GroupIs
  <2>3. CASE r # "victim" /\ program \notin {"overlap", "selective"}
    <3> DEFINE lv == IF program = "sweep" THEN level ELSE r
    <3>1. Classes(r) = Mixed(v, d, g, candidate_shared_classes(lv, g))
      BY <2>3 DEF Classes, ClassesAt, v, d, g
    <3>2. lv \in Range(Levels)
      <4>1. program = "sweep" => level \in Range(Levels)
        BY DEF PagesOK
      <4>2. program # "sweep" => program \in {"multi", "cpumax"}
        BY <1>0, <2>3, OracleSetupAssumption
      <4>3. program \in {"multi", "cpumax"} => r \in {"victim"} \cup Range(Levels)
        BY <1>0, RolesKnown DEF Roles
      <4> QED BY <2>3, <4>1, <4>2, <4>3
    <3> HIDE DEF lv
    <3>3. candidate_shared_classes(lv, g) \in 0..g
      BY <1>6, <3>2, SharedIs
    <3> QED BY <1>8, <3>1, <3>3
  <2> QED BY <2>1, <2>2, <2>3
<1>10. Enough(pool[r].pages, masks, Classes(r), quota_lines)
  <2> DEFINE c == Classes(r)
  <2> HIDE DEF c
  <2>1. \A s \in 1..Len(c) : c[s] \in Fit
    <3>1. c \in Seq(Fit)
      BY <1>9 DEF c
    <3> QED BY <3>1
  <2>2. \A x \in Fit : CountOf(pool[r].pages, masks, x) >= quota_lines
    <3> HIDE DEF Roles, quota_lines
    <3> QED BY DEF Fit
  <2>3. Enough(pool[r].pages, masks, c, quota_lines)
    BY <2>1, <2>2 DEF Enough
  <2> QED BY <2>3 DEF c
<1> QED BY <1>3, <1>4, <1>5, <1>2, <1>9, <1>10 DEF g

\* Steps that are the worker's alone.
LEMMA WorkerOnly ==
  ASSUME ControlOK, Running,
         Steps[pc].op \in {"class", "granularity", "scan", "capacity", "release", "shuffle", "chain"}
  PROVE  program = "worker" /\ section = "setup"
<1> DEFINE st == Steps[pc]
<1>0. program \in Programs /\ section \in {"setup", "loop", "verify"}
  BY DEF ControlOK
<1>1. /\ section = "setup" => st \in SetupPlan(program)
      /\ section = "loop" => st \in LoopPlan(program)
      /\ section = "verify" => st.op \in {"verify", "stable"}
  BY NextStep
<1>2. section = "setup"
  BY <1>0, <1>1, LoopPlanIs
<1> QED BY <1>0, <1>1, <1>2, PlanIs

\* And steps that it does not make.
LEMMA NotWorker ==
  ASSUME ControlOK, Running,
         Steps[pc].op \in {"quota", "pool", "count", "choose", "collect", "histogram", "accept", "permutation",
                           "single", "multi", "level", "verify", "stable"}
  PROVE  program # "worker"
<1> DEFINE st == Steps[pc]
<1>0. program \in Programs /\ section \in {"setup", "loop", "verify"}
  BY DEF ControlOK
<1>1. /\ section = "setup" => st \in SetupPlan(program)
      /\ section = "loop" => st \in LoopPlan(program)
      /\ section = "verify" => program # "worker"
  BY NextStep
<1>2. CASE section = "setup"
  BY <1>0, <1>1, <1>2, PlanIs
<1>3. CASE section = "loop"
  <2>1. st = Step("run", "main") \/ program = "sweep"
    BY <1>0, <1>1, <1>3, LoopPlanIs
  <2>2. st # Step("run", "main")
    BY StepIs
  <2> QED BY <2>1, <2>2
<1> QED BY <1>0, <1>1, <1>2, <1>3

-----------------------------------------------------------------------------
(* Every step keeps the facts, and no test fails.                          *)

ReasonOK == reason \notin {"collect", "accept"}
DataInv == FactsInv /\ ReasonOK

\* Steps that go on or fail for a reason of their own.
LEMMA ReasonKept ==
  ASSUME ReasonOK, Done \/ Fail \/ Abort("call") \/ UNCHANGED control, ~At("collect"), ~At("accept"), Running
  PROVE  ReasonOK'
<1>1. Steps[pc].op \notin {"collect", "accept"}
  BY DEF At
<1>2. reason' \in {reason, Steps[pc].op, "call"}
  BY DEF Done, Fail, Abort, control
<1> QED BY <1>1, <1>2 DEF ReasonOK

\* Nothing is written.
LEMMA KeepsAll ==
  ASSUME UNCHANGED <<masks, sets, pool, permutation, level>>, NEW op, NEW r
  PROVE  Keeps(op, r)
  BY DEF Keeps

\* Steps that only look.
LEMMA DataQuiet ==
  ASSUME ControlOK, DataInv, DivideWorkset \/ RunConditions \/ VerifyPool \/ Judge \/ CallFails
  PROVE  DataInv'
<1>1. UNCHANGED params /\ UNCHANGED <<masks, sets, pool, permutation, level>> /\ Running
      /\ (Done \/ Fail \/ Abort("call"))
  BY DEF DivideWorkset, RunConditions, VerifyPool, Judge, CallFails, params, chosen, sweepVars, At
<1>2. PICK st \in {Steps[pc]} : TRUE
  OBVIOUS
<1>3. Done => Fact(st.op, st.who)'
  <2> SUFFICES ASSUME Done PROVE Fact(st.op, st.who)'
    OBVIOUS
  <2>1. CASE DivideWorkset
    <3>1. st.op = "quota"
      BY <1>2, <2>1 DEF DivideWorkset, At
    <3>2. cfg.workset % cfg.group = 0
      <4>1. ~Fail
        BY DEF Fail, Abort, Done, Running, ControlOK
      <4> QED BY <2>1, <4>1 DEF DivideWorkset
    <3>3. cfg' = cfg
      BY <1>1 DEF params
    <3> QED BY <3>1, <3>2, <3>3 DEF Fact
  <2>2. CASE RunConditions
    <3>1. st.op = "run"
      BY <1>2, <2>2 DEF RunConditions, At
    <3> QED BY <3>1 DEF Fact
  <2>3. CASE VerifyPool
    <3>1. st.op = "verify"
      BY <1>2, <2>3 DEF VerifyPool, At
    <3> QED BY <3>1 DEF Fact
  <2>4. CASE Judge
    <3>1. st.op = "stable"
      BY <1>2, <2>4 DEF Judge, At
    <3> QED BY <3>1 DEF Fact
  <2>5. CASE CallFails
    <3>1. rc' = rc /\ rc = "none" /\ rc' = "failure"
      BY <2>5 DEF CallFails, Abort, Done, Running
    <3> QED BY <3>1
  <2> QED BY <2>1, <2>2, <2>3, <2>4, <2>5
<1>4. \A x \in Known : Keeps(x.op, x.who)
  BY <1>1, KeepsAll
<1>5. Done \/ Stops \/ UNCHANGED control
  BY <1>1 DEF Stops, Fail, Abort
<1>6. FactsInv'
  BY <1>1, <1>2, <1>3, <1>4, <1>5, FactsStep DEF DataInv
<1>7. ReasonOK'
  <2>1. CASE CallFails
    BY <2>1 DEF CallFails, Abort, ReasonOK
  <2>2. CASE ~CallFails
    <3>1. ~At("collect") /\ ~At("accept")
      BY <2>2 DEF DivideWorkset, RunConditions, VerifyPool, Judge, At
    <3>2. ReasonOK
      BY DEF DataInv
    <3> QED BY <1>1, <3>1, <3>2, ReasonKept
  <2> QED BY <2>1, <2>2
<1> QED BY <1>6, <1>7 DEF DataInv

\* The worker's steps.
LEMMA DataWorker ==
  ASSUME ControlOK, DataInv,
         CheckClass \/ CheckGranularity \/ ScanPage \/ ScanEnds \/ CheckCapacity \/ ReleasePages \/ ShuffleLines \/ LinkLines
  PROVE  DataInv'
<1>1. /\ Running /\ Steps[pc].op \in {"class", "granularity", "scan", "capacity", "release", "shuffle", "chain"}
      /\ UNCHANGED params /\ (Done \/ Fail \/ UNCHANGED control)
  BY DEF CheckClass, CheckGranularity, ScanPage, ScanEnds, CheckCapacity, ReleasePages, ShuffleLines, LinkLines, At, params
<1>2. program = "worker"
  BY <1>1, WorkerOnly
<1>3. FactsInv'
  BY <1>1, <1>2 DEF FactsInv, params
<1>4. ReasonOK
  BY DEF DataInv
<1>5. ReasonOK'
  BY <1>1, <1>4, ReasonKept DEF At
<1> QED BY <1>3, <1>5 DEF DataInv

\* The end of a part, the end of a program, and the kernel.
LEMMA DataEnds ==
  ASSUME ControlOK, DataInv, NextSection \/ MovePage \/ Finished \/ UNCHANGED vars
  PROVE  DataInv'
<1>1. UNCHANGED params /\ UNCHANGED <<masks, sets, pool, permutation, level>>
  BY DEF NextSection, MovePage, Finished, vars, params, chosen, sweepVars
<1>2. program' = program
  BY <1>1 DEF params
<1>3. Known' \subseteq Known
  <2>1. CASE NextSection
    BY <2>1, KnownSection
  <2>2. CASE MovePage \/ Finished \/ UNCHANGED vars
    <3>1. UNCHANGED <<program, section, pc>>
      BY <1>2, <2>2 DEF MovePage, Finished, vars, control
    <3> QED BY <3>1, KnownStays
  <2> QED BY <2>1, <2>2
<1>4. FactsInv'
  <2> SUFFICES ASSUME program # "worker", NEW x \in Known' PROVE Fact(x.op, x.who)'
    BY <1>2 DEF FactsInv
  <2>1. Fact(x.op, x.who)
    BY <1>3 DEF DataInv, FactsInv
  <2>2. Keeps(x.op, x.who)
    BY <1>1, KeepsAll
  <2> QED BY <1>1, <2>1, <2>2, FactKept
<1>5. ReasonOK'
  <2>1. reason' \in {reason, "end"}
    <3>1. section \in {"setup", "loop", "verify"}
      BY DEF ControlOK
    <3> QED BY <3>1 DEF NextSection, MovePage, Finished, vars, control
  <2> QED BY <2>1 DEF DataInv, ReasonOK
<1> QED BY <1>4, <1>5 DEF DataInv

\* The mapping is read first.
LEMMA DataMapping ==
  ASSUME ControlOK, DataInv, load_mapping
  PROVE  DataInv'
<1>1. /\ UNCHANGED params /\ Running /\ Steps[pc].op = "mapping" /\ masks' \in MaskSets /\ (Done \/ Fail)
  BY DEF load_mapping, At, params
<1>2. PICK st \in {Steps[pc]} : TRUE
  OBVIOUS
<1>3. Fact(st.op, st.who)'
  BY <1>1, <1>2 DEF Fact
<1>4. program # "worker" => \A x \in Known : Keeps(x.op, x.who)
  BY <1>1, NotYet
<1>5. Done \/ Stops \/ UNCHANGED control
  BY <1>1 DEF Stops, Fail, Abort
<1>6. FactsInv'
  BY <1>1, <1>2, <1>3, <1>4, <1>5, FactsStep DEF DataInv
<1>7. ReasonOK
  BY DEF DataInv
<1>8. ReasonOK'
  BY <1>1, <1>7, ReasonKept DEF At
<1> QED BY <1>6, <1>8 DEF DataInv

\* Whose steps main has made.
LEMMA KnownRoles ==
  ASSUME ControlOK, NEW x \in Known, x.op \in {"pool", "count", "collect", "histogram", "accept", "single", "multi"}
  PROVE  x.who \in Roles
<1>0. program \in Programs
  BY DEF ControlOK
<1>1. x \in SetupPlan(program) \cup LoopPlan(program)
  BY KnownAfter
<1>2. CASE x \in SetupPlan(program)
  BY <1>0, <1>2, PlanIs DEF Roles
<1>3. CASE x \in LoopPlan(program)
  <2>1. (x = Step("run", "main") \/ program = "sweep") /\ x.who = "aggressor"
    BY <1>0, <1>3, LoopPlanIs
  <2>2. program = "sweep"
    BY <2>1, StepIs
  <2>3. Roles = {"victim", "aggressor"}
    BY <1>0, <2>2, RolesKnown DEF Roles
  <2> QED BY <2>1, <2>3
<1> QED BY <1>1, <1>2, <1>3

\* Pools are made before anything is known of them.
LEMMA DataCreate ==
  ASSUME ControlOK, DataInv, pool_create
  PROVE  DataInv'
<1>1. /\ UNCHANGED params /\ Running /\ Steps[pc].op = "pool" /\ (Done \/ Fail) /\ UNCHANGED <<masks, sets, permutation, level>>
  BY DEF pool_create, At, params, chosen, sweepVars
<1>2. PICK st \in {Steps[pc]} : TRUE
  OBVIOUS
<1>3. Fact(st.op, st.who)'
  BY <1>1, <1>2 DEF Fact
<1>4. ASSUME program # "worker", NEW x \in Known PROVE Keeps(x.op, x.who)
  <2>1. x.op \in {"mapping", "quota", "pool"}
    BY <1>1, <1>4, NotYet
  <2> QED BY <1>1, <2>1 DEF Keeps
<1>5. Done \/ Stops \/ UNCHANGED control
  BY <1>1 DEF Stops, Fail, Abort
<1>6. FactsInv'
  BY <1>1, <1>2, <1>3, <1>4, <1>5, FactsStep DEF DataInv
<1>7. ReasonOK
  BY DEF DataInv
<1>8. ReasonOK'
  BY <1>1, <1>7, ReasonKept DEF At
<1> QED BY <1>6, <1>8 DEF DataInv

\* The lines of a pool are counted.
LEMMA DataCount ==
  ASSUME ControlOK, DataInv, CountLines
  PROVE  DataInv'
<1>1. /\ UNCHANGED params /\ Running /\ Steps[pc].op = "count" /\ Done /\ UNCHANGED <<masks, sets, permutation, level>>
      /\ Update(Who, "counts", count_line_classes(pool[Who].pages, masks, Width))
  BY DEF CountLines, At, params, chosen, sweepVars
<1>2. PICK st \in {Steps[pc]} : TRUE
  OBVIOUS
<1>3. PICK r \in {Who} : TRUE
  OBVIOUS
<1>4. st.op = "count" /\ st.who = r /\ r \in Roles /\ "counts" \in Fields
  BY <1>1, <1>2, <1>3, WhoIs DEF Who, Fields
<1> DEFINE n == count_line_classes(pool[r].pages, masks, Width)
<1>5. Update(r, "counts", n)
  BY <1>1, <1>3
<1>6. /\ \A q \in Roles : q # r => pool'[q] = pool[q]
      /\ pool'[r]["counts"] = n
      /\ \A g \in Fields : g # "counts" => pool'[r][g] = pool[r][g]
  <2> HIDE DEF n
  <2> QED BY <1>4, <1>5, UpdateIs
<1>7. pool'[r].counts = n /\ pool'[r].pages = pool[r].pages
  BY <1>6 DEF Fields
<1>8. Fact(st.op, st.who)'
  BY <1>1, <1>4, <1>7 DEF Fact
<1>9. ASSUME program # "worker", NEW x \in Known PROVE Keeps(x.op, x.who)
  <2>1. x.op \in {"mapping", "quota", "pool", "count"} /\ x = Step(x.op, x.who) /\ st = Step(st.op, st.who) /\ x # st
    BY <1>1, <1>2, <1>9, NotYet
  <2>2. x.op = "count" => x.who # r /\ x.who \in Roles
    BY <1>4, <2>1, KnownRoles
  <2> QED BY <1>1, <1>6, <2>1, <2>2 DEF Keeps
<1>10. FactsInv'
  BY <1>1, <1>2, <1>8, <1>9, FactsStep DEF DataInv
<1>11. ReasonOK
  BY DEF DataInv
<1>12. ReasonOK'
  BY <1>1, <1>11, ReasonKept DEF At
<1> QED BY <1>10, <1>12 DEF DataInv

\* All pools have been counted when the classes are chosen.
LEMMA PreparedChoose ==
  ASSUME ControlOK, Running, Steps[pc].op = "choose"
  PROVE  program # "worker" /\ Did("mapping", "main") /\ \A r \in Roles : Did("count", r)
<1> DEFINE st == Steps[pc]
<1>0. program \in Programs /\ section \in {"setup", "loop", "verify"} /\ program # "worker"
  BY NotWorker DEF ControlOK
<1>1. /\ section = "setup" => \A x \in SetupPlan(program) : Stage(x.op) < Stage(st.op) => x \in Known
      /\ section = "loop" => st \in LoopPlan(program)
      /\ section = "verify" => st.op \in {"verify", "stable"}
  BY NextStep
<1>2. section = "setup"
  BY <1>0, <1>1, LoopPlanIs
<1>3. \A x \in SetupPlan(program) : x.op \in {"mapping", "count"} => x \in Known
  <2>1. Stage("mapping") = 1 /\ Stage("count") = 4 /\ Stage(st.op) = 5
    BY StageIs
  <2> HIDE DEF st
  <2> QED BY <1>1, <1>2, <2>1
<1>4. BeginningSteps(Roles) \subseteq SetupPlan(program)
  <2>1. CASE program = "sweep"
    <3>1. Roles = {"victim", "aggressor"}
      BY <1>0, <2>1, RolesKnown DEF Roles
    <3> QED BY <2>1, <3>1 DEF SetupPlan
  <2>2. CASE program # "sweep"
    <3>1. SetupPlan(program) = SetupSteps(Roles)
      BY <1>0, <2>2 DEF SetupPlan, Roles
    <3> HIDE DEF Roles
    <3> QED BY <3>1 DEF SetupSteps
  <2> QED BY <2>1, <2>2
<1> HIDE DEF Roles
<1>5. Step("mapping", "main") \in BeginningSteps(Roles) /\ \A r \in Roles : Step("count", r) \in BeginningSteps(Roles)
  BY DEF BeginningSteps, Of
<1> QED BY <1>0, <1>3, <1>4, <1>5, StepIs DEF Did

\* The counts are the numbers of lines of a class.
LEMMA CountsAre ==
  ASSUME NEW pages, NEW ms, NEW c \in Range(class_space(ms))
  PROVE  count_line_classes(pages, ms, Width)[c] = CountOf(pages, ms, c)
  BY Zenon DEF count_line_classes, Quantify, CountOf

\* The classes that are eligible fit.
LEMMA EligibleFit ==
  ASSUME ControlOK, FactsInv, Running, Steps[pc].op = "choose", ~TooFew(Eligible, cfg.group)
  PROVE  Groups(Split(Eligible, cfg.group, Seed(seed, 0)).victim, Split(Eligible, cfg.group, Seed(seed, 0)).disjoint,
                cfg.group, Fit)
<1>1. program # "worker" /\ Did("mapping", "main") /\ \A r \in Roles : Did("count", r)
  BY PreparedChoose
<1>2. Fact("mapping", "main") /\ \A r \in Roles : Fact("count", r)
  BY <1>1, StepIs DEF FactsInv, Did
<1>3. masks \in Seq(SUBSET Int) /\ \A r \in Roles : pool[r].counts = count_line_classes(pool[r].pages, masks, Width)
  BY <1>2, OracleSetupAssumption DEF Fact
<1>4. program \in Programs /\ cfg.group \in Nat /\ seed \in Nat
  BY <1>1, Numbers DEF ControlOK
<1> DEFINE cs == class_space(masks)
           n == Pow2[Len(masks)]
           I == EligibleAt(cs, counts, quota_lines, Roles)
<1>5. n \in Nat /\ OneToOne(cs, n, Range(cs))
  BY <1>3, ClassSpaceIs
<1>6. Eligible = Pick(cs, I)
  BY <1>1, <1>4, EligibleIs
<1>7. Len(cs) = n
  BY <1>5, GroupIs
<1>8. I \subseteq 1..n
  <2> HIDE DEF cs, n
  <2> QED BY <1>7 DEF EligibleAt
<1>9. \A i \in I : cs[i] \in Fit
  <2> SUFFICES ASSUME NEW i \in I PROVE cs[i] \in Fit
    OBVIOUS
  <2>1. i \in 1..n /\ cs[i] \in Range(cs)
    <3>1. i \in 1..n
      BY <1>8
    <3> HIDE DEF cs, n
    <3>2. cs \in [1..n -> Range(cs)]
      BY <1>5 DEF OneToOne
    <3> QED BY <3>1, <3>2
  <2>2. ASSUME NEW r \in Roles PROVE CountOf(pool[r].pages, masks, cs[i]) >= quota_lines
    <3>1. counts[r][cs[i]] >= quota_lines
      <4> HIDE DEF cs
      <4> QED BY DEF EligibleAt
    <3>2. counts[r] = pool[r].counts
      <4> HIDE DEF Roles
      <4> QED BY DEF counts
    <3>3. pool[r].counts[cs[i]] = CountOf(pool[r].pages, masks, cs[i])
      <4>1. count_line_classes(pool[r].pages, masks, Width)[cs[i]] = CountOf(pool[r].pages, masks, cs[i])
        <5> DEFINE c == cs[i]
                   p == pool[r].pages
        <5>1. c \in Range(class_space(masks))
          BY <2>1
        <5> HIDE DEF c, p
        <5>2. count_line_classes(p, masks, Width)[c] = CountOf(p, masks, c)
          BY <5>1, CountsAre
        <5> QED BY <5>2 DEF c, p
      <4> QED BY <1>3, <4>1
    <3> QED BY <3>1, <3>2, <3>3
  <2> HIDE DEF Roles, quota_lines
  <2> QED BY <2>1, <2>2 DEF Fit
<1> HIDE DEF I
<1> DEFINE e == Eligible
           m == Cardinality(I)
<1>10. m \in Nat /\ Len(e) = m /\ OneToOne(e, m, Fit)
  <2> HIDE DEF cs, n
  <2>1. m \in Nat /\ Len(Pick(cs, I)) = m /\ OneToOne(Pick(cs, I), m, Fit)
    BY <1>5, <1>8, <1>9, PickedIs
  <2> QED BY <1>6, <2>1 DEF cs
<1>11. Seed(seed, 0) \in Nat
  BY <1>4 DEF Seed
<1> HIDE DEF e, m
<1>12. ~TooFew(e, cfg.group)
  BY DEF e
<1> DEFINE x == Seed(seed, 0)
           g == cfg.group
<1>13. x \in Nat /\ g \in Nat /\ ~TooFew(e, g)
  BY <1>4, <1>11, <1>12
<1> HIDE DEF x, g
<1>14. Groups(Split(e, g, x).victim, Split(e, g, x).disjoint, g, Fit)
  BY <1>10, <1>13, SplitIs
<1> QED BY <1>14 DEF e, g, x

\* The classes are chosen.
LEMMA DataChoose ==
  ASSUME ControlOK, DataInv, ChooseClassSets
  PROVE  DataInv'
<1>1. /\ UNCHANGED params /\ Running /\ Steps[pc].op = "choose" /\ UNCHANGED <<masks, pool, permutation, level>>
      /\ \/ ~TooFew(Eligible, cfg.group) /\ sets' = Split(Eligible, cfg.group, Seed(seed, 0)) /\ Done
         \/ Fail /\ UNCHANGED sets
  BY DEF ChooseClassSets, At, params, chosen, sweepVars
<1>2. PICK st \in {Steps[pc]} : TRUE
  OBVIOUS
<1>3. Done => Fact(st.op, st.who)'
  <2> SUFFICES ASSUME Done PROVE Fact(st.op, st.who)'
    OBVIOUS
  <2>1. ~TooFew(Eligible, cfg.group) /\ sets' = Split(Eligible, cfg.group, Seed(seed, 0))
    BY <1>1 DEF Fail, Abort, Done, Running
  <2>2. Groups(sets'.victim, sets'.disjoint, cfg.group, Fit)
    BY <1>1, <2>1, EligibleFit DEF DataInv
  <2>3. Fit' = Fit /\ cfg' = cfg
    BY <1>1 DEF Fit, params, Roles, quota_lines
  <2> QED BY <1>1, <1>2, <2>2, <2>3 DEF Fact
<1>4. ASSUME program # "worker", NEW x \in Known PROVE Keeps(x.op, x.who)
  <2>1. x.op \in {"mapping", "quota", "pool", "count"}
    BY <1>1, <1>4, NotYet
  <2> QED BY <1>1, <2>1 DEF Keeps
<1>5. Done \/ Stops \/ UNCHANGED control
  BY <1>1 DEF Stops, Fail, Abort
<1>6. FactsInv'
  BY <1>1, <1>2, <1>3, <1>4, <1>5, FactsStep DEF DataInv
<1>7. ReasonOK
  BY DEF DataInv
<1>8. ReasonOK'
  BY <1>1, <1>7, ReasonKept DEF At
<1> QED BY <1>6, <1>8 DEF DataInv

\* The pages of a pool that has been made.
LEMMA PagesAre ==
  ASSUME ControlOK, PoolsOK, program # "worker", NEW r \in Roles, Did("pool", r)
  PROVE  pool[r].pages \in Seq(Homes) /\ Len(pool[r].pages) \in Nat /\ Len(pagemap[r]) = Len(pool[r].pages)
<1>1. PoolMade(r)
  <2> HIDE DEF Roles, Did
  <2> QED BY DEF PoolsOK
<1>2. pool[r].pages \in Seq(Homes \ {{}}) /\ Len(pagemap[r]) = Len(pool[r].pages)
  BY <1>1 DEF PoolMade
<1> QED BY <1>2

\* The lines are the ones that were looked for.
LEMMA Collected ==
  ASSUME ControlOK, PagesOK, PoolsOK, FactsInv, program # "worker", Did("mapping", "main"), Did("quota", "main"), Did("choose", "main"),
         NEW r \in Roles, Did("pool", r)
  PROVE  LET slots == collect_line_set(pool[r].pages, masks, Width, ClassesOf(r), quota_lines, Seed(seed, SelectSeed(r)))
         IN  /\ AllFilled(slots, quota_lines) /\ LineSet(slots, quota_lines) = Selection(r)
             /\ Selects(Selection(r), pool[r].pages, masks, Classes(r), quota_lines)
<1>1. Len(pool[r].pages) \in Nat
  BY PagesAre
<1>2. /\ quota_lines \in Nat \ {0}
      /\ Classes(r) \in Seq(Fit) /\ OneToOne(Classes(r), Len(Classes(r)), Fit)
      /\ Enough(pool[r].pages, masks, Classes(r), quota_lines)
  BY Ready
<1>3. Seed(seed, SeedAt(program, r)) \in Nat
  BY SeedNat
<1>4. ClassesOf(r) = Classes(r) /\ SelectSeed(r) = SeedAt(program, r)
  BY ClassesAre, SeedIs DEF Classes, ControlOK
<1> DEFINE p == pool[r].pages
           m == masks
           c == Classes(r)
           q == quota_lines
           x == Seed(seed, SeedAt(program, r))
<1>5. /\ Len(p) \in Nat /\ x \in Nat /\ c \in Seq(Fit) /\ OneToOne(c, Len(c), Fit) /\ q \in Nat /\ Enough(p, m, c, q)
  BY <1>1, <1>2, <1>3
<1>6. Selection(r) = Gathered(p, m, x, c, q)
  BY DEF Selection
<1>7. collect_line_set(pool[r].pages, masks, Width, ClassesOf(r), quota_lines, Seed(seed, SelectSeed(r)))
        = collect_line_set(p, m, Width, c, q, x)
  BY <1>4
<1> HIDE DEF p, m, c, q, x
<1>8. AllFilled(collect_line_set(p, m, Width, c, q, x), q) /\ LineSet(collect_line_set(p, m, Width, c, q, x), q) = Gathered(p, m, x, c, q)
  BY <1>5, CollectIs
<1>9. Selects(Gathered(p, m, x, c, q), p, m, c, q)
  BY <1>5, GatheredIs
<1>10. /\ AllFilled(collect_line_set(p, m, Width, c, q, x), q) /\ LineSet(collect_line_set(p, m, Width, c, q, x), q) = Selection(r)
       /\ Selects(Selection(r), p, m, c, q)
  BY <1>6, <1>8, <1>9
<1>11. quota_lines = q /\ pool[r].pages = p /\ masks = m /\ Classes(r) = c
  BY DEF q, p, m, c
<1> QED BY <1>7, <1>10, <1>11, Zenon

\* The lines of a pool are selected, and there are always enough.
LEMMA DataCollect ==
  ASSUME ControlOK, PagesOK, PoolsOK, DataInv, CollectLines
  PROVE  DataInv' /\ Done /\ Update(Who, "lines", Selection(Who)) /\ Who \in Roles
<1>1. /\ UNCHANGED params /\ Running /\ Steps[pc].op = "collect" /\ UNCHANGED <<masks, sets, permutation, level>>
  BY DEF CollectLines, At, params, chosen, sweepVars
<1>2. PICK st \in {Steps[pc]} : TRUE
  OBVIOUS
<1>3. PICK r \in {Who} : TRUE
  OBVIOUS
<1>4. st.op = "collect" /\ st.who = r /\ r \in Roles /\ "lines" \in Fields /\ program # "worker"
  BY <1>1, <1>2, <1>3, WhoIs, NotWorker DEF Who, Fields
<1>5. Did("mapping", "main") /\ Did("quota", "main") /\ Did("choose", "main") /\ Did("pool", r)
  BY <1>1, <1>4, Prepared
<1> DEFINE slots == collect_line_set(pool[r].pages, masks, Width, ClassesOf(r), quota_lines, Seed(seed, SelectSeed(r)))
<1>6. AllFilled(slots, quota_lines) /\ LineSet(slots, quota_lines) = Selection(r)
  BY <1>4, <1>5, Collected DEF DataInv
<1>7. IF AllFilled(slots, quota_lines) THEN Update(r, "lines", LineSet(slots, quota_lines)) /\ Done ELSE Fail /\ UNCHANGED pool
  BY <1>3, Zenon DEF CollectLines
<1>8. Update(r, "lines", Selection(r)) /\ Done
  <2> HIDE DEF slots
  <2> QED BY <1>6, <1>7
<1>9. /\ \A q \in Roles : q # r => pool'[q] = pool[q]
      /\ pool'[r]["lines"] = Selection(r)
      /\ \A g \in Fields : g # "lines" => pool'[r][g] = pool[r][g]
  BY <1>4, <1>8, UpdateIs
<1>10. pool'[r].lines = Selection(r) /\ pool'[r].pages = pool[r].pages
  BY <1>9 DEF Fields
<1>11. Fact(st.op, st.who)'
  <2>1. Selection(r)' = Selection(r)
    <3>1. program' = program /\ cfg' = cfg /\ seed' = seed /\ quota_lines' = quota_lines
      BY <1>1 DEF params, quota_lines
    <3>2. Classes(r)' = Classes(r)
      BY <1>1, <3>1 DEF Classes
    <3> QED BY <1>1, <1>10, <3>1, <3>2 DEF Selection
  <2> QED BY <1>4, <1>10, <2>1 DEF Fact
<1>12. ASSUME program # "worker", NEW x \in Known PROVE Keeps(x.op, x.who)
  <2>1. x.op \in {"collect", "histogram", "single", "multi"} => x.who # st.who
    BY <1>1, <1>2, <1>12, NotYet
  <2>2. x.op \in {"count", "collect", "histogram", "single", "multi"} => x.who \in Roles
    BY KnownRoles
  <2>3. \A q \in Roles : pool'[q].pages = pool[q].pages /\ pool'[q].counts = pool[q].counts
    BY <1>9 DEF Fields
  <2>4. x.op \in {"collect", "histogram", "single", "multi"} => pool'[x.who] = pool[x.who]
    BY <1>4, <1>9, <2>1, <2>2
  <2> QED BY <1>1, <2>2, <2>3, <2>4 DEF Keeps
<1>13. FactsInv'
  BY <1>1, <1>2, <1>8, <1>11, <1>12, FactsStep DEF DataInv
<1>14. ReasonOK'
  BY <1>8 DEF DataInv, ReasonOK, Done
<1> QED BY <1>3, <1>4, <1>8, <1>13, <1>14 DEF DataInv

\* Lines are collected before they are used.
LEMMA CollectedBefore ==
  ASSUME ControlOK, Running, Steps[pc].op \in {"histogram", "accept", "single", "multi"}
  PROVE  program # "worker" /\ Who \in Roles /\ Did("collect", Who)
<1> DEFINE st == Steps[pc]
<1>0. program \in Programs /\ section \in {"setup", "loop", "verify"} /\ program # "worker" /\ Who \in Roles /\ Who = st.who
      /\ st.op \in {"histogram", "accept", "single", "multi"}
  BY NotWorker, WhoIs DEF ControlOK, Who
<1>1. /\ section = "setup" => st \in SetupPlan(program) /\ \A x \in SetupPlan(program) : Stage(x.op) < Stage(st.op) => x \in Known
      /\ section = "loop" => st \in LoopPlan(program) /\ \A x \in LoopPlan(program) : Stage(x.op) < Stage(st.op) => x \in Known
      /\ section = "verify" => st.op \in {"verify", "stable"}
  BY NextStep
<1> HIDE DEF st
<1>2. Stage("collect") = 6 /\ Stage(st.op) \in {7, 9}
  BY <1>0, StageIs
<1>3. Step("collect", st.who).op = "collect"
  BY StepIs
<1>4. CASE section = "setup"
  <2>1. Step("collect", st.who) \in SetupPlan(program)
    <3>1. CASE program = "sweep"
      <4>1. st.who = "victim"
        BY <1>0, <1>1, <1>4, <3>1, PlanIs
      <4> QED BY <3>1, <4>1 DEF SetupPlan
    <3>2. CASE program # "sweep"
      <4>1. SetupPlan(program) = SetupSteps(Roles)
        BY <1>0, <3>2 DEF SetupPlan, Roles
      <4> HIDE DEF Roles
      <4> QED BY <1>0, <4>1 DEF SetupSteps, Of
    <3> QED BY <3>1, <3>2
  <2>2. Step("collect", st.who) \in Known
    BY <1>1, <1>2, <1>3, <1>4, <2>1
  <2> QED BY <1>0, <2>2 DEF Did
<1>5. CASE section = "loop"
  <2>1. (st = Step("run", "main") \/ program = "sweep") /\ (st.op # "run" => st.who = "aggressor")
    BY <1>0, <1>1, <1>5, LoopPlanIs
  <2>2. st.who = "aggressor" /\ program = "sweep"
    BY <1>0, <2>1, StepIs
  <2>3. Step("collect", st.who) \in LoopPlan(program)
    BY <2>2 DEF LoopPlan
  <2>4. Step("collect", st.who) \in Known
    BY <1>1, <1>2, <1>3, <1>5, <2>3
  <2> QED BY <1>0, <2>4 DEF Did
<1> QED BY <1>0, <1>1, <1>4, <1>5

\* The histogram of a pool shows its classes.
LEMMA DataHistogram ==
  ASSUME ControlOK, PagesOK, PoolsOK, DataInv, BuildHistogram
  PROVE  DataInv'
<1>1. /\ UNCHANGED params /\ Running /\ Steps[pc].op = "histogram" /\ Done /\ UNCHANGED <<masks, sets, permutation, level>>
      /\ Update(Who, "hist", build_histogram(pool[Who].pages, masks, Width, pool[Who].lines))
  BY DEF BuildHistogram, At, params, chosen, sweepVars
<1>2. PICK st \in {Steps[pc]} : TRUE
  OBVIOUS
<1>3. PICK r \in {Who} : TRUE
  OBVIOUS
<1>4. st.op = "histogram" /\ st.who = r /\ r \in Roles /\ "hist" \in Fields /\ program # "worker" /\ Did("collect", r)
  BY <1>1, <1>2, <1>3, CollectedBefore DEF Who, Fields
<1>5. Did("mapping", "main") /\ Did("quota", "main") /\ Did("choose", "main") /\ Did("pool", r)
  BY <1>1, <1>4, Prepared
<1> DEFINE p == pool[r].pages
           m == masks
           c == Classes(r)
           q == quota_lines
           l == pool[r].lines
           h == build_histogram(p, m, Width, l)
<1>6. Selects(Selection(r), p, m, c, q)
  BY <1>4, <1>5, Collected DEF DataInv
<1>7. l = Selection(r)
  <2>1. Fact("collect", r)
    BY <1>4, StepIs DEF DataInv, FactsInv, Did
  <2> QED BY <2>1 DEF Fact
<1>8. p \in Seq(Homes)
  BY <1>4, <1>5, PagesAre
<1>9. m \in Seq(SUBSET Int) /\ q \in Nat /\ c \in Seq(Fit) /\ OneToOne(c, Len(c), Fit)
  BY <1>4, <1>5, Ready DEF DataInv
<1>10. h = Bars(m, Range(c), q)
  <2>1. Selects(l, p, m, c, q)
    BY <1>6, <1>7
  <2> HIDE DEF p, m, c, q, l
  <2> QED BY <1>8, <1>9, <2>1, HistogramIs
<1>11. Update(r, "hist", h)
  BY <1>1, <1>3
<1> HIDE DEF h
<1>12. /\ \A z \in Roles : z # r => pool'[z] = pool[z]
       /\ pool'[r]["hist"] = h
       /\ \A g \in Fields : g # "hist" => pool'[r][g] = pool[r][g]
  BY <1>4, <1>11, UpdateIs
<1>13. pool'[r].hist = h
  BY <1>12
<1>14. Fact(st.op, st.who)'
  <2>1. program' = program /\ cfg' = cfg /\ quota_lines' = quota_lines
    BY <1>1 DEF params, quota_lines
  <2>2. Classes(r)' = Classes(r)
    BY <1>1, <2>1 DEF Classes
  <2> QED BY <1>1, <1>4, <1>10, <1>13, <2>1, <2>2 DEF Fact
<1>15. ASSUME program # "worker", NEW x \in Known PROVE Keeps(x.op, x.who)
  <2>1. x.op = "histogram" => x.who # st.who
    BY <1>1, <1>2, <1>15, NotYet
  <2>2. x.op \in {"count", "collect", "histogram", "single", "multi"} => x.who \in Roles
    BY KnownRoles
  <2>3. \A z \in Roles : /\ pool'[z].pages = pool[z].pages /\ pool'[z].counts = pool[z].counts
                         /\ pool'[z].lines = pool[z].lines /\ pool'[z].next = pool[z].next /\ pool'[z].roots = pool[z].roots
    BY <1>12 DEF Fields
  <2>4. x.op = "histogram" => pool'[x.who] = pool[x.who]
    BY <1>4, <1>12, <2>1, <2>2
  <2> QED BY <1>1, <2>2, <2>3, <2>4 DEF Keeps
<1>16. FactsInv'
  BY <1>1, <1>2, <1>14, <1>15, FactsStep DEF DataInv
<1>17. ReasonOK'
  BY <1>1 DEF DataInv, ReasonOK, Done
<1> QED BY <1>16, <1>17 DEF DataInv

\* Every pool passes its test.
LEMMA TestPasses ==
  ASSUME ControlOK, PagesOK, FactsInv, Running, Steps[pc].op = "accept"
  PROVE  Accepts(Who)
<1>1. program # "worker" /\ Did("histogram", Who) /\ Did("histogram", "victim") /\ Who \in Roles /\ program \in Programs
  BY TestReady, CollectedBefore DEF ControlOK
<1>2. PICK r \in {Who} : TRUE
  OBVIOUS
<1>3. "victim" \in Roles
  BY <1>1, RolesKnown DEF Roles
<1>4. Did("mapping", "main") /\ Did("quota", "main") /\ Did("choose", "main")
  BY <1>1, Prepared
<1> DEFINE m == masks
           q == quota_lines
           g == cfg.group
           v == sets.victim
           d == sets.disjoint
           hv == pool["victim"].hist
           h == pool[r].hist
<1>5. q \in Nat \ {0} /\ g \in Nat /\ Groups(v, d, g, Fit) /\ Fit \subseteq Range(class_space(m))
  BY <1>1, <1>3, <1>4, Ready, Numbers
<1>6. Fact("histogram", r) /\ Fact("histogram", "victim")
  BY <1>1, <1>2, StepIs DEF FactsInv, Did
<1>7. h = Bars(m, Range(Classes(r)), q) /\ hv = Bars(m, Range(Classes("victim")), q) /\ Classes("victim") = v
  BY <1>6 DEF Fact, Classes, ClassesAt
<1>8. hv = Bars(m, Range(v), q)
  BY <1>7
<1>9. r = "victim" => program = "sweep"
  <2>1. Steps[pc] \in SetupPlan(program) \/ Steps[pc] \in LoopPlan(program) \/ section = "verify"
    BY NextStep DEF ControlOK
  <2>2. section # "verify"
    BY NotYetVerify
  <2>3. CASE Steps[pc] \in SetupPlan(program)
    BY <1>1, <1>2, <2>3, PlanIs DEF Who
  <2>4. CASE Steps[pc] \in LoopPlan(program)
    <3>1. Steps[pc].who = "aggressor"
      BY <1>1, <2>4, LoopPlanIs
    <3> QED BY <1>2, <3>1 DEF Who
  <2> QED BY <2>1, <2>2, <2>3, <2>4
<1>10. Accepts(r) <=> Passes(program, r, hv, h, g, q, level)
  BY <1>1, <1>9, AcceptsAre
<1> HIDE DEF m, q, g, v, d, hv, h
<1>11. ASSUME NEW k \in 0..g
       PROVE  /\ histogram_unique_classes(Bars(m, Range(v), q)) = g
              /\ LevelIsExact(Bars(m, Range(v), q), Bars(m, Range(Mixed(v, d, g, k)), q), k, g, q)
  BY <1>5, LevelExact
<1>12. Passes(program, r, hv, h, g, q, level)
  <2>1. CASE program \in {"overlap", "selective"}
    <3>1. CASE r = "high"
      <4>1. Classes(r) = v
        BY <2>1, <3>1 DEF Classes, ClassesAt, v
      <4>2. h = hv
        BY <1>7, <1>8, <4>1
      <4> QED BY <2>1, <3>1, <4>2 DEF Passes
    <3>2. CASE r # "high"
      <4>1. r = "low"
        <5>1. Roles = {"victim", "high", "low"}
          BY <1>1, <2>1, RolesKnown DEF Roles
        <5> QED BY <1>1, <1>2, <1>9, <2>1, <3>2, <5>1
      <4>2. Classes(r) = d
        BY <2>1, <4>1 DEF Classes, ClassesAt, d
      <4>3. Intersection(Bars(m, Range(v), q), Bars(m, Range(d), q)) = 0
        BY <1>5, GroupsApart
      <4>4. Intersection(hv, h) = 0
        BY <1>7, <1>8, <4>2, <4>3
      <4> QED BY <2>1, <3>2, <4>4 DEF Passes
    <3> QED BY <3>1, <3>2
  <2>2. CASE program \notin {"overlap", "selective"}
    <3>1. CASE r = "victim"
      <4>1. 0 \in 0..g
        BY <1>5
      <4>2. histogram_unique_classes(hv) = g
        BY <1>8, <1>11, <4>1
      <4>3. h = hv
        BY <1>7, <1>8, <3>1
      <4> QED BY <2>2, <3>1, <4>2, <4>3 DEF Passes
    <3>2. CASE r # "victim"
      <4> DEFINE lv == IF program = "sweep" THEN level ELSE r
                 k == candidate_shared_classes(lv, g)
      <4>1. Classes(r) = Mixed(v, d, g, k)
        BY <2>2, <3>2 DEF Classes, ClassesAt, v, d, g
      <4>2. lv \in Range(Levels)
        <5>1. program = "sweep" => level \in Range(Levels)
          BY DEF PagesOK
        <5>2. program # "sweep" => program \in {"multi", "cpumax"}
          BY <1>1, <2>2, OracleSetupAssumption
        <5>3. program \in {"multi", "cpumax"} => r \in {"victim"} \cup Range(Levels)
          BY <1>1, <1>2, RolesKnown DEF Roles
        <5> QED BY <3>2, <5>1, <5>2, <5>3
      <4>3. k \in 0..g
        <5> HIDE DEF lv
        <5> QED BY <1>5, <4>2, SharedIs
      <4>4. LevelIsExact(hv, h, k, g, q)
        <5> HIDE DEF k
        <5> QED BY <1>7, <1>8, <1>11, <4>1, <4>3
      <4>5. Passes(program, r, hv, h, g, q, level) <=> LevelIsExact(hv, h, k, g, q)
        BY <2>2, <3>2 DEF Passes
      <4> QED BY <4>4, <4>5
    <3> QED BY <3>1, <3>2
  <2> QED BY <2>1, <2>2
<1> QED BY <1>2, <1>10, <1>12

\* The acceptance test.
LEMMA DataAccept ==
  ASSUME ControlOK, PagesOK, DataInv, Accept
  PROVE  DataInv'
<1>1. UNCHANGED params /\ UNCHANGED <<masks, sets, pool, permutation, level>> /\ Running /\ Steps[pc].op = "accept"
  BY DEF Accept, params, chosen, sweepVars, At
<1>2. Done
  <2>1. Accepts(Who)
    BY <1>1, TestPasses DEF DataInv
  <2> QED BY <2>1 DEF Accept
<1>3. PICK st \in {Steps[pc]} : TRUE
  OBVIOUS
<1>4. Fact(st.op, st.who)'
  BY <1>1, <1>3 DEF Fact
<1>5. \A x \in Known : Keeps(x.op, x.who)
  BY <1>1, KeepsAll
<1>6. FactsInv'
  BY <1>1, <1>2, <1>3, <1>4, <1>5, FactsStep DEF DataInv
<1>7. ReasonOK'
  BY <1>2 DEF DataInv, ReasonOK, Done
<1> QED BY <1>6, <1>7 DEF DataInv

\* make_permutation makes a permutation.
LEMMA PermutationIs ==
  ASSUME NEW n \in Nat, NEW x \in Nat
  PROVE  Permutes(make_permutation(n, x), n)
<1> DEFINE s == [i \in 1..n |-> i]
<1>1. s \in [1..n -> 1..n]
  OBVIOUS
<1>2. PICK p : Permutes(p, n) /\ shuffle(s, x) = Arranged(s, p, n)
  BY <1>1, ShuffleIs
<1>3. Arranged(s, p, n) = p
  <2>1. p \in [1..n -> 1..n]
    BY <1>2 DEF Permutes
  <2> QED BY <2>1 DEF Arranged
<1> QED BY <1>2, <1>3 DEF make_permutation

\* The permutation for the chains.
LEMMA DataPermutation ==
  ASSUME ControlOK, DataInv, MakePermutation
  PROVE  DataInv'
<1>1. /\ UNCHANGED params /\ Running /\ Steps[pc].op = "permutation" /\ Done /\ UNCHANGED <<masks, sets, pool, level>>
      /\ permutation' = make_permutation(cfg.workset, Seed(seed, 9))
  BY DEF MakePermutation, At, params, sweepVars
<1>2. PICK st \in {Steps[pc]} : TRUE
  OBVIOUS
<1>3. program # "worker"
  BY <1>1, NotWorker
<1>4. cfg.workset \in Nat /\ Seed(seed, 9) \in Nat
  BY <1>3, Numbers DEF Seed
<1>5. Permutes(permutation', cfg.workset)
  BY <1>1, <1>4, PermutationIs
<1>6. Fact(st.op, st.who)'
  BY <1>1, <1>2, <1>5 DEF Fact, params
<1>7. ASSUME program # "worker", NEW x \in Known PROVE Keeps(x.op, x.who)
  <2>1. x.op \notin {"single", "multi"} /\ x # st /\ x = Step(x.op, x.who) /\ st = Step(st.op, st.who)
    BY <1>1, <1>2, <1>7, NotYet
  <2>2. x.op # "permutation"
    <3> SUFFICES ASSUME x.op = "permutation" PROVE FALSE
      OBVIOUS
    <3>0. program \in Programs
      BY DEF ControlOK
    <3>1. x \in SetupPlan(program) \cup LoopPlan(program)
      BY KnownAfter
    <3>2. x.who = "main"
      BY <3>0, <3>1, PlanIs, LoopPlanIs
    <3>3. st.who = "main"
      <4>1. section \in {"setup", "loop", "verify"}
        BY DEF ControlOK
      <4>2. /\ section = "setup" => st \in SetupPlan(program)
            /\ section = "loop" => st \in LoopPlan(program)
            /\ section = "verify" => st.op \in {"verify", "stable"}
        BY <1>1, <1>2, NextStep
      <4> QED BY <1>1, <1>2, <3>0, <4>1, <4>2, PlanIs, LoopPlanIs
    <3> QED BY <1>1, <1>2, <2>1, <3>2, <3>3
  <2> QED BY <1>1, <2>1, <2>2 DEF Keeps
<1>8. FactsInv'
  BY <1>1, <1>2, <1>6, <1>7, FactsStep DEF DataInv
<1>9. ReasonOK'
  BY <1>1 DEF DataInv, ReasonOK, Done
<1> QED BY <1>8, <1>9 DEF DataInv

\* The chain of a pool.
LEMMA DataLink ==
  ASSUME ControlOK, DataInv, NEW r \in Roles, NEW chain, NEW roots, Link(r, chain, roots), DOMAIN chain = Range(pool[r].lines),
         UNCHANGED params, UNCHANGED <<masks, sets, permutation, level>>, Running, Done, Steps[pc].op \in {"single", "multi"}, Who = r,
         Steps[pc].op = "single" => /\ chain = build_single_chain(pool[r].lines, permutation)
                                    /\ roots = <<pool[r].lines[permutation[1]]>>,
         Steps[pc].op = "multi" => /\ chain = build_multi_chain(pool[r].lines, permutation, AGGRESSOR_STREAMS)
                                   /\ roots = [s \in 1..AGGRESSOR_STREAMS |-> pool[r].lines[permutation[s]]]
                                   /\ Len(pool[r].lines) >= AGGRESSOR_STREAMS
  PROVE  DataInv'
<1>1. PICK st \in {Steps[pc]} : TRUE
  OBVIOUS
<1>2. st.op \in {"single", "multi"} /\ st.who = r
  BY <1>1 DEF Who
<1>3. /\ \A q \in Roles : q # r => pool'[q] = pool[q]
      /\ pool'[r].next = Over(chain, pool[r].next) /\ pool'[r].roots = roots
      /\ pool'[r].pages = pool[r].pages /\ pool'[r].counts = pool[r].counts
      /\ pool'[r].lines = pool[r].lines /\ pool'[r].hist = pool[r].hist
  BY LinkIs
<1>4. \A a \in Range(pool[r].lines) : Over(chain, pool[r].next)[a] = chain[a]
  BY DEF Over
<1>5. Linked(pool'[r], chain, roots)
  BY <1>3, <1>4 DEF Linked
<1>6. Fact(st.op, st.who)'
  <2>1. CASE st.op = "single"
    <3>1. chain = build_single_chain(pool'[r].lines, permutation') /\ roots = <<pool'[r].lines[permutation'[1]]>>
      BY <1>1, <1>3, <2>1
    <3> QED BY <1>2, <1>5, <2>1, <3>1 DEF Fact
  <2>2. CASE st.op = "multi"
    <3>1. /\ chain = build_multi_chain(pool'[r].lines, permutation', AGGRESSOR_STREAMS)
          /\ roots = [s \in 1..AGGRESSOR_STREAMS |-> pool'[r].lines[permutation'[s]]]
          /\ Len(pool'[r].lines) >= AGGRESSOR_STREAMS
      BY <1>1, <1>3, <2>2
    <3> QED BY <1>2, <1>5, <2>2, <3>1 DEF Fact
  <2> QED BY <1>2, <2>1, <2>2
<1>7. ASSUME program # "worker", NEW x \in Known PROVE Keeps(x.op, x.who)
  <2>1. x.op \in {"single", "multi"} => x.who # st.who
    BY <1>1, <1>2, <1>7, NotYet
  <2>2. x.op \in {"count", "collect", "histogram", "single", "multi"} => x.who \in Roles
    BY KnownRoles
  <2>3. \A z \in Roles : /\ pool'[z].pages = pool[z].pages /\ pool'[z].counts = pool[z].counts
                         /\ pool'[z].lines = pool[z].lines /\ pool'[z].hist = pool[z].hist
    BY <1>3
  <2>4. x.op \in {"single", "multi"} => pool'[x.who] = pool[x.who]
    BY <1>2, <1>3, <2>1, <2>2
  <2> QED BY <2>2, <2>3, <2>4 DEF Keeps
<1>8. FactsInv'
  BY <1>1, <1>6, <1>7, FactsStep DEF DataInv
<1>9. ReasonOK'
  BY DEF DataInv, ReasonOK, Done
<1> QED BY <1>8, <1>9 DEF DataInv

\* Lines that have been collected stay the ones that were selected.
LEMMA Selected ==
  ASSUME ControlOK, PagesOK, PoolsOK, FactsInv, program # "worker", NEW r \in Roles, Did("collect", r),
         section # "setup" \/ (Running /\ Steps[pc].op \in {"collect", "histogram", "accept", "permutation", "single", "multi"})
  PROVE  /\ Selects(pool[r].lines, pool[r].pages, masks, Classes(r), quota_lines)
         /\ pool[r].lines = Selection(r)
         /\ Len(pool[r].lines) = cfg.workset /\ OneToOne(pool[r].lines, cfg.workset, Addresses(pool[r].pages, Width))
         /\ cfg.workset \in Nat \ {0}
<1>1. Did("mapping", "main") /\ Did("quota", "main") /\ Did("choose", "main") /\ Did("pool", r)
  BY Prepared
<1>2. Selects(Selection(r), pool[r].pages, masks, Classes(r), quota_lines)
  BY <1>1, Collected
<1>3. pool[r].lines = Selection(r)
  <2>1. Fact("collect", r)
    BY StepIs DEF FactsInv, Did
  <2> QED BY <2>1 DEF Fact
<1>4. cfg.group * quota_lines = cfg.workset /\ Len(Classes(r)) = cfg.group
  BY <1>1, Ready
<1>5. cfg.workset \in Nat \ {0}
  BY Numbers
<1> HIDE DEF quota_lines
<1>6. Len(pool[r].lines) = cfg.workset /\ OneToOne(pool[r].lines, cfg.workset, Addresses(pool[r].pages, Width))
  BY <1>2, <1>3, <1>4 DEF Selects
<1> QED BY <1>2, <1>3, <1>5, <1>6

\* The single chain.
LEMMA DataSingle ==
  ASSUME ControlOK, DataInv, SingleChain
  PROVE  DataInv'
<1>1. /\ UNCHANGED params /\ Running /\ Steps[pc].op = "single" /\ UNCHANGED <<masks, sets, permutation, level>> /\ Done
      /\ Link(Who, build_single_chain(pool[Who].lines, permutation), <<pool[Who].lines[permutation[1]]>>)
  BY DEF SingleChain, At, params, chosen, sweepVars
<1>2. PICK r \in {Who} : TRUE
  OBVIOUS
<1>3. r = Who /\ r \in Roles
  BY <1>1, <1>2, CollectedBefore
<1>4. PICK chain \in {build_single_chain(pool[r].lines, permutation)} : TRUE
  OBVIOUS
<1>5. PICK roots \in {<<pool[r].lines[permutation[1]]>>} : TRUE
  OBVIOUS
<1>6. chain = build_single_chain(pool[r].lines, permutation) /\ roots = <<pool[r].lines[permutation[1]]>> /\ Link(r, chain, roots)
  BY <1>1, <1>3, <1>4, <1>5
<1>7. DOMAIN chain = Range(pool[r].lines)
  BY <1>6 DEF build_single_chain
<1> HIDE DEF Roles
<1> QED BY <1>1, <1>3, <1>6, <1>7, DataLink

\* The chains of an aggressor.
LEMMA DataMulti ==
  ASSUME ControlOK, PagesOK, PoolsOK, DataInv, MultiChain
  PROVE  DataInv'
<1>1. /\ UNCHANGED params /\ Running /\ Steps[pc].op = "multi" /\ UNCHANGED <<masks, sets, permutation, level>>
  BY DEF MultiChain, At, params, chosen, sweepVars
<1>2. PICK r \in {Who} : TRUE
  OBVIOUS
<1>3. r = Who /\ r \in Roles
  BY <1>1, <1>2, CollectedBefore
<1>4. PICK chain \in {build_multi_chain(pool[r].lines, permutation, AGGRESSOR_STREAMS)} : TRUE
  OBVIOUS
<1>5. PICK roots \in {[s \in 1..AGGRESSOR_STREAMS |-> pool[r].lines[permutation[s]]]} : TRUE
  OBVIOUS
<1>6. /\ chain = build_multi_chain(pool[r].lines, permutation, AGGRESSOR_STREAMS)
      /\ roots = [s \in 1..AGGRESSOR_STREAMS |-> pool[r].lines[permutation[s]]]
  BY <1>4, <1>5
<1>7. IF Len(pool[r].lines) < AGGRESSOR_STREAMS THEN Fail /\ UNCHANGED pool ELSE Link(r, chain, roots) /\ Done
  BY <1>3, <1>6, Zenon DEF MultiChain
<1>8. CASE Len(pool[r].lines) < AGGRESSOR_STREAMS
  <2>1. Fail /\ UNCHANGED <<masks, sets, pool, permutation, level>>
    BY <1>1, <1>7, <1>8
  <2>2. PICK st \in {Steps[pc]} : TRUE
    OBVIOUS
  <2>3. Stops /\ ~Done
    BY <1>1, <2>1 DEF Stops, Fail, Abort, Done, Running
  <2>4. \A x \in Known : Keeps(x.op, x.who)
    BY <2>1, KeepsAll
  <2>5. FactsInv'
    BY <1>1, <2>2, <2>3, <2>4, FactsStep DEF DataInv
  <2>6. ReasonOK'
    BY <1>1, <2>1 DEF Fail, Abort, ReasonOK
  <2> QED BY <2>5, <2>6 DEF DataInv
<1>9. CASE ~(Len(pool[r].lines) < AGGRESSOR_STREAMS)
  <2>1. Link(r, chain, roots) /\ Done
    BY <1>7, <1>9
  <2>2. DOMAIN chain = Range(pool[r].lines)
    BY <1>6 DEF build_multi_chain
  <2>3. Len(pool[r].lines) >= AGGRESSOR_STREAMS
    <3>1. FactsInv /\ Did("collect", r) /\ program # "worker"
      BY <1>1, <1>3, CollectedBefore DEF DataInv
    <3>2. Len(pool[r].lines) \in Nat
      BY <1>1, <1>3, <3>1, Selected
    <3> QED BY <1>9, <3>2, OracleSetupAssumption
  <2> HIDE DEF Roles
  <2> QED BY <1>1, <1>3, <1>6, <2>1, <2>2, <2>3, DataLink
<1> QED BY <1>8, <1>9

\* The sweep's next condition: only the victim's lines are there.
LEMMA DataLevel ==
  ASSUME ControlOK, DataInv, NextLevel
  PROVE  DataInv'
<1>1. /\ UNCHANGED params /\ Running /\ Steps[pc].op = "level" /\ UNCHANGED <<masks, sets, pool, permutation>> /\ Done
  BY DEF NextLevel, At, params, chosen
<1>2. PICK st \in {Steps[pc]} : TRUE
  OBVIOUS
<1>3. Fact(st.op, st.who)'
  BY <1>1, <1>2 DEF Fact
<1>4. ASSUME program # "worker", NEW x \in Known PROVE Keeps(x.op, x.who)
  <2>1. x.op \in {"collect", "histogram", "single", "multi"} => x.who = "victim"
    BY <1>1, <1>4, NotYet
  <2> QED BY <1>1, <2>1 DEF Keeps
<1>5. FactsInv'
  BY <1>1, <1>2, <1>3, <1>4, FactsStep DEF DataInv
<1>6. ReasonOK'
  BY <1>1 DEF DataInv, ReasonOK, Done
<1> QED BY <1>5, <1>6 DEF DataInv

\* At first nothing is known.
LEMMA DataInit ==
  ASSUME Init
  PROVE  DataInv
<1>1. Known = {}
  <2>1. section = "setup" /\ pc = 1
    BY DEF Init
  <2>2. Past = {}
    BY <2>1 DEF Past
  <2>3. LoopPast = {}
    BY <2>1 DEF LoopPast
  <2> QED BY <2>2, <2>3 DEF Known
<1>2. reason = "none"
  BY DEF Init
<1> QED BY <1>1, <1>2 DEF DataInv, FactsInv, ReasonOK

\* Every step keeps what main has established.
LEMMA DataNext ==
  ASSUME ControlOK, PagesOK, PoolsOK, DataInv, [Next]_vars
  PROVE  DataInv'
<1>1. CASE load_mapping
  BY <1>1, DataMapping
<1>2. CASE DivideWorkset \/ RunConditions \/ VerifyPool \/ Judge \/ CallFails
  BY <1>2, DataQuiet
<1>3. CASE pool_create
  BY <1>3, DataCreate
<1>4. CASE CountLines
  BY <1>4, DataCount
<1>5. CASE ChooseClassSets
  BY <1>5, DataChoose
<1>6. CASE CollectLines
  BY <1>6, DataCollect
<1>7. CASE BuildHistogram
  BY <1>7, DataHistogram
<1>8. CASE Accept
  BY <1>8, DataAccept
<1>9. CASE MakePermutation
  BY <1>9, DataPermutation
<1>10. CASE SingleChain
  BY <1>10, DataSingle
<1>11. CASE MultiChain
  BY <1>11, DataMulti
<1>12. CASE CheckClass \/ CheckGranularity \/ ScanPage \/ ScanEnds \/ CheckCapacity \/ ReleasePages \/ ShuffleLines \/ LinkLines
  BY <1>12, DataWorker
<1>13. CASE NextLevel
  BY <1>13, DataLevel
<1>14. CASE NextSection \/ MovePage \/ Finished \/ UNCHANGED vars
  BY <1>14, DataEnds
<1> QED BY <1>1, <1>2, <1>3, <1>4, <1>5, <1>6, <1>7, <1>8, <1>9, <1>10, <1>11, <1>12, <1>13, <1>14 DEF Next, Main

-----------------------------------------------------------------------------
(* The overlap is the one the experiment names.                            *)

\* What main keeps from start to end.
LEMMA DataAlways ==
  Spec => [](ControlOK /\ UnmovedInv /\ DataInv)
<1>1. Init => UnmovedInv /\ DataInv
  BY UnmovedInit, DataInit
<1>2. ControlOK /\ (UnmovedInv /\ DataInv) /\ [Next]_vars => (UnmovedInv /\ DataInv)'
  BY UnmovedNext, DataNext DEF UnmovedInv
<1> QED BY <1>1, <1>2, StaysInScript, PTL DEF Spec

\* OverlapAsNamed: the acceptance test at the end of the setup, and at each
\* level of the sweep, never fails: histogram_shared_classes, the
\* intersection and the union of the histograms built from whole addresses
\* are those of the classes choose_class_sets gave the pools, for every
\* mapping, page layout, seed, number of classes and work set.
THEOREM OverlapIsAsNamed == Spec => []OverlapAsNamed
<1>1. DataInv => OverlapAsNamed
  BY DEF DataInv, ReasonOK, OverlapAsNamed
<1> QED BY <1>1, DataAlways, PTL

\* CollectNeverShort: collect_line_set finds quota lines of every class in
\* every pool and at every level, because choose_class_sets has counted them.
THEOREM CollectIsNeverShort == Spec => []CollectNeverShort
<1>1. DataInv => CollectNeverShort
  BY DEF DataInv, ReasonOK, CollectNeverShort
<1> QED BY <1>1, DataAlways, PTL

-----------------------------------------------------------------------------
(* The worker.                                                             *)

\* Lines of the target class in pages that have been looked at and kept,
\* unless the kernel has moved the page since.
GoodLines(pm, keep, n, mv, ms, t) ==
    {a \in Addresses(pm, Width) :
        /\ a[1] \in keep /\ a[1] <= n
        /\ \/ <<"worker", a[1]>> \in mv
           \/ pm[a[1]] # {} /\ address_bank_class(pm, ms, Width, a) = t}

\* A good line stays good.
LEMMA GoodGrows ==
  ASSUME NEW pm, NEW pm2, NEW keep, NEW keep2, NEW n \in Nat, NEW n2 \in Nat, NEW mv, NEW mv2, NEW ms, NEW t,
         Len(pm) \in Nat, Len(pm2) = Len(pm), keep \subseteq keep2, n <= n2, mv \subseteq mv2,
         \A p \in keep \cap (1..Len(pm)) : pm2[p] = pm[p] \/ <<"worker", p>> \in mv2
  PROVE  GoodLines(pm, keep, n, mv, ms, t) \subseteq GoodLines(pm2, keep2, n2, mv2, ms, t)
<1> SUFFICES ASSUME NEW a \in GoodLines(pm, keep, n, mv, ms, t) PROVE a \in GoodLines(pm2, keep2, n2, mv2, ms, t)
  OBVIOUS
<1>1. a \in Addresses(pm, Width) /\ a[1] \in keep /\ a[1] <= n
      /\ (<<"worker", a[1]>> \in mv \/ (pm[a[1]] # {} /\ address_bank_class(pm, ms, Width, a) = t))
  BY DEF GoodLines
<1>2. Addresses(pm2, Width) = Addresses(pm, Width) /\ a[1] \in 1..Len(pm)
  BY <1>1 DEF Addresses
<1>3. a[1] <= n2
  BY <1>1, <1>2
<1>4. pm2[a[1]] = pm[a[1]] => address_bank_class(pm2, ms, Width, a) = address_bank_class(pm, ms, Width, a)
  BY DEF address_bank_class
<1>5. pm2[a[1]] = pm[a[1]] \/ <<"worker", a[1]>> \in mv2
  BY <1>1, <1>2
<1> QED BY <1>1, <1>2, <1>3, <1>4, <1>5 DEF GoodLines

\* Values of a larger set.
LEMMA OneToOneGrows ==
  ASSUME NEW s, NEW n, NEW T, NEW U, T \subseteq U, OneToOne(s, n, T)
  PROVE  OneToOne(s, n, U)
  BY DEF OneToOne

\* What the worker has established.
Work == pool["worker"].lines
Good == GoodLines(pagemap["worker"], keep_page, scanned, moves, masks, cfg.target)
Sized == MinBit(masks) \in 0..Width /\ cfg.workset % Pow2[MinBit(masks)] = 0
WorkerChain(s) == build_single_chain(s, [i \in 1..Len(s) |-> i])
WorkerFacts ==
    /\ scanned \in 0..Len(pagemap["worker"])
    /\ Len(Work) \in Nat /\ OneToOne(Work, Len(Work), Good)
    /\ Did("mapping", "main") => masks \in MaskSets
    /\ Did("granularity", "main") => Sized
    /\ Did("granularity", "main") \/ Work = <<>>
    /\ Did("capacity", "worker") => Len(Work) = cfg.workset
    /\ Did("chain", "worker") => Linked(pool["worker"], WorkerChain(Work), <<Work[1]>>)
WorkerInv == program = "worker" => WorkerFacts

\* What the worker has done when it makes a step.
LEMMA WorkerDid ==
  ASSUME ControlOK, program = "worker", Running
  PROVE  LET st == Steps[pc]
         IN  /\ section # "verify" /\ st = Step(st.op, st.who)
             /\ st.op \in {"mapping", "class", "granularity", "scan", "capacity", "release", "shuffle", "chain", "run"}
             /\ st.op \in {"mapping", "class", "granularity", "run"} => st.who = "main"
             /\ st.op \in {"scan", "capacity", "release", "shuffle", "chain"} => st.who = "worker"
             /\ Did("mapping", "main") <=> st.op # "mapping"
             /\ Did("granularity", "main") <=> st.op \in {"scan", "capacity", "release", "shuffle", "chain", "run"}
             /\ Did("capacity", "worker") <=> st.op \in {"release", "shuffle", "chain", "run"}
             /\ Did("chain", "worker") <=> st.op = "run"
<1> DEFINE st == Steps[pc]
<1>0. program \in Programs /\ section \in {"setup", "loop", "verify"}
  BY DEF ControlOK
<1>1. /\ st = Step(st.op, st.who)
      /\ section = "setup" =>
           /\ st \in SetupPlan(program)
           /\ Known \subseteq SetupPlan(program) \ {st}
           /\ \A x \in Known : Stage(x.op) <= Stage(st.op)
           /\ \A x \in SetupPlan(program) : Stage(x.op) < Stage(st.op) => x \in Known
      /\ section = "loop" => st \in LoopPlan(program) /\ SetupPlan(program) \subseteq Known
      /\ section = "verify" => program # "worker"
  BY NextStep
<1>2. /\ Step("mapping", "main") \in SetupPlan(program) /\ Step("granularity", "main") \in SetupPlan(program)
      /\ Step("capacity", "worker") \in SetupPlan(program) /\ Step("chain", "worker") \in SetupPlan(program)
  BY DEF SetupPlan
<1> HIDE DEF st
<1>3. CASE section = "loop"
  <2>1. st = Step("run", "main")
    BY <1>0, <1>1, <1>3, LoopPlanIs
  <2>2. st.op = "run" /\ st.who = "main"
    BY <2>1, StepIs
  <2> QED BY <1>1, <1>2, <1>3, <2>2 DEF Did, st
<1>4. CASE section = "setup"
  <2>1. \/ st.op \in {"mapping", "class", "granularity"} /\ st.who = "main"
        \/ st.op \in {"scan", "capacity", "release", "shuffle", "chain"} /\ st.who = "worker"
    BY <1>1, <1>4, StepIs DEF SetupPlan
  <2>2. ASSUME NEW op \in {"mapping", "granularity", "capacity", "chain"}, NEW r, Step(op, r) \in SetupPlan(program)
        PROVE  /\ Stage(op) < Stage(st.op) => Did(op, r)
               /\ Did(op, r) => Stage(op) <= Stage(st.op) /\ Step(op, r) # st
    BY <1>1, <1>4, <2>2, StepIs DEF Did
  <2>3. /\ st.op = "mapping" => st = Step("mapping", "main")
        /\ st.op = "granularity" => st = Step("granularity", "main")
        /\ st.op = "capacity" => st = Step("capacity", "worker")
        /\ st.op = "chain" => st = Step("chain", "worker")
    BY <1>1, <2>1
  <2>4. Did("mapping", "main") <=> st.op # "mapping"
    BY <1>2, <2>1, <2>2, <2>3, StageIs
  <2>5. Did("granularity", "main") <=> st.op \in {"scan", "capacity", "release", "shuffle", "chain"}
    BY <1>2, <2>1, <2>2, <2>3, StageIs
  <2>6. Did("capacity", "worker") <=> st.op \in {"release", "shuffle", "chain"}
    BY <1>2, <2>1, <2>2, <2>3, StageIs
  <2>7. ~Did("chain", "worker")
    BY <1>2, <2>1, <2>2, <2>3, StageIs
  <2> QED BY <1>1, <1>4, <2>1, <2>4, <2>5, <2>6, <2>7 DEF st
<1> QED BY <1>0, <1>1, <1>3, <1>4

\* And when it has made it.
LEMMA WorkerNow ==
  ASSUME ControlOK, program = "worker", Running, UNCHANGED params, NEW st, st = Steps[pc], NEW op, NEW r
  PROVE  /\ Done => (Step(op, r) \in Known' <=> Step(op, r) \in Known \/ st = Step(op, r))
         /\ Stops \/ UNCHANGED control => Known' = Known
<1>1. program' = program /\ section # "verify"
  BY WorkerDid DEF params
<1>2. Done => Known' = Known \cup {st}
  BY <1>1, KnownGrows
<1>3. Stops \/ UNCHANGED control => Known' = Known
  <2>1. Stops \/ UNCHANGED control => UNCHANGED <<program, section, pc>>
    BY <1>1 DEF Stops, control
  <2> QED BY <2>1, KnownStays
<1> QED BY <1>2, <1>3

\* Steps that select and link nothing.
LEMMA WorkerQuiet ==
  ASSUME ControlOK, WorkerInv, CheckClass \/ CheckGranularity \/ ScanEnds \/ CheckCapacity \/ RunConditions \/ CallFails
  PROVE  WorkerInv'
<1>1. /\ Running /\ UNCHANGED params /\ UNCHANGED <<pool, pagemap, moves, masks, scanned, keep_page>>
      /\ (Done \/ Fail \/ Abort("call"))
  BY DEF CheckClass, CheckGranularity, ScanEnds, CheckCapacity, RunConditions, CallFails, At, chosen, kernel, workerVars
<1>2. program' = program /\ cfg' = cfg
  BY <1>1 DEF params
<1> SUFFICES ASSUME program = "worker" PROVE WorkerFacts'
  BY <1>2 DEF WorkerInv
<1>3. PICK st \in {Steps[pc]} : TRUE
  OBVIOUS
<1>4. WorkerFacts
  BY DEF WorkerInv
<1>5. Work' = Work /\ Good' = Good /\ (Sized' <=> Sized)
  BY <1>1, <1>2 DEF Work, Good, Sized
<1>6. /\ \A op, r : Done => (Step(op, r) \in Known' <=> Step(op, r) \in Known \/ st = Step(op, r))
      /\ ~Done => Known' = Known
  <2>1. ~Done => Stops
    BY <1>1 DEF Stops, Fail, Abort
  <2> QED BY <1>1, <1>3, <2>1, WorkerNow
<1>7. st = Steps[pc] /\ st = Step(st.op, st.who)
  BY <1>1, <1>3, WorkerDid
<1>8. Done => ~Fail
  BY <1>1 DEF Done, Fail, Abort, Running
<1>9. Done /\ st.op = "granularity" => Sized
  <2> SUFFICES ASSUME Done, st.op = "granularity" PROVE Sized
    OBVIOUS
  <2>1. CheckGranularity
    <3>1. ~CallFails
      BY <1>1 DEF CallFails, Abort, Done, Running
    <3> QED BY <1>7, <3>1 DEF CheckClass, CheckGranularity, ScanEnds, CheckCapacity, RunConditions, At
  <2>2. ~Worker!GranularityRefused(masks, Width, cfg.workset)
    BY <1>8, <2>1 DEF CheckGranularity
  <2>3. ~(MinBit(masks) < 0 \/ MinBit(masks) > Width \/ cfg.workset % Pow2[MinBit(masks)] # 0)
    BY <2>2, WorkerOps
  <2>4. MinBit(masks) \in Int /\ Width \in Nat
    <3>1. Did("mapping", "main")
      BY <1>1, <1>7, WorkerDid
    <3> QED BY <1>4, <3>1, MinBitIs, OracleSetupAssumption DEF WorkerFacts
  <2> QED BY <2>3, <2>4 DEF Sized
<1>10. Done /\ st.op = "capacity" => Len(Work) = cfg.workset
  <2> SUFFICES ASSUME Done, st.op = "capacity" PROVE Len(Work) = cfg.workset
    OBVIOUS
  <2>1. CheckCapacity
    <3>1. ~CallFails
      BY <1>1 DEF CallFails, Abort, Done, Running
    <3> QED BY <1>7, <3>1 DEF CheckClass, CheckGranularity, ScanEnds, CheckCapacity, RunConditions, At
  <2> QED BY <1>8, <2>1 DEF CheckCapacity, Work
<1>11. Done => st.op # "mapping" /\ st.op # "chain"
  <2> SUFFICES ASSUME Done PROVE st.op # "mapping" /\ st.op # "chain"
    OBVIOUS
  <2>1. ~CallFails
    BY <1>1 DEF CallFails, Abort, Done, Running
  <2> QED BY <1>7, <2>1 DEF CheckClass, CheckGranularity, ScanEnds, CheckCapacity, RunConditions, At
<1>12. /\ Did("mapping", "main")' => masks' \in MaskSets
       /\ Did("granularity", "main")' => Sized'
       /\ Did("granularity", "main") => Did("granularity", "main")'
       /\ Did("capacity", "worker")' => Len(Work') = cfg.workset
       /\ Did("chain", "worker")' => Did("chain", "worker")
  <2>1. \A op, r : st = Step(op, r) => st.op = op
    BY StepIs
  <2>2. /\ Did("mapping", "main") => masks \in MaskSets
        /\ Did("granularity", "main") => Sized
        /\ Did("capacity", "worker") => Len(Work) = cfg.workset
    BY <1>4 DEF WorkerFacts
  <2>3. ASSUME NEW op, NEW r
        PROVE  /\ Step(op, r) \in Known' => Step(op, r) \in Known \/ (Done /\ st.op = op)
               /\ Step(op, r) \in Known => Step(op, r) \in Known'
    BY <1>6, <2>1
  <2> QED BY <1>1, <1>5, <1>9, <1>10, <1>11, <2>2, <2>3 DEF Did
<1> HIDE DEF Did, Work, Good, Sized
<1>13. Did("granularity", "main")' \/ Work' = <<>>
  BY <1>4, <1>5, <1>12 DEF WorkerFacts
<1>14. Did("chain", "worker")' => Linked(pool["worker"], WorkerChain(Work), <<Work[1]>>)'
  <2>1. Linked(pool["worker"], WorkerChain(Work), <<Work[1]>>)' = Linked(pool["worker"], WorkerChain(Work), <<Work[1]>>)
    BY <1>1, <1>5 DEF Linked, WorkerChain
  <2> QED BY <1>4, <1>12, <2>1 DEF WorkerFacts
<1>15. scanned' \in 0..Len(pagemap'["worker"]) /\ Len(Work') \in Nat /\ OneToOne(Work', Len(Work'), Good')
  BY <1>1, <1>4, <1>5 DEF WorkerFacts
<1> QED BY <1>2, <1>12, <1>13, <1>14, <1>15 DEF WorkerFacts

\* The mapping is read before anything is selected.
LEMMA WorkerMapping ==
  ASSUME ControlOK, WorkerInv, load_mapping
  PROVE  WorkerInv'
<1>1. /\ Running /\ UNCHANGED params /\ UNCHANGED <<pool, pagemap, moves, scanned, keep_page>>
      /\ (Done \/ Fail) /\ masks' \in MaskSets /\ Steps[pc].op = "mapping"
  BY DEF load_mapping, At, kernel, workerVars
<1>2. program' = program /\ cfg' = cfg
  BY <1>1 DEF params
<1> SUFFICES ASSUME program = "worker" PROVE WorkerFacts'
  BY <1>2 DEF WorkerInv
<1>3. PICK st \in {Steps[pc]} : TRUE
  OBVIOUS
<1>4. WorkerFacts
  BY DEF WorkerInv
<1>5. ~Did("granularity", "main") /\ ~Did("capacity", "worker") /\ ~Did("chain", "worker")
  BY <1>1, WorkerDid
<1>6. /\ \A op, r : Done => (Step(op, r) \in Known' <=> Step(op, r) \in Known \/ st = Step(op, r))
      /\ ~Done => Known' = Known
  <2>1. ~Done => Stops
    BY <1>1 DEF Stops, Fail, Abort
  <2> QED BY <1>1, <1>3, <2>1, WorkerNow
<1>7. ~Did("granularity", "main")' /\ ~Did("capacity", "worker")' /\ ~Did("chain", "worker")'
  <2>1. \A op, r : st = Step(op, r) => op = "mapping"
    BY <1>1, <1>3, StepIs
  <2> QED BY <1>5, <1>6, <2>1 DEF Did
<1>8. Work' = Work /\ Work = <<>>
  BY <1>1, <1>4, <1>5 DEF Work, WorkerFacts
<1>9. Len(Work') = 0 /\ OneToOne(Work', 0, Good')
  <2> HIDE DEF Work, Good
  <2> QED BY <1>8 DEF OneToOne
<1>10. scanned' \in 0..Len(pagemap'["worker"])
  BY <1>1, <1>4 DEF WorkerFacts
<1> HIDE DEF Work, Good, Did
<1> QED BY <1>1, <1>7, <1>8, <1>9, <1>10 DEF WorkerFacts

\* The selection and the pages change together, and nothing else does.
LEMMA WorkerPages ==
  ASSUME ControlOK, PagesOK, WorkerFacts, program = "worker", UNCHANGED params, UNCHANGED <<pool, masks, scanned, keep_page>>,
         Len(pagemap'["worker"]) = Len(pagemap["worker"]), moves \subseteq moves',
         \A p \in keep_page \cap (1..Len(pagemap["worker"])) :
             pagemap'["worker"][p] = pagemap["worker"][p] \/ <<"worker", p>> \in moves',
         \A x \in {Step("mapping", "main"), Step("granularity", "main"), Step("capacity", "worker"), Step("chain", "worker")} :
             x \in Known' <=> x \in Known
  PROVE  WorkerFacts'
<1>1. cfg' = cfg
  BY DEF params
<1>2. Work' = Work /\ (Sized' <=> Sized)
  BY <1>1 DEF Work, Sized
<1>3. Len(pagemap["worker"]) \in Nat /\ scanned \in Nat
  <2>1. "worker" \in Roles
    BY RolesKnown DEF ControlOK, Roles
  <2>2. pagemap["worker"] \in Seq(Frames)
    BY <2>1 DEF PagesOK
  <2> QED BY <2>2 DEF WorkerFacts
<1>4. Good \subseteq Good'
  <2> DEFINE t == cfg.target
  <2>1. Good = GoodLines(pagemap["worker"], keep_page, scanned, moves, masks, t)
        /\ Good' = GoodLines(pagemap'["worker"], keep_page, scanned, moves', masks, t)
    BY <1>1 DEF Good
  <2> HIDE DEF t
  <2>2. GoodLines(pagemap["worker"], keep_page, scanned, moves, masks, t)
          \subseteq GoodLines(pagemap'["worker"], keep_page, scanned, moves', masks, t)
    <3>1. scanned <= scanned
      BY <1>3
    <3> QED BY <1>3, <3>1, GoodGrows
  <2> QED BY <2>1, <2>2
<1>5. Len(Work') \in Nat /\ OneToOne(Work', Len(Work'), Good')
  <2>1. Len(Work) \in Nat /\ OneToOne(Work, Len(Work), Good)
    BY DEF WorkerFacts
  <2> HIDE DEF Work, Good
  <2>2. OneToOne(Work, Len(Work), Good')
    BY <1>4, <2>1, OneToOneGrows
  <2> QED BY <1>2, <2>1, <2>2
<1>6. /\ Did("mapping", "main")' <=> Did("mapping", "main")
      /\ Did("granularity", "main")' <=> Did("granularity", "main")
      /\ Did("capacity", "worker")' <=> Did("capacity", "worker")
      /\ Did("chain", "worker")' <=> Did("chain", "worker")
  BY DEF Did
<1>7. Linked(pool["worker"], WorkerChain(Work), <<Work[1]>>)' = Linked(pool["worker"], WorkerChain(Work), <<Work[1]>>)
  BY <1>2 DEF Linked, WorkerChain
<1> HIDE DEF Did, Work, Good, Sized
<1> QED BY <1>1, <1>2, <1>5, <1>6, <1>7 DEF WorkerFacts

\* The kernel, and the end of a part of main.
LEMMA WorkerEnds ==
  ASSUME ControlOK, PagesOK, WorkerInv, NextSection \/ MovePage \/ Finished \/ UNCHANGED vars
  PROVE  WorkerInv'
<1>1. UNCHANGED params /\ UNCHANGED <<pool, masks, scanned, keep_page>>
  BY DEF NextSection, MovePage, Finished, vars, chosen, workerVars
<1>2. program' = program
  BY <1>1 DEF params
<1> SUFFICES ASSUME program = "worker" PROVE WorkerFacts'
  BY <1>2 DEF WorkerInv
<1>3. WorkerFacts
  BY DEF WorkerInv
<1>4. \A x \in {Step("mapping", "main"), Step("granularity", "main"), Step("capacity", "worker"), Step("chain", "worker")} :
          x \in Known' <=> x \in Known
  <2>1. CASE NextSection
    <3>1. Known' \subseteq Known /\ SetupPlan(program) \subseteq Known'
      BY <2>1, KnownSection
    <3>2. {Step("mapping", "main"), Step("granularity", "main"), Step("capacity", "worker"), Step("chain", "worker")} \subseteq SetupPlan(program)
      BY DEF SetupPlan
    <3> QED BY <3>1, <3>2
  <2>2. CASE MovePage \/ Finished \/ UNCHANGED vars
    <3>1. UNCHANGED <<program, section, pc>>
      BY <1>2, <2>2 DEF MovePage, Finished, vars, control
    <3> QED BY <3>1, KnownStays
  <2> QED BY <2>1, <2>2
<1>5. /\ Len(pagemap'["worker"]) = Len(pagemap["worker"]) /\ moves \subseteq moves'
      /\ \A p \in keep_page \cap (1..Len(pagemap["worker"])) :
             pagemap'["worker"][p] = pagemap["worker"][p] \/ <<"worker", p>> \in moves'
  <2>0. Roles = {"worker"}
    BY RolesKnown DEF ControlOK, Roles
  <2>1. CASE MovePage
    <3>1. pagemap["worker"] \in Seq(Frames) /\ DOMAIN pagemap = {"worker"}
      BY <2>0 DEF PagesOK
    <3>2. PICK q \in DOMAIN pagemap["worker"], to \in {Elsewhere, {}} :
            pagemap' = [pagemap EXCEPT !["worker"][q] = to] /\ moves' = moves \cup {<<"worker", q>>}
      BY <2>0, <2>1 DEF MovePage
    <3>3. pagemap'["worker"] = [pagemap["worker"] EXCEPT ![q] = to]
      BY <3>1, <3>2
    <3>4. Len(pagemap'["worker"]) = Len(pagemap["worker"])
      <4>1. DOMAIN pagemap'["worker"] = DOMAIN pagemap["worker"] /\ DOMAIN pagemap["worker"] = 1..Len(pagemap["worker"])
            /\ Len(pagemap["worker"]) \in Nat
        BY <3>1, <3>3
      <4> DEFINE s == pagemap["worker"]
      <4>2. Len([s EXCEPT ![q] = to]) = Len(s)
        <5>1. s \in Seq(Frames)
          BY <3>1
        <5> HIDE DEF s
        <5> QED BY <5>1
      <4> QED BY <3>3, <4>2
    <3>5. \A p \in 1..Len(pagemap["worker"]) : pagemap'["worker"][p] = pagemap["worker"][p] \/ p = q
      BY <3>1, <3>3
    <3> QED BY <3>2, <3>4, <3>5
  <2>2. CASE NextSection \/ Finished \/ UNCHANGED vars
    <3>1. UNCHANGED <<pagemap, moves>>
      BY <2>2 DEF NextSection, Finished, vars, kernel
    <3> QED BY <3>1
  <2> QED BY <2>1, <2>2
<1> QED BY <1>1, <1>3, <1>4, <1>5, WorkerPages

\* Only pages without a selected line are given back.
LEMMA WorkerRelease ==
  ASSUME ControlOK, PagesOK, WorkerInv, ReleasePages
  PROVE  WorkerInv'
<1>1. /\ Running /\ UNCHANGED params /\ UNCHANGED <<pool, masks, scanned, keep_page, moves>> /\ Done /\ Steps[pc].op = "release"
      /\ pagemap' = [pagemap EXCEPT !["worker"] =
                        [p \in DOMAIN @ |-> IF p \in Worker!release_unselected_pages(scanned, keep_page) THEN {} ELSE @[p]]]
  BY DEF ReleasePages, At, chosen, workerVars
<1>2. program = "worker" /\ program' = program
  BY <1>1, WorkerOnly DEF params
<1>3. WorkerFacts
  BY <1>2 DEF WorkerInv
<1>4. PICK st \in {Steps[pc]} : TRUE
  OBVIOUS
<1>5. \A x \in {Step("mapping", "main"), Step("granularity", "main"), Step("capacity", "worker"), Step("chain", "worker")} :
          x \in Known' <=> x \in Known
  <2>1. \A op, r : Step(op, r) \in Known' <=> Step(op, r) \in Known \/ st = Step(op, r)
    BY <1>1, <1>2, <1>4, WorkerNow
  <2>2. \A op, r : st = Step(op, r) => op = "release"
    BY <1>1, <1>4, StepIs
  <2> QED BY <2>1, <2>2
<1>6. /\ Len(pagemap'["worker"]) = Len(pagemap["worker"])
      /\ \A p \in keep_page \cap (1..Len(pagemap["worker"])) : pagemap'["worker"][p] = pagemap["worker"][p]
  <2> DEFINE s == pagemap["worker"]
             gone == (1..scanned) \ keep_page
  <2>1. s \in Seq(Frames) /\ "worker" \in DOMAIN pagemap
    <3>1. Roles = {"worker"}
      BY <1>2, RolesKnown DEF ControlOK, Roles
    <3> QED BY <3>1 DEF PagesOK
  <2>2. pagemap'["worker"] = [p \in DOMAIN s |-> IF p \in gone THEN {} ELSE s[p]]
    BY <1>1, <2>1, WorkerOps
  <2>3. \A p \in keep_page : p \notin gone
    OBVIOUS
  <2> HIDE DEF s, gone
  <2>4. DOMAIN s = 1..Len(s) /\ Len(s) \in Nat
    BY <2>1
  <2>5. Len([p \in 1..Len(s) |-> IF p \in gone THEN {} ELSE s[p]]) = Len(s)
    BY <2>4
  <2>6. \A p \in keep_page \cap (1..Len(s)) : pagemap'["worker"][p] = s[p]
    BY <2>2, <2>3, <2>4
  <2>7. Len(pagemap'["worker"]) = Len(s)
    BY <2>2, <2>4, <2>5
  <2> QED BY <2>6, <2>7 DEF s
<1>7. moves \subseteq moves'
  BY <1>1
<1>8. WorkerFacts'
  BY <1>1, <1>2, <1>3, <1>5, <1>6, <1>7, WorkerPages
<1> QED BY <1>8 DEF WorkerInv

\* Two sequences of different values one after the other.
LEMMA JoinIs ==
  ASSUME NEW n \in Nat, NEW m \in Nat, NEW T, NEW s, NEW t, OneToOne(s, n, T), OneToOne(t, m, T),
         \A i \in 1..n, j \in 1..m : s[i] # t[j]
  PROVE  Len(s \o t) = n + m /\ OneToOne(s \o t, n + m, T)
<1>1. s \in Seq(T) /\ t \in Seq(T) /\ Len(s) = n /\ Len(t) = m
  BY DEF OneToOne
<1> DEFINE u == s \o t
<1>2. /\ u \in Seq(T) /\ Len(u) = n + m
      /\ \A k \in 1..n : u[k] = s[k]
      /\ \A k \in 1..m : u[n + k] = t[k]
  <2>1. s \o t \in Seq(T) /\ Len(s \o t) = Len(s) + Len(t)
    BY <1>1, ConcatIs
  <2>2. \A k \in 1..Len(s) : (s \o t)[k] = s[k]
    BY <1>1, ConcatIs
  <2>3. \A k \in 1..Len(t) : (s \o t)[Len(s) + k] = t[k]
    BY <1>1, ConcatIs
  <2> QED BY <1>1, <2>1, <2>2, <2>3
<1> HIDE DEF u
<1>3. u \in [1..(n + m) -> T]
  BY <1>2
<1>4. ASSUME NEW i \in 1..(n + m) PROVE (i \in 1..n /\ u[i] = s[i]) \/ (i - n \in 1..m /\ u[i] = t[i - n])
  <2>1. CASE i <= n
    BY <1>2, <2>1
  <2>2. CASE i > n
    <3>1. i - n \in 1..m /\ n + (i - n) = i
      BY <2>2
    <3> QED BY <1>2, <3>1
  <2> QED BY <2>1, <2>2
<1>5. ASSUME NEW i \in 1..(n + m), NEW j \in 1..(n + m), u[i] = u[j] PROVE i = j
  <2>1. (i \in 1..n /\ u[i] = s[i]) \/ (i - n \in 1..m /\ u[i] = t[i - n])
    BY <1>4
  <2>2. (j \in 1..n /\ u[j] = s[j]) \/ (j - n \in 1..m /\ u[j] = t[j - n])
    BY <1>4
  <2>3. CASE i \in 1..n /\ u[i] = s[i] /\ j \in 1..n /\ u[j] = s[j]
    BY <1>5, <2>3 DEF OneToOne
  <2>4. CASE i - n \in 1..m /\ u[i] = t[i - n] /\ j - n \in 1..m /\ u[j] = t[j - n]
    <3>1. i - n = j - n
      BY <1>5, <2>4 DEF OneToOne
    <3> QED BY <3>1
  <2> QED BY <1>5, <2>1, <2>2, <2>3, <2>4
<1>6. OneToOne(u, n + m, T)
  BY <1>3, <1>5 DEF OneToOne
<1> QED BY <1>2, <1>6 DEF u

\* The selected lines in another order, or linked.
LEMMA WorkerShuffle ==
  ASSUME ControlOK, WorkerInv, ShuffleLines
  PROVE  WorkerInv'
<1>1. /\ Running /\ UNCHANGED params /\ UNCHANGED <<masks, scanned, keep_page, moves, pagemap>> /\ Done /\ Steps[pc].op = "shuffle"
      /\ Update("worker", "lines", Worker!shuffle_lines(Work))
  BY DEF ShuffleLines, At, chosen, workerVars, kernel, Work
<1>2. program = "worker" /\ program' = program /\ cfg' = cfg
  BY <1>1, WorkerOnly DEF params
<1>3. WorkerFacts
  BY <1>2 DEF WorkerInv
<1>4. PICK st \in {Steps[pc]} : TRUE
  OBVIOUS
<1>5. \A op, r : Step(op, r) \in Known' <=> Step(op, r) \in Known \/ st = Step(op, r)
  BY <1>1, <1>2, <1>4, WorkerNow
<1>6. \A op, r : st = Step(op, r) => op = "shuffle"
  BY <1>1, <1>4, StepIs
<1>7. Did("mapping", "main") /\ Did("granularity", "main") /\ Did("capacity", "worker") /\ ~Did("chain", "worker")
  BY <1>1, <1>2, WorkerDid
<1>8. ~Did("chain", "worker")' /\ Did("granularity", "main")'
  BY <1>5, <1>6, <1>7 DEF Did
<1>9. Work' = shuffle(Work, 1)
  <2>1. "worker" \in Roles /\ "lines" \in Fields
    BY <1>2, RolesKnown DEF ControlOK, Roles, Fields
  <2>2. pool'["worker"]["lines"] = Worker!shuffle_lines(Work)
    BY <1>1, <2>1, UpdateIs
  <2> QED BY <2>2, WorkerOps DEF Work
<1>10. Good' = Good /\ (Sized' <=> Sized)
  BY <1>1, <1>2 DEF Good, Sized
<1>11. Len(Work') = Len(Work) /\ OneToOne(Work', Len(Work), Good)
  <2>1. Len(Work) \in Nat /\ OneToOne(Work, Len(Work), Good)
    BY <1>3 DEF WorkerFacts
  <2> HIDE DEF Work, Good
  <2>2. OneToOne(shuffle(Work, 1), Len(Work), Good) /\ Len(shuffle(Work, 1)) = Len(Work)
    BY <2>1, ShuffledIs
  <2> QED BY <1>9, <2>2
<1>12. masks \in MaskSets /\ Sized /\ Len(Work) = cfg.workset /\ scanned \in 0..Len(pagemap["worker"]) /\ Len(Work) \in Nat
  BY <1>3, <1>7 DEF WorkerFacts
<1> HIDE DEF Did, Work, Good, Sized
<1>13. WorkerFacts'
  BY <1>1, <1>2, <1>8, <1>10, <1>11, <1>12 DEF WorkerFacts
<1> QED BY <1>13 DEF WorkerInv

\* The chain runs through them in this order.
LEMMA WorkerLink ==
  ASSUME ControlOK, WorkerInv, LinkLines
  PROVE  WorkerInv'
<1>1. /\ Running /\ UNCHANGED params /\ UNCHANGED <<masks, scanned, keep_page, moves, pagemap>> /\ Done /\ Steps[pc].op = "chain"
      /\ Link("worker", WorkerChain(Work), <<Work[1]>>)
  BY DEF LinkLines, At, chosen, workerVars, kernel, Work, WorkerChain
<1>2. program = "worker" /\ program' = program /\ cfg' = cfg
  BY <1>1, WorkerOnly DEF params
<1>3. WorkerFacts
  BY <1>2 DEF WorkerInv
<1>4. PICK st \in {Steps[pc]} : TRUE
  OBVIOUS
<1>5. \A op, r : Step(op, r) \in Known' <=> Step(op, r) \in Known \/ st = Step(op, r)
  BY <1>1, <1>2, <1>4, WorkerNow
<1>7. Did("mapping", "main") /\ Did("granularity", "main") /\ Did("capacity", "worker")
  BY <1>1, <1>2, WorkerDid
<1>8. Did("granularity", "main")'
  BY <1>5, <1>7 DEF Did
<1>9. PICK chain \in {WorkerChain(Work)} : TRUE
  OBVIOUS
<1>10. PICK roots \in {<<Work[1]>>} : TRUE
  OBVIOUS
<1>11. pool'["worker"].next = Over(chain, pool["worker"].next) /\ pool'["worker"].roots = roots /\ pool'["worker"].lines = pool["worker"].lines
  <2>1. "worker" \in Roles
    BY <1>2, RolesKnown DEF ControlOK, Roles
  <2>2. Link("worker", chain, roots)
    BY <1>1, <1>9, <1>10
  <2> QED BY <2>1, <2>2, LinkIs
<1>12. Work' = Work
  BY <1>11 DEF Work
<1>13. chain = WorkerChain(Work') /\ roots = <<Work'[1]>> /\ DOMAIN chain = Range(pool["worker"].lines)
  <2>1. chain = WorkerChain(Work) /\ roots = <<Work[1]>>
    BY <1>9, <1>10
  <2>2. DOMAIN WorkerChain(Work) = Range(Work)
    BY DEF WorkerChain, build_single_chain
  <2>3. Work = pool["worker"].lines
    BY DEF Work
  <2> HIDE DEF Work, WorkerChain
  <2> QED BY <1>12, <2>1, <2>2, <2>3
<1>14. \A a \in Range(pool["worker"].lines) : Over(chain, pool["worker"].next)[a] = chain[a]
  BY <1>13 DEF Over
<1>15. Linked(pool'["worker"], chain, roots)
  BY <1>11, <1>14 DEF Linked
<1>16. Linked(pool["worker"], WorkerChain(Work), <<Work[1]>>)'
  BY <1>13, <1>15
<1>17. Good' = Good /\ (Sized' <=> Sized)
  BY <1>1, <1>2 DEF Good, Sized
<1>18. /\ masks \in MaskSets /\ Sized /\ Len(Work) = cfg.workset /\ scanned \in 0..Len(pagemap["worker"]) /\ Len(Work) \in Nat
       /\ OneToOne(Work, Len(Work), Good)
  BY <1>3, <1>7 DEF WorkerFacts
<1> HIDE DEF Did, Work, Good, Sized
<1>19. WorkerFacts'
  BY <1>1, <1>2, <1>8, <1>12, <1>16, <1>17, <1>18 DEF WorkerFacts
<1> QED BY <1>19 DEF WorkerInv

\* Any of the blocks found in a page is good.
LEMMA ClassLinesGood ==
  ASSUME NEW pm, Len(pm) \in Nat, NEW p \in 1..Len(pm), NEW keep, p \in keep, NEW mv, NEW ms, NEW t, pm[p] # {}
  PROVE  ClassLines(p, pm[p], ms, t) \subseteq GoodLines(pm, keep, p, mv, ms, t)
<1> SUFFICES ASSUME NEW a \in ClassLines(p, pm[p], ms, t) PROVE a \in GoodLines(pm, keep, p, mv, ms, t)
  OBVIOUS
<1>1. PICK l \in 0..(Pow2[Width] - 1) : a = <<p, l>> /\ BankClass(ms, pm[p] \cup Offset(l, Width)) = t
  BY DEF ClassLines
<1>2. a \in Addresses(pm, Width) /\ a[1] = p /\ a[2] = l
  BY <1>1 DEF Addresses
<1>3. address_bank_class(pm, ms, Width, a) = t
  BY <1>1, <1>2 DEF address_bank_class
<1>4. p <= p
  OBVIOUS
<1> QED BY <1>2, <1>3, <1>4 DEF GoodLines

\* A page is scanned: its lines of the class join the others.
LEMMA WorkerScan ==
  ASSUME ControlOK, PagesOK, WorkerInv, ScanPage
  PROVE  WorkerInv'
<1> DEFINE pm == pagemap["worker"]
           p == scanned + 1
           page == pm[p]
           t == cfg.target
           B == Worker!BlocksOf(page, masks, Width, t, Wanted)
           L == Worker!LinesOf(p, B, masks)
           C == ClassLines(p, page, masks, t)
<1>1. /\ Running /\ UNCHANGED params /\ UNCHANGED <<masks, moves, pagemap>> /\ Steps[pc].op = "scan"
      /\ scanned < Len(pm) /\ Wanted > 0 /\ scanned' = p
      /\ IF page = {} THEN Fail /\ UNCHANGED <<pool, keep_page>>
         ELSE /\ keep_page' = keep_page \cup (IF B = <<>> THEN {} ELSE {p})
              /\ Update("worker", "lines", Work \o L)
              /\ UNCHANGED control
  BY DEF ScanPage, At, chosen, kernel, Work, read_one_pfn
<1>2. program = "worker" /\ program' = program /\ cfg' = cfg
  BY <1>1, WorkerOnly DEF params
<1>3. WorkerFacts
  BY <1>2 DEF WorkerInv
<1>4. Did("mapping", "main") /\ Did("granularity", "main") /\ ~Did("capacity", "worker") /\ ~Did("chain", "worker")
  BY <1>1, <1>2, WorkerDid
<1>5. Known' = Known
  <2>1. Stops \/ UNCHANGED control
    BY <1>1 DEF Stops, Fail, Abort
  <2> QED BY <1>1, <1>2, <2>1, WorkerNow
<1>6. Did("granularity", "main")' /\ ~Did("capacity", "worker")' /\ ~Did("chain", "worker")'
  BY <1>4, <1>5 DEF Did
<1>7. Roles = {"worker"} /\ pm \in Seq(Frames) /\ Len(pm) \in Nat
  <2>1. Roles = {"worker"}
    BY <1>2, RolesKnown DEF ControlOK, Roles
  <2>2. pm \in Seq(Frames)
    BY <2>1 DEF PagesOK
  <2> QED BY <2>1, <2>2
<1>8. /\ masks \in MaskSets /\ MinBit(masks) \in 0..Width /\ scanned \in 0..Len(pm)
      /\ Len(Work) \in Nat /\ OneToOne(Work, Len(Work), Good) /\ Sized
  BY <1>3, <1>4 DEF WorkerFacts, Sized
<1>9. p \in 1..Len(pm) /\ scanned \in Nat /\ p \in Nat /\ scanned <= p
  BY <1>1, <1>7, <1>8
<1>10. Wanted \in Nat
  <2>1. Wanted = (cfg.workset - Len(Work)) \div Pow2[MinBit(masks)]
    BY WorkerOps DEF Wanted, Work
  <2>2. cfg.workset \in Nat
    BY OracleSetupAssumption DEF ControlOK
  <2>3. MinBit(masks) \in Nat
    BY <1>8, OracleSetupAssumption
  <2>4. Pow2[MinBit(masks)] \in Nat \ {0}
    BY <2>3, Pow2Is
  <2> DEFINE a == cfg.workset - Len(Work)
             b == Pow2[MinBit(masks)]
  <2>5. a \in Int /\ b \in Nat \ {0} /\ Wanted = a \div b
    BY <1>8, <2>1, <2>2, <2>4
  <2> HIDE DEF a, b, Wanted
  <2>6. a \div b \in Int
    BY <2>5, DivModDef
  <2> QED BY <1>1, <2>5, <2>6
<1>11. Found(B, L, Wanted, masks, C)
  <2> HIDE DEF Wanted
  <2> QED BY <1>8, <1>10, ScannedLines
<1>12. Sized' <=> Sized
  BY <1>1, <1>2 DEF Sized
<1>13. Good = GoodLines(pm, keep_page, scanned, moves, masks, t) /\ Good' = GoodLines(pm, keep_page', p, moves, masks, t)
  BY <1>1, <1>2 DEF Good
<1>14. keep_page \subseteq keep_page'
  BY <1>1
<1> HIDE DEF Wanted, pm, p, page, t, B, L, C, Good, Work, Sized, Did
<1>15. Good \subseteq Good'
  <2>1. Len(pm) = Len(pm) /\ moves \subseteq moves
        /\ \A q \in keep_page \cap (1..Len(pm)) : pm[q] = pm[q] \/ <<"worker", q>> \in moves
    OBVIOUS
  <2> QED BY <1>7, <1>9, <1>13, <1>14, <2>1, GoodGrows
<1>16. OneToOne(Work, Len(Work), Good')
  BY <1>8, <1>15, OneToOneGrows
<1>17. scanned' \in 0..Len(pagemap'["worker"])
  <2>1. pagemap'["worker"] = pm
    BY <1>1 DEF pm
  <2> QED BY <1>1, <1>7, <1>9, <2>1
<1>18. Len(Work') \in Nat /\ OneToOne(Work', Len(Work'), Good')
  <2>1. CASE page = {}
    <3>1. Work' = Work
      BY <1>1, <2>1 DEF Work
    <3> QED BY <1>8, <1>16, <3>1
  <2>2. CASE page # {}
    <3>1. keep_page' = keep_page \cup (IF B = <<>> THEN {} ELSE {p}) /\ Update("worker", "lines", Work \o L)
      BY <1>1, <2>2
    <3>2. PICK s \in {Work \o L} : TRUE
      OBVIOUS
    <3>3. Work' = s
      <4>1. "worker" \in Roles /\ "lines" \in Fields
        BY <1>7 DEF Fields
      <4>2. Update("worker", "lines", s)
        BY <3>1, <3>2
      <4>3. pool'["worker"]["lines"] = s
        BY <4>1, <4>2, UpdateIs
      <4> QED BY <4>3 DEF Work
    <3> DEFINE n == Len(Work)
               m == Len(B) * Pow2[MinBit(masks)]
    <3>4. n \in Nat /\ m \in Nat /\ Len(L) = m /\ OneToOne(L, m, C) /\ (m = 0 <=> B = <<>>)
      BY <1>8, <1>11 DEF Found
    <3> HIDE DEF n, m
    <3>5. OneToOne(L, m, Good')
      <4>1. CASE m = 0
        BY <3>4, <4>1 DEF OneToOne
      <4>2. CASE m # 0
        <5>1. p \in keep_page'
          BY <3>1, <3>4, <4>2
        <5>2. ClassLines(p, pm[p], masks, t) \subseteq GoodLines(pm, keep_page', p, moves, masks, t)
          <6>1. pm[p] # {}
            BY <2>2 DEF page
          <6> QED BY <1>7, <1>9, <5>1, <6>1, ClassLinesGood
        <5>3. C \subseteq Good'
          BY <1>13, <5>2 DEF C, page
        <5> QED BY <3>4, <5>3, OneToOneGrows
      <4> QED BY <4>1, <4>2
    <3>6. ASSUME NEW i \in 1..n, NEW j \in 1..m PROVE Work[i] # L[j]
      <4>1. Work[i] \in Good
        BY <1>8 DEF OneToOne, n
      <4>2. L[j] \in C
        BY <3>4 DEF OneToOne
      <4>3. Work[i][1] <= scanned /\ Work[i][1] \in 1..Len(pm)
        BY <1>13, <4>1 DEF GoodLines, Addresses
      <4>4. L[j][1] = p
        <5>1. PICK l : L[j] = <<p, l>>
          BY <4>2 DEF C, ClassLines
        <5> QED BY <5>1
      <4>5. scanned < p
        BY <1>9 DEF p
      <4> QED BY <1>9, <4>3, <4>4, <4>5
    <3>7. OneToOne(Work, n, Good')
      BY <1>16 DEF n
    <3>8. Len(Work \o L) = n + m /\ OneToOne(Work \o L, n + m, Good')
      BY <3>4, <3>5, <3>6, <3>7, JoinIs
    <3>9. Work' = Work \o L /\ n + m \in Nat
      BY <3>2, <3>3, <3>4
    <3> QED BY <3>8, <3>9
  <2> QED BY <2>1, <2>2
<1>19. WorkerFacts'
  BY <1>1, <1>6, <1>8, <1>12, <1>17, <1>18 DEF WorkerFacts
<1> QED BY <1>19 DEF WorkerInv

\* Steps of the other programs.
LEMMA WorkerOthers ==
  ASSUME ControlOK, DivideWorkset \/ pool_create \/ CountLines \/ ChooseClassSets \/ CollectLines \/ BuildHistogram \/ Accept
                    \/ MakePermutation \/ SingleChain \/ MultiChain \/ NextLevel \/ VerifyPool \/ Judge
  PROVE  WorkerInv'
<1>1. /\ Running /\ UNCHANGED params
      /\ Steps[pc].op \in {"quota", "pool", "count", "choose", "collect", "histogram", "accept", "permutation",
                           "single", "multi", "level", "verify", "stable"}
  BY DEF DivideWorkset, pool_create, CountLines, ChooseClassSets, CollectLines, BuildHistogram, Accept,
         MakePermutation, SingleChain, MultiChain, NextLevel, VerifyPool, Judge, At
<1>2. program # "worker" /\ program' = program
  BY <1>1, NotWorker DEF params
<1> QED BY <1>2 DEF WorkerInv

\* At first the worker has selected nothing.
LEMMA WorkerInit ==
  ASSUME Init
  PROVE  WorkerInv
<1> SUFFICES ASSUME program = "worker" PROVE WorkerFacts
  BY DEF WorkerInv
<1>1. Known = {}
  <2>1. section = "setup" /\ pc = 1
    BY DEF Init
  <2>2. Past = {}
    BY <2>1 DEF Past
  <2>3. LoopPast = {}
    BY <2>1 DEF LoopPast
  <2> QED BY <2>2, <2>3 DEF Known
<1>2. Roles = {"worker"}
  BY RolesKnown DEF Init, Roles
<1>3. Work = <<>>
  <2>1. pool["worker"] = NoPool
    BY <1>2 DEF Init
  <2> QED BY <2>1 DEF Work, NoPool
<1>4. scanned \in 0..Len(pagemap["worker"])
  <2>1. pagemap["worker"] \in Seq(Frames)
    <3>1. PagesOK
      BY UnmovedInit DEF UnmovedInv
    <3> QED BY <1>2, <3>1 DEF PagesOK
  <2>2. scanned = 0
    BY DEF Init
  <2> QED BY <2>1, <2>2
<1>5. Len(Work) = 0 /\ OneToOne(Work, 0, Good)
  <2> HIDE DEF Work, Good
  <2> QED BY <1>3 DEF OneToOne
<1> HIDE DEF Work, Good
<1> QED BY <1>1, <1>3, <1>4, <1>5 DEF WorkerFacts, Did

\* Every step keeps what the worker has established.
LEMMA WorkerNext ==
  ASSUME ControlOK, PagesOK, WorkerInv, [Next]_vars
  PROVE  WorkerInv'
<1>1. CASE load_mapping
  BY <1>1, WorkerMapping
<1>2. CASE CheckClass \/ CheckGranularity \/ ScanEnds \/ CheckCapacity \/ RunConditions \/ CallFails
  BY <1>2, WorkerQuiet
<1>3. CASE ScanPage
  BY <1>3, WorkerScan
<1>4. CASE ReleasePages
  BY <1>4, WorkerRelease
<1>5. CASE ShuffleLines
  BY <1>5, WorkerShuffle
<1>6. CASE LinkLines
  BY <1>6, WorkerLink
<1>7. CASE DivideWorkset \/ pool_create \/ CountLines \/ ChooseClassSets \/ CollectLines \/ BuildHistogram \/ Accept
           \/ MakePermutation \/ SingleChain \/ MultiChain \/ NextLevel \/ VerifyPool \/ Judge
  BY <1>7, WorkerOthers
<1>8. CASE NextSection \/ MovePage \/ Finished \/ UNCHANGED vars
  BY <1>8, WorkerEnds
<1> QED BY <1>1, <1>2, <1>3, <1>4, <1>5, <1>6, <1>7, <1>8 DEF Next, Main

\* What the worker keeps from start to end.
LEMMA WorkerAlways == Spec => [](ControlOK /\ UnmovedInv /\ DataInv /\ WorkerInv)
<1>1. Init => WorkerInv
  BY WorkerInit
<1>2. ControlOK /\ PagesOK /\ WorkerInv /\ [Next]_vars => WorkerInv'
  BY WorkerNext
<1>3. UnmovedInv => PagesOK
  BY DEF UnmovedInv
<1> QED BY <1>1, <1>2, <1>3, DataAlways, PTL DEF Spec

\* WorkerKeepsToClass: when oracle_bank_worker runs, every line its chain
\* visits is of the class it was asked for, by the class of the whole
\* address, and is in a page release_unselected_pages has not given back,
\* unless the kernel has moved the page since; for every mapping whose
\* lowest bit the granularity test admits.
THEOREM WorkerStaysInClass == Spec => []WorkerKeepsToClass
<1>1. WorkerInv => WorkerKeepsToClass
  <2> SUFFICES ASSUME WorkerInv, program = "worker", NEW a \in Range(pool["worker"].lines)
               PROVE  \/ <<"worker", a[1]>> \in moves
                      \/ /\ read_one_pfn(pagemap["worker"][a[1]])
                         /\ address_bank_class(pagemap["worker"], masks, Width, a) = cfg.target
    BY DEF WorkerKeepsToClass
  <2>1. Len(Work) \in Nat /\ OneToOne(Work, Len(Work), Good) /\ a \in Range(Work)
    BY DEF WorkerInv, WorkerFacts, Work
  <2>2. a \in Good
    <3> HIDE DEF Work, Good
    <3> QED BY <2>1 DEF OneToOne, Range
  <2> QED BY <2>2 DEF Good, GoodLines, read_one_pfn
<1> QED BY <1>1, WorkerAlways, PTL

-----------------------------------------------------------------------------
(* The selected lines are lines of the pools.                              *)

LinesIn == program # "worker" => \A r \in Roles : Range(pool[r].lines) \subseteq Addresses(pagemap[r], Width)

\* Outside the worker, no pool changes its size.
LEMMA LengthsKept ==
  ASSUME ControlOK, PagesOK, program # "worker", [Next]_vars, NEW r \in Roles
  PROVE  Len(pagemap'[r]) = Len(pagemap[r])
<1>1. pagemap[r] \in Seq(Frames) /\ DOMAIN pagemap = Roles
  BY DEF PagesOK
<1>2. CASE MovePage
  <2> HIDE DEF Roles
  <2>1. PICK x \in Roles : \E q \in DOMAIN pagemap[x], to \in {Elsewhere, {}} : pagemap' = [pagemap EXCEPT ![x][q] = to]
    BY <1>2 DEF MovePage
  <2>2. PICK q \in DOMAIN pagemap[x], to \in {Elsewhere, {}} : pagemap' = [pagemap EXCEPT ![x][q] = to]
    BY <2>1
  <2>3. pagemap'[r] = IF r = x THEN [pagemap[r] EXCEPT ![q] = to] ELSE pagemap[r]
    BY <1>1, <2>2
  <2> DEFINE s == pagemap[r]
  <2>4. r = x => Len([s EXCEPT ![q] = to]) = Len(s)
    <3>1. s \in Seq(Frames) /\ (r = x => q \in DOMAIN s)
      BY <1>1
    <3> HIDE DEF s
    <3> QED BY <3>1
  <2> QED BY <2>3, <2>4
<1>3. CASE UNCHANGED pagemap
  BY <1>3
<1>4. ~ReleasePages
  BY WorkerOnly DEF ReleasePages, At
<1>5. Main /\ ~ReleasePages => UNCHANGED pagemap
  BY DEF Main, load_mapping, DivideWorkset, pool_create, CountLines, ChooseClassSets, CollectLines, BuildHistogram, Accept,
         MakePermutation, SingleChain, MultiChain, CheckClass, CheckGranularity, ScanPage, ScanEnds, CheckCapacity,
         ShuffleLines, LinkLines, NextLevel, RunConditions, VerifyPool, Judge, CallFails, NextSection, kernel
<1>6. Finished \/ UNCHANGED vars => UNCHANGED pagemap
  BY DEF Finished, vars, kernel
<1> QED BY <1>2, <1>3, <1>4, <1>5, <1>6 DEF Next

\* Lines are only written when they are collected.
LEMMA LinesKept ==
  ASSUME ControlOK, program # "worker", [Next]_vars, ~CollectLines, NEW r \in Roles
  PROVE  pool'[r].lines = pool[r].lines
<1>1. ASSUME NEW q \in Roles, NEW f \in {"pages", "counts", "hist"}, NEW v, Update(q, f, v) PROVE pool'[r].lines = pool[r].lines
  <2>1. f \in Fields /\ "lines" \in Fields /\ f # "lines"
    BY DEF Fields
  <2>2. (\A z \in Roles : z # q => pool'[z] = pool[z]) /\ (\A g \in Fields : g # f => pool'[q][g] = pool[q][g])
    BY <1>1, <2>1, UpdateIs
  <2>3. pool'[q]["lines"] = pool[q]["lines"]
    BY <2>1, <2>2
  <2> HIDE DEF Roles, Fields
  <2> QED BY <2>2, <2>3
<1>2. ASSUME NEW q \in Roles, NEW c, NEW t, Link(q, c, t) PROVE pool'[r].lines = pool[r].lines
  <2>1. (\A z \in Roles : z # q => pool'[z] = pool[z]) /\ pool'[q].lines = pool[q].lines
    BY <1>2, LinkIs
  <2> HIDE DEF Roles
  <2> QED BY <2>1
<1>3. ASSUME NEW op \in {"pool", "count", "histogram", "single", "multi"}, At(op) PROVE Who \in Roles
  BY <1>3, WhoIs DEF At
<1>4. ~ScanPage /\ ~ShuffleLines /\ ~LinkLines
  BY WorkerOnly DEF ScanPage, ShuffleLines, LinkLines, At
<1> HIDE DEF Roles, Who, At, Update, Link
<1>5. CASE pool_create
  BY <1>1, <1>3, <1>5 DEF pool_create
<1>6. CASE CountLines
  BY <1>1, <1>3, <1>6 DEF CountLines
<1>7. CASE BuildHistogram
  BY <1>1, <1>3, <1>7 DEF BuildHistogram
<1>8. CASE SingleChain
  BY <1>2, <1>3, <1>8 DEF SingleChain
<1>9. CASE MultiChain
  BY <1>2, <1>3, <1>9 DEF MultiChain
<1>10. CASE \/ load_mapping \/ DivideWorkset \/ ChooseClassSets \/ Accept \/ MakePermutation \/ CheckClass \/ CheckGranularity
            \/ ScanEnds \/ CheckCapacity \/ ReleasePages \/ NextLevel \/ RunConditions \/ VerifyPool \/ Judge \/ CallFails
            \/ NextSection \/ MovePage \/ Finished \/ UNCHANGED vars
  BY <1>10 DEF load_mapping, DivideWorkset, ChooseClassSets, Accept, MakePermutation, CheckClass, CheckGranularity,
         ScanEnds, CheckCapacity, ReleasePages, NextLevel, RunConditions, VerifyPool, Judge, CallFails, NextSection,
         MovePage, Finished, vars
<1> QED BY <1>4, <1>5, <1>6, <1>7, <1>8, <1>9, <1>10 DEF Next, Main

\* And then they are lines of the pool.
LEMMA LinesInNext ==
  ASSUME ControlOK, PagesOK, PoolsOK, DataInv, LinesIn, [Next]_vars
  PROVE  LinesIn'
<1>1. program' = program /\ Roles' = Roles
  BY ControlNext DEF params, Roles
<1> SUFFICES ASSUME program # "worker", NEW r \in Roles PROVE Range(pool'[r].lines) \subseteq Addresses(pagemap'[r], Width)
  BY <1>1 DEF LinesIn
<1>2. Addresses(pagemap'[r], Width) = Addresses(pagemap[r], Width)
  BY LengthsKept DEF Addresses
<1>3. Range(pool[r].lines) \subseteq Addresses(pagemap[r], Width)
  BY DEF LinesIn
<1>4. CASE ~CollectLines
  BY <1>2, <1>3, <1>4, LinesKept
<1>5. CASE CollectLines
  <2>1. Update(Who, "lines", Selection(Who)) /\ Who \in Roles /\ "lines" \in Fields
    BY <1>5, DataCollect DEF Fields
  <2>2. PICK w \in {Who} : TRUE
    OBVIOUS
  <2>3. PICK v \in {Selection(w)} : TRUE
    OBVIOUS
  <2>4. (\A z \in Roles : z # w => pool'[z] = pool[z]) /\ pool'[w]["lines"] = v /\ w \in Roles
    BY <2>1, <2>2, <2>3, UpdateIs
  <2>5. CASE r # w
    <3> HIDE DEF Roles
    <3> QED BY <1>2, <1>3, <2>4, <2>5
  <2>6. CASE r = w
    <3>1. Running /\ Steps[pc].op = "collect"
      BY <1>5 DEF CollectLines, At
    <3>2. Did("mapping", "main") /\ Did("quota", "main") /\ Did("choose", "main") /\ Did("pool", r)
      BY <3>1, Prepared
    <3>3. Selects(Selection(r), pool[r].pages, masks, Classes(r), quota_lines)
      BY <3>2, Collected DEF DataInv
    <3>4. Len(pagemap[r]) = Len(pool[r].pages)
      BY <3>2, PagesAre
    <3>5. Range(Selection(r)) \subseteq Addresses(pool[r].pages, Width)
      <4> DEFINE u == Selection(r)
                 n == Len(Classes(r)) * quota_lines
                 A == Addresses(pool[r].pages, Width)
      <4>1. OneToOne(u, n, A)
        BY <3>3 DEF Selects
      <4> HIDE DEF u, n, A
      <4>2. Range(u) \subseteq A
        BY <4>1 DEF OneToOne, Range
      <4> QED BY <4>2 DEF u, A
    <3>6. Addresses(pool[r].pages, Width) = Addresses(pagemap[r], Width)
      BY <3>4 DEF Addresses
    <3> QED BY <1>2, <2>3, <2>4, <2>6, <3>5, <3>6
  <2> QED BY <2>5, <2>6
<1> QED BY <1>4, <1>5

\* All that is kept.
SetupInv == ControlOK /\ UnmovedInv /\ DataInv /\ WorkerInv /\ LinesIn

\* It holds in every state.
LEMMA SetupAlways == Spec => []SetupInv
<1>1. Init => LinesIn
  <2> SUFFICES ASSUME Init, NEW r \in Roles PROVE Range(pool[r].lines) \subseteq Addresses(pagemap[r], Width)
    BY DEF LinesIn
  <2>1. pool[r].lines = <<>>
    <3> HIDE DEF Roles
    <3> QED BY DEF Init, NoPool
  <2>2. Range(<<>>) = {}
    BY DEF Range
  <2> QED BY <2>1, <2>2
<1>2. (ControlOK /\ UnmovedInv /\ DataInv /\ WorkerInv) /\ LinesIn /\ [Next]_vars => LinesIn'
  BY LinesInNext DEF UnmovedInv
<1> QED BY <1>1, <1>2, WorkerAlways, PTL DEF Spec, SetupInv

\* SelectionInv: the types, with every selected line a line of its pool for
\* as long as it is used, in the six programs; and collect_line_set finds
\* all the lines choose_class_sets has counted.
THEOREM SelectionIsSound == Spec => []SelectionInv
<1>1. SetupInv => SelectionInv
  <2> SUFFICES ASSUME SetupInv PROVE SelectionInv
    OBVIOUS
  <2>1. ControlOK /\ PagesOK /\ ReasonOK /\ WorkerInv /\ LinesIn
    BY DEF SetupInv, UnmovedInv, DataInv
  <2>2. \A r \in Roles : Range(pool[r].lines) \subseteq Addresses(pagemap[r], Width)
    <3>1. CASE program # "worker"
      BY <2>1, <3>1 DEF LinesIn
    <3>2. CASE program = "worker"
      <4>1. Roles = {"worker"}
        BY <2>1, <3>2, RolesKnown DEF ControlOK, Roles
      <4>2. Len(Work) \in Nat /\ OneToOne(Work, Len(Work), Good) /\ Work = pool["worker"].lines
        BY <2>1, <3>2 DEF WorkerInv, WorkerFacts, Work
      <4>3. Good \subseteq Addresses(pagemap["worker"], Width)
        BY DEF Good, GoodLines
      <4>4. Range(Work) \subseteq Good
        <5> HIDE DEF Work, Good
        <5> QED BY <4>2 DEF OneToOne, Range
      <4> HIDE DEF Work, Good
      <4> QED BY <4>1, <4>2, <4>3, <4>4
    <3> QED BY <3>1, <3>2
  <2>3. TypeOK
    <3> HIDE DEF Roles, Steps
    <3> QED BY <2>1, <2>2 DEF TypeOK, ControlOK, PagesOK
  <2>4. CollectNeverShort
    BY <2>1 DEF ReasonOK, CollectNeverShort
  <2> QED BY <2>3, <2>4 DEF SelectionInv
<1> QED BY <1>1, SetupAlways, PTL

-----------------------------------------------------------------------------
(* The chains.                                                             *)

\* The roots are the first lines in the order of the chain.
RootsAt(roots, lines, p, S) == DOMAIN roots = 1..S /\ \A s \in 1..S : roots[s] = lines[p[s]]

\* A pool whose lines hold the words of a chain is covered by it.
LEMMA LinkedCovers ==
  ASSUME NEW n \in Nat \ {0}, NEW S \in Nat \ {0}, S <= n, NEW T, NEW m, OneToOne(m.lines, n, T), Len(m.lines) = n,
         NEW p, Permutes(p, n), NEW chain, Threaded(chain, Arranged(m.lines, p, n), n, S),
         NEW roots, RootsAt(roots, m.lines, p, S), Linked(m, chain, roots)
  PROVE  Covers(m.next, m.roots, m.lines)
<1> DEFINE lines == m.lines
           L == Arranged(lines, p, n)
<1>1. OneToOne(L, n, T) /\ Range(lines) = {L[i] : i \in 1..n}
  <2>1. OneToOne(lines, n, T) /\ Len(lines) = n
    OBVIOUS
  <2> HIDE DEF lines
  <2> QED BY <2>1, ChainIs
<1>2. m.roots = roots /\ \A a \in Range(lines) : m.next[a] = chain[a]
  BY DEF Linked
<1>3. Len(lines) = n /\ Threaded(chain, L, n, S) /\ DOMAIN roots = 1..S /\ \A s \in 1..S : roots[s] = lines[p[s]]
  BY DEF RootsAt
<1> HIDE DEF lines
<1>4. \A s \in 1..S : roots[s] = L[s]
  <2>1. \A s \in 1..S : s \in 1..n
    OBVIOUS
  <2> QED BY <1>3, <2>1 DEF Arranged
<1> HIDE DEF L
<1>5. Threaded(m.next, L, n, S)
  <2> SUFFICES ASSUME NEW i \in 1..n PROVE m.next[L[i]] = L[Follower(i, n, S)]
    BY DEF Threaded
  <2>1. L[i] \in Range(lines)
    BY <1>1
  <2>2. chain[L[i]] = L[Follower(i, n, S)]
    BY <1>3 DEF Threaded
  <2> QED BY <1>2, <2>1, <2>2
<1>6. Covers(m.next, roots, lines)
  BY <1>1, <1>3, <1>4, <1>5, ThreadsCover
<1> QED BY <1>2, <1>6 DEF lines

\* What has been done when the conditions run.
LEMMA RunReady ==
  ASSUME ControlOK, program # "worker", Running, Steps[pc].op = "run", NEW r \in Roles
  PROVE  /\ section = "loop" /\ Did("permutation", "main") /\ Did("collect", r)
         /\ r = "victim" => Did("single", r)
         /\ r # "victim" => Did("multi", r)
<1>0. program \in Programs /\ section \in {"setup", "loop", "verify"}
  BY DEF ControlOK
<1>1. /\ section = "setup" => Steps[pc] \in SetupPlan(program)
      /\ section = "verify" => Steps[pc].op \in {"verify", "stable"}
      /\ section = "loop" => SetupPlan(program) \subseteq Known
                             /\ \A x \in LoopPlan(program) : Stage(x.op) < Stage(Steps[pc].op) => x \in Known
  BY NextStep
<1>2. section = "loop"
  BY <1>0, <1>1, PlanIs
<1>3. CASE program = "sweep"
  <2>1. r \in {"victim", "aggressor"}
    BY <1>0, <1>3, RolesKnown DEF Roles
  <2>2. Did("permutation", "main") /\ Did("collect", "victim") /\ Did("single", "victim")
    BY <1>1, <1>2, <1>3 DEF SetupPlan, Did
  <2>3. Did("collect", "aggressor") /\ Did("multi", "aggressor")
    <3>1. Step("collect", "aggressor") \in LoopPlan(program) /\ Step("multi", "aggressor") \in LoopPlan(program)
      BY <1>3 DEF LoopPlan
    <3>2. Step("collect", "aggressor").op = "collect" /\ Step("multi", "aggressor").op = "multi"
      BY StepIs
    <3> QED BY <1>1, <1>2, <3>1, <3>2, StageIs DEF Did
  <2> QED BY <1>2, <2>1, <2>2, <2>3
<1>4. CASE program # "sweep"
  <2>1. SetupPlan(program) = SetupSteps(Roles)
    BY <1>4 DEF SetupPlan, Roles
  <2> HIDE DEF Roles
  <2>2. /\ Step("permutation", "main") \in SetupSteps(Roles) /\ Step("collect", r) \in SetupSteps(Roles)
        /\ Step("single", "victim") \in SetupSteps(Roles)
        /\ r # "victim" => Step("multi", r) \in SetupSteps(Roles)
    BY DEF SetupSteps, Of
  <2> QED BY <1>1, <1>2, <2>1, <2>2 DEF Did
<1> QED BY <1>3, <1>4

\* The chains of the experiments.
LEMMA ChainsOfPools ==
  ASSUME ControlOK, PagesOK, PoolsOK, FactsInv, program # "worker", Running, Steps[pc].op = "run", NEW r \in Roles
  PROVE  Covers(pool[r].next, pool[r].roots, pool[r].lines)
<1>1. /\ section = "loop" /\ Did("permutation", "main") /\ Did("collect", r)
      /\ r = "victim" => Did("single", r)
      /\ r # "victim" => Did("multi", r)
  BY RunReady
<1>2. \A op, w : Did(op, w) => Fact(op, w)
  BY StepIs DEF FactsInv, Did
<1> DEFINE n == cfg.workset
           m == pool[r]
           A == Addresses(pool[r].pages, Width)
<1>3. n \in Nat \ {0} /\ OneToOne(m.lines, n, A) /\ Len(m.lines) = n
  BY <1>1, Selected
<1>4. Permutes(permutation, n)
  BY <1>1, <1>2 DEF Fact
<1>5. r = "victim" => Linked(m, build_single_chain(m.lines, permutation), <<m.lines[permutation[1]]>>)
  <2> SUFFICES ASSUME r = "victim" PROVE Linked(m, build_single_chain(m.lines, permutation), <<m.lines[permutation[1]]>>)
    OBVIOUS
  <2>1. Fact("single", r)
    BY <1>1, <1>2
  <2> QED BY <2>1 DEF Fact
<1>6. r # "victim" => /\ Len(m.lines) >= AGGRESSOR_STREAMS
                      /\ Linked(m, build_multi_chain(m.lines, permutation, AGGRESSOR_STREAMS),
                                [s \in 1..AGGRESSOR_STREAMS |-> m.lines[permutation[s]]])
  <2> SUFFICES ASSUME r # "victim"
               PROVE  /\ Len(m.lines) >= AGGRESSOR_STREAMS
                      /\ Linked(m, build_multi_chain(m.lines, permutation, AGGRESSOR_STREAMS),
                                [s \in 1..AGGRESSOR_STREAMS |-> m.lines[permutation[s]]])
    OBVIOUS
  <2>1. Fact("multi", r)
    BY <1>1, <1>2
  <2> QED BY <2>1 DEF Fact
<1> HIDE DEF n, m, A
<1>7. /\ Threaded(build_single_chain(m.lines, permutation), Arranged(m.lines, permutation, n), n, 1)
      /\ \A S \in Nat \ {0} : S <= n => Threaded(build_multi_chain(m.lines, permutation, S), Arranged(m.lines, permutation, n), n, S)
  <2> DEFINE l == m.lines
  <2>1. OneToOne(l, n, A) /\ Len(l) = n
    BY <1>3
  <2> HIDE DEF l
  <2>2. /\ Threaded(build_single_chain(l, permutation), Arranged(l, permutation, n), n, 1)
        /\ \A S \in Nat \ {0} : S <= n => Threaded(build_multi_chain(l, permutation, S), Arranged(l, permutation, n), n, S)
    BY <1>3, <1>4, <2>1, ChainIs
  <2> QED BY <2>2 DEF l
<1>8. CASE r = "victim"
  <2> DEFINE c == build_single_chain(m.lines, permutation)
             t == <<m.lines[permutation[1]]>>
  <2>1. 1 \in Nat \ {0} /\ 1 <= n
    BY <1>3
  <2>2. RootsAt(t, m.lines, permutation, 1)
    BY DEF RootsAt
  <2>3. Linked(m, c, t) /\ Threaded(c, Arranged(m.lines, permutation, n), n, 1)
    BY <1>5, <1>7, <1>8
  <2> HIDE DEF c, t
  <2>4. Covers(m.next, m.roots, m.lines)
    BY <1>3, <1>4, <2>1, <2>2, <2>3, LinkedCovers
  <2> QED BY <2>4 DEF m
<1>9. CASE r # "victim"
  <2> DEFINE S == AGGRESSOR_STREAMS
             c == build_multi_chain(m.lines, permutation, S)
             t == [s \in 1..S |-> m.lines[permutation[s]]]
  <2>1. S \in Nat \ {0} /\ S <= n
    BY <1>3, <1>6, <1>9, OracleSetupAssumption
  <2>2. RootsAt(t, m.lines, permutation, S)
    BY DEF RootsAt
  <2>3. Linked(m, c, t) /\ Threaded(c, Arranged(m.lines, permutation, n), n, S)
    BY <1>6, <1>7, <1>9, <2>1
  <2> HIDE DEF c, t, S
  <2>4. Covers(m.next, m.roots, m.lines)
    BY <1>3, <1>4, <2>1, <2>2, <2>3, LinkedCovers
  <2> QED BY <2>4 DEF m
<1> QED BY <1>8, <1>9

\* The chain of the worker.
LEMMA ChainOfWorker ==
  ASSUME ControlOK, WorkerInv, program = "worker", Running, Steps[pc].op = "run"
  PROVE  Covers(pool["worker"].next, pool["worker"].roots, pool["worker"].lines)
<1>1. Did("capacity", "worker") /\ Did("chain", "worker")
  BY WorkerDid
<1> DEFINE n == cfg.workset
           m == pool["worker"]
           id == [i \in 1..Len(Work) |-> i]
<1>2. /\ Len(m.lines) = n /\ OneToOne(m.lines, n, Good) /\ Linked(m, WorkerChain(m.lines), <<m.lines[1]>>)
  BY <1>1 DEF WorkerInv, WorkerFacts, Work
<1>3. n \in Nat \ {0}
  <2>1. cfg.workset \in Nat
    BY OracleSetupAssumption DEF ControlOK
  <2>2. cfg.workset > 0
    BY DEF ControlOK, AcceptsArgs, Worker!parse_args
  <2> QED BY <2>1, <2>2
<1>4. id = [i \in 1..n |-> i] /\ WorkerChain(m.lines) = build_single_chain(m.lines, id)
  BY <1>2 DEF WorkerChain, Work
<1> HIDE DEF n, m, id, Good
<1>5. Permutes(id, n)
  BY <1>3, <1>4 DEF Permutes
<1>6. Threaded(build_single_chain(m.lines, id), Arranged(m.lines, id, n), n, 1)
  <2> DEFINE l == m.lines
  <2>1. OneToOne(l, n, Good) /\ Len(l) = n
    BY <1>2
  <2> HIDE DEF l
  <2>2. Threaded(build_single_chain(l, id), Arranged(l, id, n), n, 1)
    BY <1>3, <1>5, <2>1, ChainIs
  <2> QED BY <2>2 DEF l
<1> DEFINE c == WorkerChain(m.lines)
           t == <<m.lines[1]>>
<1>7. RootsAt(t, m.lines, id, 1)
  BY <1>3, <1>4 DEF RootsAt
<1>8. Linked(m, c, t) /\ Threaded(c, Arranged(m.lines, id, n), n, 1)
  BY <1>2, <1>4, <1>6
<1>9. 1 \in Nat \ {0} /\ 1 <= n
  BY <1>3
<1> HIDE DEF c, t
<1>10. Covers(m.next, m.roots, m.lines)
  BY <1>2, <1>3, <1>5, <1>7, <1>8, <1>9, LinkedCovers
<1> QED BY <1>10 DEF m

\* ChainsCover: when the conditions run, the loads of every process visit
\* exactly the selected lines of its pool: the cycles that start at the
\* roots have no line in common, return to their roots, and miss none; for
\* any number of streams, and at each level of the sweep, whose chains are
\* written over those of the level before.
THEOREM ChainsCoverLines == Spec => []ChainsCover
<1>1. SetupInv => ChainsCover
  <2> SUFFICES ASSUME SetupInv, At("run"), NEW r \in Roles
               PROVE  LET cycle == [s \in DOMAIN pool[r].roots |-> Reached(r, pool[r].roots[s])]
                      IN  /\ UNION Range(cycle) = Range(pool[r].lines)
                          /\ \A s, t \in DOMAIN cycle : s # t => cycle[s] \cap cycle[t] = {}
                          /\ \A s \in DOMAIN cycle : \E a \in cycle[s] : pool[r].next[a] = pool[r].roots[s]
    BY DEF ChainsCover
  <2>1. ControlOK /\ PagesOK /\ PoolsOK /\ FactsInv /\ WorkerInv /\ Running /\ Steps[pc].op = "run"
    BY DEF SetupInv, UnmovedInv, DataInv, At
  <2>2. Covers(pool[r].next, pool[r].roots, pool[r].lines)
    <3>1. CASE program # "worker"
      BY <2>1, <3>1, ChainsOfPools
    <3>2. CASE program = "worker"
      <4>1. r = "worker"
        BY <2>1, <3>2, RolesKnown DEF ControlOK, Roles
      <4> QED BY <2>1, <3>2, <4>1, ChainOfWorker
    <3> QED BY <3>1, <3>2
  <2>3. \A root : Reached(r, root) = {Walk(pool[r].next, root)[k] : k \in 0..Len(pool[r].lines)}
    BY Zenon DEF Reached, Walk
  <2>4. [s \in DOMAIN pool[r].roots |-> Reached(r, pool[r].roots[s])]
          = [s \in DOMAIN pool[r].roots |-> {Walk(pool[r].next, pool[r].roots[s])[k] : k \in 0..Len(pool[r].lines)}]
    BY <2>3, Zenon
  <2>5. Divides([s \in DOMAIN pool[r].roots |-> Reached(r, pool[r].roots[s])], pool[r].next, pool[r].roots, pool[r].lines)
    BY <2>2, <2>4, Zenon DEF Covers
  <2> QED BY <2>5, Zenon DEF Divides
<1> QED BY <1>1, SetupAlways, PTL

-----------------------------------------------------------------------------
(* The lines of the sweep's levels.                                        *)

\* The lines of class c among lines, and the first q of the pool.
OfClass(lines, pages, ms, c) == {a \in lines : ClassAt(pages, ms, Width, a) = c}
Firsts(pages, ms, x, c, q) == {Place(pages, ms, x, c, k) : k \in 1..q}

\* A selection has all of the first q lines of a class, or none of the class.
LEMMA ClassOfGathered ==
  ASSUME NEW pages, Len(pages) \in Nat, NEW ms, NEW x \in Nat, NEW T, NEW classes \in Seq(T),
         OneToOne(classes, Len(classes), T), NEW q \in Nat, Enough(pages, ms, classes, q), NEW c,
         OfClass(Range(Gathered(pages, ms, x, classes, q)), pages, ms, c) # {}
  PROVE  OfClass(Range(Gathered(pages, ms, x, classes, q)), pages, ms, c) = Firsts(pages, ms, x, c, q)
<1> DEFINE s == Gathered(pages, ms, x, classes, q)
           g == Len(classes)
           n == g * q
           F == Firsts(pages, ms, x, c, q)
           O == OfClass(Range(s), pages, ms, c)
           cl(a) == ClassAt(pages, ms, Width, a)
           P(d, k) == Place(pages, ms, x, d, k)
<1>1. Selects(s, pages, ms, classes, q)
  BY GatheredIs
<1>2. /\ n \in Nat /\ Range(s) = {s[i] : i \in 1..n} /\ \A i \in 1..n : cl(s[i]) = classes[Row(i, q)]
  BY <1>1 DEF Selects
<1>3. g \in Nat /\ Rows(g, q)
  <2>1. g \in Nat
    OBVIOUS
  <2> QED BY <2>1, Grid, Zenon
<1>4. \A i \in 1..n : s[i] = P(classes[Row(i, q)], Column(i, q))
  BY DEF Gathered
<1>5. F = {P(c, k) : k \in 1..q} /\ O = {a \in Range(s) : cl(a) = c} /\ O # {}
  BY DEF Firsts, OfClass
<1> HIDE DEF s, F, O, cl, P, n
<1>6. ASSUME NEW a \in O PROVE \E i \in 1..n : s[i] = a /\ classes[Row(i, q)] = c
  BY <1>2, <1>5
<1>7. ASSUME NEW i \in 1..n PROVE Row(i, q) \in 1..g /\ Column(i, q) \in 1..q
  BY <1>3 DEF Rows, n
<1>8. O \subseteq F
  <2> SUFFICES ASSUME NEW a \in O PROVE a \in F
    OBVIOUS
  <2>1. PICK i \in 1..n : s[i] = a /\ classes[Row(i, q)] = c
    BY <1>6
  <2> QED BY <1>4, <1>5, <1>7, <2>1
<1>9. F \subseteq O
  <2>1. PICK a \in O : TRUE
    BY <1>5
  <2>2. PICK i \in 1..n : s[i] = a /\ classes[Row(i, q)] = c
    BY <1>6
  <2>3. PICK r \in 1..g : classes[r] = c
    BY <1>7, <2>2
  <2> SUFFICES ASSUME NEW k \in 1..q PROVE P(c, k) \in O
    BY <1>5
  <2>4. PICK j \in 1..n : Row(j, q) = r /\ Column(j, q) = k
    <3>1. (r - 1) * q + k \in 1..(g * q) /\ Row((r - 1) * q + k, q) = r /\ Column((r - 1) * q + k, q) = k
      BY <1>3 DEF Rows
    <3> QED BY <3>1 DEF n
  <2>5. s[j] = P(c, k) /\ cl(s[j]) = c /\ s[j] \in Range(s)
    BY <1>2, <1>4, <2>3, <2>4
  <2> QED BY <1>5, <2>5
<1>10. O = F
  BY <1>8, <1>9
<1> QED BY <1>10 DEF O, F, s

\* The aggressor's classes and lines at level v.
LevelClasses(v) == ClassesAt("sweep", sets, cfg.group, v, "aggressor")
LevelLines(v) ==
    Gathered(pool["aggressor"].pages, masks, Seed(seed, SeedAt("sweep", "aggressor")), LevelClasses(v), quota_lines)

\* What the history of the sweep says.
SeenOK ==
    program = "sweep" =>
        /\ DOMAIN seen = Range(Levels)
        /\ \A v \in Range(Levels) : seen[v] = {} \/ (section # "setup" /\ seen[v] = Range(LevelLines(v)))

\* The classes are legal at every level.
LEMMA LevelReady ==
  ASSUME ControlOK, PagesOK, FactsInv, program = "sweep", section # "setup", NEW v \in Range(Levels)
  PROVE  /\ LevelClasses(v) \in Seq(Fit) /\ OneToOne(LevelClasses(v), Len(LevelClasses(v)), Fit)
         /\ Enough(pool["aggressor"].pages, masks, LevelClasses(v), quota_lines) /\ quota_lines \in Nat
         /\ masks \in Seq(SUBSET Int)
<1>1. "aggressor" \in Roles
  BY RolesKnown DEF ControlOK, Roles
<1>2. Did("mapping", "main") /\ Did("quota", "main") /\ Did("choose", "main")
  BY Prepared
<1>3. masks \in Seq(SUBSET Int) /\ quota_lines \in Nat /\ Groups(sets.victim, sets.disjoint, cfg.group, Fit)
  BY <1>1, <1>2, Ready
<1> DEFINE g == cfg.group
           h == candidate_shared_classes(v, g)
           c == Mixed(sets.victim, sets.disjoint, g, h)
<1>4. LevelClasses(v) = c
  BY DEF LevelClasses, ClassesAt
<1>5. g \in Nat
  BY Numbers
<1> HIDE DEF g, h
<1>6. h \in 0..g
  BY <1>5, SharedIs DEF h
<1>7. Shares(sets.victim, c, g, h, Fit)
  BY <1>3, <1>5, <1>6, MixedIs DEF g
<1> HIDE DEF c
<1>8. c \in Seq(Fit) /\ Len(c) = g /\ OneToOne(c, g, Fit)
  BY <1>7 DEF Shares
<1>9. \A x \in Fit : CountOf(pool["aggressor"].pages, masks, x) >= quota_lines
  <2> HIDE DEF Roles, quota_lines
  <2> QED BY <1>1 DEF Fit
<1>10. Enough(pool["aggressor"].pages, masks, c, quota_lines)
  <2>1. \A s \in 1..Len(c) : c[s] \in Fit
    BY <1>8
  <2> QED BY <1>9, <2>1 DEF Enough
<1> QED BY <1>3, <1>4, <1>8, <1>10

\* What the loop and the verification leave as it is.
LEMMA LevelKept ==
  ASSUME ControlOK, program = "sweep", section # "setup", [Next]_vars
  PROVE  masks' = masks /\ sets' = sets /\ pool'["aggressor"].pages = pool["aggressor"].pages
<1>0. program \in Programs /\ section \in {"loop", "verify"} /\ "aggressor" \in Roles
  BY RolesKnown DEF ControlOK, Roles
<1>1. Running => Steps[pc].op \in {"level", "collect", "histogram", "accept", "multi", "run", "verify", "stable"}
  <2>1. Running => /\ section = "loop" => Steps[pc] \in LoopPlan(program)
                   /\ section = "verify" => Steps[pc].op \in {"verify", "stable"}
    BY NextStep
  <2> QED BY <1>0, <2>1, LoopPlanIs
<1>2. /\ ~load_mapping /\ ~DivideWorkset /\ ~pool_create /\ ~CountLines /\ ~ChooseClassSets /\ ~MakePermutation /\ ~SingleChain
      /\ ~CheckClass /\ ~CheckGranularity /\ ~ScanPage /\ ~ScanEnds /\ ~CheckCapacity /\ ~ReleasePages /\ ~ShuffleLines /\ ~LinkLines
  BY <1>1 DEF load_mapping, DivideWorkset, pool_create, CountLines, ChooseClassSets, MakePermutation, SingleChain,
              CheckClass, CheckGranularity, ScanPage, ScanEnds, CheckCapacity, ReleasePages, ShuffleLines, LinkLines, At
<1>3. ASSUME NEW q \in Roles, NEW f \in {"lines", "hist"}, NEW v, Update(q, f, v)
      PROVE  pool'["aggressor"].pages = pool["aggressor"].pages
  <2>1. f \in Fields /\ "pages" \in Fields /\ f # "pages"
    BY DEF Fields
  <2>2. (\A z \in Roles : z # q => pool'[z] = pool[z]) /\ (\A w \in Fields : w # f => pool'[q][w] = pool[q][w])
    BY <1>3, <2>1, UpdateIs
  <2>3. pool'[q]["pages"] = pool[q]["pages"]
    BY <2>1, <2>2
  <2> HIDE DEF Roles, Fields
  <2> QED BY <1>0, <2>2, <2>3
<1>4. ASSUME NEW q \in Roles, NEW c, NEW t, Link(q, c, t) PROVE pool'["aggressor"].pages = pool["aggressor"].pages
  <2>1. (\A z \in Roles : z # q => pool'[z] = pool[z]) /\ pool'[q].pages = pool[q].pages
    BY <1>4, LinkIs
  <2> HIDE DEF Roles
  <2> QED BY <1>0, <2>1
<1>5. ASSUME NEW op \in {"collect", "histogram", "multi"}, At(op) PROVE Who \in Roles
  BY <1>5, WhoIs DEF At
<1> HIDE DEF Roles, Who, At, Update, Link
<1>6. CASE CollectLines
  BY <1>3, <1>5, <1>6 DEF CollectLines, chosen
<1>7. CASE BuildHistogram
  BY <1>3, <1>5, <1>7 DEF BuildHistogram, chosen
<1>8. CASE MultiChain
  BY <1>4, <1>5, <1>8 DEF MultiChain, chosen
<1>9. CASE Accept \/ NextLevel \/ RunConditions \/ VerifyPool \/ Judge \/ CallFails \/ NextSection \/ MovePage \/ Finished \/ UNCHANGED vars
  BY <1>9 DEF Accept, NextLevel, RunConditions, VerifyPool, Judge, CallFails, NextSection, MovePage, Finished, vars, chosen
<1> QED BY <1>2, <1>6, <1>7, <1>8, <1>9 DEF Next, Main

\* Nothing has been measured at first.
LEMMA SeenInit ==
  ASSUME Init
  PROVE  SeenOK
<1>1. seen = [v \in Range(Levels) |-> {}]
  BY DEF Init
<1> HIDE DEF Levels
<1> QED BY <1>1 DEF SeenOK

\* A level is measured on the lines of its classes.
LEMMA SeenRun ==
  ASSUME ControlOK, PagesOK, FactsInv, SeenOK, program = "sweep", RunConditions
  PROVE  /\ section = "loop" /\ DOMAIN seen' = Range(Levels)
         /\ \A v \in Range(Levels) : seen'[v] = seen[v] \/ seen'[v] = Range(LevelLines(v))
<1>1. "aggressor" \in Roles /\ level \in Range(Levels) /\ DOMAIN seen = Range(Levels)
  BY RolesKnown DEF ControlOK, Roles, PagesOK, SeenOK
<1>2. Running /\ Steps[pc].op = "run"
  BY DEF RunConditions, At
<1>3. section = "loop" /\ Did("collect", "aggressor")
  BY <1>1, <1>2, RunReady
<1>4. Fact("collect", "aggressor")
  <2>1. Step("collect", "aggressor") \in Known
    BY <1>3 DEF Did
  <2>2. Fact(Step("collect", "aggressor").op, Step("collect", "aggressor").who)
    BY <2>1 DEF FactsInv
  <2> QED BY <2>2, StepIs
<1>5. pool["aggressor"].lines = LevelLines(level)
  BY <1>4 DEF Fact, Selection, Classes, LevelLines, LevelClasses
<1>6. seen' = [seen EXCEPT ![level] = Range(LevelLines(level))]
  BY <1>5 DEF RunConditions
<1> HIDE DEF LevelLines, Levels
<1> QED BY <1>1, <1>3, <1>6

\* Everything else leaves the history alone.
LEMMA SeenKept ==
  ASSUME [Next]_vars, ~RunConditions
  PROVE  seen' = seen
BY DEF Next, Main, load_mapping, DivideWorkset, pool_create, CountLines, ChooseClassSets, CollectLines, BuildHistogram, Accept,
       MakePermutation, SingleChain, MultiChain, CheckClass, CheckGranularity, ScanPage, ScanEnds, CheckCapacity, ReleasePages,
       ShuffleLines, LinkLines, NextLevel, VerifyPool, Judge, CallFails, NextSection, MovePage, Finished, vars, sweepVars

\* main does not go back to its first part.
LEMMA PastSetup ==
  ASSUME ControlOK, section # "setup", [Next]_vars
  PROVE  section' # "setup"
<1>1. section \in {"loop", "verify"}
  BY DEF ControlOK
<1>2. CASE NextSection
  BY <1>1, <1>2 DEF NextSection
<1>3. CASE ~NextSection
  BY <1>1, <1>3 DEF Next, Main, load_mapping, DivideWorkset, pool_create, CountLines, ChooseClassSets, CollectLines,
       BuildHistogram, Accept, MakePermutation, SingleChain, MultiChain, CheckClass, CheckGranularity, ScanPage, ScanEnds,
       CheckCapacity, ReleasePages, ShuffleLines, LinkLines, NextLevel, RunConditions, VerifyPool, Judge, CallFails, MovePage,
       Finished, Done, Fail, Abort, vars, control
<1> QED BY <1>2, <1>3

\* The history stays true.
LEMMA SeenNext ==
  ASSUME ControlOK, PagesOK, FactsInv, SeenOK, [Next]_vars
  PROVE  SeenOK'
<1>1. program' = program /\ cfg' = cfg /\ seed' = seed
  BY ControlNext DEF params
<1> SUFFICES ASSUME program = "sweep"
             PROVE  /\ DOMAIN seen' = Range(Levels)
                    /\ \A v \in Range(Levels) : seen'[v] = {} \/ (section' # "setup" /\ seen'[v] = Range(LevelLines(v)'))
  BY <1>1 DEF SeenOK
<1>2. DOMAIN seen = Range(Levels) /\ \A v \in Range(Levels) : seen[v] = {} \/ (section # "setup" /\ seen[v] = Range(LevelLines(v)))
  BY DEF SeenOK
<1>3. CASE section = "setup"
  <2>1. seen' = seen
    BY <1>3, SeenKept, SeenRun
  <2> HIDE DEF Levels, LevelLines
  <2> QED BY <1>2, <1>3, <2>1
<1>4. CASE section # "setup"
  <2>1. masks' = masks /\ sets' = sets /\ pool'["aggressor"].pages = pool["aggressor"].pages
    BY <1>4, LevelKept
  <2>2. quota_lines' = quota_lines
    BY <1>1 DEF quota_lines
  <2>3. \A v : LevelClasses(v)' = LevelClasses(v)
    BY <1>1, <2>1 DEF LevelClasses, ClassesAt
  <2>4. \A v : LevelLines(v)' = LevelLines(v)
    <3> HIDE DEF LevelClasses, quota_lines
    <3> QED BY <1>1, <2>1, <2>2, <2>3 DEF LevelLines
  <2>5. section' # "setup"
    BY <1>4, PastSetup
  <2>6. DOMAIN seen' = Range(Levels) /\ \A v \in Range(Levels) : seen'[v] = seen[v] \/ seen'[v] = Range(LevelLines(v))
    <3>1. CASE RunConditions
      BY <3>1, SeenRun
    <3>2. CASE ~RunConditions
      BY <1>2, <3>2, SeenKept
    <3> QED BY <3>1, <3>2
  <2> HIDE DEF Levels, LevelLines
  <2> QED BY <1>2, <2>4, <2>5, <2>6
<1> QED BY <1>3, <1>4

\* The lines of a measured level are lines of the pool, and those of one
\* class are the first of their class there.
LEMMA LevelIs ==
  ASSUME ControlOK, PagesOK, PoolsOK, FactsInv, program = "sweep", section # "setup", NEW v \in Range(Levels)
  PROVE  LET pages == pool["aggressor"].pages
             lines == Range(LevelLines(v))
             x == Seed(seed, SeedAt("sweep", "aggressor"))
         IN  /\ lines \subseteq Addresses(pages, Width)
             /\ \A c : OfClass(lines, pages, masks, c) # {} =>
                         OfClass(lines, pages, masks, c) = Firsts(pages, masks, x, c, quota_lines)
<1> DEFINE p == pool["aggressor"].pages
           m == masks
           d == LevelClasses(v)
           q == quota_lines
           x == Seed(seed, SeedAt("sweep", "aggressor"))
<1>1. "aggressor" \in Roles
  BY RolesKnown DEF ControlOK, Roles
<1>2. Did("pool", "aggressor")
  BY <1>1, Prepared
<1>3. Len(p) \in Nat
  BY <1>1, <1>2, PagesAre
<1>4. x \in Nat
  BY <1>1, SeedNat
<1>5. d \in Seq(Fit) /\ OneToOne(d, Len(d), Fit) /\ Enough(p, m, d, q) /\ q \in Nat
  BY LevelReady
<1>6. LevelLines(v) = Gathered(p, m, x, d, q)
  BY DEF LevelLines
<1> HIDE DEF p, m, d, q, x
<1>7. Selects(Gathered(p, m, x, d, q), p, m, d, q)
  BY <1>3, <1>4, <1>5, GatheredIs
<1>8. Range(Gathered(p, m, x, d, q)) \subseteq Addresses(p, Width)
  <2> DEFINE u == Gathered(p, m, x, d, q)
             n == Len(d) * q
             A == Addresses(p, Width)
  <2>1. OneToOne(u, n, A)
    BY <1>7 DEF Selects
  <2> HIDE DEF u, n, A
  <2>2. Range(u) \subseteq A
    BY <2>1 DEF OneToOne, Range
  <2> QED BY <2>2 DEF u, A
<1>9. ASSUME NEW c, OfClass(Range(Gathered(p, m, x, d, q)), p, m, c) # {}
      PROVE  OfClass(Range(Gathered(p, m, x, d, q)), p, m, c) = Firsts(p, m, x, c, q)
  BY <1>3, <1>4, <1>5, <1>9, ClassOfGathered
<1> QED BY <1>6, <1>8, <1>9 DEF p, m, q, x

\* StableLines: after the last level, any two levels that share a bank
\* class have been measured on the same lines of it, in whatever order the
\* levels came: the seed of the selection does not depend on the level, and
\* which other classes are wanted does not matter to one of them.
THEOREM LinesAreStable == Spec => []StableLines
<1>1. SetupInv /\ SeenOK => StableLines
  <2> SUFFICES ASSUME SetupInv, SeenOK, program = "sweep", section = "verify" PROVE StableLines
    BY DEF StableLines
  <2>1. ControlOK /\ PagesOK /\ PoolsOK /\ FactsInv
    BY DEF SetupInv, UnmovedInv, DataInv
  <2>2. "aggressor" \in Roles
    BY <2>1, RolesKnown DEF ControlOK, Roles
  <2> DEFINE pages == pool["aggressor"].pages
             A == Addresses(pagemap["aggressor"], Width)
             class == [a \in A |-> address_bank_class(pages, masks, Width, a)]
             x == Seed(seed, SeedAt("sweep", "aggressor"))
             F(c) == Firsts(pages, masks, x, c, quota_lines)
             lines(v, c) == {a \in seen[v] : class[a] = c}
  <2>3. pages \in Seq(Homes) /\ Len(pagemap["aggressor"]) = Len(pages)
    <3>1. Did("pool", "aggressor")
      BY <2>1, <2>2, Prepared
    <3> QED BY <2>1, <2>2, <3>1, PagesAre
  <2>4. A = Addresses(pages, Width)
    BY <2>3 DEF Addresses
  <2>5. masks \in Seq(SUBSET Int)
    <3>1. "o0" \in Range(Levels)
      BY DEF Levels, Range
    <3> QED BY <2>1, <3>1, LevelReady
  <2>6. \A a \in A : class[a] = ClassAt(pages, masks, Width, a)
    <3> SUFFICES ASSUME NEW a \in A PROVE address_bank_class(pages, masks, Width, a) = ClassAt(pages, masks, Width, a)
      OBVIOUS
    <3>1. a \in Addresses(pages, Width)
      BY <2>4
    <3> HIDE DEF pages
    <3> QED BY <2>3, <2>5, <3>1, AddressClassAt
  <2>7. ASSUME NEW v \in Range(Levels) PROVE seen[v] = {} \/ seen[v] = Range(LevelLines(v))
    BY DEF SeenOK
  <2>8. ASSUME NEW v \in Range(Levels), NEW c, lines(v, c) # {} PROVE lines(v, c) = F(c)
    <3> DEFINE s == seen[v]
               O == OfClass(s, pages, masks, c)
    <3>1. s = Range(LevelLines(v))
      BY <2>7, <2>8
    <3>2. s \subseteq A /\ (O # {} => O = F(c))
      BY <2>1, <2>4, <3>1, LevelIs
    <3>3. O = {a \in s : ClassAt(pages, masks, Width, a) = c} /\ lines(v, c) = {a \in s : class[a] = c}
      BY DEF OfClass
    <3> HIDE DEF s, O, A, class, F, pages
    <3>4. lines(v, c) = O
      BY <2>6, <3>2, <3>3
    <3> QED BY <2>8, <3>2, <3>4
  <2>9. \A c : \A v, w \in Range(Levels) : lines(v, c) # {} /\ lines(w, c) # {} => lines(v, c) = lines(w, c)
    <3> HIDE DEF lines, F
    <3> QED BY <2>8
  <2> QED BY <2>9, Zenon DEF StableLines
<1>2. Init => SeenOK
  BY SeenInit
<1>3. SetupInv /\ SeenOK /\ [Next]_vars => SeenOK'
  BY SeenNext DEF SetupInv, UnmovedInv, DataInv
<1> QED BY <1>1, <1>2, <1>3, SetupAlways, PTL DEF Spec
=============================================================================
