------------------------- MODULE OracleSetupProofs -------------------------
(***************************************************************************)
(* Where main is in an oracle experiment, for every program: the steps of  *)
(* its script come in stages, so what a step finds done is known, and the  *)
(* experiment succeeds only when no page has moved.                        *)
(***************************************************************************)
EXTENDS OracleClassesProofs

-----------------------------------------------------------------------------
(* The order of the steps.                                                 *)

Ops == {"mapping", "quota", "pool", "count", "choose", "collect", "histogram", "accept", "permutation",
        "single", "multi", "class", "granularity", "scan", "capacity", "release", "shuffle", "chain",
        "level", "run", "verify", "stable"}
Whos == {"main", "victim", "high", "low", "aggressor", "worker", "o0", "o25", "o50", "o75", "o100"}
AllSteps == [op : Ops, who : Whos]

\* Main goes through these stages, one after the other.
Stage(op) ==
    CASE op \in {"mapping", "level"} -> 1
      [] op \in {"quota", "class"} -> 2
      [] op \in {"pool", "granularity"} -> 3
      [] op \in {"count", "scan"} -> 4
      [] op \in {"choose", "capacity"} -> 5
      [] op \in {"collect", "release"} -> 6
      [] op \in {"histogram", "accept", "shuffle"} -> 7
      [] op \in {"permutation", "chain"} -> 8
      [] op \in {"single", "multi"} -> 9
      [] op = "run" -> 10
      [] op \in {"verify", "stable"} -> 11

\* The steps of s are of stages lo to hi, in this order, and no step is
\* made twice.
Staged(s, lo, hi) ==
    /\ s \in Seq(AllSteps)
    /\ \A k \in 1..Len(s) : Stage(s[k].op) \in lo..hi
    /\ \A j, k \in 1..Len(s) : j < k => Stage(s[j].op) <= Stage(s[k].op) /\ s[j] # s[k]

\* The fields of a step.
LEMMA StepIs ==
  ASSUME NEW op, NEW r
  PROVE  /\ Step(op, r).op = op /\ Step(op, r).who = r
         /\ \A op2, r2 : Step(op, r) = Step(op2, r2) => op = op2 /\ r = r2
         /\ op \in Ops /\ r \in Whos => Step(op, r) \in AllSteps
  BY DEF Step, AllSteps

\* The numbers of the stages.
LEMMA StageIs ==
  /\ Stage("mapping") = 1 /\ Stage("level") = 1 /\ Stage("quota") = 2 /\ Stage("class") = 2
  /\ Stage("pool") = 3 /\ Stage("granularity") = 3 /\ Stage("count") = 4 /\ Stage("scan") = 4
  /\ Stage("choose") = 5 /\ Stage("capacity") = 5 /\ Stage("collect") = 6 /\ Stage("release") = 6
  /\ Stage("histogram") = 7 /\ Stage("accept") = 7 /\ Stage("shuffle") = 7
  /\ Stage("permutation") = 8 /\ Stage("chain") = 8 /\ Stage("single") = 9 /\ Stage("multi") = 9
  /\ Stage("run") = 10 /\ Stage("verify") = 11 /\ Stage("stable") = 11
  BY DEF Stage

\* Parts one after the other.
LEMMA StagedConcat ==
  ASSUME NEW a, NEW b, NEW l1 \in Int, NEW h1 \in Int, NEW l2 \in Int, NEW h2 \in Int,
         Staged(a, l1, h1), Staged(b, l2, h2), l1 <= l2, h1 <= l2, h1 <= h2, Range(a) \cap Range(b) = {}
  PROVE  Staged(a \o b, l1, h2) /\ Range(a \o b) = Range(a) \cup Range(b)
<1> DEFINE s == a \o b
<1>1. a \in Seq(AllSteps) /\ b \in Seq(AllSteps)
  BY DEF Staged
<1>2. /\ s \in Seq(AllSteps) /\ Len(s) = Len(a) + Len(b) /\ Len(a) \in Nat /\ Len(b) \in Nat
      /\ \A k \in 1..Len(a) : s[k] = a[k]
      /\ \A k \in 1..Len(b) : s[Len(a) + k] = b[k]
      /\ Range(s) = Range(a) \cup Range(b)
  BY <1>1, ConcatIs
<1> HIDE DEF s
<1>3. \A k \in 1..Len(s) : \/ k \in 1..Len(a) /\ s[k] = a[k]
                           \/ k - Len(a) \in 1..Len(b) /\ s[k] = b[k - Len(a)]
  <2> TAKE k \in 1..Len(s)
  <2>1. CASE k <= Len(a)
    BY <1>2, <2>1
  <2>2. CASE k > Len(a)
    <3>1. k - Len(a) \in 1..Len(b) /\ Len(a) + (k - Len(a)) = k
      BY <1>2, <2>2
    <3> QED BY <1>2, <3>1
  <2> QED BY <1>2, <2>1, <2>2
<1>4. (\A k \in 1..Len(a) : Stage(a[k].op) \in l1..h1) /\ (\A k \in 1..Len(b) : Stage(b[k].op) \in l2..h2)
  BY DEF Staged
<1>5. ASSUME NEW k \in 1..Len(s) PROVE Stage(s[k].op) \in l1..h2
  <2>1. CASE k \in 1..Len(a) /\ s[k] = a[k]
    BY <1>4, <2>1
  <2>2. CASE k - Len(a) \in 1..Len(b) /\ s[k] = b[k - Len(a)]
    BY <1>4, <2>2
  <2> QED BY <1>3, <2>1, <2>2
<1>6. ASSUME NEW j \in 1..Len(s), NEW k \in 1..Len(s), j < k
      PROVE  Stage(s[j].op) <= Stage(s[k].op) /\ s[j] # s[k]
  <2>1. CASE j \in 1..Len(a) /\ s[j] = a[j]
    <3>1. CASE k \in 1..Len(a) /\ s[k] = a[k]
      BY <1>6, <2>1, <3>1 DEF Staged
    <3>2. CASE k - Len(a) \in 1..Len(b) /\ s[k] = b[k - Len(a)]
      <4>1. Stage(s[j].op) \in l1..h1 /\ Stage(s[k].op) \in l2..h2
        BY <1>4, <2>1, <3>2
      <4>2. a[j] \in Range(a) /\ b[k - Len(a)] \in Range(b)
        BY <1>1, <2>1, <3>2, RangeIs
      <4> QED BY <2>1, <3>2, <4>1, <4>2
    <3> QED BY <1>3, <3>1, <3>2
  <2>2. CASE j - Len(a) \in 1..Len(b) /\ s[j] = b[j - Len(a)]
    <3>1. k - Len(a) \in 1..Len(b) /\ s[k] = b[k - Len(a)]
      <4>1. ~ (k \in 1..Len(a))
        BY <1>2, <1>6, <2>2
      <4> QED BY <1>3, <4>1
    <3>2. j - Len(a) < k - Len(a)
      BY <1>2, <1>6
    <3> QED BY <2>2, <3>1, <3>2 DEF Staged
  <2> QED BY <1>3, <2>1, <2>2
<1>7. Staged(s, l1, h2)
  BY <1>2, <1>5, <1>6 DEF Staged
<1> QED BY <1>2, <1>7 DEF s

\* One step.
LEMMA StagedOne ==
  ASSUME NEW op \in Ops, NEW r \in Whos, NEW n \in Int, Stage(op) = n
  PROVE  Staged(<<Step(op, r)>>, n, n) /\ Range(<<Step(op, r)>>) = {Step(op, r)}
<1> DEFINE s == <<Step(op, r)>>
<1>1. Step(op, r) \in AllSteps /\ Step(op, r).op = op
  BY StepIs
<1>2. s \in Seq(AllSteps) /\ Len(s) = 1 /\ s[1] = Step(op, r) /\ DOMAIN s = 1..1
  BY <1>1
<1> HIDE DEF s
<1>3. Range(s) = {Step(op, r)}
  BY <1>2 DEF Range
<1>4. Staged(s, n, n)
  BY <1>1, <1>2 DEF Staged
<1> QED BY <1>3, <1>4 DEF s

\* The workers a loop goes through are different.
Distinct(v) == v \in Seq(Whos) /\ \A i, j \in 1..Len(v) : v[i] = v[j] => i = j

\* A loop that makes one step for each worker.
LEMMA StagedForEach ==
  ASSUME NEW op \in Ops, NEW v, Distinct(v), NEW n \in Int, Stage(op) = n
  PROVE  Staged(ForEach(op, v), n, n) /\ Range(ForEach(op, v)) = {Step(op, r) : r \in Range(v)}
<1> DEFINE s == ForEach(op, v)
<1>1. v \in Seq(Whos) /\ Len(v) \in Nat /\ \A k \in 1..Len(v) : v[k] \in Whos
  BY DEF Distinct
<1>2. \A k \in 1..Len(v) : Step(op, v[k]) \in AllSteps /\ Step(op, v[k]).op = op
  BY <1>1, StepIs
<1>3. s \in Seq(AllSteps) /\ Len(s) = Len(v) /\ \A k \in 1..Len(v) : s[k] = Step(op, v[k])
  <2>1. s = [k \in 1..Len(v) |-> Step(op, v[k])]
    BY DEF ForEach
  <2> HIDE DEF s
  <2> QED BY <1>1, <1>2, <2>1
<1> HIDE DEF s
<1>4. Range(s) = {Step(op, r) : r \in Range(v)}
  <2>1. Range(s) = {s[k] : k \in 1..Len(s)} /\ Range(v) = {v[k] : k \in 1..Len(v)}
    BY <1>1, <1>3, RangeIs
  <2> QED BY <1>3, <2>1
<1>5. \A j, k \in 1..Len(s) : j < k => s[j] # s[k]
  <2> SUFFICES ASSUME NEW j \in 1..Len(s), NEW k \in 1..Len(s), s[j] = s[k] PROVE ~ (j < k)
    OBVIOUS
  <2>1. v[j] = v[k]
    BY <1>3, StepIs
  <2>2. j = k
    BY <1>3, <2>1 DEF Distinct
  <2> QED BY <1>1, <1>3, <2>2
<1>6. Staged(s, n, n)
  BY <1>1, <1>2, <1>3, <1>5 DEF Staged
<1> QED BY <1>4, <1>6 DEF s

\* A loop that makes two steps for each worker.
LEMMA PairsAt ==
  ASSUME NEW a \in Ops, NEW b \in Ops, NEW v \in Seq(Whos)
  PROVE  LET s == ForEachAll(<<a, b>>, v)
         IN  /\ s \in Seq(AllSteps) /\ Len(s) = 2 * Len(v) /\ Len(v) \in Nat
             /\ \A k \in 1..Len(v) : /\ 2 * k - 1 \in 1..Len(s) /\ s[2 * k - 1] = Step(a, v[k])
                                     /\ 2 * k \in 1..Len(s) /\ s[2 * k] = Step(b, v[k])
             /\ \A i \in 1..Len(s) : \E k \in 1..Len(v) :
                    (i = 2 * k - 1 /\ s[i] = Step(a, v[k])) \/ (i = 2 * k /\ s[i] = Step(b, v[k]))
<1> DEFINE s == ForEachAll(<<a, b>>, v)
           n == Len(v)
           ops == <<a, b>>
<1>1. n \in Nat /\ \A k \in 1..n : v[k] \in Whos
  OBVIOUS
<1>2. Len(ops) = 2 /\ ops[1] = a /\ ops[2] = b
  OBVIOUS
<1> HIDE DEF ops, n
<1>3. s = [i \in 1..2 * n |-> Step(ops[((i - 1) % 2) + 1], v[((i - 1) \div 2) + 1])]
  BY <1>2 DEF ForEachAll, ops, n
<1> HIDE DEF s
<1>4. \A k \in 1..n : 2 * k - 1 \in 1..2 * n /\ 2 * k \in 1..2 * n
  BY <1>1
<1>5. \A k \in 1..n : s[2 * k - 1] = Step(a, v[k]) /\ s[2 * k] = Step(b, v[k])
  <2> TAKE k \in 1..n
  <2>1. /\ (((2 * k - 1) - 1) % 2) + 1 = 1 /\ (((2 * k - 1) - 1) \div 2) + 1 = k
        /\ ((2 * k - 1) % 2) + 1 = 2 /\ ((2 * k - 1) \div 2) + 1 = k
    BY <1>1
  <2> QED BY <1>2, <1>3, <1>4, <2>1
<1>6. \A i \in 1..2 * n : \E k \in 1..n : i = 2 * k - 1 \/ i = 2 * k
  <2> TAKE i \in 1..2 * n
  <2>1. ((i - 1) \div 2) + 1 \in 1..n
    BY <1>1
  <2>2. i = 2 * (((i - 1) \div 2) + 1) - 1 \/ i = 2 * (((i - 1) \div 2) + 1)
    BY <1>1
  <2> QED BY <2>1, <2>2
<1>7. \A i \in 1..2 * n : s[i] \in AllSteps
  <2> TAKE i \in 1..2 * n
  <2>1. PICK k \in 1..n : i = 2 * k - 1 \/ i = 2 * k
    BY <1>6
  <2>2. s[i] = Step(a, v[k]) \/ s[i] = Step(b, v[k])
    BY <1>5, <2>1
  <2>3. Step(a, v[k]) \in AllSteps /\ Step(b, v[k]) \in AllSteps
    BY <1>1, StepIs
  <2> QED BY <2>2, <2>3
<1>8. s \in Seq(AllSteps) /\ Len(s) = 2 * n
  <2>1. 2 * n \in Nat /\ s = [i \in 1..2 * n |-> s[i]]
    BY <1>1, <1>3
  <2>2. s \in [1..2 * n -> AllSteps]
    BY <1>7, <2>1
  <2> QED BY <2>1, <2>2
<1>9. \A i \in 1..2 * n : \E k \in 1..n :
        (i = 2 * k - 1 /\ s[i] = Step(a, v[k])) \/ (i = 2 * k /\ s[i] = Step(b, v[k]))
  <2> TAKE i \in 1..2 * n
  <2>1. PICK k \in 1..n : i = 2 * k - 1 \/ i = 2 * k
    BY <1>6
  <2> QED BY <1>5, <2>1
<1> QED BY <1>1, <1>4, <1>5, <1>8, <1>9 DEF s, n

\* Two steps of one stage for each worker.
LEMMA StagedPairs ==
  ASSUME NEW a \in Ops, NEW b \in Ops, a # b, NEW v, Distinct(v), NEW n \in Int, Stage(a) = n, Stage(b) = n
  PROVE  /\ Staged(ForEachAll(<<a, b>>, v), n, n)
         /\ Range(ForEachAll(<<a, b>>, v)) = {Step(a, r) : r \in Range(v)} \cup {Step(b, r) : r \in Range(v)}
<1> DEFINE s == ForEachAll(<<a, b>>, v)
<1>1. v \in Seq(Whos)
  BY DEF Distinct
<1>2. /\ s \in Seq(AllSteps) /\ Len(s) = 2 * Len(v) /\ Len(v) \in Nat
      /\ \A k \in 1..Len(v) : /\ 2 * k - 1 \in 1..Len(s) /\ s[2 * k - 1] = Step(a, v[k])
                              /\ 2 * k \in 1..Len(s) /\ s[2 * k] = Step(b, v[k])
      /\ \A i \in 1..Len(s) : \E k \in 1..Len(v) :
             (i = 2 * k - 1 /\ s[i] = Step(a, v[k])) \/ (i = 2 * k /\ s[i] = Step(b, v[k]))
  BY <1>1, PairsAt
<1> HIDE DEF s
<1>3. \A k \in 1..Len(s) : Stage(s[k].op) = n
  BY <1>2, StepIs
<1>4. \A j, k \in 1..Len(s) : j < k => s[j] # s[k]
  <2> SUFFICES ASSUME NEW j \in 1..Len(s), NEW k \in 1..Len(s), s[j] = s[k] PROVE ~ (j < k)
    OBVIOUS
  <2>1. PICK x \in 1..Len(v) : (j = 2 * x - 1 /\ s[j] = Step(a, v[x])) \/ (j = 2 * x /\ s[j] = Step(b, v[x]))
    BY <1>2
  <2>2. PICK y \in 1..Len(v) : (k = 2 * y - 1 /\ s[k] = Step(a, v[y])) \/ (k = 2 * y /\ s[k] = Step(b, v[y]))
    BY <1>2
  <2>3. v[x] = v[y]
    BY <2>1, <2>2, StepIs
  <2>4. x = y
    BY <2>3 DEF Distinct
  <2>5. ~ (s[j] = Step(a, v[x]) /\ s[k] = Step(b, v[y])) /\ ~ (s[j] = Step(b, v[x]) /\ s[k] = Step(a, v[y]))
    BY StepIs
  <2>6. (j = 2 * x - 1 /\ k = 2 * y - 1) \/ (j = 2 * x /\ k = 2 * y)
    BY <2>1, <2>2, <2>5, Zenon
  <2>7. j = k
    BY <2>4, <2>6
  <2> QED BY <1>2, <2>7
<1>5. Range(s) = {Step(a, r) : r \in Range(v)} \cup {Step(b, r) : r \in Range(v)}
  <2>1. Range(s) = {s[k] : k \in 1..Len(s)} /\ Range(v) = {v[k] : k \in 1..Len(v)}
    BY <1>1, <1>2, RangeIs
  <2>2. \A i \in 1..Len(s) : \E k \in 1..Len(v) : s[i] = Step(a, v[k]) \/ s[i] = Step(b, v[k])
    BY <1>2, Zenon
  <2>3. \A k \in 1..Len(v) : (\E i \in 1..Len(s) : s[i] = Step(a, v[k])) /\ \E i \in 1..Len(s) : s[i] = Step(b, v[k])
    BY <1>2, Zenon
  <2> DEFINE A == {Step(a, r) : r \in Range(v)}
             B == {Step(b, r) : r \in Range(v)}
  <2>4. \A k \in 1..Len(v) : Step(a, v[k]) \in A /\ Step(b, v[k]) \in B
    BY <2>1
  <2>5. \A x \in A \cup B : \E k \in 1..Len(v) : x = Step(a, v[k]) \/ x = Step(b, v[k])
    BY <2>1
  <2> HIDE DEF A, B
  <2>6. \A x \in Range(s) : x \in A \cup B
    BY <2>1, <2>2, <2>4
  <2>7. \A x \in A \cup B : x \in Range(s)
    BY <2>1, <2>3, <2>5
  <2> QED BY <2>6, <2>7 DEF A, B
<1>6. Staged(s, n, n)
  BY <1>2, <1>3, <1>4 DEF Staged
<1> QED BY <1>5, <1>6 DEF s

\* The pools of a program are different.
LEMMA PoolsDistinct ==
  /\ Distinct(Levels) /\ Range(Levels) = {"o0", "o25", "o50", "o75", "o100"}
  /\ Distinct(<<"victim">> \o Levels) /\ Range(<<"victim">> \o Levels) = {"victim", "o0", "o25", "o50", "o75", "o100"}
  /\ Distinct(<<"victim", "high", "low">>) /\ Range(<<"victim", "high", "low">>) = {"victim", "high", "low"}
  /\ Distinct(<<"victim", "aggressor">>) /\ Range(<<"victim", "aggressor">>) = {"victim", "aggressor"}
  /\ Distinct(<<"high", "low">>) /\ Range(<<"high", "low">>) = {"high", "low"}
  /\ Distinct(<<"victim">>) /\ Range(<<"victim">>) = {"victim"}
  /\ Distinct(<<"worker">>) /\ Range(<<"worker">>) = {"worker"}
<1>1. Distinct(Levels) /\ Range(Levels) = {"o0", "o25", "o50", "o75", "o100"}
  <2>1. /\ Levels \in Seq(Whos) /\ Len(Levels) = 5 /\ DOMAIN Levels = 1..5
        /\ Levels[1] = "o0" /\ Levels[2] = "o25" /\ Levels[3] = "o50" /\ Levels[4] = "o75" /\ Levels[5] = "o100"
    BY DEF Levels, Whos
  <2>2. \A i \in 1..5 : i = 1 \/ i = 2 \/ i = 3 \/ i = 4 \/ i = 5
    OBVIOUS
  <2>3. Distinct(Levels)
    BY <2>1, <2>2 DEF Distinct
  <2>4. Range(Levels) = {Levels[k] : k \in 1..5}
    BY <2>1 DEF Range
  <2>5. {Levels[k] : k \in 1..5} = {Levels[1], Levels[2], Levels[3], Levels[4], Levels[5]}
    BY <2>2
  <2> QED BY <2>1, <2>3, <2>4, <2>5
<1>2. Distinct(<<"victim">> \o Levels) /\ Range(<<"victim">> \o Levels) = {"victim", "o0", "o25", "o50", "o75", "o100"}
  <2> DEFINE w == <<"victim">> \o Levels
             one == <<"victim">>
  <2>1. Levels \in Seq(Whos) /\ one \in Seq(Whos) /\ Len(one) = 1 /\ one[1] = "victim" /\ Len(Levels) = 5 /\ Range(one) = {"victim"}
    BY DEF Levels, Whos, Range
  <2>2. /\ w \in Seq(Whos) /\ Len(w) = 6 /\ Range(w) = {"victim"} \cup Range(Levels)
        /\ w[1] = "victim" /\ \A k \in 1..5 : w[k + 1] = Levels[k]
    <3> HIDE DEF one
    <3>1. /\ one \o Levels \in Seq(Whos) /\ Len(one \o Levels) = Len(one) + Len(Levels)
          /\ \A k \in 1..Len(one) : (one \o Levels)[k] = one[k]
          /\ \A k \in 1..Len(Levels) : (one \o Levels)[Len(one) + k] = Levels[k]
          /\ Range(one \o Levels) = Range(one) \cup Range(Levels)
      <4>1. one \in Seq(Whos) /\ Levels \in Seq(Whos)
        BY <2>1
      <4> QED BY ONLY <4>1, ConcatIs
    <3>2. \A k \in 1..5 : 1 + k = k + 1
      OBVIOUS
    <3>3. one \o Levels = w
      BY DEF one
    <3> HIDE DEF w
    <3> QED BY <2>1, <3>1, <3>2, <3>3
  <2> HIDE DEF w
  <2>3. \A i \in 1..6 : i = 1 \/ (i - 1 \in 1..5 /\ w[i] = Levels[i - 1])
    <3> TAKE i \in 1..6
    <3>1. i = 1 \/ (i - 1 \in 1..5 /\ (i - 1) + 1 = i)
      OBVIOUS
    <3>2. i - 1 \in 1..5 => w[(i - 1) + 1] = Levels[i - 1]
      BY <2>2
    <3>3. (i - 1) + 1 = i
      OBVIOUS
    <3> QED BY <3>1, <3>2, <3>3
  <2>4. \A k \in 1..5 : Levels[k] # "victim"
    <3>1. \A k \in 1..5 : Levels[k] \in Range(Levels)
      BY <2>1, RangeIs
    <3> QED BY <1>1, <3>1
  <2>5. \A i, j \in 1..6 : w[i] = w[j] => i = j
    BY <1>1, <2>1, <2>2, <2>3, <2>4 DEF Distinct
  <2>6. Distinct(w)
    BY <2>2, <2>5 DEF Distinct
  <2> QED BY <1>1, <2>2, <2>6 DEF w
<1>3. Distinct(<<"victim", "high", "low">>) /\ Range(<<"victim", "high", "low">>) = {"victim", "high", "low"}
  <2> DEFINE w == <<"victim", "high", "low">>
  <2>1. w \in Seq(Whos) /\ Len(w) = 3 /\ DOMAIN w = 1..3 /\ w[1] = "victim" /\ w[2] = "high" /\ w[3] = "low"
    BY DEF Whos
  <2> HIDE DEF w
  <2>2. \A i \in 1..3 : i = 1 \/ i = 2 \/ i = 3
    OBVIOUS
  <2>3. Range(w) = {w[1], w[2], w[3]}
    BY <2>1, <2>2 DEF Range
  <2>4. Distinct(w)
    BY <2>1, <2>2 DEF Distinct
  <2> QED BY <2>1, <2>3, <2>4 DEF w
<1>4. /\ Distinct(<<"victim", "aggressor">>) /\ Range(<<"victim", "aggressor">>) = {"victim", "aggressor"}
      /\ Distinct(<<"high", "low">>) /\ Range(<<"high", "low">>) = {"high", "low"}
      /\ Distinct(<<"victim">>) /\ Range(<<"victim">>) = {"victim"}
      /\ Distinct(<<"worker">>) /\ Range(<<"worker">>) = {"worker"}
  <2>1. Distinct(<<"victim", "aggressor">>) /\ Distinct(<<"high", "low">>)
    BY DEF Distinct, Whos
  <2>2. Distinct(<<"victim">>) /\ Distinct(<<"worker">>)
    BY DEF Distinct, Whos
  <2>3. Range(<<"victim", "aggressor">>) = {"victim", "aggressor"} /\ Range(<<"high", "low">>) = {"high", "low"}
    BY DEF Range
  <2>4. Range(<<"victim">>) = {"victim"} /\ Range(<<"worker">>) = {"worker"}
    BY DEF Range
  <2> QED BY <2>1, <2>2, <2>3, <2>4
<1> QED BY <1>1, <1>2, <1>3, <1>4

\* The step op for each of a set of workers.
Of(op, R) == {Step(op, r) : r \in R}

\* Steps with different names differ.
LEMMA OfApart ==
  ASSUME NEW op, NEW op2, op # op2, NEW R, NEW R2
  PROVE  Of(op, R) \cap Of(op2, R2) = {}
  BY StepIs DEF Of

\* Parts of different stages have no step in common.
LEMMA StagedAfter ==
  ASSUME NEW a, NEW b, NEW l1 \in Int, NEW h1 \in Int, NEW l2 \in Int, NEW h2 \in Int,
         Staged(a, l1, h1), Staged(b, l2, h2), l1 <= h1, h1 < l2, l2 <= h2
  PROVE  Staged(a \o b, l1, h2) /\ Range(a \o b) = Range(a) \cup Range(b)
<1>1. a \in Seq(AllSteps) /\ b \in Seq(AllSteps)
  BY DEF Staged
<1>2. ASSUME NEW x \in Range(a), x \in Range(b) PROVE FALSE
  <2>1. PICK j \in 1..Len(a) : a[j] = x
    BY <1>1, RangeIs
  <2>2. PICK k \in 1..Len(b) : b[k] = x
    BY <1>1, <1>2, RangeIs
  <2>3. Stage(x.op) \in l1..h1 /\ Stage(x.op) \in l2..h2
    BY <2>1, <2>2 DEF Staged
  <2> QED BY <2>3
<1>3. Range(a) \cap Range(b) = {} /\ l1 <= l2 /\ h1 <= l2 /\ h1 <= h2
  BY <1>2
<1> QED BY <1>3, StagedConcat

\* Two sequences of one element.
LEMMA OneAndOne ==
  ASSUME NEW x, NEW y
  PROVE  <<x>> \o <<y>> = <<x, y>>
<1> DEFINE X == {x, y}
           s == <<x>> \o <<y>>
           t == <<x, y>>
<1>1. <<x>> \in Seq(X) /\ <<y>> \in Seq(X) /\ Len(<<x>>) = 1 /\ Len(<<y>>) = 1 /\ <<x>>[1] = x /\ <<y>>[1] = y
  OBVIOUS
<1>2. s \in Seq(X) /\ Len(s) = 2 /\ s[1] = x /\ s[2] = y
  <2> DEFINE a == <<x>>
             b == <<y>>
  <2>1. a \in Seq(X) /\ b \in Seq(X) /\ Len(a) = 1 /\ Len(b) = 1 /\ a[1] = x /\ b[1] = y
    BY <1>1
  <2> HIDE DEF a, b, X
  <2>3. /\ a \o b \in Seq(X) /\ Len(a \o b) = Len(a) + Len(b)
        /\ \A k \in 1..Len(a) : (a \o b)[k] = a[k]
        /\ \A k \in 1..Len(b) : (a \o b)[Len(a) + k] = b[k]
    <3>1. a \in Seq(X)
      BY <2>1
    <3>2. b \in Seq(X)
      BY <2>1
    <3> QED BY ONLY <3>1, <3>2, ConcatIs
  <2>2. a \o b \in Seq(X) /\ Len(a \o b) = 2 /\ (a \o b)[1] = x /\ (a \o b)[1 + 1] = y
    BY <2>1, <2>3
  <2> QED BY <2>2 DEF a, b
<1>3. t \in Seq(X) /\ Len(t) = 2 /\ t[1] = x /\ t[2] = y
  OBVIOUS
<1> HIDE DEF s, t, X
<1>4. \A k \in 1..2 : s[k] = t[k]
  BY <1>2, <1>3
<1>5. s = t
  BY <1>2, <1>3, <1>4, SeqEqual
<1> QED BY <1>5 DEF s, t

\* Two steps.
LEMMA StagedTwo ==
  ASSUME NEW a \in Ops, NEW b \in Ops, NEW q \in Whos, NEW r \in Whos, NEW m \in Int, NEW n \in Int,
         Stage(a) = m, Stage(b) = n, m < n
  PROVE  Staged(<<Step(a, q), Step(b, r)>>, m, n) /\ Range(<<Step(a, q), Step(b, r)>>) = {Step(a, q), Step(b, r)}
<1>1. Staged(<<Step(a, q)>>, m, m) /\ Range(<<Step(a, q)>>) = {Step(a, q)}
  BY StagedOne
<1>2. Staged(<<Step(b, r)>>, n, n) /\ Range(<<Step(b, r)>>) = {Step(b, r)}
  BY StagedOne
<1>3. m <= m /\ n <= n
  OBVIOUS
<1>4. /\ Staged(<<Step(a, q)>> \o <<Step(b, r)>>, m, n)
      /\ Range(<<Step(a, q)>> \o <<Step(b, r)>>) = Range(<<Step(a, q)>>) \cup Range(<<Step(b, r)>>)
  BY <1>1, <1>2, <1>3, StagedAfter
<1>5. <<Step(a, q)>> \o <<Step(b, r)>> = <<Step(a, q), Step(b, r)>>
  BY OneAndOne
<1> QED BY <1>1, <1>2, <1>4, <1>5, Zenon

\* What the five experiments do first.
Beginning(P) ==
    <<Step("mapping", "main"), Step("quota", "main")>> \o ForEach("pool", P) \o ForEach("count", P)
    \o <<Step("choose", "main")>>
BeginningSteps(R) ==
    {Step("mapping", "main"), Step("quota", "main"), Step("choose", "main")} \cup Of("pool", R) \cup Of("count", R)

\* They map, make pools, count and choose, in this order.
LEMMA StagedBeginning ==
  ASSUME NEW P, Distinct(P)
  PROVE  Staged(Beginning(P), 1, 5) /\ Range(Beginning(P)) = BeginningSteps(Range(P))
<1> DEFINE a == <<Step("mapping", "main"), Step("quota", "main")>>
           b == ForEach("pool", P)
           c == ForEach("count", P)
           d == <<Step("choose", "main")>>
<1>0. /\ "mapping" \in Ops /\ "quota" \in Ops /\ "pool" \in Ops /\ "count" \in Ops /\ "choose" \in Ops /\ "main" \in Whos
      /\ Stage("mapping") = 1 /\ Stage("quota") = 2 /\ Stage("pool") = 3 /\ Stage("count") = 4 /\ Stage("choose") = 5
  BY StageIs DEF Ops, Whos
<1>1. Staged(a, 1, 2) /\ Range(a) = {Step("mapping", "main"), Step("quota", "main")}
  BY <1>0, StagedTwo
<1>2. Staged(b, 3, 3) /\ Range(b) = Of("pool", Range(P))
  BY <1>0, StagedForEach DEF Of
<1>3. Staged(c, 4, 4) /\ Range(c) = Of("count", Range(P))
  BY <1>0, StagedForEach DEF Of
<1>4. Staged(d, 5, 5) /\ Range(d) = {Step("choose", "main")}
  BY <1>0, StagedOne
<1> HIDE DEF a, b, c, d
<1>5. Staged(a \o b, 1, 3) /\ Range(a \o b) = Range(a) \cup Range(b)
  <2>1. Staged(a, 1, 2) /\ Staged(b, 3, 3)
    BY <1>1, <1>2
  <2>2. 1 \in Int /\ 2 \in Int /\ 3 \in Int /\ 1 <= 2 /\ 2 < 3 /\ 3 <= 3
    OBVIOUS
  <2> QED BY ONLY <2>1, <2>2, StagedAfter, Zenon
<1>6. Staged(a \o b \o c, 1, 4) /\ Range(a \o b \o c) = Range(a \o b) \cup Range(c)
  BY <1>3, <1>5, StagedAfter
<1>7. Staged(a \o b \o c \o d, 1, 5) /\ Range(a \o b \o c \o d) = Range(a \o b \o c) \cup Range(d)
  BY <1>4, <1>6, StagedAfter
<1>8. Range(a \o b \o c \o d) = BeginningSteps(Range(P))
  BY <1>1, <1>2, <1>3, <1>4, <1>5, <1>6, <1>7 DEF BeginningSteps
<1>9. Beginning(P) = a \o b \o c \o d
  BY DEF Beginning, a, b, c, d
<1> QED BY <1>7, <1>8, <1>9

\* What four of them do then: lines, histograms and chains of every pool.
Rest(P, check, A) ==
    Beginning(P) \o ForEach("collect", P) \o check
    \o (<<Step("permutation", "main"), Step("single", "victim")>> \o ForEach("multi", A))
SetupSteps(R) ==
    BeginningSteps(R) \cup Of("collect", R) \cup Of("histogram", R) \cup Of("accept", R \ {"victim"})
    \cup {Step("permutation", "main"), Step("single", "victim")} \cup Of("multi", R \ {"victim"})

\* In this order, too.
LEMMA StagedRest ==
  ASSUME NEW P, Distinct(P), NEW A, Distinct(A), Range(A) = Range(P) \ {"victim"}, NEW check, Staged(check, 7, 7),
         Range(check) = Of("histogram", Range(P)) \cup Of("accept", Range(A))
  PROVE  Staged(Rest(P, check, A), 1, 9) /\ Range(Rest(P, check, A)) = SetupSteps(Range(P))
<1> DEFINE a == Beginning(P)
           b == ForEach("collect", P)
           d == <<Step("permutation", "main"), Step("single", "victim")>>
           e == ForEach("multi", A)
<1>0. /\ "collect" \in Ops /\ "permutation" \in Ops /\ "single" \in Ops /\ "multi" \in Ops
      /\ "main" \in Whos /\ "victim" \in Whos
      /\ Stage("collect") = 6 /\ Stage("permutation") = 8 /\ Stage("single") = 9 /\ Stage("multi") = 9
  BY StageIs DEF Ops, Whos
<1>1. Staged(a, 1, 5) /\ Range(a) = BeginningSteps(Range(P))
  BY StagedBeginning
<1>2. Staged(b, 6, 6) /\ Range(b) = Of("collect", Range(P))
  BY <1>0, StagedForEach DEF Of
<1>3. Staged(d, 8, 9) /\ Range(d) = {Step("permutation", "main"), Step("single", "victim")}
  BY <1>0, StagedTwo
<1>4. Staged(e, 9, 9) /\ Range(e) = Of("multi", Range(A))
  BY <1>0, StagedForEach DEF Of
<1>5. Range(d) \cap Range(e) = {}
  <2>1. \A x \in Range(e) : x.op = "multi"
    BY <1>4, StepIs DEF Of
  <2>2. \A x \in Range(d) : x.op # "multi"
    BY <1>3, StepIs
  <2> QED BY <2>1, <2>2
<1> HIDE DEF a, b, d, e
<1>6. Staged(a \o b, 1, 6) /\ Range(a \o b) = Range(a) \cup Range(b)
  <2>1. Staged(a, 1, 5) /\ Staged(b, 6, 6)
    BY <1>1, <1>2
  <2>2. 1 \in Int /\ 5 \in Int /\ 6 \in Int /\ 1 <= 5 /\ 5 < 6 /\ 6 <= 6
    OBVIOUS
  <2> QED BY ONLY <2>1, <2>2, StagedAfter, Zenon
<1>7. Staged(a \o b \o check, 1, 7) /\ Range(a \o b \o check) = Range(a \o b) \cup Range(check)
  <2>1. Staged(a \o b, 1, 6) /\ Staged(check, 7, 7)
    BY <1>6
  <2> QED BY ONLY <2>1, StagedAfter
<1>8. Staged(d \o e, 8, 9) /\ Range(d \o e) = Range(d) \cup Range(e)
  <2>1. Staged(d, 8, 9) /\ Staged(e, 9, 9) /\ Range(d) \cap Range(e) = {}
    BY <1>3, <1>4, <1>5
  <2>2. 8 \in Int /\ 9 \in Int /\ 8 <= 9 /\ 9 <= 9
    OBVIOUS
  <2> QED BY ONLY <2>1, <2>2, StagedConcat, Zenon
<1>9. Staged(a \o b \o check \o (d \o e), 1, 9) /\ Range(a \o b \o check \o (d \o e)) = Range(a \o b \o check) \cup Range(d \o e)
  BY <1>7, <1>8, StagedAfter
<1>10. Range(a \o b \o check \o (d \o e)) = SetupSteps(Range(P))
  BY <1>1, <1>2, <1>3, <1>4, <1>6, <1>7, <1>8, <1>9 DEF SetupSteps
<1>11. Rest(P, check, A) = a \o b \o check \o (d \o e)
  BY DEF Rest, a, b, d, e
<1> QED BY <1>9, <1>10, <1>11

Main3 == <<"victim", "high", "low">>
Main6 == <<"victim">> \o Levels

\* The pools of the programs.
LEMMA PoolsAre ==
  /\ PoolsOf("overlap") = Main3 /\ PoolsOf("selective") = Main3
  /\ PoolsOf("multi") = Main6 /\ PoolsOf("cpumax") = Main6
  /\ PoolsOf("sweep") = <<"victim", "aggressor">> /\ PoolsOf("worker") = <<"worker">>
<1>1. PoolsOf("overlap") = Main3 /\ PoolsOf("selective") = Main3
  BY DEF PoolsOf, Overlap!Pools, Selective!Pools, Main3
<1>2. PoolsOf("multi") = Main6 /\ PoolsOf("cpumax") = Main6
  BY DEF PoolsOf, Multi!Pools, CpuMax!Pools, Multi!candidate_name, CpuMax!candidate_name, Multi!Levels, CpuMax!Levels,
         Levels, Main6
<1>3. PoolsOf("sweep") = <<"victim", "aggressor">> /\ PoolsOf("worker") = <<"worker">>
  BY DEF PoolsOf, Sweep!Pools, Worker!Pools
<1> QED BY <1>1, <1>2, <1>3

\* The scripts, in the words of this module.
LEMMA SetupsAre ==
  /\ Overlap!setup = Rest(Main3, ForEach("histogram", Main3) \o ForEach("accept", <<"high", "low">>), <<"high", "low">>)
  /\ Selective!setup = Rest(Main3, ForEach("histogram", Main3) \o ForEach("accept", <<"high", "low">>), <<"high", "low">>)
  /\ Multi!setup = Rest(Main6, ForEach("histogram", <<"victim">>) \o ForEachAll(<<"histogram", "accept">>, Levels), Levels)
  /\ CpuMax!setup = Rest(Main6, ForEach("histogram", <<"victim">>) \o ForEachAll(<<"histogram", "accept">>, Levels), Levels)
  /\ Sweep!setup = Beginning(<<"victim", "aggressor">>)
                   \o (ForEachAll(<<"collect", "histogram", "accept">>, <<"victim">>)
                       \o <<Step("permutation", "main"), Step("single", "victim")>>)
<1>1. Overlap!setup = Rest(Main3, ForEach("histogram", Main3) \o ForEach("accept", <<"high", "low">>), <<"high", "low">>)
  BY Zenon DEF Overlap!setup, Overlap!load_mapping, Overlap!CreatePools, Overlap!CountClasses, Overlap!ChooseClasses,
         Overlap!CollectLines, Overlap!CheckOverlap, Overlap!BuildChains, Overlap!Pools, Overlap!ForEach, Overlap!Step,
         Rest, Beginning, Main3, ForEach, Step
<1>2. Selective!setup = Rest(Main3, ForEach("histogram", Main3) \o ForEach("accept", <<"high", "low">>), <<"high", "low">>)
  BY Zenon DEF Selective!setup, Selective!load_mapping, Selective!CreatePools, Selective!CountClasses,
         Selective!ChooseClasses, Selective!CollectLines, Selective!CheckOverlap, Selective!BuildChains, Selective!Pools,
         Selective!ForEach, Selective!Step, Rest, Beginning, Main3, ForEach, Step
<1>3. Multi!setup = Rest(Main6, ForEach("histogram", <<"victim">>) \o ForEachAll(<<"histogram", "accept">>, Levels), Levels)
  BY Zenon DEF Multi!setup, Multi!load_mapping, Multi!CreatePools, Multi!CountClasses, Multi!ChooseClasses,
         Multi!CollectLines, Multi!CheckOverlap, Multi!BuildChains, Multi!Pools, Multi!ForEach, Multi!ForEachAll, Multi!Step,
         Multi!candidate_name, Multi!Levels, Levels, Rest, Beginning, Main6, ForEach, ForEachAll, Step
<1>4. CpuMax!setup = Rest(Main6, ForEach("histogram", <<"victim">>) \o ForEachAll(<<"histogram", "accept">>, Levels), Levels)
  BY Zenon DEF CpuMax!setup, CpuMax!load_mapping, CpuMax!CreatePools, CpuMax!CountClasses, CpuMax!ChooseClasses,
         CpuMax!CollectLines, CpuMax!CheckOverlap, CpuMax!BuildChains, CpuMax!Pools, CpuMax!ForEach, CpuMax!ForEachAll,
         CpuMax!Step, CpuMax!candidate_name, CpuMax!Levels, Levels, Rest, Beginning, Main6, ForEach, ForEachAll, Step
<1>5. Sweep!setup = Beginning(<<"victim", "aggressor">>)
                   \o (ForEachAll(<<"collect", "histogram", "accept">>, <<"victim">>)
                       \o <<Step("permutation", "main"), Step("single", "victim")>>)
  BY Zenon DEF Sweep!setup, Sweep!load_mapping, Sweep!CreatePools, Sweep!CountClasses, Sweep!ChooseClasses,
         Sweep!VictimLines, Sweep!Pools, Sweep!ForEach, Sweep!ForEachAll, Sweep!Step, Beginning, ForEach, ForEachAll, Step
<1> QED BY <1>1, <1>2, <1>3, <1>4, <1>5

\* Steps for a single worker.
LEMMA StepsForOne ==
  ASSUME NEW r
  PROVE  /\ \A a, b : ForEachAll(<<a, b>>, <<r>>) = <<Step(a, r), Step(b, r)>>
         /\ \A a, b, c : ForEachAll(<<a, b, c>>, <<r>>) = <<Step(a, r), Step(b, r), Step(c, r)>>
<1>1. ASSUME NEW a, NEW b PROVE ForEachAll(<<a, b>>, <<r>>) = <<Step(a, r), Step(b, r)>>
  <2> DEFINE f(i) == Step(<<a, b>>[((i - 1) % 2) + 1], <<r>>[((i - 1) \div 2) + 1])
  <2>1. ForEachAll(<<a, b>>, <<r>>) = [i \in 1..2 |-> f(i)]
    BY DEF ForEachAll
  <2>2. f(1) = Step(a, r) /\ f(2) = Step(b, r)
    OBVIOUS
  <2>3. \A i \in 1..2 : i = 1 \/ i = 2
    OBVIOUS
  <2> DEFINE t == <<Step(a, r), Step(b, r)>>
  <2>4. t = [i \in 1..2 |-> t[i]] /\ t[1] = Step(a, r) /\ t[2] = Step(b, r)
    OBVIOUS
  <2> HIDE DEF f, t
  <2>5. \A i \in 1..2 : f(i) = t[i]
    BY <2>2, <2>3, <2>4
  <2> QED BY <2>1, <2>4, <2>5, Zenon DEF t
<1>2. ASSUME NEW a, NEW b, NEW c
      PROVE  ForEachAll(<<a, b, c>>, <<r>>) = <<Step(a, r), Step(b, r), Step(c, r)>>
  <2> DEFINE f(i) == Step(<<a, b, c>>[((i - 1) % 3) + 1], <<r>>[((i - 1) \div 3) + 1])
  <2>1. ForEachAll(<<a, b, c>>, <<r>>) = [i \in 1..3 |-> f(i)]
    BY DEF ForEachAll
  <2>2. f(1) = Step(a, r) /\ f(2) = Step(b, r) /\ f(3) = Step(c, r)
    OBVIOUS
  <2>3. \A i \in 1..3 : i = 1 \/ i = 2 \/ i = 3
    OBVIOUS
  <2> DEFINE t == <<Step(a, r), Step(b, r), Step(c, r)>>
  <2>4. t = [i \in 1..3 |-> t[i]] /\ t[1] = Step(a, r) /\ t[2] = Step(b, r) /\ t[3] = Step(c, r)
    OBVIOUS
  <2> HIDE DEF f, t
  <2>5. \A i \in 1..3 : f(i) = t[i]
    BY <2>2, <2>3, <2>4
  <2> QED BY <2>1, <2>4, <2>5, Zenon DEF t
<1> QED BY <1>1, <1>2

\* The steps of a program, in the first part of main and in its loop.
SetupPlan(p) ==
    CASE p = "sweep" ->
           BeginningSteps({"victim", "aggressor"})
           \cup {Step("collect", "victim"), Step("histogram", "victim"), Step("accept", "victim"),
                 Step("permutation", "main"), Step("single", "victim")}
      [] p = "worker" ->
           {Step("mapping", "main"), Step("class", "main"), Step("granularity", "main"), Step("scan", "worker"),
            Step("capacity", "worker"), Step("release", "worker"), Step("shuffle", "worker"), Step("chain", "worker")}
      [] OTHER -> SetupSteps(Range(PoolsOf(p)))
LoopPlan(p) ==
    {Step("run", "main")} \cup
        (IF p # "sweep" THEN {}
         ELSE {Step("level", "aggressor"), Step("collect", "aggressor"), Step("histogram", "aggressor"),
               Step("accept", "aggressor"), Step("multi", "aggressor")})

\* The first part of four programs.
LEMMA SetupScript4 ==
  ASSUME NEW p \in {"overlap", "selective", "multi", "cpumax"} \cap Programs
  PROVE  Staged(Script[p].setup, 1, 9) /\ Range(Script[p].setup) = SetupPlan(p)
<1>0. Stage("histogram") = 7 /\ Stage("accept") = 7 /\ "histogram" \in Ops /\ "accept" \in Ops /\ "histogram" # "accept"
  BY StageIs DEF Ops
<1>1. SetupPlan(p) = SetupSteps(Range(PoolsOf(p)))
  BY DEF SetupPlan
<1> DEFINE A == <<"high", "low">>
           c3 == ForEach("histogram", Main3) \o ForEach("accept", A)
           c6 == ForEach("histogram", <<"victim">>) \o ForEachAll(<<"histogram", "accept">>, Levels)
<1>2. CASE p \in {"overlap", "selective"}
  <2>1. Distinct(Main3) /\ Distinct(A) /\ Range(A) = Range(Main3) \ {"victim"}
    BY PoolsDistinct DEF Main3
  <2>2. Staged(ForEach("histogram", Main3), 7, 7) /\ Range(ForEach("histogram", Main3)) = Of("histogram", Range(Main3))
    BY <1>0, <2>1, StagedForEach DEF Of
  <2>3. Staged(ForEach("accept", A), 7, 7) /\ Range(ForEach("accept", A)) = Of("accept", Range(A))
    BY <1>0, <2>1, StagedForEach DEF Of
  <2>4. Of("histogram", Range(Main3)) \cap Of("accept", Range(A)) = {}
    BY <1>0, OfApart
  <2>5. Staged(c3, 7, 7) /\ Range(c3) = Of("histogram", Range(Main3)) \cup Of("accept", Range(A))
    <3>1. Range(ForEach("histogram", Main3)) \cap Range(ForEach("accept", A)) = {}
      BY <2>2, <2>3, <2>4
    <3>2. 7 \in Int /\ 7 <= 7
      OBVIOUS
    <3>3. Staged(c3, 7, 7) /\ Range(c3) = Range(ForEach("histogram", Main3)) \cup Range(ForEach("accept", A))
      BY <2>2, <2>3, <3>1, <3>2, StagedConcat, Zenon
    <3> QED BY <2>2, <2>3, <3>3
  <2> HIDE DEF c3, A
  <2>6. Staged(Rest(Main3, c3, A), 1, 9) /\ Range(Rest(Main3, c3, A)) = SetupSteps(Range(Main3))
    BY <2>1, <2>5, StagedRest
  <2>7. Script[p].setup = Rest(Main3, c3, A)
    <3>1. Script[p].setup = Overlap!setup \/ Script[p].setup = Selective!setup
      BY <1>2 DEF Script
    <3> QED BY <3>1, SetupsAre DEF c3, A
  <2>8. PoolsOf(p) = Main3
    BY <1>2, PoolsAre
  <2> QED BY <1>1, <2>6, <2>7, <2>8
<1>3. CASE p \in {"multi", "cpumax"}
  <2> DEFINE V == <<"victim">>
  <2>1. Distinct(Main6) /\ Distinct(Levels) /\ Distinct(V) /\ Range(V) = {"victim"}
        /\ Range(Levels) = Range(Main6) \ {"victim"} /\ Range(Main6) = Range(V) \cup Range(Levels) /\ "victim" \notin Range(Levels)
    BY PoolsDistinct DEF Main6
  <2> HIDE DEF V
  <2>2. Staged(ForEach("histogram", V), 7, 7) /\ Range(ForEach("histogram", V)) = Of("histogram", Range(V))
    BY <1>0, <2>1, StagedForEach DEF Of
  <2> DEFINE t == ForEachAll(<<"histogram", "accept">>, Levels)
  <2>3. Staged(t, 7, 7) /\ Range(t) = Of("histogram", Range(Levels)) \cup Of("accept", Range(Levels))
    BY <1>0, <2>1, StagedPairs DEF Of
  <2> HIDE DEF t
  <2>4. Of("histogram", Range(V)) \cap (Of("histogram", Range(Levels)) \cup Of("accept", Range(Levels))) = {}
    <3>1. Of("histogram", Range(V)) \cap Of("accept", Range(Levels)) = {}
      BY <1>0, OfApart
    <3>2. Of("histogram", Range(V)) \cap Of("histogram", Range(Levels)) = {}
      BY <2>1, StepIs DEF Of
    <3> QED BY <3>1, <3>2
  <2>5. Staged(c6, 7, 7) /\ Range(c6) = Of("histogram", Range(Main6)) \cup Of("accept", Range(Levels))
    <3>1. Range(ForEach("histogram", V)) \cap Range(t) = {}
      BY <2>2, <2>3, <2>4
    <3>2. 7 \in Int /\ 7 <= 7
      OBVIOUS
    <3>3. c6 = ForEach("histogram", V) \o t
      BY DEF V, t
    <3>4. Staged(c6, 7, 7) /\ Range(c6) = Range(ForEach("histogram", V)) \cup Range(t)
      BY <2>2, <2>3, <3>1, <3>2, <3>3, StagedConcat, Zenon
    <3>5. Of("histogram", Range(Main6)) = Of("histogram", Range(V)) \cup Of("histogram", Range(Levels))
      BY <2>1 DEF Of
    <3> QED BY <2>2, <2>3, <3>4, <3>5
  <2> HIDE DEF c6
  <2>6. Staged(Rest(Main6, c6, Levels), 1, 9) /\ Range(Rest(Main6, c6, Levels)) = SetupSteps(Range(Main6))
    BY <2>1, <2>5, StagedRest
  <2>7. Script[p].setup = Rest(Main6, c6, Levels)
    <3>1. Script[p].setup = Multi!setup \/ Script[p].setup = CpuMax!setup
      BY <1>3 DEF Script
    <3> QED BY <3>1, SetupsAre DEF c6
  <2>8. PoolsOf(p) = Main6
    BY <1>3, PoolsAre
  <2> QED BY <1>1, <2>6, <2>7, <2>8
<1> QED BY <1>2, <1>3

\* Three steps.
LEMMA StagedThree ==
  ASSUME NEW a \in AllSteps, NEW b \in AllSteps, NEW c \in AllSteps, NEW l \in Int, NEW m \in Int, NEW n \in Int,
         Stage(a.op) = l, Stage(b.op) = m, Stage(c.op) = n, l <= m, m <= n, a # b, b # c, a # c
  PROVE  Staged(<<a, b, c>>, l, n) /\ Range(<<a, b, c>>) = {a, b, c}
<1> DEFINE s == <<a, b, c>>
<1>1. s \in Seq(AllSteps) /\ Len(s) = 3 /\ DOMAIN s = 1..3 /\ s[1] = a /\ s[2] = b /\ s[3] = c
  OBVIOUS
<1> HIDE DEF s
<1>2. \A i \in 1..3 : i = 1 \/ i = 2 \/ i = 3
  OBVIOUS
<1>3. Range(s) = {a, b, c}
  BY <1>1, <1>2 DEF Range
<1>4. \A k \in 1..Len(s) : Stage(s[k].op) \in l..n
  BY <1>1, <1>2
<1>5. \A j, k \in 1..3 : j < k => (j = 1 /\ k = 2) \/ (j = 1 /\ k = 3) \/ (j = 2 /\ k = 3)
  OBVIOUS
<1>6. ASSUME NEW j \in 1..3, NEW k \in 1..3, j < k
      PROVE  Stage(s[j].op) <= Stage(s[k].op) /\ s[j] # s[k]
  <2>1. CASE j = 1 /\ k = 2
    BY <1>1, <2>1
  <2>2. CASE j = 1 /\ k = 3
    BY <1>1, <2>2
  <2>3. CASE j = 2 /\ k = 3
    BY <1>1, <2>3
  <2> QED BY <1>5, <1>6, <2>1, <2>2, <2>3
<1>7. Staged(s, l, n)
  BY <1>1, <1>4, <1>6 DEF Staged
<1> QED BY <1>3, <1>7 DEF s

\* Which stage a step is of.
LEMMA StepStage ==
  ASSUME NEW op \in Ops, NEW r \in Whos
  PROVE  Step(op, r) \in AllSteps /\ Stage(Step(op, r).op) = Stage(op)
<1>1. Step(op, r) \in AllSteps /\ Step(op, r).op = op
  BY StepIs
<1> QED BY <1>1

\* The first part of the sweep.
LEMMA SetupScriptSweep ==
  ASSUME "sweep" \in Programs
  PROVE  Staged(Script["sweep"].setup, 1, 9) /\ Range(Script["sweep"].setup) = SetupPlan("sweep")
<1> DEFINE P == <<"victim", "aggressor">>
           a == Beginning(P)
           b == <<Step("collect", "victim"), Step("histogram", "victim"), Step("accept", "victim")>>
           c == <<Step("permutation", "main"), Step("single", "victim")>>
<1>0. /\ {"collect", "histogram", "accept", "permutation", "single"} \subseteq Ops /\ "main" \in Whos /\ "victim" \in Whos
      /\ Stage("collect") = 6 /\ Stage("histogram") = 7 /\ Stage("accept") = 7
      /\ Stage("permutation") = 8 /\ Stage("single") = 9
  BY StageIs DEF Ops, Whos
<1>1. Distinct(P) /\ Range(P) = {"victim", "aggressor"}
  BY PoolsDistinct
<1>2. Staged(a, 1, 5) /\ Range(a) = BeginningSteps({"victim", "aggressor"})
  <2> HIDE DEF P
  <2> QED BY <1>1, StagedBeginning
<1>3. Staged(b, 6, 7) /\ Range(b) = {Step("collect", "victim"), Step("histogram", "victim"), Step("accept", "victim")}
  <2>1. /\ Step("collect", "victim") \in AllSteps /\ Stage(Step("collect", "victim").op) = 6
        /\ Step("histogram", "victim") \in AllSteps /\ Stage(Step("histogram", "victim").op) = 7
        /\ Step("accept", "victim") \in AllSteps /\ Stage(Step("accept", "victim").op) = 7
    BY <1>0, StepStage
  <2>2. /\ Step("collect", "victim") # Step("histogram", "victim") /\ Step("histogram", "victim") # Step("accept", "victim")
        /\ Step("collect", "victim") # Step("accept", "victim")
    BY StepIs
  <2>3. 6 \in Int /\ 7 \in Int /\ 6 <= 7 /\ 7 <= 7
    OBVIOUS
  <2> QED BY ONLY <2>1, <2>2, <2>3, StagedThree, Zenon
<1>4. Staged(c, 8, 9) /\ Range(c) = {Step("permutation", "main"), Step("single", "victim")}
  BY <1>0, StagedTwo
<1> HIDE DEF a, b, c
<1>5. Staged(b \o c, 6, 9) /\ Range(b \o c) = Range(b) \cup Range(c)
  <2>1. 6 \in Int /\ 7 \in Int /\ 8 \in Int /\ 9 \in Int /\ 6 <= 7 /\ 7 < 8 /\ 8 <= 9
    OBVIOUS
  <2> QED BY <1>3, <1>4, <2>1, StagedAfter, Zenon
<1>6. Staged(a \o (b \o c), 1, 9) /\ Range(a \o (b \o c)) = Range(a) \cup Range(b \o c)
  <2>1. 1 \in Int /\ 5 \in Int /\ 6 \in Int /\ 9 \in Int /\ 1 <= 5 /\ 5 < 6 /\ 6 <= 9
    OBVIOUS
  <2> QED BY <1>2, <1>5, <2>1, StagedAfter, Zenon
<1>7. Range(a \o (b \o c)) = SetupPlan("sweep")
  <2>1. SetupPlan("sweep") = BeginningSteps({"victim", "aggressor"})
           \cup {Step("collect", "victim"), Step("histogram", "victim"), Step("accept", "victim"),
                 Step("permutation", "main"), Step("single", "victim")}
    BY DEF SetupPlan
  <2> QED BY <1>2, <1>3, <1>4, <1>5, <1>6, <2>1
<1>8. Script["sweep"].setup = a \o (b \o c)
  <2>1. Script["sweep"].setup = Sweep!setup
    BY DEF Script
  <2>2. ForEachAll(<<"collect", "histogram", "accept">>, <<"victim">>) = b
    BY StepsForOne DEF b
  <2>3. Sweep!setup = a \o (ForEachAll(<<"collect", "histogram", "accept">>, <<"victim">>) \o c)
    BY SetupsAre, Zenon DEF a, c, P
  <2> QED BY <2>1, <2>2, <2>3
<1> QED BY <1>6, <1>7, <1>8

\* The first part of the worker.
LEMMA SetupScriptWorker ==
  ASSUME "worker" \in Programs
  PROVE  Staged(Script["worker"].setup, 1, 9) /\ Range(Script["worker"].setup) = SetupPlan("worker")
<1> DEFINE a == <<Step("mapping", "main"), Step("class", "main"), Step("granularity", "main")>>
           b == <<Step("scan", "worker"), Step("capacity", "worker")>>
           c == <<Step("release", "worker"), Step("shuffle", "worker"), Step("chain", "worker")>>
<1>0. /\ {"mapping", "class", "granularity", "scan", "capacity", "release", "shuffle", "chain"} \subseteq Ops
      /\ "main" \in Whos /\ "worker" \in Whos
      /\ Stage("mapping") = 1 /\ Stage("class") = 2 /\ Stage("granularity") = 3 /\ Stage("scan") = 4
      /\ Stage("capacity") = 5 /\ Stage("release") = 6 /\ Stage("shuffle") = 7 /\ Stage("chain") = 8
  BY StageIs DEF Ops, Whos
<1>1. Staged(a, 1, 3) /\ Range(a) = {Step("mapping", "main"), Step("class", "main"), Step("granularity", "main")}
  <2>1. /\ Step("mapping", "main") \in AllSteps /\ Stage(Step("mapping", "main").op) = 1
        /\ Step("class", "main") \in AllSteps /\ Stage(Step("class", "main").op) = 2
        /\ Step("granularity", "main") \in AllSteps /\ Stage(Step("granularity", "main").op) = 3
    BY <1>0, StepStage
  <2>2. /\ Step("mapping", "main") # Step("class", "main") /\ Step("class", "main") # Step("granularity", "main")
        /\ Step("mapping", "main") # Step("granularity", "main")
    BY StepIs
  <2>3. 1 \in Int /\ 2 \in Int /\ 3 \in Int /\ 1 <= 2 /\ 2 <= 3
    OBVIOUS
  <2> QED BY ONLY <2>1, <2>2, <2>3, StagedThree, Zenon
<1>2. Staged(b, 4, 5) /\ Range(b) = {Step("scan", "worker"), Step("capacity", "worker")}
  BY <1>0, StagedTwo
<1>3. Staged(c, 6, 8) /\ Range(c) = {Step("release", "worker"), Step("shuffle", "worker"), Step("chain", "worker")}
  <2>1. /\ Step("release", "worker") \in AllSteps /\ Stage(Step("release", "worker").op) = 6
        /\ Step("shuffle", "worker") \in AllSteps /\ Stage(Step("shuffle", "worker").op) = 7
        /\ Step("chain", "worker") \in AllSteps /\ Stage(Step("chain", "worker").op) = 8
    BY <1>0, StepStage
  <2>2. /\ Step("release", "worker") # Step("shuffle", "worker") /\ Step("shuffle", "worker") # Step("chain", "worker")
        /\ Step("release", "worker") # Step("chain", "worker")
    BY StepIs
  <2>3. 6 \in Int /\ 7 \in Int /\ 8 \in Int /\ 6 <= 7 /\ 7 <= 8
    OBVIOUS
  <2> QED BY ONLY <2>1, <2>2, <2>3, StagedThree, Zenon
<1> HIDE DEF a, b, c
<1>4. Staged(a \o b, 1, 5) /\ Range(a \o b) = Range(a) \cup Range(b)
  <2>1. 1 \in Int /\ 3 \in Int /\ 4 \in Int /\ 5 \in Int /\ 1 <= 3 /\ 3 < 4 /\ 4 <= 5
    OBVIOUS
  <2> QED BY <1>1, <1>2, <2>1, StagedAfter, Zenon
<1>5. Staged(a \o b \o c, 1, 8) /\ Range(a \o b \o c) = Range(a \o b) \cup Range(c)
  <2>1. 1 \in Int /\ 5 \in Int /\ 6 \in Int /\ 8 \in Int /\ 1 <= 5 /\ 5 < 6 /\ 6 <= 8
    OBVIOUS
  <2> QED BY <1>3, <1>4, <2>1, StagedAfter, Zenon
<1>6. Range(a \o b \o c) = SetupPlan("worker")
  <2>1. SetupPlan("worker") =
           {Step("mapping", "main"), Step("class", "main"), Step("granularity", "main"), Step("scan", "worker"),
            Step("capacity", "worker"), Step("release", "worker"), Step("shuffle", "worker"), Step("chain", "worker")}
    BY DEF SetupPlan
  <2> QED BY <1>1, <1>2, <1>3, <1>4, <1>5, <2>1
<1>7. Script["worker"].setup = a \o b \o c
  BY DEF Script, Worker!setup, Worker!load_mapping, Worker!SelectLines, Worker!LinkLines, Worker!Step, Step, a, b, c
<1>8. Staged(a \o b \o c, 1, 9)
  <2>1. \A n \in 1..8 : n \in 1..9
    OBVIOUS
  <2> QED BY <1>5, <2>1 DEF Staged
<1> QED BY <1>6, <1>7, <1>8

\* In its first part, every program goes through the stages in order.
LEMMA SetupScript ==
  ASSUME NEW p \in Programs
  PROVE  Staged(Script[p].setup, 1, 9) /\ Range(Script[p].setup) = SetupPlan(p)
<1>1. p \in {"overlap", "sweep", "selective", "multi", "cpumax", "worker"}
  BY OracleSetupAssumption
<1>2. CASE p = "sweep"
  BY <1>2, SetupScriptSweep
<1>3. CASE p = "worker"
  BY <1>3, SetupScriptWorker
<1>4. CASE p \in {"overlap", "selective", "multi", "cpumax"}
  BY <1>4, SetupScript4
<1> QED BY <1>1, <1>2, <1>3, <1>4

\* So does the loop over the conditions.
LEMMA LoopScript ==
  ASSUME NEW p \in Programs
  PROVE  Staged(Script[p].loop, 1, 10) /\ Range(Script[p].loop) = LoopPlan(p)
<1>1. p \in {"overlap", "sweep", "selective", "multi", "cpumax", "worker"}
  BY OracleSetupAssumption
<1>0. /\ {"level", "collect", "histogram", "accept", "multi", "run"} \subseteq Ops
      /\ "main" \in Whos /\ "aggressor" \in Whos
      /\ Stage("level") = 1 /\ Stage("collect") = 6 /\ Stage("histogram") = 7 /\ Stage("accept") = 7
      /\ Stage("multi") = 9 /\ Stage("run") = 10
  BY StageIs DEF Ops, Whos
<1>2. CASE p # "sweep"
  <2> DEFINE s == <<Step("run", "main")>>
  <2>1. Script[p].loop = s
    BY <1>1, <1>2 DEF Script, Overlap!loop, Selective!loop, Multi!loop, CpuMax!loop, Worker!loop,
       Overlap!Step, Selective!Step, Multi!Step, CpuMax!Step, Worker!Step, Step
  <2>2. Staged(s, 10, 10) /\ Range(s) = {Step("run", "main")}
    BY <1>0, StagedOne
  <2> HIDE DEF s
  <2>3. Staged(s, 1, 10)
    <3>1. \A n \in 10..10 : n \in 1..10
      OBVIOUS
    <3> QED BY <2>2, <3>1 DEF Staged
  <2>4. LoopPlan(p) = {Step("run", "main")}
    BY <1>2 DEF LoopPlan
  <2> QED BY <2>1, <2>2, <2>3, <2>4
<1>3. CASE p = "sweep"
  <2> DEFINE a == <<Step("level", "aggressor"), Step("collect", "aggressor")>>
             b == ForEachAll(<<"histogram", "accept">>, <<"aggressor">>)
             c == <<Step("multi", "aggressor"), Step("run", "main")>>
  <2>1. Staged(a, 1, 6) /\ Range(a) = {Step("level", "aggressor"), Step("collect", "aggressor")}
    BY <1>0, StagedTwo
  <2>2. Staged(b, 7, 7) /\ Range(b) = {Step("histogram", "aggressor"), Step("accept", "aggressor")}
    <3> DEFINE v == <<"aggressor">>
    <3>1. Distinct(v) /\ Range(v) = {"aggressor"}
      BY DEF Distinct, Whos, Range
    <3> HIDE DEF v
    <3>2. Staged(ForEachAll(<<"histogram", "accept">>, v), 7, 7)
          /\ Range(ForEachAll(<<"histogram", "accept">>, v)) = {Step("histogram", r) : r \in Range(v)} \cup {Step("accept", r) : r \in Range(v)}
      BY <1>0, <3>1, StagedPairs
    <3> QED BY <3>1, <3>2 DEF v
  <2>3. Staged(c, 9, 10) /\ Range(c) = {Step("multi", "aggressor"), Step("run", "main")}
    BY <1>0, StagedTwo
  <2>4. Script[p].loop = a \o b \o c
    <3>1. Script[p].loop = Sweep!loop
      BY <1>3 DEF Script
    <3>2. Sweep!loop = ForEachAll(<<"level", "collect">>, <<"aggressor">>) \o b \o c
      BY Zenon DEF Sweep!loop, Sweep!NewLines, Sweep!TestLines, Sweep!ForEachAll, Sweep!Step, ForEachAll, Step
    <3>3. ForEachAll(<<"level", "collect">>, <<"aggressor">>) = a
      BY StepsForOne
    <3> QED BY <3>1, <3>2, <3>3, Zenon
  <2> HIDE DEF a, b, c
  <2>5. Staged(a \o b, 1, 7) /\ Range(a \o b) = Range(a) \cup Range(b)
    <3>1. 1 \in Int /\ 6 \in Int /\ 7 \in Int /\ 1 <= 6 /\ 6 < 7 /\ 7 <= 7
      OBVIOUS
    <3> QED BY <2>1, <2>2, <3>1, StagedAfter, Zenon
  <2>6. Staged(a \o b \o c, 1, 10) /\ Range(a \o b \o c) = Range(a \o b) \cup Range(c)
    <3>1. 1 \in Int /\ 7 \in Int /\ 9 \in Int /\ 10 \in Int /\ 1 <= 7 /\ 7 < 9 /\ 9 <= 10
      OBVIOUS
    <3> QED BY <2>3, <2>5, <3>1, StagedAfter, Zenon
  <2>7. LoopPlan(p) = {Step("run", "main"), Step("level", "aggressor"), Step("collect", "aggressor"),
                       Step("histogram", "aggressor"), Step("accept", "aggressor"), Step("multi", "aggressor")}
    BY <1>3 DEF LoopPlan
  <2>8. Range(a \o b \o c) = LoopPlan(p)
    BY <2>1, <2>2, <2>3, <2>5, <2>6, <2>7
  <2> QED BY <2>4, <2>6, <2>8
<1> QED BY <1>2, <1>3

\* What main does at the end: look at every pool, and judge afterwards.
Verified(s, R) ==
    /\ s \in Seq(AllSteps)
    /\ \A k \in 1..Len(s) : s[k].op \in {"verify", "stable"} /\ (s[k].op = "verify" => s[k].who \in R)
    /\ \A r \in R : \E j, k \in 1..Len(s) : j < k /\ s[j] = Step("verify", r) /\ s[k].op = "stable"

\* One judgement after all pools.
LEMMA VerifiedOnce ==
  ASSUME NEW P, Distinct(P)
  PROVE  Verified(ForEach("verify", P) \o <<Step("stable", "main")>>, Range(P))
<1> DEFINE a == ForEach("verify", P)
           b == <<Step("stable", "main")>>
           s == a \o b
<1>0. "verify" \in Ops /\ "stable" \in Ops /\ "main" \in Whos /\ Stage("verify") = 11 /\ Stage("stable") = 11
  BY StageIs DEF Ops, Whos
<1>1. a \in Seq(AllSteps) /\ Range(a) = {Step("verify", r) : r \in Range(P)}
  BY <1>0, StagedForEach DEF Staged
<1>2. b \in Seq(AllSteps) /\ Len(b) = 1 /\ b[1] = Step("stable", "main")
  BY <1>0, StepIs
<1> HIDE DEF a, b
<1>3. /\ s \in Seq(AllSteps) /\ Len(s) = Len(a) + 1 /\ Len(a) \in Nat
      /\ \A k \in 1..Len(a) : s[k] = a[k]
      /\ s[Len(a) + 1] = Step("stable", "main")
  <2>1. /\ s \in Seq(AllSteps) /\ Len(s) = Len(a) + Len(b) /\ Len(a) \in Nat
        /\ \A k \in 1..Len(a) : s[k] = a[k]
        /\ \A k \in 1..Len(b) : s[Len(a) + k] = b[k]
    BY <1>1, <1>2, ConcatIs
  <2>2. 1 \in 1..Len(b)
    BY <1>2
  <2> HIDE DEF s
  <2> QED BY <1>2, <2>1, <2>2
<1> HIDE DEF s
<1>4. ASSUME NEW k \in 1..Len(a) PROVE \E r \in Range(P) : a[k] = Step("verify", r)
  BY <1>1, RangeIs
<1>5. ASSUME NEW k \in 1..Len(s)
      PROVE  s[k].op \in {"verify", "stable"} /\ (s[k].op = "verify" => s[k].who \in Range(P))
  <2>1. CASE k <= Len(a)
    <3>1. PICK r \in Range(P) : s[k] = Step("verify", r)
      BY <1>3, <1>4, <2>1
    <3> QED BY <3>1, StepIs
  <2>2. CASE k > Len(a)
    <3>1. k = Len(a) + 1
      BY <1>3, <2>2
    <3> QED BY <1>3, <3>1, StepIs
  <2> QED BY <1>3, <2>1, <2>2
<1>6. ASSUME NEW r \in Range(P)
      PROVE  \E j, k \in 1..Len(s) : j < k /\ s[j] = Step("verify", r) /\ s[k].op = "stable"
  <2>1. Step("verify", r) \in Range(a)
    BY <1>1
  <2>2. PICK j \in 1..Len(a) : a[j] = Step("verify", r)
    BY <1>1, <2>1, RangeIs
  <2>3. j \in 1..Len(s) /\ Len(a) + 1 \in 1..Len(s) /\ j < Len(a) + 1
    BY <1>3
  <2>4. s[Len(a) + 1].op = "stable"
    BY <1>3, StepIs
  <2> QED BY <1>3, <2>2, <2>3, <2>4
<1>7. Verified(s, Range(P))
  BY <1>3, <1>5, <1>6 DEF Verified
<1> QED BY <1>7 DEF s, a, b

\* A judgement after each pool.
LEMMA VerifiedEach ==
  ASSUME NEW P, Distinct(P)
  PROVE  Verified(ForEachAll(<<"verify", "stable">>, P), Range(P))
<1> DEFINE s == ForEachAll(<<"verify", "stable">>, P)
<1>0. "verify" \in Ops /\ "stable" \in Ops
  BY DEF Ops
<1>1. P \in Seq(Whos)
  BY DEF Distinct
<1>2. /\ s \in Seq(AllSteps) /\ Len(s) = 2 * Len(P) /\ Len(P) \in Nat
      /\ \A k \in 1..Len(P) : /\ 2 * k - 1 \in 1..Len(s) /\ s[2 * k - 1] = Step("verify", P[k])
                              /\ 2 * k \in 1..Len(s) /\ s[2 * k] = Step("stable", P[k])
      /\ \A i \in 1..Len(s) : \E k \in 1..Len(P) :
             (i = 2 * k - 1 /\ s[i] = Step("verify", P[k])) \/ (i = 2 * k /\ s[i] = Step("stable", P[k]))
  BY <1>0, <1>1, PairsAt
<1> HIDE DEF s
<1>3. \A k \in 1..Len(P) : P[k] \in Range(P)
  BY <1>1, RangeIs
<1>4. ASSUME NEW i \in 1..Len(s)
      PROVE  s[i].op \in {"verify", "stable"} /\ (s[i].op = "verify" => s[i].who \in Range(P))
  <2>1. PICK k \in 1..Len(P) : s[i] = Step("verify", P[k]) \/ s[i] = Step("stable", P[k])
    BY <1>2, Zenon
  <2> QED BY <1>3, <2>1, StepIs
<1>5. ASSUME NEW r \in Range(P)
      PROVE  \E j, k \in 1..Len(s) : j < k /\ s[j] = Step("verify", r) /\ s[k].op = "stable"
  <2>1. PICK i \in 1..Len(P) : P[i] = r
    BY <1>1, RangeIs
  <2>2. 2 * i - 1 \in 1..Len(s) /\ 2 * i \in 1..Len(s) /\ s[2 * i - 1] = Step("verify", r) /\ s[2 * i] = Step("stable", r)
    BY <1>2, <2>1
  <2>3. 2 * i - 1 < 2 * i
    BY <1>2
  <2>4. s[2 * i].op = "stable"
    BY <2>2, StepIs
  <2> QED BY <2>2, <2>3, <2>4
<1>6. Verified(s, Range(P))
  BY <1>2, <1>4, <1>5 DEF Verified
<1> QED BY <1>6 DEF s

\* Every experiment looks at all its pools before it succeeds.
LEMMA VerifyScript ==
  ASSUME NEW p \in Programs
  PROVE  IF p = "worker" THEN Script[p].verify = <<>> ELSE Verified(Script[p].verify, Range(PoolsOf(p)))
<1>1. p \in {"overlap", "sweep", "selective", "multi", "cpumax", "worker"}
  BY OracleSetupAssumption
<1>2. CASE p = "worker"
  BY <1>2 DEF Script, Worker!verify
<1> DEFINE V(P) == ForEach("verify", P) \o <<Step("stable", "main")>>
           W(P) == ForEachAll(<<"verify", "stable">>, P)
<1>3. Overlap!verify = V(Main3) /\ Selective!verify = V(Main3) /\ Sweep!verify = V(<<"victim", "aggressor">>)
  <2>1. Overlap!verify = V(Main3)
    BY Zenon DEF Overlap!verify, Overlap!Pools, Overlap!ForEach, Overlap!Step, ForEach, Step, Main3
  <2>2. Selective!verify = V(Main3)
    BY Zenon DEF Selective!verify, Selective!Pools, Selective!ForEach, Selective!Step, ForEach, Step, Main3
  <2>3. Sweep!verify = V(<<"victim", "aggressor">>)
    BY Zenon DEF Sweep!verify, Sweep!Pools, Sweep!ForEach, Sweep!Step, ForEach, Step
  <2> QED BY <2>1, <2>2, <2>3
<1>4. Multi!verify = W(Main6) /\ CpuMax!verify = W(Main6)
  <2>1. Multi!verify = W(Main6)
    BY Zenon DEF Multi!verify, Multi!Pools, Multi!candidate_name, Multi!Levels, Multi!ForEachAll, Multi!Step,
       ForEachAll, Step, Levels, Main6
  <2>2. CpuMax!verify = W(Main6)
    BY Zenon DEF CpuMax!verify, CpuMax!Pools, CpuMax!candidate_name, CpuMax!Levels, CpuMax!ForEachAll, CpuMax!Step,
       ForEachAll, Step, Levels, Main6
  <2> QED BY <2>1, <2>2
<1>5. Distinct(Main3) /\ Distinct(Main6) /\ Distinct(<<"victim", "aggressor">>)
  BY PoolsDistinct DEF Main3, Main6
<1>6. Verified(V(Main3), Range(Main3)) /\ Verified(V(<<"victim", "aggressor">>), Range(<<"victim", "aggressor">>))
      /\ Verified(W(Main6), Range(Main6))
  BY <1>5, VerifiedOnce, VerifiedEach
<1> HIDE DEF V, W
<1>7. CASE p \in {"overlap", "selective"}
  <2>1. Script[p].verify = Overlap!verify \/ Script[p].verify = Selective!verify
    BY <1>7 DEF Script
  <2>2. PoolsOf(p) = Main3
    BY <1>7, PoolsAre
  <2> QED BY <1>3, <1>6, <1>7, <2>1, <2>2
<1>8. CASE p = "sweep"
  <2>1. Script[p].verify = Sweep!verify
    BY <1>8 DEF Script
  <2>2. PoolsOf(p) = <<"victim", "aggressor">>
    BY <1>8, PoolsAre
  <2> QED BY <1>3, <1>6, <1>8, <2>1, <2>2
<1>9. CASE p \in {"multi", "cpumax"}
  <2>1. Script[p].verify = Multi!verify \/ Script[p].verify = CpuMax!verify
    BY <1>9 DEF Script
  <2>2. PoolsOf(p) = Main6
    BY <1>9, PoolsAre
  <2> QED BY <1>4, <1>6, <1>9, <2>1, <2>2
<1> QED BY <1>1, <1>2, <1>7, <1>8, <1>9

\* The pools are known to the layouts.
LEMMA RolesKnown ==
  ASSUME NEW p \in Programs
  PROVE  /\ Range(PoolsOf(p)) \subseteq {"victim", "high", "low", "aggressor", "worker"} \cup Range(Levels)
         /\ "main" \notin Range(PoolsOf(p)) /\ Range(PoolsOf(p)) \subseteq Whos
         /\ p # "worker" => "victim" \in Range(PoolsOf(p))
         /\ p = "worker" => Range(PoolsOf(p)) = {"worker"}
         /\ p = "sweep" => Range(PoolsOf(p)) = {"victim", "aggressor"}
         /\ p \in {"overlap", "selective"} => Range(PoolsOf(p)) = {"victim", "high", "low"}
         /\ p \in {"multi", "cpumax"} => Range(PoolsOf(p)) = {"victim"} \cup Range(Levels)
<1>1. p \in {"overlap", "sweep", "selective", "multi", "cpumax", "worker"}
  BY OracleSetupAssumption
<1>2. /\ Range(Levels) = {"o0", "o25", "o50", "o75", "o100"}
      /\ Range(Main6) = {"victim", "o0", "o25", "o50", "o75", "o100"} /\ Range(Main3) = {"victim", "high", "low"}
      /\ Range(<<"victim", "aggressor">>) = {"victim", "aggressor"} /\ Range(<<"worker">>) = {"worker"}
  BY PoolsDistinct DEF Main3, Main6
<1>3. p = "worker" => Range(PoolsOf(p)) = {"worker"}
  BY <1>2, PoolsAre
<1>4. p = "sweep" => Range(PoolsOf(p)) = {"victim", "aggressor"}
  BY <1>2, PoolsAre
<1>5. p \in {"overlap", "selective"} => Range(PoolsOf(p)) = {"victim", "high", "low"}
  BY <1>2, PoolsAre
<1>6. p \in {"multi", "cpumax"} => Range(PoolsOf(p)) = {"victim", "o0", "o25", "o50", "o75", "o100"}
  BY <1>2, PoolsAre
<1> QED BY <1>1, <1>2, <1>3, <1>4, <1>5, <1>6 DEF Whos

-----------------------------------------------------------------------------
(* Where main is.                                                          *)

\* The steps main has made: all of its first part up to now and, of the
\* loop, those of the current condition.
Past ==
    {Script[program].setup[j] : j \in 1..(IF section = "setup" THEN pc - 1 ELSE Len(Script[program].setup))}
LoopPast ==
    {Script[program].loop[j] : j \in 1..(IF section = "setup" THEN 0
                                         ELSE IF section = "loop" THEN pc - 1 ELSE Len(Script[program].loop))}
Known == Past \cup LoopPast
Did(op, r) == Step(op, r) \in Known

Fields == {"pages", "counts", "lines", "hist", "next", "roots"}

\* The command line is a legal one, and main is somewhere in its script.
ControlOK ==
    /\ program \in Programs /\ cfg \in Configs /\ seed \in Seeds /\ AcceptsArgs(program, cfg)
    /\ section \in {"setup", "loop", "verify"} /\ pc \in 1..(Len(Steps) + 1)
    /\ rc \in {"none", "success", "failure"}
    /\ DOMAIN pool = Roles /\ \A r \in Roles : DOMAIN pool[r] = Fields

\* The three parts of a script.
LEMMA ScriptParts ==
  ASSUME NEW p \in Programs
  PROVE  /\ Script[p].setup \in Seq(AllSteps) /\ Len(Script[p].setup) \in Nat
         /\ Script[p].loop \in Seq(AllSteps) /\ Len(Script[p].loop) \in Nat
         /\ Script[p].verify \in Seq(AllSteps) /\ Len(Script[p].verify) \in Nat
         /\ Script[p]["setup"] = Script[p].setup /\ Script[p]["loop"] = Script[p].loop
         /\ Script[p]["verify"] = Script[p].verify
<1>1. Script[p].setup \in Seq(AllSteps) /\ Len(Script[p].setup) \in Nat
  BY SetupScript DEF Staged
<1>2. Script[p].loop \in Seq(AllSteps) /\ Len(Script[p].loop) \in Nat
  BY LoopScript DEF Staged
<1>3. Script[p].verify \in Seq(AllSteps) /\ Len(Script[p].verify) \in Nat
  <2>1. CASE p = "worker"
    <3>1. Script[p].verify = <<>>
      BY <2>1, VerifyScript
    <3> QED BY <3>1
  <2>2. CASE p # "worker"
    BY <2>2, VerifyScript DEF Verified
  <2> QED BY <2>1, <2>2
<1> QED BY <1>1, <1>2, <1>3

\* The part main is in.
LEMMA StepsAre ==
  ASSUME ControlOK
  PROVE  /\ section = "setup" => Steps = Script[program].setup
         /\ section = "loop" => Steps = Script[program].loop
         /\ section = "verify" => Steps = Script[program].verify
         /\ Steps \in Seq(AllSteps) /\ Len(Steps) \in Nat /\ pc \in Nat
         /\ Running => pc \in 1..Len(Steps)
<1>1. program \in Programs /\ section \in {"setup", "loop", "verify"} /\ pc \in 1..(Len(Steps) + 1)
  BY DEF ControlOK
<1>2. /\ section = "setup" => Steps = Script[program].setup
      /\ section = "loop" => Steps = Script[program].loop
      /\ section = "verify" => Steps = Script[program].verify
  BY DEF Steps
<1>3. Steps \in Seq(AllSteps) /\ Len(Steps) \in Nat
  BY <1>1, <1>2, ScriptParts
<1> HIDE DEF Steps
<1> QED BY <1>1, <1>2, <1>3 DEF Running

\* In a staged script, what comes before a step.
LEMMA StagedBefore ==
  ASSUME NEW s, NEW lo, NEW hi, Staged(s, lo, hi), NEW k \in 1..Len(s)
  PROVE  /\ s[k] \in Range(s)
         /\ \A x \in {s[j] : j \in 1..(k - 1)} : x \in Range(s) /\ x # s[k] /\ Stage(x.op) <= Stage(s[k].op)
         /\ \A x \in Range(s) : Stage(x.op) < Stage(s[k].op) => x \in {s[j] : j \in 1..(k - 1)}
<1>1. s \in Seq(AllSteps) /\ Len(s) \in Nat
  BY DEF Staged
<1>2. /\ \A j \in 1..Len(s) : s[j] \in Range(s)
      /\ \A x \in Range(s) : \E j \in 1..Len(s) : s[j] = x
  BY <1>1, RangeIs
<1>3. ASSUME NEW j \in 1..(k - 1)
      PROVE  s[j] \in Range(s) /\ s[j] # s[k] /\ Stage(s[j].op) <= Stage(s[k].op)
  <2>1. j \in 1..Len(s) /\ j < k
    BY <1>1
  <2> QED BY <1>2, <2>1 DEF Staged
<1>4. ASSUME NEW x \in Range(s), Stage(x.op) < Stage(s[k].op)
      PROVE  x \in {s[j] : j \in 1..(k - 1)}
  <2>1. PICK j \in 1..Len(s) : s[j] = x
    BY <1>2
  <2>2. Stage(s[j].op) \in Int /\ Stage(s[k].op) \in Int
    BY DEF Staged
  <2>3. ~ (k < j) /\ j # k
    <3>1. k < j => Stage(s[k].op) <= Stage(s[j].op)
      BY DEF Staged
    <3> QED BY <1>4, <2>1, <2>2, <3>1
  <2>4. j \in 1..(k - 1)
    BY <1>1, <2>3
  <2> QED BY <2>1, <2>4
<1> QED BY <1>2, <1>3, <1>4

\* The members of the plans.
LEMMA PlanIs ==
  ASSUME NEW p \in Programs, NEW x \in SetupPlan(p)
  PROVE  /\ x \in AllSteps /\ x = Step(x.op, x.who)
         /\ x.op \in {"mapping", "quota", "pool", "count", "choose", "collect", "histogram", "accept", "permutation",
                      "single", "multi", "class", "granularity", "scan", "capacity", "release", "shuffle", "chain"}
         /\ x.op \in {"pool", "count", "collect", "histogram", "accept", "single", "multi", "scan", "capacity",
                      "release", "shuffle", "chain"} => x.who \in Range(PoolsOf(p))
         /\ x.op \in {"mapping", "quota", "choose", "permutation", "class", "granularity"} => x.who = "main"
         /\ x.op = "single" => x.who = "victim"
         /\ x.op = "multi" => x.who # "victim"
         /\ x.op = "accept" /\ p # "sweep" => x.who # "victim"
         /\ p = "sweep" /\ x.op \in {"collect", "histogram", "accept", "single", "multi"} => x.who = "victim"
         /\ p = "worker" => x.op \in {"mapping", "class", "granularity", "scan", "capacity", "release", "shuffle", "chain"}
         /\ p # "worker" => x.op \notin {"class", "granularity", "scan", "capacity", "release", "shuffle", "chain"}
<1>0. p \in {"overlap", "sweep", "selective", "multi", "cpumax", "worker"}
  BY OracleSetupAssumption
<1> DEFINE R == Range(PoolsOf(p))
<1>1. PICK k \in 1..Len(Script[p].setup) : Script[p].setup[k] = x
  BY SetupScript, RangeIs DEF Staged
<1>2. x \in AllSteps
  BY <1>1, ScriptParts, RangeIs
<1>3. x = Step(x.op, x.who)
  BY <1>2 DEF AllSteps, Step
<1>4. p = "sweep" => R = {"victim", "aggressor"}
  BY RolesKnown
<1>5. p = "worker" => R = {"worker"}
  BY RolesKnown
<1> HIDE DEF R
<1>6. ASSUME NEW Q, x \in BeginningSteps(Q)
      PROVE  \/ x.op \in {"mapping", "quota", "choose"} /\ x.who = "main"
             \/ x.op \in {"pool", "count"} /\ x.who \in Q
  BY <1>6, StepIs DEF BeginningSteps, Of
<1>7. CASE p = "sweep"
  <2>1. x \in BeginningSteps(R) \/ x \in {Step("collect", "victim"), Step("histogram", "victim"), Step("accept", "victim"),
                 Step("permutation", "main"), Step("single", "victim")}
    BY <1>4, <1>7 DEF SetupPlan
  <2>2. CASE x \in BeginningSteps(R)
    BY <1>2, <1>3, <1>6, <1>7, <2>2 DEF R
  <2>3. CASE x \in {Step("collect", "victim"), Step("histogram", "victim"), Step("accept", "victim"),
                 Step("permutation", "main"), Step("single", "victim")}
    <3>1. \/ x.op \in {"collect", "histogram", "accept", "single"} /\ x.who = "victim"
          \/ x.op = "permutation" /\ x.who = "main"
      BY <2>3, StepIs
    <3>2. "victim" \in Range(PoolsOf(p))
      BY <1>4, <1>7 DEF R
    <3> QED BY <1>2, <1>3, <1>7, <3>1, <3>2
  <2> QED BY <2>1, <2>2, <2>3
<1>8. CASE p = "worker"
  <2>1. \/ x.op \in {"mapping", "class", "granularity"} /\ x.who = "main"
        \/ x.op \in {"scan", "capacity", "release", "shuffle", "chain"} /\ x.who = "worker"
    BY <1>8, StepIs DEF SetupPlan
  <2>2. "worker" \in Range(PoolsOf(p))
    BY <1>5, <1>8 DEF R
  <2> QED BY <1>2, <1>3, <1>8, <2>1, <2>2
<1>9. CASE p \in {"overlap", "selective", "multi", "cpumax"}
  <2>1. x \in SetupSteps(R)
    BY <1>9 DEF SetupPlan, R
  <2>2. \/ x \in BeginningSteps(R)
        \/ x.op \in {"collect", "histogram"} /\ x.who \in R
        \/ x.op \in {"accept", "multi"} /\ x.who \in R \ {"victim"}
        \/ x.op = "permutation" /\ x.who = "main"
        \/ x.op = "single" /\ x.who = "victim"
    BY <2>1, StepIs DEF SetupSteps, Of
  <2>3. "victim" \in R
    BY <1>9, RolesKnown DEF R
  <2>4. \/ x.op \in {"mapping", "quota", "choose", "permutation"} /\ x.who = "main"
        \/ x.op \in {"pool", "count", "collect", "histogram"} /\ x.who \in R
        \/ x.op \in {"accept", "multi"} /\ x.who \in R \ {"victim"}
        \/ x.op = "single" /\ x.who = "victim"
    BY <1>6, <2>2, Zenon
  <2> QED BY <1>2, <1>3, <1>9, <2>3, <2>4 DEF R
<1> QED BY <1>0, <1>7, <1>8, <1>9

\* The members of the loop.
LEMMA LoopPlanIs ==
  ASSUME NEW p \in Programs, NEW x \in LoopPlan(p)
  PROVE  /\ x \in AllSteps /\ x = Step(x.op, x.who) /\ x \notin SetupPlan(p)
         /\ x = Step("run", "main") \/ p = "sweep"
         /\ x.op \in {"level", "collect", "histogram", "accept", "multi", "run"}
         /\ x.op # "run" => x.who = "aggressor"
         /\ x.op = "run" => x.who = "main"
<1>1. PICK k \in 1..Len(Script[p].loop) : Script[p].loop[k] = x
  BY LoopScript, RangeIs DEF Staged
<1>2. x \in AllSteps
  BY <1>1, ScriptParts, RangeIs
<1>3. x = Step(x.op, x.who)
  BY <1>2 DEF AllSteps, Step
<1>4. x = Step("run", "main") \/ (p = "sweep" /\ x \in {Step("level", "aggressor"), Step("collect", "aggressor"),
           Step("histogram", "aggressor"), Step("accept", "aggressor"), Step("multi", "aggressor")})
  BY DEF LoopPlan
<1>5. /\ x.op \in {"level", "collect", "histogram", "accept", "multi", "run"}
      /\ x.op # "run" => x.who = "aggressor" /\ p = "sweep"
      /\ x.op = "run" => x.who = "main"
  BY <1>4, StepIs
<1>6. x \notin SetupPlan(p)
  BY <1>5, PlanIs
<1> QED BY <1>2, <1>3, <1>4, <1>5, <1>6

\* The next step, and what has been done before it.
LEMMA NextStep ==
  ASSUME ControlOK, Running
  PROVE  LET st == Steps[pc]
         IN  /\ st \in AllSteps /\ st = Step(st.op, st.who)
             /\ section = "setup" =>
                  /\ st \in SetupPlan(program)
                  /\ Known \subseteq SetupPlan(program) \ {st}
                  /\ \A x \in Known : Stage(x.op) <= Stage(st.op)
                  /\ \A x \in SetupPlan(program) : Stage(x.op) < Stage(st.op) => x \in Known
             /\ section = "loop" =>
                  /\ st \in LoopPlan(program)
                  /\ SetupPlan(program) \subseteq Known
                  /\ Known \subseteq (SetupPlan(program) \cup LoopPlan(program)) \ {st}
                  /\ \A x \in Known \ SetupPlan(program) : Stage(x.op) <= Stage(st.op)
                  /\ \A x \in LoopPlan(program) : Stage(x.op) < Stage(st.op) => x \in Known
             /\ section = "verify" =>
                  /\ Known = SetupPlan(program) \cup LoopPlan(program)
                  /\ program # "worker" /\ st.op \in {"verify", "stable"}
                  /\ st.op = "verify" => st.who \in Roles
<1> DEFINE st == Steps[pc]
           S == Script[program].setup
           L == Script[program].loop
<1>1. program \in Programs /\ section \in {"setup", "loop", "verify"}
  BY DEF ControlOK
<1>2. /\ section = "setup" => Steps = S
      /\ section = "loop" => Steps = L
      /\ section = "verify" => Steps = Script[program].verify
      /\ Steps \in Seq(AllSteps) /\ Len(Steps) \in Nat /\ pc \in Nat
      /\ pc \in 1..Len(Steps)
  BY StepsAre
<1>3. st \in AllSteps
  BY <1>2, RangeIs
<1>4. st = Step(st.op, st.who)
  BY <1>3 DEF AllSteps, Step
<1>5. Staged(S, 1, 9) /\ Range(S) = SetupPlan(program) /\ Staged(L, 1, 10) /\ Range(L) = LoopPlan(program)
  BY <1>1, SetupScript, LoopScript
<1>6. S \in Seq(AllSteps) /\ L \in Seq(AllSteps) /\ Range(S) = {S[j] : j \in 1..Len(S)} /\ Range(L) = {L[j] : j \in 1..Len(L)}
  BY <1>5, RangeIs DEF Staged
<1> HIDE DEF S, L
<1>7. CASE section = "setup"
  <2>1. Past = {S[j] : j \in 1..(pc - 1)} /\ LoopPast = {}
    BY <1>7 DEF Past, LoopPast, S
  <2>2. st = S[pc] /\ pc \in 1..Len(S)
    BY <1>2, <1>7
  <2> DEFINE before == {S[j] : j \in 1..(pc - 1)}
  <2>3. /\ S[pc] \in Range(S)
        /\ \A x \in before : x \in Range(S) /\ x # S[pc] /\ Stage(x.op) <= Stage(S[pc].op)
        /\ \A x \in Range(S) : Stage(x.op) < Stage(S[pc].op) => x \in before
    BY <1>5, <2>2, StagedBefore
  <2>4. Known = before
    BY <2>1 DEF Known
  <2> HIDE DEF before
  <2> QED BY <1>3, <1>4, <1>5, <1>7, <2>2, <2>3, <2>4
<1>8. CASE section = "loop"
  <2>1. Past = Range(S) /\ LoopPast = {L[j] : j \in 1..(pc - 1)}
    BY <1>6, <1>8 DEF Past, LoopPast, S, L
  <2>2. st = L[pc] /\ pc \in 1..Len(L)
    BY <1>2, <1>8
  <2> DEFINE before == {L[j] : j \in 1..(pc - 1)}
  <2>3. /\ L[pc] \in Range(L)
        /\ \A x \in before : x \in Range(L) /\ x # L[pc] /\ Stage(x.op) <= Stage(L[pc].op)
        /\ \A x \in Range(L) : Stage(x.op) < Stage(L[pc].op) => x \in before
    BY <1>5, <2>2, StagedBefore
  <2>4. Known = SetupPlan(program) \cup before
    BY <1>5, <2>1 DEF Known
  <2> HIDE DEF before
  <2>5. \A x \in LoopPlan(program) : x \notin SetupPlan(program)
    BY <1>1, LoopPlanIs
  <2> QED BY <1>3, <1>4, <1>5, <1>8, <2>2, <2>3, <2>4, <2>5
<1>9. CASE section = "verify"
  <2>1. Past = Range(S) /\ LoopPast = Range(L)
    BY <1>6, <1>9 DEF Past, LoopPast, S, L
  <2>2. program # "worker"
    <3> SUFFICES ASSUME program = "worker" PROVE FALSE
      OBVIOUS
    <3>1. Steps = <<>>
      BY <1>1, <1>2, <1>9, VerifyScript
    <3> QED BY <1>2, <3>1
  <2>3. Verified(Steps, Roles)
    BY <1>1, <1>2, <1>9, <2>2, VerifyScript DEF Roles
  <2>4. st.op \in {"verify", "stable"} /\ (st.op = "verify" => st.who \in Roles)
    <3> HIDE DEF Roles
    <3> QED BY <1>2, <2>3 DEF Verified
  <2> QED BY <1>3, <1>4, <1>5, <1>9, <2>1, <2>2, <2>4 DEF Known
<1> QED BY <1>1, <1>7, <1>8, <1>9

\* What is known stays known.
LEMMA KnownStays ==
  ASSUME UNCHANGED <<program, section, pc>>
  PROVE  Known' = Known
  BY DEF Known, Past, LoopPast

\* A step that succeeds is added.
LEMMA KnownGrows ==
  ASSUME ControlOK, Running, Done, program' = program
  PROVE  Known' = IF section = "verify" THEN Known ELSE Known \cup {Steps[pc]}
<1> DEFINE S == Script[program].setup
           L == Script[program].loop
<1>1. /\ section = "setup" => Steps = S
      /\ section = "loop" => Steps = L
      /\ Len(Steps) \in Nat /\ pc \in 1..Len(Steps)
  BY StepsAre
<1>2. section' = section /\ pc' = pc + 1 /\ section \in {"setup", "loop", "verify"}
  BY DEF Done, ControlOK
<1>3. 1..((pc + 1) - 1) = (1..(pc - 1)) \cup {pc}
  BY <1>1
<1> DEFINE T(s, k) == {s[j] : j \in 1..k}
<1>4. ASSUME NEW s PROVE T(s, (pc + 1) - 1) = T(s, pc - 1) \cup {s[pc]}
  BY <1>3
<1>5. /\ Past = T(S, IF section = "setup" THEN pc - 1 ELSE Len(S))
      /\ Past' = T(S, IF section = "setup" THEN (pc + 1) - 1 ELSE Len(S))
      /\ LoopPast = T(L, IF section = "setup" THEN 0 ELSE IF section = "loop" THEN pc - 1 ELSE Len(L))
      /\ LoopPast' = T(L, IF section = "setup" THEN 0 ELSE IF section = "loop" THEN (pc + 1) - 1 ELSE Len(L))
  BY <1>2 DEF Past, LoopPast
<1> HIDE DEF T, S, L
<1> QED BY <1>1, <1>2, <1>4, <1>5 DEF Known

\* The end of a part of main; the loop forgets what it did at a level.
LEMMA KnownSection ==
  ASSUME ControlOK, NextSection
  PROVE  Known' \subseteq Known /\ SetupPlan(program) \subseteq Known'
<1> DEFINE S == Script[program].setup
           L == Script[program].loop
<1>1. /\ section = "setup" => Steps = S
      /\ section = "loop" => Steps = L
      /\ Len(Steps) \in Nat /\ pc \in Nat /\ pc \in 1..(Len(Steps) + 1) /\ pc > Len(Steps)
  BY StepsAre DEF NextSection, ControlOK
<1>2. pc - 1 = Len(Steps)
  BY <1>1
<1>3. /\ section = "setup" => section' = "loop"
      /\ section = "loop" => section' \in {"loop", "verify"}
      /\ section = "verify" => section' = "verify"
      /\ section \in {"setup", "loop", "verify"} /\ pc' = 1 /\ program' = program
  BY DEF NextSection, ControlOK, params
<1> DEFINE T(s, k) == {s[j] : j \in 1..k}
<1>4. ASSUME NEW s PROVE T(s, 1 - 1) = {}
  OBVIOUS
<1>5. /\ Past = T(S, IF section = "setup" THEN pc - 1 ELSE Len(S))
      /\ Past' = T(S, IF section' = "setup" THEN 1 - 1 ELSE Len(S))
      /\ LoopPast = T(L, IF section = "setup" THEN 0 ELSE IF section = "loop" THEN pc - 1 ELSE Len(L))
      /\ LoopPast' = T(L, IF section' = "setup" THEN 0 ELSE IF section' = "loop" THEN 1 - 1 ELSE Len(L))
  BY <1>3 DEF Past, LoopPast
<1>6. SetupPlan(program) = T(S, Len(S))
  <2>1. program \in Programs
    BY DEF ControlOK
  <2>2. Range(S) = SetupPlan(program) /\ S \in Seq(AllSteps)
    BY <2>1, SetupScript, ScriptParts
  <2> QED BY <2>2, RangeIs
<1> HIDE DEF T, S, L
<1> QED BY <1>6, <1>1, <1>2, <1>3, <1>4, <1>5 DEF Known

\* After the first part of main, all of its steps have been made.
LEMMA KnownAfter ==
  ASSUME ControlOK
  PROVE  /\ section # "setup" => SetupPlan(program) \subseteq Known
         /\ section = "verify" => Known = SetupPlan(program) \cup LoopPlan(program)
         /\ section = "loop" /\ ~Running /\ rc = "none" => Known = SetupPlan(program) \cup LoopPlan(program)
         /\ Known \subseteq SetupPlan(program) \cup LoopPlan(program)
<1> DEFINE S == Script[program].setup
           L == Script[program].loop
<1>1. /\ section = "setup" => Steps = S
      /\ section = "loop" => Steps = L
      /\ Len(Steps) \in Nat /\ pc \in Nat /\ pc \in 1..(Len(Steps) + 1)
      /\ program \in Programs /\ section \in {"setup", "loop", "verify"}
  BY StepsAre DEF ControlOK
<1>2. Range(S) = SetupPlan(program) /\ Range(L) = LoopPlan(program) /\ S \in Seq(AllSteps) /\ L \in Seq(AllSteps)
  BY <1>1, SetupScript, LoopScript, ScriptParts
<1>3. Range(S) = {S[j] : j \in 1..Len(S)} /\ Range(L) = {L[j] : j \in 1..Len(L)}
  BY <1>2, RangeIs
<1>4. Past = {S[j] : j \in 1..(IF section = "setup" THEN pc - 1 ELSE Len(S))}
  BY DEF Past
<1>5. LoopPast = {L[j] : j \in 1..(IF section = "setup" THEN 0 ELSE IF section = "loop" THEN pc - 1 ELSE Len(L))}
  BY DEF LoopPast
<1>6. Len(S) \in Nat /\ Len(L) \in Nat
  BY <1>2
<1> HIDE DEF S, L
<1>7. section # "setup" => Past = Range(S)
  BY <1>3, <1>4
<1>8. section = "verify" => LoopPast = Range(L)
  BY <1>3, <1>5
<1>9. Past \subseteq Range(S) /\ LoopPast \subseteq Range(L)
  <2>1. section = "setup" => pc - 1 <= Len(S)
    BY <1>1
  <2>2. section = "loop" => pc - 1 <= Len(L)
    BY <1>1
  <2> QED BY <1>1, <1>3, <1>4, <1>5, <1>6, <2>1, <2>2
<1>10. section = "loop" /\ ~Running /\ rc = "none" => LoopPast = Range(L)
  <2> SUFFICES ASSUME section = "loop", ~Running, rc = "none" PROVE LoopPast = Range(L)
    OBVIOUS
  <2>1. pc - 1 = Len(L)
    BY <1>1 DEF Running
  <2> QED BY <1>3, <1>5, <2>1
<1> QED BY <1>1, <1>2, <1>7, <1>8, <1>9, <1>10 DEF Known

-----------------------------------------------------------------------------
(* Main stays in its script.                                               *)

\* What an action does to the control state, and which pool it writes.
Proceeds == Running /\ Done
Stops == rc' = "failure" /\ UNCHANGED <<section, pc>>
Writes(r) == \/ UNCHANGED pool
             \/ \E field \in Fields : \E value : Update(r, field, value)
             \/ \E chain, roots : Link(r, chain, roots)

\* Whose step it is.
LEMMA WhoIs ==
  ASSUME ControlOK, Running,
         Steps[pc].op \in {"pool", "count", "collect", "histogram", "accept", "single", "multi", "scan", "capacity",
                           "release", "shuffle", "chain", "verify"}
  PROVE  Who \in Roles
<1>1. program \in Programs /\ section \in {"setup", "loop", "verify"}
  BY DEF ControlOK
<1>2. /\ section = "setup" => Steps[pc] \in SetupPlan(program)
      /\ section = "loop" => Steps[pc] \in LoopPlan(program)
      /\ section = "verify" => (Steps[pc].op = "verify" => Steps[pc].who \in Roles)
      /\ section = "verify" => Steps[pc].op \in {"verify", "stable"}
  BY NextStep
<1>3. CASE section = "setup"
  <2>1. Steps[pc].op # "verify"
    BY <1>1, <1>2, <1>3, PlanIs
  <2> QED BY <1>1, <1>2, <1>3, <2>1, PlanIs DEF Who, Roles
<1>4. CASE section = "loop"
  <2>1. Steps[pc].op \in {"level", "collect", "histogram", "accept", "multi", "run"} /\ (Steps[pc].op # "run" => Steps[pc].who = "aggressor")
        /\ (Steps[pc] = Step("run", "main") \/ program = "sweep")
    BY <1>1, <1>2, <1>4, LoopPlanIs
  <2>2. Steps[pc] # Step("run", "main")
    BY StepIs
  <2>3. "aggressor" \in Roles
    BY <1>1, <2>1, <2>2, RolesKnown DEF Roles
  <2> QED BY <2>1, <2>3 DEF Who
<1>5. CASE section = "verify"
  BY <1>2, <1>5 DEF Who
<1> QED BY <1>1, <1>3, <1>4, <1>5

\* A pool keeps its fields.
LEMMA WritesFields ==
  ASSUME ControlOK, NEW r \in Roles, Writes(r), program' = program
  PROVE  DOMAIN pool' = Roles' /\ \A q \in Roles' : DOMAIN pool'[q] = Fields
<1>1. Roles' = Roles /\ DOMAIN pool = Roles /\ \A q \in Roles : DOMAIN pool[q] = Fields
  BY DEF Roles, ControlOK
<1> HIDE DEF Roles
<1>2. CASE UNCHANGED pool
  BY <1>1, <1>2
<1>3. CASE \E field \in Fields : \E value : Update(r, field, value)
  BY <1>1, <1>3 DEF Update
<1>4. CASE \E chain, roots : Link(r, chain, roots)
  BY <1>1, <1>4 DEF Link
<1> QED BY <1>2, <1>3, <1>4 DEF Writes

\* Every step of main goes on to the next or ends the program, and writes
\* into one pool at most.
Shape ==
    /\ UNCHANGED params /\ \E r \in Roles : Writes(r)
    /\ Running /\ (Done \/ Stops \/ UNCHANGED control)

\* The actions that leave the pools alone.
LEMMA ShapeOthers ==
  ASSUME ControlOK,
         \/ load_mapping \/ DivideWorkset \/ ChooseClassSets \/ Accept \/ MakePermutation
         \/ CheckClass \/ CheckGranularity \/ ScanEnds \/ CheckCapacity \/ ReleasePages
         \/ NextLevel \/ RunConditions \/ VerifyPool \/ Judge \/ CallFails
  PROVE  Shape
<1>1. \E r \in Roles : TRUE
  <2>1. program \in Programs
    BY DEF ControlOK
  <2>2. program = "worker" => "worker" \in Roles
    BY <2>1, RolesKnown DEF Roles
  <2>3. program # "worker" => "victim" \in Roles
    BY <2>1, RolesKnown DEF Roles
  <2> QED BY <2>2, <2>3
<1>2. UNCHANGED pool => \E r \in Roles : Writes(r)
  BY <1>1 DEF Writes
<1> HIDE DEF Roles, Writes
<1>3. Fail => Stops
  BY DEF Fail, Abort, Stops
<1>4. Abort("call") => Stops
  BY DEF Abort, Stops
<1> HIDE DEF Fail, Stops, Done, Running, params
<1>5. CASE load_mapping \/ DivideWorkset \/ ChooseClassSets
  BY <1>2, <1>3, <1>5 DEF load_mapping, DivideWorkset, ChooseClassSets, Shape, At
<1>6. CASE Accept \/ MakePermutation \/ CheckClass \/ CheckGranularity
  BY <1>2, <1>3, <1>6 DEF Accept, MakePermutation, CheckClass, CheckGranularity, Shape, At, chosen
<1>7. CASE ScanEnds \/ CheckCapacity \/ ReleasePages
  BY <1>2, <1>3, <1>7 DEF ScanEnds, CheckCapacity, ReleasePages, Shape, At
<1>8. CASE NextLevel \/ RunConditions \/ VerifyPool \/ Judge
  BY <1>2, <1>3, <1>8 DEF NextLevel, RunConditions, VerifyPool, Judge, Shape, At
<1>9. CASE CallFails
  BY <1>2, <1>4, <1>9 DEF CallFails, Shape
<1> QED BY <1>5, <1>6, <1>7, <1>8, <1>9

\* The actions that write into one.
LEMMA ShapePools ==
  ASSUME ControlOK,
         \/ pool_create \/ CountLines \/ CollectLines \/ BuildHistogram \/ SingleChain \/ MultiChain
         \/ ScanPage \/ ShuffleLines \/ LinkLines
  PROVE  Shape
<1>1. Fail => Stops
  BY DEF Fail, Abort, Stops
<1>2. ASSUME NEW op \in {"pool", "count", "collect", "histogram", "single", "multi", "scan", "shuffle", "chain"}, At(op)
      PROVE  Who \in Roles /\ Running
  BY <1>2, WhoIs DEF At
<1>3. ASSUME NEW op \in {"scan", "shuffle", "chain"}, At(op) PROVE "worker" \in Roles /\ Running
  <2>1. Running /\ Steps[pc].op = op
    BY <1>3 DEF At
  <2>2. Steps[pc] \in SetupPlan(program) \/ Steps[pc] \in LoopPlan(program) \/ Steps[pc].op \in {"verify", "stable"}
    BY <2>1, NextStep DEF ControlOK
  <2>3. program \in Programs
    BY DEF ControlOK
  <2>4. program = "worker"
    BY <2>1, <2>2, <2>3, PlanIs, LoopPlanIs
  <2> QED BY <2>1, <2>3, <2>4, RolesKnown DEF Roles
<1>4. ASSUME NEW r \in Roles
      PROVE  /\ UNCHANGED pool => Writes(r)
             /\ \A field \in Fields : \A v : Update(r, field, v) => Writes(r)
             /\ \A c, t : Link(r, c, t) => Writes(r)
  BY DEF Writes
<1>5. "pages" \in Fields /\ "counts" \in Fields /\ "lines" \in Fields /\ "hist" \in Fields
  BY DEF Fields
<1> HIDE DEF Roles, Writes, Fail, Stops, Done, Running, params, At, Who, Update, Link
<1>6. CASE pool_create
  BY <1>1, <1>2, <1>4, <1>5, <1>6 DEF pool_create, Shape
<1>7. CASE CountLines
  BY <1>2, <1>4, <1>5, <1>7 DEF CountLines, Shape
<1>8. CASE CollectLines
  BY <1>1, <1>2, <1>4, <1>5, <1>8 DEF CollectLines, Shape
<1>9. CASE BuildHistogram
  BY <1>2, <1>4, <1>5, <1>9 DEF BuildHistogram, Shape
<1>10. CASE SingleChain
  BY <1>2, <1>4, <1>10 DEF SingleChain, Shape
<1>11. CASE MultiChain
  BY <1>1, <1>2, <1>4, <1>11 DEF MultiChain, Shape
<1>12. CASE ScanPage
  BY <1>1, <1>3, <1>4, <1>5, <1>12 DEF ScanPage, Shape
<1>13. CASE ShuffleLines
  BY <1>3, <1>4, <1>5, <1>13 DEF ShuffleLines, Shape
<1>14. CASE LinkLines
  BY <1>3, <1>4, <1>14 DEF LinkLines, Shape
<1> QED BY <1>6, <1>7, <1>8, <1>9, <1>10, <1>11, <1>12, <1>13, <1>14

\* Every step keeps main in its script.
LEMMA ControlNext ==
  ASSUME ControlOK, [Next]_vars
  PROVE  ControlOK' /\ UNCHANGED params
<1>1. /\ program \in Programs /\ cfg \in Configs /\ seed \in Seeds /\ AcceptsArgs(program, cfg)
      /\ section \in {"setup", "loop", "verify"} /\ pc \in 1..(Len(Steps) + 1) /\ Len(Steps) \in Nat
      /\ rc \in {"none", "success", "failure"}
  BY StepsAre DEF ControlOK
<1>2. CASE Shape
  <2>1. program' = program /\ cfg' = cfg /\ seed' = seed
    BY <1>2 DEF Shape, params
  <2>2. DOMAIN pool' = Roles' /\ \A q \in Roles' : DOMAIN pool'[q] = Fields
    BY <1>2, <2>1, WritesFields DEF Shape
  <2>3. section' = section /\ rc' \in {"none", "success", "failure"} /\ Steps' = Steps
    BY <1>1, <1>2, <2>1 DEF Shape, Done, Stops, control, Steps
  <2>4. pc' \in 1..(Len(Steps) + 1)
    <3>1. pc \in 1..Len(Steps)
      BY <1>2, StepsAre DEF Shape
    <3>2. pc' = pc \/ pc' = pc + 1
      BY <1>2 DEF Shape, Done, Stops, control
    <3> HIDE DEF Steps
    <3> QED BY <1>1, <3>1, <3>2
  <2> QED BY <1>1, <2>1, <2>2, <2>3, <2>4 DEF ControlOK, params, AcceptsArgs
<1>3. CASE NextSection
  <2>1. program' = program /\ cfg' = cfg /\ seed' = seed /\ pool' = pool /\ pc' = 1
    BY <1>3 DEF NextSection, params
  <2>2. section' \in {"setup", "loop", "verify"} /\ rc' \in {"none", "success", "failure"}
    BY <1>1, <1>3 DEF NextSection
  <2>3. Len(Steps') \in Nat
    BY <1>1, <2>1, <2>2, ScriptParts DEF Steps
  <2>4. pc' \in 1..(Len(Steps') + 1)
    <3> HIDE DEF Steps
    <3> QED BY <2>1, <2>3
  <2>5. DOMAIN pool' = Roles' /\ \A r \in Roles' : DOMAIN pool'[r] = Fields
    BY <2>1 DEF ControlOK, Roles
  <2>6. AcceptsArgs(program, cfg)'
    BY <1>1, <2>1 DEF AcceptsArgs
  <2> HIDE DEF Steps, Roles, AcceptsArgs
  <2> QED BY <1>1, <2>1, <2>2, <2>4, <2>5, <2>6 DEF ControlOK, params
<1>4. CASE MovePage \/ UNCHANGED vars \/ Finished
  <2>1. UNCHANGED params /\ UNCHANGED control /\ UNCHANGED pool
    BY <1>4 DEF MovePage, vars, Finished
  <2> QED BY <1>1, <2>1 DEF ControlOK, params, control, AcceptsArgs, Roles, Steps
<1>5. Next => Shape \/ NextSection \/ MovePage \/ Finished
  BY ShapeOthers, ShapePools DEF Next, Main
<1> QED BY <1>2, <1>3, <1>4, <1>5

\* Main starts in its script.
LEMMA ControlInit ==
  ASSUME Init
  PROVE  ControlOK
<1>1. program \in Programs /\ cfg \in Configs /\ seed \in Seeds /\ AcceptsArgs(program, cfg)
      /\ section = "setup" /\ pc = 1 /\ rc = "none" /\ pool = [r \in Roles |-> NoPool]
  BY DEF Init
<1>2. Len(Steps) \in Nat
  BY <1>1, ScriptParts DEF Steps
<1>3. DOMAIN NoPool = Fields
  BY DEF NoPool, Fields
<1> HIDE DEF NoPool, Fields, Roles
<1> QED BY <1>1, <1>2, <1>3 DEF ControlOK

\* What is written, field by field.
LEMMA UpdateIs ==
  ASSUME ControlOK, NEW r \in Roles, NEW f \in Fields, NEW v, Update(r, f, v)
  PROVE  /\ \A q \in Roles : q # r => pool'[q] = pool[q]
         /\ pool'[r][f] = v
         /\ \A g \in Fields : g # f => pool'[r][g] = pool[r][g]
<1>1. DOMAIN pool = Roles /\ DOMAIN pool[r] = Fields
  BY DEF ControlOK
<1> HIDE DEF Roles, Fields
<1> QED BY <1>1 DEF Update

\* What the chains overwrite.
LEMMA LinkIs ==
  ASSUME ControlOK, NEW r \in Roles, NEW chain, NEW roots, Link(r, chain, roots)
  PROVE  /\ \A q \in Roles : q # r => pool'[q] = pool[q]
         /\ pool'[r].next = Over(chain, pool[r].next) /\ pool'[r].roots = roots
         /\ pool'[r].pages = pool[r].pages /\ pool'[r].counts = pool[r].counts
         /\ pool'[r].lines = pool[r].lines /\ pool'[r].hist = pool[r].hist
<1>1. DOMAIN pool = Roles /\ DOMAIN pool[r] = Fields
  BY DEF ControlOK
<1>2. "next" \in Fields /\ "roots" \in Fields /\ "pages" \in Fields /\ "counts" \in Fields /\ "lines" \in Fields /\ "hist" \in Fields
  BY DEF Fields
<1> HIDE DEF Roles, Fields
<1> QED BY <1>1, <1>2 DEF Link

-----------------------------------------------------------------------------
(* The pages.                                                              *)

PagesOK ==
    /\ DOMAIN pagemap = Roles /\ \A r \in Roles : pagemap[r] \in Seq(Frames)
    /\ doubt \subseteq Roles /\ early \subseteq Roles
    /\ todo \subseteq Range(Levels) /\ level \in Range(Levels)
    /\ program # "worker" => scanned = 0

\* A pool that has been made has its pages where they were, or they have
\* moved; a pool that moved before the verification has one that did.
PoolMade(r) ==
    /\ pool[r].pages \in Seq(Homes \ {{}}) /\ Len(pagemap[r]) = Len(pool[r].pages)
    /\ \A p \in 1..Len(pagemap[r]) : pagemap[r][p] \in {pool[r].pages[p], Elsewhere, {}}
    /\ r \in early => \E p \in 1..Len(pagemap[r]) : pagemap[r][p] # pool[r].pages[p]
PoolNew(r) == pool[r].pages = <<>> /\ pagemap[r] \in Seq(Homes) /\ r \notin early
PoolsOK ==
    program # "worker" => \A r \in Roles : IF Did("pool", r) THEN PoolMade(r) ELSE PoolNew(r)

\* A pool that moved early is in doubt once it has been looked at, and the
\* judgement has then not been passed.
VerifyOK ==
    section = "verify" =>
        \A r \in early, j \in 1..(pc - 1) :
            Steps[j] = Step("verify", r) => r \in doubt /\ \A k \in (j + 1)..(pc - 1) : Steps[k].op # "stable"

UnmovedInv == PagesOK /\ PoolsOK /\ VerifyOK /\ SuccessMeansUnmoved

\* What the rest of main leaves alone.
KeepsPages ==
    /\ UNCHANGED <<pagemap, early, doubt, program>>
    /\ \A r \in Roles : pool'[r].pages = pool[r].pages
    /\ todo' \subseteq todo /\ level' \in {level} \cup todo /\ (program = "worker" \/ scanned' = scanned)

\* In the first part and in the loop, nothing is verified.
LEMMA UnmovedKept ==
  ASSUME ControlOK, UnmovedInv, KeepsPages, section' # "verify" \/ UNCHANGED <<section, pc>>, rc' # "success" \/ rc' = rc,
         \A r \in Roles : Did("pool", r)' = Did("pool", r)
  PROVE  UnmovedInv'
<1>1. /\ pagemap' = pagemap /\ early' = early /\ doubt' = doubt /\ program' = program /\ Roles' = Roles
      /\ \A r \in Roles : pool'[r].pages = pool[r].pages
  BY DEF KeepsPages, Roles
<1> HIDE DEF Roles, Did
<1>2. PagesOK'
  BY <1>1 DEF UnmovedInv, PagesOK, KeepsPages
<1>3. PoolsOK'
  BY <1>1 DEF UnmovedInv, PoolsOK, PoolMade, PoolNew
<1>4. VerifyOK'
  <2>1. CASE section' # "verify"
    BY <2>1 DEF VerifyOK
  <2>2. CASE UNCHANGED <<section, pc>>
    <3>1. Steps' = Steps
      BY <1>1, <2>2 DEF Steps
    <3> HIDE DEF Steps
    <3> QED BY <1>1, <2>2, <3>1 DEF UnmovedInv, VerifyOK
  <2> QED BY <2>1, <2>2
<1>5. SuccessMeansUnmoved'
  BY <1>1 DEF UnmovedInv, SuccessMeansUnmoved
<1> QED BY <1>2, <1>3, <1>4, <1>5 DEF UnmovedInv

\* A step other than the creation of a pool.
LEMMA DidKept ==
  ASSUME ControlOK, Shape, Steps[pc].op # "pool"
  PROVE  \A r \in Roles : Did("pool", r)' = Did("pool", r)
<1>1. program' = program /\ Running
  BY DEF Shape, params
<1>2. \A r \in Roles : Step("pool", r) # Steps[pc]
  BY StepIs
<1>3. CASE Done
  <2>1. Known' = Known \/ Known' = Known \cup {Steps[pc]}
    BY <1>1, <1>3, KnownGrows
  <2> QED BY <1>2, <2>1 DEF Did
<1>4. CASE ~Done
  <2>1. UNCHANGED <<section, pc>>
    BY <1>4 DEF Shape, Stops, control
  <2>2. Known' = Known
    BY <1>1, <2>1, KnownStays
  <2> QED BY <2>2 DEF Did
<1> QED BY <1>3, <1>4

\* The verification comes last.
LEMMA NotYetVerify ==
  ASSUME ControlOK, Running, Steps[pc].op \notin {"verify", "stable"}
  PROVE  section # "verify"
  BY NextStep

\* Steps that keep the pages, but for the creation of pools and the end.
LEMMA UnmovedSteps ==
  ASSUME ControlOK, UnmovedInv, Shape, Steps[pc].op \notin {"pool", "verify", "stable"}, KeepsPages
  PROVE  UnmovedInv'
<1>1. section # "verify" /\ section' = section
  BY NotYetVerify DEF Shape, Done, Stops, control
<1>2. rc' # "success" \/ rc' = rc
  BY DEF Shape, Done, Stops, control
<1>3. \A r \in Roles : Did("pool", r)' = Did("pool", r)
  BY DidKept
<1> QED BY <1>1, <1>2, <1>3, UnmovedKept

\* Writing another field keeps the pages.
LEMMA PagesKept ==
  ASSUME ControlOK, NEW r \in Roles
  PROVE  /\ \A f \in {"counts", "lines", "hist"} : \A v : Update(r, f, v) => \A q \in Roles : pool'[q].pages = pool[q].pages
         /\ \A c, t : Link(r, c, t) => \A q \in Roles : pool'[q].pages = pool[q].pages
<1>0. "pages" \in Fields /\ {"counts", "lines", "hist"} \subseteq Fields
  BY DEF Fields
<1>1. ASSUME NEW f \in {"counts", "lines", "hist"}, NEW v, Update(r, f, v), NEW q \in Roles
      PROVE  pool'[q].pages = pool[q].pages
  <2>1. f \in Fields /\ f # "pages"
    BY <1>0
  <2>2. /\ \A s \in Roles : s # r => pool'[s] = pool[s]
        /\ \A g \in Fields : g # f => pool'[r][g] = pool[r][g]
    BY <1>1, <2>1, UpdateIs
  <2>3. pool'[r]["pages"] = pool[r]["pages"]
    BY <1>0, <2>1, <2>2
  <2> QED BY <2>2, <2>3
<1>2. ASSUME NEW c, NEW t, Link(r, c, t), NEW q \in Roles
      PROVE  pool'[q].pages = pool[q].pages
  BY <1>2, LinkIs
<1> QED BY <1>1, <1>2

\* Most of main does not touch the pages.
LEMMA UnmovedOthers ==
  ASSUME ControlOK, UnmovedInv,
         \/ load_mapping \/ DivideWorkset \/ ChooseClassSets \/ Accept \/ MakePermutation
         \/ CheckClass \/ CheckGranularity \/ ScanEnds \/ CheckCapacity \/ NextLevel \/ RunConditions
  PROVE  UnmovedInv'
<1>1. Shape
  BY ShapeOthers
<1>2. Steps[pc].op \notin {"pool", "verify", "stable"}
  BY DEF load_mapping, DivideWorkset, ChooseClassSets, Accept, MakePermutation, CheckClass, CheckGranularity, ScanEnds,
         CheckCapacity, NextLevel, RunConditions, At
<1>3. UNCHANGED <<pagemap, early, doubt, program, scanned, pool>>
  BY DEF load_mapping, DivideWorkset, ChooseClassSets, Accept, MakePermutation, CheckClass, CheckGranularity, ScanEnds,
         CheckCapacity, NextLevel, RunConditions, kernel, params, workerVars
<1>4. todo' \subseteq todo /\ level' \in {level} \cup todo
  BY DEF load_mapping, DivideWorkset, ChooseClassSets, Accept, MakePermutation, CheckClass, CheckGranularity, ScanEnds,
         CheckCapacity, NextLevel, RunConditions, sweepVars
<1>5. KeepsPages
  BY <1>3, <1>4 DEF KeepsPages
<1> QED BY <1>1, <1>2, <1>5, UnmovedSteps

\* Nor do the actions that write lines, counts and chains.
LEMMA UnmovedPools ==
  ASSUME ControlOK, UnmovedInv,
         \/ CountLines \/ CollectLines \/ BuildHistogram \/ SingleChain \/ MultiChain
         \/ ScanPage \/ ShuffleLines \/ LinkLines
  PROVE  UnmovedInv'
<1>1. Shape
  BY ShapePools
<1>2. Steps[pc].op \in {"count", "collect", "histogram", "single", "multi", "scan", "shuffle", "chain"} /\ Running
  BY DEF CountLines, CollectLines, BuildHistogram, SingleChain, MultiChain, ScanPage, ShuffleLines, LinkLines, At
<1>3. Who \in Roles
  BY <1>2, WhoIs
<1>4. ScanPage \/ ShuffleLines \/ LinkLines => program = "worker" /\ "worker" \in Roles
  <2> SUFFICES ASSUME ScanPage \/ ShuffleLines \/ LinkLines PROVE program = "worker" /\ "worker" \in Roles
    OBVIOUS
  <2>1. Steps[pc].op \in {"scan", "shuffle", "chain"}
    BY DEF ScanPage, ShuffleLines, LinkLines, At
  <2>2. Steps[pc] \in SetupPlan(program) \/ Steps[pc] \in LoopPlan(program) \/ Steps[pc].op \in {"verify", "stable"}
    BY <1>2, NextStep DEF ControlOK
  <2>3. program \in Programs
    BY DEF ControlOK
  <2>4. program = "worker"
    BY <2>1, <2>2, <2>3, PlanIs, LoopPlanIs
  <2> QED BY <2>3, <2>4, RolesKnown DEF Roles
<1>5. UNCHANGED <<pagemap, early, doubt, program, todo, level>>
  BY DEF CountLines, CollectLines, BuildHistogram, SingleChain, MultiChain, ScanPage, ShuffleLines, LinkLines,
         kernel, params, sweepVars
<1>6. program = "worker" \/ scanned' = scanned
  BY <1>4 DEF CountLines, CollectLines, BuildHistogram, SingleChain, MultiChain, workerVars
<1>7. \A r \in Roles : pool'[r].pages = pool[r].pages
  <2> HIDE DEF Roles, Update, Link, Who
  <2>1. CASE CountLines
    BY <1>3, <2>1, PagesKept DEF CountLines
  <2>2. CASE CollectLines
    BY <1>3, <2>2, PagesKept DEF CollectLines
  <2>3. CASE BuildHistogram
    BY <1>3, <2>3, PagesKept DEF BuildHistogram
  <2>4. CASE SingleChain
    BY <1>3, <2>4, PagesKept DEF SingleChain
  <2>5. CASE MultiChain
    BY <1>3, <2>5, PagesKept DEF MultiChain
  <2>6. CASE ScanPage
    BY <1>4, <2>6, PagesKept DEF ScanPage
  <2>7. CASE ShuffleLines
    BY <1>4, <2>7, PagesKept DEF ShuffleLines
  <2>8. CASE LinkLines
    BY <1>4, <2>8, PagesKept DEF LinkLines
  <2> QED BY <2>1, <2>2, <2>3, <2>4, <2>5, <2>6, <2>7, <2>8
<1>8. KeepsPages
  BY <1>5, <1>6, <1>7 DEF KeepsPages
<1> QED BY <1>1, <1>2, <1>8, UnmovedSteps

\* A pool is made from the pages that are there.
LEMMA UnmovedCreate ==
  ASSUME ControlOK, UnmovedInv, pool_create
  PROVE  UnmovedInv'
<1>1. Shape /\ Running /\ Steps[pc].op = "pool" /\ Who \in Roles /\ Steps[pc].who = Who
  BY ShapePools, WhoIs DEF pool_create, At, Who
<1>2. UNCHANGED <<pagemap, early, doubt, program, todo, level, scanned>>
  BY DEF pool_create, kernel, params, sweepVars, workerVars
<1>3. section # "verify" /\ section' = section /\ Roles' = Roles
  BY <1>1, <1>2, NotYetVerify DEF Shape, Done, Stops, control, Roles
<1>4. rc' # "success" \/ rc' = rc
  BY <1>1 DEF Shape, Done, Stops, control
<1> HIDE DEF Roles
<1>5. CASE Fail /\ UNCHANGED pool
  <2>1. UNCHANGED <<section, pc>>
    BY <1>5 DEF Fail, Abort
  <2>2. Known' = Known
    BY <1>2, <2>1, KnownStays
  <2>3. KeepsPages
    BY <1>2, <1>5 DEF KeepsPages
  <2> QED BY <1>3, <1>4, <2>2, <2>3, UnmovedKept DEF Did
<1>6. CASE (\A p \in DOMAIN pagemap[Who] : read_one_pfn(pagemap[Who][p])) /\ Update(Who, "pages", pagemap[Who]) /\ Done
  <2>0. PICK w \in Roles : w = Who
    BY <1>1
  <2>1. Known' = Known \cup {Steps[pc]}
    BY <1>1, <1>2, <1>3, <1>6, KnownGrows
  <2>2. Steps[pc] = Step("pool", w)
    BY <1>1, <2>0, NextStep
  <2>3. Did("pool", w)' /\ \A r \in Roles : r # w => Did("pool", r)' = Did("pool", r)
    BY <2>1, <2>2, StepIs DEF Did
  <2>4. ~Did("pool", w) /\ program # "worker"
    <3>1. program \in Programs /\ section \in {"setup", "loop"}
      BY <1>3 DEF ControlOK
    <3>2. Steps[pc] \notin Known /\ (Steps[pc] \in SetupPlan(program) \/ Steps[pc] \in LoopPlan(program))
      BY <1>1, <3>1, NextStep
    <3> QED BY <1>1, <2>2, <3>1, <3>2, PlanIs, LoopPlanIs DEF Did
  <2>5. "pages" \in Fields
    BY DEF Fields
  <2>6. pool'[w].pages = pagemap[w] /\ \A q \in Roles : q # w => pool'[q] = pool[q]
    BY <1>6, <2>0, <2>5, UpdateIs
  <2> HIDE DEF Did
  <2>7. PoolNew(w)
    BY <1>1, <2>4 DEF UnmovedInv, PoolsOK
  <2>8. PoolMade(w)'
    <3>1. pagemap[w] \in Seq(Homes) /\ w \notin early
      BY <2>7 DEF PoolNew
    <3>2. \A p \in 1..Len(pagemap[w]) : pagemap[w][p] \in Homes \ {{}}
      BY <1>6, <2>0, <3>1 DEF read_one_pfn
    <3>3. pagemap[w] \in Seq(Homes \ {{}})
      BY <3>1, <3>2
    <3>4. pool'[w].pages = pagemap[w] /\ pagemap' = pagemap /\ early' = early
      BY <1>2, <2>6
    <3> QED BY <3>1, <3>3, <3>4 DEF PoolMade
  <2>9. PagesOK'
    BY <1>2, <1>3 DEF UnmovedInv, PagesOK
  <2>10. PoolsOK'
    BY <1>2, <1>3, <2>3, <2>4, <2>6, <2>8 DEF UnmovedInv, PoolsOK, PoolMade, PoolNew
  <2>11. VerifyOK' /\ SuccessMeansUnmoved'
    BY <1>2, <1>3, <1>4 DEF UnmovedInv, VerifyOK, SuccessMeansUnmoved
  <2> QED BY <2>9, <2>10, <2>11 DEF UnmovedInv
<1> QED BY <1>5, <1>6 DEF pool_create

\* A call that fails, and the end of a program, change nothing here.
LEMMA UnmovedEnds ==
  ASSUME ControlOK, UnmovedInv, CallFails \/ Finished \/ UNCHANGED vars
  PROVE  UnmovedInv'
<1>1. UNCHANGED <<pagemap, early, doubt, program, todo, level, scanned, pool, section, pc>>
  BY DEF CallFails, Finished, vars, Abort, kernel, params, sweepVars, workerVars, control
<1>2. rc' # "success" \/ rc' = rc
  BY DEF CallFails, Finished, vars, Abort, control
<1>3. Known' = Known
  BY <1>1, KnownStays
<1>4. KeepsPages
  BY <1>1 DEF KeepsPages
<1> QED BY <1>1, <1>2, <1>3, <1>4, UnmovedKept DEF Did

\* Only the worker gives pages back.
LEMMA UnmovedRelease ==
  ASSUME ControlOK, UnmovedInv, ReleasePages
  PROVE  UnmovedInv'
<1>1. Shape /\ Running /\ Steps[pc].op = "release"
  BY ShapeOthers DEF ReleasePages, At
<1>2. program = "worker" /\ "worker" \in Roles
  <2>1. Steps[pc] \in SetupPlan(program) \/ Steps[pc] \in LoopPlan(program) \/ Steps[pc].op \in {"verify", "stable"}
    BY <1>1, NextStep DEF ControlOK
  <2>2. program \in Programs
    BY DEF ControlOK
  <2>3. program = "worker"
    BY <1>1, <2>1, <2>2, PlanIs, LoopPlanIs
  <2> QED BY <2>2, <2>3, RolesKnown DEF Roles
<1>3. UNCHANGED <<early, doubt, program, todo, level, scanned, pool>> /\ Done
  BY DEF ReleasePages, params, sweepVars, workerVars
<1>4. section # "verify" /\ section' = section /\ rc' = rc /\ Roles' = Roles
  BY <1>1, <1>3, NotYetVerify DEF Done, Roles
<1> HIDE DEF Roles
<1>5. DOMAIN pagemap = Roles /\ \A r \in Roles : pagemap[r] \in Seq(Frames)
  BY DEF UnmovedInv, PagesOK
<1> DEFINE m == pagemap["worker"]
           gone == Worker!release_unselected_pages(scanned, keep_page)
           now == [p \in DOMAIN m |-> IF p \in gone THEN {} ELSE m[p]]
<1>6. pagemap' = [pagemap EXCEPT !["worker"] = now]
  BY DEF ReleasePages
<1>7. now \in Seq(Frames)
  <2>1. m \in Seq(Frames) /\ {} \in Frames
    BY <1>2, <1>5 DEF Frames
  <2>2. DOMAIN m = 1..Len(m) /\ Len(m) \in Nat /\ \A p \in 1..Len(m) : m[p] \in Frames
    BY <2>1
  <2> HIDE DEF gone, m
  <2> QED BY <2>1, <2>2
<1> HIDE DEF now
<1>8. DOMAIN pagemap' = Roles /\ \A r \in Roles : pagemap'[r] \in Seq(Frames)
  BY <1>2, <1>5, <1>6, <1>7
<1>9. PagesOK'
  BY <1>2, <1>3, <1>4, <1>8 DEF UnmovedInv, PagesOK
<1>10. PoolsOK' /\ VerifyOK' /\ SuccessMeansUnmoved'
  BY <1>2, <1>3, <1>4 DEF PoolsOK, VerifyOK, SuccessMeansUnmoved
<1> QED BY <1>9, <1>10 DEF UnmovedInv

\* All pools have been made when the loop ends.
LEMMA PoolsDone ==
  ASSUME ControlOK, section # "setup", program # "worker", NEW r \in Roles
  PROVE  Did("pool", r)
<1>1. program \in Programs /\ SetupPlan(program) \subseteq Known
  BY KnownAfter DEF ControlOK
<1>2. program \in {"overlap", "sweep", "selective", "multi", "cpumax", "worker"}
  BY <1>1, OracleSetupAssumption
<1>3. CASE program = "sweep"
  <2>1. Roles = {"victim", "aggressor"}
    BY <1>1, <1>3, RolesKnown DEF Roles
  <2> HIDE DEF Roles
  <2>2. Step("pool", r) \in SetupPlan(program)
    BY <1>3, <2>1 DEF SetupPlan, BeginningSteps, Of
  <2> QED BY <1>1, <2>2 DEF Did
<1>4. CASE program # "sweep"
  <2>1. SetupPlan(program) = SetupSteps(Roles)
    BY <1>2, <1>4 DEF SetupPlan, Roles
  <2> HIDE DEF Roles
  <2>2. Step("pool", r) \in SetupPlan(program)
    BY <2>1 DEF SetupSteps, BeginningSteps, Of
  <2> QED BY <1>1, <2>2 DEF Did
<1> QED BY <1>3, <1>4

\* A pool that moved is found to have moved.
LEMMA UnmovedVerify ==
  ASSUME ControlOK, UnmovedInv, VerifyPool
  PROVE  UnmovedInv'
<1>1. Shape /\ Running /\ Steps[pc].op = "verify" /\ Who \in Roles /\ Steps[pc].who = Who /\ Done
  BY ShapeOthers, WhoIs DEF VerifyPool, At, Who
<1>2. UNCHANGED <<pagemap, early, program, todo, level, scanned, pool>>
  BY DEF VerifyPool, kernel, params, sweepVars, workerVars
<1>3. section = "verify" /\ program # "worker"
  <2>1. program \in Programs /\ section \in {"setup", "loop", "verify"}
    BY DEF ControlOK
  <2>2. /\ section = "setup" => Steps[pc] \in SetupPlan(program)
        /\ section = "loop" => Steps[pc] \in LoopPlan(program)
        /\ section = "verify" => program # "worker"
    BY <1>1, NextStep
  <2> QED BY <1>1, <2>1, <2>2, PlanIs, LoopPlanIs
<1>4. section' = section /\ pc' = pc + 1 /\ rc' = rc /\ Steps' = Steps /\ Roles' = Roles
  BY <1>1, <1>2 DEF Done, Steps, Roles
<1>5. PICK w \in Roles : w = Who
  BY <1>1
<1>6. Steps[pc] = Step("verify", w)
  BY <1>1, <1>5, NextStep
<1>7. doubt \subseteq doubt' /\ doubt' \subseteq doubt \cup {w}
  BY <1>5 DEF VerifyPool
<1>8. Did("pool", w)
  BY <1>3, PoolsDone
<1>9. w \in early => w \in doubt'
  <2> SUFFICES ASSUME w \in early PROVE w \in doubt'
    OBVIOUS
  <2>1. PoolMade(w)
    BY <1>3, <1>8 DEF UnmovedInv, PoolsOK
  <2>2. PICK p \in 1..Len(pagemap[w]) : pagemap[w][p] # pool[w].pages[p]
    BY <2>1 DEF PoolMade
  <2>3. p \in DOMAIN pool[w].pages
    BY <2>1, <2>2 DEF PoolMade
  <2> DEFINE found == verify_pool_pfns(pool[w].pages, pagemap[w])
  <2>4. p \in found.moved \/ p \in found.unreadable
    BY <2>2, <2>3 DEF verify_pool_pfns, read_one_pfn
  <2>5. found.moved # {} \/ found.unreadable # {}
    BY <2>4
  <2> QED BY <1>5, <2>5 DEF VerifyPool
<1> HIDE DEF Roles, Steps
<1>10. pc \in Nat
  BY StepsAre
<1>11. VerifyOK'
  <2> SUFFICES ASSUME NEW r \in early, NEW j \in 1..((pc + 1) - 1), Steps[j] = Step("verify", r)
               PROVE  r \in doubt' /\ \A k \in (j + 1)..((pc + 1) - 1) : Steps[k].op # "stable"
    BY <1>2, <1>3, <1>4 DEF VerifyOK
  <2>1. CASE j = pc
    BY <1>6, <1>9, <1>10, <2>1, StepIs
  <2>2. CASE j # pc
    <3>1. j \in 1..(pc - 1)
      BY <1>10, <2>2
    <3>2. r \in doubt /\ \A k \in (j + 1)..(pc - 1) : Steps[k].op # "stable"
      BY <1>3, <3>1 DEF UnmovedInv, VerifyOK
    <3>3. Steps[pc].op # "stable"
      BY <1>1
    <3>4. \A k \in (j + 1)..((pc + 1) - 1) : k = pc \/ k \in (j + 1)..(pc - 1)
      BY <1>10
    <3> QED BY <1>7, <3>2, <3>3, <3>4
  <2> QED BY <2>1, <2>2
<1>12. Known' = Known
  BY <1>1, <1>2, <1>3, KnownGrows
<1>13. PagesOK'
  BY <1>2, <1>4, <1>7 DEF UnmovedInv, PagesOK
<1>14. PoolsOK'
  BY <1>2, <1>4, <1>12 DEF UnmovedInv, PoolsOK, PoolMade, PoolNew, Did
<1>15. SuccessMeansUnmoved'
  BY <1>2, <1>4 DEF UnmovedInv, SuccessMeansUnmoved
<1> QED BY <1>11, <1>13, <1>14, <1>15 DEF UnmovedInv

\* The judgement is passed only when nothing is in doubt.
LEMMA UnmovedJudge ==
  ASSUME ControlOK, UnmovedInv, Judge
  PROVE  UnmovedInv'
<1>1. Shape /\ Running /\ Steps[pc].op = "stable"
  BY ShapeOthers DEF Judge, At
<1>2. UNCHANGED <<pagemap, early, doubt, program, todo, level, scanned, pool>>
  BY DEF Judge, kernel, params, sweepVars, workerVars
<1>3. rc' # "success" \/ rc' = rc
  BY <1>1 DEF Shape, Done, Stops, control
<1>4. KeepsPages
  BY <1>2 DEF KeepsPages
<1>5. \A r \in Roles : Did("pool", r)' = Did("pool", r)
  BY <1>1, DidKept
<1>6. CASE Fail
  BY <1>3, <1>4, <1>5, <1>6, UnmovedKept DEF Fail, Abort
<1>7. CASE doubt = {} /\ Done
  <2>1. section' = section /\ pc' = pc + 1 /\ rc' = rc /\ Steps' = Steps /\ Roles' = Roles
    BY <1>2, <1>7 DEF Done, Steps, Roles
  <2>2. pc \in Nat
    BY StepsAre
  <2> HIDE DEF Roles, Steps, Did
  <2>3. VerifyOK'
    <3> SUFFICES ASSUME section = "verify", NEW r \in early, NEW j \in 1..((pc + 1) - 1), Steps[j] = Step("verify", r)
                 PROVE  FALSE
      BY <1>2, <2>1 DEF VerifyOK
    <3>1. j # pc
      BY <1>1, StepIs
    <3>2. j \in 1..(pc - 1)
      BY <2>2, <3>1
    <3>3. r \in doubt
      BY <3>2 DEF UnmovedInv, VerifyOK
    <3> QED BY <1>7, <3>3
  <2>4. PagesOK'
    BY <1>2, <2>1 DEF UnmovedInv, PagesOK
  <2>5. PoolsOK'
    BY <1>2, <1>5, <2>1 DEF UnmovedInv, PoolsOK, PoolMade, PoolNew
  <2>6. SuccessMeansUnmoved'
    BY <1>2, <2>1 DEF UnmovedInv, SuccessMeansUnmoved
  <2> QED BY <2>3, <2>4, <2>5, <2>6 DEF UnmovedInv
<1> QED BY <1>6, <1>7 DEF Judge

\* Main succeeds when it has passed the judgement on every pool.
LEMMA UnmovedSection ==
  ASSUME ControlOK, UnmovedInv, NextSection
  PROVE  UnmovedInv'
<1>1. /\ UNCHANGED <<pagemap, early, doubt, program, todo, level, scanned, pool>>
      /\ pc' = 1 /\ pc > Len(Steps) /\ program \in Programs /\ section \in {"setup", "loop", "verify"}
  BY DEF NextSection, kernel, params, sweepVars, workerVars, ControlOK
<1>2. Roles' = Roles
  BY <1>1 DEF Roles
<1>3. PagesOK'
  <2> HIDE DEF Roles
  <2> QED BY <1>1, <1>2 DEF UnmovedInv, PagesOK
<1>4. PoolsOK'
  <2> SUFFICES ASSUME program # "worker", NEW r \in Roles
               PROVE  IF Did("pool", r)' THEN PoolMade(r) ELSE PoolNew(r)
    BY <1>1, <1>2 DEF PoolsOK, PoolMade, PoolNew
  <2>1. Known' \subseteq Known /\ SetupPlan(program) \subseteq Known'
    BY KnownSection
  <2>2. Step("pool", r) \in Known => Step("pool", r) \in SetupPlan(program)
    <3>1. Known \subseteq SetupPlan(program) \cup LoopPlan(program)
      BY KnownAfter
    <3>2. Step("pool", r) \notin LoopPlan(program)
      BY <1>1, StepIs, LoopPlanIs
    <3> QED BY <3>1, <3>2
  <2>3. Did("pool", r)' = Did("pool", r)
    BY <2>1, <2>2 DEF Did
  <2> HIDE DEF Did
  <2> QED BY <2>3 DEF UnmovedInv, PoolsOK
<1>5. VerifyOK'
  BY <1>1 DEF VerifyOK
<1>6. SuccessMeansUnmoved'
  <2> SUFFICES ASSUME rc' = "success", program # "worker" PROVE early = {}
    BY <1>1 DEF SuccessMeansUnmoved
  <2>1. section = "verify"
    BY <1>1 DEF NextSection
  <2>2. Verified(Steps, Roles)
    BY <1>1, <2>1, VerifyScript, StepsAre DEF Roles
  <2>3. pc \in Nat /\ Len(Steps) \in Nat
    BY StepsAre
  <2> HIDE DEF Roles, Steps
  <2>4. ASSUME NEW r \in early PROVE FALSE
    <3>1. r \in Roles
      BY DEF UnmovedInv, PagesOK
    <3>2. PICK j, k \in 1..Len(Steps) : j < k /\ Steps[j] = Step("verify", r) /\ Steps[k].op = "stable"
      BY <2>2, <3>1 DEF Verified
    <3>3. j \in 1..(pc - 1) /\ k \in (j + 1)..(pc - 1)
      BY <1>1, <2>3, <3>2
    <3> QED BY <2>1, <3>2, <3>3 DEF UnmovedInv, VerifyOK
  <2> QED BY <2>4
<1> QED BY <1>3, <1>4, <1>5, <1>6 DEF UnmovedInv

\* The kernel moves a page.
LEMMA UnmovedMove ==
  ASSUME ControlOK, UnmovedInv, MovePage
  PROVE  UnmovedInv'
<1>1. UNCHANGED <<program, section, pc, rc, doubt, todo, level, scanned, pool>> /\ rc = "none"
  BY DEF MovePage, params, control, sweepVars, workerVars
<1>0. PICK r \in Roles : \E p \in Movable \cap DOMAIN pagemap[r], to \in {Elsewhere, {}} :
         /\ pool[r].pages # <<>> \/ p <= scanned
         /\ pagemap' = [pagemap EXCEPT ![r][p] = to]
         /\ early' = IF section = "verify" THEN early ELSE early \cup {r}
  BY DEF MovePage
<1>2. PICK p \in Movable \cap DOMAIN pagemap[r], to \in {Elsewhere, {}} :
         /\ pool[r].pages # <<>> \/ p <= scanned
         /\ pagemap' = [pagemap EXCEPT ![r][p] = to]
         /\ early' = IF section = "verify" THEN early ELSE early \cup {r}
  BY <1>0
<1>3. Roles' = Roles /\ Steps' = Steps /\ Known' = Known
  BY <1>1, KnownStays DEF Roles, Steps
<1> HIDE DEF Roles, Steps
<1>4. DOMAIN pagemap = Roles /\ \A q \in Roles : pagemap[q] \in Seq(Frames)
  BY DEF UnmovedInv, PagesOK
<1>5. /\ DOMAIN pagemap' = Roles /\ \A q \in Roles : q # r => pagemap'[q] = pagemap[q]
      /\ pagemap'[r] = [pagemap[r] EXCEPT ![p] = to]
  BY <1>2, <1>4
<1>6. /\ pagemap'[r] \in Seq(Frames) /\ Len(pagemap'[r]) = Len(pagemap[r]) /\ p \in 1..Len(pagemap[r])
      /\ pagemap'[r][p] = to /\ \A k \in 1..Len(pagemap[r]) : k # p => pagemap'[r][k] = pagemap[r][k]
  <2>1. pagemap[r] \in Seq(Frames) /\ to \in Frames
    BY <1>4 DEF Frames
  <2>2. p \in 1..Len(pagemap[r])
    BY <1>2, <2>1
  <2> QED BY <1>5, <2>1, <2>2
<1>7. PagesOK'
  BY <1>1, <1>2, <1>3, <1>5, <1>6 DEF UnmovedInv, PagesOK
<1>8. VerifyOK'
  BY <1>1, <1>2, <1>3 DEF UnmovedInv, VerifyOK
<1>9. SuccessMeansUnmoved'
  BY <1>1 DEF SuccessMeansUnmoved
<1>10. PoolsOK'
  <2> SUFFICES ASSUME program # "worker", NEW q \in Roles
               PROVE  IF Did("pool", q) THEN PoolMade(q)' ELSE PoolNew(q)'
    BY <1>1, <1>3 DEF PoolsOK, Did
  <2>1. IF Did("pool", q) THEN PoolMade(q) ELSE PoolNew(q)
    BY DEF UnmovedInv, PoolsOK
  <2>2. pool' = pool
    BY <1>1
  <2>3. CASE q # r
    <3>1. pagemap'[q] = pagemap[q] /\ (q \in early' => q \in early)
      BY <1>2, <1>5, <2>3
    <3> QED BY <2>1, <2>2, <3>1 DEF PoolMade, PoolNew
  <2>4. CASE q = r
    <3>1. p <= scanned => FALSE
      <4>1. scanned = 0
        BY DEF UnmovedInv, PagesOK
      <4> QED BY <1>6, <4>1
    <3>2. Did("pool", r)
      BY <1>2, <2>1, <2>4, <3>1 DEF PoolNew
    <3>3. PoolMade(r)
      BY <2>1, <2>4, <3>2
    <3>4. pool[r].pages \in Seq(Homes \ {{}}) /\ Len(pagemap[r]) = Len(pool[r].pages)
      BY <3>3 DEF PoolMade
    <3>5. to # pool[r].pages[p]
      <4>1. pool[r].pages[p] \in Homes \ {{}}
        BY <1>6, <3>4
      <4> QED BY <4>1 DEF Homes
    <3>6. \A k \in 1..Len(pagemap'[r]) : pagemap'[r][k] \in {pool[r].pages[k], Elsewhere, {}}
      BY <1>6, <3>3 DEF PoolMade
    <3>7. \E k \in 1..Len(pagemap'[r]) : pagemap'[r][k] # pool[r].pages[k]
      BY <1>6, <3>5
    <3>8. PoolMade(r)'
      BY <1>6, <2>2, <3>4, <3>6, <3>7 DEF PoolMade
    <3> QED BY <2>4, <3>2, <3>8
  <2> QED BY <2>3, <2>4
<1> QED BY <1>7, <1>8, <1>9, <1>10 DEF UnmovedInv

\* At the start nothing has moved.
LEMMA UnmovedInit ==
  ASSUME Init
  PROVE  UnmovedInv
<1>1. PICK lay \in Layouts : pagemap = [r \in Roles |-> lay[r]]
  BY DEF Init
<1>2. program \in Programs /\ section = "setup" /\ pc = 1 /\ rc = "none" /\ early = {} /\ doubt = {} /\ scanned = 0
      /\ level = "o0" /\ todo \in {Range(Levels), {}} /\ pool = [r \in Roles |-> NoPool]
  BY DEF Init
<1>3. Known = {}
  BY <1>2 DEF Known, Past, LoopPast
<1>4. "o0" \in Range(Levels)
  BY PoolsDistinct
<1>5. ASSUME NEW r \in Roles PROVE pagemap[r] \in Seq(Homes)
  <2>1. r \in DOMAIN lay /\ pagemap[r] = lay[r]
    <3>1. Roles \subseteq {"victim", "high", "low", "aggressor", "worker"} \cup Range(Levels)
      BY <1>2, RolesKnown DEF Roles
    <3>2. {"victim", "high", "low", "aggressor", "worker"} \cup Range(Levels) \subseteq DOMAIN lay
      BY OracleSetupAssumption
    <3> HIDE DEF Roles
    <3> QED BY <1>1, <3>1, <3>2
  <2>2. lay[r] \in Seq(SUBSET Nat)
    BY <2>1, OracleSetupAssumption
  <2>3. \A p \in DOMAIN lay[r] : IsFiniteSet(lay[r][p]) /\ lay[r][p] # Elsewhere /\ \A b \in lay[r][p] : b >= Width
    BY <2>1, OracleSetupAssumption
  <2>4. \A p \in 1..Len(lay[r]) : lay[r][p] \in Homes
    BY <2>2, <2>3 DEF Homes
  <2> QED BY <2>1, <2>2, <2>4
<1> HIDE DEF Roles
<1>6. \A r \in Roles : pagemap[r] \in Seq(Frames)
  <2>1. Homes \subseteq Frames
    BY DEF Homes, Frames
  <2> QED BY <1>5, <2>1
<1>7. PagesOK
  BY <1>1, <1>2, <1>4, <1>6 DEF PagesOK
<1>8. PoolsOK
  BY <1>2, <1>3, <1>5 DEF PoolsOK, PoolNew, Did, NoPool
<1>9. VerifyOK /\ SuccessMeansUnmoved
  BY <1>2 DEF VerifyOK, SuccessMeansUnmoved
<1> QED BY <1>7, <1>8, <1>9 DEF UnmovedInv

\* Every step keeps the pages accounted for.
LEMMA UnmovedNext ==
  ASSUME ControlOK, UnmovedInv, [Next]_vars
  PROVE  UnmovedInv'
  BY UnmovedOthers, UnmovedPools, UnmovedCreate, UnmovedEnds, UnmovedRelease, UnmovedVerify, UnmovedJudge,
     UnmovedSection, UnmovedMove DEF Next, Main

\* Main never leaves its script, whatever fails.
THEOREM StaysInScript == Spec => []ControlOK
<1>1. Init => ControlOK
  BY ControlInit
<1>2. ControlOK /\ [Next]_vars => ControlOK'
  BY ControlNext
<1> QED BY <1>1, <1>2, PTL DEF Spec

\* SuccessMeansUnmoved: an experiment that reports success, from
\* verify_pool_pfns at the end of main, had no page of any pool move between
\* the creation of the pools and the verification, for any number of pools,
\* pages and moves.
THEOREM SuccessIsUnmoved == Spec => []SuccessMeansUnmoved
<1>1. Init => UnmovedInv
  BY UnmovedInit
<1>2. ControlOK /\ UnmovedInv /\ [Next]_vars => UnmovedInv'
  BY UnmovedNext
<1>3. UnmovedInv => SuccessMeansUnmoved
  BY DEF UnmovedInv
<1> QED BY <1>1, <1>2, <1>3, StaysInScript, PTL DEF Spec

-----------------------------------------------------------------------------
(* What the acceptance tests find prepared.                                *)

\* A test of r comes after the histograms of r and of the pools in Q.
Tested(s, Q) ==
    /\ s \in Seq(AllSteps)
    /\ \A k \in 1..Len(s) : s[k].op = "accept" =>
          \A q \in Q \cup {s[k].who} : \E j \in 1..(k - 1) : s[j] = Step("histogram", q)
Untested(s) == s \in Seq(AllSteps) /\ \A k \in 1..Len(s) : s[k].op # "accept"

\* Other stages make no test.
LEMMA UntestedStage ==
  ASSUME NEW s, NEW lo \in Int, NEW hi \in Int, Staged(s, lo, hi), hi < 7 \/ lo > 7
  PROVE  Untested(s)
<1>1. Stage("accept") = 7
  BY StageIs
<1>2. \A k \in 1..Len(s) : Stage(s[k].op) \in lo..hi
  BY DEF Staged
<1>3. \A n \in lo..hi : n # 7
  OBVIOUS
<1> QED BY <1>1, <1>2, <1>3 DEF Untested, Staged

\* The order is kept when other steps come before or after.
LEMMA TestedConcat ==
  ASSUME NEW a, NEW b, NEW Q, \/ Untested(a) /\ Tested(b, Q)
                              \/ Tested(a, Q) /\ Untested(b)
  PROVE  Tested(a \o b, Q)
<1>1. a \in Seq(AllSteps) /\ b \in Seq(AllSteps)
  BY DEF Untested, Tested
<1> DEFINE s == a \o b
           m == Len(a)
           n == Len(b)
<1>2. /\ s \in Seq(AllSteps) /\ Len(s) = m + n /\ m \in Nat /\ n \in Nat
      /\ \A k \in 1..m : s[k] = a[k]
      /\ \A k \in 1..n : s[m + k] = b[k]
  BY <1>1, ConcatIs
<1> HIDE DEF s, m, n
<1>3. ASSUME NEW k \in 1..Len(s), s[k].op = "accept", NEW q \in Q \cup {s[k].who}
      PROVE  \E j \in 1..(k - 1) : s[j] = Step("histogram", q)
  <2>1. CASE k <= m
    <3>1. k \in 1..m /\ s[k] = a[k]
      BY <1>2, <2>1
    <3>2. Tested(a, Q)
      BY <1>3, <3>1 DEF Untested, m
    <3>3. PICK j \in 1..(k - 1) : a[j] = Step("histogram", q)
      BY <1>3, <3>1, <3>2 DEF Tested, m
    <3>4. j \in 1..m
      BY <1>2, <3>1
    <3> QED BY <1>2, <3>3, <3>4
  <2>2. CASE ~(k <= m)
    <3> DEFINE l == k - m
    <3>1. l \in 1..n /\ k = m + l
      BY <1>2, <2>2
    <3> HIDE DEF l
    <3>2. s[k] = b[l]
      BY <1>2, <3>1
    <3>3. Tested(b, Q)
      BY <1>3, <3>1, <3>2 DEF Untested, n
    <3>4. PICK j \in 1..(l - 1) : b[j] = Step("histogram", q)
      BY <1>3, <3>1, <3>2, <3>3 DEF Tested, n
    <3>5. j \in 1..n /\ m + j \in 1..(k - 1)
      BY <1>2, <3>1
    <3>6. s[m + j] = b[j]
      BY <1>2, <3>5
    <3> QED BY <3>4, <3>5, <3>6
  <2> QED BY <2>1, <2>2
<1>4. Tested(s, Q)
  BY <1>2, <1>3 DEF Tested
<1> QED BY <1>4 DEF s

\* All histograms first.
LEMMA TestedAll ==
  ASSUME NEW P, Distinct(P), NEW A, Distinct(A), Range(A) \subseteq Range(P), NEW Q, Q \subseteq Range(P)
  PROVE  Tested(ForEach("histogram", P) \o ForEach("accept", A), Q)
<1> DEFINE a == ForEach("histogram", P)
           b == ForEach("accept", A)
           s == a \o b
<1>0. P \in Seq(Whos) /\ A \in Seq(Whos) /\ "histogram" \in Ops /\ "accept" \in Ops
  BY DEF Distinct, Ops
<1>1. /\ a = [i \in 1..Len(P) |-> Step("histogram", P[i])] /\ b = [i \in 1..Len(A) |-> Step("accept", A[i])]
      /\ Len(P) \in Nat /\ Len(A) \in Nat
  BY <1>0 DEF ForEach
<1>2. (\A i \in 1..Len(P) : P[i] \in Whos) /\ (\A i \in 1..Len(A) : A[i] \in Whos)
  BY <1>0
<1>3. (\A i \in 1..Len(P) : Step("histogram", P[i]) \in AllSteps) /\ (\A i \in 1..Len(A) : Step("accept", A[i]) \in AllSteps)
  BY <1>0, <1>2, StepIs
<1>4. a \in Seq(AllSteps) /\ Len(a) = Len(P) /\ b \in Seq(AllSteps) /\ Len(b) = Len(A)
  BY <1>1, <1>3
<1>5. (\A i \in 1..Len(P) : a[i] = Step("histogram", P[i])) /\ (\A i \in 1..Len(A) : b[i] = Step("accept", A[i]))
  BY <1>1
<1> HIDE DEF a, b
<1>6. /\ s \in Seq(AllSteps) /\ Len(s) = Len(P) + Len(A)
      /\ \A k \in 1..Len(P) : s[k] = a[k]
      /\ \A k \in 1..Len(A) : s[Len(P) + k] = b[k]
  <2>1. /\ s \in Seq(AllSteps) /\ Len(s) = Len(a) + Len(b)
        /\ \A k \in 1..Len(a) : s[k] = a[k]
        /\ \A k \in 1..Len(b) : s[Len(a) + k] = b[k]
    <3>1. ASSUME NEW x \in Seq(AllSteps), NEW y \in Seq(AllSteps)
          PROVE  /\ x \o y \in Seq(AllSteps) /\ Len(x \o y) = Len(x) + Len(y)
                 /\ \A k \in 1..Len(x) : (x \o y)[k] = x[k]
                 /\ \A k \in 1..Len(y) : (x \o y)[Len(x) + k] = y[k]
      BY ONLY <3>1, ConcatIs
    <3> QED BY <1>4, <3>1, Zenon
  <2> HIDE DEF s
  <2> QED BY <1>4, <2>1
<1> HIDE DEF s
<1>7. ASSUME NEW k \in 1..Len(s), s[k].op = "accept", NEW q \in Q \cup {s[k].who}
      PROVE  \E j \in 1..(k - 1) : s[j] = Step("histogram", q)
  <2>1. ~(k \in 1..Len(P))
    <3> SUFFICES ASSUME k \in 1..Len(P) PROVE FALSE
      OBVIOUS
    <3>1. s[k] = Step("histogram", P[k])
      BY <1>5, <1>6
    <3>2. s[k].op = "histogram"
      BY <3>1, StepIs
    <3> QED BY <1>7, <3>2
  <2> DEFINE l == k - Len(P)
  <2>2. l \in 1..Len(A) /\ k = Len(P) + l
    BY <1>1, <1>6, <2>1
  <2> HIDE DEF l
  <2>3. s[k] = Step("accept", A[l])
    BY <1>5, <1>6, <2>2
  <2>4. s[k].who = A[l] /\ A[l] \in Range(A)
    BY <1>0, <2>2, <2>3, StepIs, RangeIs
  <2>5. q \in Range(P)
    BY <2>4
  <2>6. PICK j \in 1..Len(P) : P[j] = q
    BY <1>0, <2>5, RangeIs
  <2>7. j \in 1..(k - 1)
    BY <1>1, <2>2
  <2> QED BY <1>5, <1>6, <2>6, <2>7
<1>8. Tested(s, Q)
  BY <1>6, <1>7 DEF Tested
<1> QED BY <1>8 DEF s, a, b

\* A histogram and its test in turn.
LEMMA TestedPairs ==
  ASSUME NEW v, Distinct(v)
  PROVE  Tested(ForEachAll(<<"histogram", "accept">>, v), {})
<1> DEFINE s == ForEachAll(<<"histogram", "accept">>, v)
<1>0. v \in Seq(Whos) /\ "histogram" \in Ops /\ "accept" \in Ops
  BY DEF Distinct, Ops
<1>1. /\ s \in Seq(AllSteps) /\ Len(s) = 2 * Len(v) /\ Len(v) \in Nat
      /\ \A k \in 1..Len(v) : 2 * k - 1 \in 1..Len(s) /\ s[2 * k - 1] = Step("histogram", v[k])
      /\ \A i \in 1..Len(s) : \E k \in 1..Len(v) :
            (i = 2 * k - 1 /\ s[i] = Step("histogram", v[k])) \/ (i = 2 * k /\ s[i] = Step("accept", v[k]))
  BY <1>0, PairsAt
<1> HIDE DEF s
<1>2. ASSUME NEW i \in 1..Len(s), s[i].op = "accept"
      PROVE  \E j \in 1..(i - 1) : s[j] = Step("histogram", s[i].who)
  <2>1. PICK k \in 1..Len(v) :
            (i = 2 * k - 1 /\ s[i] = Step("histogram", v[k])) \/ (i = 2 * k /\ s[i] = Step("accept", v[k]))
    BY <1>1
  <2>2. i = 2 * k /\ s[i] = Step("accept", v[k])
    BY <1>2, <2>1, StepIs
  <2>3. s[i].who = v[k] /\ s[2 * k - 1] = Step("histogram", v[k])
    BY <1>1, <2>2, StepIs
  <2>4. 2 * k - 1 \in 1..(i - 1)
    BY <1>1, <2>2
  <2> QED BY <2>3, <2>4
<1>3. Tested(s, {})
  BY <1>1, <1>2 DEF Tested
<1> QED BY <1>3 DEF s

\* The victim's histogram first, then the others'.
LEMMA TestedVictim ==
  ASSUME NEW h \in AllSteps, h = Step("histogram", "victim"), NEW b, Tested(b, {})
  PROVE  Tested(<<h>> \o b, {"victim"})
<1> DEFINE s == <<h>> \o b
           n == Len(b)
<1>1. b \in Seq(AllSteps) /\ <<h>> \in Seq(AllSteps) /\ Len(<<h>>) = 1 /\ h.op # "accept" /\ Untested(<<h>>)
  BY StepIs DEF Tested, Untested
<1>2. /\ s \in Seq(AllSteps) /\ Len(s) = 1 + n /\ n \in Nat
      /\ \A k \in 1..1 : s[k] = <<h>>[k]
      /\ \A k \in 1..n : s[1 + k] = b[k]
  BY <1>1, ConcatIs
<1>3. s[1] = h
  BY <1>2
<1>4. Tested(s, {})
  BY <1>1, TestedConcat
<1> HIDE DEF s, n
<1>5. ASSUME NEW k \in 1..Len(s), s[k].op = "accept", NEW q \in {"victim"} \cup {s[k].who}
      PROVE  \E j \in 1..(k - 1) : s[j] = Step("histogram", q)
  <2>1. CASE q = "victim"
    <3>1. k # 1
      BY <1>1, <1>3, <1>5
    <3>2. 1 \in 1..(k - 1)
      BY <1>2, <3>1
    <3> QED BY <1>3, <2>1, <3>2
  <2>2. CASE q = s[k].who
    BY <1>4, <1>5, <2>2 DEF Tested
  <2> QED BY <2>1, <2>2
<1>6. Tested(s, {"victim"})
  BY <1>2, <1>5 DEF Tested
<1> QED BY <1>6 DEF s

\* Parts without a test make a part without a test.
LEMMA UntestedConcat ==
  ASSUME NEW a, NEW b, Untested(a), Untested(b)
  PROVE  Untested(a \o b)
<1>1. a \in Seq(AllSteps) /\ b \in Seq(AllSteps)
  BY DEF Untested
<1> DEFINE s == a \o b
           m == Len(a)
           n == Len(b)
<1>2. /\ s \in Seq(AllSteps) /\ Len(s) = m + n /\ m \in Nat /\ n \in Nat
      /\ \A k \in 1..m : s[k] = a[k]
      /\ \A k \in 1..n : s[m + k] = b[k]
  BY <1>1, ConcatIs
<1>3. (\A k \in 1..m : a[k].op # "accept") /\ (\A k \in 1..n : b[k].op # "accept")
  BY DEF Untested
<1> HIDE DEF s, m, n
<1>4. ASSUME NEW k \in 1..Len(s)
      PROVE  s[k].op # "accept"
  <2>1. CASE k \in 1..m
    BY <1>2, <1>3, <2>1
  <2>2. CASE ~(k \in 1..m)
    <3> DEFINE l == k - m
    <3>1. l \in 1..n /\ k = m + l
      BY <1>2, <2>2
    <3> HIDE DEF l
    <3>2. s[k] = b[l]
      BY <1>2, <3>1
    <3> QED BY <1>3, <3>1, <3>2
  <2> QED BY <2>1, <2>2
<1>5. Untested(s)
  BY <1>2, <1>4 DEF Untested
<1> QED BY <1>5 DEF s

\* The test of four programs.
LEMMA TestedRest ==
  ASSUME NEW P, Distinct(P), NEW A, Distinct(A), NEW check, Tested(check, {"victim"})
  PROVE  Tested(Rest(P, check, A), {"victim"})
<1> DEFINE a == Beginning(P)
           b == ForEach("collect", P)
           d == <<Step("permutation", "main"), Step("single", "victim")>>
           e == ForEach("multi", A)
<1>0. /\ "collect" \in Ops /\ "permutation" \in Ops /\ "single" \in Ops /\ "multi" \in Ops
      /\ "main" \in Whos /\ "victim" \in Whos
      /\ Stage("collect") = 6 /\ Stage("permutation") = 8 /\ Stage("single") = 9 /\ Stage("multi") = 9
  BY StageIs DEF Ops, Whos
<1>1. Staged(a, 1, 5) /\ Staged(b, 6, 6) /\ Staged(d, 8, 9) /\ Staged(e, 9, 9)
  BY <1>0, StagedBeginning, StagedForEach, StagedTwo
<1> HIDE DEF a, b, d, e
<1>2. Untested(a) /\ Untested(b) /\ Untested(d) /\ Untested(e)
  <2>1. 1 \in Int /\ 5 \in Int /\ 6 \in Int /\ 8 \in Int /\ 9 \in Int /\ 5 < 7 /\ 6 < 7 /\ 8 > 7 /\ 9 > 7
    OBVIOUS
  <2>2. Untested(a)
    BY <1>1, <2>1, UntestedStage, Zenon
  <2>3. Untested(b)
    BY <1>1, <2>1, UntestedStage, Zenon
  <2>4. Untested(d)
    BY <1>1, <2>1, UntestedStage, Zenon
  <2>5. Untested(e)
    BY <1>1, <2>1, UntestedStage, Zenon
  <2> QED BY <2>2, <2>3, <2>4, <2>5
<1>3. Untested(a \o b) /\ Untested(d \o e)
  BY <1>2, UntestedConcat
<1>4. Tested((a \o b) \o check, {"victim"})
  BY <1>3, TestedConcat
<1>5. Tested(((a \o b) \o check) \o (d \o e), {"victim"})
  BY <1>3, <1>4, TestedConcat
<1>6. Rest(P, check, A) = a \o b \o check \o (d \o e)
  BY DEF Rest, a, b, d, e
<1> QED BY <1>5, <1>6

\* In its first part, every experiment has the victim's histogram and the
\* pool's before it tests a pool.
LEMMA SetupTested ==
  ASSUME NEW p \in Programs, p # "worker"
  PROVE  Tested(Script[p].setup, {"victim"})
<1>1. p \in {"overlap", "sweep", "selective", "multi", "cpumax"}
  BY OracleSetupAssumption
<1>2. CASE p \in {"overlap", "selective"}
  <2> DEFINE A == <<"high", "low">>
             c == ForEach("histogram", Main3) \o ForEach("accept", A)
  <2>1. Distinct(Main3) /\ Distinct(A) /\ Range(A) \subseteq Range(Main3) /\ {"victim"} \subseteq Range(Main3)
    BY PoolsDistinct DEF Main3
  <2>2. Script[p].setup = Overlap!setup \/ Script[p].setup = Selective!setup
    BY <1>2 DEF Script
  <2>3. Script[p].setup = Rest(Main3, c, A)
    BY <2>2, SetupsAre
  <2> HIDE DEF A
  <2>4. Tested(c, {"victim"})
    BY <2>1, TestedAll
  <2> HIDE DEF c
  <2> QED BY <2>1, <2>3, <2>4, TestedRest
<1>3. CASE p \in {"multi", "cpumax"}
  <2> DEFINE t == ForEachAll(<<"histogram", "accept">>, Levels)
             h == Step("histogram", "victim")
             c == ForEach("histogram", <<"victim">>) \o t
  <2>1. Distinct(Main6) /\ Distinct(Levels)
    BY PoolsDistinct DEF Main6
  <2>2. Script[p].setup = Multi!setup \/ Script[p].setup = CpuMax!setup
    BY <1>3 DEF Script
  <2>3. Script[p].setup = Rest(Main6, c, Levels)
    BY <2>2, SetupsAre
  <2>4. ForEach("histogram", <<"victim">>) = <<h>>
    BY DEF ForEach, h
  <2>5. Tested(t, {}) /\ h \in AllSteps
    BY <2>1, TestedPairs, StepIs DEF Ops, Whos
  <2> HIDE DEF t
  <2>6. Tested(<<h>> \o t, {"victim"})
    <3> DEFINE k == h
    <3>1. k = Step("histogram", "victim") /\ k \in AllSteps
      BY <2>5
    <3> HIDE DEF k
    <3>2. Tested(<<k>> \o t, {"victim"})
      BY <2>5, <3>1, TestedVictim
    <3> QED BY <3>2 DEF k
  <2>7. Tested(c, {"victim"})
    BY <2>4, <2>6
  <2> HIDE DEF c
  <2> QED BY <2>1, <2>3, <2>7, TestedRest
<1>4. CASE p = "sweep"
  <2> DEFINE P == <<"victim", "aggressor">>
             a == Beginning(P)
             x == Step("collect", "victim")
             y == Step("histogram", "victim")
             z == Step("accept", "victim")
             b == <<x, y, z>>
             c == <<Step("permutation", "main"), Step("single", "victim")>>
  <2>0. /\ {"collect", "histogram", "accept", "permutation", "single"} \subseteq Ops /\ "main" \in Whos /\ "victim" \in Whos
        /\ Stage("permutation") = 8 /\ Stage("single") = 9
    BY StageIs DEF Ops, Whos
  <2>1. Distinct(P)
    BY PoolsDistinct
  <2>2. Staged(a, 1, 5)
    <3> HIDE DEF P
    <3> QED BY <2>1, StagedBeginning
  <2>3. Staged(c, 8, 9)
    BY <2>0, StagedTwo
  <2>4. Script["sweep"].setup = a \o (b \o c)
    <3>1. Script["sweep"].setup = Sweep!setup
      BY <1>4 DEF Script
    <3>2. ForEachAll(<<"collect", "histogram", "accept">>, <<"victim">>) = b
      BY StepsForOne
    <3>3. Sweep!setup = a \o (ForEachAll(<<"collect", "histogram", "accept">>, <<"victim">>) \o c)
      BY SetupsAre, Zenon
    <3> QED BY <3>1, <3>2, <3>3
  <2>5. Tested(b, {"victim"})
    <3>1. /\ x \in AllSteps /\ y \in AllSteps /\ z \in AllSteps /\ x.op # "accept" /\ y.op # "accept" /\ z.who = "victim"
          /\ y = Step("histogram", "victim")
      BY <2>0, StepIs
    <3> HIDE DEF x, y, z
    <3>2. b \in Seq(AllSteps) /\ Len(b) = 3 /\ b[1] = x /\ b[2] = y /\ b[3] = z
      BY <3>1
    <3> HIDE DEF b
    <3>3. ASSUME NEW k \in 1..Len(b), b[k].op = "accept", NEW q \in {"victim"} \cup {b[k].who}
          PROVE  \E j \in 1..(k - 1) : b[j] = Step("histogram", q)
      <4>1. k \in {1, 2, 3}
        BY <3>2
      <4>2. k = 3
        BY <3>1, <3>2, <3>3, <4>1
      <4>3. q = "victim" /\ 2 \in 1..(k - 1)
        BY <3>1, <3>2, <4>2
      <4> QED BY <3>1, <3>2, <4>3
    <3> QED BY <3>2, <3>3 DEF Tested
  <2> HIDE DEF a, b, c
  <2>6. Untested(a) /\ Untested(c)
    <3>1. 1 \in Int /\ 5 \in Int /\ 8 \in Int /\ 9 \in Int /\ 5 < 7 /\ 8 > 7
      OBVIOUS
    <3>2. Untested(a)
      BY <2>2, <3>1, UntestedStage, Zenon
    <3>3. Untested(c)
      BY <2>3, <3>1, UntestedStage, Zenon
    <3> QED BY <3>2, <3>3
  <2>7. Tested(b \o c, {"victim"})
    BY <2>5, <2>6, TestedConcat
  <2>8. Tested(a \o (b \o c), {"victim"})
    BY <2>6, <2>7, TestedConcat
  <2> QED BY <1>4, <2>4, <2>8
<1> QED BY <1>1, <1>2, <1>3, <1>4

\* In the sweep's loop, the level's histogram comes before the test.
LEMMA LoopTested ==
  ASSUME "sweep" \in Programs
  PROVE  Tested(Script["sweep"].loop, {})
<1> DEFINE a == <<Step("level", "aggressor"), Step("collect", "aggressor")>>
           b == ForEachAll(<<"histogram", "accept">>, <<"aggressor">>)
           c == <<Step("multi", "aggressor"), Step("run", "main")>>
<1>0. /\ {"level", "collect", "histogram", "accept", "multi", "run"} \subseteq Ops
      /\ "main" \in Whos /\ "aggressor" \in Whos
      /\ Stage("level") = 1 /\ Stage("collect") = 6 /\ Stage("multi") = 9 /\ Stage("run") = 10
  BY StageIs DEF Ops, Whos
<1>1. Staged(a, 1, 6) /\ Staged(c, 9, 10)
  BY <1>0, StagedTwo
<1>2. Tested(b, {})
  <2> DEFINE v == <<"aggressor">>
  <2>1. Distinct(v)
    BY DEF Distinct, Whos
  <2> HIDE DEF v
  <2>2. Tested(ForEachAll(<<"histogram", "accept">>, v), {})
    BY <2>1, TestedPairs
  <2> QED BY <2>2 DEF v
<1>3. Script["sweep"].loop = a \o b \o c
  <2>1. Script["sweep"].loop = Sweep!loop
    BY DEF Script
  <2>2. Sweep!loop = ForEachAll(<<"level", "collect">>, <<"aggressor">>) \o b \o c
    BY Zenon DEF Sweep!loop, Sweep!NewLines, Sweep!TestLines, Sweep!ForEachAll, Sweep!Step, ForEachAll, Step
  <2>3. ForEachAll(<<"level", "collect">>, <<"aggressor">>) = a
    BY StepsForOne
  <2> QED BY <2>1, <2>2, <2>3, Zenon
<1> HIDE DEF a, b, c
<1>4. Untested(a) /\ Untested(c)
  <2>1. 1 \in Int /\ 6 \in Int /\ 9 \in Int /\ 10 \in Int /\ 6 < 7 /\ 9 > 7
    OBVIOUS
  <2>2. Untested(a)
    BY <1>1, <2>1, UntestedStage, Zenon
  <2>3. Untested(c)
    BY <1>1, <2>1, UntestedStage, Zenon
  <2> QED BY <2>2, <2>3
<1>5. Tested(a \o b, {})
  BY <1>2, <1>4, TestedConcat
<1>6. Tested((a \o b) \o c, {})
  BY <1>4, <1>5, TestedConcat
<1> QED BY <1>3, <1>6

\* So both histograms are there when main tests.
LEMMA TestReady ==
  ASSUME ControlOK, Running, Steps[pc].op = "accept"
  PROVE  program # "worker" /\ Did("histogram", Who) /\ Did("histogram", "victim")
<1> DEFINE st == Steps[pc]
           S == Script[program].setup
           L == Script[program].loop
<1>0. program \in Programs /\ section \in {"setup", "loop", "verify"} /\ st.op = "accept"
  BY DEF ControlOK
<1>1. /\ section = "setup" => Steps = S
      /\ section = "loop" => Steps = L
      /\ Len(Steps) \in Nat /\ pc \in 1..Len(Steps)
  BY StepsAre
<1>2. /\ section = "setup" => st \in SetupPlan(program)
      /\ section = "loop" => st \in LoopPlan(program) /\ SetupPlan(program) \subseteq Known
      /\ section = "verify" => st.op \in {"verify", "stable"}
  BY NextStep
<1>3. section # "verify"
  BY <1>0, <1>2
<1>4. CASE section = "setup"
  <2>1. program # "worker"
    BY <1>0, <1>2, <1>4, PlanIs
  <2>2. Tested(S, {"victim"})
    BY <1>0, <2>1, SetupTested
  <2>3. st = S[pc] /\ pc \in 1..Len(S)
    BY <1>1, <1>4
  <2>4. \A q \in {"victim", st.who} : \E j \in 1..(pc - 1) : S[j] = Step("histogram", q)
    <3> HIDE DEF S
    <3> QED BY <1>0, <2>2, <2>3 DEF Tested
  <2>5. Past = {S[j] : j \in 1..(pc - 1)}
    BY <1>4 DEF Past
  <2>6. \A q \in {"victim", st.who} : Step("histogram", q) \in Past
    <3> HIDE DEF S
    <3> QED BY <2>4, <2>5
  <2> QED BY <2>1, <2>6 DEF Did, Known, Who
<1>5. CASE section = "loop"
  <2>1. st \in LoopPlan(program) /\ SetupPlan(program) \subseteq Known
    BY <1>2, <1>5
  <2>2. program = "sweep"
    <3>1. st = Step("run", "main") \/ program = "sweep"
      BY <1>0, <2>1, LoopPlanIs
    <3> QED BY <1>0, <3>1, StepIs
  <2>3. Did("histogram", "victim")
    BY <2>1, <2>2 DEF SetupPlan, Did
  <2>4. Tested(L, {})
    BY <1>0, <2>2, LoopTested
  <2>5. st = L[pc] /\ pc \in 1..Len(L)
    BY <1>1, <1>5
  <2>6. \E j \in 1..(pc - 1) : L[j] = Step("histogram", st.who)
    <3> HIDE DEF L
    <3> QED BY <1>0, <2>4, <2>5 DEF Tested
  <2>7. LoopPast = {L[j] : j \in 1..(pc - 1)}
    BY <1>5 DEF LoopPast
  <2>8. Step("histogram", st.who) \in LoopPast
    <3> HIDE DEF L
    <3> QED BY <2>6, <2>7
  <2> QED BY <2>2, <2>3, <2>8 DEF Did, Known, Who
<1> QED BY <1>0, <1>3, <1>4, <1>5
=============================================================================
